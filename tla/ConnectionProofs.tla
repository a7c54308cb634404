--------------------------- MODULE ConnectionProofs ---------------------------
(***************************************************************************)
(* The client's connection, proved: its states agree with what is under    *)
(* way, listens are counted right, it is never stuck, its writes are       *)
(* neither lost, completed twice nor overtaken, and it implements          *)
(* WriteQueue.                                                             *)
(***************************************************************************)
EXTENDS PersistentConnection, SequenceTheorems, FiniteSetTheorems, TLAPS

Completions == [index : 1..putCounter, status : {"ok", "denied", "canceled"}]

ControlTypes ==
    /\ connectionState \in {"Disconnected", "GettingToken", "Connecting",
                            "Authenticating", "Connected"}
    /\ interruptReasons \subseteq Reason
    /\ scheduledRetry \in {"none", "normal", "forced"}
    /\ forceAuthTokenRefresh \in BOOLEAN /\ authToken \in BOOLEAN /\ refused \in BOOLEAN
    /\ currentFetchTokenAttempt \in Nat
    /\ fetches \subseteq [attempt : 1..currentFetchTokenAttempt, force : BOOLEAN]
    /\ realtime \in {"nil", "connecting", "connected"}
    /\ events \in 0..MaxEvents

RequestTypes == /\ requests \in Seq(Request)
                /\ listens \subseteq Listens
                /\ unackedListensCount \in Nat

WriteTypes == /\ putCounter \in 0..MaxPuts
              /\ outstandingPuts \in Seq(1..putCounter)
              /\ log \in Seq(1..MaxPuts)
              /\ putsToAck \in Seq(Completions)
              /\ completed \in Seq(Completions)

\* The client waits for at most one of its fetches, and while it is getting a
\* token there is one.
FetchAwaited ==
    /\ \A f, g \in fetches : f.attempt = g.attempt => f = g
    /\ connectionState = "GettingToken" =>
          \E f \in fetches : f.attempt = currentFetchTokenAttempt

\* Without the fetch that is waited for, resuming from an interruption could
\* leave the client stranded; without the types, a listen's answer could
\* count below zero.
ControlInv ==
    /\ ControlTypes /\ RequestTypes /\ WriteTypes
    /\ StateAgrees /\ UnackedListensCounted /\ FetchAwaited /\ NeverStranded

-----------------------------------------------------------------------------
(* Sequences of requests.                                                  *)

ListensAt(s) == {i \in DOMAIN s : s[i].kind = "listen"}

\* What an answer leaves of a sequence (removing a callback, a write).
LEMMA RemoveAtProperties ==
    ASSUME NEW S, NEW s \in Seq(S), NEW i \in 1..Len(s)
    PROVE  /\ RemoveAt(s, i) \in Seq(S)
           /\ Len(RemoveAt(s, i)) = Len(s) - 1
           /\ \A j \in 1..(Len(s) - 1) :
                 RemoveAt(s, i)[j] = IF j < i THEN s[j] ELSE s[j + 1]
<1> DEFINE a == SubSeq(s, 1, i - 1)
           b == SubSeq(s, i + 1, Len(s))
<1>1. /\ a \in Seq(S) /\ Len(a) = i - 1
      /\ \A j \in 1..(i - 1) : a[j] = s[j]
  <2>1. \A j \in 1..(i - 1) : s[j] \in S
    BY ElementOfSeq
  <2> QED BY <2>1, SubSeqProperties
<1>2. /\ b \in Seq(S) /\ Len(b) = Len(s) - i
      /\ \A j \in 1..(Len(s) - i) : b[j] = s[j + i]
  <2>1. \A j \in (i + 1)..Len(s) : s[j] \in S
    BY ElementOfSeq
  <2>2. Len(s) \in Nat
    BY LenProperties
  <2>3. /\ b \in Seq(S)
        /\ Len(b) = IF i + 1 <= Len(s) THEN Len(s) - (i + 1) + 1 ELSE 0
        /\ \A j \in 1..(Len(s) - (i + 1) + 1) : b[j] = s[i + 1 + j - 1]
    BY <2>1, <2>2, SubSeqProperties
  <2> QED BY <2>2, <2>3
<1> HIDE DEF a, b
<1>3. /\ a \o b \in Seq(S)
      /\ Len(a \o b) = Len(a) + Len(b)
      /\ \A j \in 1..(Len(a) + Len(b)) :
            (a \o b)[j] = IF j <= Len(a) THEN a[j] ELSE b[j - Len(a)]
  BY <1>1, <1>2, ConcatProperties
<1>4. \A j \in 1..(Len(s) - 1) : (a \o b)[j] = IF j < i THEN s[j] ELSE s[j + 1]
  BY <1>1, <1>2, <1>3
<1>5. RemoveAt(s, i) = a \o b
  BY DEF RemoveAt, a, b
<1>6. Len(s) \in Nat /\ (i - 1) + (Len(s) - i) = Len(s) - 1
  BY LenProperties
<1> QED BY <1>1, <1>2, <1>3, <1>4, <1>5, <1>6

\* What a request sent after others adds.
LEMMA AppendCases ==
    ASSUME NEW S, NEW s \in Seq(S), NEW r \in S
    PROVE  /\ DOMAIN Append(s, r) = 1..(Len(s) + 1)
           /\ DOMAIN s = 1..Len(s) /\ Len(s) \in Nat
           /\ \A i \in DOMAIN s : Append(s, r)[i] = s[i]
           /\ Append(s, r)[Len(s) + 1] = r
           /\ \A i \in DOMAIN Append(s, r) :
                 \/ i \in DOMAIN s /\ Append(s, r)[i] = s[i]
                 \/ i = Len(s) + 1 /\ Append(s, r)[i] = r
OBVIOUS

\* The listens of a sequence are finitely many.
LEMMA ListensFinite ==
    ASSUME NEW s \in Seq(Request)
    PROVE  IsFiniteSet(ListensAt(s)) /\ Cardinality(ListensAt(s)) \in Nat
<1>1. Len(s) \in Nat /\ DOMAIN s = 1..Len(s)
  BY LenProperties
<1>2. IsFiniteSet(1..Len(s))
  BY <1>1, FS_Interval
<1>3. ListensAt(s) \in SUBSET (1..Len(s))
  BY <1>1 DEF ListensAt
<1> QED BY <1>2, <1>3, FS_Subset, FS_CardinalityType

\* Requests sent after others add their listens.
LEMMA ListensConcat ==
    ASSUME NEW s \in Seq(Request), NEW t \in Seq(Request)
    PROVE  Cardinality(ListensAt(s \o t)) =
               Cardinality(ListensAt(s)) + Cardinality(ListensAt(t))
<1> DEFINE m == Len(s)
           A == ListensAt(s)
           B == ListensAt(t)
           C == ListensAt(s \o t) \ A
           f == [j \in B |-> m + j]
<1>1. m \in Nat /\ DOMAIN s = 1..m /\ Len(t) \in Nat /\ DOMAIN t = 1..Len(t)
  BY LenProperties
<1>2. DOMAIN (s \o t) = 1..(m + Len(t))
  BY ConcatProperties, LenProperties
<1>3. \A i \in 1..(m + Len(t)) : (s \o t)[i] = IF i <= m THEN s[i] ELSE t[i - m]
  BY ConcatProperties
<1>4. ListensAt(s \o t) = A \cup C
  BY <1>1, <1>2, <1>3 DEF ListensAt
<1>5. \A i : i \in C <=> i \in (m + 1)..(m + Len(t)) /\ t[i - m].kind = "listen"
  BY <1>1, <1>2, <1>3 DEF ListensAt
<1>6. f \in Bijection(B, C)
  <2>1. \A j \in B : j \in 1..Len(t) /\ t[j].kind = "listen"
    BY <1>1 DEF ListensAt
  <2>2. \A j \in B : m + j \in C
    <3> SUFFICES ASSUME NEW j \in B PROVE m + j \in C
      OBVIOUS
    <3>1. j \in 1..Len(t) /\ t[j].kind = "listen"
      BY <2>1
    <3>2. (m + j) - m = j /\ m + j \in (m + 1)..(m + Len(t))
      BY <3>1, <1>1
    <3> QED BY <3>1, <3>2, <1>5
  <2>3. \A i \in C : i - m \in B /\ m + (i - m) = i
    BY <1>1, <1>5 DEF ListensAt
  <2>4. \A j, k \in B : m + j = m + k => j = k
    BY <2>1, <1>1
  <2> HIDE DEF B, C, m
  <2>5. f \in [B -> C]
    BY <2>2
  <2>6. \A j, k \in B : f[j] = f[k] => j = k
    BY <2>4
  <2>7. \A i \in C : \E j \in B : f[j] = i
    BY <2>3
  <2> QED BY <2>5, <2>6, <2>7 DEF Bijection, Injection, Surjection, IsInjective
<1>7. IsFiniteSet(A) /\ IsFiniteSet(B) /\ Cardinality(A) \in Nat /\ Cardinality(B) \in Nat
  BY ListensFinite
<1>8. IsFiniteSet(C) /\ Cardinality(C) = Cardinality(B)
  BY <1>6, <1>7, FS_Bijection DEF ExistsBijection
<1>9. A \cap C = {}
  OBVIOUS
<1> HIDE DEF A, B, C
<1>10. Cardinality(A \cup C) = Cardinality(A) + Cardinality(C) - Cardinality(A \cap C)
  BY <1>7, <1>8, FS_Union
<1>11. Cardinality(A \cup C) = Cardinality(A) + Cardinality(B)
  <2>1. Cardinality(A \cap C) = 0
    BY <1>9, FS_EmptySet
  <2> QED BY <1>7, <1>8, <1>10, <2>1
<1> QED BY <1>4, <1>11 DEF A, B

\* A single request is a listen or none.
LEMMA ListensOne ==
    ASSUME NEW r \in Request
    PROVE  /\ <<r>> \in Seq(Request)
           /\ Cardinality(ListensAt(<<r>>)) = IF r.kind = "listen" THEN 1 ELSE 0
<1>1. <<r>> \in Seq(Request) /\ DOMAIN <<r>> = {1} /\ <<r>>[1] = r
  OBVIOUS
<1>2. ListensAt(<<r>>) = IF r.kind = "listen" THEN {1} ELSE {}
  BY <1>1 DEF ListensAt
<1>3. Cardinality({1}) = 1 /\ Cardinality({}) = 0
  BY FS_EmptySet, FS_Singleton
<1> QED BY <1>1, <1>2, <1>3

\* Sending a request adds one to the listens in flight if it is a listen.
LEMMA ListensAppend ==
    ASSUME NEW s \in Seq(Request), NEW r \in Request
    PROVE  Cardinality(ListensAt(Append(s, r))) =
               Cardinality(ListensAt(s)) + (IF r.kind = "listen" THEN 1 ELSE 0)
<1>1. Append(s, r) = s \o <<r>>
  BY AppendIsConcat
<1>2. Cardinality(ListensAt(s \o <<r>>)) =
          Cardinality(ListensAt(s)) + Cardinality(ListensAt(<<r>>))
  BY ListensOne, ListensConcat
<1> QED BY <1>1, <1>2, ListensOne

\* An answer takes one from the listens in flight if it was to a listen.
LEMMA ListensRemoveAt ==
    ASSUME NEW s \in Seq(Request), NEW i \in 1..Len(s)
    PROVE  Cardinality(ListensAt(s)) =
               Cardinality(ListensAt(RemoveAt(s, i)))
                   + (IF s[i].kind = "listen" THEN 1 ELSE 0)
<1> DEFINE a == SubSeq(s, 1, i - 1)
           b == SubSeq(s, i + 1, Len(s))
<1>0. Len(s) \in Nat /\ s[i] \in Request
  BY LenProperties, ElementOfSeq
<1>1. a \in Seq(Request)
  <2>1. \A j \in 1..(i - 1) : s[j] \in Request
    BY ElementOfSeq
  <2> QED BY <2>1, SubSeqProperties
<1>2. b \in Seq(Request)
  <2>1. \A j \in (i + 1)..Len(s) : s[j] \in Request
    BY ElementOfSeq
  <2> QED BY <2>1, <1>0, SubSeqProperties
<1>3. s = (a \o <<s[i]>>) \o b
  <2>1. SubSeq(s, 1, i) = a \o <<s[i]>>
    BY <1>0, SubSeqRecursiveSecond
  <2>2. SubSeq(s, 1, i) \o SubSeq(s, i + 1, Len(s)) = SubSeq(s, 1, Len(s))
    BY <1>0, ConcatAdjacentSubSeq
  <2>3. SubSeq(s, 1, Len(s)) = s
    BY SubSeqFull
  <2> QED BY <2>1, <2>2, <2>3
<1>4. RemoveAt(s, i) = a \o b
  BY DEF RemoveAt
<1> HIDE DEF a, b
<1>5. <<s[i]>> \in Seq(Request) /\ a \o <<s[i]>> \in Seq(Request)
  BY <1>0, <1>1, ListensOne, ConcatProperties
<1>6. Cardinality(ListensAt(s)) = Cardinality(ListensAt(a))
          + Cardinality(ListensAt(<<s[i]>>)) + Cardinality(ListensAt(b))
  BY <1>1, <1>2, <1>3, <1>5, ListensConcat
<1>7. Cardinality(ListensAt(RemoveAt(s, i))) =
          Cardinality(ListensAt(a)) + Cardinality(ListensAt(b))
  BY <1>1, <1>2, <1>4, ListensConcat
<1>8. /\ Cardinality(ListensAt(a)) \in Nat
      /\ Cardinality(ListensAt(b)) \in Nat
  BY <1>1, <1>2, ListensFinite
<1> QED BY <1>0, <1>6, <1>7, <1>8, ListensOne

\* A request has the fields of its kind.
LEMMA RequestFields ==
    ASSUME NEW r \in Request
    PROVE  /\ r.kind \in {"auth", "listen", "put"}
           /\ r.kind = "auth" => r.restore \in BOOLEAN
           /\ r.kind = "listen" => r.query \in Listens
           /\ r.kind = "put" => /\ r.index \in 1..MaxPuts
                                /\ r.reply \in {"none", "ok", "denied"}
BY DEF Request

\* What the client sends is a request (sendAuth, sendListen, sendPut).
LEMMA NewRequests ==
    /\ \A b \in BOOLEAN : AuthRequest(b) \in Request /\ AuthRequest(b).kind = "auth"
    /\ \A q \in Listens : ListenRequest(q) \in Request /\ ListenRequest(q).kind = "listen"
    /\ \A i \in 1..MaxPuts : PutRequest(i) \in Request /\ PutRequest(i).kind = "put"
BY DEF Request, AuthRequest, ListenRequest, PutRequest

\* What restoreState sends: the requests in flight, a listen for every query
\* and the outstanding writes.
LEMMA RestoredRequests ==
    ASSUME RequestTypes, WriteTypes,
           NEW inFlight \in Seq(Request),
           NEW order \in Enumerations(listens)
    PROVE  LET L == [i \in DOMAIN order |-> ListenRequest(order[i])]
               P == [i \in DOMAIN outstandingPuts |-> PutRequest(outstandingPuts[i])]
               R == inFlight \o L \o P
               m == Len(inFlight)
               n == Cardinality(listens)
           IN  /\ n \in Nat
               /\ R \in Seq(Request)
               /\ Len(R) = m + n + Len(outstandingPuts)
               /\ \A i \in 1..m : R[i] = inFlight[i]
               /\ \A i \in (m + 1)..(m + n) : R[i].kind = "listen"
               /\ \A k \in DOMAIN outstandingPuts :
                     R[m + n + k] = PutRequest(outstandingPuts[k])
               /\ Cardinality(ListensAt(R)) = Cardinality(ListensAt(inFlight)) + n
<1> DEFINE L == [i \in DOMAIN order |-> ListenRequest(order[i])]
           P == [i \in DOMAIN outstandingPuts |-> PutRequest(outstandingPuts[i])]
           m == Len(inFlight)
           n == Cardinality(listens)
           p == Len(outstandingPuts)
<1>1. n \in Nat
  <2>1. IsFiniteSet(Listens) /\ listens \in SUBSET Listens
    BY ListensAssumption DEF Listens, RequestTypes
  <2> QED BY <2>1, FS_Subset, FS_CardinalityType
<1>2. order \in [1..n -> listens]
  BY DEF Enumerations
<1>3. /\ L \in Seq(Request) /\ Len(L) = n
      /\ \A i \in 1..n : L[i].kind = "listen"
  <2>1. \A i \in 1..n : order[i] \in Listens
    BY <1>2 DEF RequestTypes
  <2>2. DOMAIN order = 1..n
    BY <1>2
  <2>3. L \in [1..n -> Request]
    BY <2>1, <2>2, NewRequests
  <2>4. L \in Seq(Request) /\ Len(L) = n
    BY <1>1, <2>3
  <2> QED BY <2>1, <2>2, <2>4, NewRequests
<1>4. p \in Nat /\ DOMAIN outstandingPuts = 1..p
  BY LenProperties DEF WriteTypes
<1>5. /\ P \in Seq(Request) /\ Len(P) = p
      /\ \A k \in 1..p : P[k] = PutRequest(outstandingPuts[k])
      /\ \A k \in 1..p : P[k].kind = "put"
  <2>1. \A k \in 1..p : outstandingPuts[k] \in 1..MaxPuts
    <3>1. \A k \in 1..p : outstandingPuts[k] \in 1..putCounter
      BY ElementOfSeq DEF WriteTypes
    <3> QED BY <3>1, BoundsAssumption DEF WriteTypes
  <2>2. P \in [1..p -> Request]
    BY <1>4, <2>1, NewRequests
  <2>3. P \in Seq(Request) /\ Len(P) = p
    BY <1>4, <2>2
  <2> QED BY <1>4, <2>1, <2>3, NewRequests
<1> HIDE DEF L, P
<1>6. /\ inFlight \o L \in Seq(Request) /\ Len(inFlight \o L) = m + n
      /\ \A i \in 1..(m + n) : (inFlight \o L)[i] = IF i <= m THEN inFlight[i] ELSE L[i - m]
  BY <1>3, ConcatProperties
<1> DEFINE H == inFlight \o L
           R == H \o P
<1>7. /\ R \in Seq(Request) /\ Len(R) = m + n + p
      /\ \A i \in 1..(m + n + p) : R[i] = IF i <= m + n THEN H[i] ELSE P[i - (m + n)]
  BY <1>5, <1>6, ConcatProperties
<1>8. m \in Nat
  BY LenProperties
<1>9. /\ \A i \in 1..m : R[i] = inFlight[i]
      /\ \A i \in (m + 1)..(m + n) : R[i].kind = "listen"
  <2> HIDE DEF H, R, m, n, p
  <2>1. ASSUME NEW i \in 1..m PROVE R[i] = inFlight[i]
    <3>1. i \in 1..(m + n + p) /\ i \in 1..(m + n) /\ i <= m /\ i <= m + n
      BY <1>1, <1>4, <1>8
    <3> QED BY <3>1, <1>6, <1>7 DEF H
  <2>2. ASSUME NEW i \in (m + 1)..(m + n) PROVE R[i].kind = "listen"
    <3>1. i \in 1..(m + n + p) /\ i \in 1..(m + n) /\ ~(i <= m) /\ i <= m + n /\ i - m \in 1..n
      BY <1>1, <1>4, <1>8
    <3> QED BY <3>1, <1>3, <1>6, <1>7 DEF H
  <2> QED BY <2>1, <2>2
<1>10. \A k \in 1..p : R[m + n + k] = PutRequest(outstandingPuts[k])
  <2> HIDE DEF H, R, m, n, p
  <2> SUFFICES ASSUME NEW k \in 1..p PROVE R[m + n + k] = PutRequest(outstandingPuts[k])
    OBVIOUS
  <2>1. /\ m + n + k \in 1..(m + n + p)
        /\ ~(m + n + k <= m + n)
        /\ (m + n + k) - (m + n) = k
    BY <1>1, <1>4, <1>8
  <2> QED BY <2>1, <1>5, <1>7
<1>11. Cardinality(ListensAt(R)) = Cardinality(ListensAt(inFlight)) + n
  <2>1. ListensAt(L) = 1..n /\ ListensAt(P) = {}
    <3>1. DOMAIN L = 1..n /\ DOMAIN P = 1..p
      BY <1>3, <1>5, LenProperties
    <3>2. ListensAt(L) = 1..n
      BY <1>3, <3>1 DEF ListensAt
    <3>3. ListensAt(P) = {}
      BY <1>5, <3>1 DEF ListensAt
    <3> QED BY <3>2, <3>3
  <2>2. Cardinality(1..n) = n
    BY <1>1, FS_Interval
  <2>3. Cardinality(ListensAt(P)) = 0
    BY <2>1, FS_EmptySet
  <2>4. Cardinality(ListensAt(H)) = Cardinality(ListensAt(inFlight)) + n
    BY <1>3, <2>1, <2>2, ListensConcat
  <2>5. Cardinality(ListensAt(R)) = Cardinality(ListensAt(H)) + Cardinality(ListensAt(P))
    BY <1>5, <1>6, ListensConcat
  <2>6. Cardinality(ListensAt(inFlight)) \in Nat
    BY ListensFinite
  <2> QED BY <1>1, <2>3, <2>4, <2>5, <2>6
<1> QED BY <1>1, <1>4, <1>7, <1>9, <1>10, <1>11 DEF L, P

\* A query that is dropped leaves its request in flight.
LEMMA OutdatedProperties ==
    ASSUME NEW s \in Seq(Request), NEW q
    PROVE  /\ Outdated(s, q) \in Seq(Request)
           /\ Len(Outdated(s, q)) = Len(s)
           /\ \A i \in 1..Len(s) : /\ Outdated(s, q)[i].kind = s[i].kind
                                   /\ s[i].kind # "listen" => Outdated(s, q)[i] = s[i]
           /\ ListensAt(Outdated(s, q)) = ListensAt(s)
<1> DEFINE o == Outdated(s, q)
<1>1. Len(s) \in Nat /\ DOMAIN s = 1..Len(s)
  BY LenProperties
<1>2. \A i \in 1..Len(s) : s[i] \in Request
  BY ElementOfSeq
<1>3. \A r \in Request : r.kind = "listen" =>
          /\ [r EXCEPT !.current = FALSE] \in Request
          /\ [r EXCEPT !.current = FALSE].kind = "listen"
  BY DEF Request
<1>4. DOMAIN o = 1..Len(s)
  BY <1>1 DEF Outdated
<1>5. \A i \in 1..Len(s) : /\ o[i] \in Request
                           /\ o[i].kind = s[i].kind
                           /\ s[i].kind # "listen" => o[i] = s[i]
  <2> SUFFICES ASSUME NEW i \in 1..Len(s)
               PROVE  /\ o[i] \in Request
                      /\ o[i].kind = s[i].kind
                      /\ s[i].kind # "listen" => o[i] = s[i]
    OBVIOUS
  <2>1. o[i] = IF s[i].kind = "listen" /\ s[i].query = q
               THEN [s[i] EXCEPT !.current = FALSE]
               ELSE s[i]
    BY <1>1 DEF Outdated
  <2> QED BY <2>1, <1>2, <1>3
<1>6. o \in [1..Len(s) -> Request]
  <2>1. o = [i \in 1..Len(s) |-> o[i]]
    BY <1>1, <1>4 DEF Outdated
  <2> QED BY <1>5, <2>1
<1>7. o \in Seq(Request) /\ Len(o) = Len(s)
  BY <1>1, <1>6
<1>8. ListensAt(o) = ListensAt(s)
  <2> HIDE DEF o
  <2> QED BY <1>1, <1>4, <1>5 DEF ListensAt
<1> QED BY <1>5, <1>7, <1>8

-----------------------------------------------------------------------------
(* Scheduling, opening and losing the connection.                          *)

\* Requests are in flight on an open connection only.
LEMMA NoRequests ==
    ASSUME ControlTypes, RequestTypes, StateAgrees, realtime # "connected"
    PROVE  requests = <<>>
<1>1. \A i \in DOMAIN requests : FALSE
  BY DEF StateAgrees, Range
<1>2. Len(requests) \in Nat /\ DOMAIN requests = 1..Len(requests)
  BY LenProperties DEF RequestTypes
<1>3. Len(requests) = 0
  BY <1>1, <1>2
<1> QED BY <1>3 DEF RequestTypes

\* StateAgrees, of requests by their place.
LEMMA RequestsAgree ==
    ASSUME RequestTypes, StateAgrees, NEW i \in DOMAIN requests
    PROVE  connected /\ (requests[i].kind = "put" => canSendWrites)
BY DEF StateAgrees, Range

\* Nothing is in flight on an empty connection.
LEMMA NoListens == Cardinality(ListensAt(<<>>)) = 0
<1>1. ListensAt(<<>>) = {}
  BY DEF ListensAt
<1> QED BY <1>1, FS_EmptySet

\* A step that leaves the writes alone keeps their types.
LEMMA WritesKept ==
    ASSUME WriteTypes, UNCHANGED writes
    PROVE  WriteTypes'
BY DEF WriteTypes, writes, Completions

\* However a connection is closed, the client reconnects unless interrupted.
LEMMA OnDisconnectKeeps ==
    ASSUME ControlInv, realtime # "nil",
           NEW reasons \in SUBSET Reason, NEW force \in BOOLEAN,
           OnDisconnect(reasons, force),
           interruptReasons' = reasons,
           UNCHANGED <<fetches, currentFetchTokenAttempt, listens, writes>>,
           authToken' \in BOOLEAN, refused' \in BOOLEAN, events' \in 0..MaxEvents
    PROVE  ControlInv'
<1>1. WriteTypes'
  BY WritesKept DEF ControlInv
<1>2. RequestTypes'
  BY DEF ControlInv, OnDisconnect, RequestTypes
<1>3. ControlTypes'
  BY DEF ControlInv, OnDisconnect, TryScheduleReconnect, Retry, ControlTypes
<1>4. scheduledRetry = "none"
  BY DEF ControlInv, ControlTypes, StateAgrees, connected
<1>5. scheduledRetry' # "none" <=> interruptReasons' = {}
  BY <1>4 DEF OnDisconnect, TryScheduleReconnect, Retry
<1>6. StateAgrees'
  BY <1>5 DEF StateAgrees, OnDisconnect, connected, Range
<1>7. UnackedListensCounted'
  BY NoListens DEF UnackedListensCounted, ListensAt, OnDisconnect
<1>8. FetchAwaited'
  BY DEF ControlInv, FetchAwaited, OnDisconnect
<1>9. NeverStranded'
  BY <1>5 DEF NeverStranded
<1> QED BY <1>1, <1>2, <1>3, <1>6, <1>7, <1>8, <1>9 DEF ControlInv

\* The bound on events outside the client.
LEMMA EventBound ==
    ASSUME ControlTypes, Event
    PROVE  events' \in 0..MaxEvents
BY BoundsAssumption DEF ControlTypes, Event

\* onDisconnect keeps the invariant: every request in flight is dropped and
\* the listens are marked to be sent again.
LEMMA ConnectionLostKeeps ==
    ASSUME ControlInv, ConnectionLost
    PROVE  ControlInv'
<1>1. /\ realtime # "nil" /\ Event
      /\ OnDisconnect(interruptReasons, forceAuthTokenRefresh)
      /\ UNCHANGED <<interruptReasons, tokens, listens, writes>>
  BY DEF ConnectionLost
<1>2. events' \in 0..MaxEvents
  BY <1>1, EventBound DEF ControlInv
<1>3. interruptReasons \in SUBSET Reason /\ forceAuthTokenRefresh \in BOOLEAN
      /\ authToken' \in BOOLEAN /\ refused' \in BOOLEAN
  BY <1>1 DEF ControlInv, ControlTypes, tokens
<1> QED BY <1>1, <1>2, <1>3, OnDisconnectKeeps DEF tokens

\* A refused token keeps the invariant.
LEMMA AuthRefusedKeeps ==
    ASSUME ControlInv, AuthRefused
    PROVE  ControlInv'
<1>1. /\ Event /\ authToken' = FALSE /\ refused' = TRUE
      /\ OnDisconnect(interruptReasons, TRUE)
      /\ UNCHANGED <<interruptReasons, fetches, currentFetchTokenAttempt, listens, writes>>
  BY DEF AuthRefused
<1>2. events' \in 0..MaxEvents
  BY <1>1, EventBound DEF ControlInv
<1>3. realtime # "nil"
  <2>1. CASE \E i \in DOMAIN requests : First(i, "auth")
    <3>1. connected
      BY <2>1, RequestsAgree DEF ControlInv
    <3> QED BY <3>1 DEF ControlInv, StateAgrees
  <2>2. CASE realtime = "connected"
    BY <2>2
  <2> QED BY <2>1, <2>2 DEF AuthRefused
<1>4. interruptReasons \in SUBSET Reason
  BY DEF ControlInv, ControlTypes
<1> QED BY <1>1, <1>2, <1>3, <1>4, OnDisconnectKeeps

\* interruptForReason keeps the invariant.
LEMMA InterruptForReasonKeeps ==
    ASSUME ControlInv, NEW reason \in Reason, InterruptForReason(reason)
    PROVE  ControlInv'
<1>1. /\ Event /\ interruptReasons' = interruptReasons \cup {reason}
      /\ UNCHANGED <<tokens, listens, writes>>
  BY DEF InterruptForReason
<1>2. events' \in 0..MaxEvents
  BY <1>1, EventBound DEF ControlInv
<1>3. interruptReasons' \in SUBSET Reason /\ forceAuthTokenRefresh \in BOOLEAN
      /\ authToken' \in BOOLEAN /\ refused' \in BOOLEAN
  BY <1>1 DEF ControlInv, ControlTypes, tokens
<1>4. CASE /\ realtime # "nil"
           /\ OnDisconnect(interruptReasons', forceAuthTokenRefresh)
  BY <1>1, <1>2, <1>3, <1>4, OnDisconnectKeeps DEF tokens
<1>5. CASE /\ realtime = "nil"
           /\ connectionState' = "Disconnected"
           /\ scheduledRetry' = "none"
           /\ UNCHANGED <<realtime, requests, unackedListensCount, forceAuthTokenRefresh>>
  <2>1. requests = <<>>
    BY <1>5, NoRequests DEF ControlInv
  <2>2. WriteTypes'
    BY <1>1, WritesKept DEF ControlInv
  <2>3. RequestTypes'
    BY <1>1, <1>5 DEF ControlInv, RequestTypes
  <2>4. ControlTypes'
    BY <1>1, <1>2, <1>3, <1>5 DEF ControlInv, ControlTypes, tokens
  <2>5. StateAgrees'
    BY <2>1, <1>5 DEF StateAgrees, connected, Range
  <2>6. UnackedListensCounted'
    BY <1>5 DEF ControlInv, UnackedListensCounted
  <2>7. FetchAwaited'
    BY <1>1, <1>5 DEF ControlInv, FetchAwaited, tokens
  <2>8. NeverStranded'
    BY <1>1 DEF NeverStranded
  <2> QED BY <2>2, <2>3, <2>4, <2>5, <2>6, <2>7, <2>8 DEF ControlInv
<1> QED BY <1>4, <1>5 DEF InterruptForReason

\* Reconnecting is scheduled, if nothing interrupts it, of a client that is
\* disconnected.
LEMMA ScheduleKeeps ==
    ASSUME ControlInv, connectionState = "Disconnected",
           interruptReasons' \subseteq interruptReasons,
           TryScheduleReconnect(interruptReasons', forceAuthTokenRefresh),
           UNCHANGED <<connectionState, realtime, requests, unackedListensCount,
                       tokens, listens, writes, events>>
    PROVE  ControlInv'
<1>1. WriteTypes'
  BY WritesKept DEF ControlInv
<1>2. RequestTypes'
  BY DEF ControlInv, RequestTypes
<1>3. ControlTypes'
  BY DEF ControlInv, TryScheduleReconnect, Retry, ControlTypes, tokens
<1>4. scheduledRetry' # "none" => interruptReasons' = {}
  BY DEF ControlInv, StateAgrees, TryScheduleReconnect, Retry
<1>5. interruptReasons' = {} => scheduledRetry' # "none"
  BY DEF TryScheduleReconnect, Retry
<1>6. StateAgrees'
  <2>1. realtime = "nil"
    BY DEF ControlInv, ControlTypes, StateAgrees, connected
  <2>2. requests = <<>>
    BY <2>1, NoRequests DEF ControlInv
  <2> QED BY <2>1, <2>2, <1>4 DEF StateAgrees, connected, Range
<1>7. UnackedListensCounted'
  BY DEF ControlInv, UnackedListensCounted
<1>8. FetchAwaited'
  BY DEF ControlInv, FetchAwaited, tokens
<1>9. NeverStranded'
  BY <1>5 DEF NeverStranded
<1> QED BY <1>1, <1>2, <1>3, <1>6, <1>7, <1>8, <1>9 DEF ControlInv

\* resumeForReason keeps the invariant: it reconnects if no reason is left.
LEMMA ResumeForReasonKeeps ==
    ASSUME ControlInv, NEW reason \in Reason, ResumeForReason(reason)
    PROVE  ControlInv'
<1>1. /\ reason \in interruptReasons
      /\ interruptReasons' = interruptReasons \ {reason}
      /\ UNCHANGED <<connectionState, realtime, requests, unackedListensCount,
                     tokens, listens, writes, events>>
  BY DEF ResumeForReason
<1>2. CASE connectionState = "Disconnected"
  <2>1. TryScheduleReconnect(interruptReasons', forceAuthTokenRefresh)
    BY <1>2 DEF ResumeForReason
  <2> QED BY <1>1, <1>2, <2>1, ScheduleKeeps
<1>3. CASE connectionState # "Disconnected"
  <2>1. UNCHANGED <<scheduledRetry, forceAuthTokenRefresh>>
    BY <1>3 DEF ResumeForReason
  <2>2. WriteTypes'
    BY <1>1, WritesKept DEF ControlInv
  <2>3. RequestTypes'
    BY <1>1 DEF ControlInv, RequestTypes
  <2>4. ControlTypes'
    BY <1>1, <2>1 DEF ControlInv, ControlTypes, tokens
  <2>5. scheduledRetry = "none"
    BY <1>3 DEF ControlInv, StateAgrees
  <2>6. StateAgrees'
    BY <1>1, <2>1, <2>5 DEF ControlInv, StateAgrees, connected, canSendWrites, tokens
  <2>7. UnackedListensCounted'
    BY <1>1 DEF ControlInv, UnackedListensCounted
  <2>8. FetchAwaited'
    BY <1>1 DEF ControlInv, FetchAwaited, tokens
  <2>9. NeverStranded'
    <3>1. CASE connectionState = "GettingToken"
      BY <3>1, <1>1 DEF ControlInv, FetchAwaited, NeverStranded, Awaited, tokens
    <3>2. CASE connectionState # "GettingToken"
      <4>1. realtime # "nil"
        BY <3>2, <1>3 DEF ControlInv, ControlTypes, StateAgrees, connected
      <4> QED BY <4>1, <1>1 DEF NeverStranded
    <3> QED BY <3>1, <3>2
  <2> QED BY <2>2, <2>3, <2>4, <2>6, <2>7, <2>8, <2>9 DEF ControlInv
<1> QED BY <1>2, <1>3

\* The network or the application coming back keeps the invariant.
LEMMA NetworkOrAppBackKeeps ==
    ASSUME ControlInv, NetworkOrAppBack
    PROVE  ControlInv'
BY ScheduleKeeps DEF NetworkOrAppBack

\* The fetch that is now waited for is younger than all others.
LEMMA RetryFiresKeeps ==
    ASSUME ControlInv, RetryFires
    PROVE  ControlInv'
<1> DEFINE new == [attempt |-> currentFetchTokenAttempt + 1,
                   force |-> scheduledRetry = "forced"]
<1>1. /\ scheduledRetry # "none" /\ scheduledRetry' = "none"
      /\ connectionState' = "GettingToken"
      /\ currentFetchTokenAttempt' = currentFetchTokenAttempt + 1
      /\ fetches' = fetches \cup {new}
      /\ UNCHANGED <<interruptReasons, forceAuthTokenRefresh, authToken, refused,
                     realtime, requests, unackedListensCount, listens, writes, events>>
  BY DEF RetryFires
<1>2. connectionState = "Disconnected" /\ interruptReasons = {} /\ realtime = "nil"
  BY <1>1 DEF ControlInv, ControlTypes, StateAgrees, connected
<1>3. requests = <<>>
  BY <1>2, NoRequests DEF ControlInv
<1>4. new.attempt = currentFetchTokenAttempt + 1 /\ new.force \in BOOLEAN
  OBVIOUS
<1>5. \A f \in fetches : f.attempt \in 1..currentFetchTokenAttempt
  BY DEF ControlInv, ControlTypes
<1>6. currentFetchTokenAttempt \in Nat
  BY DEF ControlInv, ControlTypes
<1>7. WriteTypes'
  BY <1>1, WritesKept DEF ControlInv
<1>8. RequestTypes'
  BY <1>1 DEF ControlInv, RequestTypes
<1>9. ControlTypes'
  <2>1. fetches' \subseteq [attempt : 1..currentFetchTokenAttempt', force : BOOLEAN]
    <3>1. new \in [attempt : 1..currentFetchTokenAttempt', force : BOOLEAN]
      BY <1>1, <1>6
    <3>2. fetches \subseteq [attempt : 1..currentFetchTokenAttempt', force : BOOLEAN]
      BY <1>1, <1>6 DEF ControlInv, ControlTypes
    <3> QED BY <1>1, <3>1, <3>2
  <2> QED BY <1>1, <1>6, <2>1 DEF ControlInv, ControlTypes
<1>10. StateAgrees'
  BY <1>1, <1>2, <1>3 DEF StateAgrees, connected, Range
<1>11. UnackedListensCounted'
  BY <1>1 DEF ControlInv, UnackedListensCounted
<1> HIDE DEF new
<1>12. FetchAwaited'
  <2>1. \A f \in fetches : f.attempt # new.attempt
    BY <1>4, <1>5, <1>6
  <2>2. \A f, g \in fetches' : f.attempt = g.attempt => f = g
    BY <2>1, <1>1 DEF ControlInv, FetchAwaited
  <2>3. new \in fetches' /\ new.attempt = currentFetchTokenAttempt'
    BY <1>1, <1>4
  <2> QED BY <2>2, <2>3 DEF FetchAwaited
<1>13. NeverStranded'
  BY <1>1, <1>4 DEF NeverStranded, Awaited
<1> QED BY <1>7, <1>8, <1>9, <1>10, <1>11, <1>12, <1>13 DEF ControlInv

\* The answer that is waited for comes once; any other changes nothing.
LEMMA TokenFetchedKeeps ==
    ASSUME ControlInv, NEW f \in fetches, NEW token \in BOOLEAN, TokenFetched(f, token)
    PROVE  ControlInv'
<1>1. /\ fetches' = fetches \ {f}
      /\ refused' = (refused /\ ~f.force)
      /\ UNCHANGED <<interruptReasons, scheduledRetry, forceAuthTokenRefresh,
                     currentFetchTokenAttempt, requests, unackedListensCount,
                     listens, writes, events>>
  BY DEF TokenFetched
<1>2. WriteTypes'
  BY <1>1, WritesKept DEF ControlInv
<1>3. RequestTypes'
  BY <1>1 DEF ControlInv, RequestTypes
<1>4. UnackedListensCounted'
  BY <1>1 DEF ControlInv, UnackedListensCounted
<1>5. refused' \in BOOLEAN
  BY <1>1
<1>6. CASE /\ Awaited(f) /\ authToken' = token
           /\ connectionState' = "Connecting" /\ realtime' = "connecting"
  <2>1. f.attempt = currentFetchTokenAttempt /\ connectionState = "GettingToken"
    BY <1>6 DEF Awaited
  <2>2. ControlTypes'
    BY <1>1, <1>5, <1>6 DEF ControlInv, ControlTypes
  <2>3. \A g \in fetches' : g.attempt # currentFetchTokenAttempt'
    BY <1>1, <2>1 DEF ControlInv, FetchAwaited
  <2>4. requests = <<>> /\ scheduledRetry = "none"
    <3>1. realtime # "connected" /\ scheduledRetry = "none"
      BY <2>1 DEF ControlInv, StateAgrees, connected
    <3> QED BY <3>1, NoRequests DEF ControlInv
  <2>5. StateAgrees'
    BY <1>1, <1>6, <2>3, <2>4 DEF StateAgrees, connected, Range
  <2>6. FetchAwaited'
    BY <1>1, <1>6 DEF ControlInv, FetchAwaited
  <2>7. NeverStranded'
    BY <1>6 DEF NeverStranded
  <2> QED BY <1>2, <1>3, <1>4, <2>2, <2>5, <2>6, <2>7 DEF ControlInv
<1>7. CASE ~Awaited(f) /\ UNCHANGED <<authToken, connectionState, realtime>>
  <2>1. ControlTypes'
    BY <1>1, <1>5, <1>7 DEF ControlInv, ControlTypes
  <2>2. StateAgrees'
    BY <1>1, <1>7 DEF ControlInv, StateAgrees, connected, canSendWrites
  <2>3. \A g \in fetches : Awaited(g) => g \in fetches' /\ Awaited(g)'
    BY <1>1, <1>7 DEF Awaited
  <2>4. FetchAwaited'
    BY <1>1, <1>7, <2>3 DEF ControlInv, FetchAwaited, Awaited
  <2>5. NeverStranded'
    BY <1>1, <1>7, <2>3 DEF ControlInv, NeverStranded
  <2> QED BY <1>2, <1>3, <1>4, <2>1, <2>2, <2>4, <2>5 DEF ControlInv
<1> QED BY <1>6, <1>7 DEF TokenFetched

\* After an error of the fetch that is waited for, the next one is scheduled.
LEMMA TokenErrorKeeps ==
    ASSUME ControlInv, NEW f \in fetches, TokenError(f)
    PROVE  ControlInv'
<1>1. /\ Event /\ fetches' = fetches \ {f}
      /\ UNCHANGED <<interruptReasons, currentFetchTokenAttempt, authToken, refused,
                     realtime, requests, unackedListensCount, listens, writes>>
  BY DEF TokenError
<1>2. WriteTypes'
  BY <1>1, WritesKept DEF ControlInv
<1>3. RequestTypes'
  BY <1>1 DEF ControlInv, RequestTypes
<1>4. UnackedListensCounted'
  BY <1>1 DEF ControlInv, UnackedListensCounted
<1>5. events' \in 0..MaxEvents
  BY <1>1, EventBound DEF ControlInv
<1>6. CASE f.attempt = currentFetchTokenAttempt
  <2>1. /\ connectionState' = "Disconnected"
        /\ TryScheduleReconnect(interruptReasons, forceAuthTokenRefresh)
    BY <1>6 DEF TokenError
  <2>2. realtime = "nil"
    BY <1>6 DEF ControlInv, ControlTypes, StateAgrees, connected
  <2>3. requests = <<>>
    BY <2>2, NoRequests DEF ControlInv
  <2>4. ControlTypes'
    BY <1>1, <1>5, <2>1 DEF ControlInv, ControlTypes, TryScheduleReconnect, Retry
  <2>5. scheduledRetry' # "none" <=> interruptReasons' = {}
    BY <1>1, <2>1 DEF ControlInv, StateAgrees, TryScheduleReconnect, Retry
  <2>6. StateAgrees'
    BY <1>1, <2>1, <2>2, <2>3, <2>5 DEF StateAgrees, connected, Range
  <2>7. FetchAwaited'
    BY <1>1, <2>1 DEF ControlInv, FetchAwaited
  <2>8. NeverStranded'
    BY <2>5 DEF NeverStranded
  <2> QED BY <1>2, <1>3, <1>4, <2>4, <2>6, <2>7, <2>8 DEF ControlInv
<1>7. CASE f.attempt # currentFetchTokenAttempt
  <2>1. UNCHANGED <<connectionState, scheduledRetry, forceAuthTokenRefresh>>
    BY <1>7 DEF TokenError
  <2>2. ControlTypes'
    BY <1>1, <1>5, <2>1 DEF ControlInv, ControlTypes
  <2>3. StateAgrees'
    BY <1>1, <2>1 DEF ControlInv, StateAgrees, connected, canSendWrites
  <2>4. FetchAwaited'
    BY <1>1, <1>7, <2>1 DEF ControlInv, FetchAwaited
  <2>5. NeverStranded'
    BY <1>1, <1>7, <2>1 DEF ControlInv, NeverStranded, Awaited
  <2> QED BY <1>2, <1>3, <1>4, <2>2, <2>3, <2>4, <2>5 DEF ControlInv
<1> QED BY <1>6, <1>7

-----------------------------------------------------------------------------
(* Requests and their answers on an open connection.                       *)

\* Opening the connection, and what happens on an open one, keeps the rest in
\* order if the requests and the listens among them are accounted for.
LEMMA OpenKeeps ==
    ASSUME ControlInv, ControlTypes', RequestTypes', WriteTypes',
           realtime # "nil", realtime' = "connected", connected',
           UNCHANGED <<interruptReasons, scheduledRetry, fetches,
                       currentFetchTokenAttempt>>,
           \A i \in DOMAIN requests' : requests'[i].kind = "put" => canSendWrites',
           unackedListensCount' = Cardinality(ListensAt(requests'))
    PROVE  ControlInv'
<1>1. scheduledRetry = "none" /\ \A f \in fetches : f.attempt # currentFetchTokenAttempt
  BY DEF ControlInv, ControlTypes, StateAgrees, connected
<1>2. StateAgrees'
  <2>1. connectionState' # "Connecting"
    BY DEF connected
  <2>2. \A r \in Range(requests') : connected' /\ (r.kind = "put" => canSendWrites')
    BY DEF Range
  <2> QED BY <1>1, <2>1, <2>2 DEF StateAgrees
<1>3. FetchAwaited'
  BY DEF ControlInv, FetchAwaited, connected
<1>4. NeverStranded'
  BY DEF NeverStranded
<1> QED BY <1>2, <1>3, <1>4 DEF ControlInv, UnackedListensCounted, ListensAt

\* What a step that leaves the state of the connection alone has to show.
LEMMA SameConnectionKeeps ==
    ASSUME ControlInv, ControlTypes', RequestTypes', WriteTypes',
           UNCHANGED <<connectionState, realtime, interruptReasons, scheduledRetry,
                       fetches, currentFetchTokenAttempt>>,
           \A i \in DOMAIN requests' :
               connected /\ (requests'[i].kind = "put" => canSendWrites),
           unackedListensCount' = Cardinality(ListensAt(requests'))
    PROVE  ControlInv'
<1>1. StateAgrees'
  <2>1. (connected' <=> connected) /\ (canSendWrites' <=> canSendWrites)
    BY DEF connected, canSendWrites
  <2>2. \A r \in Range(requests') : connected' /\ (r.kind = "put" => canSendWrites')
    BY <2>1 DEF Range
  <2> QED BY <2>1, <2>2 DEF ControlInv, StateAgrees
<1>2. FetchAwaited'
  BY DEF ControlInv, FetchAwaited
<1>3. NeverStranded'
  BY DEF ControlInv, NeverStranded, Awaited
<1> QED BY <1>1, <1>2, <1>3 DEF ControlInv, UnackedListensCounted, ListensAt

\* unackedListensCount is the number of listens in flight.
LEMMA UnackedIsCount ==
    ASSUME ControlInv
    PROVE  /\ unackedListensCount = Cardinality(ListensAt(requests))
           /\ unackedListensCount \in Nat
           /\ Len(requests) \in Nat /\ DOMAIN requests = 1..Len(requests)
           /\ \A i \in 1..Len(requests) : requests[i] \in Request
BY LenProperties, ElementOfSeq DEF ControlInv, UnackedListensCounted, ListensAt, RequestTypes

\* An answer takes its request out.
LEMMA AnsweredRequest ==
    ASSUME ControlInv, NEW i \in DOMAIN requests
    PROVE  LET rest == RemoveAt(requests, i) IN
           /\ i \in 1..Len(requests)
           /\ rest \in Seq(Request)
           /\ Len(rest) = Len(requests) - 1
           /\ DOMAIN rest = 1..(Len(requests) - 1)
           /\ \A j \in 1..(Len(requests) - 1) :
                 rest[j] = IF j < i THEN requests[j] ELSE requests[j + 1]
           /\ \A j \in DOMAIN rest : \E h \in DOMAIN requests : rest[j] = requests[h]
           /\ Cardinality(ListensAt(rest)) \in Nat
           /\ unackedListensCount = Cardinality(ListensAt(rest))
                  + (IF requests[i].kind = "listen" THEN 1 ELSE 0)
<1>1. i \in 1..Len(requests) /\ requests \in Seq(Request) /\ Len(requests) \in Nat
  BY UnackedIsCount DEF ControlInv, RequestTypes
<1> DEFINE rest == RemoveAt(requests, i)
<1>2. /\ rest \in Seq(Request)
      /\ Len(rest) = Len(requests) - 1
      /\ \A j \in 1..(Len(requests) - 1) :
            rest[j] = IF j < i THEN requests[j] ELSE requests[j + 1]
  BY <1>1, RemoveAtProperties
<1>3. Cardinality(ListensAt(rest)) \in Nat
  BY <1>2, ListensFinite
<1>4. unackedListensCount = Cardinality(ListensAt(rest))
          + (IF requests[i].kind = "listen" THEN 1 ELSE 0)
  BY <1>1, UnackedIsCount, ListensRemoveAt
<1> HIDE DEF rest
<1>5. DOMAIN rest = 1..(Len(requests) - 1)
  BY <1>2, LenProperties
<1>6. \A j \in DOMAIN rest : \E h \in DOMAIN requests : rest[j] = requests[h]
  <2> SUFFICES ASSUME NEW j \in 1..(Len(requests) - 1)
               PROVE  \E h \in DOMAIN requests : rest[j] = requests[h]
    BY <1>5
  <2>1. j \in DOMAIN requests /\ j + 1 \in DOMAIN requests
    BY <1>1, UnackedIsCount
  <2> QED BY <1>2, <2>1
<1> QED BY <1>1, <1>2, <1>3, <1>4, <1>5, <1>6 DEF rest

\* Restoring the state counts the listens it sends.
LEMMA RestoreStateKeeps ==
    ASSUME ControlInv,
           NEW inFlight \in Seq(Request),
           unackedListensCount = Cardinality(ListensAt(inFlight)),
           RestoreState(inFlight),
           realtime # "nil", realtime' = "connected",
           UNCHANGED <<interruptReasons, scheduledRetry, forceAuthTokenRefresh, tokens,
                       listens, writes, events>>
    PROVE  ControlInv'
<1>1. /\ connectionState' = "Connected"
      /\ unackedListensCount' = unackedListensCount + Cardinality(listens)
  BY DEF RestoreState
<1>2. PICK order \in Enumerations(listens) :
          requests' = inFlight
                      \o [i \in DOMAIN order |-> ListenRequest(order[i])]
                      \o [i \in DOMAIN outstandingPuts |-> PutRequest(outstandingPuts[i])]
  BY DEF RestoreState
<1>3. /\ Cardinality(listens) \in Nat
      /\ requests' \in Seq(Request)
      /\ Cardinality(ListensAt(requests')) =
             Cardinality(ListensAt(inFlight)) + Cardinality(listens)
  BY <1>2, RestoredRequests DEF ControlInv
<1>4. WriteTypes'
  BY WritesKept DEF ControlInv
<1>5. RequestTypes'
  BY <1>1, <1>3 DEF ControlInv, RequestTypes
<1>6. ControlTypes'
  BY <1>1 DEF ControlInv, ControlTypes, tokens
<1>7. connected' /\ canSendWrites'
  BY <1>1 DEF connected, canSendWrites
<1> QED BY <1>1, <1>3, <1>4, <1>5, <1>6, <1>7, OpenKeeps DEF tokens

\* onReady keeps the invariant: it sends the token and restores what was
\* outstanding.
LEMMA OnReadyKeeps ==
    ASSUME ControlInv, OnReady
    PROVE  ControlInv'
<1>1. /\ realtime = "connecting" /\ realtime' = "connected"
      /\ UNCHANGED <<interruptReasons, scheduledRetry, forceAuthTokenRefresh, tokens,
                     listens, writes, events>>
  BY DEF OnReady
<1>2. requests = <<>>
  BY <1>1, NoRequests DEF ControlInv
<1>3. requests \in Seq(Request) /\ unackedListensCount = Cardinality(ListensAt(requests))
  BY UnackedIsCount DEF ControlInv, RequestTypes
<1>4. CASE RestoreState(requests)
  BY <1>1, <1>3, <1>4, RestoreStateKeeps
<1>5. CASE /\ connectionState' = "Authenticating"
           /\ requests' = Append(requests, AuthRequest(TRUE))
           /\ UNCHANGED unackedListensCount
  <2>1. PICK a \in Request : a = AuthRequest(TRUE) /\ a.kind = "auth"
    BY NewRequests
  <2>2. requests' = Append(requests, a)
    BY <1>5, <2>1
  <2>3. /\ requests' \in Seq(Request)
        /\ unackedListensCount' = Cardinality(ListensAt(requests'))
    <3>1. requests' \in Seq(Request)
      BY <1>3, <2>2, AppendProperties
    <3>2. Cardinality(ListensAt(requests')) = Cardinality(ListensAt(requests)) + 0
      BY <1>3, <2>1, <2>2, ListensAppend
    <3>3. unackedListensCount' = Cardinality(ListensAt(requests))
          /\ Cardinality(ListensAt(requests)) \in Nat
      BY <1>5, UnackedIsCount
    <3> QED BY <3>1, <3>2, <3>3
  <2>4. WriteTypes'
    BY <1>1, WritesKept DEF ControlInv
  <2>5. RequestTypes'
    BY <1>1, <1>5, <2>3 DEF ControlInv, RequestTypes
  <2>6. ControlTypes'
    BY <1>1, <1>5 DEF ControlInv, ControlTypes, tokens
  <2>7. \A i \in DOMAIN requests' : requests'[i].kind = "auth"
    <3>1. \A i \in DOMAIN requests' : i \in DOMAIN requests \/ requests'[i] = a
      BY <1>3, <2>2, AppendCases
    <3>2. DOMAIN requests = {}
      BY <1>2
    <3> QED BY <3>1, <3>2, <2>1
  <2>8. connected'
    BY <1>5 DEF connected
  <2> QED BY <1>1, <2>3, <2>4, <2>5, <2>6, <2>7, <2>8, OpenKeeps DEF tokens
<1> QED BY <1>4, <1>5 DEF OnReady

\* An accepted token keeps the invariant: the connection becomes connected.
LEMMA AuthAcceptedKeeps ==
    ASSUME ControlInv, NEW i \in DOMAIN requests, AuthAccepted(i)
    PROVE  ControlInv'
<1> DEFINE rest == RemoveAt(requests, i)
<1>1. /\ requests[i].kind = "auth"
      /\ UNCHANGED <<interruptReasons, scheduledRetry, forceAuthTokenRefresh, tokens,
                     realtime, listens, writes, events>>
  BY DEF AuthAccepted, First
<1>2. /\ rest \in Seq(Request)
      /\ unackedListensCount = Cardinality(ListensAt(rest))
  <2>1. /\ rest \in Seq(Request)
        /\ Cardinality(ListensAt(rest)) \in Nat
        /\ unackedListensCount = Cardinality(ListensAt(rest))
               + (IF requests[i].kind = "listen" THEN 1 ELSE 0)
    BY AnsweredRequest
  <2> HIDE DEF rest
  <2> QED BY <1>1, <2>1
<1>3. realtime = "connected"
  BY RequestsAgree DEF ControlInv, StateAgrees
<1>4. CASE RestoreState(rest)
  BY <1>1, <1>2, <1>3, <1>4, RestoreStateKeeps
<1>5. CASE /\ connectionState' = "Connected"
           /\ requests' = rest
           /\ UNCHANGED unackedListensCount
  <2>1. WriteTypes'
    BY <1>1, WritesKept DEF ControlInv
  <2>2. RequestTypes'
    BY <1>1, <1>2, <1>5 DEF ControlInv, RequestTypes
  <2>3. ControlTypes'
    BY <1>1, <1>5 DEF ControlInv, ControlTypes, tokens
  <2>4. connected' /\ canSendWrites'
    BY <1>5 DEF connected, canSendWrites
  <2> QED BY <1>1, <1>2, <1>3, <1>5, <2>1, <2>2, <2>3, <2>4, OpenKeeps DEF tokens
<1> QED BY <1>4, <1>5 DEF AuthAccepted

\* Sending one more request.
LEMMA SendKeeps ==
    ASSUME ControlInv, ControlTypes', listens' \subseteq Listens, WriteTypes',
           UNCHANGED <<connectionState, realtime, interruptReasons, scheduledRetry,
                       fetches, currentFetchTokenAttempt>>,
           NEW r \in Request,
           connected, r.kind = "put" => canSendWrites,
           requests' = Append(requests, r),
           unackedListensCount' =
               unackedListensCount + (IF r.kind = "listen" THEN 1 ELSE 0)
    PROVE  ControlInv'
<1>1. /\ unackedListensCount \in Nat /\ requests \in Seq(Request)
      /\ unackedListensCount = Cardinality(ListensAt(requests))
  BY UnackedIsCount DEF ControlInv, RequestTypes
<1>2. /\ unackedListensCount' = Cardinality(ListensAt(requests'))
      /\ requests' \in Seq(Request)
  BY <1>1, ListensAppend, AppendProperties
<1>3. RequestTypes'
  BY <1>1, <1>2 DEF RequestTypes
<1>4. \A i \in DOMAIN requests' : requests'[i].kind = "put" => canSendWrites
  <2> SUFFICES ASSUME NEW i \in DOMAIN requests', requests'[i].kind = "put"
               PROVE  canSendWrites
    OBVIOUS
  <2>1. (i \in DOMAIN requests /\ requests'[i] = requests[i]) \/ requests'[i] = r
    BY <1>1
  <2> QED BY <2>1, RequestsAgree DEF ControlInv
<1> QED BY <1>2, <1>3, <1>4, SameConnectionKeeps

\* Changing nothing but what is not about requests.
LEMMA SameRequestsKeep ==
    ASSUME ControlInv, ControlTypes', listens' \subseteq Listens, WriteTypes',
           UNCHANGED <<connectionState, realtime, interruptReasons, scheduledRetry,
                       fetches, currentFetchTokenAttempt, requests, unackedListensCount>>
    PROVE  ControlInv'
<1>1. RequestTypes'
  BY DEF ControlInv, RequestTypes
<1>2. unackedListensCount' = Cardinality(ListensAt(requests'))
  BY UnackedIsCount
<1> QED BY <1>1, <1>2, RequestsAgree, SameConnectionKeeps DEF ControlInv

\* refreshAuthToken keeps the invariant.
LEMMA RefreshAuthTokenKeeps ==
    ASSUME ControlInv, NEW token \in BOOLEAN, RefreshAuthToken(token)
    PROVE  ControlInv'
<1>1. /\ Event /\ authToken' = token /\ refused' = FALSE
      /\ requests' = IF connected /\ token THEN Append(requests, AuthRequest(FALSE))
                                           ELSE requests
      /\ UNCHANGED <<connectionState, interruptReasons, scheduledRetry,
                     forceAuthTokenRefresh, fetches, currentFetchTokenAttempt,
                     realtime, unackedListensCount, listens, writes>>
  BY DEF RefreshAuthToken
<1>2. WriteTypes' /\ listens' \subseteq Listens
  BY <1>1, WritesKept DEF ControlInv, RequestTypes
<1>3. ControlTypes'
  BY <1>1, EventBound DEF ControlInv, ControlTypes
<1>4. CASE connected /\ token
  <2>1. PICK a \in Request : a = AuthRequest(FALSE) /\ a.kind = "auth"
    BY NewRequests
  <2>2. requests' = Append(requests, a)
    BY <1>1, <1>4, <2>1
  <2>3. unackedListensCount' =
            unackedListensCount + (IF a.kind = "listen" THEN 1 ELSE 0)
    <3>1. unackedListensCount' = unackedListensCount /\ unackedListensCount \in Nat
      BY <1>1, UnackedIsCount
    <3>2. a.kind = "auth"
      BY <2>1
    <3> QED BY <3>1, <3>2
  <2> QED BY <1>1, <1>2, <1>3, <1>4, <2>1, <2>2, <2>3, SendKeeps
<1>5. CASE ~(connected /\ token)
  BY <1>1, <1>2, <1>3, <1>5, SameRequestsKeep
<1> QED BY <1>4, <1>5

\* listen keeps the invariant.
LEMMA ListenKeeps ==
    ASSUME ControlInv, NEW q \in Listens, Listen(q)
    PROVE  ControlInv'
<1>1. /\ listens' = listens \cup {q}
      /\ UNCHANGED <<connectionState, interruptReasons, scheduledRetry,
                     forceAuthTokenRefresh, tokens, realtime, writes, events>>
  BY DEF Listen
<1>2. WriteTypes' /\ listens' \subseteq Listens
  BY <1>1, WritesKept DEF ControlInv, RequestTypes
<1>3. ControlTypes'
  BY <1>1 DEF ControlInv, ControlTypes, tokens
<1>4. CASE connected
  <2>1. requests' = Append(requests, ListenRequest(q))
        /\ unackedListensCount' = unackedListensCount + 1
    BY <1>4 DEF Listen
  <2>2. ListenRequest(q) \in Request /\ ListenRequest(q).kind = "listen"
    BY NewRequests
  <2> QED BY <1>1, <1>2, <1>3, <1>4, <2>1, <2>2, SendKeeps DEF tokens
<1>5. CASE ~connected
  <2>1. UNCHANGED <<requests, unackedListensCount>>
    BY <1>5 DEF Listen
  <2> QED BY <1>1, <1>2, <1>3, <2>1, SameRequestsKeep DEF tokens
<1> QED BY <1>4, <1>5

\* unlisten keeps the invariant.
LEMMA UnlistenKeeps ==
    ASSUME ControlInv, NEW q \in Listens, Unlisten(q)
    PROVE  ControlInv'
<1>1. /\ Event /\ listens' = listens \ {q} /\ requests' = Outdated(requests, q)
      /\ UNCHANGED <<connectionState, interruptReasons, scheduledRetry,
                     forceAuthTokenRefresh, tokens, realtime, unackedListensCount, writes>>
  BY DEF Unlisten
<1>2. WriteTypes'
  BY <1>1, WritesKept DEF ControlInv
<1>3. ControlTypes'
  BY <1>1, EventBound DEF ControlInv, ControlTypes, tokens
<1>4. requests \in Seq(Request)
  BY DEF ControlInv, RequestTypes
<1>5. /\ requests' \in Seq(Request) /\ Len(requests') = Len(requests)
      /\ \A i \in 1..Len(requests) : requests'[i].kind = requests[i].kind
      /\ ListensAt(requests') = ListensAt(requests)
  BY <1>1, <1>4, OutdatedProperties
<1>6. RequestTypes'
  BY <1>1, <1>5 DEF ControlInv, RequestTypes
<1>7. unackedListensCount' = Cardinality(ListensAt(requests'))
  BY <1>1, <1>5, UnackedIsCount
<1>8. \A i \in DOMAIN requests' :
          i \in DOMAIN requests /\ requests'[i].kind = requests[i].kind
  BY <1>5, LenProperties, UnackedIsCount
<1> QED BY <1>1, <1>2, <1>3, <1>6, <1>7, <1>8, RequestsAgree, SameConnectionKeeps
        DEF ControlInv, tokens

\* Taking out an answered request, whatever becomes of the listens.
LEMMA AnswerKeeps ==
    ASSUME ControlInv, ControlTypes', listens' \subseteq Listens, WriteTypes',
           UNCHANGED <<connectionState, realtime, interruptReasons, scheduledRetry,
                       fetches, currentFetchTokenAttempt>>,
           NEW i \in DOMAIN requests,
           \/ requests' = RemoveAt(requests, i)
           \/ \E q : requests' = Outdated(RemoveAt(requests, i), q),
           unackedListensCount' =
               unackedListensCount - (IF requests[i].kind = "listen" THEN 1 ELSE 0)
    PROVE  ControlInv'
<1> DEFINE rest == RemoveAt(requests, i)
<1>1. /\ rest \in Seq(Request)
      /\ \A j \in DOMAIN rest : \E h \in DOMAIN requests : rest[j] = requests[h]
      /\ Cardinality(ListensAt(rest)) \in Nat
      /\ unackedListensCount = Cardinality(ListensAt(rest))
             + (IF requests[i].kind = "listen" THEN 1 ELSE 0)
  BY AnsweredRequest
<1> HIDE DEF rest
<1>2. unackedListensCount' = Cardinality(ListensAt(rest))
  BY <1>1
<1>3. /\ requests' \in Seq(Request)
      /\ ListensAt(requests') = ListensAt(rest)
      /\ \A j \in DOMAIN requests' : j \in DOMAIN rest /\ requests'[j].kind = rest[j].kind
  <2>1. CASE requests' = rest
    BY <2>1, <1>1
  <2>2. ASSUME NEW q, requests' = Outdated(rest, q)
        PROVE  /\ requests' \in Seq(Request)
               /\ ListensAt(requests') = ListensAt(rest)
               /\ \A j \in DOMAIN requests' :
                     j \in DOMAIN rest /\ requests'[j].kind = rest[j].kind
    <3>1. DOMAIN rest = 1..Len(rest)
      BY <1>1, LenProperties
    <3>2. requests' \in Seq(Request) /\ Len(requests') = Len(rest)
      BY <2>2, <1>1, OutdatedProperties
    <3>3. DOMAIN requests' = 1..Len(rest)
      BY <3>2, LenProperties
    <3> QED BY <2>2, <1>1, <3>1, <3>3, OutdatedProperties
  <2> QED BY <2>1, <2>2 DEF rest
<1>4. RequestTypes'
  BY <1>1, <1>2, <1>3 DEF RequestTypes
<1>5. \A j \in DOMAIN requests' :
          \E h \in DOMAIN requests : requests'[j].kind = requests[h].kind
  BY <1>1, <1>3
<1>6. \A j \in DOMAIN requests' :
          connected /\ (requests'[j].kind = "put" => canSendWrites)
  BY <1>5, RequestsAgree DEF ControlInv
<1> QED BY <1>2, <1>3, <1>4, <1>6, SameConnectionKeeps

\* The last listen's answer runs the completions that waited for it.
LEMMA ListenAnsweredKeeps ==
    ASSUME ControlInv, NEW i \in DOMAIN requests, NEW status, ListenAnswered(i, status)
    PROVE  ControlInv'
<1>1. /\ requests[i].kind = "listen"
      /\ unackedListensCount' = unackedListensCount - 1
      /\ AckPuts(unackedListensCount')
      /\ UNCHANGED <<connectionState, interruptReasons, scheduledRetry,
                     forceAuthTokenRefresh, tokens, realtime, putCounter,
                     outstandingPuts, log, events>>
  BY DEF ListenAnswered, First
<1>2. /\ listens' \subseteq listens
      /\ \/ requests' = RemoveAt(requests, i)
         \/ \E q : requests' = Outdated(RemoveAt(requests, i), q)
  BY DEF ListenAnswered
<1>3. WriteTypes'
  <2>1. completed \in Seq(Completions) /\ putsToAck \in Seq(Completions)
    BY DEF ControlInv, WriteTypes
  <2>2. Completions' = Completions
    BY <1>1 DEF Completions
  <2>3. completed' \in Seq(Completions) /\ putsToAck' \in Seq(Completions)
    <3>1. completed \o putsToAck \in Seq(Completions) /\ <<>> \in Seq(Completions)
      BY <2>1, ConcatProperties, EmptySeq
    <3> QED BY <1>1, <2>1, <3>1 DEF AckPuts
  <2> QED BY <1>1, <2>2, <2>3 DEF ControlInv, WriteTypes
<1>4. ControlTypes'
  BY <1>1 DEF ControlInv, ControlTypes, tokens
<1>5. listens' \subseteq Listens
  BY <1>2 DEF ControlInv, RequestTypes
<1>6. unackedListensCount' =
          unackedListensCount - (IF requests[i].kind = "listen" THEN 1 ELSE 0)
  BY <1>1
<1> QED BY <1>1, <1>2, <1>3, <1>4, <1>5, <1>6, AnswerKeeps DEF tokens

\* putInternal keeps the invariant: the write waits or is sent.
LEMMA PutKeeps ==
    ASSUME ControlInv, Put
    PROVE  ControlInv'
<1>1. /\ putCounter < MaxPuts /\ putCounter' = putCounter + 1
      /\ outstandingPuts' = Append(outstandingPuts, putCounter')
      /\ UNCHANGED <<connectionState, interruptReasons, scheduledRetry,
                     forceAuthTokenRefresh, tokens, realtime, listens,
                     unackedListensCount, putsToAck, completed, log, events>>
  BY DEF Put
<1>2. putCounter \in Nat /\ MaxPuts \in Nat
  BY BoundsAssumption DEF ControlInv, WriteTypes
<1>3. putCounter' \in 1..putCounter' /\ putCounter' \in 1..MaxPuts
      /\ 1..putCounter \subseteq 1..putCounter' /\ putCounter' \in 0..MaxPuts
  BY <1>1, <1>2
<1>4. WriteTypes'
  <2>1. outstandingPuts \in Seq(1..putCounter')
    BY <1>3, SeqMonotonic DEF ControlInv, WriteTypes
  <2>2. outstandingPuts' \in Seq(1..putCounter')
    BY <1>1, <1>3, <2>1, AppendProperties
  <2>3. Completions \subseteq Completions'
    BY <1>3 DEF Completions
  <2>4. putsToAck' \in Seq(Completions') /\ completed' \in Seq(Completions')
    <3>1. putsToAck \in Seq(Completions) /\ completed \in Seq(Completions)
      BY DEF ControlInv, WriteTypes
    <3> QED BY <1>1, <2>3, <3>1, SeqMonotonic
  <2> QED BY <1>1, <1>3, <2>2, <2>4 DEF ControlInv, WriteTypes
<1>5. ControlTypes'
  BY <1>1 DEF ControlInv, ControlTypes, tokens
<1>6. listens' \subseteq Listens
  BY <1>1 DEF ControlInv, RequestTypes
<1>7. CASE canSendWrites
  <2>1. PutRequest(putCounter') \in Request /\ PutRequest(putCounter').kind = "put"
    BY <1>3, NewRequests
  <2>2. requests' = Append(requests, PutRequest(putCounter')) /\ connected
    BY <1>7 DEF Put, connected, canSendWrites
  <2>3. unackedListensCount' =
            unackedListensCount + (IF PutRequest(putCounter').kind = "listen" THEN 1 ELSE 0)
    <3>1. unackedListensCount' = unackedListensCount /\ unackedListensCount \in Nat
      BY <1>1, UnackedIsCount
    <3> QED BY <2>1, <3>1
  <2> QED BY <1>1, <1>4, <1>5, <1>6, <1>7, <2>1, <2>2, <2>3, SendKeeps DEF tokens
<1>8. CASE ~canSendWrites
  <2>1. requests' = requests
    BY <1>8 DEF Put
  <2> QED BY <1>1, <1>4, <1>5, <1>6, <2>1, SameRequestsKeep DEF tokens
<1> QED BY <1>7, <1>8

\* A decision of the server changes a put's reply only.
LEMMA DecidedRequests ==
    ASSUME ControlInv, NEW i \in DOMAIN requests, NEW reply \in {"ok", "denied"},
           ServerDecides(i, reply)
    PROVE  /\ requests' \in Seq(Request)
           /\ DOMAIN requests' = DOMAIN requests
           /\ requests'[i].kind = "put" /\ requests'[i].reply = reply
           /\ requests'[i].index = requests[i].index
           /\ \A j \in DOMAIN requests : /\ j # i => requests'[j] = requests[j]
                                         /\ requests'[j].kind = requests[j].kind
<1>1. requests[i].kind = "put" /\ requests' = [requests EXCEPT ![i].reply = reply]
  BY DEF ServerDecides
<1> DEFINE r == [requests[i] EXCEPT !.reply = reply]
<1>2. r \in Request /\ r.kind = "put" /\ r.reply = reply /\ r.index = requests[i].index
  <2>1. requests[i] \in Request
    BY UnackedIsCount
  <2> QED BY <1>1, <2>1 DEF Request
<1> HIDE DEF r
<1>3. requests' = [requests EXCEPT ![i] = r]
  BY <1>1 DEF r
<1>4. requests \in Seq(Request) /\ i \in 1..Len(requests)
  BY UnackedIsCount DEF ControlInv, RequestTypes
<1>5. requests' \in Seq(Request)
  BY <1>2, <1>3, <1>4, ExceptSeq
<1>6. DOMAIN requests' = DOMAIN requests
  BY <1>3
<1>7. requests'[i] = r /\ \A j \in DOMAIN requests : j # i => requests'[j] = requests[j]
  BY <1>3
<1> QED BY <1>1, <1>2, <1>5, <1>6, <1>7

\* The server applies or denies a write; the client has not changed.
LEMMA ServerDecidesKeeps ==
    ASSUME ControlInv, NEW i \in DOMAIN requests, NEW reply \in {"ok", "denied"},
           ServerDecides(i, reply)
    PROVE  ControlInv'
<1>1. /\ requests[i].kind = "put"
      /\ log' = IF reply = "ok" THEN Append(log, requests[i].index) ELSE log
      /\ UNCHANGED <<connectionState, interruptReasons, scheduledRetry,
                     forceAuthTokenRefresh, tokens, realtime, listens,
                     unackedListensCount, putCounter, outstandingPuts, putsToAck,
                     completed, events>>
  BY DEF ServerDecides
<1>2. requests[i].index \in 1..MaxPuts
  BY <1>1, UnackedIsCount, RequestFields
<1>3. WriteTypes'
  <2>1. log' \in Seq(1..MaxPuts)
    BY <1>1, <1>2, AppendProperties DEF ControlInv, WriteTypes
  <2> QED BY <1>1, <2>1 DEF ControlInv, WriteTypes, Completions
<1>4. ControlTypes'
  BY <1>1 DEF ControlInv, ControlTypes, tokens
<1>5. RequestTypes'
  BY <1>1, DecidedRequests DEF ControlInv, RequestTypes
<1>6. \A j \in DOMAIN requests' :
          connected /\ (requests'[j].kind = "put" => canSendWrites)
  BY DecidedRequests, RequestsAgree DEF ControlInv
<1>7. ListensAt(requests') = ListensAt(requests)
  BY DecidedRequests DEF ListensAt
<1>8. unackedListensCount' = Cardinality(ListensAt(requests'))
  BY <1>1, <1>7, UnackedIsCount
<1> QED BY <1>1, <1>3, <1>4, <1>5, <1>6, <1>8, SameConnectionKeeps DEF tokens

\* A completion block runs now or waits.
LEMMA CompleteTypes ==
    ASSUME WriteTypes, NEW c \in Completions, Complete(c)
    PROVE  completed' \in Seq(Completions) /\ putsToAck' \in Seq(Completions)
<1>1. completed \in Seq(Completions) /\ putsToAck \in Seq(Completions)
  BY DEF WriteTypes
<1>2. CASE completed' = Append(completed, c) /\ putsToAck' = putsToAck
  BY <1>1, <1>2, AppendProperties
<1>3. CASE putsToAck' = Append(putsToAck, c) /\ completed' = completed
  BY <1>1, <1>3, AppendProperties
<1> QED BY <1>2, <1>3 DEF Complete

\* The answer to a put keeps the invariant.
LEMMA PutAnsweredKeeps ==
    ASSUME ControlInv, NEW i \in DOMAIN requests, PutAnswered(i)
    PROVE  ControlInv'
<1>1. /\ requests[i].kind = "put" /\ requests[i].reply # "none"
      /\ requests' = RemoveAt(requests, i)
      /\ UNCHANGED <<connectionState, interruptReasons, scheduledRetry,
                     forceAuthTokenRefresh, tokens, realtime, listens,
                     unackedListensCount, putCounter, log, events>>
  BY DEF PutAnswered, First
<1>2. WriteTypes'
  <2>1. CASE UNCHANGED <<outstandingPuts, completed, putsToAck>>
    BY <1>1, <2>1, WritesKept DEF ControlInv, writes
  <2>2. ASSUME NEW k \in DOMAIN outstandingPuts,
               outstandingPuts[k] = requests[i].index,
               outstandingPuts' = RemoveAt(outstandingPuts, k),
               Complete(Completion(requests[i].index, requests[i].reply))
        PROVE  WriteTypes'
    <3>1. outstandingPuts \in Seq(1..putCounter) /\ k \in 1..Len(outstandingPuts)
      BY LenProperties DEF ControlInv, WriteTypes
    <3>2. requests[i].index \in 1..putCounter
      BY <2>2, <3>1, ElementOfSeq
    <3>3. requests[i].reply \in {"ok", "denied"}
      BY <1>1, UnackedIsCount, RequestFields
    <3>4. Completion(requests[i].index, requests[i].reply) \in Completions
      BY <3>2, <3>3 DEF Completion, Completions
    <3>5. completed' \in Seq(Completions) /\ putsToAck' \in Seq(Completions)
      BY <2>2, <3>4, CompleteTypes DEF ControlInv
    <3>6. outstandingPuts' \in Seq(1..putCounter)
      BY <2>2, <3>1, RemoveAtProperties
    <3>7. Completions' = Completions
      BY <1>1 DEF Completions
    <3> QED BY <1>1, <3>5, <3>6, <3>7 DEF ControlInv, WriteTypes
  <2> QED BY <2>1, <2>2 DEF PutAnswered
<1>3. ControlTypes'
  BY <1>1 DEF ControlInv, ControlTypes, tokens
<1>4. listens' \subseteq Listens
  BY <1>1 DEF ControlInv, RequestTypes
<1>5. unackedListensCount' =
          unackedListensCount - (IF requests[i].kind = "listen" THEN 1 ELSE 0)
  <2>1. unackedListensCount' = unackedListensCount /\ unackedListensCount \in Nat
    BY <1>1, UnackedIsCount
  <2> QED BY <1>1, <2>1
<1> QED BY <1>1, <1>2, <1>3, <1>4, <1>5, AnswerKeeps DEF tokens

\* What a purge completes.
LEMMA CanceledCompletions ==
    ASSUME WriteTypes
    PROVE  LET X == [i \in DOMAIN outstandingPuts |->
                        Completion(outstandingPuts[i], "canceled")]
           IN  /\ X \in Seq(Completions)
               /\ Len(X) = Len(outstandingPuts)
               /\ Len(outstandingPuts) \in Nat
               /\ DOMAIN outstandingPuts = 1..Len(outstandingPuts)
               /\ \A k \in 1..Len(X) : /\ X[k].index = outstandingPuts[k]
                                       /\ X[k].status = "canceled"
<1> DEFINE X == [i \in DOMAIN outstandingPuts |-> Completion(outstandingPuts[i], "canceled")]
<1>1. Len(outstandingPuts) \in Nat /\ DOMAIN outstandingPuts = 1..Len(outstandingPuts)
  BY LenProperties DEF WriteTypes
<1>2. \A k \in 1..Len(outstandingPuts) : outstandingPuts[k] \in 1..putCounter
  BY ElementOfSeq DEF WriteTypes
<1>3. \A n \in 1..putCounter : /\ Completion(n, "canceled") \in Completions
                               /\ Completion(n, "canceled").index = n
                               /\ Completion(n, "canceled").status = "canceled"
  BY DEF Completion, Completions
<1>4. X \in [1..Len(outstandingPuts) -> Completions]
  BY <1>1, <1>2, <1>3
<1>5. X \in Seq(Completions) /\ Len(X) = Len(outstandingPuts)
  BY <1>1, <1>4
<1>6. \A k \in 1..Len(X) : X[k].index = outstandingPuts[k] /\ X[k].status = "canceled"
  BY <1>1, <1>2, <1>3, <1>5
<1> QED BY <1>1, <1>5, <1>6

\* purgeOutstandingWrites keeps the invariant.
LEMMA PurgeKeeps ==
    ASSUME ControlInv, PurgeOutstandingWrites
    PROVE  ControlInv'
<1> DEFINE X == [i \in DOMAIN outstandingPuts |-> Completion(outstandingPuts[i], "canceled")]
<1>1. /\ Event /\ completed' = completed \o putsToAck \o X
      /\ putsToAck' = <<>> /\ outstandingPuts' = <<>>
      /\ UNCHANGED <<connectionState, interruptReasons, scheduledRetry,
                     forceAuthTokenRefresh, tokens, realtime, requests, listens,
                     unackedListensCount, putCounter, log>>
  BY DEF PurgeOutstandingWrites
<1>2. X \in Seq(Completions)
  BY CanceledCompletions DEF ControlInv
<1> HIDE DEF X
<1>3. WriteTypes'
  <2>1. completed \o putsToAck \in Seq(Completions)
    BY ConcatProperties DEF ControlInv, WriteTypes
  <2>2. completed' \in Seq(Completions) /\ putsToAck' \in Seq(Completions)
    BY <1>1, <1>2, <2>1, ConcatProperties, EmptySeq
  <2>3. Completions' = Completions
    BY <1>1 DEF Completions
  <2>4. outstandingPuts' \in Seq(1..putCounter)
    BY <1>1
  <2> QED BY <1>1, <2>2, <2>3, <2>4 DEF ControlInv, WriteTypes
<1>4. ControlTypes'
  BY <1>1, EventBound DEF ControlInv, ControlTypes, tokens
<1>5. listens' \subseteq Listens
  BY <1>1 DEF ControlInv, RequestTypes
<1> QED BY <1>1, <1>3, <1>4, <1>5, SameRequestsKeep DEF tokens

-----------------------------------------------------------------------------
\* The client begins disconnected with nothing outstanding.
LEMMA ControlInit == Init => ControlInv
<1> SUFFICES ASSUME Init PROVE ControlInv
  OBVIOUS
<1>1. ControlTypes
  <2>1. 0 \in 0..MaxEvents
    BY BoundsAssumption
  <2> QED BY <2>1 DEF Init, ControlTypes, Reason
<1>2. RequestTypes
  BY DEF Init, RequestTypes
<1>3. WriteTypes
  BY BoundsAssumption DEF Init, WriteTypes
<1>4. StateAgrees
  BY DEF Init, StateAgrees, connected, Range
<1>5. UnackedListensCounted
  BY NoListens DEF Init, UnackedListensCounted, ListensAt
<1>6. FetchAwaited
  BY DEF Init, FetchAwaited
<1>7. NeverStranded
  BY DEF Init, NeverStranded
<1> QED BY <1>1, <1>2, <1>3, <1>4, <1>5, <1>6, <1>7 DEF ControlInv

\* Every step keeps the invariant.
LEMMA ControlStep == ControlInv /\ [Next]_vars => ControlInv'
<1>1. ASSUME ControlInv, Connecting PROVE ControlInv'
  <2>1. CASE \E r \in Reason : ResumeForReason(r)
    BY <1>1, <2>1, ResumeForReasonKeeps
  <2>2. CASE \E r \in {"server_kill", "repo_interrupt"} : InterruptForReason(r)
    BY <1>1, <2>2, InterruptForReasonKeeps DEF Reason
  <2>3. CASE \E f \in fetches : TokenError(f) \/ \E t \in BOOLEAN : TokenFetched(f, t)
    BY <1>1, <2>3, TokenErrorKeeps, TokenFetchedKeeps
  <2>4. CASE \/ \E i \in DOMAIN requests : AuthAccepted(i)
             \/ \E t \in BOOLEAN : RefreshAuthToken(t)
    BY <1>1, <2>4, AuthAcceptedKeeps, RefreshAuthTokenKeeps
  <2> QED BY <1>1, <2>1, <2>2, <2>3, <2>4, ConnectionLostKeeps, NetworkOrAppBackKeeps,
             RetryFiresKeeps, OnReadyKeeps, AuthRefusedKeeps
          DEF Connecting
<1>2. ASSUME ControlInv, Listening PROVE ControlInv'
  BY <1>2, ListenKeeps, UnlistenKeeps, ListenAnsweredKeeps DEF Listening
<1>3. ASSUME ControlInv, Writing PROVE ControlInv'
  BY <1>3, PutKeeps, PurgeKeeps, PutAnsweredKeeps, ServerDecidesKeeps DEF Writing
<1>4. ASSUME ControlInv, UNCHANGED vars PROVE ControlInv'
  <2>1. UNCHANGED <<tokens, writes>>
    BY <1>4 DEF vars, tokens, writes
  <2>2. ControlTypes' /\ WriteTypes' /\ listens' \subseteq Listens
    BY <1>4, <2>1, WritesKept DEF ControlInv, ControlTypes, RequestTypes, vars
  <2> QED BY <1>4, <2>2, SameRequestsKeep DEF vars
<1> QED BY <1>1, <1>2, <1>3, <1>4 DEF Next

\* The state of the connection, its socket, its retry and its requests agree in
\* every reachable state.
LEMMA ControlAlways == Spec => []ControlInv
BY ControlInit, ControlStep, PTL DEF Spec

\* Whatever interrupts, resumes, loses or refuses the connection in between,
\* each block of the queue finds the state it asserts (the FFAsserts of
\* FPersistentConnection.m).
THEOREM StatesAgree == Spec => []StateAgrees
<1>1. ControlInv => StateAgrees
  BY DEF ControlInv
<1> QED BY <1>1, ControlAlways, PTL

\* unackedListensCount is the number of listens in flight, across lost
\* connections, restored states and dropped queries (sendListen, onDisconnect).
THEOREM ListensCounted == Spec => []UnackedListensCounted
<1>1. ControlInv => UnackedListensCounted
  BY DEF ControlInv
<1> QED BY <1>1, ControlAlways, PTL

\* A client that nothing interrupts has a retry, an awaited fetch or a
\* connection (tryScheduleReconnect and the callbacks it leads to).
THEOREM ClientNotStranded == Spec => []NeverStranded
<1>1. ControlInv => NeverStranded
  BY DEF ControlInv
<1> QED BY <1>1, ControlAlways, PTL

-----------------------------------------------------------------------------
(***************************************************************************)
(* The writes: none is lost, completed twice or overtaken, and the         *)
(* connection implements WriteQueue.                                       *)
(***************************************************************************)

IsAuth(i) == requests[i].kind = "auth"
IsPut(i) == requests[i].kind = "put"

\* The state is restored by the first authentication of a connection only.
RestoredOnce ==
    /\ \A i, j \in DOMAIN requests :
          i < j /\ IsAuth(i) /\ IsAuth(j) => ~requests[j].restore
    /\ \A i \in DOMAIN requests :
          IsAuth(i) /\ requests[i].restore => connectionState = "Authenticating"
    /\ connectionState = "Authenticating" =>
          \E i \in DOMAIN requests : IsAuth(i) /\ requests[i].restore

\* What is listened to, or was when a completion was deferred, includes the
\* observer that stays.
ObserverStays ==
    listens # {} \/ unackedListensCount > 0 \/ putsToAck # <<>> =>
        listens \cap Permanent # {}

\* A connected client that waits for no listen holds no completion back.
NothingHeldBack ==
    connectionState = "Connected" /\ unackedListensCount = 0 => putsToAck = <<>>

\* Writes are on the wire in their order, and decided in that order.
SentInOrder ==
    \A i, j \in DOMAIN requests : i < j /\ IsPut(i) /\ IsPut(j) =>
        /\ requests[i].index < requests[j].index
        /\ requests[j].reply # "none" => requests[i].reply # "none"

\* What is outstanding is on the wire of an open connection.
AllSent ==
    connectionState = "Connected" =>
        \A k \in DOMAIN outstandingPuts : \E i \in DOMAIN requests :
            IsPut(i) /\ requests[i].index = outstandingPuts[k]

\* What is on the wire was issued after everything that was answered.
AnsweredBefore ==
    /\ \A i \in DOMAIN requests : IsPut(i) =>
          /\ requests[i].index <= putCounter
          /\ \A k \in DOMAIN completed :
                completed[k].status # "canceled" => completed[k].index < requests[i].index
          /\ \A k \in DOMAIN putsToAck : putsToAck[k].index < requests[i].index
    /\ \A k \in DOMAIN putsToAck : putsToAck[k].status # "canceled"

\* The server applied write n, and no earlier one since.
Applied(n) ==
    \E e \in DOMAIN log : /\ log[e] = n
                          /\ \A k \in e..Len(log) : log[k] >= n

OkApplied ==
    /\ \A i \in DOMAIN requests :
          IsPut(i) /\ requests[i].reply = "ok" => Applied(requests[i].index)
    /\ \A k \in DOMAIN completed :
          completed[k].status = "ok" => Applied(completed[k].index)
    /\ \A k \in DOMAIN putsToAck :
          putsToAck[k].status = "ok" => Applied(putsToAck[k].index)
    /\ \A e \in DOMAIN log : log[e] <= putCounter

\* WritesConserved, position by position.
Conserved ==
    /\ Len(completed) + Len(putsToAck) + Len(outstandingPuts) = putCounter
    /\ \A k \in DOMAIN completed : completed[k].index = k
    /\ \A k \in DOMAIN putsToAck : putsToAck[k].index = Len(completed) + k
    /\ \A k \in DOMAIN outstandingPuts :
          outstandingPuts[k] = Len(completed) + Len(putsToAck) + k

WritesInv ==
    /\ RestoredOnce /\ ObserverStays /\ NothingHeldBack
    /\ SentInOrder /\ AllSent /\ AnsweredBefore /\ OkApplied /\ Conserved

-----------------------------------------------------------------------------
(* Requests in flight, but for the listens.                                *)

\* What is not a listen of s is in t, in the same order.
Among(s, t) ==
    /\ \A i, j \in DOMAIN s :
          i < j /\ s[i].kind # "listen" /\ s[j].kind # "listen" =>
              \E g, h \in DOMAIN t : g < h /\ t[g] = s[i] /\ t[h] = s[j]
    /\ \A j \in DOMAIN s : s[j].kind # "listen" => \E h \in DOMAIN t : t[h] = s[j]

\* Being among the writes of a sequence of requests is transitive.
LEMMA AmongTransitive ==
    ASSUME NEW s, NEW t, NEW u, Among(s, t), Among(t, u)
    PROVE  Among(s, u)
<1>1. ASSUME NEW i \in DOMAIN s, NEW j \in DOMAIN s,
             i < j, s[i].kind # "listen", s[j].kind # "listen"
      PROVE  \E g, h \in DOMAIN u : g < h /\ u[g] = s[i] /\ u[h] = s[j]
  <2>1. PICK g \in DOMAIN t, h \in DOMAIN t : g < h /\ t[g] = s[i] /\ t[h] = s[j]
    BY <1>1 DEF Among
  <2> QED BY <1>1, <2>1 DEF Among
<1>2. ASSUME NEW j \in DOMAIN s, s[j].kind # "listen"
      PROVE  \E h \in DOMAIN u : u[h] = s[j]
  <2>1. PICK h \in DOMAIN t : t[h] = s[j]
    BY <1>2 DEF Among
  <2> QED BY <1>2, <2>1 DEF Among
<1> QED BY <1>1, <1>2 DEF Among

\* Marking listens as outdated touches no write.
LEMMA AmongOutdated ==
    ASSUME NEW s \in Seq(Request), NEW q
    PROVE  Among(Outdated(s, q), s) /\ Among(s, Outdated(s, q))
<1> DEFINE o == Outdated(s, q)
<1>1. /\ o \in Seq(Request) /\ Len(o) = Len(s)
      /\ \A i \in 1..Len(s) : /\ o[i].kind = s[i].kind
                              /\ s[i].kind # "listen" => o[i] = s[i]
  BY OutdatedProperties
<1>2. DOMAIN o = 1..Len(s) /\ DOMAIN s = 1..Len(s)
  BY <1>1, LenProperties
<1> HIDE DEF o
<1>3. Among(o, s) /\ Among(s, o)
  BY <1>1, <1>2 DEF Among
<1> QED BY <1>3 DEF o

\* Taking an answered request off leaves the others, and no write is lost if
\* it was a listen.
LEMMA AmongRemoveAt ==
    ASSUME NEW s \in Seq(Request), NEW i \in DOMAIN s
    PROVE  /\ Among(RemoveAt(s, i), s)
           /\ s[i].kind = "listen" => Among(s, RemoveAt(s, i))
<1> DEFINE r == RemoveAt(s, i)
<1>1. Len(s) \in Nat /\ DOMAIN s = 1..Len(s)
  BY LenProperties
<1>2. /\ r \in Seq(Request) /\ Len(r) = Len(s) - 1
      /\ \A j \in 1..(Len(s) - 1) : r[j] = IF j < i THEN s[j] ELSE s[j + 1]
  BY <1>1, RemoveAtProperties
<1>3. DOMAIN r = 1..(Len(s) - 1)
  BY <1>2, LenProperties
<1> HIDE DEF r
<1>4. Among(r, s)
  <2> DEFINE at(j) == IF j < i THEN j ELSE j + 1
  <2>1. \A j \in DOMAIN r : at(j) \in DOMAIN s /\ s[at(j)] = r[j]
    BY <1>1, <1>2, <1>3
  <2>2. \A j, k \in DOMAIN r : j < k => at(j) < at(k)
    BY <1>1, <1>3
  <2> HIDE DEF at
  <2> QED BY <2>1, <2>2 DEF Among
<1>5. ASSUME s[i].kind = "listen" PROVE Among(s, r)
  <2> DEFINE at(j) == IF j < i THEN j ELSE j - 1
  <2>1. \A j \in DOMAIN s : j # i => at(j) \in DOMAIN r /\ r[at(j)] = s[j]
    <3> SUFFICES ASSUME NEW j \in DOMAIN s, j # i
                 PROVE  at(j) \in DOMAIN r /\ r[at(j)] = s[j]
      OBVIOUS
    <3>1. at(j) \in 1..(Len(s) - 1)
      BY <1>1
    <3>2. j = IF at(j) < i THEN at(j) ELSE at(j) + 1
      BY <1>1
    <3> HIDE DEF at
    <3> QED BY <1>2, <1>3, <3>1, <3>2
  <2>2. \A j, k \in DOMAIN s : j < k /\ j # i /\ k # i => at(j) < at(k)
    BY <1>1
  <2> HIDE DEF at
  <2>3. \A j \in DOMAIN s : s[j].kind # "listen" => j # i
    BY <1>5
  <2> QED BY <2>1, <2>2, <2>3 DEF Among
<1> QED BY <1>4, <1>5 DEF r

\* A listen that is sent comes after everything else.
LEMMA AmongAppend ==
    ASSUME NEW s \in Seq(Request), NEW r \in Request
    PROVE  /\ Among(s, Append(s, r))
           /\ r.kind = "listen" => Among(Append(s, r), s)
<1>1. /\ DOMAIN Append(s, r) = 1..(Len(s) + 1)
      /\ DOMAIN s = 1..Len(s) /\ Len(s) \in Nat
      /\ \A i \in DOMAIN s : Append(s, r)[i] = s[i]
      /\ Append(s, r)[Len(s) + 1] = r
  BY AppendCases
<1> DEFINE a == Append(s, r)
<1> HIDE DEF a
<1>2. Among(s, a)
  <2>1. DOMAIN s \subseteq DOMAIN a /\ \A i \in DOMAIN s : a[i] = s[i]
    BY <1>1 DEF a
  <2> QED BY <2>1 DEF Among
<1>3. ASSUME r.kind = "listen" PROVE Among(a, s)
  <2>1. \A i \in DOMAIN a : a[i].kind # "listen" => i \in DOMAIN s /\ s[i] = a[i]
    BY <1>1, <1>3 DEF a
  <2> QED BY <2>1 DEF Among
<1> QED BY <1>2, <1>3 DEF a

-----------------------------------------------------------------------------
(* The connection.                                                         *)

\* What the server applied stays applied while its log does not change.
LEMMA AppliedKept ==
    ASSUME UNCHANGED log, NEW n, Applied(n)
    PROVE  Applied(n)'
BY DEF Applied

\* Without requests, what was issued and answered is all there is.
LEMMA ClosedWrites ==
    ASSUME WritesInv, requests' = <<>>, ~connected',
           unackedListensCount' \in {0, unackedListensCount},
           UNCHANGED <<listens, writes>>
    PROVE  WritesInv'
<1>1. DOMAIN requests' = {} /\ connectionState' \notin {"Authenticating", "Connected"}
  BY DEF connected
<1>2. RestoredOnce' /\ NothingHeldBack' /\ SentInOrder' /\ AllSent'
  BY <1>1 DEF RestoredOnce, NothingHeldBack, SentInOrder, AllSent
<1>3. ObserverStays'
  BY DEF WritesInv, ObserverStays, writes
<1>4. AnsweredBefore'
  BY <1>1 DEF WritesInv, AnsweredBefore, writes
<1>5. OkApplied'
  BY <1>1, AppliedKept DEF WritesInv, OkApplied, writes
<1>6. Conserved'
  BY DEF WritesInv, Conserved, writes
<1> QED BY <1>2, <1>3, <1>4, <1>5, <1>6 DEF WritesInv

\* What was sent stays sent, in its order.
LEMMA AmongOrders ==
    ASSUME WritesInv, Among(requests', requests)
    PROVE  /\ SentInOrder'
           /\ \A i, j \in DOMAIN requests' :
                 i < j /\ IsAuth(i)' /\ IsAuth(j)' => ~requests'[j].restore
<1>1. SentInOrder'
  <2> SUFFICES ASSUME NEW i \in DOMAIN requests', NEW j \in DOMAIN requests',
                      i < j, requests'[i].kind = "put", requests'[j].kind = "put"
               PROVE  /\ requests'[i].index < requests'[j].index
                      /\ requests'[j].reply # "none" => requests'[i].reply # "none"
    BY DEF SentInOrder, IsPut
  <2>1. PICK g \in DOMAIN requests, h \in DOMAIN requests :
            g < h /\ requests[g] = requests'[i] /\ requests[h] = requests'[j]
    BY DEF Among
  <2>2. requests[g].kind = "put" /\ requests[h].kind = "put"
    BY <2>1
  <2> QED BY <2>1, <2>2 DEF WritesInv, SentInOrder, IsPut
<1>2. ASSUME NEW i \in DOMAIN requests', NEW j \in DOMAIN requests', i < j,
             requests'[i].kind = "auth", requests'[j].kind = "auth"
      PROVE  ~requests'[j].restore
  <2>1. PICK g \in DOMAIN requests, h \in DOMAIN requests :
            g < h /\ requests[g] = requests'[i] /\ requests[h] = requests'[j]
    BY <1>2 DEF Among
  <2>2. requests[g].kind = "auth" /\ requests[h].kind = "auth"
    BY <1>2, <2>1
  <2>3. ~requests[h].restore
    BY <2>1, <2>2 DEF WritesInv, RestoredOnce, IsAuth
  <2> QED BY <2>1, <2>3
<1> QED BY <1>1, <1>2 DEF IsAuth

\* The facts about what is sent depend only on which writes are in flight.
LEMMA AmongSending ==
    ASSUME WritesInv, Among(requests', requests), Among(requests, requests'),
           UNCHANGED <<connectionState, outstandingPuts>>
    PROVE  RestoredOnce' /\ SentInOrder' /\ AllSent'
<1>1. RestoredOnce'
  <2>1. ASSUME NEW i \in DOMAIN requests', requests'[i].kind = "auth", requests'[i].restore
        PROVE  connectionState' = "Authenticating"
    <3>1. PICK h \in DOMAIN requests : requests[h] = requests'[i]
      BY <2>1 DEF Among
    <3>2. requests[h].kind = "auth" /\ requests[h].restore
      BY <2>1, <3>1
    <3> QED BY <3>2 DEF WritesInv, RestoredOnce, IsAuth
  <2>2. ASSUME connectionState' = "Authenticating"
        PROVE  \E i \in DOMAIN requests' : requests'[i].kind = "auth" /\ requests'[i].restore
    <3>1. PICK h \in DOMAIN requests : requests[h].kind = "auth" /\ requests[h].restore
      BY <2>2 DEF WritesInv, RestoredOnce, IsAuth
    <3>2. PICK i \in DOMAIN requests' : requests'[i] = requests[h]
      BY <3>1 DEF Among
    <3>3. requests'[i].kind = "auth" /\ requests'[i].restore
      BY <3>1, <3>2
    <3> QED BY <3>3
  <2> QED BY <2>1, <2>2, AmongOrders DEF RestoredOnce, IsAuth
<1>2. AllSent'
  <2> SUFFICES ASSUME connectionState = "Connected", NEW k \in DOMAIN outstandingPuts
               PROVE  \E i \in DOMAIN requests' :
                          requests'[i].kind = "put" /\ requests'[i].index = outstandingPuts[k]
    BY DEF AllSent, IsPut
  <2>1. PICK h \in DOMAIN requests :
            requests[h].kind = "put" /\ requests[h].index = outstandingPuts[k]
    BY DEF WritesInv, AllSent, IsPut
  <2>2. PICK i \in DOMAIN requests' : requests'[i] = requests[h]
    BY <2>1 DEF Among
  <2>3. requests'[i].kind = "put" /\ requests'[i].index = outstandingPuts[k]
    BY <2>1, <2>2
  <2> QED BY <2>3
<1> QED BY <1>1, <1>2, AmongOrders

\* What is on the wire still comes after what was answered, and what was
\* answered "ok" is still applied.
LEMMA AmongAnswers ==
    ASSUME WritesInv, Among(requests', requests), UNCHANGED writes
    PROVE  AnsweredBefore' /\ OkApplied' /\ Conserved'
<1>1. \A i \in DOMAIN requests' : requests'[i].kind = "put" =>
          \E h \in DOMAIN requests : requests[h] = requests'[i]
  BY DEF Among
<1>2. AnsweredBefore'
  <2>1. ASSUME NEW i \in DOMAIN requests', requests'[i].kind = "put"
        PROVE  /\ requests'[i].index <= putCounter
               /\ \A k \in DOMAIN completed :
                     completed[k].status # "canceled" => completed[k].index < requests'[i].index
               /\ \A k \in DOMAIN putsToAck : putsToAck[k].index < requests'[i].index
    <3>1. PICK h \in DOMAIN requests : requests[h] = requests'[i]
      BY <2>1, <1>1
    <3> QED BY <2>1, <3>1 DEF WritesInv, AnsweredBefore, IsPut
  <2> QED BY <2>1 DEF WritesInv, AnsweredBefore, IsPut, writes
<1>3. OkApplied'
  <2>1. ASSUME NEW i \in DOMAIN requests', requests'[i].kind = "put", requests'[i].reply = "ok"
        PROVE  Applied(requests'[i].index)
    <3>1. PICK h \in DOMAIN requests : requests[h] = requests'[i]
      BY <2>1, <1>1
    <3> QED BY <2>1, <3>1 DEF WritesInv, OkApplied, IsPut
  <2> QED BY <2>1, AppliedKept DEF WritesInv, OkApplied, IsPut, writes
<1>4. Conserved'
  BY DEF WritesInv, Conserved, writes
<1> QED BY <1>2, <1>3, <1>4

\* What a step that leaves the writes alone has to show.
LEMMA SameWritesKeep ==
    ASSUME WritesInv, ObserverStays', NothingHeldBack',
           Among(requests', requests), Among(requests, requests'),
           UNCHANGED <<connectionState, writes>>
    PROVE  WritesInv'
<1>1. UNCHANGED outstandingPuts
  BY DEF writes
<1>2. RestoredOnce' /\ SentInOrder' /\ AllSent'
  BY <1>1, AmongSending
<1>3. AnsweredBefore' /\ OkApplied' /\ Conserved'
  BY AmongAnswers
<1> QED BY <1>2, <1>3 DEF WritesInv

\* A sequence of requests has its own writes.
LEMMA AmongSame ==
    ASSUME NEW s
    PROVE  Among(s, s)
BY DEF Among

\* A step that touches neither requests nor writes keeps the invariant.
LEMMA IdleWrites ==
    ASSUME WritesInv,
           UNCHANGED <<connectionState, requests, listens, unackedListensCount, writes>>
    PROVE  WritesInv'
<1>1. ObserverStays' /\ NothingHeldBack'
  BY DEF WritesInv, ObserverStays, NothingHeldBack, writes
<1>2. Among(requests', requests) /\ Among(requests, requests')
  BY AmongSame
<1> QED BY <1>1, <1>2, SameWritesKeep

\* Before the connection is open nothing is on the wire.
LEMMA OpeningWrites ==
    ASSUME ControlInv, WritesInv,
           \/ ConnectionLost \/ NetworkOrAppBack \/ RetryFires
           \/ \E r \in Reason : ResumeForReason(r)
           \/ \E r \in {"server_kill", "repo_interrupt"} : InterruptForReason(r)
           \/ \E f \in fetches : TokenError(f) \/ \E t \in BOOLEAN : TokenFetched(f, t)
           \/ AuthRefused
    PROVE  WritesInv'
<1>1. CASE \/ ConnectionLost \/ AuthRefused
           \/ \E r \in {"server_kill", "repo_interrupt"} :
                 InterruptForReason(r) /\ realtime # "nil"
  <2>1. UNCHANGED <<listens, writes>>
    BY <1>1 DEF ConnectionLost, AuthRefused, InterruptForReason
  <2>2. \E reasons, force : OnDisconnect(reasons, force)
    BY <1>1 DEF ConnectionLost, AuthRefused, InterruptForReason
  <2>3. requests' = <<>> /\ connectionState' = "Disconnected" /\ unackedListensCount' = 0
    BY <2>2 DEF OnDisconnect
  <2> QED BY <2>1, <2>3, ClosedWrites DEF connected
<1>2. CASE \/ \E r \in {"server_kill", "repo_interrupt"} :
                 InterruptForReason(r) /\ realtime = "nil"
           \/ RetryFires
           \/ \E f \in fetches : TokenError(f) /\ f.attempt = currentFetchTokenAttempt
           \/ \E f \in fetches, t \in BOOLEAN : TokenFetched(f, t) /\ Awaited(f)
  <2>1. UNCHANGED <<requests, unackedListensCount, listens, writes>>
    BY <1>2 DEF InterruptForReason, RetryFires, TokenError, TokenFetched
  <2>2. realtime # "connected"
    BY <1>2 DEF ControlInv, ControlTypes, StateAgrees, connected, RetryFires, Awaited
  <2>3. requests = <<>>
    BY <2>2, NoRequests DEF ControlInv
  <2>4. ~connected'
    BY <1>2 DEF InterruptForReason, RetryFires, TokenError, TokenFetched, connected
  <2> QED BY <2>1, <2>3, <2>4, ClosedWrites
<1>3. CASE \/ NetworkOrAppBack
           \/ \E r \in Reason : ResumeForReason(r)
           \/ \E f \in fetches : TokenError(f) /\ f.attempt # currentFetchTokenAttempt
           \/ \E f \in fetches, t \in BOOLEAN : TokenFetched(f, t) /\ ~Awaited(f)
  <2>1. UNCHANGED <<connectionState, requests, listens, unackedListensCount, writes>>
    BY <1>3 DEF NetworkOrAppBack, ResumeForReason, TokenError, TokenFetched
  <2> QED BY <2>1, IdleWrites
<1> QED BY <1>1, <1>2, <1>3

\* After a restored state everything outstanding is on the wire again, none of
\* it decided: the earlier writes first.
LEMMA RestoredWrites ==
    ASSUME ControlInv, WritesInv,
           NEW inFlight \in Seq(Request),
           \A i \in 1..Len(inFlight) :
               /\ inFlight[i].kind # "put"
               /\ inFlight[i].kind = "auth" => ~inFlight[i].restore,
           RestoreState(inFlight),
           UNCHANGED <<listens, writes>>
    PROVE  WritesInv'
<1> DEFINE m == Len(inFlight)
           n == Cardinality(listens)
           p == Len(outstandingPuts)
           c == Len(completed) + Len(putsToAck)
<1>1. /\ connectionState' = "Connected"
      /\ unackedListensCount' = unackedListensCount + n
  BY DEF RestoreState
<1>2. PICK order \in Enumerations(listens) :
          requests' = inFlight
                      \o [i \in DOMAIN order |-> ListenRequest(order[i])]
                      \o [i \in DOMAIN outstandingPuts |-> PutRequest(outstandingPuts[i])]
  BY DEF RestoreState
<1>3. /\ n \in Nat
      /\ requests' \in Seq(Request)
      /\ Len(requests') = m + n + p
      /\ \A i \in 1..m : requests'[i] = inFlight[i]
      /\ \A i \in (m + 1)..(m + n) : requests'[i].kind = "listen"
      /\ \A k \in DOMAIN outstandingPuts :
            requests'[m + n + k] = PutRequest(outstandingPuts[k])
  BY <1>2, RestoredRequests DEF ControlInv
<1>4. /\ m \in Nat /\ p \in Nat /\ DOMAIN outstandingPuts = 1..p
      /\ Len(completed) \in Nat /\ DOMAIN completed = 1..Len(completed)
      /\ Len(putsToAck) \in Nat /\ DOMAIN putsToAck = 1..Len(putsToAck)
      /\ DOMAIN requests' = 1..(m + n + p)
  BY <1>3, LenProperties DEF ControlInv, WriteTypes
<1>5. /\ \A k \in 1..p : outstandingPuts[k] = c + k
      /\ c + p = putCounter /\ c \in Nat
  BY <1>4 DEF WritesInv, Conserved
<1> HIDE DEF m, n, p
<1>6. \A i \in DOMAIN requests' : requests'[i].kind = "put" =>
          /\ i - (m + n) \in 1..p
          /\ requests'[i].index = c + (i - (m + n))
          /\ requests'[i].reply = "none"
  <2> SUFFICES ASSUME NEW i \in 1..(m + n + p), requests'[i].kind = "put"
               PROVE  /\ i - (m + n) \in 1..p
                      /\ requests'[i].index = c + (i - (m + n))
                      /\ requests'[i].reply = "none"
    BY <1>4
  <2>1. ~(i \in 1..m) /\ ~(i \in (m + 1)..(m + n))
    BY <1>3 DEF m
  <2>2. i - (m + n) \in 1..p /\ (m + n) + (i - (m + n)) = i
    BY <2>1, <1>3, <1>4
  <2>3. requests'[i] = PutRequest(c + (i - (m + n)))
    BY <2>2, <1>3, <1>4, <1>5
  <2> QED BY <2>2, <2>3 DEF PutRequest
<1>7. \A k \in 1..p : /\ m + n + k \in DOMAIN requests'
                      /\ requests'[m + n + k].kind = "put"
                      /\ requests'[m + n + k].index = outstandingPuts[k]
  <2> SUFFICES ASSUME NEW k \in 1..p
               PROVE  /\ m + n + k \in DOMAIN requests'
                      /\ requests'[m + n + k].kind = "put"
                      /\ requests'[m + n + k].index = outstandingPuts[k]
    OBVIOUS
  <2>1. m + n + k \in 1..(m + n + p)
    BY <1>3, <1>4
  <2>2. requests'[m + n + k] = PutRequest(outstandingPuts[k])
    BY <1>3, <1>4
  <2> QED BY <2>1, <2>2, <1>4 DEF PutRequest
<1>8. \A i \in DOMAIN requests' : requests'[i].kind = "auth" => ~requests'[i].restore
  <2> SUFFICES ASSUME NEW i \in 1..(m + n + p), requests'[i].kind = "auth"
               PROVE  ~requests'[i].restore
    BY <1>4
  <2>1. CASE i \in 1..m
    BY <2>1, <1>3 DEF m
  <2>2. CASE i \in (m + 1)..(m + n)
    BY <2>2, <1>3
  <2>3. CASE i \in (m + n + 1)..(m + n + p)
    <3>1. i - (m + n) \in 1..p /\ (m + n) + (i - (m + n)) = i
      BY <2>3, <1>3, <1>4
    <3>2. requests'[i].kind = "put"
      BY <3>1, <1>7
    <3> QED BY <3>2
  <2> QED BY <2>1, <2>2, <2>3, <1>3, <1>4
<1>9. RestoredOnce'
  BY <1>1, <1>8 DEF RestoredOnce, IsAuth
<1>10. ObserverStays'
  <2>1. CASE listens = {}
    <3>1. n = 0
      BY <2>1, FS_EmptySet DEF n
    <3>2. unackedListensCount' = unackedListensCount
      BY <3>1, <1>1, UnackedIsCount
    <3> QED BY <3>2 DEF WritesInv, ObserverStays, writes
  <2>2. CASE listens # {}
    BY <2>2 DEF WritesInv, ObserverStays
  <2> QED BY <2>1, <2>2
<1>11. NothingHeldBack'
  <2> SUFFICES ASSUME unackedListensCount' = 0 PROVE putsToAck = <<>>
    BY DEF NothingHeldBack, writes
  <2>1. n = 0
    BY <1>1, <1>3, UnackedIsCount
  <2>2. IsFiniteSet(listens)
    <3>1. IsFiniteSet(Listens) /\ listens \in SUBSET Listens
      BY ListensAssumption DEF Listens, ControlInv, RequestTypes
    <3> QED BY <3>1, FS_Subset
  <2>3. listens = {}
    BY <2>1, <2>2, FS_EmptySet DEF n
  <2> QED BY <2>3 DEF WritesInv, ObserverStays
<1>12. SentInOrder'
  <2> SUFFICES ASSUME NEW i \in DOMAIN requests', NEW j \in DOMAIN requests',
                      i < j, requests'[i].kind = "put", requests'[j].kind = "put"
               PROVE  /\ requests'[i].index < requests'[j].index
                      /\ requests'[j].reply # "none" => requests'[i].reply # "none"
    BY DEF SentInOrder, IsPut
  <2>1. /\ requests'[i].index = c + (i - (m + n))
        /\ requests'[j].index = c + (j - (m + n))
        /\ requests'[j].reply = "none"
    BY <1>6
  <2>2. i \in Int /\ j \in Int
    BY <1>4
  <2> HIDE DEF c
  <2> QED BY <2>1, <2>2, <1>3, <1>4, <1>5
<1>13. AllSent'
  BY <1>4, <1>7 DEF AllSent, IsPut, writes
<1>14. AnsweredBefore'
  <2>1. ASSUME NEW i \in DOMAIN requests', requests'[i].kind = "put"
        PROVE  /\ requests'[i].index <= putCounter
               /\ \A k \in DOMAIN completed : completed[k].index < requests'[i].index
               /\ \A k \in DOMAIN putsToAck : putsToAck[k].index < requests'[i].index
    <3>1. i - (m + n) \in 1..p /\ requests'[i].index = c + (i - (m + n))
      BY <2>1, <1>6
    <3>2. requests'[i].index > c /\ requests'[i].index <= putCounter
          /\ requests'[i].index \in Nat
      <4> HIDE DEF c
      <4> QED BY <3>1, <1>3, <1>4, <1>5
    <3>3. \A k \in DOMAIN completed : completed[k].index <= c /\ completed[k].index \in Nat
      BY <1>4 DEF WritesInv, Conserved
    <3>4. \A k \in DOMAIN putsToAck : putsToAck[k].index <= c /\ putsToAck[k].index \in Nat
      BY <1>4 DEF WritesInv, Conserved
    <3> HIDE DEF c
    <3> QED BY <3>2, <3>3, <3>4, <1>5
  <2> QED BY <2>1 DEF WritesInv, AnsweredBefore, IsPut, writes
<1>15. OkApplied'
  <2>1. \A i \in DOMAIN requests' : requests'[i].kind = "put" => requests'[i].reply # "ok"
    BY <1>6
  <2> QED BY <2>1, AppliedKept DEF WritesInv, OkApplied, IsPut, writes
<1>16. Conserved'
  BY DEF WritesInv, Conserved, writes
<1> QED BY <1>9, <1>10, <1>11, <1>12, <1>13, <1>14, <1>15, <1>16 DEF WritesInv

\* onReady sends the token first or, without one, every outstanding write.
LEMMA OnReadyWrites ==
    ASSUME ControlInv, WritesInv, OnReady
    PROVE  WritesInv'
<1>1. realtime = "connecting" /\ UNCHANGED <<listens, writes>>
  BY DEF OnReady
<1>2. requests = <<>> /\ requests \in Seq(Request)
  BY <1>1, NoRequests DEF ControlInv, RequestTypes
<1>3. CASE RestoreState(requests)
  <2>1. \A i \in 1..Len(requests) : FALSE
    BY <1>2
  <2> QED BY <1>1, <1>2, <1>3, <2>1, RestoredWrites
<1>4. CASE /\ connectionState' = "Authenticating"
           /\ requests' = Append(requests, AuthRequest(TRUE))
           /\ UNCHANGED unackedListensCount
  <2>1. /\ DOMAIN requests' = {1}
        /\ requests'[1].kind = "auth" /\ requests'[1].restore
    <3>1. AuthRequest(TRUE) \in Request /\ AuthRequest(TRUE).kind = "auth"
          /\ AuthRequest(TRUE).restore
      BY NewRequests DEF AuthRequest
    <3>2. PICK a \in Request : a = AuthRequest(TRUE) /\ a.kind = "auth" /\ a.restore
      BY <3>1
    <3>3. requests' = Append(requests, a)
      BY <1>4, <3>2
    <3>4. Len(requests) = 0
      BY <1>2
    <3>5. DOMAIN requests' = 1..(0 + 1) /\ requests'[0 + 1] = a
      BY <1>2, <3>3, <3>4, AppendCases
    <3>6. DOMAIN requests' = {1} /\ requests'[1] = a
      BY <3>5
    <3>7. a.kind = "auth" /\ a.restore
      BY <3>2
    <3> QED BY <3>6, <3>7
  <2>2. RestoredOnce'
    <3>1. connectionState' = "Authenticating"
      BY <1>4
    <3>2. \A i, j \in DOMAIN requests' : ~(i < j)
      BY <2>1
    <3> QED BY <2>1, <3>1, <3>2 DEF RestoredOnce, IsAuth
  <2>3. NothingHeldBack' /\ SentInOrder' /\ AllSent'
    BY <1>4, <2>1 DEF NothingHeldBack, SentInOrder, AllSent, IsPut
  <2>4. ObserverStays'
    BY <1>1, <1>4 DEF WritesInv, ObserverStays, writes
  <2>5. AnsweredBefore'
    BY <1>1, <2>1 DEF WritesInv, AnsweredBefore, IsPut, writes
  <2>6. OkApplied'
    BY <1>1, <2>1, AppliedKept DEF WritesInv, OkApplied, IsPut, writes
  <2>7. Conserved'
    BY <1>1 DEF WritesInv, Conserved, writes
  <2> QED BY <2>2, <2>3, <2>4, <2>5, <2>6, <2>7 DEF WritesInv
<1> QED BY <1>3, <1>4 DEF OnReady

\* The first authentication restores the state; nothing was written on this
\* connection before.  A later one changes nothing for the writes.
LEMMA AuthAcceptedWrites ==
    ASSUME ControlInv, WritesInv, NEW i \in DOMAIN requests, AuthAccepted(i)
    PROVE  WritesInv'
<1> DEFINE rest == RemoveAt(requests, i)
<1>1. requests[i].kind = "auth" /\ UNCHANGED <<listens, writes>>
      /\ \A h \in 1..(i - 1) : requests[h].kind # "auth"
  BY DEF AuthAccepted, First
<1>2. /\ rest \in Seq(Request) /\ Len(requests) \in Nat
      /\ DOMAIN rest = 1..(Len(requests) - 1)
      /\ DOMAIN requests = 1..Len(requests)
      /\ i \in 1..Len(requests)
      /\ \A j \in 1..(Len(requests) - 1) :
            rest[j] = IF j < i THEN requests[j] ELSE requests[j + 1]
  BY AnsweredRequest, UnackedIsCount
<1>3. Among(rest, requests)
  BY AmongRemoveAt DEF ControlInv, RequestTypes
<1> HIDE DEF rest
<1>4. CASE requests[i].restore /\ RestoreState(rest)
  <2>1. connectionState = "Authenticating"
    BY <1>1, <1>4 DEF WritesInv, RestoredOnce, IsAuth
  <2>2. \A j \in DOMAIN requests : requests[j].kind # "put"
    BY <2>1, RequestsAgree DEF ControlInv, canSendWrites
  <2>3. \A j \in DOMAIN rest : rest[j].kind # "put"
    BY <1>3, <2>2 DEF Among
  <2>4. \A j \in DOMAIN rest : rest[j].kind = "auth" => ~rest[j].restore
    <3> SUFFICES ASSUME NEW j \in 1..(Len(requests) - 1), rest[j].kind = "auth"
                 PROVE  ~rest[j].restore
      BY <1>2
    <3>1. CASE j < i
      <4>1. rest[j] = requests[j] /\ j \in 1..(i - 1)
        BY <3>1, <1>2
      <4> QED BY <4>1, <1>1
    <3>2. CASE ~(j < i)
      <4>1. rest[j] = requests[j + 1] /\ i < j + 1 /\ j + 1 \in DOMAIN requests
        BY <3>2, <1>2
      <4>2. requests[j + 1].kind = "auth"
        BY <4>1
      <4>3. ~requests[j + 1].restore
        BY <4>1, <4>2, <1>1 DEF WritesInv, RestoredOnce, IsAuth
      <4> QED BY <4>1, <4>3
    <3> QED BY <3>1, <3>2
  <2>5. \A j \in 1..Len(rest) : /\ rest[j].kind # "put"
                                /\ rest[j].kind = "auth" => ~rest[j].restore
    BY <1>2, <2>3, <2>4, LenProperties
  <2> QED BY <1>1, <1>2, <1>4, <2>5, RestoredWrites
<1>5. CASE /\ ~requests[i].restore
           /\ connectionState' = "Connected"
           /\ requests' = rest
           /\ UNCHANGED unackedListensCount
  <2>1. connectionState = "Connected"
    <3>1. connected
      BY RequestsAgree DEF ControlInv
    <3>2. connectionState # "Authenticating"
      <4> SUFFICES ASSUME connectionState = "Authenticating" PROVE FALSE
        OBVIOUS
      <4>1. PICK h \in DOMAIN requests : requests[h].kind = "auth" /\ requests[h].restore
        BY DEF WritesInv, RestoredOnce, IsAuth
      <4>2. h # i /\ ~(h < i)
        BY <1>1, <1>2, <1>5, <4>1
      <4>3. i < h
        BY <4>2, <1>2
      <4> QED BY <1>1, <4>1, <4>3 DEF WritesInv, RestoredOnce, IsAuth
    <3> QED BY <3>1, <3>2 DEF connected
  <2>2. \A j \in DOMAIN rest : rest[j].kind = "auth" => ~rest[j].restore
    <3> SUFFICES ASSUME NEW j \in DOMAIN rest, rest[j].kind = "auth", rest[j].restore
                 PROVE  FALSE
      OBVIOUS
    <3>1. PICK h \in DOMAIN requests : requests[h] = rest[j]
      BY <1>3 DEF Among
    <3>2. requests[h].kind = "auth" /\ requests[h].restore
      BY <3>1
    <3> QED BY <2>1, <3>2 DEF WritesInv, RestoredOnce, IsAuth
  <2>3. RestoredOnce'
    BY <1>5, <2>2 DEF RestoredOnce, IsAuth
  <2>4. /\ SentInOrder' /\ AnsweredBefore' /\ OkApplied' /\ Conserved'
    BY <1>1, <1>3, <1>5, AmongOrders, AmongAnswers
  <2>5. ObserverStays' /\ NothingHeldBack'
    BY <1>1, <1>5, <2>1 DEF WritesInv, ObserverStays, NothingHeldBack, writes
  <2>6. AllSent'
    <3> SUFFICES ASSUME NEW k \in DOMAIN outstandingPuts
                 PROVE  \E j \in DOMAIN rest :
                            rest[j].kind = "put" /\ rest[j].index = outstandingPuts[k]
      BY <1>1, <1>5 DEF AllSent, IsPut, writes
    <3>1. PICK h \in DOMAIN requests :
              requests[h].kind = "put" /\ requests[h].index = outstandingPuts[k]
      BY <2>1 DEF WritesInv, AllSent, IsPut
    <3>2. h # i
      BY <3>1, <1>1
    <3>3. PICK j \in 1..(Len(requests) - 1) : h = IF j < i THEN j ELSE j + 1
      <4>1. CASE h < i
        BY <4>1, <1>2
      <4>2. CASE i < h
        <5>1. h - 1 \in 1..(Len(requests) - 1) /\ ~(h - 1 < i) /\ (h - 1) + 1 = h
          BY <4>2, <1>2
        <5> QED BY <5>1
      <4>3. h < i \/ i < h
        BY <3>2, <1>2
      <4> QED BY <4>1, <4>2, <4>3
    <3>4. rest[j] = requests[h]
      BY <1>2, <3>3
    <3> QED BY <1>2, <3>1, <3>4
  <2> QED BY <2>3, <2>4, <2>5, <2>6 DEF WritesInv
<1> QED BY <1>4, <1>5 DEF AuthAccepted, rest

\* A new token authenticates again, after the authentication that restores.
LEMMA RefreshAuthTokenWrites ==
    ASSUME ControlInv, WritesInv, NEW token \in BOOLEAN, RefreshAuthToken(token)
    PROVE  WritesInv'
<1>1. UNCHANGED <<connectionState, unackedListensCount, listens, writes>>
  BY DEF RefreshAuthToken
<1>2. CASE connected /\ token
  <2>1. PICK a \in Request : a = AuthRequest(FALSE) /\ a.kind = "auth" /\ ~a.restore
    <3>1. AuthRequest(FALSE) \in Request /\ AuthRequest(FALSE).kind = "auth"
          /\ ~AuthRequest(FALSE).restore
      BY NewRequests DEF AuthRequest
    <3> QED BY <3>1
  <2>2. requests' = Append(requests, a)
    BY <1>2, <2>1 DEF RefreshAuthToken
  <2>3. a.kind = "auth" /\ ~a.restore
    BY <2>1
  <2>4. /\ DOMAIN requests' = 1..(Len(requests) + 1)
        /\ DOMAIN requests = 1..Len(requests) /\ Len(requests) \in Nat
        /\ \A i \in DOMAIN requests : requests'[i] = requests[i]
        /\ requests'[Len(requests) + 1] = a
        /\ \A i \in DOMAIN requests' :
              i \in DOMAIN requests \/ i = Len(requests) + 1
    BY <2>2, AppendCases DEF ControlInv, RequestTypes
  <2>5. \A i \in DOMAIN requests' : requests'[i].kind = "put" => i \in DOMAIN requests
    BY <2>3, <2>4
  <2>6. RestoredOnce'
    <3>1. ASSUME NEW i \in DOMAIN requests', NEW j \in DOMAIN requests', i < j,
                 requests'[i].kind = "auth", requests'[j].kind = "auth"
          PROVE  ~requests'[j].restore
      <4>1. CASE j = Len(requests) + 1
        BY <4>1, <2>3, <2>4
      <4>2. CASE j \in DOMAIN requests
        <5>1. i \in DOMAIN requests
          BY <4>2, <3>1, <2>4
        <5>2. requests[i].kind = "auth" /\ requests[j].kind = "auth"
          BY <4>2, <5>1, <3>1, <2>4
        <5>3. ~requests[j].restore
          BY <4>2, <5>1, <5>2, <3>1 DEF WritesInv, RestoredOnce, IsAuth
        <5> QED BY <5>3, <4>2, <2>4
      <4> QED BY <4>1, <4>2, <2>4
    <3>2. ASSUME NEW i \in DOMAIN requests', requests'[i].kind = "auth", requests'[i].restore
          PROVE  connectionState = "Authenticating"
      <4>1. i \in DOMAIN requests /\ requests[i] = requests'[i]
        BY <3>2, <2>3, <2>4
      <4>2. requests[i].kind = "auth" /\ requests[i].restore
        BY <3>2, <4>1
      <4> QED BY <4>1, <4>2 DEF WritesInv, RestoredOnce, IsAuth
    <3>3. ASSUME connectionState = "Authenticating"
          PROVE  \E i \in DOMAIN requests' : requests'[i].kind = "auth" /\ requests'[i].restore
      <4>1. PICK h \in DOMAIN requests : requests[h].kind = "auth" /\ requests[h].restore
        BY <3>3 DEF WritesInv, RestoredOnce, IsAuth
      <4>2. h \in DOMAIN requests' /\ requests'[h] = requests[h]
        BY <2>4
      <4>3. requests'[h].kind = "auth" /\ requests'[h].restore
        BY <4>1, <4>2
      <4> QED BY <4>2, <4>3
    <3> QED BY <1>1, <3>1, <3>2, <3>3 DEF RestoredOnce, IsAuth
  <2>7. SentInOrder'
    BY <2>4, <2>5 DEF WritesInv, SentInOrder, IsPut
  <2>8. AllSent'
    <3> SUFFICES ASSUME connectionState = "Connected", NEW k \in DOMAIN outstandingPuts
                 PROVE  \E i \in DOMAIN requests' :
                            requests'[i].kind = "put" /\ requests'[i].index = outstandingPuts[k]
      BY <1>1 DEF AllSent, IsPut, writes
    <3>1. PICK h \in DOMAIN requests :
              requests[h].kind = "put" /\ requests[h].index = outstandingPuts[k]
      BY DEF WritesInv, AllSent, IsPut
    <3>2. h \in DOMAIN requests' /\ requests'[h] = requests[h]
      BY <2>4
    <3> QED BY <3>1, <3>2
  <2>9. AnsweredBefore'
    BY <1>1, <2>4, <2>5 DEF WritesInv, AnsweredBefore, IsPut, writes
  <2>10. OkApplied'
    BY <1>1, <2>4, <2>5, AppliedKept DEF WritesInv, OkApplied, IsPut, writes
  <2>11. Conserved' /\ ObserverStays' /\ NothingHeldBack'
    BY <1>1 DEF WritesInv, Conserved, ObserverStays, NothingHeldBack, writes
  <2> QED BY <2>6, <2>7, <2>8, <2>9, <2>10, <2>11 DEF WritesInv
<1>3. CASE ~(connected /\ token)
  <2>1. requests' = requests
    BY <1>3 DEF RefreshAuthToken
  <2> QED BY <1>1, <2>1, IdleWrites
<1> QED BY <1>2, <1>3

-----------------------------------------------------------------------------
(* Listening.                                                              *)

\* listen touches no write.
LEMMA ListenWrites ==
    ASSUME ControlInv, WritesInv, NEW q \in Listens, Listen(q)
    PROVE  WritesInv'
<1>1. /\ q \in Single => Permanent \subseteq listens
      /\ listens' = listens \cup {q}
      /\ UNCHANGED <<connectionState, writes>>
  BY DEF Listen
<1>2. listens' \cap Permanent # {}
  BY <1>1, ListensAssumption DEF Listens
<1>3. ObserverStays'
  BY <1>2 DEF ObserverStays
<1>4. CASE connected
  <2>1. /\ requests' = Append(requests, ListenRequest(q))
        /\ unackedListensCount' = unackedListensCount + 1
    BY <1>4 DEF Listen
  <2>2. ListenRequest(q) \in Request /\ ListenRequest(q).kind = "listen"
    BY NewRequests
  <2>3. Among(requests', requests) /\ Among(requests, requests')
    BY <2>1, <2>2, AmongAppend DEF ControlInv, RequestTypes
  <2>4. NothingHeldBack'
    <3>1. unackedListensCount' # 0
      BY <2>1, UnackedIsCount
    <3> QED BY <3>1 DEF NothingHeldBack
  <2> QED BY <1>1, <1>3, <2>3, <2>4, SameWritesKeep
<1>5. CASE ~connected
  <2>1. UNCHANGED <<requests, unackedListensCount>>
    BY <1>5 DEF Listen
  <2>2. NothingHeldBack'
    BY <1>1, <1>5 DEF NothingHeldBack, connected
  <2>3. Among(requests', requests) /\ Among(requests, requests')
    BY <2>1, AmongSame
  <2> QED BY <1>1, <1>3, <2>2, <2>3, SameWritesKeep
<1> QED BY <1>4, <1>5

\* unlisten touches no write.
LEMMA UnlistenWrites ==
    ASSUME ControlInv, WritesInv, NEW q \in Listens, Unlisten(q)
    PROVE  WritesInv'
<1>1. /\ q \in Single /\ listens' = listens \ {q}
      /\ requests' = Outdated(requests, q)
      /\ UNCHANGED <<connectionState, unackedListensCount, writes>>
  BY DEF Unlisten
<1>2. ObserverStays'
  <2>1. listens' \cap Permanent = listens \cap Permanent
    BY <1>1, ListensAssumption
  <2>2. listens' \subseteq listens
    BY <1>1
  <2> QED BY <1>1, <2>1, <2>2 DEF WritesInv, ObserverStays, writes
<1>3. NothingHeldBack'
  BY <1>1 DEF WritesInv, NothingHeldBack, writes
<1>4. Among(requests', requests) /\ Among(requests, requests')
  BY <1>1, AmongOutdated DEF ControlInv, RequestTypes
<1> QED BY <1>1, <1>2, <1>3, <1>4, SameWritesKeep

\* The deferred completions run in their order.
LEMMA AckedCompletions ==
    ASSUME WriteTypes, NEW c, c = completed \o putsToAck
    PROVE  /\ Len(completed) \in Nat /\ DOMAIN completed = 1..Len(completed)
           /\ Len(putsToAck) \in Nat /\ DOMAIN putsToAck = 1..Len(putsToAck)
           /\ c \in Seq(Completions)
           /\ Len(c) = Len(completed) + Len(putsToAck)
           /\ DOMAIN c = 1..(Len(completed) + Len(putsToAck))
           /\ \A k \in DOMAIN completed : c[k] = completed[k]
           /\ \A k \in DOMAIN putsToAck : c[Len(completed) + k] = putsToAck[k]
           /\ \A k \in DOMAIN c :
                 \/ k \in DOMAIN completed /\ c[k] = completed[k]
                 \/ \E h \in DOMAIN putsToAck :
                       k = Len(completed) + h /\ c[k] = putsToAck[h]
<1>1. /\ Len(completed) \in Nat /\ DOMAIN completed = 1..Len(completed)
      /\ Len(putsToAck) \in Nat /\ DOMAIN putsToAck = 1..Len(putsToAck)
  BY LenProperties DEF WriteTypes
<1>2. /\ c \in Seq(Completions)
      /\ Len(c) = Len(completed) + Len(putsToAck)
      /\ \A k \in 1..(Len(completed) + Len(putsToAck)) :
            c[k] = IF k <= Len(completed) THEN completed[k] ELSE putsToAck[k - Len(completed)]
  BY ConcatProperties DEF WriteTypes
<1>3. DOMAIN c = 1..(Len(completed) + Len(putsToAck))
  BY <1>2, LenProperties
<1>4. \A k \in DOMAIN completed : c[k] = completed[k]
  BY <1>1, <1>2
<1>5. \A k \in DOMAIN putsToAck : c[Len(completed) + k] = putsToAck[k]
  <2> SUFFICES ASSUME NEW k \in 1..Len(putsToAck)
               PROVE  c[Len(completed) + k] = putsToAck[k]
    BY <1>1
  <2>1. /\ Len(completed) + k \in 1..(Len(completed) + Len(putsToAck))
        /\ ~(Len(completed) + k <= Len(completed))
        /\ (Len(completed) + k) - Len(completed) = k
    BY <1>1
  <2> QED BY <2>1, <1>2
<1>6. ASSUME NEW k \in 1..(Len(completed) + Len(putsToAck))
      PROVE  \/ k \in DOMAIN completed /\ c[k] = completed[k]
             \/ \E h \in DOMAIN putsToAck : k = Len(completed) + h /\ c[k] = putsToAck[h]
  <2>1. CASE k <= Len(completed)
    BY <2>1, <1>1, <1>2
  <2>2. CASE ~(k <= Len(completed))
    <3>1. k - Len(completed) \in 1..Len(putsToAck)
          /\ k = Len(completed) + (k - Len(completed))
      BY <2>2, <1>1
    <3>2. c[k] = putsToAck[k - Len(completed)]
      BY <2>2, <1>2
    <3> QED BY <3>1, <3>2, <1>1
  <2> QED BY <2>1, <2>2
<1> QED BY <1>1, <1>2, <1>3, <1>4, <1>5, <1>6

\* What the completions that waited say, they say when they ran.
LEMMA AckPutsWrites ==
    ASSUME ControlInv, WritesInv, Among(requests', requests),
           completed' = completed \o putsToAck, putsToAck' = <<>>,
           UNCHANGED <<putCounter, outstandingPuts, log>>
    PROVE  AnsweredBefore' /\ OkApplied' /\ Conserved'
<1> DEFINE n == Len(completed)
           p == Len(putsToAck)
<1>1. /\ n \in Nat /\ DOMAIN completed = 1..n
      /\ p \in Nat /\ DOMAIN putsToAck = 1..p
      /\ Len(completed') = n + p
      /\ DOMAIN completed' = 1..(n + p)
      /\ \A k \in DOMAIN completed' :
            \/ k \in DOMAIN completed /\ completed'[k] = completed[k]
            \/ \E h \in DOMAIN putsToAck : k = n + h /\ completed'[k] = putsToAck[h]
  BY AckedCompletions DEF ControlInv
<1>2. DOMAIN putsToAck' = {} /\ Len(putsToAck') = 0
  OBVIOUS
<1> HIDE DEF n, p
<1>3. \A i \in DOMAIN requests' : requests'[i].kind = "put" =>
          \E h \in DOMAIN requests : requests[h] = requests'[i]
  BY DEF Among
<1>4. AnsweredBefore'
  <2>1. ASSUME NEW i \in DOMAIN requests', requests'[i].kind = "put"
        PROVE  /\ requests'[i].index <= putCounter
               /\ \A k \in DOMAIN completed' :
                     completed'[k].status # "canceled" => completed'[k].index < requests'[i].index
    <3>1. PICK h \in DOMAIN requests : requests[h] = requests'[i]
      BY <2>1, <1>3
    <3>2. /\ requests[h].index <= putCounter
          /\ \A k \in DOMAIN completed :
                completed[k].status # "canceled" => completed[k].index < requests[h].index
          /\ \A k \in DOMAIN putsToAck : putsToAck[k].index < requests[h].index
      BY <2>1, <3>1 DEF WritesInv, AnsweredBefore, IsPut
    <3> QED BY <3>1, <3>2, <1>1
  <2> QED BY <2>1, <1>2 DEF AnsweredBefore, IsPut
<1>5. OkApplied'
  <2>1. ASSUME NEW i \in DOMAIN requests', requests'[i].kind = "put", requests'[i].reply = "ok"
        PROVE  Applied(requests'[i].index)
    <3>1. PICK h \in DOMAIN requests : requests[h] = requests'[i]
      BY <2>1, <1>3
    <3> QED BY <2>1, <3>1 DEF WritesInv, OkApplied, IsPut
  <2>2. \A k \in DOMAIN completed' :
            completed'[k].status = "ok" => Applied(completed'[k].index)
    BY <1>1 DEF WritesInv, OkApplied
  <2> QED BY <2>1, <2>2, <1>2, AppliedKept DEF WritesInv, OkApplied, IsPut
<1>6. Conserved'
  <2>1. \A k \in DOMAIN completed' : completed'[k].index = k
    BY <1>1 DEF WritesInv, Conserved, n
  <2>2. Len(outstandingPuts) \in Nat
    BY LenProperties DEF ControlInv, WriteTypes
  <2>3. /\ n + p + Len(outstandingPuts) = putCounter
        /\ \A k \in DOMAIN outstandingPuts : outstandingPuts[k] = n + p + k
    BY DEF WritesInv, Conserved, n, p
  <2>4. n + p + 0 + Len(outstandingPuts) = putCounter
        /\ \A k : k \in Int => n + p + 0 + k = n + p + k
    BY <1>1, <2>2, <2>3
  <2>5. DOMAIN outstandingPuts \subseteq Int
    BY LenProperties DEF ControlInv, WriteTypes
  <2> QED BY <1>1, <1>2, <2>1, <2>3, <2>4, <2>5 DEF Conserved
<1> QED BY <1>4, <1>5, <1>6

\* The answer to a listen touches no write.
LEMMA ListenAnsweredWrites ==
    ASSUME ControlInv, WritesInv, NEW i \in DOMAIN requests, NEW status,
           ListenAnswered(i, status)
    PROVE  WritesInv'
<1> DEFINE rest == RemoveAt(requests, i)
<1>1. /\ requests[i].kind = "listen"
      /\ status # "ok" => requests[i].query \in Single
      /\ unackedListensCount' = unackedListensCount - 1
      /\ AckPuts(unackedListensCount')
      /\ UNCHANGED <<connectionState, putCounter, outstandingPuts, log>>
  BY DEF ListenAnswered, First
<1>2. /\ listens' \subseteq listens
      /\ listens' \cap Permanent = listens \cap Permanent
  <2>1. \/ listens' = listens
        \/ status # "ok" /\ listens' = listens \ {requests[i].query}
    BY DEF ListenAnswered
  <2> QED BY <1>1, <2>1, ListensAssumption
<1>3. Among(requests', requests) /\ Among(requests, requests')
  <2>1. rest \in Seq(Request) /\ Among(rest, requests) /\ Among(requests, rest)
    BY <1>1, AmongRemoveAt, AnsweredRequest DEF ControlInv, RequestTypes
  <2>2. CASE requests' = rest
    BY <2>1, <2>2
  <2>3. ASSUME NEW q, requests' = Outdated(rest, q)
        PROVE  Among(requests', requests) /\ Among(requests, requests')
    <3>1. Among(requests', rest) /\ Among(rest, requests')
      BY <2>1, <2>3, AmongOutdated
    <3> QED BY <2>1, <3>1, AmongTransitive
  <2> QED BY <2>2, <2>3 DEF ListenAnswered
<1>4. unackedListensCount \in Nat /\ unackedListensCount' \in Nat
  <2>1. unackedListensCount = Cardinality(ListensAt(rest)) + 1
        /\ Cardinality(ListensAt(rest)) \in Nat
    BY <1>1, AnsweredRequest
  <2> HIDE DEF rest
  <2> QED BY <2>1, <1>1
<1>5. CASE unackedListensCount' # 0
  <2>1. UNCHANGED <<completed, putsToAck>>
    BY <1>1, <1>5 DEF AckPuts
  <2>2. NothingHeldBack'
    BY <1>5 DEF NothingHeldBack
  <2>3. ObserverStays'
    BY <1>1, <1>2, <1>4, <2>1 DEF WritesInv, ObserverStays
  <2> QED BY <1>1, <1>3, <2>1, <2>2, <2>3, SameWritesKeep DEF writes
<1>6. CASE unackedListensCount' = 0
  <2>1. completed' = completed \o putsToAck /\ putsToAck' = <<>>
    BY <1>1, <1>6 DEF AckPuts
  <2>2. NothingHeldBack'
    BY <2>1 DEF NothingHeldBack
  <2>3. ObserverStays'
    BY <1>1, <1>2, <1>4, <1>6, <2>1 DEF WritesInv, ObserverStays
  <2>4. AnsweredBefore' /\ OkApplied' /\ Conserved'
    BY <1>1, <1>3, <2>1, AckPutsWrites
  <2>5. RestoredOnce' /\ SentInOrder' /\ AllSent'
    BY <1>1, <1>3, AmongSending
  <2> QED BY <2>2, <2>3, <2>4, <2>5 DEF WritesInv
<1> QED BY <1>5, <1>6

-----------------------------------------------------------------------------
(* Writing.                                                                *)

\* The lengths of the queues are those of sequences.
LEMMA WriteLengths ==
    ASSUME WriteTypes
    PROVE  /\ putCounter \in Nat
           /\ Len(completed) \in Nat /\ DOMAIN completed = 1..Len(completed)
           /\ Len(putsToAck) \in Nat /\ DOMAIN putsToAck = 1..Len(putsToAck)
           /\ Len(outstandingPuts) \in Nat
           /\ DOMAIN outstandingPuts = 1..Len(outstandingPuts)
           /\ Len(log) \in Nat /\ DOMAIN log = 1..Len(log)
           /\ \A e \in DOMAIN log : log[e] \in Nat
<1>1. putCounter \in Nat
  BY DEF WriteTypes
<1>2. /\ Len(completed) \in Nat /\ DOMAIN completed = 1..Len(completed)
      /\ Len(putsToAck) \in Nat /\ DOMAIN putsToAck = 1..Len(putsToAck)
  BY LenProperties DEF WriteTypes
<1>3. /\ Len(outstandingPuts) \in Nat
      /\ DOMAIN outstandingPuts = 1..Len(outstandingPuts)
  BY LenProperties DEF WriteTypes
<1>4. /\ Len(log) \in Nat /\ DOMAIN log = 1..Len(log)
      /\ \A e \in DOMAIN log : log[e] \in Nat
  <2>1. log \in Seq(1..MaxPuts)
    BY DEF WriteTypes
  <2>2. Len(log) \in Nat /\ DOMAIN log = 1..Len(log)
    BY <2>1, LenProperties
  <2>3. \A e \in 1..Len(log) : log[e] \in 1..MaxPuts
    BY <2>1, ElementOfSeq
  <2> QED BY <2>2, <2>3
<1> QED BY <1>1, <1>2, <1>3, <1>4

\* A new write is the last of all.
LEMMA PutWrites ==
    ASSUME ControlInv, WritesInv, Put
    PROVE  WritesInv'
<1> DEFINE x == putCounter + 1
           o == Len(outstandingPuts)
<1>1. /\ putCounter' = x /\ outstandingPuts' = Append(outstandingPuts, x)
      /\ requests' = IF canSendWrites THEN Append(requests, PutRequest(x)) ELSE requests
      /\ UNCHANGED <<connectionState, listens, unackedListensCount, putsToAck,
                     completed, log>>
      /\ putCounter < MaxPuts
  BY DEF Put
<1>2. /\ putCounter \in Nat /\ x \in 1..MaxPuts
      /\ Len(completed) \in Nat /\ DOMAIN completed = 1..Len(completed)
      /\ Len(putsToAck) \in Nat /\ DOMAIN putsToAck = 1..Len(putsToAck)
      /\ o \in Nat /\ DOMAIN outstandingPuts = 1..o
      /\ \A e \in DOMAIN log : log[e] \in Nat
  BY <1>1, WriteLengths, BoundsAssumption DEF ControlInv
<1>3. /\ DOMAIN outstandingPuts' = 1..(o + 1) /\ Len(outstandingPuts') = o + 1
      /\ \A k \in 1..o : outstandingPuts'[k] = outstandingPuts[k]
      /\ outstandingPuts'[o + 1] = x
  <2>1. outstandingPuts \in Seq(1..x)
    <3>1. 1..putCounter \subseteq 1..x
      BY <1>2
    <3> QED BY <3>1, SeqMonotonic DEF ControlInv, WriteTypes
  <2>2. x \in 1..x
    BY <1>2
  <2>3. Append(outstandingPuts, x) \in Seq(1..x)
    BY <2>1, <2>2, AppendProperties
  <2> HIDE DEF x, o
  <2>4. /\ DOMAIN Append(outstandingPuts, x) = 1..(o + 1)
        /\ \A k \in DOMAIN outstandingPuts : Append(outstandingPuts, x)[k] = outstandingPuts[k]
        /\ Append(outstandingPuts, x)[o + 1] = x
    BY <2>1, <2>2, AppendCases DEF o
  <2>5. Len(Append(outstandingPuts, x)) = o + 1
    BY <2>1, <2>2, AppendProperties DEF o
  <2> QED BY <1>1, <1>2, <2>4, <2>5
<1>4. /\ Len(completed) + Len(putsToAck) + o = putCounter
      /\ \A k \in DOMAIN completed : completed[k].index = k
      /\ \A k \in DOMAIN putsToAck : putsToAck[k].index = Len(completed) + k
      /\ \A k \in 1..o : outstandingPuts[k] = Len(completed) + Len(putsToAck) + k
  BY <1>2 DEF WritesInv, Conserved
<1> HIDE DEF o
<1>5. Conserved'
  <2>1. \A k \in 1..(o + 1) : outstandingPuts'[k] = Len(completed) + Len(putsToAck) + k
    BY <1>2, <1>3, <1>4
  <2>2. Len(completed) + Len(putsToAck) + (o + 1) = putCounter'
    <3>1. putCounter' = putCounter + 1
      BY <1>1
    <3>2. Len(completed) \in Nat /\ Len(putsToAck) \in Nat /\ o \in Nat /\ putCounter \in Nat
      BY <1>2
    <3>3. Len(completed) + Len(putsToAck) + o = putCounter
      BY <1>4
    <3> QED BY <3>1, <3>2, <3>3
  <2> HIDE DEF x
  <2> QED BY <1>1, <1>3, <1>4, <2>1, <2>2 DEF Conserved
<1>6. ObserverStays' /\ NothingHeldBack'
  BY <1>1 DEF WritesInv, ObserverStays, NothingHeldBack
<1>7. \A e \in DOMAIN log' : log'[e] <= putCounter'
  BY <1>1, <1>2 DEF WritesInv, OkApplied
<1>8. \A i \in DOMAIN requests : requests[i].kind = "put" => requests[i].index \in Nat
  <2>1. \A i \in DOMAIN requests : requests[i] \in Request
    BY UnackedIsCount
  <2> QED BY <2>1, RequestFields
<1>9. CASE canSendWrites
  <2> DEFINE r == PutRequest(x)
  <2>1. r \in Request /\ r.kind = "put" /\ r.index = x /\ r.reply = "none"
    BY <1>2, NewRequests DEF PutRequest
  <2>2. requests' = Append(requests, r) /\ connectionState = "Connected"
    BY <1>1, <1>9 DEF canSendWrites
  <2> HIDE DEF r
  <2>3. /\ DOMAIN requests' = 1..(Len(requests) + 1)
        /\ DOMAIN requests = 1..Len(requests) /\ Len(requests) \in Nat
        /\ \A i \in DOMAIN requests : requests'[i] = requests[i]
        /\ requests'[Len(requests) + 1] = r
        /\ \A i \in DOMAIN requests' :
              i \in DOMAIN requests \/ i = Len(requests) + 1
    BY <2>1, <2>2, AppendCases DEF ControlInv, RequestTypes
  <2>4. \A i \in DOMAIN requests : requests[i].kind = "put" => requests[i].index < x
    BY <1>2, <1>8 DEF WritesInv, AnsweredBefore, IsPut
  <2>5. \A i \in DOMAIN requests' : requests'[i].kind = "auth" =>
            i \in DOMAIN requests /\ requests'[i] = requests[i]
    BY <2>1, <2>3
  <2>6. RestoredOnce'
    BY <1>1, <2>2, <2>3, <2>5 DEF WritesInv, RestoredOnce, IsAuth
  <2> HIDE DEF x
  <2>7. SentInOrder'
    <3> SUFFICES ASSUME NEW i \in DOMAIN requests', NEW j \in DOMAIN requests',
                        i < j, requests'[i].kind = "put", requests'[j].kind = "put"
                 PROVE  /\ requests'[i].index < requests'[j].index
                        /\ requests'[j].reply # "none" => requests'[i].reply # "none"
      BY DEF SentInOrder, IsPut
    <3>1. i \in DOMAIN requests
      BY <2>3
    <3>2. CASE j \in DOMAIN requests
      BY <3>1, <3>2, <2>3 DEF WritesInv, SentInOrder, IsPut
    <3>3. CASE j = Len(requests) + 1
      BY <3>1, <3>3, <2>1, <2>3, <2>4
    <3> QED BY <3>2, <3>3, <2>3
  <2>8. AllSent'
    <3> SUFFICES ASSUME NEW k \in 1..(o + 1)
                 PROVE  \E i \in DOMAIN requests' :
                            requests'[i].kind = "put" /\ requests'[i].index = outstandingPuts'[k]
      BY <1>3 DEF AllSent, IsPut
    <3>1. CASE k \in 1..o
      <4>1. PICK h \in DOMAIN requests :
                requests[h].kind = "put" /\ requests[h].index = outstandingPuts[k]
        BY <3>1, <2>2, <1>2 DEF WritesInv, AllSent, IsPut
      <4>2. h \in DOMAIN requests' /\ requests'[h] = requests[h]
        BY <2>3
      <4> QED BY <4>1, <4>2, <3>1, <1>3
    <3>2. CASE k = o + 1
      <4>1. Len(requests) + 1 \in DOMAIN requests'
        BY <2>3
      <4> QED BY <4>1, <3>2, <2>1, <2>3, <1>3
    <3> QED BY <3>1, <3>2, <1>2
  <2>9. AnsweredBefore'
    <3>1. \A k \in DOMAIN completed : completed[k].index < x
      BY <1>2, <1>4 DEF x
    <3>2. \A k \in DOMAIN putsToAck : putsToAck[k].index < x
      BY <1>2, <1>4 DEF x
    <3>3. ASSUME NEW i \in DOMAIN requests', requests'[i].kind = "put"
          PROVE  /\ requests'[i].index <= x
                 /\ \A k \in DOMAIN completed :
                       completed[k].status # "canceled" => completed[k].index < requests'[i].index
                 /\ \A k \in DOMAIN putsToAck : putsToAck[k].index < requests'[i].index
      <4>1. CASE i \in DOMAIN requests
        <5>1. requests[i].index <= x
          BY <4>1, <3>3, <2>3, <2>4, <1>2, <1>8
        <5> QED BY <4>1, <3>3, <2>3, <5>1 DEF WritesInv, AnsweredBefore, IsPut
      <4>2. CASE i = Len(requests) + 1
        <5>1. requests'[i].index = x /\ x \in Nat
          BY <4>2, <2>1, <2>3, <1>2
        <5> QED BY <5>1, <3>1, <3>2
      <4> QED BY <4>1, <4>2, <2>3
    <3> QED BY <1>1, <3>3 DEF WritesInv, AnsweredBefore, IsPut
  <2>10. OkApplied'
    <3>1. ASSUME NEW i \in DOMAIN requests', requests'[i].kind = "put", requests'[i].reply = "ok"
          PROVE  Applied(requests'[i].index)
      <4>1. i \in DOMAIN requests /\ requests'[i] = requests[i]
        BY <3>1, <2>1, <2>3
      <4> QED BY <4>1, <3>1 DEF WritesInv, OkApplied, IsPut
    <3>2. UNCHANGED <<completed, putsToAck, log>>
      BY <1>1
    <3> QED BY <1>7, <3>1, <3>2, AppliedKept DEF WritesInv, OkApplied, IsPut
  <2> QED BY <1>5, <1>6, <2>6, <2>7, <2>8, <2>9, <2>10 DEF WritesInv
<1>10. CASE ~canSendWrites
  <2>1. requests' = requests /\ UNCHANGED connectionState
    BY <1>1, <1>10
  <2>2. \A i \in DOMAIN requests : requests[i].kind # "put"
    BY <1>10, RequestsAgree DEF ControlInv
  <2>3. RestoredOnce'
    BY <2>1 DEF WritesInv, RestoredOnce, IsAuth
  <2>4. SentInOrder' /\ AllSent'
    BY <1>10, <2>1, <2>2 DEF SentInOrder, AllSent, IsPut, canSendWrites
  <2>5. AnsweredBefore'
    BY <1>1, <2>1, <2>2 DEF WritesInv, AnsweredBefore, IsPut
  <2>6. OkApplied'
    <3>1. UNCHANGED <<completed, putsToAck, log>>
      BY <1>1
    <3> QED BY <1>7, <2>1, <2>2, <3>1, AppliedKept DEF WritesInv, OkApplied, IsPut
  <2> QED BY <1>5, <1>6, <2>3, <2>4, <2>5, <2>6 DEF WritesInv
<1> QED BY <1>9, <1>10

\* What the server applied stays applied when it applies a later write.
LEMMA AppliedLater ==
    ASSUME WriteTypes, NEW x \in Nat, log' = Append(log, x), log' \in Seq(1..MaxPuts)
    PROVE  /\ Applied(x)'
           /\ \A n \in Nat : Applied(n) /\ n <= x => Applied(n)'
           /\ \A e \in DOMAIN log' : (e \in DOMAIN log /\ log'[e] = log[e]) \/ log'[e] = x
<1>1. /\ Len(log) \in Nat /\ DOMAIN log = 1..Len(log)
      /\ \A e \in DOMAIN log : log[e] \in Nat
  BY WriteLengths
<1>2. /\ Len(log') = Len(log) + 1 /\ DOMAIN log' = 1..(Len(log) + 1)
      /\ \A e \in DOMAIN log : log'[e] = log[e]
      /\ log'[Len(log) + 1] = x
  <2>1. log \in Seq(Nat)
    <3>1. log \in Seq(1..MaxPuts) /\ 1..MaxPuts \subseteq Nat
      BY DEF WriteTypes
    <3> QED BY <3>1, SeqMonotonic
  <2> QED BY <1>1, <2>1, AppendCases, AppendProperties
<1>3. Applied(x)'
  <2>1. Len(log) + 1 \in DOMAIN log'
    BY <1>1, <1>2
  <2>2. \A k \in (Len(log) + 1)..Len(log') : log'[k] >= x
    BY <1>1, <1>2
  <2> QED BY <1>2, <2>1, <2>2 DEF Applied
<1>4. ASSUME NEW n \in Nat, Applied(n), n <= x
      PROVE  Applied(n)'
  <2>1. PICK e \in DOMAIN log : log[e] = n /\ \A k \in e..Len(log) : log[k] >= n
    BY <1>4 DEF Applied
  <2>2. e \in DOMAIN log' /\ log'[e] = n
    BY <2>1, <1>1, <1>2
  <2>3. \A k \in e..Len(log') : log'[k] >= n
    BY <2>1, <1>1, <1>2, <1>4
  <2> QED BY <2>2, <2>3 DEF Applied
<1>5. \A e \in DOMAIN log' : (e \in DOMAIN log /\ log'[e] = log[e]) \/ log'[e] = x
  BY <1>1, <1>2
<1> QED BY <1>3, <1>4, <1>5

\* The server decides a write that no later one of this connection, and no
\* answered one, is younger than.
LEMMA ServerDecidesWrites ==
    ASSUME ControlInv, WritesInv, NEW i \in DOMAIN requests,
           NEW reply \in {"ok", "denied"}, ServerDecides(i, reply)
    PROVE  WritesInv'
<1>0. PICK x \in 1..MaxPuts : x = requests[i].index
  BY UnackedIsCount, RequestFields DEF ServerDecides
<1>1. /\ requests[i].kind = "put" /\ requests[i].reply = "none"
      /\ \A h \in 1..(i - 1) : requests[h].kind = "put" => requests[h].reply # "none"
      /\ log' = IF reply = "ok" THEN Append(log, x) ELSE log
      /\ UNCHANGED <<connectionState, listens, unackedListensCount, putCounter,
                     outstandingPuts, putsToAck, completed>>
  BY <1>0 DEF ServerDecides
<1>2. /\ DOMAIN requests' = DOMAIN requests
      /\ requests'[i].kind = "put" /\ requests'[i].reply = reply
      /\ requests'[i].index = x
      /\ \A j \in DOMAIN requests : /\ j # i => requests'[j] = requests[j]
                                    /\ requests'[j].kind = requests[j].kind
  BY <1>0, DecidedRequests
<1>3. /\ DOMAIN requests = 1..Len(requests) /\ Len(requests) \in Nat
      /\ x \in 1..MaxPuts
      /\ \A j \in DOMAIN requests : requests[j].kind = "put" =>
             /\ requests[j].index \in Nat /\ requests[j].reply \in {"none", "ok", "denied"}
             /\ requests'[j].index = requests[j].index
  <2>1. \A j \in DOMAIN requests : requests[j] \in Request
    BY UnackedIsCount
  <2>2. \A j \in DOMAIN requests : requests[j].kind = "put" =>
             /\ requests[j].index \in 1..MaxPuts
             /\ requests[j].reply \in {"none", "ok", "denied"}
    BY <2>1, RequestFields
  <2> QED BY <1>0, <1>1, <1>2, <2>2, UnackedIsCount
<1>4. RestoredOnce'
  <2>1. \A j \in DOMAIN requests : requests[j].kind = "auth" \/ requests'[j].kind = "auth" =>
            requests'[j] = requests[j]
    BY <1>1, <1>2
  <2>2. \A j \in DOMAIN requests : requests'[j].kind = "auth" <=> requests[j].kind = "auth"
    BY <1>2
  <2> QED BY <1>1, <1>2, <2>1, <2>2 DEF WritesInv, RestoredOnce, IsAuth
<1>5. ObserverStays' /\ NothingHeldBack' /\ Conserved'
  BY <1>1 DEF WritesInv, ObserverStays, NothingHeldBack, Conserved
<1>6. SentInOrder'
  <2> SUFFICES ASSUME NEW g \in DOMAIN requests, NEW h \in DOMAIN requests,
                      g < h, requests[g].kind = "put", requests[h].kind = "put"
               PROVE  /\ requests'[g].index < requests'[h].index
                      /\ requests'[h].reply # "none" => requests'[g].reply # "none"
    BY <1>2 DEF SentInOrder, IsPut
  <2>1. /\ requests[g].index < requests[h].index
        /\ requests[h].reply # "none" => requests[g].reply # "none"
    BY DEF WritesInv, SentInOrder, IsPut
  <2>2. requests'[g].index < requests'[h].index
    BY <2>1, <1>3
  <2>3. ASSUME requests'[h].reply # "none" PROVE requests'[g].reply # "none"
    <3>1. CASE g = i
      BY <3>1, <1>2
    <3>2. CASE g # i /\ h = i
      <4>1. g \in 1..(i - 1)
        BY <3>2, <1>3
      <4> QED BY <4>1, <3>2, <1>1, <1>2
    <3>3. CASE g # i /\ h # i
      BY <3>3, <2>1, <2>3, <1>2
    <3> QED BY <3>1, <3>2, <3>3
  <2> QED BY <2>2, <2>3
<1>7. AllSent'
  <2> SUFFICES ASSUME connectionState = "Connected", NEW k \in DOMAIN outstandingPuts
               PROVE  \E j \in DOMAIN requests' :
                          requests'[j].kind = "put" /\ requests'[j].index = outstandingPuts[k]
    BY <1>1 DEF AllSent, IsPut
  <2>1. PICK h \in DOMAIN requests :
            requests[h].kind = "put" /\ requests[h].index = outstandingPuts[k]
    BY DEF WritesInv, AllSent, IsPut
  <2> QED BY <2>1, <1>2, <1>3
<1>8. AnsweredBefore'
  <2>1. ASSUME NEW j \in DOMAIN requests', requests'[j].kind = "put"
        PROVE  /\ requests'[j].index <= putCounter
               /\ \A k \in DOMAIN completed :
                     completed[k].status # "canceled" => completed[k].index < requests'[j].index
               /\ \A k \in DOMAIN putsToAck : putsToAck[k].index < requests'[j].index
    <3>1. j \in DOMAIN requests /\ requests[j].kind = "put"
          /\ requests'[j].index = requests[j].index
      BY <2>1, <1>2, <1>3
    <3> QED BY <3>1 DEF WritesInv, AnsweredBefore, IsPut
  <2> QED BY <1>1, <2>1 DEF WritesInv, AnsweredBefore, IsPut
<1>9. CASE reply = "denied"
  <2>1. UNCHANGED log
    BY <1>1, <1>9
  <2>2. ASSUME NEW j \in DOMAIN requests', requests'[j].kind = "put", requests'[j].reply = "ok"
        PROVE  Applied(requests'[j].index)
    <3>1. j # i /\ j \in DOMAIN requests
      BY <2>2, <1>2, <1>9
    <3>2. requests'[j] = requests[j]
      BY <3>1, <1>2
    <3> QED BY <3>1, <3>2, <2>2 DEF WritesInv, OkApplied, IsPut
  <2>3. OkApplied'
    BY <1>1, <2>1, <2>2, AppliedKept DEF WritesInv, OkApplied, IsPut
  <2> QED BY <1>4, <1>5, <1>6, <1>7, <1>8, <2>3 DEF WritesInv
<1>10. CASE reply = "ok"
  <2>1. log' = Append(log, x)
    BY <1>1, <1>10
  <2>2. log' \in Seq(1..MaxPuts)
    BY <2>1, <1>3, AppendProperties DEF ControlInv, WriteTypes
  <2>3. /\ Applied(x)'
        /\ \A n \in Nat : Applied(n) /\ n <= x => Applied(n)'
        /\ \A e \in DOMAIN log' : (e \in DOMAIN log /\ log'[e] = log[e]) \/ log'[e] = x
    BY <2>1, <2>2, <1>3, AppliedLater DEF ControlInv
  <2>4. x <= putCounter
    BY <1>0, <1>1 DEF WritesInv, AnsweredBefore, IsPut
  <2>5. \A e \in DOMAIN log' : log'[e] <= putCounter'
    BY <1>1, <2>3, <2>4 DEF WritesInv, OkApplied
  <2>6. ASSUME NEW j \in DOMAIN requests', requests'[j].kind = "put", requests'[j].reply = "ok"
        PROVE  /\ requests'[j].index \in Nat
               /\ requests'[j].index = x
                  \/ (Applied(requests'[j].index) /\ requests'[j].index <= x)
    <3>1. CASE j = i
      BY <3>1, <1>2, <1>3
    <3>2. CASE j # i
      <4>1. j \in DOMAIN requests /\ requests'[j] = requests[j]
        BY <3>2, <2>6, <1>2
      <4>2. ~(i < j)
        BY <4>1, <2>6, <1>1 DEF WritesInv, SentInOrder, IsPut
      <4>3. j < i
        BY <4>1, <4>2, <3>2, <1>3
      <4>4. requests[j].index < x
        BY <1>0, <4>1, <4>3, <2>6, <1>1 DEF WritesInv, SentInOrder, IsPut
      <4>5. Applied(requests[j].index)
        BY <4>1, <2>6 DEF WritesInv, OkApplied, IsPut
      <4> QED BY <4>1, <4>4, <4>5, <2>6, <1>3
    <3> QED BY <3>1, <3>2
  <2>7. \A k \in DOMAIN completed : completed[k].status = "ok" =>
            /\ completed[k].index \in Nat
            /\ Applied(completed[k].index) /\ completed[k].index <= x
    <3> SUFFICES ASSUME NEW k \in DOMAIN completed, completed[k].status = "ok"
                 PROVE  /\ completed[k].index \in Nat
                        /\ Applied(completed[k].index) /\ completed[k].index <= x
      OBVIOUS
    <3>1. completed[k].index \in Nat
      BY WriteLengths DEF ControlInv, WritesInv, Conserved
    <3>2. completed[k].index < x
      BY <1>0, <1>1 DEF WritesInv, AnsweredBefore, IsPut
    <3>3. Applied(completed[k].index)
      BY DEF WritesInv, OkApplied
    <3> QED BY <3>1, <3>2, <3>3, <1>3
  <2>8. \A k \in DOMAIN putsToAck : putsToAck[k].status = "ok" =>
            /\ putsToAck[k].index \in Nat
            /\ Applied(putsToAck[k].index) /\ putsToAck[k].index <= x
    <3> SUFFICES ASSUME NEW k \in DOMAIN putsToAck, putsToAck[k].status = "ok"
                 PROVE  /\ putsToAck[k].index \in Nat
                        /\ Applied(putsToAck[k].index) /\ putsToAck[k].index <= x
      OBVIOUS
    <3>1. putsToAck[k].index \in Nat
      BY WriteLengths DEF ControlInv, WritesInv, Conserved
    <3>2. putsToAck[k].index < x
      BY <1>0, <1>1 DEF WritesInv, AnsweredBefore, IsPut
    <3>3. Applied(putsToAck[k].index)
      BY DEF WritesInv, OkApplied
    <3> QED BY <3>1, <3>2, <3>3, <1>3
  <2>9. OkApplied'
    BY <1>1, <2>3, <2>5, <2>6, <2>7, <2>8 DEF OkApplied, IsPut
  <2> QED BY <1>4, <1>5, <1>6, <1>7, <1>8, <2>9 DEF WritesInv
<1> QED BY <1>9, <1>10

\* A purge completes what waited and cancels the rest, in their order.
LEMMA PurgeWrites ==
    ASSUME ControlInv, WritesInv, PurgeOutstandingWrites
    PROVE  WritesInv'
<1> DEFINE X == [i \in DOMAIN outstandingPuts |-> Completion(outstandingPuts[i], "canceled")]
           a == completed \o putsToAck
           n == Len(completed)
           p == Len(putsToAck)
           o == Len(outstandingPuts)
<1>1. /\ completed' = a \o X /\ putsToAck' = <<>> /\ outstandingPuts' = <<>>
      /\ UNCHANGED <<connectionState, requests, listens, unackedListensCount,
                     putCounter, log>>
  BY DEF PurgeOutstandingWrites
<1>2. /\ X \in Seq(Completions) /\ Len(X) = o /\ o \in Nat
      /\ DOMAIN outstandingPuts = 1..o
      /\ \A k \in 1..Len(X) : X[k].index = outstandingPuts[k] /\ X[k].status = "canceled"
  BY CanceledCompletions DEF ControlInv
<1>3. /\ n \in Nat /\ DOMAIN completed = 1..n
      /\ p \in Nat /\ DOMAIN putsToAck = 1..p
      /\ a \in Seq(Completions) /\ Len(a) = n + p /\ DOMAIN a = 1..(n + p)
      /\ \A k \in DOMAIN a :
            \/ k \in DOMAIN completed /\ a[k] = completed[k]
            \/ \E h \in DOMAIN putsToAck : k = n + h /\ a[k] = putsToAck[h]
  BY AckedCompletions DEF ControlInv
<1>4. /\ \A k \in DOMAIN completed : completed[k].index = k
      /\ \A k \in DOMAIN putsToAck : putsToAck[k].index = n + k
      /\ \A k \in DOMAIN outstandingPuts : outstandingPuts[k] = n + p + k
      /\ n + p + o = putCounter
  BY DEF WritesInv, Conserved
<1> HIDE DEF X, a, n, p, o
<1>5. /\ Len(completed') = n + p + o /\ DOMAIN completed' = 1..(n + p + o)
      /\ \A k \in 1..(n + p + o) : completed'[k] = IF k <= n + p THEN a[k] ELSE X[k - (n + p)]
  <2>1. /\ a \o X \in Seq(Completions) /\ Len(a \o X) = n + p + o
        /\ \A k \in 1..(n + p + o) : (a \o X)[k] = IF k <= n + p THEN a[k] ELSE X[k - (n + p)]
    <3>1. /\ a \o X \in Seq(Completions) /\ Len(a \o X) = Len(a) + Len(X)
          /\ \A k \in 1..(Len(a) + Len(X)) :
                (a \o X)[k] = IF k <= Len(a) THEN a[k] ELSE X[k - Len(a)]
      BY <1>2, <1>3, ConcatProperties
    <3>2. Len(a) = n + p /\ Len(X) = o
      BY <1>2, <1>3
    <3> QED BY <3>1, <3>2
  <2>2. DOMAIN (a \o X) = 1..(n + p + o)
    BY <2>1, LenProperties
  <2> QED BY <1>1, <2>1, <2>2
<1>6. \A k \in DOMAIN completed' :
          /\ completed'[k].index = k
          /\ \/ k \in DOMAIN completed /\ completed'[k] = completed[k]
             \/ \E h \in DOMAIN putsToAck : completed'[k] = putsToAck[h]
             \/ completed'[k].status = "canceled"
  <2> SUFFICES ASSUME NEW k \in 1..(n + p + o)
               PROVE  /\ completed'[k].index = k
                      /\ \/ k \in DOMAIN completed /\ completed'[k] = completed[k]
                         \/ \E h \in DOMAIN putsToAck : completed'[k] = putsToAck[h]
                         \/ completed'[k].status = "canceled"
    BY <1>5
  <2>1. CASE k <= n + p
    <3>1. k \in DOMAIN a /\ completed'[k] = a[k]
      BY <2>1, <1>3, <1>5
    <3> QED BY <3>1, <1>3, <1>4
  <2>2. CASE ~(k <= n + p)
    <3>1. k - (n + p) \in 1..o /\ n + p + (k - (n + p)) = k
      BY <2>2, <1>2, <1>3
    <3>2. completed'[k] = X[k - (n + p)]
      BY <2>2, <1>5
    <3> QED BY <3>1, <3>2, <1>2, <1>4
  <2> QED BY <2>1, <2>2
<1>7. DOMAIN putsToAck' = {} /\ Len(putsToAck') = 0
      /\ DOMAIN outstandingPuts' = {} /\ Len(outstandingPuts') = 0
  BY <1>1
<1>8. RestoredOnce' /\ SentInOrder'
  BY <1>1 DEF WritesInv, RestoredOnce, SentInOrder, IsAuth, IsPut
<1>9. ObserverStays' /\ NothingHeldBack'
  BY <1>1 DEF WritesInv, ObserverStays, NothingHeldBack
<1>10. AllSent'
  BY <1>7 DEF AllSent
<1>11. AnsweredBefore'
  BY <1>1, <1>6, <1>7 DEF WritesInv, AnsweredBefore, IsPut
<1>12. OkApplied'
  <2>1. \A k \in DOMAIN completed' :
            completed'[k].status = "ok" => Applied(completed'[k].index)
    BY <1>6 DEF WritesInv, OkApplied
  <2> QED BY <1>1, <1>7, <2>1, AppliedKept DEF WritesInv, OkApplied, IsPut
<1>13. Conserved'
  BY <1>1, <1>2, <1>3, <1>4, <1>5, <1>6, <1>7 DEF Conserved
<1> QED BY <1>8, <1>9, <1>10, <1>11, <1>12, <1>13 DEF WritesInv

\* Of the writes on the wire the server answers the first that is outstanding:
\* on an open connection all outstanding ones are there, in their order.
LEMMA FirstIsHead ==
    ASSUME ControlInv, WritesInv, NEW i \in DOMAIN requests, First(i, "put"),
           NEW k \in DOMAIN outstandingPuts, outstandingPuts[k] = requests[i].index
    PROVE  k = 1
<1>1. /\ requests[i].kind = "put"
      /\ \A h \in 1..(i - 1) : requests[h].kind # "put"
  BY DEF First
<1>2. connectionState = "Connected"
  BY <1>1, RequestsAgree DEF ControlInv, canSendWrites
<1>3. /\ DOMAIN outstandingPuts = 1..Len(outstandingPuts) /\ Len(outstandingPuts) \in Nat
      /\ Len(completed) \in Nat /\ Len(putsToAck) \in Nat
      /\ DOMAIN requests = 1..Len(requests)
  BY WriteLengths, UnackedIsCount DEF ControlInv
<1>4. SUFFICES ASSUME k # 1 PROVE FALSE
  OBVIOUS
<1>5. 1 \in DOMAIN outstandingPuts /\ outstandingPuts[1] < outstandingPuts[k]
  <2>1. 1 \in DOMAIN outstandingPuts
    BY <1>3
  <2>2. /\ outstandingPuts[1] = Len(completed) + Len(putsToAck) + 1
        /\ outstandingPuts[k] = Len(completed) + Len(putsToAck) + k
    BY <2>1 DEF WritesInv, Conserved
  <2> QED BY <2>1, <2>2, <1>3, <1>4
<1>6. PICK h \in DOMAIN requests :
          requests[h].kind = "put" /\ requests[h].index = outstandingPuts[1]
  BY <1>2, <1>5 DEF WritesInv, AllSent, IsPut
<1>7. ~(h < i)
  BY <1>1, <1>3, <1>6
<1>8. h # i
  <2>1. outstandingPuts[1] \in Int
    BY <1>3 DEF WritesInv, Conserved
  <2> QED BY <2>1, <1>5, <1>6
<1>9. i < h
  BY <1>3, <1>7, <1>8
<1>10. requests[i].index < requests[h].index
  BY <1>1, <1>6, <1>9 DEF WritesInv, SentInOrder, IsPut
<1>11. outstandingPuts[1] \in Int /\ outstandingPuts[k] \in Int
  BY <1>3, <1>5 DEF WritesInv, Conserved
<1> QED BY <1>5, <1>6, <1>10, <1>11

\* The answered write leaves the wire; all others there are later ones.
LEMMA AnsweredFirst ==
    ASSUME ControlInv, WritesInv, NEW i \in DOMAIN requests, First(i, "put"),
           requests' = RemoveAt(requests, i)
    PROVE  /\ Among(requests', requests)
           /\ \A j \in DOMAIN requests' : requests'[j].kind = "put" =>
                 \E h \in DOMAIN requests :
                    i < h /\ requests[h] = requests'[j]
           /\ \A h \in DOMAIN requests : h # i =>
                 \E j \in DOMAIN requests' : requests'[j] = requests[h]
<1>1. /\ requests' \in Seq(Request)
      /\ DOMAIN requests' = 1..(Len(requests) - 1)
      /\ i \in 1..Len(requests)
      /\ \A j \in 1..(Len(requests) - 1) :
            requests'[j] = IF j < i THEN requests[j] ELSE requests[j + 1]
      /\ DOMAIN requests = 1..Len(requests) /\ Len(requests) \in Nat
  BY AnsweredRequest, UnackedIsCount
<1>2. Among(requests', requests)
  BY AmongRemoveAt DEF ControlInv, RequestTypes
<1>3. ASSUME NEW j \in 1..(Len(requests) - 1), requests'[j].kind = "put"
      PROVE  \E h \in DOMAIN requests : i < h /\ requests[h] = requests'[j]
  <2>1. ~(j < i)
    <3> SUFFICES ASSUME j < i PROVE FALSE
      OBVIOUS
    <3>1. j \in 1..(i - 1) /\ requests'[j] = requests[j]
      BY <1>1
    <3> QED BY <3>1, <1>3 DEF First
  <2>2. requests'[j] = requests[j + 1] /\ i < j + 1 /\ j + 1 \in DOMAIN requests
    BY <2>1, <1>1
  <2> QED BY <2>2
<1>4. ASSUME NEW h \in DOMAIN requests, h # i
      PROVE  \E j \in DOMAIN requests' : requests'[j] = requests[h]
  <2>1. CASE h < i
    <3>1. h \in 1..(Len(requests) - 1)
      BY <2>1, <1>1
    <3> QED BY <2>1, <3>1, <1>1
  <2>2. CASE i < h
    <3>1. h - 1 \in 1..(Len(requests) - 1) /\ ~(h - 1 < i) /\ (h - 1) + 1 = h
      BY <2>2, <1>1
    <3> QED BY <3>1, <1>1
  <2> QED BY <2>1, <2>2, <1>1, <1>4
<1> QED BY <1>1, <1>2, <1>3, <1>4

\* The answer to a put removes exactly the write it answers and calls its
\* callback.
LEMMA PutAnsweredWrites ==
    ASSUME ControlInv, WritesInv, NEW i \in DOMAIN requests, PutAnswered(i)
    PROVE  WritesInv'
<1> DEFINE o == Len(outstandingPuts)
           n == Len(completed)
           p == Len(putsToAck)
<1>1. /\ First(i, "put") /\ requests[i].kind = "put" /\ requests[i].reply # "none"
      /\ requests' = RemoveAt(requests, i)
      /\ UNCHANGED <<connectionState, listens, unackedListensCount, putCounter, log>>
  BY DEF PutAnswered, First
<1>2. /\ Among(requests', requests)
      /\ \A j \in DOMAIN requests' : requests'[j].kind = "put" =>
            \E h \in DOMAIN requests :
               i < h /\ requests[h] = requests'[j]
      /\ \A h \in DOMAIN requests : h # i =>
            \E j \in DOMAIN requests' : requests'[j] = requests[h]
  BY <1>1, AnsweredFirst
<1>3. connectionState = "Connected"
  BY <1>1, RequestsAgree DEF ControlInv, canSendWrites
<1>4. SentInOrder'
  BY <1>2, AmongOrders
<1>5. RestoredOnce'
  <2>1. \A j \in DOMAIN requests' : requests'[j].kind = "auth" => ~requests'[j].restore
    <3> SUFFICES ASSUME NEW j \in DOMAIN requests',
                        requests'[j].kind = "auth", requests'[j].restore
                 PROVE  FALSE
      OBVIOUS
    <3>1. PICK h \in DOMAIN requests : requests[h] = requests'[j]
      BY <1>2 DEF Among
    <3>2. requests[h].kind = "auth" /\ requests[h].restore
      BY <3>1
    <3> QED BY <1>3, <3>2 DEF WritesInv, RestoredOnce, IsAuth
  <2> QED BY <1>1, <1>3, <2>1 DEF RestoredOnce, IsAuth
<1>6. CASE ~Contains(outstandingPuts, requests[i].index)
           /\ UNCHANGED <<outstandingPuts, completed, putsToAck>>
  <2>1. AnsweredBefore' /\ OkApplied' /\ Conserved'
    BY <1>1, <1>2, <1>6, AmongAnswers DEF writes
  <2>2. ObserverStays' /\ NothingHeldBack'
    BY <1>1, <1>6 DEF WritesInv, ObserverStays, NothingHeldBack
  <2>3. AllSent'
    <3> SUFFICES ASSUME NEW k \in DOMAIN outstandingPuts
                 PROVE  \E j \in DOMAIN requests' :
                            requests'[j].kind = "put" /\ requests'[j].index = outstandingPuts[k]
      BY <1>6 DEF AllSent, IsPut
    <3>1. PICK h \in DOMAIN requests :
              requests[h].kind = "put" /\ requests[h].index = outstandingPuts[k]
      BY <1>3 DEF WritesInv, AllSent, IsPut
    <3>2. requests[i].index # outstandingPuts[k]
      BY <1>6, WriteLengths DEF Contains, ControlInv
    <3>3. h # i
      BY <3>1, <3>2
    <3>4. PICK j \in DOMAIN requests' : requests'[j] = requests[h]
      BY <1>2, <3>3
    <3> QED BY <3>1, <3>4
  <2> QED BY <1>4, <1>5, <2>1, <2>2, <2>3 DEF WritesInv
<1>7. ASSUME NEW k \in DOMAIN outstandingPuts,
             outstandingPuts[k] = requests[i].index,
             outstandingPuts' = RemoveAt(outstandingPuts, k),
             Complete(Completion(requests[i].index, requests[i].reply))
      PROVE  WritesInv'
  <2>1. k = 1
    BY <1>1, <1>7, FirstIsHead
  <2>2. /\ o \in Nat /\ DOMAIN outstandingPuts = 1..o /\ 1 \in 1..o
        /\ n \in Nat /\ DOMAIN completed = 1..n
        /\ p \in Nat /\ DOMAIN putsToAck = 1..p
        /\ putCounter \in Nat
    BY <2>1, <1>7, WriteLengths DEF ControlInv
  <2>3. /\ Len(outstandingPuts') = o - 1
        /\ DOMAIN outstandingPuts' = 1..(o - 1)
        /\ \A j \in 1..(o - 1) : outstandingPuts'[j] = outstandingPuts[j + 1]
    <3>1. outstandingPuts \in Seq(1..putCounter)
      BY DEF ControlInv, WriteTypes
    <3>2. outstandingPuts' = RemoveAt(outstandingPuts, 1)
      BY <2>1, <1>7
    <3>3. /\ outstandingPuts' \in Seq(1..putCounter)
          /\ Len(outstandingPuts') = o - 1
          /\ \A j \in 1..(o - 1) :
                outstandingPuts'[j] = IF j < 1 THEN outstandingPuts[j] ELSE outstandingPuts[j + 1]
      BY <3>1, <3>2, <2>2, RemoveAtProperties
    <3>4. DOMAIN outstandingPuts' = 1..(o - 1)
      BY <3>3, LenProperties
    <3>5. \A j \in 1..(o - 1) : ~(j < 1)
      BY <2>2
    <3> HIDE DEF o
    <3> QED BY <3>3, <3>4, <3>5
  <2>4. PICK x \in Nat : x = requests[i].index
    BY <1>1, UnackedIsCount, RequestFields
  <2>5. x = n + p + 1
    BY <2>1, <2>2, <2>4, <1>7 DEF WritesInv, Conserved
  <2>6. PICK c : c = Completion(requests[i].index, requests[i].reply)
    OBVIOUS
  <2>7. /\ c \in Completions /\ c.index = x /\ c.status = requests[i].reply
        /\ c.status # "canceled"
    <3>1. requests[i].reply \in {"ok", "denied"}
      BY <1>1, UnackedIsCount, RequestFields
    <3> HIDE DEF n, p, o
    <3>2. requests[i].index <= putCounter
      BY <1>1 DEF WritesInv, AnsweredBefore, IsPut
    <3>3. x >= 1 /\ x <= putCounter
      BY <2>2, <2>4, <2>5, <3>2
    <3>4. x \in 1..putCounter
      BY <2>2, <3>3
    <3> QED BY <2>4, <2>6, <3>1, <3>4 DEF Completion, Completions
  <2>8. Complete(c)
    BY <1>7, <2>6
  <2> HIDE DEF n, p, o
  <2>9. /\ \A j \in DOMAIN completed : completed[j].index = j
        /\ \A j \in DOMAIN putsToAck : putsToAck[j].index = n + j
        /\ \A j \in DOMAIN outstandingPuts : outstandingPuts[j] = n + p + j
        /\ n + p + o = putCounter
    BY DEF WritesInv, Conserved, n, p, o
  <2>10. \A j \in DOMAIN requests' : requests'[j].kind = "put" =>
            x < requests'[j].index
    <3> SUFFICES ASSUME NEW j \in DOMAIN requests', requests'[j].kind = "put"
                 PROVE  x < requests'[j].index
      OBVIOUS
    <3>1. PICK h \in DOMAIN requests : i < h /\ requests[h] = requests'[j]
      BY <1>2
    <3> QED BY <3>1, <1>1, <2>4 DEF WritesInv, SentInOrder, IsPut
  <2>11. c.status = "ok" => Applied(x)
    BY <1>1, <2>4, <2>7 DEF WritesInv, OkApplied, IsPut
  <2>12. \A j \in DOMAIN requests' : requests'[j].kind = "put" =>
            \E h \in DOMAIN requests : requests[h] = requests'[j]
    BY <1>2
  <2>13. AllSent'
    <3> SUFFICES ASSUME NEW j \in 1..(o - 1)
                 PROVE  \E g \in DOMAIN requests' :
                            /\ requests'[g].kind = "put"
                            /\ requests'[g].index = outstandingPuts'[j]
      BY <2>3 DEF AllSent, IsPut
    <3>1. j + 1 \in DOMAIN outstandingPuts /\ outstandingPuts'[j] = outstandingPuts[j + 1]
      BY <2>2, <2>3
    <3>2. PICK h \in DOMAIN requests :
              requests[h].kind = "put" /\ requests[h].index = outstandingPuts[j + 1]
      BY <1>3, <3>1 DEF WritesInv, AllSent, IsPut
    <3>3. outstandingPuts[j + 1] = n + p + (j + 1)
      BY <2>9, <3>1
    <3>4. h # i
      <4>1. n + p + (j + 1) # x
        BY <2>2, <2>5
      <4> QED BY <2>4, <3>2, <3>3, <4>1
    <3>5. PICK g \in DOMAIN requests' : requests'[g] = requests[h]
      BY <1>2, <3>4
    <3> QED BY <3>1, <3>2, <3>5
  <2>14. listens' = listens /\ unackedListensCount' = unackedListensCount
    BY <1>1
  <2>15. CASE /\ unackedListensCount = 0
              /\ completed' = Append(completed, c)
              /\ UNCHANGED putsToAck
    <3>1. putsToAck = <<>>
      BY <2>15, <1>3 DEF WritesInv, NothingHeldBack
    <3>2. p = 0 /\ DOMAIN putsToAck = {}
      BY <3>1 DEF p
    <3>3. /\ DOMAIN completed' = 1..(n + 1) /\ Len(completed') = n + 1
          /\ \A j \in DOMAIN completed : completed'[j] = completed[j]
          /\ completed'[n + 1] = c
          /\ \A j \in DOMAIN completed' : j \in DOMAIN completed \/ j = n + 1
      <4>1. completed \in Seq(Completions)
        BY DEF ControlInv, WriteTypes
      <4> QED BY <4>1, <2>7, <2>15, AppendCases, AppendProperties DEF n
    <3>4. Conserved'
      <4>1. \A j \in DOMAIN completed' : completed'[j].index = j
        BY <2>2, <2>5, <2>7, <2>9, <3>2, <3>3
      <4>2. Len(completed') + Len(putsToAck') + Len(outstandingPuts') = putCounter'
        BY <1>1, <2>2, <2>3, <2>9, <2>15, <3>2, <3>3 DEF p
      <4>3. \A j \in DOMAIN outstandingPuts' :
                outstandingPuts'[j] = Len(completed') + Len(putsToAck') + j
        <5>1. Len(putsToAck') = 0 /\ Len(completed') = n + 1
          BY <2>15, <3>2, <3>3 DEF p
        <5>2. ASSUME NEW j \in 1..(o - 1)
              PROVE  outstandingPuts'[j] = n + 1 + 0 + j
          <6>1. j + 1 \in DOMAIN outstandingPuts
            BY <2>2
          <6>2. outstandingPuts'[j] = n + p + (j + 1)
            BY <2>3, <2>9, <6>1
          <6> QED BY <6>2, <2>2, <3>2
        <5> QED BY <2>3, <5>1, <5>2
      <4> QED BY <4>1, <4>2, <4>3, <2>15, <3>2 DEF Conserved
    <3>5. AnsweredBefore'
      <4>1. ASSUME NEW j \in DOMAIN requests', requests'[j].kind = "put"
            PROVE  /\ requests'[j].index <= putCounter
                   /\ \A k2 \in DOMAIN completed' :
                         completed'[k2].status # "canceled" =>
                             completed'[k2].index < requests'[j].index
        <5>1. PICK h \in DOMAIN requests : requests[h] = requests'[j]
          BY <4>1, <2>12
        <5>2. /\ requests[h].index <= putCounter
              /\ \A k2 \in DOMAIN completed :
                    completed[k2].status # "canceled" => completed[k2].index < requests[h].index
          BY <4>1, <5>1 DEF WritesInv, AnsweredBefore, IsPut
        <5>3. c.index < requests'[j].index
          BY <4>1, <2>7, <2>10
        <5> QED BY <5>1, <5>2, <5>3, <3>3
      <4> QED BY <4>1, <1>1, <2>15, <3>2 DEF AnsweredBefore, IsPut
    <3>6. OkApplied'
      <4>1. ASSUME NEW j \in DOMAIN requests', requests'[j].kind = "put", requests'[j].reply = "ok"
            PROVE  Applied(requests'[j].index)
        <5>1. PICK h \in DOMAIN requests : requests[h] = requests'[j]
          BY <4>1, <2>12
        <5> QED BY <4>1, <5>1 DEF WritesInv, OkApplied, IsPut
      <4>2. \A j \in DOMAIN completed' :
                completed'[j].status = "ok" => Applied(completed'[j].index)
        BY <2>7, <2>11, <3>3 DEF WritesInv, OkApplied
      <4> QED BY <1>1, <2>15, <3>2, <4>1, <4>2, AppliedKept DEF WritesInv, OkApplied, IsPut
    <3>7. ObserverStays' /\ NothingHeldBack'
      BY <1>1, <2>15, <3>1 DEF WritesInv, ObserverStays, NothingHeldBack
    <3> QED BY <1>4, <1>5, <2>13, <3>4, <3>5, <3>6, <3>7 DEF WritesInv
  <2>16. CASE /\ unackedListensCount > 0
              /\ putsToAck' = Append(putsToAck, c)
              /\ UNCHANGED completed
    <3>1. /\ DOMAIN putsToAck' = 1..(p + 1) /\ Len(putsToAck') = p + 1
          /\ \A j \in DOMAIN putsToAck : putsToAck'[j] = putsToAck[j]
          /\ putsToAck'[p + 1] = c
          /\ \A j \in DOMAIN putsToAck' : j \in DOMAIN putsToAck \/ j = p + 1
      <4>1. putsToAck \in Seq(Completions)
        BY DEF ControlInv, WriteTypes
      <4> QED BY <4>1, <2>7, <2>16, AppendCases, AppendProperties DEF p
    <3>2. Len(completed') = n
      BY <2>16 DEF n
    <3>3. Conserved'
      <4>1. \A j \in DOMAIN putsToAck' : putsToAck'[j].index = n + j
        <5>1. c.index = n + (p + 1)
          BY <2>2, <2>5, <2>7
        <5>2. ASSUME NEW j \in DOMAIN putsToAck'
              PROVE  putsToAck'[j].index = n + j
          <6>1. CASE j \in DOMAIN putsToAck
            BY <6>1, <2>9, <3>1
          <6>2. CASE j = p + 1
            BY <6>2, <5>1, <3>1
          <6> QED BY <6>1, <6>2, <5>2, <3>1
        <5> QED BY <5>2
      <4>2. n + Len(putsToAck') + Len(outstandingPuts') = putCounter'
        BY <1>1, <2>2, <2>3, <2>9, <3>1
      <4>3. \A j \in DOMAIN outstandingPuts' :
                outstandingPuts'[j] = n + Len(putsToAck') + j
        <5>1. ASSUME NEW j \in 1..(o - 1)
              PROVE  outstandingPuts'[j] = n + (p + 1) + j
          <6>1. j + 1 \in DOMAIN outstandingPuts
            BY <2>2
          <6>2. outstandingPuts'[j] = n + p + (j + 1)
            BY <2>3, <2>9, <6>1
          <6> QED BY <6>2, <2>2
        <5> QED BY <2>3, <3>1, <5>1
      <4> QED BY <4>1, <4>2, <4>3, <2>9, <2>16, <3>2 DEF Conserved
    <3>4. AnsweredBefore'
      <4>1. ASSUME NEW j \in DOMAIN requests', requests'[j].kind = "put"
            PROVE  /\ requests'[j].index <= putCounter
                   /\ \A k2 \in DOMAIN completed :
                         completed[k2].status # "canceled" =>
                             completed[k2].index < requests'[j].index
                   /\ \A k2 \in DOMAIN putsToAck' : putsToAck'[k2].index < requests'[j].index
        <5>1. PICK h \in DOMAIN requests : requests[h] = requests'[j]
          BY <4>1, <2>12
        <5>2. /\ requests[h].index <= putCounter
              /\ \A k2 \in DOMAIN completed :
                    completed[k2].status # "canceled" => completed[k2].index < requests[h].index
              /\ \A k2 \in DOMAIN putsToAck : putsToAck[k2].index < requests[h].index
          BY <4>1, <5>1 DEF WritesInv, AnsweredBefore, IsPut
        <5>3. c.index < requests'[j].index
          BY <4>1, <2>7, <2>10
        <5> QED BY <5>1, <5>2, <5>3, <3>1
      <4>2. \A j \in DOMAIN putsToAck' : putsToAck'[j].status # "canceled"
        BY <2>7, <3>1 DEF WritesInv, AnsweredBefore
      <4> QED BY <4>1, <4>2, <1>1, <2>16 DEF AnsweredBefore, IsPut
    <3>5. OkApplied'
      <4>1. ASSUME NEW j \in DOMAIN requests', requests'[j].kind = "put", requests'[j].reply = "ok"
            PROVE  Applied(requests'[j].index)
        <5>1. PICK h \in DOMAIN requests : requests[h] = requests'[j]
          BY <4>1, <2>12
        <5> QED BY <4>1, <5>1 DEF WritesInv, OkApplied, IsPut
      <4>2. \A j \in DOMAIN putsToAck' :
                putsToAck'[j].status = "ok" => Applied(putsToAck'[j].index)
        BY <2>7, <2>11, <3>1 DEF WritesInv, OkApplied
      <4> QED BY <1>1, <2>16, <4>1, <4>2, AppliedKept DEF WritesInv, OkApplied, IsPut
    <3>6. ObserverStays'
      BY <1>1, <2>16 DEF WritesInv, ObserverStays
    <3>7. NothingHeldBack'
      <4>1. unackedListensCount' # 0
        BY <1>1, <2>16
      <4> QED BY <4>1 DEF NothingHeldBack
    <3> QED BY <1>4, <1>5, <2>13, <3>3, <3>4, <3>5, <3>6, <3>7 DEF WritesInv
  <2> QED BY <2>8, <2>15, <2>16 DEF Complete
<1> QED BY <1>6, <1>7 DEF PutAnswered


-----------------------------------------------------------------------------
\* Nothing was written, applied or answered at the start.
LEMMA WritesInit == Init => WritesInv
<1> SUFFICES ASSUME Init PROVE WritesInv
  OBVIOUS
<1>1. /\ DOMAIN requests = {} /\ DOMAIN outstandingPuts = {} /\ DOMAIN putsToAck = {}
      /\ DOMAIN completed = {} /\ DOMAIN log = {}
      /\ Len(completed) = 0 /\ Len(putsToAck) = 0 /\ Len(outstandingPuts) = 0
      /\ putCounter = 0 /\ connectionState = "Disconnected"
      /\ listens = {} /\ unackedListensCount = 0 /\ putsToAck = <<>>
  BY DEF Init
<1>2. RestoredOnce /\ ObserverStays /\ NothingHeldBack
  BY <1>1 DEF RestoredOnce, ObserverStays, NothingHeldBack
<1>3. SentInOrder /\ AllSent /\ AnsweredBefore
  BY <1>1 DEF SentInOrder, AllSent, AnsweredBefore
<1>4. OkApplied /\ Conserved
  BY <1>1 DEF OkApplied, Conserved
<1> QED BY <1>2, <1>3, <1>4 DEF WritesInv

\* Every step keeps the invariant.
LEMMA WritesStep == ControlInv /\ WritesInv /\ [Next]_vars => WritesInv'
<1>1. ASSUME ControlInv, WritesInv, Connecting PROVE WritesInv'
  <2>1. CASE \/ ConnectionLost \/ NetworkOrAppBack \/ RetryFires
             \/ \E r \in Reason : ResumeForReason(r)
             \/ \E r \in {"server_kill", "repo_interrupt"} : InterruptForReason(r)
             \/ \E f \in fetches : TokenError(f) \/ \E t \in BOOLEAN : TokenFetched(f, t)
             \/ AuthRefused
    BY <1>1, <2>1, OpeningWrites
  <2>2. CASE \/ OnReady
             \/ \E i \in DOMAIN requests : AuthAccepted(i)
             \/ \E t \in BOOLEAN : RefreshAuthToken(t)
    BY <1>1, <2>2, OnReadyWrites, AuthAcceptedWrites, RefreshAuthTokenWrites
  <2> QED BY <1>1, <2>1, <2>2 DEF Connecting
<1>2. ASSUME ControlInv, WritesInv, Listening PROVE WritesInv'
  BY <1>2, ListenWrites, UnlistenWrites, ListenAnsweredWrites DEF Listening
<1>3. ASSUME ControlInv, WritesInv, Writing PROVE WritesInv'
  BY <1>3, PutWrites, PurgeWrites, PutAnsweredWrites, ServerDecidesWrites DEF Writing
<1>4. ASSUME WritesInv, UNCHANGED vars PROVE WritesInv'
  <2>1. UNCHANGED <<connectionState, requests, listens, unackedListensCount, writes>>
    BY <1>4 DEF vars, writes
  <2> QED BY <1>4, <2>1, IdleWrites
<1> QED BY <1>1, <1>2, <1>3, <1>4 DEF Next

\* No write is lost, answered twice or sent out of order in any reachable state.
LEMMA WritesAlways == Spec => [](ControlInv /\ WritesInv)
<1>1. Init => ControlInv /\ WritesInv
  BY ControlInit, WritesInit
<1>2. ControlInv /\ WritesInv /\ [Next]_vars => (ControlInv /\ WritesInv)'
  BY ControlStep, WritesStep
<1> QED BY <1>1, <1>2, PTL DEF Spec

\* Every variable of the connection keeps its kind of value; in particular no
\* callback counts the listens below zero, and no write is answered or applied
\* that putInternal did not number.
THEOREM ConnectionTypes == Spec => []TypeOK
<1>1. ControlInv /\ WritesInv => TypeOK
  <2> SUFFICES ASSUME ControlInv, WritesInv PROVE TypeOK
    OBVIOUS
  <2>1. {forceAuthTokenRefresh, authToken, refused} \subseteq BOOLEAN
    BY DEF ControlInv, ControlTypes
  <2>2. log \in Seq(1..putCounter)
    <3>1. \A e \in 1..Len(log) : log[e] \in 1..MaxPuts /\ log[e] <= putCounter
      BY ElementOfSeq, LenProperties DEF ControlInv, WriteTypes, WritesInv, OkApplied
    <3>2. \A e \in 1..Len(log) : log[e] \in 1..putCounter
      BY <3>1, BoundsAssumption DEF ControlInv, WriteTypes
    <3>3. Len(log) \in Nat /\ log \in [1..Len(log) -> 1..MaxPuts]
      BY LenProperties DEF ControlInv, WriteTypes
    <3>4. log \in [1..Len(log) -> 1..putCounter]
      BY <3>2, <3>3
    <3> QED BY <3>3, <3>4, SeqDef
  <2>3. \A c \in Range(putsToAck) \cup Range(completed) : c \in Completions
    BY WriteLengths, ElementOfSeq DEF ControlInv, WriteTypes, Range
  <2>4. \A c \in Range(putsToAck) \cup Range(completed) :
            c.index \in 1..putCounter /\ c.status \in {"ok", "denied", "canceled"}
    BY <2>3 DEF Completions
  <2>5. /\ requests \in Seq(Request) /\ listens \subseteq Listens
        /\ unackedListensCount \in Nat
        /\ putCounter \in 0..MaxPuts /\ outstandingPuts \in Seq(1..putCounter)
    BY DEF ControlInv, RequestTypes, WriteTypes
  <2> QED BY <2>1, <2>2, <2>4, <2>5 DEF TypeOK, ControlInv, ControlTypes
<1> QED BY <1>1, WritesAlways, PTL

\* The completions that ran, those a listen holds back and the outstanding
\* writes are all the writes, in the order putInternal numbered them, whatever
\* restoreState sends again and purgeOutstandingWrites cancels.
THEOREM WritesAreConserved == Spec => []WritesConserved
<1>1. ControlInv /\ WritesInv => WritesConserved
  <2> SUFFICES ASSUME ControlInv, WritesInv PROVE WritesConserved
    OBVIOUS
  <2> DEFINE n == Len(completed)
             p == Len(putsToAck)
             o == Len(outstandingPuts)
             a == [i \in DOMAIN completed |-> completed[i].index]
             b == [i \in DOMAIN putsToAck |-> putsToAck[i].index]
             all == [i \in 1..putCounter |-> i]
  <2>1. /\ n \in Nat /\ DOMAIN completed = 1..n
        /\ p \in Nat /\ DOMAIN putsToAck = 1..p
        /\ o \in Nat /\ DOMAIN outstandingPuts = 1..o
        /\ putCounter \in Nat
    BY WriteLengths DEF ControlInv
  <2>2. outstandingPuts \in Seq(1..putCounter)
    BY DEF ControlInv, WriteTypes
  <2>3. \A i \in DOMAIN completed : completed[i].index \in 1..putCounter
    <3>1. \A i \in DOMAIN completed : completed[i] \in Completions
      BY <2>1, ElementOfSeq DEF ControlInv, WriteTypes
    <3> QED BY <3>1 DEF Completions
  <2>4. \A i \in DOMAIN putsToAck : putsToAck[i].index \in 1..putCounter
    <3>1. \A i \in DOMAIN putsToAck : putsToAck[i] \in Completions
      BY <2>1, ElementOfSeq DEF ControlInv, WriteTypes
    <3> QED BY <3>1 DEF Completions
  <2> HIDE DEF n, p, o
  <2>5. /\ n + p + o = putCounter
        /\ \A k \in 1..n : completed[k].index = k
        /\ \A k \in 1..p : putsToAck[k].index = n + k
        /\ \A k \in 1..o : outstandingPuts[k] = n + p + k
    BY <2>1 DEF WritesInv, Conserved, n, p, o
  <2>6. a \in Seq(1..putCounter) /\ Len(a) = n /\ \A k \in 1..n : a[k] = k
    BY <2>1, <2>3, <2>5
  <2>7. b \in Seq(1..putCounter) /\ Len(b) = p /\ \A k \in 1..p : b[k] = n + k
    BY <2>1, <2>4, <2>5
  <2>8. all \in Seq(1..putCounter) /\ Len(all) = putCounter
        /\ \A k \in 1..putCounter : all[k] = k
    BY <2>1
  <2> HIDE DEF a, b, all
  <2>9. /\ a \o b \in Seq(1..putCounter) /\ Len(a \o b) = n + p
        /\ \A k \in 1..(n + p) : (a \o b)[k] = IF k <= n THEN a[k] ELSE b[k - n]
    BY <2>6, <2>7, ConcatProperties
  <2>10. \A k \in 1..(n + p) : (a \o b)[k] = k
    <3> SUFFICES ASSUME NEW k \in 1..(n + p) PROVE (a \o b)[k] = k
      OBVIOUS
    <3>1. CASE k <= n
      <4>1. k \in 1..n
        BY <2>1, <3>1
      <4> QED BY <2>6, <2>9, <3>1, <4>1
    <3>2. CASE ~(k <= n)
      <4>1. k - n \in 1..p /\ n + (k - n) = k
        BY <2>1, <3>2
      <4>2. (a \o b)[k] = b[k - n] /\ b[k - n] = n + (k - n)
        BY <2>7, <2>9, <3>2, <4>1
      <4> QED BY <4>1, <4>2
    <3> QED BY <3>1, <3>2
  <2> DEFINE c == a \o b
  <2> HIDE DEF c
  <2>11. /\ c \in Seq(1..putCounter) /\ Len(c) = n + p
         /\ \A k \in 1..(n + p) : c[k] = k
    BY <2>9, <2>10 DEF c
  <2>12. /\ c \o outstandingPuts \in Seq(1..putCounter)
         /\ Len(c \o outstandingPuts) = n + p + o
         /\ \A k \in 1..(n + p + o) :
               (c \o outstandingPuts)[k] = IF k <= n + p THEN c[k]
                                           ELSE outstandingPuts[k - (n + p)]
    <3>1. /\ c \o outstandingPuts \in Seq(1..putCounter)
          /\ Len(c \o outstandingPuts) = Len(c) + Len(outstandingPuts)
          /\ \A k \in 1..(Len(c) + Len(outstandingPuts)) :
                (c \o outstandingPuts)[k] = IF k <= Len(c) THEN c[k]
                                            ELSE outstandingPuts[k - Len(c)]
      BY <2>2, <2>11, ConcatProperties
    <3> QED BY <2>11, <3>1 DEF o
  <2>13. \A k \in 1..(n + p + o) : (c \o outstandingPuts)[k] = k
    <3> SUFFICES ASSUME NEW k \in 1..(n + p + o) PROVE (c \o outstandingPuts)[k] = k
      OBVIOUS
    <3>1. CASE k <= n + p
      <4>1. k \in 1..(n + p)
        BY <2>1, <3>1
      <4> QED BY <2>11, <2>12, <3>1, <4>1
    <3>2. CASE ~(k <= n + p)
      <4>1. k - (n + p) \in 1..o /\ n + p + (k - (n + p)) = k
        BY <2>1, <3>2
      <4>2. /\ (c \o outstandingPuts)[k] = outstandingPuts[k - (n + p)]
            /\ outstandingPuts[k - (n + p)] = n + p + (k - (n + p))
        BY <2>5, <2>12, <3>2, <4>1
      <4> QED BY <4>1, <4>2
    <3> QED BY <3>1, <3>2
  <2>14. c \o outstandingPuts = all
    BY <2>5, <2>8, <2>12, <2>13, SeqEqual
  <2> QED BY <2>14 DEF WritesConserved, a, b, c, all
<1> QED BY <1>1, WritesAlways, PTL

\* A write that restoreState sends once more does not undo a later one that
\* has completed: the server applied the later one last.
THEOREM LaterWritesWin == Spec => []LaterWriteWins
<1>1. ControlInv /\ WritesInv => LaterWriteWins
  <2> SUFFICES ASSUME ControlInv, WritesInv,
                      NEW c \in Range(completed), NEW d \in Range(completed),
                      c.index < d.index, d.status = "ok"
               PROVE  \E e \in DOMAIN log :
                          /\ log[e] = d.index
                          /\ \A k \in e..Len(log) : log[k] # c.index
    BY DEF LaterWriteWins
  <2>1. PICK j \in DOMAIN completed : completed[j] = d
    BY DEF Range
  <2>2. Applied(d.index)
    BY <2>1 DEF WritesInv, OkApplied
  <2>3. PICK e \in DOMAIN log : log[e] = d.index /\ \A k \in e..Len(log) : log[k] >= d.index
    BY <2>2 DEF Applied
  <2>4. c.index \in Nat /\ d.index \in Nat
    <3>1. c \in Completions /\ d \in Completions
      BY WriteLengths, ElementOfSeq DEF ControlInv, WriteTypes, Range
    <3> QED BY <3>1 DEF Completions
  <2>5. \A k \in e..Len(log) : log[k] # c.index
    <3> SUFFICES ASSUME NEW k \in e..Len(log) PROVE log[k] # c.index
      OBVIOUS
    <3>1. k \in DOMAIN log
      BY WriteLengths DEF ControlInv
    <3>2. log[k] \in Nat
      BY <3>1, WriteLengths DEF ControlInv
    <3> QED BY <2>3, <2>4, <3>2
  <2> QED BY <2>3, <2>5
<1> QED BY <1>1, WritesAlways, PTL

-----------------------------------------------------------------------------
(* The promise about writes.                                               *)

\* Completion blocks that run are the next ones of the promise.
LEMMA CompletesMore ==
    ASSUME ControlInv, ControlInv', WritesInv', NEW s \in Seq(Completions),
           completed' = completed \o s, UNCHANGED <<putCounter, log>>
    PROVE  WQ!Next \/ UNCHANGED WQ!vars
<1> DEFINE n == Len(completed)
           m == Len(s)
           results == [k \in 1..m |-> s[k].status]
<1>1. n \in Nat /\ m \in Nat /\ DOMAIN s = 1..m /\ putCounter \in Nat
      /\ completed \in Seq(Completions)
  BY LenProperties, WriteLengths DEF ControlInv, WriteTypes
<1>2. \A k \in 1..m : s[k] \in Completions
  BY <1>1, ElementOfSeq
<1>3. /\ completed' \in Seq(Completions) /\ Len(completed') = n + m
      /\ \A k \in 1..(n + m) : completed'[k] = IF k <= n THEN completed[k] ELSE s[k - n]
  BY <1>1, ConcatProperties
<1>4. DOMAIN completed' = 1..(n + m)
  BY <1>3, LenProperties
<1>5. \A k \in 1..m : /\ s[k].index = n + k
                      /\ s[k].status = "ok" => \E e \in DOMAIN log : log[e] = n + k
  <2> HIDE DEF n, m
  <2> SUFFICES ASSUME NEW k \in 1..m
               PROVE  /\ s[k].index = n + k
                      /\ s[k].status = "ok" => \E e \in DOMAIN log : log[e] = n + k
    OBVIOUS
  <2>1. n + k \in 1..(n + m) /\ ~(n + k <= n) /\ (n + k) - n = k
    BY <1>1
  <2>2. completed'[n + k] = s[k]
    BY <1>3, <2>1
  <2>3. completed'[n + k].index = n + k
    BY <1>4, <2>1 DEF WritesInv, Conserved
  <2>4. completed'[n + k].status = "ok" =>
            \E e \in DOMAIN log' : log'[e] = completed'[n + k].index
    BY <1>4, <2>1 DEF WritesInv, OkApplied, Applied
  <2> QED BY <2>2, <2>3, <2>4
<1>6. n + m <= putCounter
  <2>1. /\ putsToAck' \in Seq(Completions') /\ outstandingPuts' \in Seq(1..putCounter')
    BY DEF ControlInv, WriteTypes
  <2>2. Len(putsToAck') \in Nat /\ Len(outstandingPuts') \in Nat
    BY <2>1, LenProperties
  <2>3. (n + m) + Len(putsToAck') + Len(outstandingPuts') = putCounter
    BY <1>3 DEF WritesInv, Conserved
  <2> HIDE DEF n, m
  <2> QED BY <1>1, <2>2, <2>3
<1>7. CASE m = 0
  <2>1. s = <<>>
    BY <1>7, EmptySeq
  <2>2. completed' = completed
    BY <1>1, <2>1, ConcatEmptySeq
  <2> QED BY <2>2 DEF WQ!vars
<1>8. CASE m # 0
  <2>1. m \in 1..(putCounter - n)
    <3> HIDE DEF n, m
    <3> QED BY <1>1, <1>6, <1>8
  <2>2. results \in [1..m -> WQ!Status]
    BY <1>2 DEF Completions, WQ!Status
  <2>3. s = [k \in 1..m |-> [index |-> n + k, status |-> results[k]]]
    <3>1. s = [k \in 1..m |-> s[k]]
      BY <1>1
    <3>2. \A k \in 1..m : s[k] = [index |-> n + k, status |-> s[k].status]
      BY <1>2, <1>5 DEF Completions
    <3> HIDE DEF n, m
    <3> QED BY <3>1, <3>2
  <2>4. WQ!Complete(results)
    BY <1>5, <2>3 DEF WQ!Complete
  <2> QED BY <2>1, <2>2, <2>4 DEF WQ!Next
<1> QED BY <1>7, <1>8

\* What the server applies has not completed, or was cancelled.
LEMMA ServerAppliesIssued ==
    ASSUME ControlInv, WritesInv, NEW i \in DOMAIN requests,
           NEW reply \in {"ok", "denied"}, ServerDecides(i, reply)
    PROVE  WQ!Next \/ UNCHANGED WQ!vars
<1>1. PICK x \in 1..MaxPuts : x = requests[i].index
  BY UnackedIsCount, RequestFields DEF ServerDecides
<1>2. /\ requests[i].kind = "put"
      /\ log' = IF reply = "ok" THEN Append(log, x) ELSE log
      /\ UNCHANGED <<putCounter, completed>>
  BY <1>1 DEF ServerDecides
<1>3. /\ x <= putCounter
      /\ \A k \in DOMAIN completed :
            completed[k].status # "canceled" => completed[k].index < x
  BY <1>1, <1>2 DEF WritesInv, AnsweredBefore, IsPut
<1>4. x \in 1..putCounter
  BY <1>3, WriteLengths DEF ControlInv
<1>5. x > Len(completed) \/ completed[x].status = "canceled"
  <2> SUFFICES ASSUME ~(x > Len(completed)) PROVE completed[x].status = "canceled"
    OBVIOUS
  <2>1. x \in DOMAIN completed
    BY <1>4, WriteLengths DEF ControlInv
  <2>2. completed[x].index = x
    BY <2>1 DEF WritesInv, Conserved
  <2> QED BY <1>3, <1>4, <2>1, <2>2
<1>6. CASE reply = "ok"
  <2>1. WQ!Apply(x)
    BY <1>2, <1>5, <1>6 DEF WQ!Apply
  <2> QED BY <1>4, <2>1 DEF WQ!Next
<1>7. CASE reply # "ok"
  BY <1>2, <1>7 DEF WQ!vars
<1> QED BY <1>6, <1>7

\* putInternal is the Issue of WriteQueue.
LEMMA PutIssues ==
    ASSUME ControlInv, Put
    PROVE  WQ!Next
<1>1. /\ putCounter < MaxPuts /\ putCounter' = putCounter + 1
      /\ UNCHANGED <<log, completed>>
  BY DEF Put
<1>2. WQ!Issue
  BY <1>1 DEF WQ!Issue
<1> QED BY <1>2 DEF WQ!Next

\* A deferred completion runs with the last listen's answer.
LEMMA AnswersComplete ==
    ASSUME ControlInv, WritesInv, ControlInv', WritesInv', NEW i \in DOMAIN requests,
           PutAnswered(i) \/ \E s \in {"ok", "denied"} : ListenAnswered(i, s)
    PROVE  WQ!Next \/ UNCHANGED WQ!vars
<1>1. CASE \E s \in {"ok", "denied"} : ListenAnswered(i, s)
  <2>1. UNCHANGED <<putCounter, log>>
    BY <1>1 DEF ListenAnswered
  <2>2. completed' = completed \o putsToAck \/ completed' = completed
    BY <1>1 DEF ListenAnswered, AckPuts
  <2>3. CASE completed' = completed \o putsToAck
    <3>1. putsToAck \in Seq(Completions)
      BY DEF ControlInv, WriteTypes
    <3> QED BY <2>1, <2>3, <3>1, CompletesMore
  <2> QED BY <2>1, <2>2, <2>3 DEF WQ!vars
<1>2. CASE PutAnswered(i)
  <2>1. UNCHANGED <<putCounter, log>>
    BY <1>2 DEF PutAnswered
  <2>2. \/ completed' = completed
        \/ completed' = Append(completed, Completion(requests[i].index, requests[i].reply))
    BY <1>2 DEF PutAnswered, Complete
  <2>3. CASE completed' = Append(completed, Completion(requests[i].index, requests[i].reply))
    <3>1. PICK c : c = Completion(requests[i].index, requests[i].reply)
      OBVIOUS
    <3>2. c \in Completions
      <4>1. /\ requests[i].kind = "put" /\ requests[i].reply # "none"
            /\ requests[i] \in Request
        BY <1>2, UnackedIsCount DEF PutAnswered, First
      <4>2. requests[i].reply \in {"ok", "denied"} /\ requests[i].index \in 1..MaxPuts
        BY <4>1, RequestFields
      <4>3. requests[i].index <= putCounter
        BY <4>1 DEF WritesInv, AnsweredBefore, IsPut
      <4>4. requests[i].index \in 1..putCounter
        BY <4>2, <4>3, WriteLengths DEF ControlInv
      <4> QED BY <3>1, <4>2, <4>4 DEF Completion, Completions
    <3>3. <<c>> \in Seq(Completions) /\ completed \in Seq(Completions)
      BY <3>2 DEF ControlInv, WriteTypes
    <3>4. completed' = completed \o <<c>>
      BY <2>3, <3>1, <3>2, <3>3, AppendIsConcat
    <3> QED BY <2>1, <3>3, <3>4, CompletesMore
  <2> QED BY <2>1, <2>2, <2>3 DEF WQ!vars
<1> QED BY <1>1, <1>2

\* Purging runs the deferred completions, then cancels the outstanding writes.
LEMMA PurgeCompletes ==
    ASSUME ControlInv, WritesInv, ControlInv', WritesInv', PurgeOutstandingWrites
    PROVE  WQ!Next \/ UNCHANGED WQ!vars
<1> DEFINE X == [i \in DOMAIN outstandingPuts |-> Completion(outstandingPuts[i], "canceled")]
<1>1. UNCHANGED <<putCounter, log>> /\ completed' = (completed \o putsToAck) \o X
  BY DEF PurgeOutstandingWrites
<1>2. X \in Seq(Completions)
  <2>1. Len(outstandingPuts) \in Nat /\ DOMAIN outstandingPuts = 1..Len(outstandingPuts)
    BY WriteLengths DEF ControlInv
  <2>2. \A i \in DOMAIN outstandingPuts : outstandingPuts[i] \in 1..putCounter
    BY <2>1, ElementOfSeq DEF ControlInv, WriteTypes
  <2>3. X \in [1..Len(outstandingPuts) -> Completions]
    BY <2>1, <2>2 DEF Completion, Completions
  <2> QED BY <2>1, <2>3, SeqDef
<1>3. completed \in Seq(Completions) /\ putsToAck \in Seq(Completions)
  BY DEF ControlInv, WriteTypes
<1> HIDE DEF X
<1>4. (completed \o putsToAck) \o X = completed \o (putsToAck \o X)
  BY <1>2, <1>3, ConcatAssociative
<1>5. putsToAck \o X \in Seq(Completions)
  BY <1>2, <1>3, ConcatProperties
<1> QED BY <1>1, <1>4, <1>5, CompletesMore

\* The client implements the promise of WriteQueue: each step of it issues a
\* write, applies one at the server, completes the next ones, or shows the
\* application nothing.
THEOREM ImplementsWriteQueue == Spec => KeepsWritePromise
<1>1. Init => WQ!Init
  BY DEF Init, WQ!Init
<1>2. ControlInv /\ WritesInv /\ ControlInv' /\ WritesInv' /\ [Next]_vars
        => WQ!Next \/ UNCHANGED WQ!vars
  <2>1. ASSUME ControlInv, WritesInv, ControlInv', WritesInv', Connecting
        PROVE  WQ!Next \/ UNCHANGED WQ!vars
    <3>1. UNCHANGED <<putCounter, log, completed>>
      BY <2>1 DEF Connecting, ConnectionLost, NetworkOrAppBack, RetryFires, ResumeForReason,
                  InterruptForReason, TokenError, TokenFetched, OnReady, AuthRefused,
                  AuthAccepted, RefreshAuthToken, writes
    <3> QED BY <3>1 DEF WQ!vars
  <2>2. ASSUME ControlInv, WritesInv, ControlInv', WritesInv', Listening
        PROVE  WQ!Next \/ UNCHANGED WQ!vars
    <3>1. CASE \E q \in Listens : Listen(q) \/ Unlisten(q)
      BY <3>1 DEF Listen, Unlisten, writes, WQ!vars
    <3> QED BY <2>2, <3>1, AnswersComplete DEF Listening
  <2>3. ASSUME ControlInv, WritesInv, ControlInv', WritesInv', Writing
        PROVE  WQ!Next \/ UNCHANGED WQ!vars
    BY <2>3, PutIssues, PurgeCompletes, AnswersComplete, ServerAppliesIssued DEF Writing
  <2>4. ASSUME UNCHANGED vars PROVE UNCHANGED WQ!vars
    BY <2>4 DEF vars, WQ!vars
  <2> QED BY <2>1, <2>2, <2>3, <2>4 DEF Next
<1>3. Spec => [][WQ!Next]_(WQ!vars)
  BY <1>2, WritesAlways, PTL DEF Spec
<1> QED BY <1>1, <1>3, PTL DEF Spec, KeepsWritePromise, WQ!Spec
=============================================================================
