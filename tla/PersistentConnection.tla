------------------------ MODULE PersistentConnection ------------------------
(***************************************************************************)
(* FPersistentConnection.m: the connection of the database client to its   *)
(* server.  It keeps a state, a token, the queries that are listened to    *)
(* and the writes that are outstanding, and after each loss of the         *)
(* connection fetches a token, opens a new one, authenticates and sends    *)
(* everything again.                                                       *)
(*                                                                         *)
(* All of it runs on one serial queue; what happens between two blocks of  *)
(* that queue is up to the network, the token provider and the app.  The   *)
(* app runs no transactions and no onDisconnect operations, so             *)
(* cancelSentTransactions finds nothing and onDisconnectQueue is empty.    *)
(***************************************************************************)
EXTENDS Naturals, Sequences, FiniteSets, SequencesExt

CONSTANTS
    Permanent,      \* queries with an observer that is never removed
    Single,         \* queries of observeSingleEvent
    MaxPuts,        \* bound: writes of a behaviour
    MaxEvents,      \* bound: losses, errors, refusals, interruptions, new tokens
    MayInterrupt,   \* goOffline, goOnline and kills by the server happen
    MayPurge        \* purgeOutstandingWrites happens

Listens == Permanent \cup Single

\* The observer of the own profile is never removed (messagecontroller.swift).
ASSUME ListensAssumption ==
    /\ Permanent # {}
    /\ Permanent \cap Single = {}
    /\ IsFiniteSet(Permanent \cup Single)

ASSUME BoundsAssumption ==
    /\ MaxPuts \in Nat
    /\ MaxEvents \in Nat
    /\ MayInterrupt \in BOOLEAN
    /\ MayPurge \in BOOLEAN

VARIABLES
    connectionState,
    interruptReasons,
    scheduledRetry,         \* the retry helper's block: none, or its forceRefresh
    forceAuthTokenRefresh,
    fetches,                \* token fetches not yet answered
    currentFetchTokenAttempt,
    authToken,              \* there is one
    realtime,               \* the FConnection: nil, connecting or connected
    requests,               \* requests with a callback in requestCBHash
    listens,
    unackedListensCount,
    putCounter,
    outstandingPuts,        \* in the order of its keys
    putsToAck,
    completed,              \* completion blocks that ran
    log,                    \* writes in the order the server applied them
    refused,                \* the token was refused and not refreshed since
    events

tokens == <<fetches, currentFetchTokenAttempt, authToken, refused>>
writes == <<putCounter, outstandingPuts, putsToAck, completed, log>>
vars == <<connectionState, interruptReasons, scheduledRetry,
          forceAuthTokenRefresh, fetches, currentFetchTokenAttempt, authToken,
          realtime, requests, listens, unackedListensCount, putCounter,
          outstandingPuts, putsToAck, completed, log, refused, events>>

-----------------------------------------------------------------------------
Reason == {"waiting_for_open", "server_kill", "repo_interrupt"}

AuthRequest(restore) == [kind |-> "auth", restore |-> restore]
\* current: the response still finds this FOutstandingQuery in `listens`.
ListenRequest(q) == [kind |-> "listen", query |-> q, current |-> TRUE]
PutRequest(i) == [kind |-> "put", index |-> i, reply |-> "none"]

Request == [kind : {"auth"}, restore : BOOLEAN]
           \cup [kind : {"listen"}, query : Listens, current : BOOLEAN]
           \cup [kind : {"put"}, index : 1..MaxPuts,
                 reply : {"none", "ok", "denied"}]

Completion(i, s) == [index |-> i, status |-> s]

connected == connectionState \in {"Authenticating", "Connected"}
canSendWrites == connectionState = "Connected"

\* Requests of one kind are answered in the order they were sent.
First(i, kind) == /\ i \in DOMAIN requests
                  /\ requests[i].kind = kind
                  /\ \A h \in 1..(i - 1) : requests[h].kind # kind

Event == /\ events < MaxEvents
         /\ events' = events + 1

Init ==
    /\ connectionState = "Disconnected"
    /\ interruptReasons = {"waiting_for_open"}
    /\ scheduledRetry = "none"
    /\ forceAuthTokenRefresh = FALSE
    /\ fetches = {}
    /\ currentFetchTokenAttempt = 0
    /\ authToken = FALSE
    /\ realtime = "nil"
    /\ requests = <<>>
    /\ listens = {}
    /\ unackedListensCount = 0
    /\ putCounter = 0
    /\ outstandingPuts = <<>>
    /\ putsToAck = <<>>
    /\ completed = <<>>
    /\ log = <<>>
    /\ refused = FALSE
    /\ events = 0

-----------------------------------------------------------------------------
(* Scheduling, opening and losing the connection.                          *)

\* FIRRetryHelper.retry: the block replaces one that is scheduled already.
Retry(force) == scheduledRetry' = IF force THEN "forced" ELSE "normal"

\* tryScheduleReconnect: the block captures the flag.
TryScheduleReconnect(reasons, force) ==
    IF reasons = {}
    THEN /\ Retry(force)
         /\ forceAuthTokenRefresh' = FALSE
    ELSE /\ forceAuthTokenRefresh' = force
         /\ UNCHANGED scheduledRetry

\* Mutant: the listens of the old connection stay counted.
OnDisconnectCounts(reasons, force) ==
    /\ connectionState' = "Disconnected"
    /\ realtime' = "nil"
    /\ requests' = <<>>
    /\ TryScheduleReconnect(reasons, force)
    /\ UNCHANGED unackedListensCount

\* Mutant: no reconnect.
OnDisconnectOnly(reasons, force) ==
    /\ connectionState' = "Disconnected"
    /\ realtime' = "nil"
    /\ requests' = <<>>
    /\ unackedListensCount' = 0
    /\ UNCHANGED <<scheduledRetry, forceAuthTokenRefresh>>

\* Mutant: the answers of the old connection still find their callbacks.
OnDisconnectKeepsCallbacks(reasons, force) ==
    /\ connectionState' = "Disconnected"
    /\ realtime' = "nil"
    /\ unackedListensCount' = 0
    /\ TryScheduleReconnect(reasons, force)
    /\ UNCHANGED requests

\* FConnection.close and onDisconnect: the callbacks of the requests are
\* dropped, the writes and the deferred completions stay.
OnDisconnect(reasons, force) ==
    /\ connectionState' = "Disconnected"
    /\ realtime' = "nil"
    /\ requests' = <<>>
    /\ unackedListensCount' = 0
    /\ TryScheduleReconnect(reasons, force)

\* The connection is lost, reset or refused, or the handshake times out.
ConnectionLost ==
    /\ realtime # "nil"
    /\ Event
    /\ OnDisconnect(interruptReasons, forceAuthTokenRefresh)
    /\ UNCHANGED <<interruptReasons, tokens, listens, writes>>

\* interruptForReason: by goOffline, or by onKill when the server shuts the
\* connection down for good.
InterruptForReason(reason) ==
    /\ MayInterrupt
    /\ reason = "server_kill" => realtime # "nil"
    /\ Event
    /\ interruptReasons' = interruptReasons \cup {reason}
    /\ \/ /\ realtime # "nil"
          /\ OnDisconnect(interruptReasons', forceAuthTokenRefresh)
       \/ /\ realtime = "nil"
          /\ connectionState' = "Disconnected"
          /\ scheduledRetry' = "none"
          /\ UNCHANGED <<realtime, requests, unackedListensCount,
                         forceAuthTokenRefresh>>
    /\ UNCHANGED <<tokens, listens, writes>>

\* resumeForReason: by open and goOnline.
ResumeForReason(reason) ==
    /\ reason \in interruptReasons \ {"server_kill"}
    /\ interruptReasons' = interruptReasons \ {reason}
    /\ IF connectionState = "Disconnected"
       THEN TryScheduleReconnect(interruptReasons', forceAuthTokenRefresh)
       ELSE UNCHANGED <<scheduledRetry, forceAuthTokenRefresh>>
    /\ UNCHANGED <<connectionState, realtime, requests, unackedListensCount,
                   tokens, listens, writes, events>>

\* reachabilityCallback and enteringForeground.
NetworkOrAppBack ==
    /\ connectionState = "Disconnected"
    /\ TryScheduleReconnect(interruptReasons, forceAuthTokenRefresh)
    /\ UNCHANGED <<connectionState, interruptReasons, realtime, requests,
                   unackedListensCount, tokens, listens, writes, events>>

\* The retry helper's block runs: a token is asked for.
RetryFires ==
    /\ scheduledRetry # "none"
    /\ scheduledRetry' = "none"
    /\ connectionState' = "GettingToken"
    /\ currentFetchTokenAttempt' = currentFetchTokenAttempt + 1
    /\ fetches' = fetches \cup {[attempt |-> currentFetchTokenAttempt + 1,
                                 force |-> scheduledRetry = "forced"]}
    /\ UNCHANGED <<interruptReasons, forceAuthTokenRefresh, authToken, refused,
                   realtime, requests, unackedListensCount, listens, writes,
                   events>>

\* Mutant: an interruption during the fetch is not noticed.
AwaitedAttempt(f) == f.attempt = currentFetchTokenAttempt

\* The two checks of the fetch's callback.
Awaited(f) == f.attempt = currentFetchTokenAttempt /\ connectionState = "GettingToken"

\* A token, or nil when nobody is signed in.
TokenFetched(f, token) ==
    /\ f \in fetches
    /\ fetches' = fetches \ {f}
    /\ refused' = (refused /\ ~f.force)
    /\ \/ /\ Awaited(f)
          /\ authToken' = token
          /\ connectionState' = "Connecting"
          /\ realtime' = "connecting"
       \/ /\ ~Awaited(f)
          /\ UNCHANGED <<authToken, connectionState, realtime>>
    /\ UNCHANGED <<interruptReasons, scheduledRetry, forceAuthTokenRefresh,
                   currentFetchTokenAttempt, requests, unackedListensCount,
                   listens, writes, events>>

TokenError(f) ==
    /\ f \in fetches
    /\ Event
    /\ fetches' = fetches \ {f}
    /\ IF f.attempt = currentFetchTokenAttempt
       THEN /\ connectionState' = "Disconnected"
            /\ TryScheduleReconnect(interruptReasons, forceAuthTokenRefresh)
       ELSE UNCHANGED <<connectionState, scheduledRetry, forceAuthTokenRefresh>>
    /\ UNCHANGED <<interruptReasons, currentFetchTokenAttempt, authToken, refused,
                   realtime, requests, unackedListensCount, listens, writes>>

-----------------------------------------------------------------------------
(* Authentication and restoring the state.                                 *)

\* A set of queries in the order a dictionary gives them.
Enumerations(qs) == {s \in [1..Cardinality(qs) -> qs] : Range(s) = qs}

\* Mutant: the writes are not sorted by their keys.
RestoreStateReversed(inFlight) ==
    /\ connectionState' = "Connected"
    /\ \E order \in Enumerations(listens) :
          requests' = inFlight
                      \o [i \in DOMAIN order |-> ListenRequest(order[i])]
                      \o Reverse([i \in DOMAIN outstandingPuts |->
                                     PutRequest(outstandingPuts[i])])
    /\ unackedListensCount' = unackedListensCount + Cardinality(listens)

\* restoreState: every listen in any order, then the outstanding writes in
\* the order of their keys, after the requests that are already in flight.
RestoreState(inFlight) ==
    /\ connectionState' = "Connected"
    /\ \E order \in Enumerations(listens) :
          requests' = inFlight
                      \o [i \in DOMAIN order |-> ListenRequest(order[i])]
                      \o [i \in DOMAIN outstandingPuts |->
                             PutRequest(outstandingPuts[i])]
    /\ unackedListensCount' = unackedListensCount + Cardinality(listens)

\* onReady and restoreAuth.
OnReady ==
    /\ realtime = "connecting"
    /\ realtime' = "connected"
    /\ \/ /\ ~authToken
          /\ RestoreState(requests)
       \/ /\ authToken
          /\ connectionState' = "Authenticating"
          /\ requests' = Append(requests, AuthRequest(TRUE))
          /\ UNCHANGED unackedListensCount
    /\ UNCHANGED <<interruptReasons, scheduledRetry, forceAuthTokenRefresh, tokens,
                   listens, writes, events>>

\* The callback of sendAuthAndRestoreStateAfterComplete with status ok.
AuthAccepted(i) ==
    /\ First(i, "auth")
    /\ \/ /\ requests[i].restore
          /\ RestoreState(RemoveAt(requests, i))
       \/ /\ ~requests[i].restore
          /\ connectionState' = "Connected"
          /\ requests' = RemoveAt(requests, i)
          /\ UNCHANGED unackedListensCount
    /\ UNCHANGED <<interruptReasons, scheduledRetry, forceAuthTokenRefresh, tokens,
                   realtime, listens, writes, events>>

\* The same with an error, and onAuthRevokedWithStatus: the connection is
\* closed and the next token is to be a new one.
AuthRefused ==
    /\ \/ \E i \in DOMAIN requests : First(i, "auth")
       \/ realtime = "connected" /\ authToken
    /\ Event
    /\ authToken' = FALSE
    /\ refused' = TRUE
    /\ OnDisconnect(interruptReasons, TRUE)
    /\ UNCHANGED <<interruptReasons, fetches, currentFetchTokenAttempt, listens,
                   writes>>

\* refreshAuthToken: the token of the account changed by a sign-in, a
\* sign-out or its refresh.
RefreshAuthToken(token) ==
    /\ Event
    /\ authToken' = token
    /\ refused' = FALSE
    /\ requests' = IF connected /\ token THEN Append(requests, AuthRequest(FALSE))
                                         ELSE requests
    /\ UNCHANGED <<connectionState, interruptReasons, scheduledRetry,
                   forceAuthTokenRefresh, fetches, currentFetchTokenAttempt,
                   realtime, unackedListensCount, listens, writes>>

-----------------------------------------------------------------------------
(* Listening.                                                              *)

\* The observers of the list come after the one of the profile, which stays.
Listen(q) ==
    /\ q \notin listens
    /\ q \in Single => Permanent \subseteq listens
    /\ listens' = listens \cup {q}
    /\ IF connected
       THEN /\ requests' = Append(requests, ListenRequest(q))
            /\ unackedListensCount' = unackedListensCount + 1
       ELSE UNCHANGED <<requests, unackedListensCount>>
    /\ UNCHANGED <<connectionState, interruptReasons, scheduledRetry,
                   forceAuthTokenRefresh, tokens, realtime, writes, events>>

\* The requests when q is no longer listened to.
Outdated(reqs, q) ==
    [i \in DOMAIN reqs |->
        IF reqs[i].kind = "listen" /\ reqs[i].query = q
        THEN [reqs[i] EXCEPT !.current = FALSE]
        ELSE reqs[i]]

\* unlisten, and onListenRevoked.
Unlisten(q) ==
    /\ q \in listens \cap Single
    /\ Event
    /\ listens' = listens \ {q}
    /\ requests' = Outdated(requests, q)
    /\ UNCHANGED <<connectionState, interruptReasons, scheduledRetry,
                   forceAuthTokenRefresh, tokens, realtime, unackedListensCount,
                   writes>>

\* Mutant: the deferred completions wait for another listen.
AckPutsNot(count) == UNCHANGED <<completed, putsToAck>>

\* ackPuts, once no listen is unacknowledged.
AckPuts(count) ==
    IF count = 0
    THEN completed' = completed \o putsToAck /\ putsToAck' = <<>>
    ELSE UNCHANGED <<completed, putsToAck>>

\* The callback of sendListen; the last one runs ackPuts.
ListenAnswered(i, status) ==
    LET r == requests[i]
        rest == RemoveAt(requests, i)
    IN
    /\ First(i, "listen")
    /\ status # "ok" => r.query \in Single
    /\ \/ /\ r.current /\ status # "ok"
          /\ listens' = listens \ {r.query}
          /\ requests' = Outdated(rest, r.query)
       \/ /\ ~(r.current /\ status # "ok")
          /\ requests' = rest
          /\ UNCHANGED listens
    /\ unackedListensCount' = unackedListensCount - 1
    /\ AckPuts(unackedListensCount')
    /\ UNCHANGED <<connectionState, interruptReasons, scheduledRetry,
                   forceAuthTokenRefresh, tokens, realtime, putCounter,
                   outstandingPuts, log, events>>

-----------------------------------------------------------------------------
(* Writing.                                                                *)

\* putInternal.
Put ==
    /\ putCounter < MaxPuts
    /\ putCounter' = putCounter + 1
    /\ outstandingPuts' = Append(outstandingPuts, putCounter')
    /\ requests' = IF canSendWrites THEN Append(requests, PutRequest(putCounter'))
                                    ELSE requests
    /\ UNCHANGED <<connectionState, interruptReasons, scheduledRetry,
                   forceAuthTokenRefresh, tokens, realtime, listens,
                   unackedListensCount, putsToAck, completed, log, events>>

\* The server decides the first write it has not decided; the answer may
\* never arrive.
ServerDecides(i, reply) ==
    /\ i \in DOMAIN requests
    /\ requests[i].kind = "put"
    /\ requests[i].reply = "none"
    /\ \A h \in 1..(i - 1) : requests[h].kind = "put" => requests[h].reply # "none"
    /\ requests' = [requests EXCEPT ![i].reply = reply]
    /\ log' = IF reply = "ok" THEN Append(log, requests[i].index) ELSE log
    /\ UNCHANGED <<connectionState, interruptReasons, scheduledRetry,
                   forceAuthTokenRefresh, tokens, realtime, listens,
                   unackedListensCount, putCounter, outstandingPuts, putsToAck,
                   completed, events>>

\* The completion block of a write waits while a listen is not acknowledged.
Complete(c) ==
    \/ /\ unackedListensCount = 0
       /\ completed' = Append(completed, c)
       /\ UNCHANGED putsToAck
    \/ /\ unackedListensCount > 0
       /\ putsToAck' = Append(putsToAck, c)
       /\ UNCHANGED completed

\* The callback of sendPut; a write that was purged is ignored.
PutAnswered(i) ==
    LET r == requests[i] IN
    /\ First(i, "put")
    /\ r.reply # "none"
    /\ requests' = RemoveAt(requests, i)
    /\ \/ /\ ~Contains(outstandingPuts, r.index)
          /\ UNCHANGED <<outstandingPuts, completed, putsToAck>>
       \/ \E k \in DOMAIN outstandingPuts :
             /\ outstandingPuts[k] = r.index
             /\ outstandingPuts' = RemoveAt(outstandingPuts, k)
             /\ Complete(Completion(r.index, r.reply))
    /\ UNCHANGED <<connectionState, interruptReasons, scheduledRetry,
                   forceAuthTokenRefresh, tokens, realtime, listens,
                   unackedListensCount, putCounter, log, events>>

\* Mutant: the deferred completions are not run first.
PurgeCancelsFirst ==
    /\ MayPurge
    /\ Event
    /\ completed' = completed \o [i \in DOMAIN outstandingPuts |->
                                     Completion(outstandingPuts[i], "canceled")]
                             \o putsToAck
    /\ putsToAck' = <<>>
    /\ outstandingPuts' = <<>>
    /\ UNCHANGED <<connectionState, interruptReasons, scheduledRetry,
                   forceAuthTokenRefresh, tokens, realtime, requests, listens,
                   unackedListensCount, putCounter, log>>

\* purgeOutstandingWrites.
PurgeOutstandingWrites ==
    /\ MayPurge
    /\ Event
    /\ completed' = completed \o putsToAck
                    \o [i \in DOMAIN outstandingPuts |->
                           Completion(outstandingPuts[i], "canceled")]
    /\ putsToAck' = <<>>
    /\ outstandingPuts' = <<>>
    /\ UNCHANGED <<connectionState, interruptReasons, scheduledRetry,
                   forceAuthTokenRefresh, tokens, realtime, requests, listens,
                   unackedListensCount, putCounter, log>>

-----------------------------------------------------------------------------
Connecting ==
    \/ ConnectionLost \/ NetworkOrAppBack \/ RetryFires
    \/ \E r \in Reason : ResumeForReason(r)
    \/ \E r \in {"server_kill", "repo_interrupt"} : InterruptForReason(r)
    \/ \E f \in fetches : TokenError(f) \/ \E t \in BOOLEAN : TokenFetched(f, t)
    \/ OnReady \/ AuthRefused
    \/ \E i \in DOMAIN requests : AuthAccepted(i)
    \/ \E t \in BOOLEAN : RefreshAuthToken(t)

Listening ==
    \/ \E q \in Listens : Listen(q) \/ Unlisten(q)
    \/ \E i \in DOMAIN requests, s \in {"ok", "denied"} : ListenAnswered(i, s)

Writing ==
    \/ Put \/ PurgeOutstandingWrites
    \/ \E i \in DOMAIN requests :
          PutAnswered(i) \/ \E r \in {"ok", "denied"} : ServerDecides(i, r)

Next == Connecting \/ Listening \/ Writing

Spec == Init /\ [][Next]_vars

\* Timers fire, the token provider and the server answer, and an open
\* connection gets through its handshake; nothing is assumed of the app.
Fairness ==
    /\ WF_vars(RetryFires)
    /\ WF_vars(\E f \in fetches : TokenError(f) \/ \E t \in BOOLEAN : TokenFetched(f, t))
    /\ WF_vars(OnReady)
    /\ WF_vars(\E i \in DOMAIN requests : AuthAccepted(i))
    /\ WF_vars(\E i \in DOMAIN requests, s \in {"ok", "denied"} : ListenAnswered(i, s))
    /\ WF_vars(\E i \in DOMAIN requests :
                  PutAnswered(i) \/ \E r \in {"ok", "denied"} : ServerDecides(i, r))

FairSpec == Spec /\ Fairness

-----------------------------------------------------------------------------
(* Properties.                                                             *)

\* Every variable keeps its kind of value.
TypeOK ==
    /\ connectionState \in {"Disconnected", "GettingToken", "Connecting",
                            "Authenticating", "Connected"}
    /\ interruptReasons \subseteq Reason
    /\ scheduledRetry \in {"none", "normal", "forced"}
    /\ {forceAuthTokenRefresh, authToken, refused} \subseteq BOOLEAN
    /\ currentFetchTokenAttempt \in Nat
    /\ fetches \subseteq [attempt : 1..currentFetchTokenAttempt, force : BOOLEAN]
    /\ realtime \in {"nil", "connecting", "connected"}
    /\ requests \in Seq(Request)
    /\ listens \subseteq Listens
    /\ unackedListensCount \in Nat
    /\ putCounter \in 0..MaxPuts
    /\ outstandingPuts \in Seq(1..putCounter)
    /\ log \in Seq(1..putCounter)
    /\ \A c \in Range(putsToAck) \cup Range(completed) :
          c.index \in 1..putCounter /\ c.status \in {"ok", "denied", "canceled"}
    /\ events \in 0..MaxEvents

\* The assertions of tryScheduleReconnect, its retry block and the fetch's
\* callback, openNetworkConnectionWithToken, restoreAuth, restoreState,
\* sendAuth and sendPut: whatever interrupts, resumes, loses or refuses the
\* connection in between, each finds the state it expects.
StateAgrees ==
    /\ scheduledRetry # "none" =>
          connectionState = "Disconnected" /\ interruptReasons = {}
    /\ \A f \in fetches : f.attempt = currentFetchTokenAttempt =>
          connectionState \in {"Disconnected", "GettingToken"}
    /\ realtime = "connecting" <=> connectionState = "Connecting"
    /\ realtime = "connected" <=> connected
    /\ \A r \in Range(requests) :
          /\ connected
          /\ r.kind = "put" => canSendWrites

\* unackedListensCount, which onDisconnect resets, counts exactly the
\* listens whose answer is to come: it never gets negative (the assertion
\* in sendListen) and never keeps completions waiting for nothing.
UnackedListensCounted ==
    unackedListensCount = Cardinality({i \in DOMAIN requests :
                                          requests[i].kind = "listen"})

\* Unless it is interrupted, the client always has something under way that
\* takes it to the next connection: the retry, a token fetch that will be
\* listened to, or the connection itself.
NeverStranded ==
    \/ interruptReasons # {}
    \/ scheduledRetry # "none"
    \/ \E f \in fetches : Awaited(f)
    \/ realtime # "nil"

\* No write gets lost, completed twice or overtaken: those completed, those
\* whose completion waits for a listen and those outstanding are, in this
\* order, all the writes that were issued.
WritesConserved ==
    [i \in DOMAIN completed |-> completed[i].index]
       \o [i \in DOMAIN putsToAck |-> putsToAck[i].index]
       \o outstandingPuts
    = [i \in 1..putCounter |-> i]

\* A write that is answered again and again by dropped connections does not
\* undo a later one: of two writes that have completed with "ok", the one
\* issued later is the one the server applied last.
LaterWriteWins ==
    \A c, d \in Range(completed) :
        c.index < d.index /\ c.status = "ok" /\ d.status = "ok" =>
            \E e \in DOMAIN log :
                /\ log[e] = d.index
                /\ \A k \in e..Len(log) : log[k] # c.index

\* The client keeps the promise about writes.
WQ == INSTANCE WriteQueue WITH issued <- putCounter
KeepsWritePromise == WQ!Spec

\* Whatever is lost, refused or interrupted on the way, every write completes
\* unless the connection is interrupted for good.
EveryPutCompletes ==
    []<>(interruptReasons = {}) =>
        \A i \in 1..MaxPuts : putCounter >= i ~> Len(completed) >= i

\* onAuthRevokedWithStatus: "we will refresh the token later on reconnect",
\* so the token a connection is opened with is not the refused one.
RefreshedOnReconnect == refused => realtime = "nil" \/ ~authToken

==============================================================================
