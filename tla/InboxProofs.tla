----------------------------- MODULE InboxProofs -----------------------------
(***************************************************************************)
(* The message list, proved: whatever the observers that pile up deliver,  *)
(* and whichever deletions are answered late, the array has one row per    *)
(* partner, and the table never shows more rows than it has.               *)
(***************************************************************************)
EXTENDS Inbox, FunctionTheorems, FiniteSetTheorems, SequenceTheorems, TLAPS

\* A message stands for its own partner only.
OwnMessage(dict) == \A p \in Partners : dict[p] # NoMsg => PartnerOf[dict[p]] = p

\* Rows of distinct partners, newest first.
Ordered(rows) ==
    \A i, j \in DOMAIN rows :
        i < j => /\ PartnerOf[rows[i]] # PartnerOf[rows[j]]
                 /\ Time[rows[i]] >= Time[rows[j]]

FromDictionary(rows, dict) == \A i \in DOMAIN rows : dict[PartnerOf[rows[i]]] = rows[i]

\* Without OwnMessage, two entries of the dictionary could be one row, and a
\* message that is fetched could shorten the array below what is shown.
InboxInv ==
    /\ TypeOK /\ OneRowPerPartner /\ TableWithinArray /\ TableCatchesUp
    /\ OwnMessage(message_dictionary)

-----------------------------------------------------------------------------
\* There are finitely many rows.
LEMMA PartnersCounted == Cardinality(Partners) \in Nat
BY MessagesAssumption, FS_CardinalityType

\* An array of messages is a sequence no longer than there are partners.
LEMMA RowsAreSequences ==
    ASSUME NEW s, s \in Rows
    PROVE  /\ s \in Seq(Keys) /\ Len(s) \in 0..Cardinality(Partners)
           /\ DOMAIN s = 1..Len(s)
           /\ \A i \in DOMAIN s : s[i] \in Keys
<1>1. PICK n \in 0..Cardinality(Partners) : s \in [1..n -> Keys]
  BY DEF Rows
<1>2. n \in Nat
  BY PartnersCounted
<1>3. s \in Seq(Keys) /\ DOMAIN s = 1..n
  BY <1>1, <1>2, SeqDef
<1>4. Len(s) \in Nat /\ DOMAIN s = 1..Len(s)
  BY <1>3, LenProperties
<1>5. Len(s) = n
  BY <1>2, <1>3, <1>4
<1> QED BY <1>1, <1>3, <1>4, <1>5

\* A function on 1..n is an array of messages.
LEMMA SequencesAreRows ==
    ASSUME NEW n \in 0..Cardinality(Partners), NEW s, s \in [1..n -> Keys]
    PROVE  s \in Rows /\ Len(s) = n /\ DOMAIN s = 1..n
<1>1. s \in Rows
  BY DEF Rows
<1>2. n \in Nat /\ Len(s) \in Nat /\ DOMAIN s = 1..Len(s)
  BY <1>1, PartnersCounted, RowsAreSequences
<1>3. Len(s) = n
  BY <1>2
<1> QED BY <1>1, <1>3

\* The messages that stand for the partners are as many as these partners.
LEMMA ValuesCounted ==
    ASSUME NEW d \in [Partners -> Keys \cup {NoMsg}], OwnMessage(d)
    PROVE  /\ IsFiniteSet(Values(d)) /\ Cardinality(Values(d)) \in 0..Cardinality(Partners)
           /\ Values(d) \subseteq Keys
           /\ \A v \in Values(d) : d[PartnerOf[v]] = v /\ PartnerOf[v] \in Partners
<1>1. Values(d) \subseteq Keys
  BY DEF Values
<1>2. \A v \in Values(d) : d[PartnerOf[v]] = v /\ PartnerOf[v] \in Partners
  BY DEF Values, OwnMessage
<1> DEFINE f == [v \in Values(d) |-> PartnerOf[v]]
<1>3. f \in [Values(d) -> Partners] /\ \A v, w \in Values(d) : f[v] = f[w] => v = w
  BY <1>2
<1> HIDE DEF f
<1>4. f \in Injection(Values(d), Partners)
  BY <1>3, Fun_IsInj
<1>5. IsFiniteSet(Values(d)) /\ Cardinality(Values(d)) <= Cardinality(Partners)
  BY <1>4, MessagesAssumption, FS_Injection
<1>6. Cardinality(Values(d)) \in Nat
  BY <1>5, FS_CardinalityType
<1> QED BY <1>1, <1>2, <1>5, <1>6, PartnersCounted

\* The array that is rebuilt from the dictionary.
LEMMA ListingsAreRows ==
    ASSUME NEW d \in [Partners -> Keys \cup {NoMsg}], OwnMessage(d),
           NEW s, s \in Listings(Values(d))
    PROVE  /\ s \in Rows /\ Len(s) = Cardinality(Values(d))
           /\ Ordered(s) /\ FromDictionary(s, d)
<1> DEFINE n == Cardinality(Values(d))
<1>1. /\ IsFiniteSet(Values(d)) /\ n \in 0..Cardinality(Partners)
      /\ Values(d) \subseteq Keys
      /\ \A v \in Values(d) : d[PartnerOf[v]] = v /\ PartnerOf[v] \in Partners
  BY ValuesCounted
<1>2. /\ s \in [1..n -> Values(d)]
      /\ \A k \in Values(d) : \E i \in DOMAIN s : s[i] = k
      /\ \A i, j \in DOMAIN s : i < j => Time[s[i]] >= Time[s[j]]
  BY DEF Listings
<1>3. n \in Nat
  BY <1>1, PartnersCounted
<1>4. IsFiniteSet(1..n) /\ Cardinality(1..n) = n
  BY <1>3, FS_Interval
<1>5. s \in Surjection(1..n, Values(d))
  BY <1>2, Fun_IsSurj
<1>6. s \in Injection(1..n, Values(d))
  BY <1>4, <1>5, FS_SurjSameCardinalityImpliesInj
<1>7. s \in [1..n -> Keys]
  BY <1>1, <1>2
<1> HIDE DEF n
<1>8. s \in Rows /\ Len(s) = n /\ DOMAIN s = 1..n
  BY <1>1, <1>7, SequencesAreRows
<1>9. \A i, j \in 1..n : s[i] = s[j] => i = j
  BY <1>6, Fun_InjectionProperties
<1>10. Ordered(s)
  <2> SUFFICES ASSUME NEW i \in 1..n, NEW j \in 1..n, i < j
               PROVE  PartnerOf[s[i]] # PartnerOf[s[j]] /\ Time[s[i]] >= Time[s[j]]
    BY <1>8 DEF Ordered
  <2>1. s[i] # s[j]
    BY <1>3, <1>9
  <2>2. d[PartnerOf[s[i]]] = s[i] /\ d[PartnerOf[s[j]]] = s[j]
    BY <1>1, <1>2, <1>8
  <2> QED BY <1>2, <1>8, <2>1, <2>2
<1>11. FromDictionary(s, d)
  BY <1>1, <1>2, <1>8 DEF FromDictionary
<1> QED BY <1>8, <1>10, <1>11 DEF n

\* A row less.
LEMMA WithoutRowKeeps ==
    ASSUME NEW s, s \in Rows, NEW r \in 1..Len(s)
    PROVE  /\ WithoutRow(s, r) \in Rows
           /\ Len(WithoutRow(s, r)) = Len(s) - 1
           /\ Ordered(s) => Ordered(WithoutRow(s, r))
           /\ \A d : FromDictionary(s, d) => FromDictionary(WithoutRow(s, r), d)
<1> DEFINE w == WithoutRow(s, r)
           at(j) == IF j < r THEN j ELSE j + 1
<1>1. /\ Len(s) \in 0..Cardinality(Partners) /\ DOMAIN s = 1..Len(s)
      /\ \A i \in DOMAIN s : s[i] \in Keys
  BY RowsAreSequences
<1>2. Len(s) - 1 \in 0..Cardinality(Partners) /\ Len(s) \in Nat
  BY <1>1, PartnersCounted
<1>3. \A j \in 1..(Len(s) - 1) : at(j) \in DOMAIN s /\ w[j] = s[at(j)]
  BY <1>1, <1>2 DEF WithoutRow
<1>4. w \in [1..(Len(s) - 1) -> Keys]
  BY <1>1, <1>2 DEF WithoutRow
<1> HIDE DEF w
<1>5. w \in Rows /\ Len(w) = Len(s) - 1 /\ DOMAIN w = 1..(Len(s) - 1)
  BY <1>2, <1>4, SequencesAreRows
<1>6. \A j, k \in 1..(Len(s) - 1) : j < k => at(j) < at(k)
  BY <1>2
<1> HIDE DEF at
<1>7. Ordered(s) => Ordered(w)
  BY <1>3, <1>5, <1>6 DEF Ordered
<1>8. \A d : FromDictionary(s, d) => FromDictionary(w, d)
  BY <1>3, <1>5 DEF FromDictionary
<1> QED BY <1>5, <1>7, <1>8 DEF w

\* OneRowPerPartner in two parts: the order of the array, and that it is what
\* the dictionary holds.
LEMMA OneRowPerPartnerParts ==
    OneRowPerPartner <=> Ordered(array_mess) /\ FromDictionary(array_mess, message_dictionary)
BY DEF OneRowPerPartner, Ordered, FromDictionary

-----------------------------------------------------------------------------
\* What the observers and the server see changes no row.
LEMMA EnterKeeps ==
    ASSUME InboxInv, NEW keys \in SUBSET Keys, Enter(keys)
    PROVE  index' \subseteq Keys /\ appeared' \subseteq Partners /\ fetching' \subseteq Keys
BY DEF Enter, InboxInv, TypeOK

\* A step that leaves the list alone keeps the facts about it.
LEMMA ListKept ==
    ASSUME InboxInv, UNCHANGED list
    PROVE  /\ OneRowPerPartner' /\ TableWithinArray' /\ TableCatchesUp'
           /\ OwnMessage(message_dictionary)'
           /\ message_dictionary' \in [Partners -> Keys \cup {NoMsg}]
           /\ array_mess' \in Rows /\ shown' \in Rows /\ timer' \in BOOLEAN
BY DEF InboxInv, TypeOK, OneRowPerPartner, TableWithinArray, TableCatchesUp, OwnMessage, list

\* The arrival of a message at the server changes nothing in the list.
LEMMA ArriveKeeps ==
    ASSUME InboxInv, NEW k \in Keys, Arrive(k)
    PROVE  InboxInv'
<1>1. UNCHANGED list
  BY DEF Arrive
<1>2. Enter({k})
  BY DEF Arrive
<1>3. index' \subseteq Keys /\ appeared' \subseteq Partners /\ fetching' \subseteq Keys
  BY <1>2, EnterKeeps
<1>4. /\ arrived' = arrived \cup {k}
      /\ UNCHANGED <<alive, profiles, observed, deletions>>
  BY DEF Arrive
<1> QED BY <1>1, <1>3, <1>4, ListKept DEF InboxInv, TypeOK

\* The event of the profile clears the list (fetch_user_and_setup_navbar).
LEMMA ProfileEventKeeps ==
    ASSUME InboxInv, ProfileEvent
    PROVE  InboxInv'
<1>1. Empty \in [Partners -> Keys \cup {NoMsg}] /\ OwnMessage(Empty)
  BY DEF Empty, OwnMessage
<1>2. <<>> \in Rows /\ Len(<<>>) = 0 /\ DOMAIN <<>> = {}
  <2>1. 0 \in 0..Cardinality(Partners) /\ <<>> \in [1..0 -> Keys]
    BY PartnersCounted
  <2> QED BY <2>1 DEF Rows
<1>3. /\ message_dictionary' = Empty /\ array_mess' = <<>> /\ shown' = <<>>
      /\ profiles < MaxProfileEvents /\ profiles' = profiles + 1
      /\ appeared' = {PartnerOf[k] : k \in index}
      /\ UNCHANGED <<alive, arrived, index, observed, fetching, timer, deletions>>
  BY DEF ProfileEvent
<1>4. profiles' \in 0..MaxProfileEvents
  BY <1>3, BoundsAssumption DEF InboxInv, TypeOK
<1>5. appeared' \subseteq Partners
  BY <1>3, MessagesAssumption DEF InboxInv, TypeOK
<1>6. TypeOK'
  BY <1>1, <1>2, <1>3, <1>4, <1>5 DEF InboxInv, TypeOK
<1>7. OneRowPerPartner' /\ TableWithinArray' /\ TableCatchesUp'
  BY <1>2, <1>3 DEF OneRowPerPartner, TableWithinArray, TableCatchesUp
<1> QED BY <1>1, <1>3, <1>6, <1>7 DEF InboxInv, OwnMessage

\* A new partner is observed; the list is as it was.
LEMMA PartnerAddedKeeps ==
    ASSUME InboxInv, NEW p \in Partners, PartnerAdded(p)
    PROVE  InboxInv'
<1>1. /\ UNCHANGED list /\ UNCHANGED <<alive, data, deletions>>
      /\ appeared' \subseteq Partners /\ observed' \subseteq Partners
      /\ fetching' \subseteq Keys
  BY DEF PartnerAdded, KeysOf, InboxInv, TypeOK
<1> QED BY <1>1, ListKept DEF InboxInv, TypeOK, data

\* A message is read into the dictionary and the timer is set (attempt_reload).
LEMMA MessageFetchedKeeps ==
    ASSUME InboxInv, NEW k \in Keys, MessageFetched(k)
    PROVE  InboxInv'
<1> DEFINE d == message_dictionary'
           s == array_mess'
           n == Len(array_mess)
<1>1. /\ d = [message_dictionary EXCEPT ![PartnerOf[k]] = k]
      /\ s \in Listings(Values(d))
      /\ timer' = TRUE /\ fetching' = fetching \ {k}
      /\ UNCHANGED <<alive, data, appeared, observed, shown, deletions>>
  BY DEF MessageFetched
<1>2. PartnerOf[k] \in Partners /\ k # NoMsg
  BY MessagesAssumption
<1>3. d \in [Partners -> Keys \cup {NoMsg}]
  BY <1>1 DEF InboxInv, TypeOK
<1>4. OwnMessage(d)
  BY <1>1, <1>2 DEF InboxInv, TypeOK, OwnMessage
<1>5. \A p \in Partners : message_dictionary[p] # NoMsg => d[p] # NoMsg
  BY <1>1, <1>2 DEF InboxInv, TypeOK
<1>6. s \in Rows /\ Len(s) = Cardinality(Values(d)) /\ Ordered(s) /\ FromDictionary(s, d)
  BY <1>1, <1>3, <1>4, ListingsAreRows
<1>7. /\ n \in Nat /\ DOMAIN array_mess = 1..n
      /\ \A i \in 1..n : array_mess[i] \in Keys
  BY PartnersCounted, RowsAreSequences DEF InboxInv, TypeOK
<1>8. n <= Cardinality(Values(d))
  <2> DEFINE f == [i \in 1..n |-> d[PartnerOf[array_mess[i]]]]
  <2>1. ASSUME NEW i \in 1..n
        PROVE  /\ PartnerOf[array_mess[i]] \in Partners
               /\ d[PartnerOf[array_mess[i]]] \in Values(d)
               /\ PartnerOf[d[PartnerOf[array_mess[i]]]] = PartnerOf[array_mess[i]]
    <3>1. array_mess[i] \in Keys /\ PartnerOf[array_mess[i]] \in Partners
      BY <1>7, MessagesAssumption
    <3>2. message_dictionary[PartnerOf[array_mess[i]]] # NoMsg
      BY <1>7, <3>1, MessagesAssumption DEF InboxInv, OneRowPerPartner
    <3>3. d[PartnerOf[array_mess[i]]] # NoMsg
      BY <1>5, <3>1, <3>2
    <3> HIDE DEF d
    <3> QED BY <1>4, <3>1, <3>3 DEF OwnMessage, Values
  <2>2. \A i, j \in 1..n : i # j => PartnerOf[array_mess[i]] # PartnerOf[array_mess[j]]
    BY <1>7 DEF InboxInv, OneRowPerPartner
  <2> HIDE DEF d, n
  <2>3. f \in [1..n -> Values(d)]
    BY <2>1
  <2>4. \A i, j \in 1..n : f[i] = f[j] => i = j
    <3> SUFFICES ASSUME NEW i \in 1..n, NEW j \in 1..n, f[i] = f[j] PROVE i = j
      OBVIOUS
    <3>1. PartnerOf[array_mess[i]] = PartnerOf[array_mess[j]]
      BY <2>1
    <3> QED BY <2>2, <3>1
  <2> HIDE DEF f
  <2>5. f \in Injection(1..n, Values(d))
    BY <2>3, <2>4, Fun_IsInj
  <2>6. IsFiniteSet(Values(d))
    BY <1>3, <1>4, ValuesCounted
  <2>7. Cardinality(1..n) <= Cardinality(Values(d))
    BY <2>5, <2>6, FS_Injection
  <2> QED BY <1>7, <2>7, FS_Interval
<1>9. TypeOK'
  BY <1>1, <1>3, <1>6 DEF InboxInv, TypeOK, data
<1>10. OneRowPerPartner'
  BY <1>6 DEF OneRowPerPartner, Ordered, FromDictionary
<1>11. TableWithinArray'
  <2>1. Len(shown) <= n /\ Len(shown) \in Nat
    BY PartnersCounted, RowsAreSequences DEF InboxInv, TypeOK, TableWithinArray
  <2>2. Cardinality(Values(d)) \in Nat
    BY <1>3, <1>4, ValuesCounted, PartnersCounted
  <2> HIDE DEF d, n
  <2>3. Len(shown) <= Len(s)
    BY <1>6, <1>7, <1>8, <2>1, <2>2
  <2> QED BY <1>1, <2>3 DEF TableWithinArray
<1> QED BY <1>1, <1>4, <1>9, <1>10, <1>11 DEF InboxInv, TableCatchesUp, OwnMessage

\* handle_reload sorts the dictionary into the array and reloads the table.
LEMMA ReloadKeeps ==
    ASSUME InboxInv, Reload
    PROVE  InboxInv'
<1>1. /\ shown' = array_mess /\ timer' = FALSE
      /\ UNCHANGED <<alive, data, observers, message_dictionary, array_mess, deletions>>
  BY DEF Reload
<1>2. TypeOK'
  BY <1>1 DEF InboxInv, TypeOK, data, observers
<1>3. Len(array_mess) \in Nat
  BY PartnersCounted, RowsAreSequences DEF InboxInv, TypeOK
<1> QED BY <1>1, <1>2, <1>3
        DEF InboxInv, OneRowPerPartner, TableWithinArray, TableCatchesUp, OwnMessage

\* A swipe asks the server to delete and changes nothing in the list yet.
LEMMA DeleteKeeps ==
    ASSUME InboxInv, NEW i \in 1..Cardinality(Partners), Delete(i)
    PROVE  InboxInv'
<1> DEFINE keys == KeysOf(PartnerOf[array_mess[i]])
<1>1. /\ index' = index \ keys
      /\ deletions' = Append(deletions, [row |-> i, keys |-> keys])
      /\ UNCHANGED list /\ UNCHANGED <<alive, arrived, profiles, observers>>
  BY DEF Delete
<1>2. keys \in SUBSET Keys
  BY DEF KeysOf, InboxInv, TypeOK
<1> HIDE DEF keys
<1>3. deletions' \in Seq([row : 1..Cardinality(Partners), keys : SUBSET Keys])
  BY <1>1, <1>2, AppendProperties DEF InboxInv, TypeOK
<1> QED BY <1>1, <1>3, ListKept DEF InboxInv, TypeOK, observers

\* The deletion whose answer comes next.
LEMMA HeadDeletion ==
    ASSUME InboxInv, deletions # <<>>
    PROVE  /\ Head(deletions) \in [row : 1..Cardinality(Partners), keys : SUBSET Keys]
           /\ Tail(deletions) \in Seq([row : 1..Cardinality(Partners), keys : SUBSET Keys])
BY HeadTailProperties DEF InboxInv, TypeOK

\* A deletion that failed leaves the list alone.
LEMMA DeleteFailedKeeps ==
    ASSUME InboxInv, DeleteFailed
    PROVE  InboxInv'
<1>1. /\ deletions # <<>> /\ deletions' = Tail(deletions)
      /\ Enter(Head(deletions).keys)
      /\ UNCHANGED list /\ UNCHANGED <<alive, arrived, profiles, observed>>
  BY DEF DeleteFailed
<1>2. /\ Head(deletions).keys \in SUBSET Keys
      /\ deletions' \in Seq([row : 1..Cardinality(Partners), keys : SUBSET Keys])
  BY <1>1, HeadDeletion
<1>3. index' \subseteq Keys /\ appeared' \subseteq Partners /\ fetching' \subseteq Keys
  <2>1. PICK keys \in SUBSET Keys : keys = Head(deletions).keys
    BY <1>2
  <2> QED BY <1>1, <2>1, EnterKeeps
<1> QED BY <1>1, <1>2, <1>3, ListKept DEF InboxInv, TypeOK

\* A deletion that succeeded takes the row out of the array and the table; the
\* dictionary keeps the conversation.
LEMMA DeleteDoneKeeps ==
    ASSUME InboxInv, DeleteDone
    PROVE  InboxInv'
<1> DEFINE r == Head(deletions).row
<1>1. /\ deletions # <<>> /\ deletions' = Tail(deletions)
      /\ r \in 1..Len(array_mess) /\ Len(array_mess) = Len(shown)
      /\ array_mess' = WithoutRow(array_mess, r)
      /\ shown' = WithoutRow(shown, r)
      /\ UNCHANGED <<alive, data, observers, message_dictionary, timer>>
  BY DEF DeleteDone, RowsAgree
<1>2. deletions' \in Seq([row : 1..Cardinality(Partners), keys : SUBSET Keys])
  BY <1>1, HeadDeletion
<1> HIDE DEF r
<1>3. PICK q \in 1..Len(array_mess) : q = r
  BY <1>1
<1>4. array_mess \in Rows /\ shown \in Rows
  BY DEF InboxInv, TypeOK
<1>5. /\ array_mess' \in Rows /\ Len(array_mess') = Len(array_mess) - 1
      /\ Ordered(array_mess) => Ordered(array_mess')
      /\ \A d : FromDictionary(array_mess, d) => FromDictionary(array_mess', d)
  BY <1>1, <1>3, <1>4, WithoutRowKeeps
<1>6. shown' \in Rows /\ Len(shown') = Len(shown) - 1
  BY <1>1, <1>3, <1>4, WithoutRowKeeps
<1>7. TypeOK'
  BY <1>1, <1>2, <1>5, <1>6 DEF InboxInv, TypeOK, data, observers
<1>8. OneRowPerPartner'
  BY <1>1, <1>5 DEF InboxInv, OneRowPerPartner, Ordered, FromDictionary
<1>9. TableWithinArray'
  <2>1. Len(array_mess) \in Nat
    BY <1>4, PartnersCounted, RowsAreSequences
  <2> QED BY <1>1, <1>5, <1>6, <2>1 DEF TableWithinArray
<1>10. TableCatchesUp'
  BY <1>1 DEF InboxInv, TableCatchesUp
<1> QED BY <1>1, <1>7, <1>8, <1>9, <1>10 DEF InboxInv, OwnMessage

-----------------------------------------------------------------------------
\* The list begins empty.
LEMMA InboxInit == Init => InboxInv
<1> SUFFICES ASSUME Init PROVE InboxInv
  OBVIOUS
<1>1. <<>> \in Rows /\ Len(<<>>) = 0 /\ DOMAIN <<>> = {}
  <2>1. 0 \in 0..Cardinality(Partners) /\ <<>> \in [1..0 -> Keys]
    BY PartnersCounted
  <2> QED BY <2>1 DEF Rows
<1>2. Empty \in [Partners -> Keys \cup {NoMsg}] /\ OwnMessage(Empty)
  BY DEF Empty, OwnMessage
<1>3. TypeOK
  <2>1. <<>> \in Seq([row : 1..Cardinality(Partners), keys : SUBSET Keys])
    BY EmptySeq
  <2>2. /\ alive = TRUE /\ timer = FALSE
        /\ profiles \in 0..MaxProfileEvents
    BY BoundsAssumption DEF Init
  <2>3. message_dictionary \in [Partners -> Keys \cup {NoMsg}]
    BY <1>2 DEF Init
  <2> QED BY <1>1, <2>1, <2>2, <2>3 DEF Init, TypeOK
<1> QED BY <1>1, <1>2, <1>3
        DEF Init, InboxInv, OneRowPerPartner, TableWithinArray, TableCatchesUp

\* Every step keeps the invariant.
LEMMA InboxStep == InboxInv /\ [Next]_vars => InboxInv'
<1> SUFFICES ASSUME InboxInv, [Next]_vars PROVE InboxInv'
  OBVIOUS
<1>1. CASE Callback
  <2>1. CASE DeleteCrash
    <3>1. UNCHANGED list /\ alive' = FALSE /\ UNCHANGED <<data, observers, deletions>>
      BY <2>1 DEF DeleteCrash
    <3> QED BY <3>1, ListKept DEF InboxInv, TypeOK, data, observers
  <2> QED BY <1>1, <2>1, PartnerAddedKeeps, MessageFetchedKeeps, ReloadKeeps,
             DeleteDoneKeeps, DeleteFailedKeeps DEF Callback
<1>2. CASE UNCHANGED vars
  <2>1. UNCHANGED list
    BY <1>2 DEF vars, list
  <2> QED BY <1>2, <2>1, ListKept DEF InboxInv, TypeOK, vars
<1> QED BY <1>1, <1>2, ProfileEventKeeps, ArriveKeeps, DeleteKeeps DEF Next

\* The invariant in every reachable state: rows are entries of the dictionary,
\* and the table shows the rows, up to a reload that is due.  The dictionary
\* may have more entries: it keeps deleted conversations.
LEMMA InboxAlways == Spec => []InboxInv
BY InboxInit, InboxStep, PTL DEF Spec

\* The state of the message list keeps its kinds of value; the array and the
\* table never have more rows than there are partners.
THEOREM InboxTypes == Spec => []TypeOK
<1>1. InboxInv => TypeOK
  BY DEF InboxInv
<1> QED BY <1>1, InboxAlways, PTL

\* get_message_2 rebuilds the array from a dictionary: one row per partner,
\* newest first, even after rows were deleted and partners reported again.
THEOREM OneRowEach == Spec => []OneRowPerPartner
<1>1. InboxInv => OneRowPerPartner
  BY DEF InboxInv
<1> QED BY <1>1, InboxAlways, PTL

\* cellForRowAt and didSelectRowAt index the array with a row of the table.
THEOREM RowsExist == Spec => []TableWithinArray
<1>1. InboxInv => TableWithinArray
  BY DEF InboxInv
<1> QED BY <1>1, InboxAlways, PTL

\* The timer that get_message_2 invalidates and schedules anew leaves no
\* change of the array unreported: with no reload scheduled, the table shows
\* the array.  Of the dictionary only OneRowEach speaks.
THEOREM ReloadPending == Spec => []TableCatchesUp
<1>1. InboxInv => TableCatchesUp
  BY DEF InboxInv
<1> QED BY <1>1, InboxAlways, PTL

=============================================================================
