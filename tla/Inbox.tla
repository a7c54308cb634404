-------------------------------- MODULE Inbox --------------------------------
(***************************************************************************)
(* The message list of one signed-in account: messagecontroller.swift.     *)
(*                                                                         *)
(* The list is filled by three nested observers, each delivered on the     *)
(* main queue some time after what caused it: a partner appears under      *)
(* user-mess/<uid>, a key under user-mess/<uid>/<partner>, the message of  *)
(* the key is fetched once.  Every fetch rebuilds the array, but the table *)
(* is reloaded by a timer only, and a deletion addresses both by a row     *)
(* number it captured before the server answered.                          *)
(***************************************************************************)
EXTENDS Naturals, Sequences, FiniteSets

CONSTANTS
    Partners,
    Keys,               \* messages of the account
    PartnerOf,          \* Mess.get_chat_partner_id
    Time,               \* the sender's clock, Mess.timestapm
    NoMsg,
    MaxProfileEvents,   \* bound: changes of the account's own profile
    MaxDeletes,         \* bound: deletions the server has not answered
    MayDeny             \* the server may refuse a deletion

ASSUME MessagesAssumption ==
    /\ IsFiniteSet(Partners)
    /\ PartnerOf \in [Keys -> Partners]
    /\ Time \in [Keys -> Nat]
    /\ NoMsg \notin Keys

ASSUME BoundsAssumption ==
    /\ MaxProfileEvents \in Nat
    /\ MaxDeletes \in Nat
    /\ MayDeny \in BOOLEAN

VARIABLES
    alive,              \* the app runs
    arrived,            \* keys that were ever written for the account
    index,              \* keys under user-mess/<uid> as this client sees it
    profiles,           \* profile events so far; the first registers the observers
    appeared,           \* childAdded events of user-mess/<uid> not yet handled
    observed,           \* partners with an observer on user-mess/<uid>/<partner>
    fetching,           \* keys whose mess/<key> was asked for
    message_dictionary,
    array_mess,
    shown,              \* what the table showed at its last update
    timer,              \* a reload is scheduled
    deletions           \* removeValue calls not yet answered: row and keys

data == <<arrived, index, profiles>>
observers == <<appeared, observed, fetching>>
list == <<message_dictionary, array_mess, shown, timer>>
vars == <<alive, arrived, index, profiles, appeared, observed, fetching,
          message_dictionary, array_mess, shown, timer, deletions>>

-----------------------------------------------------------------------------
KeysOf(p) == {k \in index : PartnerOf[k] = p}

Values(dict) == {dict[p] : p \in Partners} \ {NoMsg}

\* Mutant: the values in the order the dictionary yields them.
UnsortedListings(keys) ==
    {s \in [1..Cardinality(keys) -> keys] : \A k \in keys : \E i \in DOMAIN s : s[i] = k}

\* Array(message_dictionary.values) sorted by descending timestamp; equal
\* timestamps come in any order.
Listings(keys) ==
    {s \in [1..Cardinality(keys) -> keys] :
        /\ \A k \in keys : \E i \in DOMAIN s : s[i] = k
        /\ \A i, j \in DOMAIN s : i < j => Time[s[i]] >= Time[s[j]]}

WithoutRow(s, i) == [j \in 1..(Len(s) - 1) |-> IF j < i THEN s[j] ELSE s[j + 1]]

Empty == [p \in Partners |-> NoMsg]

Init ==
    /\ alive = TRUE
    /\ arrived = {}
    /\ index = {}
    /\ profiles = 0
    /\ appeared = {}
    /\ observed = {}
    /\ fetching = {}
    /\ message_dictionary = Empty
    /\ array_mess = <<>>
    /\ shown = <<>>
    /\ timer = FALSE
    /\ deletions = <<>>

-----------------------------------------------------------------------------
(* What the observers see.                                                 *)

\* Keys enter the client's view of user-mess/<uid>: a new message, or the
\* restored entries of a refused deletion.  A partner that was not there is
\* a childAdded of the outer observer, a key of a partner that is observed
\* one of the inner.
Enter(keys) ==
    /\ index' = index \cup keys
    /\ appeared' = appeared \cup
          {p \in Partners : /\ profiles > 0
                            /\ KeysOf(p) = {}
                            /\ \E k \in keys : PartnerOf[k] = p}
    /\ fetching' = fetching \cup {k \in keys \ index : PartnerOf[k] \in observed}

\* An index entry is written, by the account itself or by a partner.
Arrive(k) ==
    /\ alive
    /\ k \notin arrived
    /\ arrived' = arrived \cup {k}
    /\ Enter({k})
    /\ UNCHANGED <<alive, profiles, observed, list, deletions>>

\* Mutant: the list is emptied and its observers are left as they are.
ProfileEventClearsOnly ==
    /\ alive
    /\ profiles < MaxProfileEvents
    /\ profiles' = profiles + 1
    /\ message_dictionary' = Empty
    /\ array_mess' = <<>>
    /\ shown' = <<>>
    /\ appeared' = IF profiles = 0 THEN {PartnerOf[k] : k \in index} ELSE appeared
    /\ UNCHANGED <<alive, arrived, index, observed, fetching, timer, deletions>>

\* The observer of the account's own profile: setupnavigationitem empties
\* the list, reloads the table and observes user-mess/<uid> once more, which
\* reports every partner again.
ProfileEvent ==
    /\ alive
    /\ profiles < MaxProfileEvents
    /\ profiles' = profiles + 1
    /\ message_dictionary' = Empty
    /\ array_mess' = <<>>
    /\ shown' = <<>>
    /\ appeared' = {PartnerOf[k] : k \in index}
    /\ UNCHANGED <<alive, arrived, index, observed, fetching, timer, deletions>>

\* childAdded of user-mess/<uid>: the partner's own path is observed, which
\* reports the keys that are there.
PartnerAdded(p) ==
    /\ alive
    /\ p \in appeared
    /\ appeared' = appeared \ {p}
    /\ observed' = observed \cup {p}
    /\ fetching' = fetching \cup KeysOf(p)
    /\ UNCHANGED <<alive, data, list, deletions>>

\* Mutant: every message is appended, as the commented-out line once did.
MessageFetchedAppends(k) ==
    /\ alive
    /\ k \in fetching
    /\ fetching' = fetching \ {k}
    /\ message_dictionary' = [message_dictionary EXCEPT ![PartnerOf[k]] = k]
    /\ array_mess' = Append(array_mess, k)
    /\ timer' = TRUE
    /\ UNCHANGED <<alive, data, appeared, observed, shown, deletions>>

\* Mutant: the running timer is invalidated and none is scheduled.
MessageFetchedNoTimer(k) ==
    /\ alive
    /\ k \in fetching
    /\ fetching' = fetching \ {k}
    /\ message_dictionary' = [message_dictionary EXCEPT ![PartnerOf[k]] = k]
    /\ array_mess' \in Listings(Values(message_dictionary'))
    /\ timer' = FALSE
    /\ UNCHANGED <<alive, data, appeared, observed, shown, deletions>>

\* The value of mess/<key>, in whatever order the values come: the last to
\* come stands for its partner, the array is rebuilt, the reload put off.
MessageFetched(k) ==
    /\ alive
    /\ k \in fetching
    /\ fetching' = fetching \ {k}
    /\ message_dictionary' = [message_dictionary EXCEPT ![PartnerOf[k]] = k]
    /\ array_mess' \in Listings(Values(message_dictionary'))
    /\ timer' = TRUE
    /\ UNCHANGED <<alive, data, appeared, observed, shown, deletions>>

\* handle_call_data.
Reload ==
    /\ alive
    /\ timer
    /\ timer' = FALSE
    /\ shown' = array_mess
    /\ UNCHANGED <<alive, data, observers, message_dictionary, array_mess, deletions>>

-----------------------------------------------------------------------------
(* Deleting a row.                                                         *)

\* The user swipes row i of what is shown; the conversation removed is the
\* one at i in the array.  The client's own view changes at once.
Delete(i) ==
    /\ alive
    /\ Len(deletions) < MaxDeletes
    /\ i \in 1..Len(shown)
    /\ i \in 1..Len(array_mess)
    /\ LET keys == KeysOf(PartnerOf[array_mess[i]]) IN
          /\ index' = index \ keys
          /\ deletions' = Append(deletions, [row |-> i, keys |-> keys])
    /\ UNCHANGED <<alive, arrived, profiles, observers, list>>

\* removeValue is refused: the error is printed, the client's view goes back.
DeleteFailed ==
    /\ alive
    /\ MayDeny
    /\ deletions # <<>>
    /\ deletions' = Tail(deletions)
    /\ Enter(Head(deletions).keys)
    /\ UNCHANGED <<alive, arrived, profiles, observed, list>>

\* deleteRows fails an assertion of UITableView unless the data source lost
\* exactly the deleted row since the table's last update, and remove(at:)
\* fails on a row that is no longer there.
RowsAgree(i) == i \in 1..Len(array_mess) /\ Len(array_mess) = Len(shown)

\* Mutant: the table is brought up to date by the timer's reload only.
DeleteDoneArrayOnly ==
    /\ alive
    /\ deletions # <<>>
    /\ RowsAgree(Head(deletions).row)
    /\ deletions' = Tail(deletions)
    /\ array_mess' = WithoutRow(array_mess, Head(deletions).row)
    /\ UNCHANGED <<alive, data, observers, message_dictionary, shown, timer>>

\* removeValue succeeds: the captured row leaves the array and the table,
\* the dictionary keeps the conversation.
DeleteDone ==
    /\ alive
    /\ deletions # <<>>
    /\ RowsAgree(Head(deletions).row)
    /\ deletions' = Tail(deletions)
    /\ array_mess' = WithoutRow(array_mess, Head(deletions).row)
    /\ shown' = WithoutRow(shown, Head(deletions).row)
    /\ UNCHANGED <<alive, data, observers, message_dictionary, timer>>

DeleteCrash ==
    /\ alive
    /\ deletions # <<>>
    /\ ~RowsAgree(Head(deletions).row)
    /\ alive' = FALSE
    /\ UNCHANGED <<data, observers, list, deletions>>

-----------------------------------------------------------------------------
Callback ==
    \/ \E p \in Partners : PartnerAdded(p)
    \/ \E k \in Keys : MessageFetched(k)
    \/ Reload \/ DeleteDone \/ DeleteFailed \/ DeleteCrash

Next ==
    \/ Callback
    \/ ProfileEvent
    \/ \E k \in Keys : Arrive(k)
    \/ \E i \in 1..Cardinality(Partners) : Delete(i)

Spec == Init /\ [][Next]_vars

\* The main queue runs every callback that is due, and the observer of the
\* profile of a signed-in account reports it once.  That the profile changes
\* afterwards is up to the user.
Fairness ==
    /\ \A p \in Partners : WF_vars(PartnerAdded(p))
    /\ \A k \in Keys : WF_vars(MessageFetched(k))
    /\ WF_vars(Reload)
    /\ WF_vars(profiles = 0 /\ ProfileEvent)

FairSpec == Spec /\ Fairness

-----------------------------------------------------------------------------
(* Properties.                                                             *)

Rows == UNION {[1..n -> Keys] : n \in 0..Cardinality(Partners)}

\* The type invariant of the controller's state.
TypeOK ==
    /\ alive \in BOOLEAN
    /\ arrived \subseteq Keys
    /\ index \subseteq Keys
    /\ profiles \in 0..MaxProfileEvents
    /\ appeared \subseteq Partners
    /\ observed \subseteq Partners
    /\ fetching \subseteq Keys
    /\ message_dictionary \in [Partners -> Keys \cup {NoMsg}]
    /\ array_mess \in Rows
    /\ shown \in Rows
    /\ timer \in BOOLEAN
    /\ deletions \in Seq([row : 1..Cardinality(Partners), keys : SUBSET Keys])

\* However the fetches of the observers that pile up interleave with
\* profile changes and deletions, the array has one row per partner and the
\* newest first, and what it shows comes from the dictionary (get_message_2,
\* "group all messages of one id").
OneRowPerPartner ==
    /\ \A i, j \in DOMAIN array_mess :
          i < j => /\ PartnerOf[array_mess[i]] # PartnerOf[array_mess[j]]
                   /\ Time[array_mess[i]] >= Time[array_mess[j]]
    /\ \A i \in DOMAIN array_mess :
          message_dictionary[PartnerOf[array_mess[i]]] = array_mess[i]

\* The table never has more rows than the array, which cellForRowAt and
\* didSelectRowAt index without a check.
TableWithinArray == Len(shown) <= Len(array_mess)

\* Unless a reload is scheduled, the table shows the array: no change of the
\* array is left unreported by the timer that is invalidated and scheduled
\* anew (get_message_2, handle_call_data).
TableCatchesUp == ~timer => shown = array_mess

InTable(p) == \E i \in DOMAIN shown : PartnerOf[shown[i]] = p

\* Without deletions, a conversation gets a row and in the end keeps it, no
\* matter whether and when changes of the own profile empty the list
\* (setupnavigationitem).
ConversationShown ==
    [](deletions = <<>>) =>
        \A p \in Partners : (\E k \in index : PartnerOf[k] = p) ~> []InTable(p)

==============================================================================
