----------------------------- MODULE WriteQueue -----------------------------
(***************************************************************************)
(* What the database client promises of the writes an application hands    *)
(* it: each is completed at most once and in the order it was issued,      *)
(* "ok" only if the server has applied it, and the server does not apply   *)
(* a write any more once its completion block has run, unless it was       *)
(* cancelled.  Until then the server may apply it any number of times.     *)
(***************************************************************************)
EXTENDS Naturals, Sequences

CONSTANT MaxPuts

VARIABLES
    issued,         \* writes handed to the client
    log,            \* writes in the order the server applied them
    completed       \* completion blocks that ran, with their status

vars == <<issued, log, completed>>

Status == {"ok", "denied", "canceled"}

Init == /\ issued = 0
        /\ log = <<>>
        /\ completed = <<>>

Issue == /\ issued < MaxPuts
         /\ issued' = issued + 1
         /\ UNCHANGED <<log, completed>>

Apply(i) == /\ i > Len(completed) \/ completed[i].status = "canceled"
            /\ log' = Append(log, i)
            /\ UNCHANGED <<issued, completed>>

\* The next n writes complete, with these results.
Complete(results) ==
    LET n == Len(completed) IN
    /\ \A k \in DOMAIN results :
          results[k] = "ok" => \E e \in DOMAIN log : log[e] = n + k
    /\ completed' = completed \o [k \in DOMAIN results |->
                                    [index |-> n + k, status |-> results[k]]]
    /\ UNCHANGED <<issued, log>>

Next == \/ Issue
        \/ \E i \in 1..issued : Apply(i)
        \/ \E n \in 1..(issued - Len(completed)) :
              \E results \in [1..n -> Status] : Complete(results)

Spec == Init /\ [][Next]_vars

==============================================================================
