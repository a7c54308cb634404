---------------------------- MODULE DurableStore ----------------------------
(***************************************************************************)
(* What the database promises (include/leveldb/db.h, options.h): a set of  *)
(* writes that grows by whole groups, whose answered members outlive the   *)
(* process, and the synced ones the machine.                               *)
(***************************************************************************)
CONSTANTS Calls, Kinds

VARIABLES
    contents,   \* the calls whose write the database shows
    call,       \* what became of a call
    kind        \* what it asked for

vars == <<contents, call, kind>>

Init ==
    /\ contents = {}
    /\ call = [c \in Calls |-> "idle"]
    /\ kind \in [Calls -> Kinds \cup {"async"}]

Submit(c) ==
    /\ call[c] = "idle"
    /\ call' = [call EXCEPT ![c] = "pending"]
    /\ \E k \in Kinds : kind' = [kind EXCEPT ![c] = k]
    /\ UNCHANGED contents

Pending == {c \in Calls : call[c] = "pending"}

\* A group is answered: shown from now on, or refused.
Respond(S, a) ==
    /\ S # {} /\ S \subseteq Pending
    /\ call' = [c \in Calls |-> IF c \in S THEN a ELSE call[c]]
    /\ contents' = IF a = "ok" THEN contents \cup {c \in S : kind[c] # "force"}
                               ELSE contents
    /\ UNCHANGED kind

\* The process ends, by itself or with the machine.  A write that was not
\* answered, or with an error, may be found afterwards.
Restart(machine) ==
    /\ UNCHANGED kind
    /\ call' = [c \in Calls |->
                  CASE call[c] = "pending" -> "lost"
                    [] call[c] = "ok" /\ machine /\ kind[c] = "async" /\ c \notin contents' -> "lost"
                    [] OTHER -> call[c]]
    /\ contents' \subseteq contents \cup {c \in Calls : call[c] \in {"pending", "error", "lost"}}
    /\ {c \in contents : call'[c] = "ok"} \subseteq contents'

Next ==
    \/ \E c \in Calls : Submit(c)
    \/ \E S \in SUBSET Calls, a \in {"ok", "error"} : Respond(S, a)
    \/ \E m \in BOOLEAN : Restart(m)

Spec == Init /\ [][Next]_vars
=============================================================================
