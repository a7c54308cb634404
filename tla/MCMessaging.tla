----------------------------- MODULE MCMessaging -----------------------------
(* Instances of Messaging for TLC.                                         *)
EXTENDS Messaging, TLC

CONSTANTS d1, d2, c1, c2

\* One chat instance per phone.
TwoPhones == [s \in {c1, c2} |-> IF s = c1 THEN d1 ELSE d2]

\* Every instance on one phone.
OnePhone == [s \in Chats |-> d1]

\* The numbers drawn by uploads under way and by those that ended in the bucket.
Drawn == {n \in Paths : \/ \E j \in Jobs : n \in {job[j].path, job[j].movie}
                        \/ \E o \in storage : o[2] = n}

\* Bound: a second number is drawn only while no second message was written,
\* and a second message is written only while no second number was drawn.
OneNumberOrOneMessage == Cardinality(Drawn) <= 1 \/ Cardinality(used) <= 1

\* Bound: two texts in a queue, or one message beside an upload.  It cuts off
\* only steps of the user and of uploads, of which fairness asks nothing.
TextsOrUpload == Drawn = {} \/ Cardinality(used) <= 1

Symmetry == UNION {Permutations(S) : S \in {Users, Keys, Paths, Jobs}}

==============================================================================
