------------------------------ MODULE SkipList ------------------------------
(***************************************************************************)
(* The memtable's skip list (db/skiplist.h) while one thread inserts, as   *)
(* DBImpl::Write lets one do, and another reads without a lock.  A reader  *)
(* makes one load per step; an insertion links one level per step.  The    *)
(* links are acquire loads and release stores of one location each; the    *)
(* height of the list is read without a barrier, and may be an old one.    *)
(***************************************************************************)
EXTENDS Naturals, FiniteSets, FiniteSetsExt

CONSTANTS
    MaxKey,     \* keys are 1 .. MaxKey
    MaxHeight   \* kMaxHeight

Head == 0
Null == MaxKey + 1
Nodes == 1 .. MaxKey
Heights == 1 .. MaxHeight

VARIABLES
    link,       \* link[level][node]: next_[level] of the node
    maxHeight,  \* max_height_
    writer,     \* [key, prev, todo]: levels still to link; key Null when idle
    reader      \* [op, target, x, level, known, node]

vars == <<link, maxHeight, writer, reader>>

\* The nodes of a level, from the head on.
OnLevel(level) ==
    LET after[n \in 0 .. MaxKey] ==
            IF n = 0 THEN {Head}
            ELSE after[n - 1] \cup {link[level][x] : x \in after[n - 1] \ {Null}}
    IN  after[MaxKey] \ {Head, Null}

Contents == OnLevel(1)

\* Mutant: the key itself is passed over.
KeyIsAtNode(key, node) == node # Null /\ node <= key

\* KeyIsAfterNode
KeyIsAfterNode(key, node) == node # Null /\ node < key

\* FindGreaterOrEqual of the inserting thread, which nobody disturbs: on
\* each level the last node before the key; the head above the height.
Before(level, key) == Max({Head} \cup {x \in OnLevel(level) : x < key})

Idle == writer.key = Null

Insert(key, height) ==
    /\ Idle /\ key \notin Contents
    /\ writer' = [key |-> key, todo |-> 1 .. height,
                  prev |-> [level \in 1 .. height |-> Before(level, key)]]
    /\ maxHeight' = Max({maxHeight, height})
    /\ UNCHANGED <<link, reader>>

\* Mutant: from the highest level down.
TopLevel(todo) == Max(todo)

\* Levels are linked from the lowest up.
NextLevel(todo) == Min(todo)

Link ==
    /\ ~Idle
    /\ LET level == NextLevel(writer.todo)
           x == writer.key
           prev == writer.prev[level]
       IN  /\ link' = [link EXCEPT ![level] = [@ EXCEPT ![x] = link[level][prev], ![prev] = x]]
           /\ writer' = IF writer.todo = {level} THEN [key |-> Null, todo |-> {}, prev |-> <<>>]
                        ELSE [writer EXCEPT !.todo = @ \ {level}]
    /\ UNCHANGED <<maxHeight, reader>>

-----------------------------------------------------------------------------
(* The reader.  known is what was in the list when the search began.       *)

Begin(op, target) ==
    /\ reader.op = "none"
    /\ \E height \in 1 .. maxHeight :
          reader' = [op |-> op, target |-> target, x |-> Head, level |-> height,
                     known |-> Contents, node |-> reader.node]
    /\ UNCHANGED <<link, maxHeight, writer>>

Seek(target) == Begin("seek", target)
SeekToLast   == Begin("last", Null)

\* Prev searches for the last node before its own.
Prev == reader.node # Null /\ Begin("prev", reader.node)

\* SeekToFirst and Next are one load.
OneLoad(from) ==
    /\ reader.op = "none"
    /\ reader' = [op |-> "found", target |-> from, x |-> link[1][from], level |-> 0,
                  known |-> Contents, node |-> link[1][from]]
    /\ UNCHANGED <<link, maxHeight, writer>>

SeekToFirst == OneLoad(Head)
Advance == reader.node # Null /\ OneLoad(reader.node)

\* One turn of the loops of FindGreaterOrEqual, FindLessThan and FindLast.
Load ==
    /\ reader.op \in {"seek", "prev", "last"}
    /\ LET next == link[reader.level][reader.x]
           orNull(x) == IF x = Head THEN Null ELSE x
       IN  reader' =
             CASE KeyIsAfterNode(reader.target, next) -> [reader EXCEPT !.x = next]
               [] ~KeyIsAfterNode(reader.target, next) /\ reader.level > 1 ->
                    [reader EXCEPT !.level = @ - 1]
               [] OTHER ->
                    [reader EXCEPT !.op = IF @ = "seek" THEN "sought" ELSE "stepped",
                                   !.level = 0,
                                   !.node = IF reader.op = "seek" THEN next ELSE orNull(reader.x)]
    /\ UNCHANGED <<link, maxHeight, writer>>

\* The caller goes on.
Return ==
    /\ reader.op \in {"found", "sought", "stepped"}
    /\ reader' = [op |-> "none", target |-> Null, x |-> Head, level |-> 0, known |-> {},
                  node |-> reader.node]
    /\ UNCHANGED <<link, maxHeight, writer>>

Init ==
    /\ link = [level \in Heights |-> [x \in {Head} \cup Nodes |-> Null]]
    /\ maxHeight = 1
    /\ writer = [key |-> Null, todo |-> {}, prev |-> <<>>]
    /\ reader = [op |-> "none", target |-> Null, x |-> Head, level |-> 0, known |-> {},
                 node |-> Null]

Next ==
    \/ \E key \in Nodes, height \in Heights : Insert(key, height)
    \/ Link
    \/ \E target \in Nodes : Seek(target)
    \/ SeekToLast \/ Prev \/ SeekToFirst \/ Advance
    \/ Load \/ Return

Spec == Init /\ [][Next]_vars

-----------------------------------------------------------------------------
\* Each level is in order and a part of the one below it, also in the middle
\* of an insertion (SkipList::Insert).
ListOrdered ==
    \A level \in Heights :
       /\ \A x \in OnLevel(level) \cup {Head} : x < link[level][x]
       /\ level > 1 => OnLevel(level) \subseteq OnLevel(level - 1)

\* A search or a step that overlaps insertions misses no key that was in the
\* list when it began, and ends at a key of the list (SkipList::Iterator).
NothingMissed ==
    LET n == reader.node
        between(low, high) == {x \in reader.known : low < x /\ x < high}
        low == IF n = Null THEN Head ELSE n
    IN  /\ n # Null => n \in Contents
        /\ reader.op = "sought"  => between(reader.target - 1, n) = {}
        /\ reader.op = "found"   => reader.target < n /\ between(reader.target, n) = {}
        /\ reader.op = "stepped" => low < reader.target /\ between(low, reader.target) = {}
=============================================================================
