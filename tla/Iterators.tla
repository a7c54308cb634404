------------------------------ MODULE Iterators ------------------------------
(***************************************************************************)
(* An iterator of the database while writes go on: DBIter                  *)
(* (db/db_iter.cc) over a MergingIterator (table/merger.cc) of the live    *)
(* memtable and of a table or level whose blocks a TwoLevelIterator        *)
(* (table/two_level_iterator.cc) opens one at a time.                      *)
(*                                                                         *)
(* An entry is [key, seq, del]; its value is its sequence number.  A       *)
(* position is <<entry>>, or <<>> where the iterator is not Valid().       *)
(***************************************************************************)
EXTENDS Naturals, Sequences, FiniteSets, SequencesExt

CONSTANTS
    UserKeys,   \* user keys, a set of numbers
    Snapshot,   \* sequence number the iterator reads at
    MaxInserts  \* bound: writes while the iterator is in use

VARIABLES
    memtable,   \* entries of the memtable
    blocks,     \* the table: sequence of [entries, bound]
    merge,      \* MergingIterator: [mem, two, current, dir]
    dbiter,     \* DBIter: [valid, dir, savedKey, savedValue]
    cursor      \* the entry the iterator should be at; its history

vars == <<memtable, blocks, merge, dbiter, cursor>>

-----------------------------------------------------------------------------
(* Sorted sets of entries: a skip list, or one block.                      *)

Precedes(e, f) == e.key < f.key \/ (e.key = f.key /\ e.seq > f.seq)

Least(S) ==
    IF S = {} THEN <<>> ELSE <<CHOOSE e \in S : \A f \in S : e = f \/ Precedes(e, f)>>
Greatest(S) ==
    IF S = {} THEN <<>> ELSE <<CHOOSE e \in S : \A f \in S : e = f \/ Precedes(f, e)>>

\* Seek, Next and Prev of an iterator over one sorted set.
AtOrAfter(S, t) == Least({e \in S : ~Precedes(e, t)})
After(S, at)    == Least({e \in S : Precedes(at[1], e)})
Before(S, at)   == Greatest({e \in S : Precedes(e, at[1])})

-----------------------------------------------------------------------------
(* TwoLevelIterator: [index, at], index 0 when the index is not valid.     *)

Entries(i) == blocks[i].entries

\* SkipEmptyDataBlocksForward and ...Backward.
Forward(two) ==
    IF two.at # <<>> \/ two.index = 0 THEN two
    ELSE IF two.index = Len(blocks) THEN [index |-> 0, at |-> <<>>]
    ELSE [index |-> two.index + 1, at |-> Least(Entries(two.index + 1))]

Backward(two) ==
    IF two.at # <<>> \/ two.index = 0 THEN two
    ELSE IF two.index = 1 THEN [index |-> 0, at |-> <<>>]
    ELSE [index |-> two.index - 1, at |-> Greatest(Entries(two.index - 1))]

\* The index block has a key for each block that is not below the last entry
\* of the block and is below the first of the next (FindShortestSeparator).
TwoSeek(t) ==
    LET hits == {i \in DOMAIN blocks : ~Precedes(blocks[i].bound, t)}
    IN  IF hits = {} THEN [index |-> 0, at |-> <<>>]
        ELSE Forward([index |-> Min(hits), at |-> AtOrAfter(Entries(Min(hits)), t)])

TwoFirst == IF blocks = <<>> THEN [index |-> 0, at |-> <<>>]
            ELSE [index |-> 1, at |-> Least(Entries(1))]
TwoLast  == IF blocks = <<>> THEN [index |-> 0, at |-> <<>>]
            ELSE [index |-> Len(blocks), at |-> Greatest(Entries(Len(blocks)))]

TwoNext(two) == Forward([two EXCEPT !.at = After(Entries(two.index), @)])
TwoPrev(two) == Backward([two EXCEPT !.at = Before(Entries(two.index), @)])

-----------------------------------------------------------------------------
(* MergingIterator.                                                        *)

At(m) == CASE m.current = "mem" -> m.mem
           [] m.current = "two" -> m.two.at
           [] OTHER -> <<>>

\* FindSmallest and FindLargest.
FindSmallest(mem, two) ==
    [mem |-> mem, two |-> two, dir |-> "forward",
     current |-> CASE mem = <<>> /\ two.at = <<>> -> "none"
                   [] mem = <<>> /\ two.at # <<>> -> "two"
                   [] mem # <<>> /\ two.at = <<>> -> "mem"
                   [] OTHER -> IF Precedes(two.at[1], mem[1]) THEN "two" ELSE "mem"]

FindLargest(mem, two) ==
    [mem |-> mem, two |-> two, dir |-> "reverse",
     current |-> CASE mem = <<>> /\ two.at = <<>> -> "none"
                   [] mem = <<>> /\ two.at # <<>> -> "two"
                   [] mem # <<>> /\ two.at = <<>> -> "mem"
                   [] OTHER -> IF Precedes(two.at[1], mem[1]) THEN "mem" ELSE "two"]

MergeFirst   == FindSmallest(Least(memtable), TwoFirst)
MergeLast    == FindLargest(Greatest(memtable), TwoLast)
MergeSeek(t) == FindSmallest(AtOrAfter(memtable, t), TwoSeek(t))

\* Mutant: the other child stays where it was.
MergeNextUnturned(m) ==
    IF m.current = "mem" THEN FindSmallest(After(memtable, m.mem), m.two)
                         ELSE FindSmallest(m.mem, TwoNext(m.two))

\* A change of direction first moves the other child to its first entry
\* after, or its last entry before, the key of the current one.
MergeNext(m) ==
    LET key   == At(m)[1]
        turns == m.dir # "forward"
        mem   == IF m.current # "mem" /\ turns THEN AtOrAfter(memtable, key) ELSE m.mem
        two   == IF m.current # "two" /\ turns THEN TwoSeek(key) ELSE m.two
    IN  IF m.current = "mem" THEN FindSmallest(After(memtable, mem), two)
                             ELSE FindSmallest(mem, TwoNext(two))

MergePrev(m) ==
    LET key   == At(m)[1]
        turns == m.dir # "reverse"
        back  == LET two == TwoSeek(key) IN IF two.at # <<>> THEN TwoPrev(two) ELSE TwoLast
        memBack == LET at == AtOrAfter(memtable, key)
                   IN  IF at # <<>> THEN Before(memtable, at) ELSE Greatest(memtable)
        mem   == IF m.current # "mem" /\ turns THEN memBack ELSE m.mem
        two   == IF m.current # "two" /\ turns THEN back ELSE m.two
    IN  IF m.current = "mem" THEN FindLargest(Before(memtable, mem), two)
                             ELSE FindLargest(mem, TwoPrev(two))

-----------------------------------------------------------------------------
(* DBIter.  A result is [m, d]: the internal iterator and the fields.      *)

Ended(dir) == [valid |-> FALSE, dir |-> dir, savedKey |-> 0, savedValue |-> 0]
Found(dir, key, value) == [valid |-> TRUE, dir |-> dir, savedKey |-> key, savedValue |-> value]

\* FindNextUserEntry: skip is the key whose entries are hidden, 0 for none.
RECURSIVE FindNextUserEntry(_, _)
FindNextUserEntry(m, skip) ==
    IF At(m) = <<>> THEN [m |-> m, d |-> Ended("forward")]
    ELSE LET e == At(m)[1]
         IN  CASE e.seq <= Snapshot /\ e.del -> FindNextUserEntry(MergeNext(m), e.key)
               [] e.seq <= Snapshot /\ ~e.del /\ e.key > skip ->
                    [m |-> m, d |-> Found("forward", 0, 0)]
               [] OTHER -> FindNextUserEntry(MergeNext(m), skip)

\* FindPrevUserEntry: value is the saved entry, <<>> after a deletion.
RECURSIVE FindPrevUserEntry(_, _)
FindPrevUserEntry(m, value) ==
    LET done == IF value = <<>> THEN [m |-> m, d |-> Ended("forward")]
                ELSE [m |-> m, d |-> Found("reverse", value[1].key, value[1].seq)]
    IN  IF At(m) = <<>> THEN done
        ELSE LET e == At(m)[1]
             IN  CASE e.seq > Snapshot -> FindPrevUserEntry(MergePrev(m), value)
                   [] e.seq <= Snapshot /\ value # <<>> /\ e.key < value[1].key -> done
                   [] OTHER -> FindPrevUserEntry(MergePrev(m), IF e.del THEN <<>> ELSE <<e>>)

\* The change to reverse: back over the entries of the current key.
RECURSIVE BackBelow(_, _)
BackBelow(m, key) ==
    IF At(m) = <<>> \/ At(m)[1].key < key THEN m ELSE BackBelow(MergePrev(m), key)

\* What DBIter::key and DBIter::value return.
CurrentKey   == IF dbiter.dir = "forward" THEN At(merge)[1].key ELSE dbiter.savedKey
CurrentValue == IF dbiter.dir = "forward" THEN At(merge)[1].seq ELSE dbiter.savedValue

Becomes(r) == merge' = r.m /\ dbiter' = r.d /\ UNCHANGED <<memtable, blocks>>

\* The newest entry of each key the snapshot shows.
Visible ==
    LET all == memtable \cup UNION {Entries(i) : i \in DOMAIN blocks}
        newest(e) == \A f \in all : f.key = e.key /\ f.seq <= Snapshot => f.seq <= e.seq
    IN  {e \in all : e.seq <= Snapshot /\ ~e.del /\ newest(e)}

SeekToFirst ==
    /\ Becomes(FindNextUserEntry(MergeFirst, 0))
    /\ cursor' = Least(Visible)

SeekToLast ==
    /\ Becomes(FindPrevUserEntry(MergeLast, <<>>))
    /\ cursor' = Greatest(Visible)

Seek(k) ==
    /\ Becomes(FindNextUserEntry(MergeSeek([key |-> k, seq |-> Snapshot]), 0))
    /\ cursor' = Least({e \in Visible : e.key >= k})

\* In reverse the internal iterator is before the entries of the current key.
Next_ ==
    /\ dbiter.valid
    /\ LET turned == IF At(merge) = <<>> THEN MergeFirst ELSE MergeNext(merge)
       IN  Becomes(IF dbiter.dir = "reverse" THEN FindNextUserEntry(turned, dbiter.savedKey)
                   ELSE FindNextUserEntry(merge, CurrentKey))
    /\ cursor' = After(Visible, cursor)

Prev ==
    /\ dbiter.valid
    /\ LET turned == BackBelow(MergePrev(merge), CurrentKey)
       IN  Becomes(IF dbiter.dir = "reverse" THEN FindPrevUserEntry(merge, <<>>)
                   ELSE IF At(turned) = <<>> THEN [m |-> turned, d |-> Ended("forward")]
                   ELSE FindPrevUserEntry(turned, <<>>))
    /\ cursor' = Before(Visible, cursor)

\* A write goes into the memtable the iterator is reading.
Insert(k, del) ==
    /\ Cardinality({e \in memtable : e.seq > Snapshot}) < MaxInserts
    /\ memtable' = memtable \cup
         {[key |-> k, del |-> del,
           seq |-> 1 + Max({Snapshot} \cup {e.seq : e \in memtable})]}
    /\ UNCHANGED <<blocks, merge, dbiter, cursor>>

-----------------------------------------------------------------------------
\* The writes up to the snapshot are in the memtable or in the table, which
\* is cut into blocks; the index key of a block is its last key or a shorter
\* one before the next block.
Cut(S, cuts) ==
    LET below(i) == {e \in S : Cardinality({c \in cuts : Precedes(c, e)}) = i}
    IN  [i \in 1 .. Cardinality(cuts) + 1 |-> below(i - 1)]

Bounds(S, T) ==
    {Greatest(S)[1]}
    \cup {[key |-> k, seq |-> Snapshot + MaxInserts + 1, del |-> FALSE] :
            k \in {k \in UserKeys : k > Greatest(S)[1].key /\ \A e \in T : k < e.key}}

Init ==
    \E history \in [1 .. Snapshot -> [key : UserKeys, del : BOOLEAN]] :
    \E inTable \in SUBSET (1 .. Snapshot) :
    LET entry(s) == [key |-> history[s].key, seq |-> s, del |-> history[s].del]
        table == {entry(s) : s \in inTable}
    IN  /\ memtable = {entry(s) : s \in 1 .. Snapshot \ inTable}
        /\ IF table = {} THEN blocks = <<>>
           ELSE \E cuts \in SUBSET (table \ {Greatest(table)[1]}) :
                LET parts == Cut(table, cuts)
                    rest(i) == UNION {parts[j] : j \in i + 1 .. Len(parts)}
                IN  \E bounds \in [DOMAIN parts -> UNION {Bounds(parts[i], rest(i)) : i \in DOMAIN parts}] :
                      /\ \A i \in DOMAIN parts : bounds[i] \in Bounds(parts[i], rest(i))
                      /\ blocks = [i \in DOMAIN parts |-> [entries |-> parts[i], bound |-> bounds[i]]]
        /\ merge = [mem |-> <<>>, two |-> [index |-> 0, at |-> <<>>], current |-> "none",
                    dir |-> "forward"]
        /\ dbiter = Ended("forward")
        /\ cursor = <<>>

Next ==
    \/ SeekToFirst \/ SeekToLast \/ \E k \in UserKeys : Seek(k)
    \/ Next_ \/ Prev
    \/ \E k \in UserKeys, del \in BOOLEAN : Insert(k, del)

Spec == Init /\ [][Next]_vars

-----------------------------------------------------------------------------
\* After any sequence of moves, turns and concurrent writes the iterator is
\* at the entry the snapshot shows there, with its value, or not valid when
\* there is none (DBIter, MergingIterator, TwoLevelIterator).
IteratorAgrees ==
    /\ dbiter.valid <=> cursor # <<>>
    /\ dbiter.valid => CurrentKey = cursor[1].key /\ CurrentValue = cursor[1].seq
==============================================================================
