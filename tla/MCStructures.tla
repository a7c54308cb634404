---------------------------- MODULE MCStructures ----------------------------
(* The sequential and single-object parts of LevelDB, one after the other   *)
(* in one run: the initial state chooses the unit, whose specification then *)
(* takes all the steps.                                                     *)
EXTENDS TableCache

CONSTANTS MaxKey, MaxHeight, BlockSize, HeaderSize, Sizes, MaxRecords,
          UserKeys, Snapshot, MaxInserts

VARIABLES
  unit,
  link, maxHeight, writer, reader,
  file, frags, written, damaged, initial, logReader, got, stage,
  memtable, blocks, merge, dbiter, cursor

cacheVars == <<current, files, pinned, missed, opened, held, cache>>
skipListVars == <<link, maxHeight, writer, reader>>
logVars == <<file, frags, written, damaged, initial, logReader, got, stage>>
iteratorVars == <<memtable, blocks, merge, dbiter, cursor>>

SkipList == INSTANCE SkipList
Log == INSTANCE LogFormat WITH reader <- logReader
Iterators == INSTANCE Iterators

NoIterator ==
  /\ memtable = {} /\ blocks = <<>> /\ merge = <<>>
  /\ dbiter = [valid |-> FALSE] /\ cursor = <<>>

StructuresInit ==
  /\ Init
  /\ SkipList!Init
  /\ Log!Init
  /\ \/ unit \in {"cache", "skiplist", "log"} /\ NoIterator
     \/ unit = "iterators" /\ Iterators!Init

StructuresNext ==
  \/ /\ unit = "cache" /\ Next
     /\ UNCHANGED <<unit, skipListVars, logVars, iteratorVars>>
  \/ /\ unit = "skiplist" /\ SkipList!Next
     /\ UNCHANGED <<unit, cacheVars, logVars, iteratorVars>>
  \/ /\ unit = "log" /\ Log!Next
     /\ UNCHANGED <<unit, cacheVars, skipListVars, iteratorVars>>
  \/ /\ unit = "iterators" /\ Iterators!Next
     /\ UNCHANGED <<unit, cacheVars, skipListVars, logVars>>

StructuresSpec ==
  StructuresInit
  /\ [][StructuresNext]_<<unit, cacheVars, skipListVars, logVars, iteratorVars>>

\* Every level of a skip list stays in order (SkipList!ListOrdered).
ListOrdered == unit = "skiplist" => SkipList!ListOrdered

\* A search misses no key that was there when it began (SkipList!NothingMissed).
NothingMissed == unit = "skiplist" => SkipList!NothingMissed

\* A log gives back what was written and was not lost (Log!ReadsBack).
ReadsBack == unit = "log" => Log!ReadsBack

\* An iterator is where its snapshot says (Iterators!IteratorAgrees).
IteratorAgrees == unit = "iterators" => Iterators!IteratorAgrees
=============================================================================
