------------------------------- MODULE Levels -------------------------------
(***************************************************************************)
(* Where the entries of the database are: the memtables and the tables of  *)
(* each level (db/version_set.cc), what a flush, a compaction, a trivial   *)
(* move and a manual compaction do to them (db/db_impl.cc), and what a     *)
(* Get finds.                                                              *)
(*                                                                         *)
(* A write is named by its sequence number, so that a table is a set of    *)
(* sequence numbers; writes[s] holds the user key and the type.  The bytes *)
(* of tables are left out: what the code decides by size is a choice.      *)
(***************************************************************************)
EXTENDS Naturals, Sequences, FiniteSets, SequencesExt

CONSTANTS
    Keys,               \* user keys, a set of numbers
    NumLevels,          \* config::kNumLevels
    MaxMemCompactLevel, \* config::kMaxMemCompactLevel
    L0Trigger,          \* config::kL0_CompactionTrigger
    SplitKeys,          \* an output may be closed between entries of one key
    ManualRanges,       \* what CompactRange may be called for
    MaxSeq,             \* bound: writes
    Deletable,          \* the keys a client deletes
    MaxDeletes,         \* bound: how many of the writes are deletions
    MaxEvents           \* bound: snapshots, calls of CompactRange and restarts

ASSUME LevelsAssumption ==
    /\ Keys \subseteq Nat /\ Deletable \subseteq Keys
    /\ NumLevels \in Nat \ {0, 1} /\ MaxMemCompactLevel \in Nat
    /\ MaxMemCompactLevel < NumLevels
    /\ L0Trigger \in Nat \ {0}
    /\ SplitKeys \in BOOLEAN
    /\ \A r \in ManualRanges : r.lo \in Keys /\ r.hi \in Keys /\ r.lo <= r.hi
    /\ MaxSeq \in Nat /\ MaxDeletes \in Nat /\ MaxEvents \in Nat

VARIABLES
    writes,     \* every write so far: sequence number -> [key, del]
    mem, imm,   \* sequence numbers in mem_ and in imm_, {} if that is NULL
    files,      \* files_: level -> set of [num, seqs]
    pointer,    \* compact_pointer_: level -> sequence number, 0 if empty
    snapshots,  \* sequence numbers of the snapshots that are held
    compact,    \* <<the running compaction>>, or <<>>
    manual,     \* <<the call of CompactRange>>, or <<>>
    events      \* snapshots, calls of CompactRange and restarts so far

vars == <<writes, mem, imm, files, pointer, snapshots, compact, manual, events>>

Levels == 0 .. NumLevels - 1
last == Len(writes)

-----------------------------------------------------------------------------
(* Internal keys: user keys ascending, sequence numbers descending.        *)

Key(s) == writes[s].key

Precedes(s, t) == Key(s) < Key(t) \/ (Key(s) = Key(t) /\ s > t)

\* The members of S in the strict order op.
InOrder(S, op(_, _)) ==
    [i \in 1 .. Cardinality(S) |-> CHOOSE x \in S : Cardinality({y \in S : op(y, x)}) = i - 1]

Smallest(f) == CHOOSE s \in f.seqs : \A t \in f.seqs : t = s \/ Precedes(s, t)
Largest(f)  == CHOOSE s \in f.seqs : \A t \in f.seqs : t = s \/ Precedes(t, s)

\* BySmallestKey, the order of files_.
Before(f, g) ==
    \/ Precedes(Smallest(f), Smallest(g))
    \/ Smallest(f) = Smallest(g) /\ f.num < g.num

Sorted(fs) == InOrder(fs, Before)

\* FindFile: the first file whose largest key is not below key k at sequence
\* number s, as a set that is empty if there is none.
FindFile(fs, k, s) ==
    LET ends == {f \in fs : LET t == Largest(f)
                            IN  Key(t) > k \/ (Key(t) = k /\ t <= s)}
    IN  {f \in ends : \A g \in ends \ {f} : Before(f, g)}

\* A range of user keys, as the hull of some files (GetRange).
Hull(fs) ==
    LET ks == {Key(s) : s \in UNION {f.seqs : f \in fs}}
    IN  [lo |-> Min(ks), hi |-> Max(ks)]

Range1(f) == Hull({f})

Overlaps(r, q) == r.lo <= q.hi /\ q.lo <= r.hi

Overlapping(fs, r) == {f \in fs : Overlaps(Range1(f), r)}

\* The range r, widened by the files of fs.
Widened(r, fs) == [lo |-> Min({r.lo, Hull(fs).lo}), hi |-> Max({r.hi, Hull(fs).hi})]

\* In level 0 a file that sticks out widens the range and the search starts
\* again: what it has found after each round.
Rounds(fs, r) ==
    LET found[n \in 0 .. Cardinality(fs)] ==
            IF n = 0 THEN Overlapping(fs, r)
            ELSE IF found[n - 1] = {} THEN {}
            ELSE Overlapping(fs, Widened(r, found[n - 1]))
    IN  found

GetOverlappingInputs(level, r) ==
    IF level = 0 THEN Rounds(files[0], r)[Cardinality(files[0])]
    ELSE Overlapping(files[level], r)

OverlapInLevel(level, r) == \E f \in files[level] : Overlaps(Range1(f), r)

-----------------------------------------------------------------------------
(* DBImpl::Get and Version::Get.                                           *)

\* The newest entry of k not above s in a set of entries, 0 if there is none.
Newest(seqs, k, s) == Max({0} \cup {t \in seqs : t <= s /\ Key(t) = k})

\* What the user is given: the write, or 0 for a missing or deleted key.
Answer(t) == IF t = 0 THEN 0 ELSE IF writes[t].del THEN 0 ELSE t

\* What a level answers.  In level 0 it is the newest file that has the key,
\* below it the only file that may have it.
FromLevel(level, k, s) ==
    LET has(f) == Newest(f.seqs, k, s) # 0
        hits == IF level = 0 THEN {f \in files[0] : has(f)}
                ELSE {f \in FindFile(files[level], k, s) : Key(Smallest(f)) <= k /\ has(f)}
    IN  IF hits = {} THEN 0
        ELSE Newest((CHOOSE f \in hits : \A g \in hits : g.num <= f.num).seqs, k, s)

\* The memtables first, then the first level that has an answer.
Get(k, s) ==
    LET inMem == Newest(mem, k, s)
        inImm == Newest(imm, k, s)
        has == {level \in Levels : FromLevel(level, k, s) # 0}
    IN  Answer(IF inMem # 0 THEN inMem
               ELSE IF inImm # 0 THEN inImm
               ELSE IF has = {} THEN 0 ELSE FromLevel(Min(has), k, s))

\* The files that UpdateStats can charge until file_to_compact_ is set: the
\* first of at least two that a read of some key looks into.
SeekFiles(level) ==
    LET covering(l, k) == {f \in files[l] : Range1(f).lo <= k /\ k <= Range1(f).hi}
        reads(k) == UNION {covering(l, k) : l \in level .. NumLevels - 1}
        charged(k) == IF \E l \in 0 .. level - 1 : covering(l, k) # {} THEN {}
                      ELSE {f \in covering(level, k) :
                              /\ reads(k) # {f}
                              /\ level = 0 => \A g \in covering(0, k) : g.num <= f.num}
    IN  UNION {charged(k) : k \in Keys}

-----------------------------------------------------------------------------
(* Writing, snapshots and the flush of a memtable.                         *)

Write(k, del) ==
    /\ last < MaxSeq
    /\ del => k \in Deletable /\ Cardinality({s \in 1 .. last : writes[s].del}) < MaxDeletes
    /\ writes' = Append(writes, [key |-> k, del |-> del])
    /\ mem' = mem \cup {last + 1}
    /\ UNCHANGED <<imm, files, pointer, snapshots, compact, manual, events>>

Event == events < MaxEvents /\ events' = events + 1

GetSnapshot ==
    /\ last # 0 /\ last \notin snapshots
    /\ Event
    /\ snapshots' = snapshots \cup {last}
    /\ UNCHANGED <<writes, mem, imm, files, pointer, compact, manual>>

ReleaseSnapshot(s) ==
    /\ s \in snapshots
    /\ snapshots' = snapshots \ {s}
    /\ UNCHANGED <<writes, mem, imm, files, pointer, compact, manual, events>>

\* MakeRoomForWrite; when depends on the size of the memtable.
SwitchMemTable ==
    /\ mem # {} /\ imm = {}
    /\ imm' = mem /\ mem' = {}
    /\ UNCHANGED <<writes, files, pointer, snapshots, compact, manual, events>>

\* Mutant: the next level is not asked.
MemTableAnyLevel(r) ==
    IF OverlapInLevel(0, r) THEN {0} ELSE 0 .. MaxMemCompactLevel

\* PickLevelForMemTableOutput.  It goes down while neither this level nor the
\* next has a file in the range, and it may stop for grandparents that are
\* too large.
MemTableLevels(r) ==
    LET free(level) == ~OverlapInLevel(level, r)
        stops(level) == \/ level = MaxMemCompactLevel
                        \/ ~free(level + 1)
                        \/ level + 2 < NumLevels /\ OverlapInLevel(level + 2, r)
    IN  IF ~free(0) THEN {0}
        ELSE {level \in 0 .. MaxMemCompactLevel :
                stops(level) /\ \A l \in 0 .. level : free(l)}

\* NewFileNumber.  The numbers tell which file of level 0 is newer; below
\* level 0 nothing depends on them.
next == 1 + Max({0} \cup {f.num : f \in files[0]})

File(level, seqs) == [num |-> IF level = 0 THEN next ELSE 0, seqs |-> seqs]

\* CompactMemTable: by itself, or between two entries of a compaction.
CompactMemTable ==
    /\ imm # {}
    /\ \E level \in MemTableLevels(Range1([num |-> 0, seqs |-> imm])) :
          files' = [files EXCEPT ![level] = @ \cup {File(level, imm)}]
    /\ imm' = {}
    /\ UNCHANGED <<writes, mem, pointer, snapshots, compact, manual, events>>

-----------------------------------------------------------------------------
(* Picking a compaction.                                                   *)

\* SetupOtherInputs: the files of the next level, and more files of this one
\* if that does not bring more of the next and the total is not too large.
Inputs(level, in0) ==
    LET in1 == GetOverlappingInputs(level + 1, Hull(in0))
        all == Hull(in0 \cup in1)
        more0 == GetOverlappingInputs(level, all)
        more1 == GetOverlappingInputs(level + 1, Hull(more0))
    IN  {<<in0, in1>>}
        \cup (IF /\ in1 # {}
                 /\ Cardinality(more0) > Cardinality(in0)
                 /\ Cardinality(more1) = Cardinality(in1)
              THEN {<<more0, more1>>} ELSE {})

LargestOf(fs) ==
    CHOOSE s \in {Largest(f) : f \in fs} : \A f \in fs : s = Largest(f) \/ Precedes(Largest(f), s)

\* Mutant: it goes alone.
WithNone(level, f) == {f}

\* Everything in level 0 that overlaps the chosen file goes along.
WithOverlaps(level, f) ==
    IF level = 0 THEN GetOverlappingInputs(0, Range1(f)) ELSE {f}

\* The first file that ends after compact_pointer_, or the first one.
NextFile(level) ==
    LET fs == Sorted(files[level])
        after == {i \in DOMAIN fs : pointer[level] = 0 \/ Precedes(pointer[level], Largest(fs[i]))}
    IN  fs[IF after = {} THEN 1 ELSE Min(after)]

\* PickCompaction prefers a level that is too large: level 0 by the number of
\* its files, another by its bytes.  Otherwise it takes file_to_compact_.
PickCompaction ==
    LET full == {level \in 0 .. NumLevels - 2 :
                   IF level = 0 THEN Cardinality(files[0]) >= L0Trigger
                                ELSE files[level] # {}}
        seeks(level) == IF 0 \in full THEN {} ELSE SeekFiles(level)
    IN  {<<level, WithOverlaps(level, NextFile(level))>> : level \in full}
        \cup UNION {{<<level, WithOverlaps(level, f)>> : f \in seeks(level)} :
                      level \in 0 .. NumLevels - 2}

\* VersionSet::CompactRange: what overlaps the range, cut short by size.
ManualInputs(level, r) ==
    LET fs == SelectSeq(Sorted(files[level]),
                        LAMBDA f : f \in GetOverlappingInputs(level, r))
    IN  IF level = 0 THEN {ToSet(fs)} ELSE {ToSet(SubSeq(fs, 1, n)) : n \in 1 .. Len(fs)}

\* IsTrivialMove, which also asks that the grandparents are not too large.
MayMove(level, ins) == Cardinality(ins[1]) = 1 /\ ins[2] = {}

MustMove(level, ins) ==
    /\ MayMove(level, ins)
    /\ level + 2 < NumLevels => GetOverlappingInputs(level + 2, Hull(ins[1])) = {}

Begin(level, ins) ==
    compact' = <<[level |-> level, in0 |-> ins[1], in1 |-> ins[2], base |-> files,
                  smallest |-> IF snapshots = {} THEN last ELSE Min(snapshots),
                  was |-> pointer[level]]>>

\* BackgroundCompaction with a compaction of its own choice.
StartCompaction ==
    /\ compact = <<>> /\ imm = {}
    /\ \E p \in PickCompaction : \E ins \in Inputs(p[1], p[2]) :
          /\ ~MustMove(p[1], ins)
          /\ Begin(p[1], ins)
          /\ pointer' = [pointer EXCEPT ![p[1]] = LargestOf(ins[1])]
    /\ UNCHANGED <<writes, mem, imm, files, snapshots, manual, events>>

MoveFile ==
    /\ compact = <<>> /\ imm = {}
    /\ \E p \in PickCompaction : \E ins \in Inputs(p[1], p[2]) :
          /\ MayMove(p[1], ins)
          /\ files' = [files EXCEPT ![p[1]] = @ \ ins[1], ![p[1] + 1] = @ \cup {File(p[1] + 1, f.seqs) : f \in ins[1]}]
          /\ pointer' = [pointer EXCEPT ![p[1]] = LargestOf(ins[1])]
    /\ UNCHANGED <<writes, mem, imm, snapshots, compact, manual, events>>

\* DBImpl::CompactRange: the levels down to the last that overlaps the range,
\* after the memtable (TEST_CompactMemTable forces a switch).
CompactRange(r) ==
    /\ manual = <<>> /\ imm = {}
    /\ Event
    /\ imm' = mem /\ mem' = {}
    /\ manual' = <<[level |-> 0, range |-> r, left |-> r,
                    max |-> Max({1} \cup {level \in 1 .. NumLevels - 1 :
                                            OverlapInLevel(level, r)})]>>
    /\ UNCHANGED <<writes, files, pointer, snapshots, compact>>

\* BackgroundCompaction for TEST_CompactRange.  A part of the range may be
\* left for the next round, which begins where this one ends.
ManualCompaction ==
    /\ manual # <<>> /\ compact = <<>> /\ imm = {}
    /\ LET m == manual[1]
           rest(in0) == [m.left EXCEPT !.lo = Key(Largest(Last(Sorted(in0))))]
       IN  IF OverlapInLevel(m.level, m.left)
           THEN \E in0 \in ManualInputs(m.level, m.left) : \E ins \in Inputs(m.level, in0) :
                /\ Begin(m.level, ins)
                /\ pointer' = [pointer EXCEPT ![m.level] = LargestOf(ins[1])]
                /\ manual' = <<[m EXCEPT !.left = rest(ins[1])]>>
           ELSE /\ manual' = IF m.level + 1 < m.max
                             THEN <<[m EXCEPT !.level = @ + 1, !.left = m.range]>>
                             ELSE <<>>
                /\ UNCHANGED <<compact, pointer>>
    /\ UNCHANGED <<writes, mem, imm, files, snapshots, events>>

-----------------------------------------------------------------------------
(* What a compaction leaves, and restarts.                                 *)

\* IsBaseLevelForKey, on the version the compaction started from.
IsBaseLevelForKey(c, k) ==
    \A level \in c.level + 2 .. NumLevels - 1 :
       \A f \in FindFile(c.base[level], k, last) : Key(Smallest(f)) > k

\* Mutant: snapshots are ignored.
KeptNewest(c) ==
    LET seqs == UNION {f.seqs : f \in c.in0 \cup c.in1}
    IN  {s \in seqs : \A t \in seqs : Key(t) = Key(s) => t <= s}

\* The entries DoCompactionWork copies: rule (A) drops what a newer entry of
\* the key hides from every snapshot, the other rule a deletion marker with
\* nothing below it.
Kept(c) ==
    LET seqs == UNION {f.seqs : f \in c.in0 \cup c.in1}
        hidden(s) == \E t \in seqs : Key(t) = Key(s) /\ s < t /\ t <= c.smallest
        obsolete(s) == writes[s].del /\ s <= c.smallest /\ IsBaseLevelForKey(c, Key(s))
    IN  {s \in seqs : ~hidden(s) /\ ~obsolete(s)}

\* The output files: the entries in their order, cut where an output is large
\* enough or overlaps too much of the grandparents.
Outputs(seqs) ==
    LET order == InOrder(seqs, Precedes)
        mayCut == {i \in 1 .. Len(order) - 1 : SplitKeys \/ Key(order[i]) # Key(order[i + 1])}
        chunk(cuts, i) ==
            {order[k] : k \in {k \in DOMAIN order : {j \in cuts : j < k} = {j \in cuts : j < i}}}
    IN  {{chunk(cuts, i) : i \in DOMAIN order} : cuts \in SUBSET mayCut}

\* DoCompactionWork ends and InstallCompactionResults.
FinishCompaction ==
    /\ compact # <<>>
    /\ LET c == compact[1]
       IN  \E out \in Outputs(Kept(c)) :
             /\ files' = [files EXCEPT ![c.level] = @ \ c.in0,
                                       ![c.level + 1] = (@ \ c.in1) \cup {File(c.level + 1, seqs) : seqs \in out}]
    /\ compact' = <<>>
    /\ UNCHANGED <<writes, mem, imm, pointer, snapshots, manual, events>>

\* The process ends and DB::Open makes a table of level 0 of each log; a
\* compaction that was running, its outputs and its pointer are forgotten.
Reopen ==
    /\ Event
    /\ LET table(n, seqs) == IF seqs = {} THEN {} ELSE {[num |-> n, seqs |-> seqs]}
       IN  files' = [files EXCEPT ![0] = @ \cup table(next, imm) \cup table(next + 1, mem)]
    /\ mem' = {} /\ imm' = {} /\ snapshots' = {}
    /\ pointer' = IF compact = <<>> THEN pointer
                  ELSE [pointer EXCEPT ![compact[1].level] = compact[1].was]
    /\ compact' = <<>> /\ manual' = <<>>
    /\ UNCHANGED writes

-----------------------------------------------------------------------------
Init ==
    /\ writes = <<>> /\ mem = {} /\ imm = {}
    /\ files = [level \in Levels |-> {}]
    /\ pointer = [level \in Levels |-> 0]
    /\ snapshots = {} /\ compact = <<>> /\ manual = <<>> /\ events = 0

Next ==
    \/ \E k \in Keys, del \in BOOLEAN : Write(k, del)
    \/ GetSnapshot
    \/ \E s \in snapshots : ReleaseSnapshot(s)
    \/ SwitchMemTable \/ CompactMemTable
    \/ StartCompaction \/ MoveFile \/ FinishCompaction
    \/ \E r \in ManualRanges : CompactRange(r)
    \/ ManualCompaction
    \/ Reopen

Spec == Init /\ [][Next]_vars

-----------------------------------------------------------------------------
(* Properties.                                                             *)

\* Every read, of the present and of every snapshot that is held, is answered
\* with the newest write it may see, whatever flushes and compactions have
\* made of the tables (DBImpl::Get, Version::Get, DoCompactionWork).
ReadsAgree ==
    \A k \in Keys, s \in snapshots \cup {last} : Get(k, s) = Answer(Newest(1 .. last, k, s))

\* Below level 0 no two files of a level share a key: the assertions of
\* Builder::SaveTo and MaybeAddFile (version_set.cc:741-755, 764-767).
LevelsDisjoint ==
    \A level \in Levels \ {0} : \A f, g \in files[level] :
       f # g => Precedes(Largest(f), Smallest(g)) \/ Precedes(Largest(g), Smallest(f))

\* Entries never hop across levels: what a level holds of a key is newer
\* than what the levels below hold (the comment of Version::Get,
\* version_set.cc:346-348), and so it is within level 0 by file number.
NewerAbove ==
    LET level0 == InOrder(files[0], LAMBDA f, g : f.num > g.num)
        tiers == <<mem, imm>>
                 \o [i \in DOMAIN level0 |-> level0[i].seqs]
                 \o [level \in 1 .. NumLevels - 1 |-> UNION {f.seqs : f \in files[level]}]
    IN  \A i, j \in DOMAIN tiers : i < j =>
          \A s \in tiers[i], t \in tiers[j] : Key(s) = Key(t) => s > t
=============================================================================
