---------------------------- MODULE DBImplProofs ----------------------------
(***************************************************************************)
(* Theorems about DBImpl, for any number of calls, groups, files, crashes  *)
(* and errors.                                                             *)
(*                                                                         *)
(* The invariants are those of DBImplInvariants.  The ones about entries   *)
(* are proved without torn appends (~MayTear), as the run checks them:     *)
(* nothing behind a torn record of a log is read again, and the code goes  *)
(* on appending to that log.                                               *)
(***************************************************************************)
EXTENDS DBImplInvariants, OrderLemmas, FiniteSetTheorems, FunctionTheorems, SequenceTheorems,
        WellFoundedInduction, TLAPS

-----------------------------------------------------------------------------
(* The files a descriptor names.                                           *)

\* The recursive definition of FilesAfter has the value it describes
\* (VersionSet::Builder applied to one edit after the other).
LEMMA FilesAfterDef ==
    ASSUME NEW edits, Len(edits) \in Nat
    PROVE  FilesAfter(edits) = [i \in 0 .. Len(edits) |->
                                  IF i = 0 THEN Empty
                                  ELSE ApplyEdit(FilesAfter(edits)[i - 1], edits[i])]
<1> DEFINE S == {n \in Nat : \E g : g = [i \in 0 .. n |->
                    IF i = 0 THEN Empty ELSE ApplyEdit(g[i - 1], edits[i])]}
<1>1. 0 \in S
  <2> DEFINE g == [i \in 0 .. 0 |-> Empty]
  <2>1. g = [i \in 0 .. 0 |-> IF i = 0 THEN Empty ELSE ApplyEdit(g[i - 1], edits[i])]
    OBVIOUS
  <2> QED BY <2>1
<1>2. ASSUME NEW n \in Nat, n \in S PROVE n + 1 \in S
  <2>1. PICK g : g = [i \in 0 .. n |->
                        IF i = 0 THEN Empty ELSE ApplyEdit(g[i - 1], edits[i])]
    BY <1>2
  <2> DEFINE h == [i \in 0 .. n + 1 |-> IF i = n + 1 THEN ApplyEdit(g[n], edits[n + 1])
                                         ELSE g[i]]
  <2>2. ASSUME NEW i \in 0 .. n + 1
        PROVE  h[i] = IF i = 0 THEN Empty ELSE ApplyEdit(h[i - 1], edits[i])
    <3>1. CASE i = 0 BY <2>1, <3>1
    <3>2. CASE i = n + 1
      <4>1. i - 1 = n /\ n \in 0 .. n + 1 /\ n # n + 1 /\ n + 1 # 0
        BY <3>2
      <4>2. h[i - 1] = g[n] /\ h[i] = ApplyEdit(g[n], edits[n + 1])
        BY <3>2, <4>1
      <4> QED BY <3>2, <4>1, <4>2
    <3>3. CASE i \in 1 .. n
      <4>1. /\ i - 1 \in 0 .. n + 1 /\ i - 1 # n + 1 /\ i # n + 1 /\ i # 0
            /\ i \in 0 .. n /\ i \in 0 .. n + 1
        BY <3>3
      <4>2. h[i - 1] = g[i - 1] /\ h[i] = g[i] BY <4>1
      <4>3. g[i] = ApplyEdit(g[i - 1], edits[i]) BY <2>1, <4>1
      <4> QED BY <4>1, <4>2, <4>3
    <3> QED BY <3>1, <3>2, <3>3
  <2>3. h = [i \in 0 .. n + 1 |-> IF i = 0 THEN Empty ELSE ApplyEdit(h[i - 1], edits[i])]
    <3>1. h = [i \in 0 .. n + 1 |-> h[i]] OBVIOUS
    <3> HIDE DEF h
    <3> QED BY <2>2, <3>1
  <2>4. \E k : k = [i \in 0 .. n + 1 |->
                      IF i = 0 THEN Empty ELSE ApplyEdit(k[i - 1], edits[i])]
    <3> HIDE DEF h
    <3> QED BY <2>3
  <2> QED BY <2>4
<1>3. Len(edits) \in S
  <2> HIDE DEF S
  <2> QED BY <1>1, <1>2, SetInduction
<1>4. \E g : g = [i \in 0 .. Len(edits) |->
                    IF i = 0 THEN Empty ELSE ApplyEdit(g[i - 1], edits[i])]
  BY <1>3
<1> QED BY <1>4 DEF FilesAfter

\* Records with the same beginning lead to the same versions.
LEMMA FilesAfterPrefix ==
    ASSUME NEW e, NEW f, Len(e) \in Nat, Len(f) \in Nat,
           NEW m \in Nat, m <= Len(e), m <= Len(f),
           \A i \in 1 .. m : e[i] = f[i]
    PROVE  \A i \in 0 .. m : FilesAfter(e)[i] = FilesAfter(f)[i]
<1> DEFINE S == {n \in Nat : n <= m => FilesAfter(e)[n] = FilesAfter(f)[n]}
<1>0. \A g, i : (Len(g) \in Nat /\ i \in 0 .. Len(g))
         => FilesAfter(g)[i] = IF i = 0 THEN Empty
                               ELSE ApplyEdit(FilesAfter(g)[i - 1], g[i])
  <2> SUFFICES ASSUME NEW g, NEW i, Len(g) \in Nat, i \in 0 .. Len(g)
               PROVE  FilesAfter(g)[i] = IF i = 0 THEN Empty
                                ELSE ApplyEdit(FilesAfter(g)[i - 1], g[i])
    OBVIOUS
  <2> QED BY FilesAfterDef
<1>1. 0 \in S BY <1>0
<1>2. ASSUME NEW n \in Nat, n \in S PROVE n + 1 \in S
  <2> SUFFICES ASSUME n + 1 <= m PROVE FilesAfter(e)[n + 1] = FilesAfter(f)[n + 1]
    OBVIOUS
  <2>1. n + 1 \in 0 .. Len(e) /\ n + 1 \in 0 .. Len(f) /\ n + 1 # 0 /\ (n + 1) - 1 = n
        /\ n + 1 \in 1 .. m
    OBVIOUS
  <2>2. FilesAfter(e)[n + 1] = ApplyEdit(FilesAfter(e)[n], e[n + 1])
    BY <1>0, <2>1
  <2>3. FilesAfter(f)[n + 1] = ApplyEdit(FilesAfter(f)[n], f[n + 1])
    BY <1>0, <2>1
  <2> QED BY <1>2, <2>1, <2>2, <2>3
<1>3. \A n \in Nat : n \in S
  <2> HIDE DEF S
  <2> QED BY <1>1, <1>2, SetInduction
<1> QED BY <1>3

-----------------------------------------------------------------------------
(* Who is at work.                                                         *)

\* A predicate that holds of some writers and of the last has a first one:
\* BuildBatchGroup takes at least the leader and at most the queue.
LEMMA GroupSizeBounds ==
    ASSUME NEW q \in Seq(Calls), q # <<>>
    PROVE  /\ GroupSize(q) \in 1 .. Len(q)
           /\ \A i \in 1 .. GroupSize(q) : kind[q[i]] = "sync" => kind[q[1]] = "sync"
<1> DEFINE Joins(i) == /\ kind[q[i]] = "sync" => kind[q[1]] = "sync"
                       /\ kind[q[i]] # "force"
                          => Cardinality({j \in 1 .. i : kind[q[j]] # "force"}) <= MaxGroup
           Fits(n) == n < Len(q) => ~Joins(n + 1)
           T == {n \in 1 .. Len(q) : Fits(n)}
<1> HIDE DEF Joins
<1>1. Len(q) \in Nat \ {0} BY LenProperties, EmptySeq
<1>2. Len(q) \in T /\ T \in SUBSET Nat BY <1>1
<1>3. PICK n \in T : \A m \in T : n <= m BY <1>2, LeastElement
<1>4. ASSUME NEW i \in 2 .. n PROVE Joins(i)
  <2>1. /\ i - 1 \in 1 .. Len(q) /\ i - 1 < n /\ i - 1 < Len(q) /\ (i - 1) + 1 = i
    BY <1>1, <1>3
  <2>2. i - 1 \notin T BY <1>3, <2>1
  <2> QED BY <2>1, <2>2
<1>5. \E k \in 1 .. Len(q) : (\A i \in 2 .. k : Joins(i)) /\ (k < Len(q) => ~Joins(k + 1))
  BY <1>3, <1>4
<1>6. GroupSize(q) = CHOOSE k \in 1 .. Len(q) :
                        (\A i \in 2 .. k : Joins(i)) /\ (k < Len(q) => ~Joins(k + 1))
  BY DEF GroupSize, Joins
<1>7. GroupSize(q) \in 1 .. Len(q) /\ \A i \in 2 .. GroupSize(q) : Joins(i)
  BY <1>5, <1>6
<1>8. \A i \in 1 .. GroupSize(q) : i = 1 \/ i \in 2 .. GroupSize(q)
  BY <1>1, <1>7
<1> QED BY <1>7, <1>8 DEF Joins

\* Write's end: the group leaves the queue, and nobody is at work.
LEMMA AnswerControl ==
    ASSUME ControlTypes, LeaderWorks, writers # <<>>,
           NEW n \in 1 .. Len(writers), NEW answer \in {"ok", "error"},
           Answer(n, answer)
    PROVE  /\ phase' \in [Calls -> Phases]
           /\ kind' \in [Calls -> {"sync", "async", "force"}]
           /\ writers' \in Seq(Calls) /\ group' \in 0 .. Len(writers')
           /\ \A c \in Calls : phase'[c] \notin Working
           /\ waiting' = waiting
<1>1. writers \in Seq(Calls) /\ Len(writers) \in Nat
  BY LenProperties DEF ControlTypes
<1>2. \A i \in 1 .. Len(writers) : writers[i] \in Calls
  BY <1>1, ElementOfSeq
<1>3. writers' = SubSeq(writers, n + 1, Len(writers)) /\ group' = 0
      /\ kind' = kind /\ waiting' = waiting
      /\ phase' = [c \in Calls |-> IF \E i \in 1 .. n : writers[i] = c
                                   THEN answer ELSE phase[c]]
  BY DEF Answer
<1>4. SubSeq(writers, n + 1, Len(writers)) \in Seq(Calls)
  <2>1. \A i \in n + 1 .. Len(writers) : writers[i] \in Calls
    BY <1>1, <1>2
  <2> QED BY <1>1, <2>1, SubSeqProperties
<1>5. group' \in 0 .. Len(writers')
  <2>1. Len(writers') \in Nat BY <1>3, <1>4, LenProperties
  <2> QED BY <1>3, <2>1
<1>6. phase' \in [Calls -> Phases] BY <1>3 DEF ControlTypes, Phases
<1>7. ASSUME NEW c \in Calls PROVE phase'[c] \notin Working
  <2>1. CASE \E i \in 1 .. n : writers[i] = c BY <1>3, <2>1 DEF Working
  <2>2. CASE ~ \E i \in 1 .. n : writers[i] = c
    <3>1. writers[1] # c BY <1>1, <2>2
    <3> QED BY <1>3, <2>2, <3>1 DEF LeaderWorks
  <2> QED BY <2>1, <2>2
<1> QED BY <1>3, <1>4, <1>5, <1>6, <1>7 DEF ControlTypes

\* A call of Write joins the queue and disturbs nobody at work.
LEMMA WriteControl ==
    ASSUME DBImplAssumption, ControlInv, NEW c \in Calls, Write(c)
    PROVE  ControlInv'
<1>1. /\ pc = "up" /\ ~closing /\ phase[c] = "idle"
      /\ phase' = [phase EXCEPT ![c] = "queued"]
      /\ writers' = Append(writers, c)
      /\ UNCHANGED <<pc, group, waiting, imm, pending, scheduled, flush, compact, bgError,
                     closing, pinned>>
  BY DEF Write, bg, memory
<1>2. kind' \in [Calls -> {"sync", "async", "force"}]
  BY DEF Write, ControlInv, ControlTypes, DBImplAssumption
<1>3. /\ writers \in Seq(Calls) /\ Len(writers) \in Nat /\ writers' \in Seq(Calls)
      /\ Len(writers') = Len(writers) + 1
      /\ writers # <<>> => writers'[1] = writers[1] /\ writers' # <<>>
  BY <1>1, AppendProperties, LenProperties, EmptySeq DEF ControlInv, ControlTypes
<1>4. ControlTypes'
  <2>1. phase' \in [Calls -> Phases]
    BY <1>1 DEF ControlInv, ControlTypes, Phases
  <2>2. group' \in 0 .. Len(writers')
    BY <1>1, <1>3 DEF ControlInv, ControlTypes
  <2>3. UNCHANGED <<pc, waiting, scheduled, bgError, closing>> BY <1>1
  <2> QED BY <1>2, <1>3, <2>1, <2>2, <2>3 DEF ControlInv, ControlTypes
<1>5. LeaderWorks'
  <2> SUFFICES ASSUME NEW d \in Calls, phase'[d] \in Working
               PROVE  writers' # <<>> /\ writers'[1] = d /\ group' # 0
    BY DEF LeaderWorks
  <2>1. phase[d] \in Working
    BY <1>1 DEF ControlInv, ControlTypes, Working
  <2> QED BY <1>1, <1>3, <2>1 DEF ControlInv, LeaderWorks
<1> QED BY <1>1, <1>4, <1>5 DEF ControlInv, QuietUnlessUp, NobodyWhenClosing, OneJob

\* Leader: the head of the queue of a running database.
LEMMA LeaderIs ==
    ASSUME ControlInv, NEW c \in Calls, Leader(c)
    PROVE  /\ pc = "up" /\ writers # <<>> /\ ~closing /\ phase[c] = "queued"
           /\ 1 \in 1 .. Len(writers)
           /\ \A d \in Calls : phase[d] \notin Working
<1>1. writers # <<>> /\ writers[1] = c /\ phase[c] = "queued"
  BY DEF Leader
<1>2. Len(writers) \in Nat /\ Len(writers) # 0
  BY <1>1, LenProperties, EmptySeq DEF ControlInv, ControlTypes
<1>3. \A d \in Calls : phase[d] \notin Working
  BY <1>1 DEF ControlInv, LeaderWorks, Working
<1> QED BY <1>1, <1>2, <1>3 DEF ControlInv, QuietUnlessUp, NobodyWhenClosing

\* The leader that is at work.
LEMMA WorkerIs ==
    ASSUME ControlInv, NEW c \in Calls, phase[c] \in Working
    PROVE  /\ pc = "up" /\ writers # <<>> /\ writers[1] = c /\ ~closing
           /\ group \in 1 .. Len(writers) /\ Len(writers) \in Nat
<1>1. writers # <<>> /\ writers[1] = c /\ group # 0
  BY DEF ControlInv, LeaderWorks
<1>2. Len(writers) \in Nat /\ group \in 0 .. Len(writers)
  BY LenProperties DEF ControlInv, ControlTypes
<1> QED BY <1>1, <1>2 DEF ControlInv, QuietUnlessUp, NobodyWhenClosing

\* What a step that leaves the queue of writers alone has to show.
LEMMA QueueSame ==
    ASSUME ControlInv, UNCHANGED <<writers, group, kind, phase>>
    PROVE  /\ phase' \in [Calls -> Phases] /\ kind' \in [Calls -> {"sync", "async", "force"}]
           /\ writers' \in Seq(Calls) /\ group' \in 0 .. Len(writers')
           /\ LeaderWorks'
  BY DEF ControlInv, ControlTypes, LeaderWorks

\* What a step of the leader that only moves on has to show.
LEMMA WorkerMoves ==
    ASSUME ControlInv, NEW c \in Calls, phase[c] \in Working, NEW p \in Working,
           phase' = [phase EXCEPT ![c] = p],
           UNCHANGED <<pc, writers, group, waiting, kind, imm, pending, scheduled, flush,
                       compact, bgError, closing, pinned>>
    PROVE  ControlInv'
<1>1. phase' \in [Calls -> Phases]
  BY DEF ControlInv, ControlTypes, Phases, Working
<1>2. ControlTypes' BY <1>1 DEF ControlInv, ControlTypes
<1>3. LeaderWorks'
  <2> SUFFICES ASSUME NEW d \in Calls, phase'[d] \in Working
               PROVE  writers # <<>> /\ writers[1] = d /\ group # 0
    BY DEF LeaderWorks
  <2>1. phase[d] \in Working BY DEF ControlInv, ControlTypes
  <2> QED BY <2>1 DEF ControlInv, LeaderWorks
<1> QED BY <1>2, <1>3 DEF ControlInv, QuietUnlessUp, NobodyWhenClosing, OneJob

\* MakeRoomForWrite has made room: the group is fixed, or the forced switch
\* is answered.
LEMMA ProceedControl ==
    ASSUME ControlInv, NEW c \in Calls, Leader(c), Proceed(c)
    PROVE  /\ phase' \in [Calls -> Phases] /\ kind' \in [Calls -> {"sync", "async", "force"}]
           /\ writers' \in Seq(Calls) /\ group' \in 0 .. Len(writers')
           /\ LeaderWorks' /\ waiting' = waiting
<1>1. writers # <<>> /\ writers[1] = c /\ 1 \in 1 .. Len(writers)
      /\ \A d \in Calls : phase[d] \notin Working
  BY LeaderIs DEF Leader
<1>2. CASE kind[c] = "force"
  <2>1. Answer(1, "ok") BY <1>2 DEF Proceed
  <2> QED BY <1>1, <2>1, AnswerControl DEF ControlInv, LeaderWorks
<1>3. CASE kind[c] # "force"
  <2>1. /\ group' = GroupSize(writers) /\ phase' = [phase EXCEPT ![c] = "append"]
        /\ UNCHANGED <<writers, waiting, kind>>
    BY <1>3 DEF Proceed
  <2>2. writers \in Seq(Calls) /\ Len(writers) \in Nat
    BY LenProperties DEF ControlInv, ControlTypes
  <2>3. group' \in 1 .. Len(writers)
    BY <1>1, <2>1, <2>2, GroupSizeBounds
  <2>4. phase' \in [Calls -> Phases]
    BY <2>1 DEF ControlInv, ControlTypes, Phases
  <2>5. LeaderWorks'
    <3> SUFFICES ASSUME NEW d \in Calls, phase'[d] \in Working PROVE d = c
      BY <1>1, <2>1, <2>2, <2>3 DEF LeaderWorks
    <3> QED BY <1>1, <2>1 DEF ControlInv, ControlTypes
  <2>6. group' \in 0 .. Len(writers') BY <2>1, <2>2, <2>3
  <2> QED BY <2>1, <2>2, <2>4, <2>5, <2>6 DEF ControlInv, ControlTypes
<1> QED BY <1>2, <1>3

\* Every step of a leader, from MakeRoomForWrite to its answer, keeps the head of
\* the queue the only one at work.
LEMMA LeaderControl ==
    ASSUME ControlInv, NEW c \in Calls, LeaderStep(c)
    PROVE  ControlInv'
<1>1. CASE WriteRejected(c)
  <2>1. /\ Leader(c) /\ Answer(1, "error")
        /\ UNCHANGED <<pc, imm, pending, scheduled, flush, compact, bgError, closing, pinned>>
    BY <1>1 DEF WriteRejected, memory, bg
  <2>2. pc = "up" /\ ~closing BY <2>1, LeaderIs
  <2>3. /\ phase' \in [Calls -> Phases] /\ kind' \in [Calls -> {"sync", "async", "force"}]
        /\ writers' \in Seq(Calls) /\ group' \in 0 .. Len(writers') /\ waiting' = waiting
        /\ LeaderWorks'
    BY <2>1, LeaderIs, AnswerControl DEF ControlInv, LeaderWorks
  <2>4. ControlTypes' BY <2>1, <2>3 DEF ControlInv, ControlTypes
  <2> QED BY <2>1, <2>2, <2>3, <2>4 DEF ControlInv, QuietUnlessUp, NobodyWhenClosing, OneJob
<1>2. CASE WriteHasRoom(c)
  <2>1. /\ Leader(c) /\ Proceed(c)
        /\ UNCHANGED <<pc, imm, pending, scheduled, flush, compact, bgError, closing, pinned>>
    BY <1>2 DEF WriteHasRoom, memory, bg
  <2>2. pc = "up" /\ ~closing BY <2>1, LeaderIs
  <2>3. ControlTypes' /\ LeaderWorks' /\ waiting' = waiting
    BY <2>1, ProceedControl DEF ControlInv, ControlTypes
  <2> QED BY <2>1, <2>2, <2>3 DEF ControlInv, QuietUnlessUp, NobodyWhenClosing, OneJob
<1>3. CASE WriteWaits(c)
  <2>1. /\ Leader(c) /\ waiting' = TRUE
        /\ UNCHANGED <<pc, writers, group, phase, kind, imm, pending, scheduled, flush, compact,
                       bgError, closing, pinned>>
    BY <1>3 DEF WriteWaits, NeedsSwitch, memory, bg
  <2>2. pc = "up" /\ ~closing BY <2>1, LeaderIs
  <2>3. ControlTypes' /\ LeaderWorks'
    BY <2>1, QueueSame DEF ControlInv, ControlTypes
  <2> QED BY <2>1, <2>2, <2>3 DEF ControlInv, QuietUnlessUp, NobodyWhenClosing, OneJob
<1>4. CASE SwitchMemTable(c)
  <2>1. /\ Leader(c) /\ Proceed(c) /\ imm = NoMem /\ imm' = <<mem>>
        /\ scheduled' = (scheduled \/ Work(imm', version, FALSE))
        /\ UNCHANGED <<pc, pending, flush, compact, bgError, closing, pinned>>
    BY <1>4 DEF SwitchMemTable, MaySwitch, MustWait, NeedsSwitch, MaybeScheduleCompaction
  <2>2. pc = "up" /\ ~closing BY <2>1, LeaderIs
  <2>3. scheduled' \in BOOLEAN BY <2>1
  <2>4. ControlTypes' /\ LeaderWorks' /\ waiting' = waiting
    BY <2>1, <2>3, ProceedControl DEF ControlInv, ControlTypes
  <2>5. OneJob'
    <3>1. flush = NoFlush BY <2>1 DEF ControlInv, OneJob
    <3>2. scheduled => scheduled' BY <2>1
    <3> QED BY <2>1, <3>1, <3>2 DEF ControlInv, OneJob
  <2> QED BY <2>1, <2>2, <2>4, <2>5 DEF ControlInv, QuietUnlessUp, NobodyWhenClosing
<1>5. CASE SwitchFailed(c)
  <2>1. /\ Leader(c) /\ Answer(1, "error")
        /\ UNCHANGED <<pc, imm, pending, scheduled, flush, compact, bgError, closing, pinned>>
    BY <1>5 DEF SwitchFailed, MaySwitch, NeedsSwitch, memory, bg
  <2>2. pc = "up" /\ ~closing BY <2>1, LeaderIs
  <2>3. /\ phase' \in [Calls -> Phases] /\ kind' \in [Calls -> {"sync", "async", "force"}]
        /\ writers' \in Seq(Calls) /\ group' \in 0 .. Len(writers') /\ waiting' = waiting
        /\ LeaderWorks'
    BY <2>1, LeaderIs, AnswerControl DEF ControlInv, LeaderWorks
  <2>4. ControlTypes' BY <2>1, <2>3 DEF ControlInv, ControlTypes
  <2> QED BY <2>1, <2>2, <2>3, <2>4 DEF ControlInv, QuietUnlessUp, NobodyWhenClosing, OneJob
<1>6. CASE AppendLog(c) \/ AppendFailed(c) \/ SyncLog(c) \/ SyncFailed(c)
  <2>1. phase[c] \in Working
    BY <1>6 DEF AppendLog, AppendFailed, SyncLog, SyncFailed, Working
  <2>2. UNCHANGED <<pc, writers, group, waiting, kind, imm, pending, scheduled, flush,
                    compact, bgError, closing, pinned>>
    BY <1>6 DEF AppendLog, AppendFailed, SyncLog, SyncFailed, memory, bg
  <2>3. \E p \in Working : phase' = [phase EXCEPT ![c] = p]
    BY <1>6 DEF AppendLog, AppendFailed, SyncLog, SyncFailed, Working
  <2> QED BY <2>1, <2>2, <2>3, WorkerMoves
<1>7. CASE FinishWrite(c)
  <2>1. /\ phase[c] \in Working
        /\ Answer(group, IF phase[c] = "insert" THEN "ok" ELSE "error")
        /\ bgError' = (bgError \/ phase[c] = "syncfailed")
        /\ UNCHANGED <<pc, imm, pending, scheduled, flush, compact, closing, pinned>>
    BY <1>7 DEF FinishWrite, Working, bg
  <2>2. pc = "up" /\ ~closing /\ writers # <<>> /\ group \in 1 .. Len(writers)
    BY <2>1, WorkerIs
  <2>3. /\ phase' \in [Calls -> Phases] /\ kind' \in [Calls -> {"sync", "async", "force"}]
        /\ writers' \in Seq(Calls) /\ group' \in 0 .. Len(writers') /\ waiting' = waiting
        /\ LeaderWorks'
    BY <2>1, <2>2, AnswerControl DEF ControlInv, LeaderWorks
  <2>4. bgError' \in BOOLEAN BY <2>1
  <2>5. ControlTypes' BY <2>1, <2>3, <2>4 DEF ControlInv, ControlTypes
  <2> QED BY <2>1, <2>2, <2>3, <2>5 DEF ControlInv, QuietUnlessUp, NobodyWhenClosing, OneJob
<1> QED BY <1>1, <1>2, <1>3, <1>4, <1>5, <1>6, <1>7 DEF LeaderStep

\* What a step of the background thread has to show, which leaves the queue
\* alone or wakes the leader (bg_cv_.SignalAll).
LEMMA BackgroundKeeps ==
    ASSUME ControlInv, pc = "up", UNCHANGED <<pc, writers, group, kind, phase, closing>>,
           waiting' \in BOOLEAN, scheduled' \in BOOLEAN, bgError' \in BOOLEAN, OneJob'
    PROVE  ControlInv'
<1>1. ControlTypes' /\ LeaderWorks'
  BY QueueSame DEF ControlInv, ControlTypes
<1> QED BY <1>1 DEF ControlInv, QuietUnlessUp, NobodyWhenClosing

\* No job at all has the shape of one.
LEMMA NoJobs ==
    /\ NoFlush = [num |-> NoFlush.num, phase |-> NoFlush.phase] /\ NoFlush.phase = "none"
    /\ NoCompact = [num |-> NoCompact.num, inputs |-> NoCompact.inputs,
                    held |-> NoCompact.held, phase |-> NoCompact.phase]
    /\ NoCompact.phase = "none"
  BY DEF NoFlush, NoCompact

\* Every step of BackgroundCall keeps the thread within its job.
LEMMA BackgroundControl ==
    ASSUME ControlInv, BackgroundStep
    PROVE  ControlInv'
<1>0. /\ waiting \in BOOLEAN /\ scheduled \in BOOLEAN /\ bgError \in BOOLEAN
      /\ \A v, w, e : Work(v, w, e) \in BOOLEAN
  BY DEF ControlInv, ControlTypes, Work
<1>a. ASSUME NEW v, NEW w, NEW e, BackgroundDone(v, w, e)
      PROVE  /\ UNCHANGED <<writers, group, phase, kind>>
             /\ waiting' \in BOOLEAN /\ scheduled' \in BOOLEAN
  BY <1>0, <1>a DEF BackgroundDone, SignalAll
<1>b. ASSUME flush # NoFlush \/ compact # NoCompact \/ scheduled PROVE pc = "up"
  BY <1>b DEF ControlInv, QuietUnlessUp
<1>c. /\ flush.phase \in {"build", "log"} => flush # NoFlush /\ pc = "up"
      /\ compact.phase \in {"merge", "move", "log"} => compact # NoCompact /\ pc = "up"
      /\ flush # NoFlush => compact.phase \in {"none", "merge"} /\ imm # NoMem
  BY <1>b, NoJobs DEF ControlInv, OneJob
<1>1. CASE BackgroundNothing
  <2>1. /\ BackgroundDone(imm, version, bgError) /\ pc = "up" /\ Idle
        /\ UNCHANGED <<pc, imm, flush, compact, bgError, closing>>
    BY <1>1 DEF BackgroundNothing, memory
  <2>2. OneJob' BY <2>1, NoJobs DEF ControlInv, OneJob, Idle
  <2> QED BY <1>0, <1>a, <2>1, <2>2, BackgroundKeeps
<1>2. CASE StartFlush
  <2>1. /\ pc = "up" /\ scheduled /\ imm # NoMem
        /\ compact = NoCompact \/ compact.phase = "merge"
        /\ flush' = [num |-> next, phase |-> "build"]
        /\ UNCHANGED <<pc, writers, group, waiting, kind, phase, imm, scheduled, compact,
                       bgError, closing>>
    BY <1>2 DEF StartFlush, queue, memory
  <2>a. flush'.phase = "build" /\ flush' = [num |-> flush'.num, phase |-> flush'.phase]
    BY <2>1
  <2>2. OneJob' BY <1>c, <2>1, <2>a, NoJobs DEF ControlInv, OneJob
  <2> QED BY <1>0, <2>1, <2>2, BackgroundKeeps
<1>3. CASE FlushBuilt
  <2>1. /\ flush.phase = "build" /\ flush' = [flush EXCEPT !.phase = "log"]
        /\ UNCHANGED <<pc, writers, group, waiting, kind, phase, imm, scheduled, compact,
                       bgError, closing>>
    BY <1>3 DEF FlushBuilt, queue, memory
  <2>2. pc = "up" /\ flush # NoFlush BY <1>c, <2>1
  <2>3. flush' = NoFlush \/ flush'.phase \in {"build", "log"}
    <3>1. flush = [num |-> flush.num, phase |-> flush.phase]
      BY DEF ControlInv, OneJob
    <3>2. flush' = [num |-> flush.num, phase |-> "log"] BY <2>1, <3>1
    <3>3. flush'.phase = "log" BY <3>2
    <3> QED BY <3>3
  <2>4. OneJob' BY <1>c, <2>1, <2>2, <2>3 DEF ControlInv, OneJob
  <2> QED BY <1>0, <2>1, <2>2, <2>4, BackgroundKeeps
<1>4. ASSUME NEW v, NEW w, NEW e, FlushEnds(v, w, e), flush # NoFlush,
             UNCHANGED <<pc, compact, closing>>, bgError' \in BOOLEAN
      PROVE  ControlInv'
  <2>1. /\ UNCHANGED <<writers, group, phase, kind>>
        /\ waiting' \in BOOLEAN /\ scheduled' \in BOOLEAN
        /\ flush' = NoFlush
    BY <1>0, <1>4, <1>a DEF FlushEnds, SignalAll
  <2>a. compact # NoCompact => scheduled'
    BY <1>4 DEF FlushEnds, ControlInv, OneJob
  <2>2. OneJob' BY <1>4, <2>1, <2>a, NoJobs DEF ControlInv, OneJob
  <2> QED BY <1>4, <1>b, <2>1, <2>2, BackgroundKeeps
<1>5. CASE FlushInstalled
  <2>1. /\ flush.phase = "log" /\ FlushEnds(NoMem, version', bgError)
        /\ UNCHANGED <<pc, compact, bgError, closing>>
    BY <1>5 DEF FlushInstalled
  <2> QED BY <1>0, <1>4, <1>c, <2>1
<1>6. CASE FlushFailed
  <2>1. /\ flush.phase \in {"build", "log"} /\ FlushEnds(imm, version, TRUE)
        /\ bgError' = TRUE
        /\ UNCHANGED <<pc, compact, closing>>
    BY <1>6 DEF FlushFailed
  <2> QED BY <1>4, <1>c, <2>1
<1>7. CASE StartMove \/ StartCompaction
  <2>1. /\ pc = "up" /\ scheduled /\ flush = NoFlush
        /\ compact'.phase \in {"merge", "move"}
        /\ compact' = [num |-> compact'.num, inputs |-> compact'.inputs,
                       held |-> compact'.held, phase |-> compact'.phase]
        /\ UNCHANGED <<pc, writers, group, waiting, kind, phase, imm, scheduled, flush,
                       bgError, closing>>
    <3>1. CASE StartMove
      BY <3>1 DEF StartMove, MayCompact, Idle, queue, memory
    <3>2. CASE StartCompaction
      BY <3>2 DEF StartCompaction, MayCompact, Idle, queue, memory
    <3> QED BY <1>7, <3>1, <3>2
  <2>2. OneJob' BY <2>1 DEF ControlInv, OneJob
  <2> QED BY <1>0, <2>1, <2>2, BackgroundKeeps
<1>8. CASE CompactionBuilt
  <2>1. /\ compact.phase = "merge" /\ flush = NoFlush
        /\ compact' = [compact EXCEPT !.phase = "log"]
        /\ UNCHANGED <<pc, writers, group, waiting, kind, phase, imm, scheduled, flush,
                       bgError, closing>>
    BY <1>8 DEF CompactionBuilt, queue, memory
  <2>2. compact # NoCompact /\ pc = "up" BY <1>c, <2>1
  <2>3. /\ compact'.phase = "log"
        /\ compact' = [num |-> compact'.num, inputs |-> compact'.inputs,
                       held |-> compact'.held, phase |-> compact'.phase]
    <3>1. compact = [num |-> compact.num, inputs |-> compact.inputs, held |-> compact.held,
                     phase |-> compact.phase]
      BY DEF ControlInv, OneJob
    <3>2. compact' = [num |-> compact.num, inputs |-> compact.inputs, held |-> compact.held,
                      phase |-> "log"]
      BY <2>1, <3>1
    <3> QED BY <3>2
  <2>4. OneJob' BY <2>1, <2>2, <2>3 DEF ControlInv, OneJob
  <2> QED BY <1>0, <2>1, <2>2, <2>4, BackgroundKeeps
<1>10. CASE CompactionInstalled \/ CompactionFailed
  <2>1. /\ compact.phase \in {"merge", "move", "log"} /\ compact' = NoCompact
        /\ flush' = flush /\ bgError' \in BOOLEAN
        /\ \E v, w, e : BackgroundDone(v, w, e)
        /\ UNCHANGED <<pc, closing>>
    <3>1. CASE CompactionInstalled BY <1>0, <3>1 DEF CompactionInstalled
    <3>2. CASE CompactionFailed BY <3>2 DEF CompactionFailed
    <3> QED BY <1>10, <3>1, <3>2
  <2>2. flush = NoFlush
    <3>1. CASE CompactionInstalled BY <1>c, <3>1 DEF CompactionInstalled
    <3>2. CASE CompactionFailed BY <3>2 DEF CompactionFailed
    <3> QED BY <1>10, <3>1, <3>2
  <2>3. OneJob' BY <2>1, <2>2, NoJobs DEF ControlInv, OneJob
  <2> QED BY <1>a, <1>c, <2>1, <2>3, BackgroundKeeps
<1> QED BY <1>1, <1>2, <1>3, <1>5, <1>6, <1>7, <1>8, <1>10 DEF BackgroundStep

\* What the process forgets leaves nobody at work.
LEMMA ForgetControl ==
    ASSUME ControlInv, Forget, phase' \in [Calls -> Phases],
           \A c \in Calls : phase'[c] \notin Working
    PROVE  ControlInv'
<1>1. /\ pc' = "down" /\ writers' = <<>> /\ group' = 0 /\ waiting' = FALSE
      /\ imm' = NoMem /\ pending' = {} /\ scheduled' = FALSE /\ flush' = NoFlush
      /\ compact' = NoCompact /\ bgError' = FALSE /\ closing' = FALSE /\ pinned' = {}
      /\ kind' = kind
  BY DEF Forget
<1>2. <<>> \in Seq(Calls) /\ Len(<<>>) = 0 BY EmptySeq
<1>3. ControlTypes'
  <2>1. group' \in 0 .. Len(writers') BY <1>1, <1>2
  <2>2. writers' \in Seq(Calls) /\ pc' \in {"down"} BY <1>1, <1>2
  <2> QED BY <1>1, <2>1, <2>2 DEF ControlInv, ControlTypes
<1>4. LeaderWorks' BY DEF LeaderWorks
<1>5. OneJob' BY <1>1, NoJobs DEF OneJob
<1> QED BY <1>1, <1>3, <1>4, <1>5 DEF ControlInv, QuietUnlessUp, NobodyWhenClosing

\* Until DB::Open returns nobody is at work.
LEMMA OpenControl ==
    ASSUME ControlInv, OpenStep
    PROVE  ControlInv'
<1>1. pc # "up"
  BY DEF OpenStep, NewDB, Recover, RecoverLogFile, OpenWritesManifest, OpenSetsCurrent,
         OpenReturns, OpenFails
<1>2. /\ writers = <<>> /\ ~waiting /\ imm = NoMem /\ pending = {} /\ ~scheduled
      /\ flush = NoFlush /\ compact = NoCompact /\ ~bgError /\ ~closing /\ pinned = {}
      /\ scheduled \in BOOLEAN
  BY <1>1 DEF ControlInv, ControlTypes, QuietUnlessUp
<1>3. ASSUME UNCHANGED <<writers, group, waiting, phase, kind, imm, pending, flush, compact,
                         bgError, closing, pinned>>,
             pc' \in {"recover", "logs", "manifest", "current", "up", "corrupt"},
             scheduled' \in BOOLEAN, pc' # "up" => ~scheduled'
      PROVE  ControlInv'
  <2>1. ControlTypes' /\ LeaderWorks'
    BY <1>3, QueueSame DEF ControlInv, ControlTypes
  <2>2. OneJob' BY <1>2, <1>3 DEF ControlInv, OneJob
  <2> QED BY <1>2, <1>3, <2>1, <2>2 DEF ControlInv, QuietUnlessUp, NobodyWhenClosing
<1>4. CASE NewDB
  <2>1. /\ UNCHANGED <<writers, group, waiting, phase, kind, imm, pending, scheduled, flush,
                       compact, bgError, closing, pinned>>
        /\ pc' \in {"recover", "logs", "manifest", "current", "up", "corrupt"}
    BY <1>4 DEF NewDB, queue, memory, bg
  <2> QED BY <1>2, <1>3, <2>1
<1>5. CASE Recover
  <2>1. /\ UNCHANGED <<writers, group, waiting, phase, kind, imm, pending, scheduled, flush,
                       compact, bgError, closing, pinned>>
        /\ pc' \in {"recover", "logs", "manifest", "current", "up", "corrupt"}
    BY <1>5 DEF Recover, queue, memory, bg
  <2> QED BY <1>2, <1>3, <2>1
<1>6. CASE RecoverLogFile
  <2>1. /\ UNCHANGED <<writers, group, waiting, phase, kind, imm, pending, scheduled, flush,
                       compact, bgError, closing, pinned>>
        /\ pc' \in {"recover", "logs", "manifest", "current", "up", "corrupt"}
    BY <1>6 DEF RecoverLogFile, queue, memory, bg
  <2> QED BY <1>2, <1>3, <2>1
<1>7. CASE OpenWritesManifest
  <2>1. /\ UNCHANGED <<writers, group, waiting, phase, kind, imm, pending, scheduled, flush,
                       compact, bgError, closing, pinned>>
        /\ pc' \in {"recover", "logs", "manifest", "current", "up", "corrupt"}
    BY <1>7 DEF OpenWritesManifest, queue, bg
  <2> QED BY <1>2, <1>3, <2>1
<1>8. CASE OpenSetsCurrent
  <2>1. /\ UNCHANGED <<writers, group, waiting, phase, kind, imm, pending, scheduled, flush,
                       compact, bgError, closing, pinned>>
        /\ pc' \in {"recover", "logs", "manifest", "current", "up", "corrupt"}
    BY <1>8 DEF OpenSetsCurrent, queue, memory, bg
  <2> QED BY <1>2, <1>3, <2>1
<1>9. CASE OpenReturns
  <2>1. /\ UNCHANGED <<writers, group, waiting, phase, kind, imm, pending, flush, compact,
                       bgError, closing, pinned>>
        /\ pc' = "up" /\ scheduled' = (scheduled \/ Work(NoMem, version', FALSE))
    BY <1>9 DEF OpenReturns, MaybeScheduleCompaction, queue, memory
  <2>2. scheduled' \in BOOLEAN BY <2>1
  <2> QED BY <1>3, <2>1, <2>2
<1>10. CASE OpenFails
  <2>1. Forget /\ phase' = phase BY <1>10 DEF OpenFails
  <2>2. phase \in [Calls -> Phases] /\ \A c \in Calls : phase[c] \notin Working
    BY <1>2 DEF ControlInv, ControlTypes, LeaderWorks
  <2> QED BY <2>1, <2>2, ForgetControl
<1> QED BY <1>4, <1>5, <1>6, <1>7, <1>8, <1>9, <1>10 DEF OpenStep

\* A close or a crash leaves nobody at work.
LEMMA CrashControl ==
    ASSUME ControlInv, Closed \/ ProcessCrash \/ MachineCrashes
    PROVE  ControlInv'
<1>1. phase \in [Calls -> Phases] BY DEF ControlInv, ControlTypes
<1>2. CASE Closed
  <2>1. Forget /\ phase' = phase /\ closing BY <1>2 DEF Closed
  <2>2. \A c \in Calls : phase[c] \notin Working
    BY <2>1 DEF ControlInv, NobodyWhenClosing, LeaderWorks
  <2> QED BY <1>1, <2>1, <2>2, ForgetControl
<1>3. CASE ProcessCrash
  <2>1. Forget /\ phase' = [c \in Calls |-> IF phase[c] \in {"idle", "ok", "error", "lost"}
                                            THEN phase[c] ELSE "lost"]
    BY <1>3 DEF ProcessCrash
  <2>2. phase' \in [Calls -> Phases] /\ \A c \in Calls : phase'[c] \notin Working
    BY <2>1 DEF Phases, Working
  <2> QED BY <2>1, <2>2, ForgetControl
<1>4. CASE MachineCrashes
  <2>1. Forget /\ phase' \in [Calls -> {"idle", "error", "lost", "ok"}]
    BY <1>4 DEF MachineCrashes, CrashCalls
  <2>2. phase' \in [Calls -> Phases] /\ \A d \in Calls : phase'[d] \notin Working
    BY <2>1 DEF Phases, Working
  <2> QED BY <2>1, <2>2, ForgetControl
<1> QED BY <1>2, <1>3, <1>4

\* Nobody is at work at the start.
LEMMA ControlInit == DBImplAssumption /\ Init => ControlInv
<1> SUFFICES ASSUME Init PROVE ControlInv OBVIOUS
<1>1. <<>> \in Seq(Calls) /\ Len(<<>>) = 0 BY EmptySeq
<1>2. ControlTypes
  <2>1. group \in 0 .. Len(writers) /\ writers \in Seq(Calls)
    BY <1>1 DEF Init
  <2>2. phase \in [Calls -> Phases] /\ kind \in [Calls -> {"sync", "async", "force"}]
    BY DEF Init, Phases
  <2> QED BY <2>1, <2>2 DEF Init, ControlTypes
<1> QED BY <1>2, NoJobs DEF Init, ControlInv, QuietUnlessUp, LeaderWorks, NobodyWhenClosing, OneJob,
                    Working

\* Every step keeps ControlInv.
LEMMA ControlStep == ControlInv /\ [Next]_vars => ControlInv'
<1> SUFFICES ASSUME ControlInv, [Next]_vars PROVE ControlInv' OBVIOUS
<1>1. CASE Pin \/ Unpin \/ Close
  <2>1. /\ pc = "up" /\ closing' \in BOOLEAN /\ (closing' => writers = <<>>)
        /\ UNCHANGED <<pc, writers, group, waiting, phase, kind, imm, pending, scheduled,
                       flush, compact, bgError>>
    <3>1. CASE Pin
      BY <3>1 DEF Pin, queue, memory, bg, ControlInv, ControlTypes, NobodyWhenClosing
    <3>2. CASE Unpin
      BY <3>2 DEF Unpin, queue, memory, bg, ControlInv, ControlTypes, QuietUnlessUp,
                  NobodyWhenClosing
    <3>3. CASE Close BY <3>3 DEF Close, queue, memory, bg
    <3> QED BY <1>1, <3>1, <3>2, <3>3
  <2>2. ControlTypes' /\ LeaderWorks'
    BY <2>1, QueueSame DEF ControlInv, ControlTypes
  <2> QED BY <2>1, <2>2 DEF ControlInv, QuietUnlessUp, NobodyWhenClosing, OneJob
<1>2. CASE UNCHANGED vars
  <2>1. UNCHANGED <<pc, writers, group, waiting, phase, kind, imm, pending, scheduled,
                    flush, compact, bgError, closing, pinned>>
    BY <1>2 DEF vars, queue, memory, bg
  <2>2. ControlTypes' /\ LeaderWorks'
    BY <2>1, QueueSame DEF ControlInv, ControlTypes
  <2> QED BY <2>1, <2>2 DEF ControlInv, QuietUnlessUp, NobodyWhenClosing, OneJob
<1> QED BY <1>1, <1>2, DBImplAssumption, WriteControl, LeaderControl, BackgroundControl,
           OpenControl, CrashControl DEF Next

\* Only the head of the queue writes, only a scheduled thread compacts, and
\* before DB::Open returns there is neither (Write, BackgroundCall).
LEMMA ControlAlways == Spec => []ControlInv
BY ControlInit, ControlStep, DBImplAssumption, PTL DEF Spec

-----------------------------------------------------------------------------
(* Files and their numbers.                                                *)

\* What it is to be a finite map from file numbers.
LEMMA FilesMeans ==
    ASSUME NEW T, NEW f \in Files(T)
    PROVE  DOMAIN f \in SUBSET Nat /\ IsFiniteSet(DOMAIN f) /\ f \in [DOMAIN f -> T]
  BY DEF Files, FileNumbers

\* A function on a finite set of file numbers is a map of files.
LEMMA FilesAre ==
    ASSUME NEW T, NEW S \in SUBSET Nat, IsFiniteSet(S), NEW f \in [S -> T]
    PROVE  f \in Files(T)
  BY DEF Files, FileNumbers

\* An empty directory is a map of files.
LEMMA EmptyFiles == \A T : Empty \in Files(T) /\ DOMAIN Empty = {}
<1> TAKE T
<1>1. DOMAIN Empty = {} /\ Empty \in [{} -> T] BY DEF Empty
<1> QED BY <1>1, FS_EmptySet, FilesAre

\* A later map over an earlier one, as Builder::Apply adds files.
LEMMA MergeFiles ==
    ASSUME NEW T, NEW f, f \in Files(T), NEW g, g \in Files(T)
    PROVE  /\ Over(f, g) \in Files(T)
           /\ DOMAIN Over(f, g) = DOMAIN f \cup DOMAIN g
           /\ \A n : n \in DOMAIN f => Over(f, g)[n] = f[n]
           /\ \A n : n \in DOMAIN g /\ n \notin DOMAIN f => Over(f, g)[n] = g[n]
<1>1. /\ DOMAIN f \in SUBSET Nat /\ IsFiniteSet(DOMAIN f) /\ f \in [DOMAIN f -> T]
      /\ DOMAIN g \in SUBSET Nat /\ IsFiniteSet(DOMAIN g) /\ g \in [DOMAIN g -> T]
  BY FilesMeans
<1>2. Over(f, g) \in [DOMAIN f \cup DOMAIN g -> T] BY <1>1 DEF Over
<1>3. IsFiniteSet(DOMAIN f \cup DOMAIN g) BY <1>1, FS_Union
<1>4. Over(f, g) \in Files(T) BY <1>1, <1>2, <1>3, FilesAre
<1> QED BY <1>1, <1>4 DEF Over

\* A file is made, or made again.
LEMMA PutFiles ==
    ASSUME NEW T, NEW f \in Files(T), NEW k \in Nat, NEW v \in T
    PROVE  /\ Put(f, k, v) \in Files(T)
           /\ DOMAIN Put(f, k, v) = DOMAIN f \cup {k}
           /\ Put(f, k, v)[k] = v
           /\ \A n \in DOMAIN f : n # k => Put(f, k, v)[n] = f[n]
<1>1. Single(k, v) \in [{k} -> T] /\ DOMAIN Single(k, v) = {k} /\ Single(k, v)[k] = v
  BY DEF Single
<1>2. Single(k, v) \in Files(T) BY <1>1, FS_Singleton, FilesAre
<1>3. Put(f, k, v) = Over(Single(k, v), f) BY DEF Put
<1> DEFINE g == Single(k, v)
<1> HIDE DEF g
<1>4. /\ g \in Files(T) /\ DOMAIN g = {k} /\ g[k] = v /\ Put(f, k, v) = Over(g, f)
  BY <1>1, <1>2, <1>3 DEF g
<1>5. Over(g, f) \in Files(T) BY <1>4, MergeFiles
<1>6. /\ DOMAIN Over(g, f) = DOMAIN g \cup DOMAIN f
      /\ \A n \in DOMAIN g : Over(g, f)[n] = g[n]
      /\ \A n \in DOMAIN f : n \notin DOMAIN g => Over(g, f)[n] = f[n]
  BY DEF Over
<1> QED BY <1>4, <1>5, <1>6

\* One file is a map of files.
LEMMA SingleFile ==
    ASSUME NEW T, NEW k \in Nat, NEW v \in T
    PROVE  Single(k, v) \in Files(T) /\ DOMAIN Single(k, v) = {k} /\ Single(k, v)[k] = v
<1>1. Single(k, v) \in [{k} -> T] /\ DOMAIN Single(k, v) = {k} /\ Single(k, v)[k] = v
  BY DEF Single
<1> QED BY <1>1, FS_Singleton, FilesAre

\* Files are deleted.
LEMMA WithoutFiles ==
    ASSUME NEW T, NEW f \in Files(T), NEW S
    PROVE  /\ Without(f, S) \in Files(T)
           /\ DOMAIN Without(f, S) = DOMAIN f \ S
           /\ \A n \in DOMAIN f \ S : Without(f, S)[n] = f[n]
<1>1. DOMAIN f \in SUBSET Nat /\ IsFiniteSet(DOMAIN f) /\ f \in [DOMAIN f -> T]
  BY FilesMeans
<1>2. Without(f, S) \in [DOMAIN f \ S -> T] BY <1>1 DEF Without
<1>3. IsFiniteSet(DOMAIN f \ S) /\ DOMAIN f \ S \in SUBSET Nat
  BY <1>1, FS_Subset
<1>4. Without(f, S) \in Files(T) BY <1>2, <1>3, FilesAre
<1> QED BY <1>4 DEF Without

\* A file is replaced.
LEMMA ExceptFiles ==
    ASSUME NEW T, NEW f \in Files(T), NEW k, NEW v \in T
    PROVE  [f EXCEPT ![k] = v] \in Files(T)
<1>1. DOMAIN f \in SUBSET Nat /\ IsFiniteSet(DOMAIN f) /\ f \in [DOMAIN f -> T]
  BY FilesMeans
<1>2. [f EXCEPT ![k] = v] \in [DOMAIN f -> T] BY <1>1
<1> QED BY <1>1, <1>2, FilesAre

\* VersionSet::Builder: a file an edit adds is in, one it only deletes is out.
LEMMA ApplyEditFiles ==
    ASSUME NEW T, NEW v \in Files(T), NEW e, e.add \in Files(T)
    PROVE  /\ ApplyEdit(v, e) \in Files(T)
           /\ DOMAIN ApplyEdit(v, e) = DOMAIN e.add \cup (DOMAIN v \ e.del)
<1>1. /\ Without(v, e.del) \in Files(T)
      /\ DOMAIN Without(v, e.del) = DOMAIN v \ e.del
  BY WithoutFiles
<1>2. ApplyEdit(v, e) = Over(e.add, Without(v, e.del)) BY DEF ApplyEdit
<1>3. Over(e.add, Without(v, e.del)) \in Files(T) BY <1>1, MergeFiles
<1>4. DOMAIN Over(e.add, Without(v, e.del)) = DOMAIN e.add \cup DOMAIN Without(v, e.del)
  BY DEF Over
<1> QED BY <1>1, <1>2, <1>3, <1>4

\* A version names only what some edit before it added.
LEMMA FilesAfterNamed ==
    ASSUME NEW E \in Seq(EditType)
    PROVE  \A j \in 0 .. Len(E) :
              /\ FilesAfter(E)[j] \in Files(Nat)
              /\ \A n \in DOMAIN FilesAfter(E)[j] : \E i \in 1 .. j : n \in DOMAIN E[i].add
<1>0. /\ Len(E) \in Nat /\ \A i \in 1 .. Len(E) : E[i] \in EditType
  BY LenProperties, ElementOfSeq
<1>a. \A i \in 1 .. Len(E) : E[i].add \in Files(Nat)
  BY <1>0 DEF EditType
<1> DEFINE F == FilesAfter(E)
<1>b. F = [i \in 0 .. Len(E) |-> IF i = 0 THEN Empty ELSE ApplyEdit(F[i - 1], E[i])]
  BY <1>0, FilesAfterDef
<1> HIDE DEF F
<1> DEFINE Good(j) == /\ F[j] \in Files(Nat)
                      /\ \A n \in DOMAIN F[j] : \E i \in 1 .. j : n \in DOMAIN E[i].add
           S == {j \in Nat : j <= Len(E) => Good(j)}
<1>1. 0 \in S
  <2>1. F[0] = Empty BY <1>0, <1>b
  <2> QED BY <2>1, EmptyFiles
<1>2. ASSUME NEW j \in Nat, j \in S PROVE j + 1 \in S
  <2> SUFFICES ASSUME j + 1 <= Len(E) PROVE Good(j + 1) OBVIOUS
  <2>1. Good(j) /\ j + 1 \in 1 .. Len(E) /\ j + 1 \in 0 .. Len(E) /\ (j + 1) - 1 = j
        /\ j + 1 # 0
    BY <1>0, <1>2
  <2>2. F[j + 1] = ApplyEdit(F[j], E[j + 1]) BY <1>b, <2>1
  <2>3. /\ F[j + 1] \in Files(Nat)
        /\ DOMAIN F[j + 1] = DOMAIN E[j + 1].add \cup (DOMAIN F[j] \ E[j + 1].del)
    <3>1. /\ ApplyEdit(F[j], E[j + 1]) \in Files(Nat)
          /\ DOMAIN ApplyEdit(F[j], E[j + 1])
                = DOMAIN E[j + 1].add \cup (DOMAIN F[j] \ E[j + 1].del)
      BY <1>a, <2>1, ApplyEditFiles
    <3> QED BY <2>2, <3>1
  <2>4. ASSUME NEW n \in DOMAIN F[j + 1]
        PROVE  \E i \in 1 .. j + 1 : n \in DOMAIN E[i].add
    <3>1. CASE n \in DOMAIN E[j + 1].add BY <3>1
    <3>2. CASE n \in DOMAIN F[j] BY <2>1, <3>2
    <3> QED BY <2>3, <2>4, <3>1, <3>2
  <2> QED BY <2>3, <2>4
<1>3. \A j \in Nat : j \in S
  <2> HIDE DEF S
  <2> QED BY <1>1, <1>2, SetInduction
<1>4. \A j \in 0 .. Len(E) : Good(j) BY <1>0, <1>3
<1> QED BY <1>4 DEF F

\* One more edit.
LEMMA FilesAfterAppend ==
    ASSUME NEW E \in Seq(EditType), NEW e \in EditType
    PROVE  /\ Len(Append(E, e)) = Len(E) + 1 /\ Append(E, e) \in Seq(EditType)
           /\ \A i \in 1 .. Len(E) : Append(E, e)[i] = E[i]
           /\ Append(E, e)[Len(E) + 1] = e
           /\ \A j \in 0 .. Len(E) : FilesAfter(Append(E, e))[j] = FilesAfter(E)[j]
           /\ FilesAfter(Append(E, e))[Len(E) + 1] = ApplyEdit(FilesAfter(E)[Len(E)], e)
           /\ DOMAIN FilesAfter(Append(E, e))[Len(E) + 1]
                = DOMAIN e.add \cup (DOMAIN FilesAfter(E)[Len(E)] \ e.del)
<1>1. /\ Len(E) \in Nat
      /\ Len(Append(E, e)) = Len(E) + 1 /\ Append(E, e) \in Seq(EditType)
      /\ \A i \in 1 .. Len(E) : Append(E, e)[i] = E[i]
      /\ Append(E, e)[Len(E) + 1] = e
  BY LenProperties, AppendProperties
<1> DEFINE A == Append(E, e)
<1> HIDE DEF A
<1>2. /\ Len(A) \in Nat /\ Len(A) = Len(E) + 1 /\ A[Len(E) + 1] = e
      /\ \A i \in 1 .. Len(E) : E[i] = A[i]
  BY <1>1 DEF A
<1>3. \A j \in 0 .. Len(E) : FilesAfter(E)[j] = FilesAfter(A)[j]
  BY <1>1, <1>2, FilesAfterPrefix
<1>4. FilesAfter(A)[Len(E) + 1] = ApplyEdit(FilesAfter(A)[Len(E)], e)
  <2>1. FilesAfter(A) = [i \in 0 .. Len(A) |->
                           IF i = 0 THEN Empty ELSE ApplyEdit(FilesAfter(A)[i - 1], A[i])]
    BY <1>2, FilesAfterDef
  <2>2. Len(E) + 1 \in 0 .. Len(A) /\ Len(E) + 1 # 0 /\ (Len(E) + 1) - 1 = Len(E)
    BY <1>1, <1>2
  <2> QED BY <1>2, <2>1, <2>2
<1>5. FilesAfter(A)[Len(E) + 1] = ApplyEdit(FilesAfter(E)[Len(E)], e)
  BY <1>1, <1>3, <1>4
<1>6. FilesAfter(E)[Len(E)] \in Files(Nat) /\ e.add \in Files(Nat)
  <2>1. \A j \in 0 .. Len(E) : FilesAfter(E)[j] \in Files(Nat)
    BY FilesAfterNamed
  <2>2. Len(E) \in 0 .. Len(E) BY <1>1
  <2> QED BY <2>1, <2>2 DEF EditType
<1>7. DOMAIN FilesAfter(A)[Len(E) + 1] = DOMAIN e.add \cup (DOMAIN FilesAfter(E)[Len(E)] \ e.del)
  <2> DEFINE f == FilesAfter(E)[Len(E)]
  <2>1. f \in Files(Nat) /\ e.add \in Files(Nat) BY <1>6
  <2> HIDE DEF f
  <2>2. DOMAIN ApplyEdit(f, e) = DOMAIN e.add \cup (DOMAIN f \ e.del)
    BY <2>1, ApplyEditFiles
  <2> QED BY <1>5, <2>2 DEF f
<1> QED BY <1>1, <1>3, <1>5, <1>7 DEF A

-----------------------------------------------------------------------------
(* Entries, records and numbers.                                           *)

\* Two sets of entries make one (WriteBatch, RecoverLogFile).
LEMMA EntriesJoin ==
    /\ {} \in EntrySets
    /\ \A A, B \in EntrySets : A \cup B \in EntrySets
<1>1. {} \in EntrySets BY FS_EmptySet DEF EntrySets
<1>2. ASSUME NEW A \in EntrySets, NEW B \in EntrySets PROVE A \cup B \in EntrySets
  <2>1. IsFiniteSet(A) /\ IsFiniteSet(B) BY DEF EntrySets
  <2>2. IsFiniteSet(A \cup B) BY <2>1, FS_Union
  <2> QED BY <2>2 DEF EntrySets
<1> QED BY <1>1, <1>2

\* What Reader::ReadRecord returns is the file up to its first torn record.
LEMMA ReadablePrefix ==
    ASSUME NEW S, NEW recs \in Seq(S)
    PROVE  \E m \in 0 .. Len(recs) :
              /\ ReadableRecords(recs) \in Seq(S) /\ Len(ReadableRecords(recs)) = m
              /\ \A i \in 1 .. m : ReadableRecords(recs)[i] = recs[i] /\ recs[i].ok
              /\ m < Len(recs) => ~recs[m + 1].ok
<1> DEFINE torn == {i \in DOMAIN recs : ~recs[i].ok}
           R == ReadableRecords(recs)
<1>0. /\ Len(recs) \in Nat /\ DOMAIN recs = 1 .. Len(recs)
      /\ \A i \in 1 .. Len(recs) : recs[i] \in S
  BY LenProperties, ElementOfSeq
<1>1. CASE torn = {}
  <2>1. R = recs BY <1>1 DEF ReadableRecords
  <2>2. \A i \in 1 .. Len(recs) : recs[i].ok BY <1>0, <1>1
  <2>3. Len(recs) \in 0 .. Len(recs) /\ ~(Len(recs) < Len(recs)) BY <1>0
  <2> QED BY <2>1, <2>2, <2>3
<1>2. CASE torn # {}
  <2>1. torn \in SUBSET Nat BY <1>0
  <2>2. \E i \in torn : \A j \in torn : i <= j
    BY <1>2, <2>1, LeastElement
  <2> DEFINE k == CHOOSE i \in torn : \A j \in torn : i <= j
  <2>3. k \in torn /\ \A j \in torn : k <= j BY <2>2
  <2>4. R = SubSeq(recs, 1, k - 1) BY <1>2 DEF ReadableRecords
  <2> HIDE DEF k
  <2>5. /\ k \in 1 .. Len(recs) /\ k - 1 \in 0 .. Len(recs) /\ (k - 1) + 1 = k
        /\ ~recs[k].ok
    BY <1>0, <2>3
  <2>6. \A i \in 1 .. k - 1 : recs[i] \in S /\ recs[i].ok
    <3> SUFFICES ASSUME NEW i \in 1 .. k - 1 PROVE recs[i] \in S /\ recs[i].ok
      OBVIOUS
    <3>1. i \in 1 .. Len(recs) /\ ~(k <= i) BY <1>0, <2>5
    <3> QED BY <1>0, <2>3, <3>1
  <2> DEFINE s == SubSeq(recs, 1, k - 1)
  <2>7. /\ s \in Seq(S) /\ Len(s) = (IF 1 <= k - 1 THEN k - 1 - 1 + 1 ELSE 0)
        /\ \A i \in 1 .. k - 1 - 1 + 1 : s[i] = recs[1 + i - 1]
    <3>1. k - 1 \in Int /\ 1 \in Int /\ \A i \in 1 .. k - 1 : recs[i] \in S
      BY <2>5, <2>6
    <3> QED BY <1>0, <2>5, <3>1, SubSeqProperties
  <2> HIDE DEF s
  <2>8. Len(s) = k - 1 /\ \A i \in 1 .. k - 1 : s[i] = recs[i]
    BY <1>0, <2>5, <2>7
  <2>9. R = s BY <2>4 DEF s
  <2> HIDE DEF R
  <2>10. /\ k - 1 \in 0 .. Len(recs) /\ R \in Seq(S) /\ Len(R) = k - 1
         /\ \A i \in 1 .. k - 1 : R[i] = recs[i] /\ recs[i].ok
         /\ ~recs[(k - 1) + 1].ok
    BY <2>5, <2>6, <2>7, <2>8, <2>9
  <2> QED BY <2>10 DEF R
<1> QED BY <1>1, <1>2

\* An image of a finite set is finite.
LEMMA FiniteImage ==
    ASSUME NEW I, IsFiniteSet(I), NEW f
    PROVE  IsFiniteSet({f[i] : i \in I})
<1> DEFINE T == {f[i] : i \in I}
           M == [i \in I |-> f[i]]
<1>1. M \in Surjection(I, T) BY DEF Surjection
<1> HIDE DEF M, T
<1>2. IsFiniteSet(T) BY <1>1, FS_Surjection
<1> QED BY <1>2 DEF T

\* A union of finitely many sets of entries.
LEMMA EntriesUnion ==
    ASSUME NEW I, IsFiniteSet(I), NEW f, \A i \in I : f[i] \in EntrySets
    PROVE  UNION {f[i] : i \in I} \in EntrySets
<1> DEFINE T == {f[i] : i \in I}
<1>1. IsFiniteSet(T) BY FiniteImage
<1>2. \A A \in T : IsFiniteSet(A) /\ A \in SUBSET [seq : Nat, call : Calls]
  BY DEF EntrySets
<1> HIDE DEF T
<1>3. IsFiniteSet(UNION T) BY <1>1, <1>2, FS_UNION
<1>4. UNION T \in SUBSET [seq : Nat, call : Calls] BY <1>2
<1>5. UNION T \in EntrySets BY <1>3, <1>4 DEF EntrySets
<1> QED BY <1>5 DEF T

\* What a log is read as, and what tables hold.
LEMMA LogEntriesType ==
    ASSUME NEW recs \in Seq(RecordType)
    PROVE  LogEntries(recs) \in EntrySets
<1> DEFINE R == ReadableRecords(recs)
           f == [i \in 1 .. Len(R) |-> R[i].entries]
<1>1. R \in Seq(RecordType) BY ReadablePrefix
<1> HIDE DEF R
<1>2. /\ Len(R) \in Nat /\ DOMAIN R = 1 .. Len(R)
      /\ \A i \in 1 .. Len(R) : R[i].entries \in EntrySets
  <2>1. /\ Len(R) \in Nat /\ DOMAIN R = 1 .. Len(R)
        /\ \A i \in 1 .. Len(R) : R[i] \in RecordType
    BY <1>1, LenProperties, ElementOfSeq
  <2> QED BY <2>1 DEF RecordType
<1>3. LogEntries(recs) = UNION {f[i] : i \in 1 .. Len(R)}
  <2>1. LogEntries(recs) = UNION {r.entries : r \in ToSet(R)}
    BY DEF LogEntries, R
  <2>2. ToSet(R) = {R[i] : i \in 1 .. Len(R)} BY <1>2 DEF ToSet
  <2> QED BY <2>1, <2>2
<1>4. IsFiniteSet(1 .. Len(R)) BY <1>2, FS_Interval
<1>5. \A i \in 1 .. Len(R) : f[i] \in EntrySets BY <1>2
<1> HIDE DEF f
<1>6. UNION {f[i] : i \in 1 .. Len(R)} \in EntrySets
  BY <1>4, <1>5, EntriesUnion
<1> QED BY <1>3, <1>6

\* A compaction makes a set of entries of those of its inputs.
LEMMA TableEntriesType ==
    ASSUME NEW T \in Files(TableType), NEW S
    PROVE  TableEntries(T, S) \in EntrySets
<1> DEFINE I == S \cap DOMAIN T
           f == [n \in I |-> T[n].entries]
<1>1. DOMAIN T \in SUBSET Nat /\ IsFiniteSet(DOMAIN T) /\ T \in [DOMAIN T -> TableType]
  BY FilesMeans
<1>2. IsFiniteSet(I) BY <1>1, FS_Subset
<1>3. \A n \in I : f[n] \in EntrySets BY <1>1 DEF TableType
<1>4. TableEntries(T, S) = UNION {f[n] : n \in I} BY DEF TableEntries
<1> HIDE DEF I, f
<1>5. UNION {f[n] : n \in I} \in EntrySets BY <1>2, <1>3, EntriesUnion
<1> QED BY <1>4, <1>5

\* RecoverLogFile never takes a number back.
LEMMA MarkedNumber ==
    ASSUME NEW a \in Nat, NEW n \in Nat
    PROVE  MarkFileNumberUsed(a, n) \in Nat /\ MarkFileNumberUsed(a, n) >= a
           /\ MarkFileNumberUsed(a, n) > n
<1>1. \E x \in {a, n + 1} : \A y \in {a, n + 1} : x >= y OBVIOUS
<1>2. MarkFileNumberUsed(a, n) = CHOOSE x \in {a, n + 1} : \A y \in {a, n + 1} : x >= y
  BY DEF MarkFileNumberUsed, Max
<1>3. /\ MarkFileNumberUsed(a, n) \in {a, n + 1}
      /\ \A y \in {a, n + 1} : MarkFileNumberUsed(a, n) >= y
  BY <1>1, <1>2
<1> QED BY <1>3

\* Recover leaves a sequence number (SetLastSequence).
LEMMA SequenceRead ==
    ASSUME NEW l \in Nat, NEW entries \in EntrySets
    PROVE  /\ MaxSequence(l, entries) \in Nat /\ MaxSequence(l, entries) >= l
           /\ \A e \in entries : MaxSequence(l, entries) >= e.seq
<1> DEFINE f == [e \in entries |-> e.seq]
           T == {l} \cup {f[e] : e \in entries}
<1>0. IsFiniteSet(entries) /\ \A e \in entries : e.seq \in Nat
  BY DEF EntrySets
<1>1. IsFiniteSet({f[e] : e \in entries})
  <2> HIDE DEF f
  <2> QED BY <1>0, FiniteImage
<1>2. IsFiniteSet(T) BY <1>1, FS_Singleton, FS_Union
<1>3. T \in SUBSET Nat /\ T # {} BY <1>0
<1>4. \E x \in T : \A y \in T : x >= y
  <2> HIDE DEF T
  <2> QED BY <1>2, <1>3, LargestElement
<1>5. MaxSequence(l, entries) = CHOOSE x \in T : \A y \in T : x >= y
  <2>1. {l} \cup {e.seq : e \in entries} = T OBVIOUS
  <2> QED BY <2>1 DEF MaxSequence, Max
<1>6. MaxSequence(l, entries) \in T /\ \A y \in T : MaxSequence(l, entries) >= y
  <2> HIDE DEF T
  <2> QED BY <1>4, <1>5
<1> QED BY <1>3, <1>6

\* BuildBatchGroup and the sequence numbers of its batch.
LEMMA GroupTypes ==
    ASSUME ControlInv, last \in Nat
    PROVE  /\ Batches(group) \in Nat
           /\ GroupEntries \in EntrySets
<1>1. /\ writers \in Seq(Calls) /\ Len(writers) \in Nat /\ group \in 0 .. Len(writers)
      /\ \A i \in 1 .. Len(writers) : writers[i] \in Calls
  BY LenProperties, ElementOfSeq DEF ControlInv, ControlTypes
<1>2. ASSUME NEW n \in Nat PROVE Batches(n) \in Nat
  <2>1. IsFiniteSet(1 .. n) BY FS_Interval
  <2>2. IsFiniteSet({i \in 1 .. n : kind[writers[i]] # "force"})
    BY <2>1, FS_Subset
  <2> QED BY <2>2, FS_CardinalityType DEF Batches
<1> DEFINE J == {j \in 1 .. group : kind[writers[j]] # "force"}
           f == [i \in J |-> Entry(last + Batches(i), writers[i])]
<1>3. IsFiniteSet(J)
  <2>1. IsFiniteSet(1 .. group) BY <1>1, FS_Interval
  <2> QED BY <2>1, FS_Subset
<1>4. GroupEntries = {f[i] : i \in J} BY DEF GroupEntries
<1>5. \A i \in J : f[i] \in [seq : Nat, call : Calls]
  <2> SUFFICES ASSUME NEW i \in J PROVE Entry(last + Batches(i), writers[i]) \in [seq : Nat, call : Calls]
    OBVIOUS
  <2>1. i \in Nat /\ i \in 1 .. Len(writers) BY <1>1
  <2>2. last + Batches(i) \in Nat /\ writers[i] \in Calls
    <3>1. Batches(i) \in Nat BY <1>2, <2>1
    <3> QED BY <1>1, <2>1, <3>1
  <2> QED BY <2>2 DEF Entry
<1> HIDE DEF J, f
<1>6. IsFiniteSet({f[i] : i \in J}) BY <1>3, FiniteImage
<1> QED BY <1>1, <1>2, <1>4, <1>5, <1>6 DEF EntrySets

-----------------------------------------------------------------------------
(* Descriptors.                                                            *)

\* The fields of the records of a descriptor.
LEMMA EditsAre ==
    ASSUME NEW E \in Seq(EditType)
    PROVE  /\ Len(E) \in Nat
           /\ \A i \in 1 .. Len(E) :
                 /\ E[i] \in EditType /\ E[i].add \in Files(Nat)
                 /\ DOMAIN E[i].add \in SUBSET Nat
                 /\ E[i].log \in Nat /\ E[i].next \in Nat /\ E[i].ok \in BOOLEAN
<1>1. Len(E) \in Nat /\ \A i \in 1 .. Len(E) : E[i] \in EditType
  BY LenProperties, ElementOfSeq
<1>2. ASSUME NEW e \in EditType
      PROVE  /\ e.add \in Files(Nat) /\ DOMAIN e.add \in SUBSET Nat
             /\ e.log \in Nat /\ e.next \in Nat /\ e.ok \in BOOLEAN
  <2>1. e.add \in Files(Nat) /\ e.log \in Nat /\ e.next \in Nat /\ e.ok \in BOOLEAN
    BY DEF EditType
  <2> QED BY <2>1, FilesMeans
<1> QED BY <1>1, <1>2

\* Tables are written, or deleted if no edit names them.
LEMMA DescriptorTables ==
    ASSUME NEW E \in Seq(EditType), NEW c, NEW s, NEW T, NEW U, DescriptorOf(c, E, s, T),
           \A n \in DOMAIN T :
              T[n].done /\ (\E i \in 1 .. Len(E) : n \in DOMAIN E[i].add)
              => n \in DOMAIN U /\ U[n].done
    PROVE  DescriptorOf(c, E, s, U)
<1> SUFFICES ASSUME NEW j \in 0 .. Len(E), StopsAfter(E, s, j), NEW n \in DOMAIN FilesAfter(E)[j]
             PROVE  n \in DOMAIN U /\ U[n].done
  BY DEF DescriptorOf, StoredIn
<1>1. n \in DOMAIN T /\ T[n].done BY DEF DescriptorOf, StoredIn
<1>2. PICK i \in 1 .. j : n \in DOMAIN E[i].add BY FilesAfterNamed
<1>3. i \in 1 .. Len(E) BY EditsAre
<1> QED BY <1>1, <1>2, <1>3

\* The beginning of a descriptor, of which more may now be safe: what a crash
\* leaves, an append that wrote nothing, and a sync.
LEMMA DescriptorPrefix ==
    ASSUME NEW E \in Seq(EditType), NEW A \in Seq(EditType), NEW c, NEW s, NEW T, NEW t \in Nat,
           DescriptorOf(c, E, s, T),
           Len(A) <= Len(E), \A i \in 1 .. Len(A) : A[i] = E[i],
           s <= t, t <= Len(A),
           t = s \/ t = Len(A)
    PROVE  DescriptorOf(c, A, t, T)
<1>1. Len(E) \in Nat /\ Len(A) \in Nat /\ s \in Nat
  BY EditsAre DEF DescriptorOf
<1>2. t \in 0 .. Len(A) /\ (c # 1 => t # 0) BY <1>1 DEF DescriptorOf
<1>3. Numbered(c, A)
  <2>1. \A i \in 1 .. Len(A) : i \in 1 .. Len(E) /\ A[i] = E[i] BY <1>1
  <2> QED BY <2>1 DEF Numbered, DescriptorOf
<1>4. ASSUME NEW j \in 0 .. Len(A), StopsAfter(A, t, j)
      PROVE  StoredIn(DOMAIN FilesAfter(A)[j], T)
  <2>1. \A i \in 0 .. Len(A) : FilesAfter(A)[i] = FilesAfter(E)[i]
    BY <1>1, FilesAfterPrefix
  <2>2. j \in 0 .. Len(E) /\ \A i \in 1 .. j : E[i].ok
    BY <1>1, <1>4 DEF StopsAfter
  <2>3. j >= s \/ ~E[j + 1].ok
    <3>1. CASE j >= t BY <1>1, <3>1
    <3>2. CASE ~(j >= t) /\ ~A[j + 1].ok
      <4>1. j + 1 \in 1 .. Len(A) BY <1>1, <3>2
      <4> QED BY <3>2, <4>1
    <3> QED BY <1>4, <3>1, <3>2 DEF StopsAfter
  <2>4. StoredIn(DOMAIN FilesAfter(E)[j], T)
    BY <2>2, <2>3 DEF DescriptorOf, StopsAfter
  <2> QED BY <2>1, <2>4
<1> QED BY <1>2, <1>3, <1>4 DEF DescriptorOf

\* LogAndApply appends an edit.
LEMMA DescriptorAppend ==
    ASSUME NEW E \in Seq(EditType), NEW e \in EditType, NEW c, NEW s, NEW T,
           DescriptorOf(c, E, s, T),
           e.ok, c < e.next, e.log < e.next, \A n \in DOMAIN e.add : n < e.next,
           \A i \in 1 .. Len(E) : E[i].next <= e.next,
           StoredIn(DOMAIN e.add, T)
    PROVE  DescriptorOf(c, Append(E, e), s, T)
<1> DEFINE A == Append(E, e)
           n == Len(E)
<1>1. /\ n \in Nat /\ A \in Seq(EditType) /\ Len(A) = n + 1
      /\ \A i \in 1 .. n : A[i] = E[i]
      /\ A[n + 1] = e
      /\ \A j \in 0 .. n : FilesAfter(A)[j] = FilesAfter(E)[j]
      /\ DOMAIN FilesAfter(A)[n + 1] = DOMAIN e.add \cup (DOMAIN FilesAfter(E)[n] \ e.del)
  BY EditsAre, FilesAfterAppend
<1> HIDE DEF A
<1>2. s \in 0 .. Len(A) /\ (c # 1 => s # 0) /\ s \in 0 .. n
  BY <1>1 DEF DescriptorOf
<1>3. \A i \in 1 .. n + 1 : i \in 1 .. n \/ i = n + 1 BY <1>1
<1>4. Numbered(c, A)
  <2>1. \A i \in 1 .. Len(A) :
          /\ c < A[i].next /\ A[i].log < A[i].next
          /\ \A m \in DOMAIN A[i].add : m < A[i].next
          /\ ~MayTear => A[i].ok
    BY <1>1, <1>3 DEF DescriptorOf, Numbered
  <2>2. ASSUME NEW i \in 1 .. Len(A), NEW j \in 1 .. Len(A), i <= j
        PROVE  A[i].next <= A[j].next
    <3>1. CASE j = n + 1
      <4>1. e.next \in Nat BY DEF EditType
      <4> QED BY <1>1, <1>3, <3>1, <4>1
    <3>2. CASE j \in 1 .. n
      <4>1. i \in 1 .. n BY <1>1, <2>2, <3>2
      <4> QED BY <1>1, <2>2, <3>2, <4>1 DEF DescriptorOf, Numbered
    <3> QED BY <1>1, <1>3, <3>1, <3>2
  <2> QED BY <2>1, <2>2 DEF Numbered
<1>5. ASSUME NEW j \in 0 .. n + 1, StopsAfter(A, s, j)
      PROVE  StoredIn(DOMAIN FilesAfter(A)[j], T)
  <2>1. CASE j \in 0 .. n
    <3>1. \A i \in 1 .. j : E[i].ok BY <1>1, <1>5, <2>1 DEF StopsAfter
    <3>2. j >= s \/ ~E[j + 1].ok
      <4>1. CASE j = n BY <1>2, <4>1
      <4>2. CASE j # n
        <5>1. j + 1 \in 1 .. n BY <1>1, <2>1, <4>2
        <5> QED BY <1>1, <1>5, <5>1 DEF StopsAfter
      <4> QED BY <4>1, <4>2
    <3>3. StoredIn(DOMAIN FilesAfter(E)[j], T)
      BY <2>1, <3>1, <3>2 DEF DescriptorOf, StopsAfter
    <3> QED BY <1>1, <2>1, <3>3
  <2>2. CASE j = n + 1
    <3>1. \A i \in 1 .. n : E[i].ok BY <1>1, <1>5, <2>2 DEF StopsAfter
    <3>2. n \in 0 .. n /\ n >= s BY <1>1, <1>2
    <3>3. StoredIn(DOMAIN FilesAfter(E)[n], T)
      BY <3>1, <3>2 DEF DescriptorOf, StopsAfter
    <3> QED BY <1>1, <2>2, <3>3 DEF StoredIn
  <2> QED BY <1>1, <2>1, <2>2
<1> QED BY <1>1, <1>2, <1>4, <1>5 DEF DescriptorOf, A

\* An append that failed left a part of its record.
LEMMA DescriptorTorn ==
    ASSUME NEW E \in Seq(EditType), NEW A \in Seq(EditType), NEW c, NEW s, NEW T,
           DescriptorOf(c, E, s, T), MayTear,
           s < Len(E), Len(A) = Len(E), \A i \in 1 .. Len(E) - 1 : A[i] = E[i],
           A[Len(E)].add = E[Len(E)].add, A[Len(E)].log = E[Len(E)].log,
           A[Len(E)].next = E[Len(E)].next, ~A[Len(E)].ok
    PROVE  DescriptorOf(c, A, s, T)
<1> DEFINE n == Len(E) - 1
<1>1. n \in Nat /\ Len(E) = n + 1 /\ s \in 0 .. n /\ Len(E) \in Nat
  BY EditsAre DEF DescriptorOf
<1>2. \A i \in 1 .. Len(E) : /\ A[i].add = E[i].add /\ A[i].log = E[i].log
                             /\ A[i].next = E[i].next
  <2> SUFFICES ASSUME NEW i \in 1 .. Len(E)
               PROVE  /\ A[i].add = E[i].add /\ A[i].log = E[i].log
                      /\ A[i].next = E[i].next
    OBVIOUS
  <2>1. i \in 1 .. Len(E) - 1 \/ i = Len(E) BY <1>1
  <2> QED BY <2>1
<1>3. Numbered(c, A) BY <1>2 DEF DescriptorOf, Numbered
<1>4. ASSUME NEW j \in 0 .. Len(A), StopsAfter(A, s, j)
      PROVE  StoredIn(DOMAIN FilesAfter(A)[j], T)
  <2>1. j # Len(E)
    <3>1. Len(E) \in 1 .. Len(E) BY <1>1
    <3> QED BY <1>4, <3>1 DEF StopsAfter
  <2>2. j \in 0 .. n /\ j \in 0 .. Len(E) BY <1>1, <2>1
  <2>3. \A i \in 0 .. n : FilesAfter(A)[i] = FilesAfter(E)[i]
    <3>1. /\ Len(A) \in Nat /\ Len(E) \in Nat /\ n \in Nat /\ n <= Len(A) /\ n <= Len(E)
          /\ \A i \in 1 .. n : A[i] = E[i]
      BY <1>1
    <3> HIDE DEF n
    <3> QED BY <3>1, FilesAfterPrefix
  <2>4. \A i \in 1 .. j : E[i].ok BY <1>1, <1>4, <2>2 DEF StopsAfter
  <2>5. j >= s \/ ~E[j + 1].ok
    <3>1. CASE j = n BY <1>1, <3>1
    <3>2. CASE j # n
      <4>1. j + 1 \in 1 .. n BY <1>1, <2>2, <3>2
      <4> QED BY <1>4, <4>1 DEF StopsAfter
    <3> QED BY <3>1, <3>2
  <2>6. StoredIn(DOMAIN FilesAfter(E)[j], T)
    BY <2>2, <2>4, <2>5 DEF DescriptorOf, StopsAfter
  <2> QED BY <2>2, <2>3, <2>6
<1> QED BY <1>1, <1>3, <1>4 DEF DescriptorOf

\* The descriptor is synced, and tables nobody needs are deleted.
LEMMA DescriptorSynced ==
    ASSUME NEW E \in Seq(EditType), NEW c, NEW s, NEW T, NEW U, DescriptorOf(c, E, s, T),
           \A i \in 1 .. Len(E) : E[i].ok,
           StoredIn(DOMAIN FilesAfter(E)[Len(E)], U), Len(E) # 0
    PROVE  DescriptorOf(c, E, Len(E), U)
<1>1. Len(E) \in Nat BY EditsAre
<1>2. ASSUME NEW j \in 0 .. Len(E), StopsAfter(E, Len(E), j) PROVE j = Len(E)
  <2>1. CASE j # Len(E)
    <3>1. j + 1 \in 1 .. Len(E) /\ ~(j >= Len(E)) BY <1>1, <2>1
    <3> QED BY <1>2, <3>1 DEF StopsAfter
  <2> QED BY <2>1
<1> QED BY <1>1, <1>2 DEF DescriptorOf

\* A descriptor with one record, the snapshot it begins with.
LEMMA DescriptorNew ==
    ASSUME NEW e \in EditType, NEW c, NEW s \in 0 .. 1, NEW T,
           c # 1 => s = 1, e.ok,
           c < e.next, e.log < e.next, \A n \in DOMAIN e.add : n < e.next,
           StoredIn(DOMAIN e.add, T)
    PROVE  /\ DescriptorOf(c, <<e>>, s, T) /\ <<e>> \in Seq(EditType)
           /\ DOMAIN FilesAfter(<<e>>)[1] = DOMAIN e.add
<1> DEFINE E == <<e>>
<1>1. E \in Seq(EditType) /\ Len(E) = 1 /\ E[1] = e /\ 1 .. 1 = {1} /\ 0 .. 1 = {0, 1}
  OBVIOUS
<1>2. FilesAfter(E) = [i \in 0 .. Len(E) |->
                         IF i = 0 THEN Empty ELSE ApplyEdit(FilesAfter(E)[i - 1], E[i])]
  <2> HIDE DEF E
  <2>1. Len(E) \in Nat BY <1>1
  <2> QED BY <2>1, FilesAfterDef
<1> HIDE DEF E
<1>3. FilesAfter(E)[0] = Empty /\ FilesAfter(E)[1] = ApplyEdit(Empty, e)
  <2>1. /\ 0 \in 0 .. Len(E) /\ 1 \in 0 .. Len(E) /\ 1 - 1 = 0 /\ 1 # 0
    BY <1>1
  <2>2. FilesAfter(E)[0] = Empty BY <1>2, <2>1
  <2>3. FilesAfter(E)[1] = ApplyEdit(FilesAfter(E)[0], E[1])
    BY <1>2, <2>1
  <2> QED BY <1>1, <2>2, <2>3
<1>4. DOMAIN ApplyEdit(Empty, e) = DOMAIN e.add
  <2>1. e.add \in Files(Nat) /\ Empty \in Files(Nat) /\ DOMAIN Empty = {}
    BY EmptyFiles DEF EditType
  <2>2. DOMAIN ApplyEdit(Empty, e) = DOMAIN e.add \cup (DOMAIN Empty \ e.del)
    BY <2>1, ApplyEditFiles
  <2> QED BY <2>1, <2>2
<1>5. e.next \in Nat BY DEF EditType
<1>6. Numbered(c, E) BY <1>1, <1>5 DEF Numbered
<1>7. \A j \in 0 .. Len(E) : StoredIn(DOMAIN FilesAfter(E)[j], T)
  BY <1>1, <1>3, <1>4, EmptyFiles DEF StoredIn
<1> QED BY <1>1, <1>3, <1>4, <1>6, <1>7 DEF DescriptorOf, E

-----------------------------------------------------------------------------
(* The steps of the writers.                                               *)

\* A step of a running database that leaves the tables, the descriptors and the
\* background thread alone.
LEMMA RunningStays ==
    ASSUME FilesInv, pc = "up", pc' = "up",
           UNCHANGED <<tables, manifests, current, version, next, logNumber, manifestNo,
                       logfile, flush, compact, pending>>,
           DOMAIN logs' = DOMAIN logs,
           pinned' \in {pinned, {}, DOMAIN version},
           bgError => bgError'
    PROVE  Descriptor' /\ Opening' /\ Running'
<1>1. Descriptor' BY DEF FilesInv, Descriptor, Edits, Synced
<1>2. Opening' BY DEF Opening
<1>3. Stored(pinned)' BY DEF FilesInv, Running, Stored, StoredIn
<1>4. Running'
  BY <1>3 DEF FilesInv, Running, Stored, Edits, Synced, InFlight, LastEdit
<1> QED BY <1>1, <1>2, <1>4

\* The descriptor in use.
LEMMA EditsType ==
    ASSUME FilesInv, current # 0
    PROVE  /\ manifests \in Files(ManifestType) /\ current \in DOMAIN manifests
           /\ DOMAIN manifests \in SUBSET Nat
           /\ \A n \in DOMAIN manifests : manifests[n] \in ManifestType
           /\ Edits \in Seq(EditType) /\ Len(Edits) \in Nat
           /\ Synced \in 0 .. Len(Edits)
           /\ DescriptorOf(current, Edits, Synced, tables)
<1>1. /\ manifests \in Files(ManifestType) /\ current \in DOMAIN manifests
      /\ DescriptorOf(current, Edits, Synced, tables)
  BY DEF FilesInv, FileTypes, Descriptor
<1>2. /\ DOMAIN manifests \in SUBSET Nat
      /\ manifests \in [DOMAIN manifests -> ManifestType]
  BY <1>1, FilesMeans
<1>3. \A n \in DOMAIN manifests : manifests[n] \in ManifestType BY <1>2
<1>4. Edits \in Seq(EditType) BY <1>1, <1>3 DEF ManifestType, Edits
<1> QED BY <1>1, <1>2, <1>3, <1>4, LenProperties DEF DescriptorOf

\* AddRecord and Sync of the log.
LEMMA LogFiles ==
    ASSUME logs \in Files(LogType), logfile \in DOMAIN logs
    PROVE  /\ \A r \in RecordType : /\ WithRecord(r) \in Files(LogType)
                                    /\ DOMAIN WithRecord(r) = DOMAIN logs
           /\ LET synced == [logs EXCEPT ![logfile].synced = Len(logs[logfile].recs)]
              IN  synced \in Files(LogType) /\ DOMAIN synced = DOMAIN logs
<1>1. logs[logfile] \in LogType /\ logs[logfile].recs \in Seq(RecordType)
  <2>1. logs \in [DOMAIN logs -> LogType] BY FilesMeans
  <2>2. logs[logfile] \in LogType BY <2>1
  <2> QED BY <2>2 DEF LogType
<1>2. Len(logs[logfile].recs) \in Nat BY <1>1, LenProperties
<1>3. ASSUME NEW r \in RecordType
      PROVE  WithRecord(r) \in Files(LogType) /\ DOMAIN WithRecord(r) = DOMAIN logs
  <2>1. Append(logs[logfile].recs, r) \in Seq(RecordType)
    BY <1>1, AppendProperties
  <2> DEFINE v == [logs[logfile] EXCEPT !.recs = Append(logs[logfile].recs, r)]
  <2>2. v \in LogType BY <1>1, <2>1 DEF LogType
  <2>3. WithRecord(r) = [logs EXCEPT ![logfile] = v] BY DEF WithRecord
  <2> HIDE DEF v
  <2>4. [logs EXCEPT ![logfile] = v] \in Files(LogType)
    BY <2>2, ExceptFiles
  <2> QED BY <2>3, <2>4
<1>4. LET synced == [logs EXCEPT ![logfile].synced = Len(logs[logfile].recs)]
      IN  synced \in Files(LogType) /\ DOMAIN synced = DOMAIN logs
  <2> DEFINE v == [logs[logfile] EXCEPT !.synced = Len(logs[logfile].recs)]
             w == [logs EXCEPT ![logfile].synced = Len(logs[logfile].recs)]
  <2>1. v \in LogType BY <1>1, <1>2 DEF LogType
  <2>2. w = [logs EXCEPT ![logfile] = v] OBVIOUS
  <2> HIDE DEF v, w
  <2>3. w \in Files(LogType) /\ DOMAIN w = DOMAIN logs
    BY <2>1, <2>2, ExceptFiles
  <2> QED BY <2>3 DEF w
<1> QED BY <1>3, <1>4

\* No step of a writer deletes a file, and a new log has a new number
\* (DBImpl::Write, MakeRoomForWrite).
LEMMA WriterFiles ==
    ASSUME ControlInv, FilesInv, NEW c \in Calls, Write(c) \/ LeaderStep(c)
    PROVE  FilesInv'
<1> USE DEF Running
<1>1. CASE \/ Write(c) \/ WriteRejected(c) \/ WriteHasRoom(c) \/ WriteWaits(c)
           \/ SwitchFailed(c) \/ SyncFailed(c)
  <2>1. /\ UNCHANGED <<logs, tables, manifests, current, version, next, last, logNumber,
                       manifestNo, recovering, opened, pc, mem, imm, logfile, flush,
                       compact, pending, bgError, pinned>>
    BY <1>1 DEF Write, WriteRejected, WriteHasRoom, WriteWaits, SwitchFailed, SyncFailed,
                disk, vset, opening, memory, bg
  <2>2. pc = "up"
    <3>1. Write(c) => pc = "up" BY DEF Write
    <3>2. SyncFailed(c) => phase[c] \in Working
      BY DEF SyncFailed, Working
    <3>3. WriteRejected(c) \/ WriteHasRoom(c) \/ WriteWaits(c) \/ SwitchFailed(c) => Leader(c)
      BY DEF WriteRejected, WriteHasRoom, WriteWaits, SwitchFailed, MaySwitch, NeedsSwitch
    <3> QED BY <1>1, <3>1, <3>2, <3>3, LeaderIs, WorkerIs
  <2>3. Descriptor' /\ Opening' /\ Running' BY <2>1, <2>2, RunningStays
  <2>4. FileTypes' BY <2>1 DEF FilesInv, FileTypes
  <2> QED BY <2>3, <2>4 DEF FilesInv
<1>2. CASE AppendLog(c) \/ AppendFailed(c) \/ SyncLog(c)
  <2>1. /\ UNCHANGED <<tables, manifests, current, version, next, last, logNumber,
                       manifestNo, recovering, opened, pc, mem, imm, logfile, flush,
                       compact, pending, bgError, pinned>>
        /\ phase[c] \in Working
    BY <1>2 DEF AppendLog, AppendFailed, SyncLog, vset, opening, memory, bg, Working
  <2>2. pc = "up" BY <2>1, WorkerIs
  <2>3. logs \in Files(LogType) /\ logfile \in DOMAIN logs /\ last \in Nat
    BY <2>2 DEF FilesInv, FileTypes
  <2>4. Batch(TRUE) \in RecordType /\ Batch(FALSE) \in RecordType
    BY <2>3, GroupTypes DEF Batch, RecordType
  <2>5. logs' \in Files(LogType) /\ DOMAIN logs' = DOMAIN logs
    <3>1. \/ logs' \in {logs, WithRecord(Batch(TRUE)), WithRecord(Batch(FALSE))}
          \/ logs' = [logs EXCEPT ![logfile].synced = Len(logs[logfile].recs)]
      BY <1>2 DEF AppendLog, AppendFailed, SyncLog
    <3> QED BY <2>3, <2>4, <3>1, LogFiles
  <2>6. Descriptor' /\ Opening' /\ Running'
    BY <2>1, <2>2, <2>5, RunningStays
  <2>7. FileTypes' BY <2>1, <2>5 DEF FilesInv, FileTypes
  <2> QED BY <2>6, <2>7 DEF FilesInv
<1>3. CASE FinishWrite(c)
  <2>1. /\ UNCHANGED <<logs, tables, manifests, current, version, next, logNumber,
                       manifestNo, recovering, opened, pc, imm, logfile, flush,
                       compact, pending, pinned>>
        /\ mem' \in {mem, mem \cup GroupEntries} /\ last' = last + Batches(group)
        /\ bgError => bgError'
        /\ phase[c] \in Working
    BY <1>3 DEF FinishWrite, disk, opening, bg, Working
  <2>2. pc = "up" BY <2>1, WorkerIs
  <2>3. Descriptor' /\ Opening' /\ Running' BY <2>1, <2>2, RunningStays
  <2>4. mem' \in EntrySets /\ last' \in Nat
    <3>1. mem \in EntrySets /\ last \in Nat BY DEF FilesInv, FileTypes
    <3>2. Batches(group) \in Nat /\ GroupEntries \in EntrySets
      BY <3>1, GroupTypes
    <3> QED BY <2>1, <3>1, <3>2, EntriesJoin
  <2>5. FileTypes' BY <2>1, <2>4 DEF FilesInv, FileTypes
  <2> QED BY <2>3, <2>5 DEF FilesInv
<1>4. CASE SwitchMemTable(c)
  <2>1. /\ UNCHANGED <<tables, manifests, current, version, last, logNumber, manifestNo,
                       recovering, opened, pc, flush, compact, pending, bgError, pinned>>
        /\ next' = next + 1 /\ logfile' = next
        /\ logs' = Put(logs, next, [recs |-> <<>>, synced |-> 0])
        /\ imm' = <<mem>> /\ mem' = {}
        /\ Leader(c)
    BY <1>4 DEF SwitchMemTable, MaySwitch, NeedsSwitch, opening
  <2>2. pc = "up" BY <2>1, LeaderIs
  <2>3. /\ next \in Nat /\ logs \in Files(LogType) /\ DOMAIN logs \in SUBSET Nat
        /\ DOMAIN tables \in SUBSET Nat /\ mem \in EntrySets
        /\ logfile \in Nat /\ logNumber \in Nat /\ manifestNo \in Nat
    BY FilesMeans DEF FilesInv, FileTypes
  <2>4. [recs |-> <<>>, synced |-> 0] \in LogType
    BY EmptySeq DEF LogType
  <2>5. logs' \in Files(LogType) /\ DOMAIN logs' = DOMAIN logs \cup {next}
    <3> DEFINE v == [recs |-> <<>>, synced |-> 0]
    <3> HIDE DEF v
    <3>1. v \in LogType /\ logs' = Put(logs, next, v)
      BY <2>1, <2>4 DEF v
    <3>2. Put(logs, next, v) \in Files(LogType) BY <2>3, <3>1, PutFiles
    <3>3. DOMAIN Put(logs, next, v) = DOMAIN logs \cup {next}
      BY DEF Put, Over, Single
    <3> QED BY <3>1, <3>2, <3>3
  <2>6. FileTypes'
    BY <2>1, <2>3, <2>5, EntriesJoin DEF FilesInv, FileTypes
  <2>7. Descriptor' /\ Opening'
    BY <2>1, <2>2 DEF FilesInv, Descriptor, Opening, Edits, Synced
  <2>8. Running'
    <3>1. /\ logfile' \in DOMAIN logs' /\ logNumber <= logfile' /\ manifestNo < next'
          /\ \A n \in DOMAIN logs' \cup DOMAIN tables : n < next'
      BY <2>1, <2>2, <2>3, <2>5 DEF FilesInv
    <3>2. flush.phase = "build" => flush.num < next'
      BY <2>1, <2>2, <2>3 DEF FilesInv, FileTypes
    <3>3. \A i \in 1 .. Len(Edits) : Edits[i].next <= next' /\ Edits[i].log <= logfile'
      <4>1. Edits \in Seq(EditType) BY <2>2, EditsType DEF FilesInv
      <4> SUFFICES ASSUME NEW i \in 1 .. Len(Edits)
                   PROVE  Edits[i].next <= next' /\ Edits[i].log <= logfile'
        OBVIOUS
      <4>2. Edits[i].next \in Nat /\ Edits[i].log \in Nat
        BY <4>1, EditsAre
      <4>3. Edits[i].next <= next /\ Edits[i].log <= logfile /\ logfile < next
        BY <2>2 DEF FilesInv
      <4> QED BY <2>1, <2>3, <4>2, <4>3
    <3> QED BY <2>1, <2>2, <3>1, <3>2, <3>3 DEF FilesInv, Stored, Edits, Synced, InFlight, LastEdit
  <2> QED BY <2>6, <2>7, <2>8 DEF FilesInv
<1> QED BY <1>1, <1>2, <1>3, <1>4 DEF LeaderStep

-----------------------------------------------------------------------------
(* The steps of the background thread.                                     *)

\* Running, with the types it relies on.
LEMMA UpIs ==
    ASSUME FilesInv, pc = "up"
    PROVE  /\ current # 0 /\ current = manifestNo /\ manifestNo < next
           /\ next \in Nat /\ logfile \in Nat /\ logNumber \in Nat /\ manifestNo \in Nat
           /\ last \in Nat /\ flush.num \in Nat /\ compact.num \in Nat
           /\ pending \in SUBSET Nat
           /\ logs \in Files(LogType) /\ DOMAIN logs \in SUBSET Nat
           /\ tables \in Files(TableType) /\ DOMAIN tables \in SUBSET Nat
           /\ version \in Files(Nat) /\ DOMAIN version \in SUBSET Nat
           /\ manifests \in Files(ManifestType) /\ manifestNo \in DOMAIN manifests
           /\ manifests[manifestNo] \in ManifestType
           /\ Edits = manifests[manifestNo].edits /\ Synced = manifests[manifestNo].synced
           /\ Edits \in Seq(EditType) /\ Len(Edits) \in Nat /\ Synced \in 0 .. Len(Edits)
           /\ DescriptorOf(current, Edits, Synced, tables)
           /\ LastEdit = Edits[Len(Edits)]
           /\ InFlight => Len(Edits) \in 1 .. Len(Edits)
           /\ logfile \in DOMAIN logs /\ logNumber <= logfile /\ logfile < next
           /\ \A n \in DOMAIN logs \cup DOMAIN tables : n < next
           /\ \A i \in 1 .. Len(Edits) : Edits[i].next <= next /\ Edits[i].log <= logfile
<1>1. current # 0 /\ current = manifestNo BY DEF FilesInv, Running
<1>2. /\ manifests \in Files(ManifestType) /\ manifestNo \in DOMAIN manifests
      /\ manifests[manifestNo] \in ManifestType
      /\ Edits = manifests[manifestNo].edits /\ Synced = manifests[manifestNo].synced
      /\ Edits \in Seq(EditType) /\ Len(Edits) \in Nat /\ Synced \in 0 .. Len(Edits)
      /\ DescriptorOf(current, Edits, Synced, tables)
  BY <1>1, EditsType DEF Edits, Synced
<1>3. /\ logs \in Files(LogType) /\ tables \in Files(TableType) /\ version \in Files(Nat)
      /\ next \in Nat /\ logfile \in Nat /\ logNumber \in Nat /\ manifestNo \in Nat
      /\ last \in Nat /\ flush.num \in Nat /\ compact.num \in Nat /\ pending \in SUBSET Nat
  BY DEF FilesInv, FileTypes
<1>4. /\ DOMAIN logs \in SUBSET Nat /\ DOMAIN tables \in SUBSET Nat
      /\ DOMAIN version \in SUBSET Nat
  BY <1>3, FilesMeans
<1>5. LastEdit = Edits[Len(Edits)] BY <1>2 DEF LastEdit, Last
<1>6. /\ manifestNo < next
      /\ logfile \in DOMAIN logs /\ logNumber <= logfile
      /\ \A n \in DOMAIN logs \cup DOMAIN tables : n < next
      /\ \A i \in 1 .. Len(Edits) : Edits[i].next <= next /\ Edits[i].log <= logfile
      /\ InFlight => Synced < Len(Edits)
  BY DEF FilesInv, Running
<1>7. InFlight => Len(Edits) \in 1 .. Len(Edits) BY <1>2, <1>6
<1> QED BY <1>1, <1>2, <1>3, <1>4, <1>5, <1>6, <1>7

\* A descriptor is rewritten.
LEMMA ManifestWith ==
    ASSUME manifests \in Files(ManifestType), manifestNo \in DOMAIN manifests,
           NEW E \in Seq(EditType)
    PROVE  LET m == [manifests EXCEPT ![manifestNo].edits = E]
           IN  /\ m \in Files(ManifestType) /\ DOMAIN m = DOMAIN manifests
               /\ m[manifestNo].edits = E
               /\ m[manifestNo].synced = manifests[manifestNo].synced
<1>1. manifests[manifestNo] \in ManifestType
  <2>1. manifests \in [DOMAIN manifests -> ManifestType] BY FilesMeans
  <2> QED BY <2>1
<1> DEFINE a == [manifests[manifestNo] EXCEPT !.edits = E]
           m == [manifests EXCEPT ![manifestNo].edits = E]
<1>2. /\ a \in ManifestType
      /\ a.edits = E /\ a.synced = manifests[manifestNo].synced
  BY <1>1 DEF ManifestType
<1>3. m = [manifests EXCEPT ![manifestNo] = a] OBVIOUS
<1> HIDE DEF a, m
<1>4. [manifests EXCEPT ![manifestNo] = a] \in Files(ManifestType)
  BY <1>2, ExceptFiles
<1>5. DOMAIN m = DOMAIN manifests /\ m[manifestNo] = a BY <1>3
<1> QED BY <1>2, <1>3, <1>4, <1>5 DEF m

\* A descriptor is synced.
LEMMA ManifestSynced ==
    ASSUME manifests \in Files(ManifestType), manifestNo \in DOMAIN manifests,
           NEW s \in Nat
    PROVE  LET m == [manifests EXCEPT ![manifestNo].synced = s]
           IN  /\ m \in Files(ManifestType) /\ DOMAIN m = DOMAIN manifests
               /\ m[manifestNo].synced = s
               /\ m[manifestNo].edits = manifests[manifestNo].edits
<1>1. manifests[manifestNo] \in ManifestType
  <2>1. manifests \in [DOMAIN manifests -> ManifestType] BY FilesMeans
  <2> QED BY <2>1
<1> DEFINE a == [manifests[manifestNo] EXCEPT !.synced = s]
           m == [manifests EXCEPT ![manifestNo].synced = s]
<1>2. /\ a \in ManifestType
      /\ a.synced = s /\ a.edits = manifests[manifestNo].edits
  BY <1>1 DEF ManifestType
<1>3. m = [manifests EXCEPT ![manifestNo] = a] OBVIOUS
<1> HIDE DEF a, m
<1>4. [manifests EXCEPT ![manifestNo] = a] \in Files(ManifestType)
  BY <1>2, ExceptFiles
<1>5. DOMAIN m = DOMAIN manifests /\ m[manifestNo] = a BY <1>3
<1> QED BY <1>2, <1>3, <1>4, <1>5 DEF m

\* DeleteObsoleteFiles keeps what it was told is live, and the descriptor in
\* use.
LEMMA ObsoleteFiles ==
    ASSUME NEW l \in Files(LogType), NEW t \in Files(TableType), NEW m \in Files(ManifestType),
           NEW v, NEW log, NEW p, NEW h,
           DeleteObsoleteFiles(l, t, m, v, log, p, h), manifestNo \in Nat, log \in Nat
    PROVE  /\ logs' \in Files(LogType) /\ tables' \in Files(TableType)
           /\ manifests' \in Files(ManifestType)
           /\ DOMAIN logs' \subseteq DOMAIN l /\ DOMAIN tables' \subseteq DOMAIN t
           /\ \A n \in DOMAIN l : log <= n => n \in DOMAIN logs'
           /\ \A n \in DOMAIN tables' : tables'[n] = t[n]
           /\ \A n \in DOMAIN t : n \in LiveTables(v, p, h) => n \in DOMAIN tables'
           /\ manifestNo \in DOMAIN m => /\ manifestNo \in DOMAIN manifests'
                                         /\ manifests'[manifestNo] = m[manifestNo]
           /\ bgError => tables' = t
           /\ ~bgError => DOMAIN tables' \subseteq LiveTables(v, p, h)
<1>1. CASE bgError BY <1>1 DEF DeleteObsoleteFiles
<1>2. CASE ~bgError
  <2> DEFINE dl == {n \in DOMAIN l : n < log}
             dt == DOMAIN t \ LiveTables(v, p, h)
             dm == {n \in DOMAIN m : n < manifestNo}
  <2>1. logs' = Without(l, dl) /\ tables' = Without(t, dt) /\ manifests' = Without(m, dm)
    BY <1>2 DEF DeleteObsoleteFiles
  <2>0. DOMAIN l \in SUBSET Nat BY FilesMeans
  <2>2. /\ \A n \in DOMAIN l : log <= n => n \notin dl
        /\ manifestNo \notin dm
        /\ \A n \in DOMAIN t : n \in dt <=> n \notin LiveTables(v, p, h)
    BY <2>0
  <2> HIDE DEF dl, dt, dm
  <2>3. /\ logs' \in Files(LogType) /\ tables' \in Files(TableType)
        /\ manifests' \in Files(ManifestType)
    BY <2>1, WithoutFiles
  <2>4. /\ DOMAIN logs' = DOMAIN l \ dl /\ DOMAIN tables' = DOMAIN t \ dt
        /\ DOMAIN manifests' = DOMAIN m \ dm
        /\ \A n \in DOMAIN t \ dt : tables'[n] = t[n]
        /\ \A n \in DOMAIN m \ dm : manifests'[n] = m[n]
    BY <2>1 DEF Without
  <2> QED BY <1>2, <2>2, <2>3, <2>4
<1> QED BY <1>1, <1>2

\* LogAndApply appends the record of a new version: FlushBuilt, CompactionBuilt
\* and the trivial move.
LEMMA LogsEdit ==
    ASSUME FilesInv, pc = "up", pc' = "up", ~InFlight,
           NEW e \in EditType, e.ok, e.next = next, e.log <= logfile,
           \A n \in DOMAIN e.add : n < next,
           manifests' = LogEdit(e),
           UNCHANGED <<logs, current, version, next, logNumber, manifestNo, logfile, pinned,
                       bgError>>,
           \A n \in DOMAIN tables' : n < next,
           \A n \in DOMAIN tables : n \in DOMAIN tables' /\ (tables[n].done => tables'[n].done),
           StoredIn(DOMAIN e.add, tables'),
           compact'.held \in {compact.held, DOMAIN version},
           flush'.phase # "build", InFlight',
           compact'.phase = "merge" =>
              /\ compact'.num \in pending' \cap DOMAIN tables'
              /\ flush'.num # compact'.num
    PROVE  /\ Descriptor' /\ Opening' /\ Running'
           /\ manifests' \in Files(ManifestType)
<1>0. /\ current # 0 /\ current = manifestNo /\ manifestNo < next
      /\ next \in Nat /\ logfile \in Nat /\ manifestNo \in Nat
      /\ manifests \in Files(ManifestType) /\ manifestNo \in DOMAIN manifests
      /\ Edits = manifests[manifestNo].edits /\ Synced = manifests[manifestNo].synced
      /\ Edits \in Seq(EditType) /\ Len(Edits) \in Nat /\ Synced \in 0 .. Len(Edits)
      /\ DescriptorOf(current, Edits, Synced, tables)
      /\ logfile < next
      /\ \A i \in 1 .. Len(Edits) : Edits[i].next <= next /\ Edits[i].log <= logfile
      /\ e.log \in Nat /\ e.add \in Files(Nat)
  BY UpIs DEF EditType
<1> DEFINE A == Append(Edits, e)
           n == Len(Edits)
<1>1. /\ A \in Seq(EditType) /\ Len(A) = n + 1
      /\ \A i \in 1 .. n : A[i] = Edits[i]
      /\ A[n + 1] = e
      /\ DOMAIN FilesAfter(A)[n + 1] = DOMAIN e.add \cup (DOMAIN FilesAfter(Edits)[n] \ e.del)
  BY <1>0, FilesAfterAppend
<1> HIDE DEF A
<1>2. /\ manifests' \in Files(ManifestType) /\ DOMAIN manifests' = DOMAIN manifests
      /\ manifests'[manifestNo].edits = A
      /\ manifests'[manifestNo].synced = manifests[manifestNo].synced
  <2>1. manifests' = [manifests EXCEPT ![manifestNo].edits = A]
    BY <1>0 DEF LogEdit, A
  <2>2. LET m == [manifests EXCEPT ![manifestNo].edits = A]
        IN  /\ m \in Files(ManifestType) /\ DOMAIN m = DOMAIN manifests
            /\ m[manifestNo].edits = A
            /\ m[manifestNo].synced = manifests[manifestNo].synced
    BY <1>0, <1>1, ManifestWith
  <2> QED BY <2>1, <2>2
<1>3. Edits' = A /\ Synced' = Synced /\ LastEdit' = e
  BY <1>0, <1>1, <1>2 DEF Edits, Synced, LastEdit, Last
<1>4. DescriptorOf(current, A, Synced, tables')
  <2>1. DescriptorOf(current, Edits, Synced, tables')
    BY <1>0, DescriptorTables
  <2>2. e.log < e.next /\ current < e.next BY <1>0
  <2> QED BY <1>0, <2>1, <2>2, DescriptorAppend DEF A
<1>5. Descriptor' BY <1>0, <1>2, <1>3, <1>4 DEF Descriptor
<1>6. Opening' BY DEF Opening
<1>7. \A S : Stored(S) => StoredIn(S, tables') BY DEF Stored, StoredIn
<1>8. \A i \in 1 .. Len(A) : A[i].next <= next /\ A[i].log <= logfile
  <2> SUFFICES ASSUME NEW i \in 1 .. Len(A) PROVE A[i].next <= next /\ A[i].log <= logfile
    OBVIOUS
  <2>1. CASE i = n + 1 BY <1>0, <1>1, <2>1
  <2>2. CASE i # n + 1
    <3>1. i \in 1 .. n BY <1>0, <1>1, <2>2
    <3> QED BY <1>0, <1>1, <3>1
  <2> QED BY <2>1, <2>2
<1>9. Stored(DOMAIN version)' /\ Stored(pinned)' /\ Stored(compact.held)'
  <2>1. Stored(DOMAIN version) /\ Stored(pinned) /\ Stored(compact.held)
    BY DEF FilesInv, Running
  <2> QED BY <1>7, <2>1 DEF Stored
<1>10. bgError \/ ( /\ \A i \in 1 .. Len(A) : A[i].ok
                    /\ DOMAIN FilesAfter(A)[Len(A)] = DOMAIN ApplyEdit(version, e) )
  <2> SUFFICES ASSUME ~bgError
               PROVE  /\ \A i \in 1 .. Len(A) : A[i].ok
                      /\ DOMAIN FilesAfter(A)[Len(A)] = DOMAIN ApplyEdit(version, e)
    OBVIOUS
  <2>1. /\ \A i \in 1 .. n : Edits[i].ok
        /\ DOMAIN FilesAfter(Edits)[n] = DOMAIN version
    BY DEF FilesInv, Running
  <2>2. DOMAIN ApplyEdit(version, e) = DOMAIN e.add \cup (DOMAIN version \ e.del)
    BY DEF ApplyEdit, Over, Without
  <2>3. \A i \in 1 .. Len(A) : i \in 1 .. n \/ i = n + 1 BY <1>0, <1>1
  <2> QED BY <1>1, <2>1, <2>2, <2>3
<1>11. logfile \in DOMAIN logs /\ logNumber <= logfile /\ \A k \in DOMAIN logs : k < next
  BY UpIs
<1>12. Synced < Len(A) /\ StoredIn(DOMAIN e.add, tables') BY <1>0, <1>1
<1>13. Running'
  BY <1>0, <1>1, <1>3, <1>8, <1>9, <1>10, <1>11, <1>12 DEF Running, Stored
<1> QED BY <1>2, <1>5, <1>6, <1>13

\* LogAndApply returns: the descriptor is synced, the version installed, and
\* what is obsolete deleted.
LEMMA InstallsEdit ==
    ASSUME ControlInv, FilesInv, pc = "up", pc' = "up", InFlight, ~InFlight',
           version' = ApplyEdit(version, LastEdit),
           logNumber' = LastEdit.log,
           UNCHANGED <<current, next, manifestNo, logfile, pinned, bgError>>,
           \/ DeleteObsoleteFiles(logs, tables, SyncedManifests, version', logNumber', pending',
                                  compact'.held)
           \/ manifests' = SyncedManifests /\ UNCHANGED <<logs, tables>>,
           compact'.held \in {compact.held, {}},
           flush'.phase = "none",
           compact'.phase = "merge" => UNCHANGED <<compact, pending>>
    PROVE  /\ Descriptor' /\ Opening' /\ Running'
           /\ logs' \in Files(LogType) /\ tables' \in Files(TableType)
           /\ manifests' \in Files(ManifestType)
           /\ version' \in Files(Nat) /\ logNumber' \in Nat
<1>0. /\ current # 0 /\ current = manifestNo /\ manifestNo < next
      /\ next \in Nat /\ logfile \in Nat /\ logNumber \in Nat /\ manifestNo \in Nat
      /\ logs \in Files(LogType) /\ tables \in Files(TableType) /\ version \in Files(Nat)
      /\ manifests \in Files(ManifestType) /\ manifestNo \in DOMAIN manifests
      /\ Edits = manifests[manifestNo].edits /\ Synced = manifests[manifestNo].synced
      /\ Edits \in Seq(EditType) /\ Len(Edits) \in Nat /\ Synced \in 0 .. Len(Edits)
      /\ DescriptorOf(current, Edits, Synced, tables)
      /\ LastEdit = Edits[Len(Edits)] /\ Len(Edits) \in 1 .. Len(Edits)
      /\ logfile \in DOMAIN logs
      /\ \A n \in DOMAIN logs \cup DOMAIN tables : n < next
      /\ \A i \in 1 .. Len(Edits) : Edits[i].next <= next /\ Edits[i].log <= logfile
  BY UpIs
<1>1. LastEdit \in EditType /\ LastEdit.add \in Files(Nat) /\ LastEdit.log \in Nat
  BY <1>0, EditsAre
<1>2. version' \in Files(Nat) /\ logNumber' \in Nat /\ logNumber' <= logfile
  <2>1. ApplyEdit(version, LastEdit) \in Files(Nat)
    BY <1>0, <1>1, ApplyEditFiles
  <2> QED BY <1>0, <1>1, <2>1
<1>3. DOMAIN version' = DOMAIN LastEdit.add \cup (DOMAIN version \ LastEdit.del)
  BY DEF ApplyEdit, Over, Without
<1>4. /\ SyncedManifests \in Files(ManifestType) /\ DOMAIN SyncedManifests = DOMAIN manifests
      /\ SyncedManifests[manifestNo].edits = Edits
      /\ SyncedManifests[manifestNo].synced = Len(Edits)
  <2>1. SyncedManifests = [manifests EXCEPT ![manifestNo].synced = Len(Edits)]
    BY <1>0 DEF SyncedManifests
  <2> QED BY <1>0, <2>1, ManifestSynced
<1>5. /\ logs' \in Files(LogType) /\ tables' \in Files(TableType)
      /\ manifests' \in Files(ManifestType)
      /\ DOMAIN logs' \subseteq DOMAIN logs /\ DOMAIN tables' \subseteq DOMAIN tables
      /\ logfile \in DOMAIN logs'
      /\ \A n \in DOMAIN tables' : tables'[n] = tables[n]
      /\ manifestNo \in DOMAIN manifests'
      /\ manifests'[manifestNo] = SyncedManifests[manifestNo]
      /\ bgError => tables' = tables
      /\ \A n \in DOMAIN tables :
            n \in LiveTables(version', pending', compact'.held) => n \in DOMAIN tables'
  <2>1. CASE manifests' = SyncedManifests /\ UNCHANGED <<logs, tables>>
    BY <1>0, <1>4, <2>1
  <2>2. CASE DeleteObsoleteFiles(logs, tables, SyncedManifests, version', logNumber', pending',
                                 compact'.held)
    <3> DEFINE m == SyncedManifests
               v == version'
               l == logNumber'
               p == pending'
               h == compact'.held
    <3>1. /\ m \in Files(ManifestType) /\ manifestNo \in DOMAIN m /\ l \in Nat /\ l <= logfile
          /\ DeleteObsoleteFiles(logs, tables, m, v, l, p, h)
      BY <1>0, <1>2, <1>4, <2>2
    <3> HIDE DEF m, v, l, p, h
    <3>2. /\ logs' \in Files(LogType) /\ tables' \in Files(TableType)
          /\ manifests' \in Files(ManifestType)
          /\ DOMAIN logs' \subseteq DOMAIN logs /\ DOMAIN tables' \subseteq DOMAIN tables
          /\ \A n \in DOMAIN logs : l <= n => n \in DOMAIN logs'
          /\ \A n \in DOMAIN tables' : tables'[n] = tables[n]
          /\ \A n \in DOMAIN tables : n \in LiveTables(v, p, h) => n \in DOMAIN tables'
          /\ manifestNo \in DOMAIN manifests' /\ manifests'[manifestNo] = m[manifestNo]
          /\ bgError => tables' = tables
      BY <1>0, <3>1, ObsoleteFiles
    <3>3. logfile \in DOMAIN logs' BY <1>0, <3>1, <3>2
    <3> QED BY <3>2, <3>3 DEF m, v, l, p, h
  <2> QED BY <2>1, <2>2
<1>6. Edits' = Edits /\ Synced' = Len(Edits)
  BY <1>0, <1>4, <1>5 DEF Edits, Synced
<1>7. \A S : Stored(S) /\ S \subseteq LiveTables(version', pending', compact'.held)
             => StoredIn(S, tables')
  BY <1>5 DEF Stored, StoredIn
<1>8. Stored(DOMAIN version) BY DEF FilesInv, Running
<1>9. Stored(DOMAIN version') /\ StoredIn(DOMAIN version', tables')
  <2>1. Stored(DOMAIN LastEdit.add) BY DEF FilesInv, Running
  <2>2. Stored(DOMAIN version') BY <1>3, <1>8, <2>1 DEF Stored, StoredIn
  <2> QED BY <1>7, <2>2 DEF LiveTables
<1>10. ~bgError => /\ \A i \in 1 .. Len(Edits) : Edits[i].ok
                   /\ DOMAIN FilesAfter(Edits)[Len(Edits)] = DOMAIN version'
  BY DEF FilesInv, Running
<1>11. DescriptorOf(current, Edits, Len(Edits), tables')
  <2>1. CASE bgError
    <3>1. tables' = tables BY <1>5, <2>1
    <3>2. Synced <= Len(Edits) /\ Len(Edits) <= Len(Edits) BY <1>0
    <3>3. DescriptorOf(current, Edits, Len(Edits), tables)
      BY <1>0, <3>2, DescriptorPrefix
    <3> QED BY <3>1, <3>3
  <2>2. CASE ~bgError
    <3>1. StoredIn(DOMAIN FilesAfter(Edits)[Len(Edits)], tables') /\ Len(Edits) # 0
      BY <1>0, <1>9, <1>10, <2>2
    <3> QED BY <1>0, <1>10, <2>2, <3>1, DescriptorSynced
  <2> QED BY <2>1, <2>2
<1>12. Descriptor' BY <1>0, <1>5, <1>6, <1>11 DEF Descriptor
<1>13. Opening' BY DEF Opening
<1>14. Stored(pinned)' /\ Stored(compact.held)' /\ Stored(DOMAIN version)'
  <2>1. Stored(pinned) /\ Stored(compact.held) BY DEF FilesInv, Running
  <2>2. StoredIn(pinned, tables') BY <1>7, <2>1 DEF LiveTables
  <2>3. StoredIn(compact'.held, tables')
    <3>1. Stored(compact'.held) BY <2>1 DEF Stored, StoredIn
    <3> QED BY <1>7, <3>1 DEF LiveTables
  <2> QED BY <1>9, <2>2, <2>3 DEF Stored
<1>15. compact'.phase = "merge" => compact'.num \in pending' \cap DOMAIN tables'
  BY <1>5 DEF FilesInv, Running, LiveTables
<1>16. \A n \in DOMAIN logs' \cup DOMAIN tables' : n < next
  BY <1>0, <1>5
<1>17. Running'
  BY <1>0, <1>2, <1>5, <1>6, <1>10, <1>14, <1>15, <1>16 DEF Running, Stored
<1> QED BY <1>2, <1>5, <1>12, <1>13, <1>17

\* The append or the sync of a record of the descriptor fails.
LEMMA FailsEdit ==
    ASSUME FilesInv, pc = "up", pc' = "up", InFlight, ~InFlight',
           manifests' \in BrokenManifests, bgError' = TRUE,
           UNCHANGED <<logs, tables, current, version, next, logNumber, manifestNo, logfile,
                       pinned>>,
           compact'.held \in {compact.held, {}},
           flush'.phase = "none",
           compact'.phase = "merge" =>
              UNCHANGED compact /\ flush.phase # "none" /\ pending' = pending \ {flush.num}
    PROVE  /\ Descriptor' /\ Opening' /\ Running'
           /\ manifests' \in Files(ManifestType)
<1>0. /\ current # 0 /\ current = manifestNo /\ manifestNo < next
      /\ next \in Nat /\ logfile \in Nat /\ logNumber \in Nat /\ manifestNo \in Nat
      /\ manifests \in Files(ManifestType) /\ manifestNo \in DOMAIN manifests
      /\ Edits = manifests[manifestNo].edits /\ Synced = manifests[manifestNo].synced
      /\ Edits \in Seq(EditType) /\ Len(Edits) \in Nat /\ Synced \in 0 .. Len(Edits)
      /\ DescriptorOf(current, Edits, Synced, tables)
      /\ LastEdit = Edits[Len(Edits)] /\ Len(Edits) \in 1 .. Len(Edits)
      /\ logfile \in DOMAIN logs /\ logNumber <= logfile
      /\ \A n \in DOMAIN logs \cup DOMAIN tables : n < next
      /\ \A i \in 1 .. Len(Edits) : Edits[i].next <= next /\ Edits[i].log <= logfile
  BY UpIs
<1>a. Synced < Len(Edits)
  BY DEF FilesInv, Running
<1> DEFINE F == Front(Edits)
           torn == [LastEdit EXCEPT !.ok = FALSE]
           A == Append(F, torn)
           n == Len(Edits) - 1
<1>1. n \in Nat /\ n + 1 = Len(Edits) BY <1>0
<1>2. /\ F \in Seq(EditType) /\ Len(F) = n /\ \A i \in 1 .. n : F[i] = Edits[i]
  <2>1. \A i \in 1 .. n : Edits[i] \in EditType BY <1>0, <1>1, EditsAre
  <2>2. F = SubSeq(Edits, 1, n) BY DEF Front
  <2>3. /\ SubSeq(Edits, 1, n) \in Seq(EditType)
        /\ Len(SubSeq(Edits, 1, n)) = (IF 1 <= n THEN n - 1 + 1 ELSE 0)
        /\ \A i \in 1 .. n - 1 + 1 : SubSeq(Edits, 1, n)[i] = Edits[1 + i - 1]
    <3>1. n \in Int /\ 1 \in Int BY <1>1
    <3> HIDE DEF n
    <3> QED BY <2>1, <3>1, SubSeqProperties
  <2>4. Len(F) = n BY <1>1, <2>2, <2>3
  <2>5. \A i \in 1 .. n : F[i] = Edits[i]
    <3> HIDE DEF F
    <3> SUFFICES ASSUME NEW i \in 1 .. n PROVE F[i] = Edits[i] OBVIOUS
    <3>1. i \in 1 .. n - 1 + 1 /\ 1 + i - 1 = i BY <1>1
    <3> QED BY <2>2, <2>3, <3>1
  <2> QED BY <2>2, <2>3, <2>4, <2>5
<1>3. /\ torn \in EditType /\ ~torn.ok
      /\ torn.add = LastEdit.add /\ torn.log = LastEdit.log /\ torn.next = LastEdit.next
  <2>1. LastEdit \in EditType BY <1>0, EditsAre
  <2> QED BY <2>1 DEF EditType
<1> HIDE DEF F, torn
<1>4. /\ A \in Seq(EditType) /\ Len(A) = n + 1
      /\ \A i \in 1 .. n : A[i] = Edits[i]
      /\ A[n + 1] = torn
  <2>1. /\ A \in Seq(EditType) /\ Len(A) = Len(F) + 1
        /\ \A i \in 1 .. Len(F) : A[i] = F[i]
        /\ A[Len(F) + 1] = torn
    BY <1>2, <1>3, AppendProperties
  <2> HIDE DEF A, n
  <2> QED BY <1>2, <2>1
<1> HIDE DEF A
<1>5. PICK E \in Seq(EditType) :
         /\ E \in {Edits, F} \/ (MayTear /\ E = A)
         /\ manifests' = [manifests EXCEPT ![manifestNo].edits = E]
  BY <1>0, <1>2, <1>4 DEF BrokenManifests, F, A, torn
<1>6. /\ manifests' \in Files(ManifestType) /\ DOMAIN manifests' = DOMAIN manifests
      /\ manifests'[manifestNo].edits = E
      /\ manifests'[manifestNo].synced = manifests[manifestNo].synced
  BY <1>0, <1>5, ManifestWith
<1>7. Edits' = E /\ Synced' = Synced BY <1>0, <1>6 DEF Edits, Synced
<1>8. /\ DescriptorOf(current, E, Synced, tables)
      /\ \A i \in 1 .. Len(E) : E[i].next <= next /\ E[i].log <= logfile
  <2>1. CASE E = Edits BY <1>0, <2>1
  <2>2. CASE E = F
    <3>1. Synced \in Nat /\ Synced <= Synced /\ Synced <= Len(F) /\ Len(F) <= Len(Edits)
      BY <1>0, <1>a, <1>1, <1>2
    <3>2. DescriptorOf(current, F, Synced, tables)
      BY <1>0, <1>2, <3>1, DescriptorPrefix
    <3>3. \A i \in 1 .. Len(F) : i \in 1 .. Len(Edits) /\ F[i] = Edits[i]
      <4> SUFFICES ASSUME NEW i \in 1 .. n PROVE i \in 1 .. Len(Edits) /\ F[i] = Edits[i]
        BY <1>2
      <4> QED BY <1>0, <1>2
    <3> QED BY <1>0, <2>2, <3>2, <3>3
  <2>3. CASE MayTear /\ E = A
    <3>1. /\ Len(A) = Len(Edits) /\ \A i \in 1 .. Len(Edits) - 1 : A[i] = Edits[i]
          /\ A[Len(Edits)] = torn
      BY <1>1, <1>4
    <3>2. DescriptorOf(current, A, Synced, tables)
      BY <1>0, <1>a, <1>3, <1>4, <2>3, <3>1, DescriptorTorn
    <3>3. \A i \in 1 .. Len(A) : A[i].next = Edits[i].next /\ A[i].log = Edits[i].log
      <4> SUFFICES ASSUME NEW i \in 1 .. Len(A)
                   PROVE  A[i].next = Edits[i].next /\ A[i].log = Edits[i].log
        OBVIOUS
      <4>1. i \in 1 .. Len(Edits) - 1 \/ i = Len(Edits) BY <1>0, <3>1
      <4> QED BY <1>0, <1>3, <3>1, <4>1
    <3> QED BY <1>0, <2>3, <3>1, <3>2, <3>3
  <2> QED BY <1>5, <2>1, <2>2, <2>3
<1>9. Descriptor' BY <1>0, <1>6, <1>7, <1>8 DEF Descriptor
<1>10. Opening' BY DEF Opening
<1>11. Stored(DOMAIN version)' /\ Stored(pinned)' /\ Stored(compact.held)'
  BY DEF FilesInv, Running, Stored, StoredIn
<1>12. compact'.phase = "merge" => compact'.num \in pending' \cap DOMAIN tables'
  BY DEF FilesInv, Running
<1>13. Running' BY <1>0, <1>7, <1>8, <1>11, <1>12 DEF Running, Stored
<1> QED BY <1>6, <1>9, <1>10, <1>13

\* Tables are made, finished and removed while no record is in flight:
\* StartFlush, StartCompaction and BuildTable that fails.
LEMMA TablesChange ==
    ASSUME FilesInv, pc = "up", pc' = "up",
           UNCHANGED <<logs, manifests, current, version, logNumber, manifestNo, logfile, pinned>>,
           next' \in Nat, next <= next', bgError => bgError',
           InFlight' <=> InFlight,
           \A n \in DOMAIN tables' : n < next',
           \A n \in DOMAIN tables :
              tables[n].done => \/ n \in DOMAIN tables' /\ tables'[n].done
                                \/ flush.phase = "build" /\ n = flush.num,
           compact'.held \in {compact.held, DOMAIN version},
           flush'.phase = "build" => flush'.num = next /\ next < next',
           compact'.phase = "merge" =>
              /\ compact'.num \in pending' \cap DOMAIN tables'
              /\ flush'.phase # "none" => flush'.num # compact'.num
    PROVE  Descriptor' /\ Opening' /\ Running'
<1>0. /\ current # 0 /\ current = manifestNo /\ manifestNo < next
      /\ next \in Nat /\ logfile \in Nat /\ manifestNo \in Nat
      /\ Edits \in Seq(EditType) /\ Len(Edits) \in Nat /\ Synced \in 0 .. Len(Edits)
      /\ DescriptorOf(current, Edits, Synced, tables)
      /\ DOMAIN tables \in SUBSET Nat /\ DOMAIN logs \in SUBSET Nat
      /\ \A n \in DOMAIN logs \cup DOMAIN tables : n < next
      /\ \A i \in 1 .. Len(Edits) : Edits[i].next <= next /\ Edits[i].log <= logfile
  BY UpIs
<1>1. Edits' = Edits /\ Synced' = Synced /\ LastEdit' = LastEdit
  BY DEF Edits, Synced, LastEdit
<1>2. flush.phase = "build" => \A i \in 1 .. Len(Edits) : flush.num \notin DOMAIN Edits[i].add
  BY DEF FilesInv, Running
<1>3. DescriptorOf(current, Edits, Synced, tables')
  <2>1. \A n \in DOMAIN tables :
           tables[n].done /\ (\E i \in 1 .. Len(Edits) : n \in DOMAIN Edits[i].add)
           => n \in DOMAIN tables' /\ tables'[n].done
    BY <1>2
  <2> QED BY <1>0, <2>1, DescriptorTables
<1>4. Descriptor' BY <1>0, <1>1, <1>3 DEF FilesInv, Descriptor
<1>5. Opening' BY DEF Opening
<1>6. \A S : Stored(S) /\ (flush.phase = "build" => flush.num \notin S) => StoredIn(S, tables')
  BY DEF Stored, StoredIn
<1>7. /\ StoredIn(DOMAIN version, tables') /\ StoredIn(pinned, tables')
      /\ StoredIn(compact'.held, tables')
  <2>1. /\ Stored(DOMAIN version) /\ Stored(pinned) /\ Stored(compact'.held)
        /\ flush.phase = "build" => flush.num \notin DOMAIN version \cup pinned \cup compact'.held
    BY DEF FilesInv, Running
  <2> QED BY <1>6, <2>1
<1>8. \A n \in DOMAIN logs : n < next' BY <1>0
<1>9. \A i \in 1 .. Len(Edits) : Edits[i].next <= next' /\ Edits[i].log <= logfile
  <2> SUFFICES ASSUME NEW i \in 1 .. Len(Edits)
               PROVE  Edits[i].next <= next' /\ Edits[i].log <= logfile
    OBVIOUS
  <2>1. Edits[i].next \in Nat BY <1>0, EditsAre
  <2> QED BY <1>0, <2>1
<1>10. flush'.phase = "build" =>
          /\ flush'.num < next'
          /\ flush'.num \notin DOMAIN version \cup pinned \cup compact'.held
          /\ \A i \in 1 .. Len(Edits) : flush'.num \notin DOMAIN Edits[i].add
  <2> SUFFICES ASSUME flush'.phase = "build"
               PROVE  /\ flush'.num \notin DOMAIN version \cup pinned \cup compact'.held
                      /\ \A i \in 1 .. Len(Edits) : flush'.num \notin DOMAIN Edits[i].add
    OBVIOUS
  <2>1. flush'.num = next OBVIOUS
  <2>2. next \notin DOMAIN tables BY <1>0
  <2>3. next \notin DOMAIN version \cup pinned \cup compact'.held
    BY <2>2 DEF FilesInv, Running, Stored, StoredIn
  <2>4. ASSUME NEW i \in 1 .. Len(Edits), next \in DOMAIN Edits[i].add PROVE FALSE
    <3>1. next < Edits[i].next /\ Edits[i].next <= next /\ Edits[i].next \in Nat
      BY <1>0, <2>4, EditsAre DEF DescriptorOf, Numbered
    <3> QED BY <1>0, <3>1
  <2> QED BY <2>1, <2>3, <2>4
<1>11. InFlight => Synced < Len(Edits) /\ StoredIn(DOMAIN LastEdit.add, tables')
  <2> SUFFICES ASSUME InFlight
               PROVE  Synced < Len(Edits) /\ StoredIn(DOMAIN LastEdit.add, tables')
    OBVIOUS
  <2>1. Synced < Len(Edits) /\ Stored(DOMAIN LastEdit.add)
    BY DEF FilesInv, Running
  <2>2. Len(Edits) \in 1 .. Len(Edits) /\ LastEdit = Edits[Len(Edits)]
    BY UpIs
  <2> QED BY <1>2, <1>6, <2>1, <2>2
<1>12. manifestNo < next' BY <1>0
<1>13. Running'
  BY <1>1, <1>7, <1>8, <1>9, <1>10, <1>11, <1>12 DEF FilesInv, Running, Stored
<1> QED BY <1>4, <1>5, <1>13

\* A table is made or replaced.
LEMMA PutTable ==
    ASSUME NEW T, T \in Files(TableType), NEW k \in Nat, NEW e \in EntrySets, NEW d \in BOOLEAN
    PROVE  Put(T, k, [done |-> d, entries |-> e]) \in Files(TableType)
<1> DEFINE v == [done |-> d, entries |-> e]
<1>1. v \in TableType BY DEF TableType
<1> HIDE DEF v
<1>2. Put(T, k, v) \in Files(TableType) BY <1>1, PutFiles
<1> QED BY <1>2 DEF v

\* The edits the background thread writes.
LEMMA EditIs ==
    ASSUME NEW add \in Files(Nat), NEW del \in SUBSET Nat, NEW l \in Nat, NEW n \in Nat, NEW s \in Nat
    PROVE  /\ Edit(add, del, l, n, s) \in EditType
           /\ Edit(add, del, l, n, s).ok
           /\ Edit(add, del, l, n, s).add = add /\ Edit(add, del, l, n, s).del = del
           /\ Edit(add, del, l, n, s).log = l /\ Edit(add, del, l, n, s).next = n
  BY DEF Edit, EditType

\* CompactMemTable keeps every table the descriptor or a reader names, at each
\* point it may fail.
LEMMA FlushFiles ==
    ASSUME ControlInv, FilesInv, StartFlush \/ FlushBuilt \/ FlushInstalled \/ FlushFailed
    PROVE  FilesInv'
<1>1. CASE StartFlush
  <2>1. /\ pc = "up" /\ flush = NoFlush
        /\ compact = NoCompact \/ compact.phase = "merge"
        /\ flush' = [num |-> next, phase |-> "build"]
        /\ next' = next + 1 /\ pending' = pending \cup {next}
        /\ tables' = IF imm = <<{}>> THEN tables
                     ELSE Put(tables, next, [done |-> FALSE, entries |-> {}])
        /\ UNCHANGED <<logs, manifests, current, version, last, logNumber, manifestNo, pc,
                       recovering, opened, mem, imm, logfile, compact, bgError, pinned>>
    BY <1>1 DEF StartFlush, opening, memory
  <2>2. /\ next \in Nat /\ tables \in Files(TableType) /\ DOMAIN tables \in SUBSET Nat
        /\ \A n \in DOMAIN tables : n < next
        /\ pending \in SUBSET Nat
    BY <2>1, UpIs
  <2>3. flush'.num = next /\ flush'.phase = "build" /\ ~InFlight /\ ~InFlight'
    BY <2>1, NoJobs DEF InFlight
  <2>4. /\ tables' \in Files(TableType)
        /\ \A n \in DOMAIN tables' : n < next'
        /\ \A n \in DOMAIN tables : n \in DOMAIN tables' /\ tables'[n] = tables[n]
    <3>1. CASE imm = <<{}>> BY <2>1, <2>2, <3>1
    <3>2. CASE imm # <<{}>>
      <4> DEFINE P == Put(tables, next, [done |-> FALSE, entries |-> {}])
      <4>0. P \in Files(TableType) BY <2>2, EntriesJoin, PutTable
      <4>1. /\ DOMAIN P = DOMAIN tables \cup {next}
            /\ \A n \in DOMAIN tables : n # next => P[n] = tables[n]
        BY DEF Put, Over, Single
      <4>2. tables' = P BY <2>1, <3>2
      <4> HIDE DEF P
      <4> QED BY <2>1, <2>2, <4>0, <4>1, <4>2
    <3> QED BY <3>1, <3>2
  <2>5. compact'.phase = "merge" =>
          /\ compact'.num \in pending' \cap DOMAIN tables'
          /\ flush'.num # compact'.num
    <3> SUFFICES ASSUME compact.phase = "merge"
                 PROVE  compact.num \in pending' \cap DOMAIN tables' /\ next # compact.num
      BY <2>1, <2>3
    <3>1. compact.num \in pending \cap DOMAIN tables
      BY <2>1 DEF FilesInv, Running
    <3> QED BY <2>1, <2>2, <2>4, <3>1
  <2>6. Descriptor' /\ Opening' /\ Running'
    BY <2>1, <2>2, <2>3, <2>4, <2>5, TablesChange
  <2>7. FileTypes' BY <2>1, <2>2, <2>3, <2>4 DEF FilesInv, FileTypes
  <2> QED BY <2>6, <2>7 DEF FilesInv
<1>2. CASE FlushBuilt
  <2>0. /\ flush.phase = "build" /\ flush' = [flush EXCEPT !.phase = "log"]
        /\ pending' = pending \ {flush.num}
        /\ tables' = IF imm = <<{}>> THEN tables
                     ELSE Put(tables, flush.num, [done |-> TRUE, entries |-> imm[1]])
        /\ UNCHANGED <<logs, current, version, next, last, logNumber, manifestNo, pc,
                       recovering, opened, mem, imm, logfile, compact, bgError, pinned>>
    BY <1>2 DEF FlushBuilt, vset, opening, memory
  <2>1. PICK level \in {0, 1} :
          manifests' = LogEdit(Edit(IF imm = <<{}>> THEN Empty ELSE Single(flush.num, level),
                                    {}, logfile, next, last))
    BY <1>2 DEF FlushBuilt
  <2>2. flush # NoFlush /\ pc = "up" /\ imm # NoMem /\ compact.phase \in {"none", "merge"}
    BY <2>0, NoJobs DEF ControlInv, OneJob, QuietUnlessUp
  <2>3. /\ next \in Nat /\ last \in Nat /\ logfile \in Nat /\ flush.num \in Nat
        /\ tables \in Files(TableType) /\ DOMAIN tables \in SUBSET Nat
        /\ \A n \in DOMAIN tables : n < next
        /\ pending \in SUBSET Nat
    BY <2>2, UpIs
  <2>4. /\ flush.num < next
        /\ compact.phase = "merge" => /\ compact.num \in pending \cap DOMAIN tables
                                      /\ flush.num # compact.num
    BY <2>0, <2>2 DEF FilesInv, Running
  <2>5. flush' = [num |-> flush.num, phase |-> "log"]
    <3>1. flush = [num |-> flush.num, phase |-> flush.phase]
      BY DEF ControlInv, OneJob
    <3> QED BY <2>0, <3>1
  <2>6. flush'.num = flush.num /\ flush'.phase = "log" /\ InFlight' /\ ~InFlight
    BY <2>0, <2>2, <2>5 DEF InFlight
  <2>7. imm[1] \in EntrySets /\ imm \in {<<m>> : m \in EntrySets}
    <3>1. imm \in {<<m>> : m \in EntrySets}
      BY <2>2 DEF FilesInv, FileTypes
    <3> QED BY <3>1
  <2> DEFINE add == IF imm = <<{}>> THEN Empty ELSE Single(flush.num, level)
             e == Edit(add, {}, logfile, next, last)
  <2>8. /\ add \in Files(Nat)
        /\ \A n \in DOMAIN add : n < next
        /\ tables' \in Files(TableType)
        /\ \A n \in DOMAIN tables' : n < next
        /\ \A n \in DOMAIN tables : n \in DOMAIN tables' /\ (tables[n].done => tables'[n].done)
        /\ StoredIn(DOMAIN add, tables')
    <3>1. CASE imm = <<{}>>
      <4>1. add = Empty /\ tables' = tables BY <2>0, <3>1
      <4> HIDE DEF add
      <4> QED BY <2>3, <4>1, EmptyFiles DEF StoredIn
    <3>2. CASE imm # <<{}>>
      <4>1. add = Single(flush.num, level)
            /\ tables' = Put(tables, flush.num, [done |-> TRUE, entries |-> imm[1]])
        BY <2>0, <3>2
      <4>2. /\ Single(flush.num, level) \in Files(Nat)
            /\ DOMAIN Single(flush.num, level) = {flush.num}
        <5>1. level \in Nat OBVIOUS
        <5> QED BY <2>3, <5>1, SingleFile
      <4> HIDE DEF add
      <4> DEFINE P == Put(tables, flush.num, [done |-> TRUE, entries |-> imm[1]])
      <4>0. P \in Files(TableType) BY <2>3, <2>7, PutTable
      <4>3. /\ DOMAIN P = DOMAIN tables \cup {flush.num}
            /\ \A n \in DOMAIN tables : n # flush.num => P[n] = tables[n]
            /\ P[flush.num].done
        BY DEF Put, Over, Single
      <4>4. tables' = P BY <4>1
      <4> HIDE DEF P
      <4> QED BY <2>3, <2>4, <4>0, <4>1, <4>2, <4>3, <4>4 DEF StoredIn
    <3> QED BY <3>1, <3>2
  <2> HIDE DEF add
  <2>9. /\ e \in EditType /\ e.ok /\ e.add = add /\ e.log = logfile /\ e.next = next
    BY <2>3, <2>8, EditIs
  <2>10. manifests' = LogEdit(e) BY <2>1 DEF add
  <2> HIDE DEF e
  <2>11. compact'.phase = "merge" =>
          /\ compact'.num \in pending' \cap DOMAIN tables'
          /\ flush'.num # compact'.num
    BY <2>0, <2>4, <2>6, <2>8
  <2>12. e.log <= logfile BY <2>3, <2>9
  <2>13. Descriptor' /\ Opening' /\ Running' /\ manifests' \in Files(ManifestType)
    BY <2>0, <2>2, <2>6, <2>8, <2>9, <2>10, <2>11, <2>12, LogsEdit
  <2>14. FileTypes'
    BY <2>0, <2>3, <2>6, <2>8, <2>13 DEF FilesInv, FileTypes
  <2> QED BY <2>13, <2>14 DEF FilesInv
<1>3. CASE FlushInstalled
  <2>1. /\ flush.phase = "log" /\ flush' = NoFlush
        /\ version' = ApplyEdit(version, LastEdit) /\ logNumber' = LastEdit.log
        /\ imm' = NoMem
        /\ DeleteObsoleteFiles(logs, tables, SyncedManifests, version', logNumber', pending,
                               compact.held)
        /\ UNCHANGED <<current, next, last, manifestNo, pc, recovering, opened, mem, logfile,
                       pending, compact, bgError, pinned>>
    BY <1>3 DEF FlushInstalled, FlushEnds, opening
  <2>2. flush # NoFlush /\ pc = "up" /\ compact.phase \in {"none", "merge"}
    BY <2>1, NoJobs DEF ControlInv, OneJob, QuietUnlessUp
  <2>3. InFlight /\ ~InFlight' /\ flush'.phase = "none" /\ flush'.num \in Nat
    BY <2>1, <2>2 DEF InFlight, NoFlush
  <2>4. /\ compact'.held \in {compact.held, {}}
        /\ DeleteObsoleteFiles(logs, tables, SyncedManifests, version', logNumber', pending',
                               compact'.held)
    BY <2>1
  <2>5. /\ Descriptor' /\ Opening' /\ Running'
        /\ logs' \in Files(LogType) /\ tables' \in Files(TableType)
        /\ manifests' \in Files(ManifestType)
        /\ version' \in Files(Nat) /\ logNumber' \in Nat
    BY <2>1, <2>2, <2>3, <2>4, InstallsEdit
  <2>6. FileTypes' BY <2>1, <2>3, <2>5 DEF FilesInv, FileTypes
  <2> QED BY <2>5, <2>6 DEF FilesInv
<1>4. CASE FlushFailed
  <2>1. /\ flush.phase \in {"build", "log"} /\ flush' = NoFlush
        /\ pending' = pending \ {flush.num} /\ bgError' = TRUE
        /\ UNCHANGED <<logs, current, version, next, last, logNumber, manifestNo, pc,
                       recovering, opened, mem, imm, logfile, compact, pinned>>
    BY <1>4 DEF FlushFailed, FlushEnds, vset, opening, memory
  <2>2. flush # NoFlush /\ pc = "up" /\ imm # NoMem /\ compact.phase \in {"none", "merge"}
    BY <2>1, NoJobs DEF ControlInv, OneJob, QuietUnlessUp
  <2>3. ~InFlight' /\ flush'.phase = "none" /\ flush'.num \in Nat
    BY <2>1, <2>2 DEF InFlight, NoFlush
  <2>4. /\ next \in Nat /\ flush.num \in Nat
        /\ tables \in Files(TableType) /\ DOMAIN tables \in SUBSET Nat
        /\ \A n \in DOMAIN tables : n < next
        /\ pending \in SUBSET Nat
    BY <2>2, UpIs
  <2>5. /\ flush.phase = "build" => flush.num < next
        /\ compact.phase = "merge" => /\ compact.num \in pending \cap DOMAIN tables
                                      /\ flush.num # compact.num
    BY <2>1, <2>2 DEF FilesInv, Running
  <2>6. CASE flush.phase = "log"
    <3>1. manifests' \in BrokenManifests /\ UNCHANGED tables
      BY <1>4, <2>6 DEF FlushFailed
    <3>2. InFlight BY <2>6 DEF InFlight
    <3>3. Descriptor' /\ Opening' /\ Running' /\ manifests' \in Files(ManifestType)
      BY <2>1, <2>2, <2>3, <3>1, <3>2, FailsEdit
    <3>4. FileTypes'
      BY <2>1, <2>3, <2>4, <3>1, <3>3 DEF FilesInv, FileTypes
    <3> QED BY <3>3, <3>4 DEF FilesInv
  <2>7. CASE flush.phase = "build"
    <3>1. UNCHANGED manifests /\ ~InFlight
      BY <1>4, <2>2, <2>7 DEF FlushFailed, InFlight
    <3>2. imm[1] \in EntrySets
      <4>1. imm \in {<<m>> : m \in EntrySets}
        BY <2>2 DEF FilesInv, FileTypes
      <4> QED BY <4>1
    <3>3. /\ tables' \in Files(TableType)
          /\ \A n \in DOMAIN tables' : n < next
          /\ \A n \in DOMAIN tables : n # flush.num => n \in DOMAIN tables' /\ tables'[n] = tables[n]
      <4>1. CASE tables' = tables BY <2>4, <4>1
      <4>2. CASE tables' = Put(tables, flush.num, [done |-> TRUE, entries |-> imm[1]])
        <5> DEFINE P == Put(tables, flush.num, [done |-> TRUE, entries |-> imm[1]])
        <5>0. P \in Files(TableType) BY <2>4, <3>2, PutTable
        <5>1. /\ DOMAIN P = DOMAIN tables \cup {flush.num}
              /\ \A n \in DOMAIN tables : n # flush.num => P[n] = tables[n]
          BY DEF Put, Over, Single
        <5> HIDE DEF P
        <5>2. tables' = P BY <4>2 DEF P
        <5> QED BY <2>4, <2>5, <2>7, <5>0, <5>1, <5>2
      <4>3. CASE tables' = Without(tables, {flush.num})
        <5>1. tables' \in Files(TableType) BY <2>4, <4>3, WithoutFiles
        <5>2. /\ DOMAIN tables' = DOMAIN tables \ {flush.num}
              /\ \A n \in DOMAIN tables \ {flush.num} : tables'[n] = tables[n]
          BY <4>3 DEF Without
        <5> QED BY <2>4, <5>1, <5>2
      <4> QED BY <1>4, <2>7, <4>1, <4>2, <4>3 DEF FlushFailed
    <3>4. compact'.phase = "merge" => compact'.num \in pending' \cap DOMAIN tables'
      BY <2>1, <2>5, <3>3
    <3>5. next' \in Nat /\ next <= next' /\ (InFlight' <=> InFlight)
      BY <2>1, <2>3, <2>4, <3>1
    <3>6. \A n \in DOMAIN tables :
              tables[n].done => \/ n \in DOMAIN tables' /\ tables'[n].done
                                \/ flush.phase = "build" /\ n = flush.num
      BY <2>7, <3>3
    <3>7. \A n \in DOMAIN tables' : n < next' BY <2>1, <3>3
    <3>8. Descriptor' /\ Opening' /\ Running'
      BY <2>1, <2>2, <2>3, <3>1, <3>4, <3>5, <3>6, <3>7, TablesChange
    <3>9. FileTypes'
      BY <2>1, <2>3, <2>4, <3>1, <3>3 DEF FilesInv, FileTypes
    <3> QED BY <3>8, <3>9 DEF FilesInv
  <2> QED BY <2>1, <2>6, <2>7
<1> QED BY <1>1, <1>2, <1>3, <1>4

\* DoCompactionWork and a trivial move keep them as well.
LEMMA CompactionFiles ==
    ASSUME ControlInv, FilesInv,
           StartMove \/ StartCompaction \/ CompactionBuilt \/ CompactionInstalled \/ CompactionFailed
    PROVE  FilesInv'
<1>1. CASE StartMove
  <2>1. PICK n \in Level0(version) :
           /\ manifests' = LogEdit(Edit(Single(n, 1), {n}, logNumber, next, last))
           /\ compact' = [num |-> 0, inputs |-> {n}, held |-> DOMAIN version, phase |-> "move"]
    BY <1>1 DEF StartMove
  <2>2. /\ pc = "up" /\ flush = NoFlush /\ compact = NoCompact
        /\ UNCHANGED <<logs, tables, current, version, next, last, logNumber, manifestNo, pc,
                       recovering, opened, mem, imm, logfile, pending, flush, bgError, pinned>>
    BY <1>1 DEF StartMove, MayCompact, Idle, vset, opening, memory
  <2>3. /\ next \in Nat /\ last \in Nat /\ logfile \in Nat /\ logNumber \in Nat
        /\ logNumber <= logfile /\ DOMAIN version \in SUBSET Nat
        /\ \A k \in DOMAIN tables : k < next
    BY <2>2, UpIs
  <2>4. n \in DOMAIN version /\ n \in Nat BY <2>3 DEF Level0
  <2>5. /\ compact'.num = 0 /\ compact'.inputs = {n} /\ compact'.held = DOMAIN version
        /\ compact'.phase = "move" /\ flush'.phase = "none"
        /\ InFlight' /\ ~InFlight
    BY <2>1, <2>2, NoJobs DEF InFlight
  <2>6. n \in DOMAIN tables /\ tables[n].done
    BY <2>2, <2>4 DEF FilesInv, Running, Stored, StoredIn
  <2> DEFINE add == Single(n, 1)
             e == Edit(add, {n}, logNumber, next, last)
  <2>7. add \in Files(Nat) /\ DOMAIN add = {n} BY <2>4, SingleFile
  <2> HIDE DEF add
  <2>8. /\ e \in EditType /\ e.ok /\ e.add = add /\ e.log = logNumber /\ e.next = next
    <3>1. {n} \in SUBSET Nat BY <2>4
    <3> QED BY <2>3, <2>7, <3>1, EditIs
  <2>9. manifests' = LogEdit(e) BY <2>1 DEF add
  <2> HIDE DEF e
  <2>10. \A k \in DOMAIN e.add : k < next BY <2>3, <2>6, <2>7, <2>8
  <2>11. StoredIn(DOMAIN e.add, tables')
    BY <2>2, <2>6, <2>7, <2>8 DEF StoredIn
  <2>12. Descriptor' /\ Opening' /\ Running' /\ manifests' \in Files(ManifestType)
    BY <2>2, <2>3, <2>5, <2>8, <2>9, <2>10, <2>11, LogsEdit
  <2>13. FileTypes'
    BY <2>2, <2>3, <2>4, <2>5, <2>12 DEF FilesInv, FileTypes
  <2> QED BY <2>12, <2>13 DEF FilesInv
<1>2. CASE StartCompaction
  <2>1. PICK S \in PickInputs :
           compact' = [num |-> next, inputs |-> S, held |-> DOMAIN version, phase |-> "merge"]
    BY <1>2 DEF StartCompaction
  <2>2. /\ pc = "up" /\ flush = NoFlush /\ compact = NoCompact
        /\ next' = next + 1 /\ pending' = pending \cup {next}
        /\ tables' = Put(tables, next, [done |-> FALSE, entries |-> {}])
        /\ UNCHANGED <<logs, manifests, current, version, last, logNumber, manifestNo, pc,
                       recovering, opened, mem, imm, logfile, flush, bgError, pinned>>
    BY <1>2 DEF StartCompaction, MayCompact, Idle, opening, memory
  <2>3. /\ next \in Nat /\ DOMAIN version \in SUBSET Nat
        /\ tables \in Files(TableType) /\ DOMAIN tables \in SUBSET Nat
        /\ \A n \in DOMAIN tables : n < next
        /\ pending \in SUBSET Nat
    BY <2>2, UpIs
  <2>4. /\ compact'.num = next /\ compact'.inputs = S /\ compact'.held = DOMAIN version
        /\ compact'.phase = "merge" /\ flush'.phase = "none"
        /\ ~InFlight' /\ ~InFlight /\ S \in SUBSET Nat
    BY <2>1, <2>2, <2>3, NoJobs DEF InFlight, PickInputs
  <2> DEFINE P == Put(tables, next, [done |-> FALSE, entries |-> {}])
  <2>5. P \in Files(TableType) BY <2>3, EntriesJoin, PutTable
  <2>6. /\ DOMAIN P = DOMAIN tables \cup {next}
        /\ \A n \in DOMAIN tables : n # next => P[n] = tables[n]
    BY DEF Put, Over, Single
  <2>7. tables' = P BY <2>2
  <2> HIDE DEF P
  <2>8. /\ tables' \in Files(TableType)
        /\ \A n \in DOMAIN tables' : n < next'
        /\ \A n \in DOMAIN tables : n \in DOMAIN tables' /\ tables'[n] = tables[n]
        /\ compact'.num \in pending' \cap DOMAIN tables'
    BY <2>2, <2>3, <2>4, <2>5, <2>6, <2>7
  <2>9. next' \in Nat /\ next <= next' BY <2>2, <2>3
  <2>10. Descriptor' /\ Opening' /\ Running'
    BY <2>2, <2>4, <2>8, <2>9, TablesChange
  <2>11. FileTypes'
    BY <2>2, <2>3, <2>4, <2>8, <2>9 DEF FilesInv, FileTypes
  <2> QED BY <2>10, <2>11 DEF FilesInv
<1>3. CASE CompactionBuilt
  <2>1. /\ compact.phase = "merge" /\ flush = NoFlush
        /\ compact' = [compact EXCEPT !.phase = "log"]
        /\ tables' = [tables EXCEPT ![compact.num] =
                        [done |-> TRUE, entries |-> TableEntries(tables, compact.inputs)]]
        /\ manifests' = LogEdit(Edit(Single(compact.num, 1), compact.inputs, logNumber, next, last))
        /\ UNCHANGED <<logs, current, version, next, last, logNumber, manifestNo, pc,
                       recovering, opened, mem, imm, logfile, pending, flush, bgError, pinned>>
    BY <1>3 DEF CompactionBuilt, vset, opening, memory
  <2>2. compact # NoCompact /\ pc = "up"
    BY <2>1, NoJobs DEF ControlInv, QuietUnlessUp
  <2>3. /\ next \in Nat /\ last \in Nat /\ logfile \in Nat /\ logNumber \in Nat
        /\ logNumber <= logfile /\ compact.num \in Nat
        /\ tables \in Files(TableType) /\ DOMAIN tables \in SUBSET Nat
        /\ \A n \in DOMAIN tables : n < next
    BY <2>2, UpIs
  <2>4. compact.num \in DOMAIN tables
    BY <2>1, <2>2 DEF FilesInv, Running
  <2>5. compact' = [num |-> compact.num, inputs |-> compact.inputs, held |-> compact.held,
                    phase |-> "log"]
    <3>1. compact = [num |-> compact.num, inputs |-> compact.inputs, held |-> compact.held,
                     phase |-> compact.phase]
      BY DEF ControlInv, OneJob
    <3> QED BY <2>1, <3>1
  <2>6. /\ compact'.num = compact.num /\ compact'.inputs = compact.inputs
        /\ compact'.held = compact.held /\ compact'.phase = "log" /\ flush'.phase = "none"
        /\ InFlight' /\ ~InFlight
    BY <2>1, <2>5, NoJobs DEF InFlight
  <2>7. compact.inputs \in SUBSET Nat /\ compact.held \in SUBSET Nat
    BY DEF FilesInv, FileTypes
  <2> DEFINE t == [done |-> TRUE, entries |-> TableEntries(tables, compact.inputs)]
  <2>8. t \in TableType /\ t.done
    BY <2>3, TableEntriesType DEF TableType
  <2>9. tables' = [tables EXCEPT ![compact.num] = t] BY <2>1
  <2> HIDE DEF t
  <2>10. [tables EXCEPT ![compact.num] = t] \in Files(TableType)
    BY <2>3, <2>8, ExceptFiles
  <2>11. /\ tables' \in Files(TableType) /\ DOMAIN tables' = DOMAIN tables
         /\ tables'[compact.num].done
         /\ \A n \in DOMAIN tables : tables[n].done => tables'[n].done
    BY <2>4, <2>8, <2>9, <2>10
  <2> DEFINE add == Single(compact.num, 1)
             e == Edit(add, compact.inputs, logNumber, next, last)
  <2>12. add \in Files(Nat) /\ DOMAIN add = {compact.num}
    BY <2>3, SingleFile
  <2> HIDE DEF add
  <2>13. /\ e \in EditType /\ e.ok /\ e.add = add /\ e.log = logNumber /\ e.next = next
    BY <2>3, <2>7, <2>12, EditIs
  <2>14. manifests' = LogEdit(e) BY <2>1 DEF add
  <2> HIDE DEF e
  <2>15. \A k \in DOMAIN e.add : k < next BY <2>3, <2>4, <2>12, <2>13
  <2>16. StoredIn(DOMAIN e.add, tables')
    BY <2>4, <2>11, <2>12, <2>13 DEF StoredIn
  <2>17. /\ \A n \in DOMAIN tables' : n < next
         /\ \A n \in DOMAIN tables : n \in DOMAIN tables' /\ (tables[n].done => tables'[n].done)
    BY <2>3, <2>11
  <2>18. Descriptor' /\ Opening' /\ Running' /\ manifests' \in Files(ManifestType)
    BY <2>1, <2>2, <2>3, <2>6, <2>13, <2>14, <2>15, <2>16, <2>17, LogsEdit
  <2>19. FileTypes'
    BY <2>1, <2>3, <2>6, <2>7, <2>11, <2>18 DEF FilesInv, FileTypes
  <2> QED BY <2>18, <2>19 DEF FilesInv
<1>4. CASE CompactionInstalled
  <2>1. /\ compact.phase \in {"log", "move"} /\ compact' = NoCompact
        /\ version' = ApplyEdit(version, LastEdit) /\ logNumber' = LastEdit.log
        /\ pending' = pending \ {compact.num}
        /\ \/ DeleteObsoleteFiles(logs, tables, SyncedManifests, version', logNumber',
                                  pending', {})
           \/ manifests' = SyncedManifests /\ UNCHANGED <<logs, tables>>
        /\ UNCHANGED <<current, next, last, manifestNo, pc, recovering, opened, mem, imm, logfile,
                       flush, bgError, pinned>>
    BY <1>4 DEF CompactionInstalled, opening, memory
  <2>2. compact # NoCompact /\ pc = "up" /\ flush = NoFlush
    BY <2>1, NoJobs DEF ControlInv, OneJob, QuietUnlessUp
  <2>3. /\ InFlight /\ ~InFlight' /\ flush'.phase = "none"
        /\ compact'.phase = "none" /\ compact'.held = {} /\ compact'.num = 0
        /\ compact'.inputs = {}
    BY <2>1, <2>2 DEF InFlight, NoFlush, NoCompact
  <2>4. \/ DeleteObsoleteFiles(logs, tables, SyncedManifests, version', logNumber', pending',
                               compact'.held)
        \/ manifests' = SyncedManifests /\ UNCHANGED <<logs, tables>>
    BY <2>1, <2>3
  <2>5. /\ Descriptor' /\ Opening' /\ Running'
        /\ logs' \in Files(LogType) /\ tables' \in Files(TableType)
        /\ manifests' \in Files(ManifestType)
        /\ version' \in Files(Nat) /\ logNumber' \in Nat
    BY <2>1, <2>2, <2>3, <2>4, InstallsEdit
  <2>a. /\ compact'.num \in Nat /\ compact'.inputs \in SUBSET Nat /\ compact'.held \in SUBSET Nat
        /\ pending' \in SUBSET Nat
    <3>1. pending \in SUBSET Nat BY DEF FilesInv, FileTypes
    <3>2. pending' = pending \ {compact.num} BY <2>1
    <3>3. pending' \in SUBSET Nat BY <3>1, <3>2
    <3>4. /\ compact'.num \in Nat /\ compact'.inputs \in SUBSET Nat
          /\ compact'.held \in SUBSET Nat
      BY <2>3
    <3> QED BY <3>3, <3>4
  <2>6. FileTypes' BY <2>1, <2>a, <2>5 DEF FilesInv, FileTypes
  <2> QED BY <2>5, <2>6 DEF FilesInv
<1>5. CASE CompactionFailed
  <2>1. /\ flush = NoFlush /\ compact' = NoCompact /\ bgError' = TRUE
        /\ pending' = pending \ {compact.num}
        /\ \/ compact.phase = "merge" /\ UNCHANGED manifests
           \/ compact.phase \in {"log", "move"} /\ manifests' \in BrokenManifests
        /\ UNCHANGED <<logs, tables, current, version, next, last, logNumber, manifestNo, pc,
                       recovering, opened, mem, imm, logfile, flush, pinned>>
    BY <1>5 DEF CompactionFailed, vset, opening, memory
  <2>2. compact # NoCompact /\ pc = "up"
    BY <2>1, NoJobs DEF ControlInv, QuietUnlessUp
  <2>3. /\ ~InFlight' /\ flush'.phase = "none" /\ flush.phase = "none"
        /\ compact'.phase = "none" /\ compact'.held = {} /\ compact'.num = 0
        /\ compact'.inputs = {}
    BY <2>1, <2>2 DEF InFlight, NoFlush, NoCompact
  <2>4. /\ next \in Nat /\ \A n \in DOMAIN tables : n < next
    BY <2>2, UpIs
  <2>5. Descriptor' /\ Opening' /\ Running' /\ manifests' \in Files(ManifestType)
    <3>1. CASE compact.phase = "merge" /\ UNCHANGED manifests
      <4>1. ~InFlight BY <2>3, <3>1 DEF InFlight
      <4>2. Descriptor' /\ Opening'
        BY <2>1, <2>2, <3>1 DEF FilesInv, Descriptor, Opening, Edits, Synced
      <4>3. Running'
        BY <2>1, <2>2, <2>3, <3>1, <4>1
           DEF FilesInv, Running, Stored, StoredIn, Edits, Synced, LastEdit
      <4> QED BY <3>1, <4>2, <4>3 DEF FilesInv, FileTypes
    <3>2. CASE compact.phase \in {"log", "move"} /\ manifests' \in BrokenManifests
      <4>1. InFlight BY <3>2 DEF InFlight
      <4> QED BY <2>1, <2>2, <2>3, <3>2, <4>1, FailsEdit
    <3> QED BY <2>1, <3>1, <3>2
  <2>a. /\ compact'.num \in Nat /\ compact'.inputs \in SUBSET Nat /\ compact'.held \in SUBSET Nat
        /\ pending' \in SUBSET Nat
    <3>1. pending \in SUBSET Nat BY DEF FilesInv, FileTypes
    <3>2. pending' = pending \ {compact.num} BY <2>1
    <3>3. pending' \in SUBSET Nat BY <3>1, <3>2
    <3>4. /\ compact'.num \in Nat /\ compact'.inputs \in SUBSET Nat
          /\ compact'.held \in SUBSET Nat
      BY <2>3
    <3> QED BY <3>3, <3>4
  <2>6. FileTypes' BY <2>1, <2>a, <2>5 DEF FilesInv, FileTypes
  <2> QED BY <2>5, <2>6 DEF FilesInv
<1> QED BY <1>1, <1>2, <1>3, <1>4, <1>5

-----------------------------------------------------------------------------
(* Crashes and DB::Open.                                                   *)

\* The process is gone: what is on disk is all there is.
LEMMA ForgetFiles ==
    ASSUME Forget,
           logs' \in Files(LogType), tables' \in Files(TableType),
           manifests' \in Files(ManifestType), current' \in Nat
    PROVE  FileTypes' /\ Opening' /\ Running'
<1>1. /\ pc' = "down" /\ version' = Empty /\ opened' = Empty
      /\ next' = 0 /\ last' = 0 /\ logNumber' = 0 /\ manifestNo' = 0 /\ logfile' = 0
      /\ recovering' = {} /\ mem' = {} /\ imm' = NoMem /\ pending' = {} /\ pinned' = {}
      /\ flush' = NoFlush /\ compact' = NoCompact
  BY DEF Forget
<1>2. /\ flush'.num = 0 /\ compact'.num = 0 /\ compact'.inputs = {} /\ compact'.held = {}
  BY <1>1 DEF NoFlush, NoCompact
<1>3. version' \in Files(Nat) /\ opened' \in Files(Nat) /\ mem' \in EntrySets
  BY <1>1, EmptyFiles, EntriesJoin
<1>4. /\ flush'.num \in Nat /\ compact'.num \in Nat
      /\ compact'.inputs \in SUBSET Nat /\ compact'.held \in SUBSET Nat
      /\ pinned' \in SUBSET Nat /\ pending' \in SUBSET Nat /\ recovering' \in SUBSET Nat
      /\ next' \in Nat /\ last' \in Nat /\ logNumber' \in Nat /\ manifestNo' \in Nat
      /\ logfile' \in Nat
      /\ imm' \in {NoMem} \cup {<<m>> : m \in EntrySets}
  BY <1>1, <1>2
<1>5. FileTypes' BY <1>3, <1>4 DEF FileTypes
<1> QED BY <1>1, <1>5 DEF Opening, Running

\* The beginning of a file.
LEMMA CutFile ==
    ASSUME NEW S, NEW E \in Seq(S), NEW k \in Nat, k <= Len(E)
    PROVE  /\ SubSeq(E, 1, k) \in Seq(S) /\ Len(SubSeq(E, 1, k)) = k
           /\ \A i \in 1 .. k : SubSeq(E, 1, k)[i] = E[i]
<1>1. Len(E) \in Nat /\ \A i \in 1 .. Len(E) : E[i] \in S
  BY LenProperties, ElementOfSeq
<1>2. 1 \in Int /\ k \in Int /\ \A i \in 1 .. k : E[i] \in S BY <1>1
<1> DEFINE s == SubSeq(E, 1, k)
<1>3. /\ s \in Seq(S) /\ Len(s) = (IF 1 <= k THEN k - 1 + 1 ELSE 0)
      /\ \A i \in 1 .. k - 1 + 1 : s[i] = E[1 + i - 1]
  BY <1>2, SubSeqProperties
<1> HIDE DEF s
<1>4. Len(s) = k BY <1>3
<1>5. ASSUME NEW i \in 1 .. k PROVE s[i] = E[i]
  <2>1. i \in 1 .. k - 1 + 1 /\ 1 + i - 1 = i OBVIOUS
  <2> QED BY <1>3, <2>1
<1> QED BY <1>3, <1>4, <1>5 DEF s

\* What a crash of the machine leaves of the logs and of the descriptors.
LEMMA CrashFiles ==
    ASSUME FilesInv, MachineCrashes
    PROVE  FilesInv'
<1>1. /\ logs' \in CutLogs /\ manifests' \in CutManifests
      /\ Forget /\ UNCHANGED <<tables, current>>
  BY DEF MachineCrashes
<1>2. /\ logs \in Files(LogType) /\ manifests \in Files(ManifestType)
      /\ tables \in Files(TableType) /\ current \in Nat
  BY DEF FilesInv, FileTypes
<1>3. /\ DOMAIN logs \in SUBSET Nat /\ IsFiniteSet(DOMAIN logs)
      /\ logs \in [DOMAIN logs -> LogType]
      /\ DOMAIN manifests \in SUBSET Nat /\ IsFiniteSet(DOMAIN manifests)
      /\ manifests \in [DOMAIN manifests -> ManifestType]
  BY <1>2, FilesMeans
<1>4. \E keep : /\ \A n \in DOMAIN logs : keep[n] \in logs[n].synced .. Len(logs[n].recs)
                /\ logs' = [n \in DOMAIN logs |->
                              [recs |-> SubSeq(logs[n].recs, 1, keep[n]), synced |-> keep[n]]]
  BY <1>1 DEF CutLogs, Cuts
<1>5. logs' \in Files(LogType)
  <2>1. PICK keep :
           /\ \A n \in DOMAIN logs : keep[n] \in logs[n].synced .. Len(logs[n].recs)
           /\ logs' = [n \in DOMAIN logs |->
                         [recs |-> SubSeq(logs[n].recs, 1, keep[n]), synced |-> keep[n]]]
    BY <1>4
  <2>2. ASSUME NEW n \in DOMAIN logs
        PROVE  [recs |-> SubSeq(logs[n].recs, 1, keep[n]), synced |-> keep[n]] \in LogType
    <3>1. logs[n].recs \in Seq(RecordType) /\ logs[n].synced \in Nat
      BY <1>3 DEF LogType
    <3>2. Len(logs[n].recs) \in Nat BY <3>1, LenProperties
    <3>3. keep[n] \in Nat /\ keep[n] <= Len(logs[n].recs)
      BY <2>1, <3>1, <3>2
    <3>4. SubSeq(logs[n].recs, 1, keep[n]) \in Seq(RecordType)
      BY <3>1, <3>3, CutFile
    <3> QED BY <3>3, <3>4 DEF LogType
  <2>3. logs' \in [DOMAIN logs -> LogType] BY <2>1, <2>2
  <2> QED BY <1>3, <2>3, FilesAre
<1>6. \E keep : /\ \A n \in DOMAIN manifests :
                      keep[n] \in manifests[n].synced .. Len(manifests[n].edits)
                /\ manifests' = [n \in DOMAIN manifests |->
                      [edits |-> SubSeq(manifests[n].edits, 1, keep[n]), synced |-> keep[n]]]
  BY <1>1 DEF CutManifests, Cuts
<1>7. PICK keep : /\ \A n \in DOMAIN manifests :
                        keep[n] \in manifests[n].synced .. Len(manifests[n].edits)
                  /\ manifests' = [n \in DOMAIN manifests |->
                        [edits |-> SubSeq(manifests[n].edits, 1, keep[n]), synced |-> keep[n]]]
  BY <1>6
<1>8. ASSUME NEW n \in DOMAIN manifests
      PROVE  /\ keep[n] \in Nat /\ manifests[n].synced <= keep[n]
             /\ keep[n] <= Len(manifests[n].edits)
             /\ manifests[n].edits \in Seq(EditType) /\ manifests[n].synced \in Nat
             /\ SubSeq(manifests[n].edits, 1, keep[n]) \in Seq(EditType)
             /\ [edits |-> SubSeq(manifests[n].edits, 1, keep[n]), synced |-> keep[n]] \in ManifestType
  <2>1. manifests[n].edits \in Seq(EditType) /\ manifests[n].synced \in Nat
    BY <1>3 DEF ManifestType
  <2>2. Len(manifests[n].edits) \in Nat BY <2>1, LenProperties
  <2>3. /\ keep[n] \in Nat /\ keep[n] <= Len(manifests[n].edits)
        /\ manifests[n].synced <= keep[n]
    BY <1>7, <2>1, <2>2
  <2>4. SubSeq(manifests[n].edits, 1, keep[n]) \in Seq(EditType)
    BY <2>1, <2>3, CutFile
  <2> QED BY <2>1, <2>3, <2>4 DEF ManifestType
<1>9. manifests' \in Files(ManifestType)
  <2>1. manifests' \in [DOMAIN manifests -> ManifestType] BY <1>7, <1>8
  <2> QED BY <1>3, <2>1, FilesAre
<1>10. FileTypes' /\ Opening' /\ Running'
  <2>1. tables' \in Files(TableType) /\ current' \in Nat BY <1>1, <1>2
  <2> QED BY <1>1, <1>5, <1>9, <2>1, ForgetFiles
<1>11. Descriptor'
  <2> SUFFICES ASSUME current' # 0
               PROVE  /\ current' \in DOMAIN manifests'
                      /\ DescriptorOf(current', Edits', Synced', tables')
    BY DEF Descriptor
  <2>1. /\ current # 0 /\ current' = current /\ tables' = tables
        /\ current \in DOMAIN manifests /\ DescriptorOf(current, Edits, Synced, tables)
    BY <1>1 DEF FilesInv, Descriptor
  <2> DEFINE k == keep[current]
             A == SubSeq(Edits, 1, k)
  <2>2. /\ k \in Nat /\ Synced <= k /\ k <= Len(Edits)
        /\ Edits \in Seq(EditType) /\ A \in Seq(EditType)
    BY <1>8, <2>1 DEF Edits, Synced
  <2>3. Edits' = A /\ Synced' = k /\ current \in DOMAIN manifests'
    BY <1>7, <2>1 DEF Edits, Synced
  <2> HIDE DEF k
  <2>4. Len(A) = k /\ \A i \in 1 .. k : A[i] = Edits[i] BY <2>2, CutFile
  <2> HIDE DEF A
  <2>5. DescriptorOf(current, A, k, tables)
    <3>1. k <= Len(A) BY <2>2, <2>4
    <3> QED BY <2>1, <2>2, <2>4, <3>1, DescriptorPrefix
  <2> QED BY <2>1, <2>3, <2>5
<1> QED BY <1>10, <1>11 DEF FilesInv

\* VersionSet::Recover of a descriptor it can read.
LEMMA RecoverReads ==
    ASSUME NEW E \in Seq(EditType), NEW c \in Nat, NEW s, NEW T, DescriptorOf(c, E, s, T),
           EditsReadable(E)
    PROVE  /\ ReplayEdits(E).files \in Files(Nat)
           /\ ReplayEdits(E).log \in Nat /\ ReplayEdits(E).next \in Nat
           /\ ReplayEdits(E).last \in Nat
           /\ StoredIn(DOMAIN ReplayEdits(E).files, T)
           /\ c < ReplayEdits(E).next /\ ReplayEdits(E).log < ReplayEdits(E).next
           /\ \A n \in DOMAIN ReplayEdits(E).files : n < ReplayEdits(E).next
<1> DEFINE R == ReadableRecords(E)
<1>1. PICK m \in 0 .. Len(E) :
         /\ R \in Seq(EditType) /\ Len(R) = m
         /\ \A i \in 1 .. m : R[i] = E[i] /\ E[i].ok
         /\ m < Len(E) => ~E[m + 1].ok
  BY ReadablePrefix
<1>2. R # <<>> BY DEF EditsReadable
<1> HIDE DEF R
<1>3. /\ Len(E) \in Nat /\ s \in 0 .. Len(E)
      /\ \A i \in 1 .. Len(E) : /\ E[i] \in EditType /\ DOMAIN E[i].add \in SUBSET Nat
                                /\ E[i].log \in Nat /\ E[i].next \in Nat
  BY EditsAre DEF DescriptorOf
<1>4. m \in 1 .. Len(E) /\ m \in 0 .. Len(E) /\ m \in 1 .. m
  <2>1. m # 0 BY <1>1, <1>2, EmptySeq
  <2> QED BY <1>3, <2>1
<1>5. FilesAfter(R)[m] = FilesAfter(E)[m]
  <2>1. \A i \in 0 .. m : FilesAfter(R)[i] = FilesAfter(E)[i]
    <3>1. /\ Len(R) \in Nat /\ Len(E) \in Nat /\ m \in Nat /\ m <= Len(R) /\ m <= Len(E)
          /\ \A i \in 1 .. m : R[i] = E[i]
      BY <1>1, <1>3
    <3> QED BY <3>1, FilesAfterPrefix
  <2> QED BY <1>3, <2>1
<1>6. /\ ReplayEdits(E).files = FilesAfter(E)[m]
      /\ ReplayEdits(E).log = E[m].log /\ ReplayEdits(E).next = E[m].next
      /\ ReplayEdits(E).last = E[m].last
  <2>1. Last(R) = E[m] BY <1>1, <1>4 DEF Last
  <2>2. ReplayEdits(E) = [files |-> FilesAfter(R)[Len(R)], log |-> Last(R).log,
                          next |-> Last(R).next, last |-> Last(R).last]
    BY <1>2 DEF ReplayEdits, R
  <2> QED BY <1>1, <1>5, <2>1, <2>2
<1>7. E[m] \in EditType /\ E[m].last \in Nat BY <1>3, <1>4 DEF EditType
<1>8. /\ FilesAfter(E)[m] \in Files(Nat)
      /\ \A n \in DOMAIN FilesAfter(E)[m] : \E i \in 1 .. m : n \in DOMAIN E[i].add
  BY <1>4, FilesAfterNamed
<1>9. StoredIn(DOMAIN FilesAfter(E)[m], T)
  <2>1. StopsAfter(E, s, m)
    <3>1. CASE m < Len(E) BY <1>1, <3>1 DEF StopsAfter
    <3>2. CASE ~(m < Len(E)) BY <1>1, <1>3, <1>4, <3>2 DEF StopsAfter
    <3> QED BY <3>1, <3>2
  <2> QED BY <1>4, <2>1 DEF DescriptorOf
<1>10. c < E[m].next /\ E[m].log < E[m].next
  BY <1>4 DEF DescriptorOf, Numbered
<1>11. ASSUME NEW n \in DOMAIN FilesAfter(E)[m] PROVE n < E[m].next
  <2>1. PICK i \in 1 .. m : n \in DOMAIN E[i].add BY <1>8
  <2>2. i \in 1 .. Len(E) /\ i <= m BY <1>3
  <2>3. n < E[i].next /\ E[i].next <= E[m].next
    BY <1>4, <2>1, <2>2 DEF DescriptorOf, Numbered
  <2>4. n \in Nat /\ E[i].next \in Nat /\ E[m].next \in Nat
    BY <1>3, <1>4, <2>1, <2>2
  <2> QED BY <2>3, <2>4
<1> QED BY <1>3, <1>4, <1>6, <1>7, <1>8, <1>9, <1>10, <1>11

\* DB::Open before it returns, when every file it relies on is there.
LEMMA OpeningIs ==
    ASSUME FilesInv, pc \in {"logs", "manifest", "current"}
    PROVE  /\ current # 0 /\ manifestNo < next
           /\ next \in Nat /\ last \in Nat /\ manifestNo \in Nat /\ logfile \in Nat
           /\ current \in Nat
           /\ logs \in Files(LogType) /\ DOMAIN logs \in SUBSET Nat
           /\ tables \in Files(TableType) /\ DOMAIN tables \in SUBSET Nat
           /\ manifests \in Files(ManifestType)
           /\ version \in Files(Nat) /\ opened \in Files(Nat)
           /\ DOMAIN version \in SUBSET Nat /\ DOMAIN opened \in SUBSET Nat
           /\ current \in DOMAIN manifests
           /\ Edits \in Seq(EditType) /\ Synced \in 0 .. Len(Edits)
           /\ DescriptorOf(current, Edits, Synced, tables)
           /\ Over(opened, version) \in Files(Nat)
           /\ DOMAIN Over(opened, version) = DOMAIN opened \cup DOMAIN version
<1>1. current # 0 /\ manifestNo < next BY DEF FilesInv, Opening
<1>2. /\ next \in Nat /\ last \in Nat /\ manifestNo \in Nat /\ logfile \in Nat /\ current \in Nat
      /\ logs \in Files(LogType) /\ tables \in Files(TableType)
      /\ manifests \in Files(ManifestType)
      /\ version \in Files(Nat) /\ opened \in Files(Nat)
  BY DEF FilesInv, FileTypes
<1>3. /\ DOMAIN logs \in SUBSET Nat /\ DOMAIN tables \in SUBSET Nat
      /\ DOMAIN version \in SUBSET Nat /\ DOMAIN opened \in SUBSET Nat
  BY <1>2, FilesMeans
<1>4. /\ current \in DOMAIN manifests /\ Edits \in Seq(EditType) /\ Synced \in 0 .. Len(Edits)
      /\ DescriptorOf(current, Edits, Synced, tables)
  BY <1>1, EditsType
<1>5. Over(opened, version) \in Files(Nat) BY <1>2, MergeFiles
<1>6. DOMAIN Over(opened, version) = DOMAIN opened \cup DOMAIN version
  BY DEF Over
<1> QED BY <1>1, <1>2, <1>3, <1>4, <1>5, <1>6

\* DB::Open keeps them: NewDB, recovery, the new descriptor, CURRENT, and the
\* removal of what became obsolete.
LEMMA OpenFiles ==
    ASSUME ControlInv, FilesInv, OpenStep
    PROVE  FilesInv'
<1>1. CASE NewDB
  <2>1. /\ pc = "down" /\ current = 0 /\ current' = 1 /\ pc' = "recover"
        /\ manifests' = Put(manifests, 1, [edits |-> <<Edit(Empty, {}, 0, 2, 0)>>, synced |-> 0])
        /\ UNCHANGED <<logs, tables, version, next, last, logNumber, manifestNo, recovering,
                       opened, mem, imm, logfile, flush, compact, pending, pinned>>
    BY <1>1 DEF NewDB, vset, opening, memory, bg
  <2> DEFINE e == Edit(Empty, {}, 0, 2, 0)
             v == [edits |-> <<e>>, synced |-> 0]
  <2>2. e \in EditType /\ e.ok /\ e.add = Empty /\ e.log = 0 /\ e.next = 2
    <3>1. Empty \in Files(Nat) /\ {} \in SUBSET Nat /\ 0 \in Nat /\ 2 \in Nat
      BY EmptyFiles
    <3> QED BY <3>1, EditIs
  <2>3. v.edits = <<e>> /\ v.synced = 0 /\ manifests' = Put(manifests, 1, v)
    BY <2>1
  <2> HIDE DEF e
  <2>4. DescriptorOf(1, <<e>>, 0, tables) /\ <<e>> \in Seq(EditType)
    <3>1. DOMAIN e.add = {} BY <2>2, EmptyFiles
    <3>2. /\ 0 \in 0 .. 1 /\ (1 # 1 => 0 = 1) /\ 1 < e.next /\ e.log < e.next
          /\ \A n \in DOMAIN e.add : n < e.next
          /\ StoredIn(DOMAIN e.add, tables)
      BY <2>2, <3>1 DEF StoredIn
    <3> QED BY <2>2, <3>2, DescriptorNew
  <2>5. v \in ManifestType BY <2>4 DEF ManifestType
  <2> HIDE DEF v
  <2>6. manifests' \in Files(ManifestType)
    <3>1. manifests \in Files(ManifestType) /\ 1 \in Nat
      BY DEF FilesInv, FileTypes
    <3>2. Put(manifests, 1, v) \in Files(ManifestType)
      BY <2>5, <3>1, PutFiles
    <3> QED BY <2>3, <3>2
  <2>7. 1 \in DOMAIN manifests' /\ manifests'[1] = v
    BY <2>3 DEF Put, Over, Single
  <2>8. Edits' = <<e>> /\ Synced' = 0
    BY <2>1, <2>3, <2>7 DEF Edits, Synced
  <2>9. Descriptor' BY <2>1, <2>4, <2>7, <2>8 DEF Descriptor
  <2>10. Opening' /\ Running' BY <2>1 DEF Opening, Running
  <2>11. FileTypes' BY <2>1, <2>6 DEF FilesInv, FileTypes
  <2> QED BY <2>9, <2>10, <2>11 DEF FilesInv
<1>2. CASE Recover
  <2>1. /\ current # 0 /\ opened' = Empty
        /\ UNCHANGED <<logs, tables, manifests, current, mem, imm, logfile, flush, compact,
                       pending, pinned>>
    BY <1>2 DEF Recover, FilesInv, Opening, disk, memory, bg
  <2>2. /\ Edits \in Seq(EditType) /\ DescriptorOf(current, Edits, Synced, tables)
        /\ current \in Nat /\ DOMAIN logs \in SUBSET Nat
    <3>1. current \in Nat /\ logs \in Files(LogType)
      BY DEF FilesInv, FileTypes
    <3> QED BY <2>1, <3>1, EditsType, FilesMeans
  <2>3. Descriptor' BY <2>1 DEF FilesInv, Descriptor, Edits, Synced
  <2>4. CASE EditsReadable(Edits) /\ pc' = "logs"
    <3> DEFINE s == ReplayEdits(Edits)
    <3>1. /\ pc' = "logs" /\ version' = s.files /\ manifestNo' = s.next /\ next' = s.next + 1
          /\ last' = s.last /\ logNumber' = s.log
          /\ recovering' = {n \in DOMAIN logs : n >= s.log}
      BY <1>2, <2>4 DEF Recover, Edits
    <3>2. /\ s.files \in Files(Nat) /\ s.log \in Nat /\ s.next \in Nat /\ s.last \in Nat
          /\ StoredIn(DOMAIN s.files, tables)
          /\ current < s.next /\ s.log < s.next
          /\ \A n \in DOMAIN s.files : n < s.next
      BY <2>2, <2>4, RecoverReads
    <3> HIDE DEF s
    <3>3. DOMAIN s.files \in SUBSET Nat BY <3>2, FilesMeans
    <3>4. /\ DOMAIN opened' = {} /\ opened' \in Files(Nat)
      BY <2>1, EmptyFiles
    <3>5. Opening'
      <4>1. Stored(DOMAIN version)' /\ Stored(DOMAIN opened)'
        BY <2>1, <3>1, <3>2, <3>4 DEF Stored, StoredIn
      <4>2. \A n \in DOMAIN version' \cup DOMAIN opened' : n < next'
        BY <3>1, <3>2, <3>3, <3>4
      <4>3. /\ recovering' \subseteq DOMAIN logs'
            /\ \A n \in DOMAIN logs' : n \in recovering' \/ n < next'
        <5> SUFFICES ASSUME NEW n \in DOMAIN logs, ~(n >= s.log) PROVE n < s.next + 1
          BY <2>1, <3>1
        <5> QED BY <2>2, <3>2
      <4>4. manifestNo' < next' /\ current' < manifestNo'
        BY <2>1, <3>1, <3>2
      <4> QED BY <2>1, <3>1, <4>1, <4>2, <4>3, <4>4 DEF Opening
    <3>6. Running' BY <3>1 DEF Running
    <3>7. FileTypes'
      <4>1. /\ version' \in Files(Nat) /\ next' \in Nat /\ last' \in Nat /\ logNumber' \in Nat
            /\ manifestNo' \in Nat /\ recovering' \in SUBSET Nat
        BY <2>2, <3>1, <3>2
      <4> QED BY <2>1, <3>4, <4>1 DEF FilesInv, FileTypes
    <3> QED BY <2>3, <3>5, <3>6, <3>7 DEF FilesInv
  <2>5. CASE pc' = "corrupt"
    <3>1. UNCHANGED <<version, next, last, logNumber, manifestNo, recovering>>
      BY <1>2, <2>5 DEF Recover, vset
    <3>2. Opening' /\ Running' BY <2>5 DEF Opening, Running
    <3>3. FileTypes' BY <2>1, <3>1, EmptyFiles DEF FilesInv, FileTypes
    <3> QED BY <2>3, <3>2, <3>3 DEF FilesInv
  <2>6. (EditsReadable(Edits) /\ pc' = "logs") \/ pc' = "corrupt"
    BY <1>2 DEF Recover, Edits
  <2> QED BY <2>4, <2>5, <2>6
<1>3. CASE RecoverLogFile
  <2>1. /\ pc = "logs" /\ pc' = "logs"
        /\ UNCHANGED <<logs, manifests, current, version, logNumber, manifestNo, mem, imm,
                       logfile, flush, compact, pending, pinned>>
    BY <1>3 DEF RecoverLogFile, memory, bg
  <2> DEFINE entries(n) == LogEntries(logs[n].recs)
             used(n) == IF entries(n) = {} THEN next ELSE next + 1
  <2>2. PICK n \in recovering :
           /\ IF entries(n) = {}
              THEN UNCHANGED <<tables, opened>>
              ELSE /\ tables' = Put(tables, next, [done |-> TRUE, entries |-> entries(n)])
                   /\ opened' = Put(opened, next, 0)
           /\ next' = MarkFileNumberUsed(used(n), n)
           /\ last' = MaxSequence(last, entries(n))
           /\ recovering' = recovering \ {n}
    BY <1>3 DEF RecoverLogFile
  <2>3. /\ current # 0 /\ manifestNo < next /\ next \in Nat /\ last \in Nat /\ manifestNo \in Nat
        /\ logs \in Files(LogType) /\ DOMAIN logs \in SUBSET Nat
        /\ tables \in Files(TableType) /\ DOMAIN tables \in SUBSET Nat
        /\ version \in Files(Nat) /\ opened \in Files(Nat)
        /\ DOMAIN version \in SUBSET Nat /\ DOMAIN opened \in SUBSET Nat
        /\ Edits \in Seq(EditType) /\ DescriptorOf(current, Edits, Synced, tables)
    BY <2>1, OpeningIs
  <2>4. /\ Stored(DOMAIN version) /\ Stored(DOMAIN opened)
        /\ \A m \in DOMAIN version \cup DOMAIN opened : m < next
        /\ recovering \subseteq DOMAIN logs
        /\ \A m \in DOMAIN logs : m \in recovering \/ m < next
        /\ current < manifestNo
    BY <2>1 DEF FilesInv, Opening
  <2>5. n \in DOMAIN logs /\ n \in Nat BY <2>3, <2>4
  <2>6. entries(n) \in EntrySets
    <3>1. logs[n] \in LogType
      <4>1. logs \in [DOMAIN logs -> LogType] BY <2>3, FilesMeans
      <4> QED BY <2>5, <4>1
    <3>2. logs[n].recs \in Seq(RecordType) BY <3>1 DEF LogType
    <3> QED BY <3>2, LogEntriesType
  <2> DEFINE E == entries(n)
             u == used(n)
  <2>7. /\ IF E = {}
           THEN UNCHANGED <<tables, opened>>
           ELSE /\ tables' = Put(tables, next, [done |-> TRUE, entries |-> E])
                /\ opened' = Put(opened, next, 0)
        /\ u = IF E = {} THEN next ELSE next + 1
        /\ next' = MarkFileNumberUsed(u, n)
        /\ last' = MaxSequence(last, E)
        /\ recovering' = recovering \ {n}
        /\ E \in EntrySets
    BY <2>2, <2>6
  <2> HIDE DEF E, u, entries, used
  <2>8. u \in Nat /\ next' \in Nat /\ u <= next' /\ n < next' /\ next <= u
    <3>1. u \in Nat /\ next <= u BY <2>3, <2>7
    <3>2. /\ MarkFileNumberUsed(u, n) \in Nat /\ MarkFileNumberUsed(u, n) >= u
          /\ MarkFileNumberUsed(u, n) > n
      BY <2>5, <3>1, MarkedNumber
    <3> QED BY <2>5, <2>7, <3>1, <3>2
  <2>9. last' \in Nat BY <2>3, <2>7, SequenceRead
  <2>10. /\ tables' \in Files(TableType) /\ opened' \in Files(Nat)
         /\ \A m \in DOMAIN tables : m \in DOMAIN tables' /\ (tables[m].done => tables'[m].done)
         /\ \A m \in DOMAIN opened' : \/ m \in DOMAIN opened
                                      \/ /\ m = next /\ u = next + 1
                                         /\ m \in DOMAIN tables' /\ tables'[m].done
    <3>1. CASE E = {} BY <2>3, <2>7, <3>1
    <3>2. CASE E # {}
      <4> DEFINE P == Put(tables, next, [done |-> TRUE, entries |-> E])
                 Q == Put(opened, next, 0)
      <4>1. P \in Files(TableType) BY <2>3, <2>7, PutTable
      <4>2. Q \in Files(Nat) BY <2>3, PutFiles
      <4>3. /\ DOMAIN P = DOMAIN tables \cup {next}
            /\ \A m \in DOMAIN tables : m # next => P[m] = tables[m]
            /\ P[next].done
            /\ DOMAIN Q = DOMAIN opened \cup {next}
        BY DEF Put, Over, Single
      <4>4. tables' = P /\ opened' = Q /\ u = next + 1 BY <2>7, <3>2
      <4> HIDE DEF P, Q
      <4> QED BY <4>1, <4>2, <4>3, <4>4
    <3> QED BY <3>1, <3>2
  <2>11. Descriptor'
    <3>1. DescriptorOf(current, Edits, Synced, tables')
      BY <2>3, <2>10, DescriptorTables
    <3> QED BY <2>1, <3>1 DEF FilesInv, Descriptor, Edits, Synced
  <2>12. Opening'
    <3>1. Stored(DOMAIN version)' /\ Stored(DOMAIN opened)'
      BY <2>1, <2>4, <2>10 DEF Stored, StoredIn
    <3>2. \A m \in DOMAIN version \cup DOMAIN opened' : m < next'
      <4> SUFFICES ASSUME NEW m \in DOMAIN version \cup DOMAIN opened' PROVE m < next'
        OBVIOUS
      <4>1. CASE m \in DOMAIN version \cup DOMAIN opened
        <5>1. m \in Nat /\ m < next BY <2>3, <2>4, <4>1
        <5> QED BY <2>3, <2>8, <5>1
      <4>2. CASE m = next /\ u = next + 1 BY <2>3, <2>8, <4>2
      <4> QED BY <2>10, <4>1, <4>2
    <3>3. \A m \in DOMAIN logs : m \in recovering' \/ m < next'
      <4> SUFFICES ASSUME NEW m \in DOMAIN logs, m \notin recovering' PROVE m < next'
        OBVIOUS
      <4>1. CASE m = n BY <2>8, <4>1
      <4>2. CASE m # n
        <5>1. m \in Nat /\ m < next BY <2>3, <2>4, <2>7, <4>2
        <5> QED BY <2>3, <2>8, <5>1
      <4> QED BY <4>1, <4>2
    <3>4. manifestNo < next' /\ recovering' \subseteq DOMAIN logs
      BY <2>3, <2>4, <2>7, <2>8
    <3> QED BY <2>1, <2>3, <2>4, <3>1, <3>2, <3>3, <3>4 DEF Opening
  <2>13. Running' BY <2>1 DEF Running
  <2>14. FileTypes'
    <3>1. recovering' \in SUBSET Nat BY <2>7 DEF FilesInv, FileTypes
    <3> QED BY <2>1, <2>8, <2>9, <2>10, <3>1 DEF FilesInv, FileTypes
  <2> QED BY <2>11, <2>12, <2>13, <2>14 DEF FilesInv
<1>4. CASE OpenWritesManifest
  <2>1. /\ pc = "logs" /\ pc' = "manifest" /\ recovering = {}
        /\ logs' = Put(logs, next, [recs |-> <<>>, synced |-> 0])
        /\ logfile' = next /\ next' = next + 1
        /\ manifests' = Put(manifests, manifestNo,
                            [edits |-> <<Edit(Over(opened, version), {}, next, next + 1, last)>>,
                             synced |-> 0])
        /\ UNCHANGED <<tables, current, version, last, logNumber, manifestNo, recovering, opened,
                       mem, imm, flush, compact, pending, pinned>>
    BY <1>4 DEF OpenWritesManifest, opening, bg
  <2>2. /\ current # 0 /\ manifestNo < next /\ next \in Nat /\ last \in Nat /\ manifestNo \in Nat
        /\ current \in Nat
        /\ logs \in Files(LogType) /\ DOMAIN logs \in SUBSET Nat
        /\ manifests \in Files(ManifestType) /\ current \in DOMAIN manifests
        /\ DOMAIN version \in SUBSET Nat /\ DOMAIN opened \in SUBSET Nat
        /\ Over(opened, version) \in Files(Nat)
    BY <2>1, OpeningIs
  <2>3. /\ Stored(DOMAIN version) /\ Stored(DOMAIN opened)
        /\ \A m \in DOMAIN version \cup DOMAIN opened : m < next
        /\ \A m \in DOMAIN logs : m < next
        /\ current < manifestNo
    BY <2>1 DEF FilesInv, Opening
  <2> DEFINE e == Edit(Over(opened, version), {}, next, next + 1, last)
             v == [edits |-> <<e>>, synced |-> 0]
             w == [recs |-> <<>>, synced |-> 0]
  <2>4. e \in EditType
    <3>1. {} \in SUBSET Nat /\ next + 1 \in Nat BY <2>2
    <3> QED BY <2>2, <3>1, EditIs
  <2>5. v \in ManifestType /\ w \in LogType
    <3>1. <<e>> \in Seq(EditType)
      <4> HIDE DEF e
      <4> QED BY <2>4
    <3>2. <<>> \in Seq(RecordType) BY EmptySeq
    <3> HIDE DEF e
    <3> QED BY <3>1, <3>2 DEF ManifestType, LogType
  <2>6. logs' = Put(logs, next, w) /\ manifests' = Put(manifests, manifestNo, v)
        /\ v.edits = <<Edit(Over(opened, version), {}, logfile', next', last)>>
    BY <2>1
  <2> HIDE DEF e, v, w
  <2>7. logs' \in Files(LogType) /\ manifests' \in Files(ManifestType)
    <3>1. Put(logs, next, w) \in Files(LogType) BY <2>2, <2>5, PutFiles
    <3>2. Put(manifests, manifestNo, v) \in Files(ManifestType)
      BY <2>2, <2>5, PutFiles
    <3> QED BY <2>6, <3>1, <3>2
  <2>8. /\ DOMAIN logs' = DOMAIN logs \cup {next}
        /\ DOMAIN manifests' = DOMAIN manifests \cup {manifestNo}
        /\ manifests'[manifestNo] = v
        /\ \A m \in DOMAIN manifests : m # manifestNo => manifests'[m] = manifests[m]
    BY <2>6 DEF Put, Over, Single
  <2>9. Descriptor'
    <3>1. manifests'[current] = manifests[current] BY <2>2, <2>3, <2>8
    <3> QED BY <2>1, <2>2, <2>8, <3>1 DEF FilesInv, Descriptor, Edits, Synced
  <2>10. Opening'
    <3>1. /\ \A m \in DOMAIN version \cup DOMAIN opened : m < next'
          /\ \A m \in DOMAIN logs' : m < next'
          /\ manifestNo < next'
      BY <2>1, <2>2, <2>3, <2>8
    <3>2. Stored(DOMAIN version)' /\ Stored(DOMAIN opened)'
      BY <2>1, <2>3 DEF Stored
    <3>3. /\ manifestNo \in DOMAIN manifests' /\ logfile' \in DOMAIN logs'
          /\ manifests'[manifestNo].edits
                = <<Edit(Over(opened, version), {}, logfile', next', last)>>
      BY <2>1, <2>6, <2>8
    <3> QED BY <2>1, <2>2, <2>3, <3>1, <3>2, <3>3 DEF Opening
  <2>11. Running' BY <2>1 DEF Running
  <2>12. FileTypes' BY <2>1, <2>2, <2>7 DEF FilesInv, FileTypes
  <2> QED BY <2>9, <2>10, <2>11, <2>12 DEF FilesInv
<1>5. CASE OpenSetsCurrent
  <2>1. /\ pc = "manifest" /\ pc' = "current" /\ manifests' = SyncedManifests
        /\ current' = manifestNo
        /\ UNCHANGED <<logs, tables, version, next, last, logNumber, manifestNo, recovering,
                       opened, mem, imm, logfile, flush, compact, pending, pinned>>
    BY <1>5 DEF OpenSetsCurrent, vset, opening, memory, bg
  <2> DEFINE e == Edit(Over(opened, version), {}, logfile, next, last)
  <2>2. /\ current # 0 /\ manifestNo < next /\ next \in Nat /\ last \in Nat /\ manifestNo \in Nat
        /\ logfile \in Nat /\ current \in Nat
        /\ manifests \in Files(ManifestType)
        /\ Over(opened, version) \in Files(Nat)
        /\ DOMAIN Over(opened, version) = DOMAIN opened \cup DOMAIN version
    BY <2>1, OpeningIs
  <2>3. /\ Stored(DOMAIN version) /\ Stored(DOMAIN opened)
        /\ \A m \in DOMAIN version \cup DOMAIN opened : m < next
        /\ recovering = {} /\ \A m \in DOMAIN logs : m \in recovering \/ m < next
        /\ logfile \in DOMAIN logs /\ manifestNo \in DOMAIN manifests
        /\ manifests[manifestNo].edits = <<e>> /\ current < manifestNo
    BY <2>1 DEF FilesInv, Opening
  <2>4. e \in EditType /\ e.ok /\ e.add = Over(opened, version) /\ e.log = logfile /\ e.next = next
    <3>1. {} \in SUBSET Nat OBVIOUS
    <3> QED BY <2>2, <3>1, EditIs
  <2>5. manifests[manifestNo].edits = <<e>> /\ Len(<<e>>) = 1 BY <2>3
  <2> HIDE DEF e
  <2>6. DescriptorOf(manifestNo, <<e>>, 1, tables) /\ <<e>> \in Seq(EditType)
    <3>1. /\ 1 \in 0 .. 1 /\ (manifestNo # 1 => 1 = 1)
          /\ manifestNo < e.next /\ e.log < e.next
          /\ \A n \in DOMAIN e.add : n < e.next
          /\ StoredIn(DOMAIN e.add, tables)
      BY <2>2, <2>3, <2>4 DEF Stored, StoredIn
    <3> QED BY <2>4, <3>1, DescriptorNew
  <2>7. /\ manifests' \in Files(ManifestType) /\ manifestNo \in DOMAIN manifests'
        /\ manifests'[manifestNo].synced = 1 /\ manifests'[manifestNo].edits = <<e>>
    <3>1. manifests' = [manifests EXCEPT ![manifestNo].synced = 1]
      BY <2>1, <2>5 DEF SyncedManifests
    <3>2. 1 \in Nat OBVIOUS
    <3> QED BY <2>2, <2>3, <2>5, <3>1, <3>2, ManifestSynced
  <2>8. Edits' = <<e>> /\ Synced' = 1 BY <2>1, <2>7 DEF Edits, Synced
  <2>9. Descriptor' BY <2>1, <2>6, <2>7, <2>8 DEF Descriptor
  <2>10. Opening'
    <3>1. manifests'[manifestNo].edits = <<Edit(Over(opened, version), {}, logfile, next, last)>>
      BY <2>7 DEF e
    <3>2. manifestNo # 0 BY <2>2, <2>3
    <3> QED BY <2>1, <2>2, <2>3, <2>7, <3>1, <3>2 DEF Opening, Stored
  <2>11. Running' BY <2>1 DEF Running
  <2>12. FileTypes' BY <2>1, <2>2, <2>7 DEF FilesInv, FileTypes
  <2> QED BY <2>9, <2>10, <2>11, <2>12 DEF FilesInv
<1>6. CASE OpenReturns
  <2>1. /\ pc = "current" /\ pc' = "up" /\ version' = LastEdit.add /\ logNumber' = LastEdit.log
        /\ opened' = Empty
        /\ DeleteObsoleteFiles(logs, tables, manifests, version', logNumber', {}, {})
        /\ UNCHANGED <<current, next, last, manifestNo, recovering, mem, imm, logfile, pending,
                       flush, compact, bgError, pinned>>
    BY <1>6 DEF OpenReturns, memory
  <2> DEFINE e == Edit(Over(opened, version), {}, logfile, next, last)
             v == Over(opened, version)
  <2>2. /\ current # 0 /\ manifestNo < next /\ next \in Nat /\ last \in Nat /\ manifestNo \in Nat
        /\ logfile \in Nat /\ current \in Nat
        /\ logs \in Files(LogType) /\ DOMAIN logs \in SUBSET Nat
        /\ tables \in Files(TableType)
        /\ manifests \in Files(ManifestType)
        /\ v \in Files(Nat) /\ DOMAIN v = DOMAIN opened \cup DOMAIN version
        /\ current \in DOMAIN manifests
        /\ DescriptorOf(current, Edits, Synced, tables)
    BY <2>1, OpeningIs
  <2>3. /\ Stored(DOMAIN version) /\ Stored(DOMAIN opened)
        /\ \A m \in DOMAIN version \cup DOMAIN opened : m < next
        /\ recovering = {} /\ \A m \in DOMAIN logs : m \in recovering \/ m < next
        /\ logfile \in DOMAIN logs /\ manifestNo \in DOMAIN manifests
        /\ manifests[manifestNo].edits = <<e>> /\ current = manifestNo
    BY <2>1 DEF FilesInv, Opening
  <2>4. e \in EditType /\ e.ok /\ e.add = v /\ e.log = logfile /\ e.next = next
    <3>1. {} \in SUBSET Nat OBVIOUS
    <3> QED BY <2>2, <3>1, EditIs
  <2>5. /\ ~bgError /\ pinned = {} /\ flush = NoFlush /\ compact = NoCompact
    BY <2>1 DEF ControlInv, QuietUnlessUp
  <2>6. Edits = <<e>> /\ Len(<<e>>) = 1 /\ <<e>>[1] = e /\ LastEdit = e
    <3>1. LastEdit = Last(<<e>>) BY <2>3 DEF LastEdit
    <3> HIDE DEF e
    <3> QED BY <2>3, <3>1 DEF Edits, Last
  <2> HIDE DEF e
  <2>7. version' = v /\ logNumber' = logfile /\ logNumber' \in Nat
    BY <2>1, <2>2, <2>4, <2>6
  <2> HIDE DEF v
  <2>8. /\ logs' \in Files(LogType) /\ tables' \in Files(TableType)
        /\ manifests' \in Files(ManifestType)
        /\ DOMAIN logs' \subseteq DOMAIN logs
        /\ logfile \in DOMAIN logs'
        /\ \A n \in DOMAIN tables' : tables'[n] = tables[n]
        /\ DOMAIN tables' \subseteq DOMAIN tables /\ DOMAIN tables' \subseteq DOMAIN v
        /\ \A n \in DOMAIN tables : n \in DOMAIN v => n \in DOMAIN tables'
        /\ manifestNo \in DOMAIN manifests' /\ manifests'[manifestNo] = manifests[manifestNo]
    <3>1. DeleteObsoleteFiles(logs, tables, manifests, v, logfile, {}, {})
      BY <2>1, <2>7
    <3>2. LiveTables(v, {}, {}) = DOMAIN v BY <2>5 DEF LiveTables
    <3>3. /\ logs' \in Files(LogType) /\ tables' \in Files(TableType)
          /\ manifests' \in Files(ManifestType)
          /\ DOMAIN logs' \subseteq DOMAIN logs /\ DOMAIN tables' \subseteq DOMAIN tables
          /\ \A n \in DOMAIN logs : logfile <= n => n \in DOMAIN logs'
          /\ \A n \in DOMAIN tables' : tables'[n] = tables[n]
          /\ \A n \in DOMAIN tables : n \in LiveTables(v, {}, {}) => n \in DOMAIN tables'
          /\ manifestNo \in DOMAIN manifests => /\ manifestNo \in DOMAIN manifests'
                                                /\ manifests'[manifestNo] = manifests[manifestNo]
          /\ ~bgError => DOMAIN tables' \subseteq LiveTables(v, {}, {})
      BY <2>2, <3>1, ObsoleteFiles
    <3> QED BY <2>2, <2>3, <2>5, <3>2, <3>3
  <2>9. StoredIn(DOMAIN v, tables')
    BY <2>2, <2>3, <2>8 DEF Stored, StoredIn
  <2>10. /\ DescriptorOf(current, <<e>>, Synced, tables')
         /\ DOMAIN FilesAfter(<<e>>)[1] = DOMAIN v
    <3>1. Synced \in 0 .. 1 /\ (current # 1 => Synced = 1)
      BY <2>2, <2>6 DEF DescriptorOf
    <3>2. current < e.next /\ e.log < e.next /\ \A n \in DOMAIN e.add : n < e.next
      BY <2>2, <2>3, <2>4
    <3>3. StoredIn(DOMAIN e.add, tables') BY <2>4, <2>9
    <3>4. /\ DescriptorOf(current, <<e>>, Synced, tables')
          /\ DOMAIN FilesAfter(<<e>>)[1] = DOMAIN e.add
      BY <2>4, <3>1, <3>2, <3>3, DescriptorNew
    <3> QED BY <2>4, <3>4
  <2>11. Edits' = <<e>> /\ Synced' = Synced
    BY <2>1, <2>3, <2>6, <2>8 DEF Edits, Synced
  <2>12. Descriptor' BY <2>1, <2>3, <2>8, <2>10, <2>11 DEF Descriptor
  <2>13. Opening' BY <2>1 DEF Opening
  <2>14. ~InFlight' /\ compact'.held = {} /\ flush'.phase = "none" /\ compact'.phase = "none"
    BY <2>1, <2>5 DEF InFlight, NoFlush, NoCompact
  <2>15. Running'
    <3>1. /\ current' # 0 /\ current' = manifestNo' /\ manifestNo' < next'
          /\ logfile' \in DOMAIN logs' /\ logNumber' <= logfile'
      BY <2>1, <2>2, <2>3, <2>7, <2>8
    <3>2. \A n \in DOMAIN logs' \cup DOMAIN tables' : n < next'
      BY <2>1, <2>2, <2>3, <2>8
    <3>3. \A i \in 1 .. Len(Edits') : Edits'[i].next <= next' /\ Edits'[i].log <= logfile'
                                      /\ Edits'[i].ok
      <4>1. Len(Edits') = 1 /\ Edits'[1] = e BY <2>6, <2>11
      <4> SUFFICES ASSUME NEW i \in 1 .. Len(Edits')
                   PROVE  Edits'[i].next <= next' /\ Edits'[i].log <= logfile' /\ Edits'[i].ok
        OBVIOUS
      <4>2. Edits'[i] = e BY <4>1
      <4> QED BY <2>1, <2>2, <2>4, <4>2
    <3>4. Stored(DOMAIN version)' /\ Stored(pinned)' /\ Stored(compact.held)'
      BY <2>1, <2>5, <2>7, <2>9, <2>14 DEF Stored, StoredIn
    <3>5. DOMAIN FilesAfter(Edits')[Len(Edits')] = DOMAIN version'
      BY <2>6, <2>7, <2>10, <2>11
    <3> QED BY <2>14, <3>1, <3>2, <3>3, <3>4, <3>5 DEF Running
  <2>16. FileTypes'
    BY <2>1, <2>2, <2>7, <2>8, EmptyFiles DEF FilesInv, FileTypes
  <2> QED BY <2>12, <2>13, <2>15, <2>16 DEF FilesInv
<1>7. CASE OpenFails
  <2>1. /\ pc \in {"logs", "manifest"} /\ Forget /\ UNCHANGED <<logs, tables, current>>
        /\ manifests' = IF pc = "manifest" THEN Without(manifests, {manifestNo}) ELSE manifests
    BY <1>7 DEF OpenFails
  <2>2. /\ current \in Nat /\ manifestNo \in Nat /\ current \in DOMAIN manifests
        /\ logs \in Files(LogType) /\ tables \in Files(TableType)
        /\ manifests \in Files(ManifestType)
        /\ DescriptorOf(current, Edits, Synced, tables)
    BY <2>1, OpeningIs
  <2>3. current < manifestNo BY <2>1 DEF FilesInv, Opening
  <2>4. /\ manifests' \in Files(ManifestType)
        /\ current \in DOMAIN manifests' /\ manifests'[current] = manifests[current]
    <3>1. Without(manifests, {manifestNo}) \in Files(ManifestType)
      BY <2>2, WithoutFiles
    <3>2. /\ current \in DOMAIN Without(manifests, {manifestNo})
          /\ Without(manifests, {manifestNo})[current] = manifests[current]
      BY <2>2, <2>3 DEF Without
    <3> QED BY <2>1, <2>2, <3>1, <3>2
  <2>5. Descriptor' BY <2>1, <2>2, <2>4 DEF Descriptor, Edits, Synced
  <2>6. FileTypes' /\ Opening' /\ Running'
    <3>1. logs' \in Files(LogType) /\ tables' \in Files(TableType) /\ current' \in Nat
      BY <2>1, <2>2
    <3> QED BY <2>1, <2>4, <3>1, ForgetFiles
  <2> QED BY <2>5, <2>6 DEF FilesInv
<1> QED BY <1>1, <1>2, <1>3, <1>4, <1>5, <1>6, <1>7 DEF OpenStep

-----------------------------------------------------------------------------
(* The files, always.                                                      *)

\* The process ends without touching a file (~DBImpl, a crash of the process).
LEMMA EndFiles ==
    ASSUME FilesInv, Closed \/ ProcessCrash
    PROVE  FilesInv'
<1>1. Forget /\ UNCHANGED <<logs, tables, manifests, current>>
  BY DEF Closed, ProcessCrash, disk
<1>2. FileTypes' /\ Opening' /\ Running'
  <2>1. /\ logs' \in Files(LogType) /\ tables' \in Files(TableType)
        /\ manifests' \in Files(ManifestType) /\ current' \in Nat
    BY <1>1 DEF FilesInv, FileTypes
  <2> QED BY <1>1, <2>1, ForgetFiles
<1>3. Descriptor' BY <1>1 DEF FilesInv, Descriptor, Edits, Synced
<1> QED BY <1>2, <1>3 DEF FilesInv

\* Iterators come and go, the background thread finds nothing to do, and
\* ~DBImpl begins to wait for it.
LEMMA OtherFiles ==
    ASSUME ControlInv, FilesInv, Pin \/ Unpin \/ Close \/ BackgroundNothing
    PROVE  FilesInv'
<1>1. /\ UNCHANGED <<logs, tables, manifests, current, version, next, last, logNumber,
                     manifestNo, recovering, opened, pc, mem, imm, logfile, flush, compact,
                     pending, bgError>>
      /\ pinned' \in {pinned, {}, DOMAIN version}
  BY DEF Pin, Unpin, Close, BackgroundNothing, disk, vset, opening, memory, bg
<1>2. pc = "up"
  BY DEF Pin, Unpin, Close, BackgroundNothing, ControlInv, QuietUnlessUp
<1>3. Descriptor' /\ Opening' /\ Running' BY <1>1, <1>2, RunningStays
<1>4. pinned' \in SUBSET Nat BY <1>1, FilesMeans DEF FilesInv, FileTypes
<1>5. FileTypes' BY <1>1, <1>4 DEF FilesInv, FileTypes
<1> QED BY <1>3, <1>5 DEF FilesInv

\* An empty directory satisfies FilesInv.
LEMMA FilesInit == Init => FilesInv
<1> SUFFICES ASSUME Init PROVE FilesInv OBVIOUS
<1>1. /\ logs = Empty /\ tables = Empty /\ manifests = Empty /\ current = 0
      /\ version = Empty /\ opened = Empty /\ next = 0 /\ last = 0 /\ logNumber = 0
      /\ manifestNo = 0 /\ logfile = 0 /\ recovering = {} /\ mem = {} /\ imm = NoMem
      /\ pending = {} /\ pinned = {} /\ flush = NoFlush /\ compact = NoCompact /\ pc = "down"
  BY DEF Init
<1>2. /\ flush.num = 0 /\ compact.num = 0 /\ compact.inputs = {} /\ compact.held = {}
  BY <1>1 DEF NoFlush, NoCompact
<1>3. /\ logs \in Files(LogType) /\ tables \in Files(TableType)
      /\ manifests \in Files(ManifestType) /\ version \in Files(Nat) /\ opened \in Files(Nat)
      /\ mem \in EntrySets
  BY <1>1, EmptyFiles, EntriesJoin
<1>4. FileTypes BY <1>1, <1>2, <1>3 DEF FileTypes
<1> QED BY <1>1, <1>4 DEF FilesInv, Descriptor, Opening, Running

\* Every step keeps FilesInv.
LEMMA FilesStep == ControlInv /\ FilesInv /\ [Next]_vars => FilesInv'
<1> SUFFICES ASSUME ControlInv, FilesInv, [Next]_vars PROVE FilesInv'
  OBVIOUS
<1>1. CASE \E c \in Calls : Write(c) \/ LeaderStep(c)
  BY <1>1, WriterFiles
<1>2. CASE BackgroundStep
  <2>1. CASE BackgroundNothing BY <2>1, OtherFiles
  <2>2. CASE StartFlush \/ FlushBuilt \/ FlushInstalled \/ FlushFailed
    BY <2>2, FlushFiles
  <2>3. CASE \/ StartMove \/ StartCompaction \/ CompactionBuilt \/ CompactionInstalled
             \/ CompactionFailed
    BY <2>3, CompactionFiles
  <2> QED BY <1>2, <2>1, <2>2, <2>3 DEF BackgroundStep
<1>3. CASE OpenStep BY <1>3, OpenFiles
<1>4. CASE Pin \/ Unpin \/ Close BY <1>4, OtherFiles
<1>5. CASE Closed \/ ProcessCrash BY <1>5, EndFiles
<1>6. CASE MachineCrashes BY <1>6, CrashFiles
<1>7. CASE UNCHANGED vars
  <2>1. UNCHANGED <<logs, tables, manifests, current, version, next, last, logNumber,
                    manifestNo, recovering, opened, pc, mem, imm, logfile, flush, compact,
                    pending, bgError, pinned>>
    BY <1>7 DEF vars, disk, vset, opening, memory, bg
  <2>2. FileTypes' /\ Opening'
    BY <2>1 DEF FilesInv, FileTypes, Opening, Stored, StoredIn
  <2>3. Descriptor' BY <2>1 DEF FilesInv, Descriptor, Edits, Synced
  <2>4. Running'
    BY <2>1 DEF FilesInv, Running, Stored, StoredIn, Edits, Synced, InFlight, LastEdit
  <2> QED BY <2>2, <2>3, <2>4 DEF FilesInv
<1> QED BY <1>1, <1>2, <1>3, <1>4, <1>5, <1>6, <1>7 DEF Next

\* Wherever a crash cuts the descriptor, the tables it then names are finished
\* and on disk; a running database agrees with it (LogAndApply, DB::Open,
\* DeleteObsoleteFiles).
LEMMA FilesAlways == Spec => []FilesInv
BY FilesInit, FilesStep, ControlAlways, PTL DEF Spec

\* The shape of the state, and that the files a running database writes to
\* exist and have numbers that were handed out (NewFileNumber,
\* MarkFileNumberUsed, SwitchMemTable, DB::Open).
THEOREM DBImplTypes == Spec => []TypeOK
<1>1. ControlInv /\ FilesInv => TypeOK
  <2> SUFFICES ASSUME ControlInv, FilesInv PROVE TypeOK OBVIOUS
  <2>1. /\ pc \in {"down", "recover", "logs", "manifest", "current", "up", "corrupt"}
        /\ phase \in [Calls -> {"idle", "queued", "append", "sync", "insert", "failed",
                                "syncfailed", "ok", "error", "lost"}]
        /\ kind \in [Calls -> {"sync", "async", "force"}]
        /\ group \in 0 .. Len(writers)
    BY DEF ControlInv, ControlTypes, Phases
  <2>2. flush.phase \in {"none", "build", "log"} /\ compact.phase \in {"none", "merge", "move", "log"}
    BY NoJobs DEF ControlInv, OneJob
  <2>3. pc = "up" => /\ logfile \in DOMAIN logs /\ manifestNo \in DOMAIN manifests
                     /\ \A n \in DOMAIN logs \cup DOMAIN tables : n < next
    BY UpIs
  <2> QED BY <2>1, <2>2, <2>3 DEF TypeOK
<1> QED BY <1>1, ControlAlways, FilesAlways, PTL

\* What an iterator, a running compaction or a read of the current version
\* opens is a finished table that DeleteObsoleteFiles has left in place.
THEOREM TablesAreThere == Spec => []NeededTablesExist
<1>1. FilesInv => NeededTablesExist
  BY DEF FilesInv, Running, Stored, StoredIn, NeededTablesExist
<1> QED BY <1>1, FilesAlways, PTL

-----------------------------------------------------------------------------
(* Whoever sleeps is woken.                                                *)

\* While a leader has to wait there is work for the background thread:
\* level 0 stops the writers no earlier than it asks for a compaction.
LEMMA WaitingIsWork ==
    ASSUME ControlInv, FilesInv, MustWait, ~closing, ~bgError
    PROVE  Work(imm, version, bgError)
<1>1. CASE imm # NoMem BY <1>1 DEF Work
<1>2. CASE Cardinality(Level0(version)) >= L0Stop
  <2>1. IsFiniteSet(DOMAIN version)
    BY FilesMeans DEF FilesInv, FileTypes
  <2>2. IsFiniteSet(Level0(version))
    <3>1. Level0(version) \subseteq DOMAIN version BY DEF Level0
    <3> QED BY <2>1, <3>1, FS_Subset
  <2>3. Cardinality(Level0(version)) \in Nat BY <2>2, FS_CardinalityType
  <2>4. NeedsCompaction(version)
    BY <1>2, <2>3, DBImplAssumption DEF NeedsCompaction
  <2> QED BY <2>4 DEF Work
<1> QED BY <1>1, <1>2 DEF MustWait

\* The end of BackgroundCall wakes the leader and reschedules the thread if
\* there is work.
LEMMA DoneIsAwake ==
    ASSUME NEW v, NEW w, NEW e, BackgroundDone(v, w, e),
           imm' = v, version' = w, bgError' = e, closing' = closing
    PROVE  AwakeInv'
<1>1. waiting' = FALSE /\ scheduled' = Work(v, w, e)
  BY DEF BackgroundDone, SignalAll
<1>2. Work(imm, version, bgError)' = Work(v, w, e)
  BY DEF Work, NeedsCompaction, Level0
<1> QED BY <1>1, <1>2 DEF AwakeInv

\* The same at the end of CompactMemTable, when the thread goes on with a
\* compaction or is done.
LEMMA FlushEndsAwake ==
    ASSUME ControlInv, NEW v, NEW w, NEW e, FlushEnds(v, w, e),
           imm' = v, version' = w, bgError' = e, closing' = closing
    PROVE  AwakeInv'
<1>1. CASE compact = NoCompact BY <1>1, DoneIsAwake DEF FlushEnds
<1>2. CASE compact # NoCompact
  <2>1. waiting' = FALSE /\ scheduled' = scheduled
    BY <1>2 DEF FlushEnds, SignalAll
  <2>2. scheduled = TRUE BY <1>2 DEF ControlInv, ControlTypes, OneJob
  <2> QED BY <2>1, <2>2 DEF AwakeInv
<1> QED BY <1>1, <1>2

\* A step that neither makes work nor takes the thread away.
LEMMA StaysAwake ==
    ASSUME AwakeInv, waiting' => waiting, UNCHANGED <<scheduled, imm, version>>,
           closing => closing', bgError => bgError',
           pc' = "up" => pc = "up"
    PROVE  AwakeInv'
<1>1. Work(imm, version, bgError)' => Work(imm, version, bgError)
  BY DEF Work, NeedsCompaction, Level0
<1> QED BY <1>1 DEF AwakeInv

\* No process, nobody asleep.
LEMMA ForgetAwake == ASSUME Forget PROVE AwakeInv'
BY DEF Forget, AwakeInv

\* An answer to the head of the queue leaves its successor awake.
LEMMA AnswerAwake == \A n, a : Answer(n, a) => waiting' = waiting
BY DEF Answer

\* A leader goes to sleep only when there is work, and whoever makes work
\* schedules the thread (MakeRoomForWrite).
LEMMA WriterAwake ==
    ASSUME ControlInv, FilesInv, AwakeInv, NEW c \in Calls, Write(c) \/ LeaderStep(c)
    PROVE  AwakeInv'
<1>1. CASE WriteWaits(c)
  <2>1. /\ Leader(c) /\ ~bgError /\ MustWait
        /\ UNCHANGED <<pc, imm, version, scheduled, bgError, closing>>
    BY <1>1 DEF WriteWaits, NeedsSwitch, vset, memory, bg
  <2>2. pc = "up" /\ ~closing BY <2>1, LeaderIs
  <2>3. Work(imm, version, bgError) BY <2>1, <2>2, WaitingIsWork
  <2>4. scheduled BY <2>2, <2>3 DEF AwakeInv
  <2> QED BY <2>1, <2>4 DEF AwakeInv
<1>2. CASE SwitchMemTable(c)
  <2>1. /\ Leader(c) /\ MaybeScheduleCompaction(imm', version, FALSE) /\ Proceed(c)
        /\ ~bgError /\ UNCHANGED <<pc, version, bgError, closing>>
    BY <1>2 DEF SwitchMemTable, MaySwitch, NeedsSwitch
  <2>2. waiting' = waiting /\ bgError = FALSE
    BY <2>1, ProceedControl DEF ControlInv, ControlTypes
  <2>3. scheduled' = (scheduled \/ Work(imm', version, FALSE))
    BY <2>1 DEF MaybeScheduleCompaction
  <2>4. Work(imm, version, bgError)' = Work(imm', version, FALSE)
    BY <2>1, <2>2 DEF Work, NeedsCompaction, Level0
  <2> QED BY <2>2, <2>3, <2>4 DEF AwakeInv
<1>3. CASE \/ Write(c) \/ WriteRejected(c) \/ WriteHasRoom(c) \/ SwitchFailed(c)
           \/ AppendLog(c) \/ AppendFailed(c) \/ SyncLog(c) \/ SyncFailed(c) \/ FinishWrite(c)
  <2>1. UNCHANGED <<pc, scheduled, imm, version, closing>> /\ (bgError => bgError')
    <3>1. CASE FinishWrite(c) BY <3>1 DEF FinishWrite, bg
    <3>2. CASE \/ Write(c) \/ WriteRejected(c) \/ WriteHasRoom(c) \/ SwitchFailed(c)
               \/ AppendLog(c) \/ AppendFailed(c) \/ SyncLog(c) \/ SyncFailed(c)
      <4>1. UNCHANGED <<pc, scheduled, imm, version, closing, bgError>>
        BY <3>2 DEF Write, WriteRejected, WriteHasRoom, SwitchFailed, AppendLog, AppendFailed,
                    SyncLog, SyncFailed, vset, memory, bg
      <4> QED BY <4>1
    <3> QED BY <1>3, <3>1, <3>2
  <2>2. waiting' = waiting
    <3>1. CASE WriteHasRoom(c)
      <4>1. Leader(c) /\ Proceed(c) BY <3>1 DEF WriteHasRoom
      <4> QED BY <4>1, ProceedControl
    <3>2. CASE WriteRejected(c) \/ SwitchFailed(c) \/ FinishWrite(c)
      <4>1. \E n, a : Answer(n, a)
        BY <3>2 DEF WriteRejected, SwitchFailed, FinishWrite
      <4> QED BY <4>1, AnswerAwake
    <3>3. CASE Write(c) \/ AppendLog(c) \/ AppendFailed(c) \/ SyncLog(c) \/ SyncFailed(c)
      BY <3>3 DEF Write, AppendLog, AppendFailed, SyncLog, SyncFailed
    <3> QED BY <1>3, <3>1, <3>2, <3>3
  <2> QED BY <2>1, <2>2, StaysAwake
<1> QED BY <1>1, <1>2, <1>3 DEF LeaderStep

\* Every path through BackgroundCall ends in the reschedule and the SignalAll.
LEMMA BackgroundAwake ==
    ASSUME ControlInv, AwakeInv, BackgroundStep
    PROVE  AwakeInv'
<1>1. CASE BackgroundNothing
  <2>1. /\ BackgroundDone(imm, version, bgError)
        /\ UNCHANGED <<imm, version, bgError, closing>>
    BY <1>1 DEF BackgroundNothing, vset, memory
  <2> QED BY <2>1, DoneIsAwake
<1>2. CASE StartFlush \/ FlushBuilt \/ StartMove \/ StartCompaction \/ CompactionBuilt
  <2>1. UNCHANGED <<pc, waiting, scheduled, imm, version, closing, bgError>>
    BY <1>2 DEF StartFlush, FlushBuilt, StartMove, StartCompaction, CompactionBuilt, vset,
                queue, memory
  <2> QED BY <2>1, StaysAwake
<1>3. CASE FlushInstalled
  <2>1. /\ FlushEnds(NoMem, version', bgError) /\ imm' = NoMem
        /\ UNCHANGED <<bgError, closing>>
    BY <1>3 DEF FlushInstalled
  <2> QED BY <2>1, FlushEndsAwake
<1>4. CASE FlushFailed
  <2>1. /\ FlushEnds(imm, version, TRUE) /\ bgError' = TRUE
        /\ UNCHANGED <<imm, version, closing>>
    BY <1>4 DEF FlushFailed, vset, memory
  <2> QED BY <2>1, FlushEndsAwake
<1>5. CASE CompactionInstalled
  <2>1. /\ BackgroundDone(imm, version', bgError)
        /\ UNCHANGED <<imm, bgError, closing>>
    BY <1>5 DEF CompactionInstalled, memory
  <2> QED BY <2>1, DoneIsAwake
<1>6. CASE CompactionFailed
  <2>1. /\ BackgroundDone(imm, version, TRUE) /\ bgError' = TRUE
        /\ UNCHANGED <<imm, version, closing>>
    BY <1>6 DEF CompactionFailed, vset, memory
  <2> QED BY <2>1, DoneIsAwake
<1> QED BY <1>1, <1>2, <1>3, <1>4, <1>5, <1>6 DEF BackgroundStep

\* Every step keeps AwakeInv.
LEMMA AwakeStep == ControlInv /\ FilesInv /\ AwakeInv /\ [Next]_vars => AwakeInv'
<1> SUFFICES ASSUME ControlInv, FilesInv, AwakeInv, [Next]_vars PROVE AwakeInv'
  OBVIOUS
<1>1. CASE \E c \in Calls : Write(c) \/ LeaderStep(c)
  BY <1>1, WriterAwake
<1>2. CASE BackgroundStep BY <1>2, BackgroundAwake
<1>3. CASE OpenStep
  <2>1. CASE OpenReturns
    <3>1. /\ MaybeScheduleCompaction(NoMem, version', FALSE)
          /\ UNCHANGED <<imm, waiting, bgError, closing>> /\ pc # "up"
      BY <2>1 DEF OpenReturns, queue, memory
    <3>2. imm = NoMem /\ ~waiting /\ bgError = FALSE
      BY <3>1 DEF ControlInv, ControlTypes, QuietUnlessUp
    <3>3. scheduled' = (scheduled \/ Work(NoMem, version', FALSE))
      BY <3>1 DEF MaybeScheduleCompaction
    <3>4. Work(imm, version, bgError)' = Work(NoMem, version', FALSE)
      BY <3>1, <3>2 DEF Work, NeedsCompaction, Level0
    <3> QED BY <3>1, <3>2, <3>3, <3>4 DEF AwakeInv
  <2>2. CASE NewDB \/ Recover \/ RecoverLogFile \/ OpenWritesManifest \/ OpenSetsCurrent
    <3>1. pc' # "up" /\ pc # "up" /\ UNCHANGED <<waiting, scheduled>>
      BY <2>2 DEF NewDB, Recover, RecoverLogFile, OpenWritesManifest, OpenSetsCurrent, queue, bg
    <3>2. ~waiting BY <3>1 DEF ControlInv, QuietUnlessUp
    <3> QED BY <3>1, <3>2 DEF AwakeInv
  <2>3. CASE OpenFails BY <2>3, ForgetAwake DEF OpenFails
  <2> QED BY <1>3, <2>1, <2>2, <2>3 DEF OpenStep
<1>4. CASE Pin \/ Unpin \/ Close
  <2>1. /\ UNCHANGED <<pc, waiting, scheduled, imm, version, bgError>> /\ (closing => closing')
    BY <1>4 DEF Pin, Unpin, Close, vset, queue, memory, bg
  <2> QED BY <2>1, StaysAwake
<1>5. CASE Closed \/ ProcessCrash \/ MachineCrashes
  BY <1>5, ForgetAwake DEF Closed, ProcessCrash, MachineCrashes
<1>6. CASE UNCHANGED vars
  <2>1. UNCHANGED <<pc, waiting, scheduled, imm, version, closing, bgError>>
    BY <1>6 DEF vars, vset, queue, memory, bg
  <2> QED BY <2>1, StaysAwake
<1> QED BY <1>1, <1>2, <1>3, <1>4, <1>5, <1>6 DEF Next

\* No lost wake-up: a writer that sleeps in MakeRoomForWrite sleeps while the
\* background thread has still to come to the SignalAll of BackgroundCall, at
\* whatever point errors, a close or a crash interrupt either of them.
THEOREM SleepersAreWoken == Spec => []SleeperIsWoken
<1>1. Init => AwakeInv BY DEF Init, AwakeInv
<1>2. AwakeInv => SleeperIsWoken BY DEF AwakeInv, SleeperIsWoken
<1> QED BY <1>1, <1>2, AwakeStep, ControlAlways, FilesAlways, PTL DEF Spec

-----------------------------------------------------------------------------
(* The database can be opened again.                                       *)

\* DB::Open finds no readable descriptor only if there is none with a record:
\* the one NewDB writes, cut off before its first record was synced.
LEMMA RecoverSucceeds ==
    ASSUME FilesInv, ~MayTear, Recover, pc' = "corrupt"
    PROVE  current = 1
<1>1. current # 0 BY DEF FilesInv, Opening, Recover
<1>2. /\ Edits \in Seq(EditType) /\ Len(Edits) \in Nat /\ Synced \in 0 .. Len(Edits)
      /\ DescriptorOf(current, Edits, Synced, tables) /\ current \in Nat
  BY <1>1, EditsType DEF FilesInv, FileTypes
<1>3. CASE Edits = <<>>
  <2>1. Len(Edits) = 0 BY <1>3
  <2>2. Synced = 0 BY <1>2, <2>1
  <2> QED BY <1>2, <2>2 DEF DescriptorOf
<1>4. CASE Edits # <<>>
  <2>1. \A i \in 1 .. Len(Edits) : Edits[i].ok
    BY <1>2 DEF DescriptorOf, Numbered
  <2>2. {i \in DOMAIN Edits : ~Edits[i].ok} = {}
    <3>1. DOMAIN Edits = 1 .. Len(Edits) BY <1>2, LenProperties
    <3> QED BY <2>1, <3>1
  <2>3. ReadableRecords(Edits) = Edits BY <2>2 DEF ReadableRecords
  <2>4. EditsReadable(Edits)
    <3>1. \A i \in 1 .. Len(Edits) - 1 : i \in 1 .. Len(Edits) BY <1>2
    <3> QED BY <1>4, <2>1, <2>3, <3>1 DEF EditsReadable
  <2>5. DOMAIN ReplayEdits(Edits).files \subseteq DOMAIN tables
    <3>1. StoredIn(DOMAIN ReplayEdits(Edits).files, tables)
      BY <1>2, <2>4, RecoverReads
    <3> QED BY <3>1 DEF StoredIn
  <2>6. pc' = "logs" BY <2>4, <2>5 DEF Recover, Edits, FilesPresent
  <2> QED BY <2>6
<1> QED BY <1>3, <1>4

\* Without torn appends, a database that was opened once can be opened again
\* after any crashes, errors and closes: its descriptor has a record, and
\* every table it names is there (LogAndApply, DeleteObsoleteFiles, DB::Open).
THEOREM OpensAgain == ~MayTear /\ Spec => []Reopens
<1> SUFFICES ASSUME ~MayTear PROVE Spec => []Reopens OBVIOUS
<1>1. Init => Reopens BY DEF Init, Reopens
<1>2. ControlInv /\ FilesInv /\ Reopens /\ [Next]_vars => Reopens'
  <2> SUFFICES ASSUME ControlInv, FilesInv, Reopens, [Next]_vars, pc' = "corrupt"
               PROVE  current' = 1
    BY DEF Reopens
  <2>1. CASE Recover
    <3>1. current' = current BY <2>1 DEF Recover, disk
    <3> QED BY <2>1, <3>1, RecoverSucceeds
  <2>2. CASE \E c \in Calls : Write(c) \/ LeaderStep(c)
    <3>1. pc = "corrupt" /\ current' = current
      BY <2>2 DEF LeaderStep, Write, WriteRejected, WriteHasRoom, WriteWaits, SwitchMemTable,
                  SwitchFailed, AppendLog, AppendFailed, SyncLog, SyncFailed, FinishWrite, disk
    <3> QED BY <3>1 DEF Reopens
  <2>3. CASE BackgroundStep
    <3>1. pc = "corrupt" /\ current' = current
      BY <2>3 DEF BackgroundStep, BackgroundNothing, StartFlush, FlushBuilt, FlushInstalled,
                  FlushFailed, StartMove, StartCompaction, CompactionBuilt,
                  CompactionInstalled, CompactionFailed, disk
    <3> QED BY <3>1 DEF Reopens
  <2>4. CASE NewDB \/ RecoverLogFile \/ OpenWritesManifest \/ OpenSetsCurrent \/ OpenReturns
    BY <2>4 DEF NewDB, RecoverLogFile, OpenWritesManifest, OpenSetsCurrent, OpenReturns
  <2>5. CASE OpenFails \/ Closed \/ ProcessCrash \/ MachineCrashes
    BY <2>5 DEF OpenFails, Closed, ProcessCrash, MachineCrashes, Forget
  <2>6. CASE Pin \/ Unpin \/ Close
    BY <2>6 DEF Pin, Unpin, Close, disk, Reopens
  <2>7. CASE UNCHANGED vars BY <2>7 DEF vars, disk, Reopens
  <2> QED BY <2>1, <2>2, <2>3, <2>4, <2>5, <2>6, <2>7 DEF Next, OpenStep
<1> QED BY <1>1, <1>2, ControlAlways, FilesAlways, PTL DEF Spec

-----------------------------------------------------------------------------
(* The queue of writers.                                                   *)

\* A step that leaves the writers alone.
LEMMA QueueStays ==
    ASSUME QueueInv, UNCHANGED <<writers, group, phase, kind>>
    PROVE  QueueInv'
  BY DEF QueueInv

\* The writers of a queue.
LEMMA WritersAre ==
    ASSUME ControlInv
    PROVE  /\ writers \in Seq(Calls) /\ Len(writers) \in Nat /\ group \in 0 .. Len(writers)
           /\ \A i \in 1 .. Len(writers) : writers[i] \in Calls
  BY LenProperties, ElementOfSeq DEF ControlInv, ControlTypes

\* Write's end changes the answers of those who leave, and nobody else's.
LEMMA AnswerIs ==
    ASSUME ControlInv, QueueInv, writers # <<>>,
           NEW n \in 1 .. Len(writers), NEW answer \in {"ok", "error"},
           Answer(n, answer)
    PROVE  /\ QueueInv' /\ kind' = kind
           /\ \A c \in Calls : /\ phase[c] \notin Busy => phase'[c] = phase[c]
                               /\ phase'[c] \notin Working
                               /\ \/ phase'[c] = phase[c] /\ \A i \in 1 .. n : writers[i] # c
                                  \/ phase'[c] = answer /\ \E i \in 1 .. n : writers[i] = c
<1>1. /\ writers \in Seq(Calls) /\ Len(writers) \in Nat
      /\ \A i \in 1 .. Len(writers) : writers[i] \in Calls
  BY WritersAre
<1>2. /\ writers' = SubSeq(writers, n + 1, Len(writers)) /\ group' = 0 /\ kind' = kind
      /\ phase' = [c \in Calls |-> IF \E i \in 1 .. n : writers[i] = c
                                   THEN answer ELSE phase[c]]
  BY DEF Answer
<1>3. \A c \in Calls : phase'[c] \notin Working
  BY AnswerControl DEF ControlInv
<1>4. /\ Len(writers') = Len(writers) - n
      /\ \A i \in 1 .. Len(writers) - n : writers'[i] = writers[n + i] /\ n + i \in 1 .. Len(writers)
  <2>1. \A i \in n + 1 .. Len(writers) : writers[i] \in Calls BY <1>1
  <2>2. /\ Len(SubSeq(writers, n + 1, Len(writers))) =
             IF n + 1 <= Len(writers) THEN Len(writers) - (n + 1) + 1 ELSE 0
        /\ \A i \in 1 .. Len(writers) - (n + 1) + 1 :
              SubSeq(writers, n + 1, Len(writers))[i] = writers[n + 1 + i - 1]
    BY <1>1, <2>1, SubSeqProperties
  <2>3. \A i \in 1 .. Len(writers) - n : n + 1 + i - 1 = n + i /\ n + i \in 1 .. Len(writers)
    BY <1>1
  <2> QED BY <1>1, <1>2, <2>2, <2>3
<1>5. \A c \in Calls : \/ phase'[c] = phase[c] /\ \A i \in 1 .. n : writers[i] # c
                       \/ phase'[c] = answer /\ \E i \in 1 .. n : writers[i] = c
  BY <1>2
<1>6. \A c \in Calls : phase[c] \notin Busy => phase'[c] = phase[c]
  <2> SUFFICES ASSUME NEW i \in 1 .. n PROVE phase[writers[i]] \in Busy
    BY <1>5
  <2>1. i \in 1 .. Len(writers) BY <1>1
  <2> QED BY <2>1 DEF QueueInv
<1>7. \A i, j \in 1 .. Len(writers') : writers'[i] = writers'[j] => i = j
  <2> SUFFICES ASSUME NEW i \in 1 .. Len(writers) - n, NEW j \in 1 .. Len(writers) - n,
                      writers'[i] = writers'[j]
               PROVE  i = j
    BY <1>4
  <2>1. n + i = n + j BY <1>4 DEF QueueInv
  <2> QED BY <2>1
<1>8. \A i \in 1 .. Len(writers') : phase'[writers'[i]] \in Busy
  <2> SUFFICES ASSUME NEW i \in 1 .. Len(writers) - n PROVE phase'[writers[n + i]] \in Busy
    BY <1>4
  <2>1. n + i \in 1 .. Len(writers) /\ writers[n + i] \in Calls /\ phase[writers[n + i]] \in Busy
    BY <1>1, <1>4 DEF QueueInv
  <2>2. \A k \in 1 .. n : writers[k] # writers[n + i]
    <3> SUFFICES ASSUME NEW k \in 1 .. n, writers[k] = writers[n + i] PROVE FALSE
      OBVIOUS
    <3>1. k \in 1 .. Len(writers) /\ k # n + i BY <1>1
    <3> QED BY <2>1, <3>1 DEF QueueInv
  <2> QED BY <1>5, <2>1, <2>2
<1>9. \A c \in Calls : phase'[c] \in Busy => \E i \in 1 .. Len(writers') : writers'[i] = c
  <2> SUFFICES ASSUME NEW c \in Calls, phase'[c] \in Busy
               PROVE  \E i \in 1 .. Len(writers') : writers'[i] = c
    OBVIOUS
  <2>1. phase'[c] # answer BY DEF Busy, Working
  <2>2. phase'[c] = phase[c] /\ \A i \in 1 .. n : writers[i] # c
    BY <1>5, <2>1
  <2>3. PICK k \in 1 .. Len(writers) : writers[k] = c
    BY <2>2 DEF QueueInv
  <2>4. k - n \in 1 .. Len(writers) - n /\ n + (k - n) = k
    BY <1>1, <2>2, <2>3
  <2> QED BY <1>4, <2>3, <2>4
<1>10. \A c \in Calls : phase'[c] # "sync" BY <1>3 DEF Working
<1>11. QueueInv' BY <1>3, <1>7, <1>8, <1>9, <1>10 DEF QueueInv
<1> QED BY <1>2, <1>3, <1>5, <1>6, <1>11

\* A call of Write joins the queue, once.
LEMMA WriteQueue ==
    ASSUME ControlInv, QueueInv, NEW c \in Calls, Write(c)
    PROVE  /\ QueueInv'
           /\ \A d \in Calls : d # c => phase'[d] = phase[d] /\ kind'[d] = kind[d]
           /\ phase[c] = "idle" /\ phase'[c] = "queued"
           /\ \A i \in 1 .. Len(writers) : writers[i] # c /\ writers'[i] = writers[i]
           /\ group' = group
<1>1. /\ phase[c] = "idle" /\ phase' = [phase EXCEPT ![c] = "queued"]
      /\ writers' = Append(writers, c) /\ group' = group
      /\ \E k \in Kinds : kind' = [kind EXCEPT ![c] = k]
  BY DEF Write
<1>2. /\ writers \in Seq(Calls) /\ Len(writers) \in Nat /\ group \in 0 .. Len(writers)
      /\ \A i \in 1 .. Len(writers) : writers[i] \in Calls
      /\ phase \in [Calls -> Phases] /\ kind \in [Calls -> {"sync", "async", "force"}]
  BY WritersAre DEF ControlInv, ControlTypes
<1>3. /\ \A d \in Calls : d # c => phase'[d] = phase[d] /\ kind'[d] = kind[d]
      /\ phase'[c] = "queued"
  BY <1>1, <1>2
<1>4. /\ Len(writers') = Len(writers) + 1 /\ writers'[Len(writers) + 1] = c
      /\ \A i \in 1 .. Len(writers) : writers'[i] = writers[i]
  BY <1>1, <1>2, AppendProperties
<1>5. \A i \in 1 .. Len(writers) : writers[i] # c /\ phase[writers[i]] \in Busy
  BY <1>1 DEF QueueInv, Busy, Working
<1>6. \A i \in 1 .. Len(writers') : i \in 1 .. Len(writers) \/ i = Len(writers) + 1
  BY <1>2, <1>4
<1>7. \A i, j \in 1 .. Len(writers') : writers'[i] = writers'[j] => i = j
  BY <1>4, <1>5, <1>6 DEF QueueInv
<1>8. \A i \in 1 .. Len(writers') : phase'[writers'[i]] \in Busy
  <2> SUFFICES ASSUME NEW i \in 1 .. Len(writers') PROVE phase'[writers'[i]] \in Busy
    OBVIOUS
  <2>1. CASE i \in 1 .. Len(writers) BY <1>2, <1>3, <1>4, <1>5, <2>1
  <2>2. CASE i = Len(writers) + 1 BY <1>3, <1>4, <2>2 DEF Busy
  <2> QED BY <1>6, <2>1, <2>2
<1>9. \A d \in Calls : phase'[d] \in Busy => \E i \in 1 .. Len(writers') : writers'[i] = d
  <2> SUFFICES ASSUME NEW d \in Calls, phase'[d] \in Busy
               PROVE  \E i \in 1 .. Len(writers') : writers'[i] = d
    OBVIOUS
  <2>1. CASE d = c
    <3>1. Len(writers) + 1 \in 1 .. Len(writers') BY <1>2, <1>4
    <3> QED BY <1>4, <2>1, <3>1
  <2>2. CASE d # c
    <3>1. PICK i \in 1 .. Len(writers) : writers[i] = d
      BY <1>3, <2>2 DEF QueueInv
    <3>2. i \in 1 .. Len(writers') BY <1>2, <1>4, <3>1
    <3> QED BY <1>4, <3>1, <3>2
  <2> QED BY <2>1, <2>2
<1>10. ASSUME NEW d \in Calls, phase'[d] \in Working
       PROVE  /\ kind'[d] # "force"
              /\ \A i \in 1 .. group' : kind'[writers'[i]] = "sync" => kind'[d] = "sync"
              /\ phase'[d] = "sync" => kind'[d] = "sync"
  <2>1. d # c /\ phase[d] \in Working /\ phase'[d] = phase[d] /\ kind'[d] = kind[d]
    BY <1>3, <1>10 DEF Working
  <2>2. \A i \in 1 .. group : /\ i \in 1 .. Len(writers) /\ writers'[i] = writers[i]
                              /\ kind'[writers'[i]] = kind[writers[i]]
    BY <1>2, <1>3, <1>4, <1>5
  <2> QED BY <1>1, <2>1, <2>2 DEF QueueInv
<1>11. \A d \in Calls : phase'[d] = "sync" => kind'[d] = "sync"
  BY <1>10 DEF Working
<1>12. QueueInv' BY <1>7, <1>8, <1>9, <1>10, <1>11 DEF QueueInv
<1> QED BY <1>1, <1>3, <1>4, <1>5, <1>12

\* The leader goes to work, or moves on.
LEMMA WorkQueue ==
    ASSUME ControlInv, QueueInv, NEW c \in Calls, NEW p \in Working,
           phase' = [phase EXCEPT ![c] = p], UNCHANGED <<writers, kind>>,
           \/ phase[c] \in Working /\ group' = group
           \/ Leader(c) /\ group' = GroupSize(writers) /\ kind[c] # "force",
           p = "sync" => kind[c] = "sync"
    PROVE  QueueInv'
<1>1. /\ writers \in Seq(Calls) /\ phase \in [Calls -> Phases] /\ writers # <<>>
      /\ phase[c] \in Busy /\ p \in Busy /\ writers[1] = c
  BY WorkerIs, LeaderIs DEF ControlInv, ControlTypes, Leader, Busy
<1>2. \A d \in Calls : d # c => phase'[d] = phase[d] /\ phase[d] \notin Working
  BY <1>1, LeaderIs DEF ControlInv, LeaderWorks
<1>3. phase'[c] = p BY <1>1
<1>4. \A i \in 1 .. Len(writers) : phase'[writers[i]] \in Busy
  BY <1>1, <1>2, <1>3, WritersAre DEF QueueInv
<1>5. \A d \in Calls : phase'[d] \in Busy => phase[d] \in Busy
  BY <1>1, <1>2
<1>6. kind[c] # "force" /\ \A i \in 1 .. group' : kind[writers[i]] = "sync" => kind[c] = "sync"
  BY <1>1, GroupSizeBounds DEF QueueInv
<1>7. \A d \in Calls : phase'[d] \in Working => d = c BY <1>2
<1>8. \A d \in Calls : phase'[d] = "sync" => kind[d] = "sync"
  BY <1>3, <1>7 DEF Working
<1> QED BY <1>4, <1>5, <1>6, <1>7, <1>8 DEF QueueInv

-----------------------------------------------------------------------------
(* The batch of a group.                                                   *)

\* The batches are counted one by one.
LEMMA BatchesCount ==
    ASSUME ControlInv
    PROVE  \A i \in Nat : /\ Batches(i) \in Nat
                          /\ \A j \in Nat : i <= j => Batches(i) <= Batches(j)
                          /\ \A j \in Nat : i < j /\ kind[writers[j]] # "force"
                                            => Batches(i) < Batches(j)
<1> DEFINE B(i) == {k \in 1 .. i : kind[writers[k]] # "force"}
<1>1. \A i \in Nat : IsFiniteSet(B(i)) /\ Cardinality(B(i)) \in Nat /\ Batches(i) = Cardinality(B(i))
  <2> TAKE i \in Nat
  <2>1. IsFiniteSet(1 .. i) BY FS_Interval
  <2>2. IsFiniteSet(B(i)) BY <2>1, FS_Subset
  <2> QED BY <2>2, FS_CardinalityType DEF Batches
<1>2. ASSUME NEW i \in Nat, NEW j \in Nat, i <= j
      PROVE  Batches(i) <= Batches(j) /\ (i < j /\ kind[writers[j]] # "force" => Batches(i) < Batches(j))
  <2>1. B(i) \subseteq B(j) BY <1>2
  <2>2. i < j /\ kind[writers[j]] # "force" => B(i) # B(j)
    <3>1. i < j /\ kind[writers[j]] # "force" => j \in B(j) /\ j \notin B(i)
      OBVIOUS
    <3> QED BY <3>1
  <2> HIDE DEF B
  <2>3. /\ Cardinality(B(i)) <= Cardinality(B(j))
        /\ Cardinality(B(i)) = Cardinality(B(j)) => B(i) = B(j)
    BY <1>1, <2>1, FS_Subset
  <2> QED BY <1>1, <2>2, <2>3
<1>3. \A i \in Nat : Batches(i) \in Nat BY <1>1
<1>4. \A i, j \in Nat : i < j => i <= j OBVIOUS
<1> HIDE DEF B
<1> QED BY <1>2, <1>3, <1>4, Zenon

\* Each entry of a group has a number of its own, above every number in use and
\* at most the last one Write sets at its end.
LEMMA GroupNumbers ==
    ASSUME ControlInv, QueueInv, last \in Nat
    PROVE  /\ \A e \in GroupEntries :
                 /\ e.seq \in Nat /\ e.seq > last /\ e.seq <= last + Batches(group)
                 /\ e.call \in Calls /\ phase[e.call] \in Busy /\ kind[e.call] # "force"
                 /\ \E i \in 1 .. group : writers[i] = e.call
           /\ \A c \in Calls : (\E i \in 1 .. group : writers[i] = c) /\ kind[c] # "force"
                 => c \in CallsOf(GroupEntries)
           /\ Unique(GroupEntries)
           /\ Batches(group) \in Nat
<1>1. /\ Len(writers) \in Nat /\ group \in 0 .. Len(writers)
      /\ \A i \in 1 .. Len(writers) : writers[i] \in Calls
  BY WritersAre
<1>2. \A i \in 1 .. group : i \in 1 .. Len(writers) /\ i \in Nat BY <1>1
<1>3. 0 \in Nat /\ group \in Nat /\ Batches(0) \in Nat /\ Batches(group) \in Nat
  BY <1>1, BatchesCount
<1>4. ASSUME NEW e \in GroupEntries
      PROVE  \E i \in 1 .. group : /\ e.call = writers[i] /\ e.seq = last + Batches(i)
                                   /\ kind[writers[i]] # "force"
  BY DEF GroupEntries, Entry
<1>5. ASSUME NEW i \in 1 .. group, kind[writers[i]] # "force"
      PROVE  Batches(i) \in Nat /\ Batches(i) > 0 /\ Batches(i) <= Batches(group)
  <2>1. i \in Nat /\ 0 < i /\ i <= group BY <1>1
  <2>2. Batches(0) < Batches(i) /\ Batches(i) <= Batches(group) /\ Batches(i) \in Nat
    BY <1>3, <1>5, <2>1, BatchesCount
  <2> QED BY <1>3, <2>2
<1>6. /\ \A i \in 1 .. group : phase[writers[i]] \in Busy
      /\ \A i, j \in 1 .. group : writers[i] = writers[j] => i = j
  BY <1>2 DEF QueueInv
<1>7. ASSUME NEW e \in GroupEntries
      PROVE  /\ e.seq \in Nat /\ e.seq > last /\ e.seq <= last + Batches(group)
             /\ e.call \in Calls /\ phase[e.call] \in Busy /\ kind[e.call] # "force"
             /\ \E i \in 1 .. group : writers[i] = e.call
  <2>1. PICK i \in 1 .. group : /\ e.call = writers[i] /\ e.seq = last + Batches(i)
                                /\ kind[writers[i]] # "force"
    BY <1>4
  <2>2. Batches(i) \in Nat /\ Batches(i) > 0 /\ Batches(i) <= Batches(group)
    BY <1>5, <2>1
  <2> QED BY <1>1, <1>2, <1>3, <1>6, <2>1, <2>2
<1>8. ASSUME NEW c \in Calls, NEW i \in 1 .. group, writers[i] = c, kind[c] # "force"
      PROVE  c \in CallsOf(GroupEntries)
  <2>1. Entry(last + Batches(i), writers[i]) \in GroupEntries
    BY <1>8 DEF GroupEntries
  <2> QED BY <1>8, <2>1 DEF CallsOf, Entry
<1>9. ASSUME NEW e \in GroupEntries, NEW f \in GroupEntries
      PROVE  e.seq = f.seq <=> e.call = f.call
  <2>1. PICK i \in 1 .. group : /\ e.call = writers[i] /\ e.seq = last + Batches(i)
                                /\ kind[writers[i]] # "force"
    BY <1>4
  <2>2. PICK j \in 1 .. group : /\ f.call = writers[j] /\ f.seq = last + Batches(j)
                                /\ kind[writers[j]] # "force"
    BY <1>4
  <2>3. e.call = f.call => i = j BY <1>6, <2>1, <2>2
  <2>4. i \in Nat /\ j \in Nat /\ Batches(i) \in Nat /\ Batches(j) \in Nat
    BY <1>2, BatchesCount
  <2>5. i < j => Batches(i) < Batches(j) BY <2>2, <2>4, BatchesCount
  <2>6. j < i => Batches(j) < Batches(i) BY <2>1, <2>4, BatchesCount
  <2> QED BY <2>1, <2>2, <2>3, <2>4, <2>5, <2>6
<1> QED BY <1>3, <1>7, <1>8, <1>9 DEF Unique

\* The batch of a group does not change while others join the queue.
LEMMA GroupSame ==
    ASSUME last' = last, group' = group, group \in Nat,
           \A i \in 1 .. group : writers'[i] = writers[i] /\ kind'[writers[i]] = kind[writers[i]]
    PROVE  GroupEntries' = GroupEntries
<1>1. \A i \in 1 .. group : \A k \in 1 .. i : k \in 1 .. group OBVIOUS
<1>2. \A i \in 1 .. group : {k \in 1 .. i : kind'[writers'[k]] # "force"}
                            = {k \in 1 .. i : kind[writers[k]] # "force"}
  BY <1>1
<1>3. \A i \in 1 .. group : Batches(i)' = Batches(i) BY <1>2 DEF Batches
<1>4. {j \in 1 .. group : kind'[writers'[j]] # "force"} = {j \in 1 .. group : kind[writers[j]] # "force"}
  OBVIOUS
<1>5. \A i \in 1 .. group : Entry(last' + Batches(i)', writers'[i]) = Entry(last + Batches(i), writers[i])
  BY <1>3
<1>6. GroupEntries' = {Entry(last' + Batches(i)', writers'[i]) :
                         i \in {j \in 1 .. group : kind'[writers'[j]] # "force"}}
  BY DEF GroupEntries
<1> QED BY <1>4, <1>5, <1>6 DEF GroupEntries

-----------------------------------------------------------------------------
(* What is on disk.                                                        *)

Entries == [seq : Nat, call : Calls]

\* What tables hold.
LEMMA InTables ==
    \A T, S, e : e \in TableEntries(T, S) <=> \E n \in S \cap DOMAIN T : e \in T[n].entries
  BY DEF TableEntries

\* What a log holds.
LEMMA InLog ==
    \A f, sure, e : e \in LogPart(f, sure)
       <=> \E i \in 1 .. Len(f.recs) : (sure => i <= f.synced) /\ e \in f.recs[i].entries
  BY DEF LogPart

\* What several logs hold.
LEMMA InLogs ==
    \A L, S, sure, e : e \in LogsIn(L, S, sure)
       <=> \E n \in S \cap DOMAIN L : e \in LogPart(L[n], sure)
  BY DEF LogsIn

\* What the newer logs hold.
LEMMA InNewerLogs ==
    \A L, k, sure, e : e \in LogsFrom(L, k, sure)
       <=> \E n \in DOMAIN L : n >= k /\ e \in LogPart(L[n], sure)
  BY InLogs DEF LogsFrom

\* Whatever is found is an entry, and it is in the directory.
LEMMA EntriesAre ==
    ASSUME NEW L, L \in Files(LogType), NEW T, T \in Files(TableType)
    PROVE  /\ \A S : TableEntries(T, S) \subseteq Entries
           /\ \A S : TableEntries(T, S) \subseteq TableEntries(T, DOMAIN T)
           /\ \A n \in DOMAIN L, sure \in BOOLEAN : LogPart(L[n], sure) \subseteq Entries
           /\ \A S, sure : LogsIn(L, S, sure) \subseteq Entries
           /\ \A S, sure : LogsIn(L, S, sure) \subseteq LogsIn(L, DOMAIN L, FALSE)
           /\ \A E, j, sure : Found(L, T, E, j, sure) \subseteq
                                TableEntries(T, DOMAIN T) \cup LogsIn(L, DOMAIN L, FALSE)
<1>1. \A n \in DOMAIN T : T[n].entries \subseteq Entries
  <2> TAKE n \in DOMAIN T
  <2>1. T[n] \in TableType BY FilesMeans
  <2> QED BY <2>1 DEF TableType, EntrySets, Entries
<1>2. \A n \in DOMAIN L : \A i \in 1 .. Len(L[n].recs) : L[n].recs[i].entries \subseteq Entries
  <2> TAKE n \in DOMAIN L
  <2>1. L[n] \in LogType BY FilesMeans
  <2>2. L[n].recs \in Seq(RecordType) BY <2>1 DEF LogType
  <2>3. \A i \in 1 .. Len(L[n].recs) : L[n].recs[i] \in RecordType
    BY <2>2, ElementOfSeq
  <2> QED BY <2>3 DEF RecordType, EntrySets, Entries
<1>3. \A n \in DOMAIN L : \A sure : LogPart(L[n], sure) \subseteq Entries
  BY <1>2, InLog
<1>4. \A f, sure : LogPart(f, sure) \subseteq LogPart(f, FALSE) BY InLog
<1>5. \A S, sure : LogsIn(L, S, sure) \subseteq LogsIn(L, DOMAIN L, FALSE)
  BY <1>4, InLogs
<1>6. \A S : TableEntries(T, S) \subseteq TableEntries(T, DOMAIN T)
  BY InTables
<1>7. \A k, sure : LogsFrom(L, k, sure) \subseteq LogsIn(L, DOMAIN L, FALSE)
  BY <1>5 DEF LogsFrom
<1> QED BY <1>1, <1>3, <1>5, <1>6, <1>7, InTables, InLogs DEF Found, Named

-----------------------------------------------------------------------------
(* The invariant of the queue.                                             *)

\* Who has left the queue has an answer.
LEMMA NobodyBusy ==
    ASSUME QueueInv, writers = <<>>
    PROVE  \A c \in Calls : phase[c] \notin Busy
<1>1. Len(writers) = 0 OBVIOUS
<1> QED BY <1>1 DEF QueueInv

\* What a crash of the process makes of the calls.
LEMMA CrashedCalls ==
    ASSUME ControlInv, ProcessCrash \/ MachineCrashes
    PROVE  /\ kind' = kind
           /\ \A c \in Calls :
                 /\ phase[c] \in {"idle", "error", "lost"} => phase'[c] = phase[c]
                 /\ phase[c] \in Busy => phase'[c] = "lost"
                 /\ phase[c] = "ok" => phase'[c] \in {"ok", "lost"}
                 /\ phase[c] = "ok" /\ (ProcessCrash \/ kind[c] # "async") => phase'[c] = "ok"
<1>1. phase \in [Calls -> Phases] BY DEF ControlInv, ControlTypes
<1>2. kind' = kind BY DEF ProcessCrash, MachineCrashes, Forget
<1>3. CASE ProcessCrash
  <2>1. phase' = [c \in Calls |-> IF phase[c] \in {"idle", "ok", "error", "lost"}
                                  THEN phase[c] ELSE "lost"]
    BY <1>3 DEF ProcessCrash
  <2> QED BY <1>2, <2>1 DEF Busy, Working
<1>4. CASE MachineCrashes
  <2>1. PICK C : phase' = [c \in Calls |->
                CASE phase[c] \in {"idle", "error", "lost"} -> phase[c]
                  [] phase[c] = "ok" -> IF kind[c] = "async" /\ c \notin C THEN "lost" ELSE "ok"
                  [] OTHER -> "lost"]
    BY <1>4 DEF MachineCrashes, CrashCalls
  <2>2. ASSUME NEW c \in Calls
        PROVE  /\ phase[c] \in {"idle", "error", "lost"} => phase'[c] = phase[c]
               /\ phase[c] \in Busy => phase'[c] = "lost"
               /\ phase[c] = "ok" => phase'[c] = IF kind[c] = "async" /\ c \notin C
                                                 THEN "lost" ELSE "ok"
    <3>1. CASE phase[c] \in {"idle", "error", "lost"}
      BY <2>1, <3>1 DEF Busy, Working
    <3>2. CASE phase[c] = "ok" BY <2>1, <3>2 DEF Busy, Working
    <3>3. CASE phase[c] \notin {"idle", "error", "lost", "ok"}
      BY <2>1, <3>3
    <3> QED BY <3>1, <3>2, <3>3
  <2>4. \A c \in Calls : phase[c] = "ok" /\ kind[c] # "async" => phase'[c] = "ok"
    BY <2>2
  <2>5. CASE ProcessCrash BY <1>3, <2>5
  <2>6. CASE ~ProcessCrash BY <1>2, <2>2, <2>4, <2>6
  <2> QED BY <2>5, <2>6
<1> QED BY <1>3, <1>4

\* Nobody is in the queue of a process that is gone.
LEMMA ForgetQueue ==
    ASSUME ControlInv, Forget, \A c \in Calls : phase'[c] \notin Busy
    PROVE  QueueInv'
<1>1. writers' = <<>> /\ group' = 0 BY DEF Forget
<1>2. Len(writers') = 0 /\ Working \subseteq Busy /\ "sync" \in Busy
  BY <1>1 DEF Busy, Working
<1> QED BY <1>1, <1>2 DEF QueueInv

\* Every step keeps the queue in order.
LEMMA QueueStep == ControlInv /\ QueueInv /\ [Next]_vars => QueueInv'
<1> SUFFICES ASSUME ControlInv, QueueInv, [Next]_vars PROVE QueueInv'
  OBVIOUS
<1>1. ASSUME NEW c \in Calls, Write(c) PROVE QueueInv'
  BY <1>1, WriteQueue
<1>2. ASSUME NEW c \in Calls, LeaderStep(c) PROVE QueueInv'
  <2>1. CASE WriteRejected(c) \/ SwitchFailed(c)
    <3>1. Leader(c) /\ Answer(1, "error")
      BY <2>1 DEF WriteRejected, SwitchFailed, MaySwitch, NeedsSwitch
    <3> QED BY <3>1, LeaderIs, AnswerIs
  <2>2. CASE WriteHasRoom(c) \/ SwitchMemTable(c)
    <3>1. Leader(c) /\ Proceed(c)
      BY <2>2 DEF WriteHasRoom, SwitchMemTable, MaySwitch, NeedsSwitch
    <3>2. CASE kind[c] = "force"
      <4>1. Answer(1, "ok") BY <3>1, <3>2 DEF Proceed
      <4> QED BY <3>1, <4>1, LeaderIs, AnswerIs
    <3>3. CASE kind[c] # "force"
      <4>1. /\ group' = GroupSize(writers) /\ phase' = [phase EXCEPT ![c] = "append"]
            /\ UNCHANGED <<writers, kind>>
        BY <3>1, <3>3 DEF Proceed
      <4> QED BY <3>1, <3>3, <4>1, WorkQueue DEF Working
    <3> QED BY <3>2, <3>3
  <2>3. CASE WriteWaits(c) BY <2>3, QueueStays DEF WriteWaits
  <2>4. CASE AppendLog(c)
    <3>1. /\ phase[c] = "append" /\ UNCHANGED <<writers, group, kind>>
          /\ phase' = [phase EXCEPT ![c] = IF kind[c] = "sync" THEN "sync" ELSE "insert"]
      BY <2>4 DEF AppendLog
    <3> DEFINE p == IF kind[c] = "sync" THEN "sync" ELSE "insert"
    <3>2. p \in Working /\ phase[c] \in Working /\ (p = "sync" => kind[c] = "sync")
          /\ phase' = [phase EXCEPT ![c] = p]
      BY <3>1 DEF Working
    <3> HIDE DEF p
    <3> QED BY <3>1, <3>2, WorkQueue
  <2>5. CASE AppendFailed(c) \/ SyncLog(c) \/ SyncFailed(c)
    <3>1. /\ phase[c] \in Working /\ UNCHANGED <<writers, group, kind>>
          /\ \E p \in Working \ {"sync"} : phase' = [phase EXCEPT ![c] = p]
      BY <2>5 DEF AppendFailed, SyncLog, SyncFailed, Working
    <3> QED BY <3>1, WorkQueue
  <2>6. CASE FinishWrite(c)
    <3>1. /\ phase[c] \in Working
          /\ Answer(group, IF phase[c] = "insert" THEN "ok" ELSE "error")
      BY <2>6 DEF FinishWrite, Working
    <3>2. (IF phase[c] = "insert" THEN "ok" ELSE "error") \in {"ok", "error"}
      OBVIOUS
    <3> QED BY <3>1, <3>2, WorkerIs, AnswerIs
  <2> QED BY <1>2, <2>1, <2>2, <2>3, <2>4, <2>5, <2>6 DEF LeaderStep
<1>3. CASE BackgroundStep
  <2>1. UNCHANGED <<writers, group, phase, kind>>
    BY <1>3 DEF BackgroundStep, BackgroundNothing, StartFlush, FlushBuilt, FlushInstalled,
                FlushFailed, StartMove, StartCompaction, CompactionBuilt, CompactionInstalled,
                CompactionFailed, BackgroundDone, FlushEnds, SignalAll, queue
  <2> QED BY <2>1, QueueStays
<1>4. CASE NewDB \/ Recover \/ RecoverLogFile \/ OpenWritesManifest \/ OpenSetsCurrent \/ OpenReturns
  <2>1. UNCHANGED <<writers, group, phase, kind>>
    BY <1>4 DEF NewDB, Recover, RecoverLogFile, OpenWritesManifest, OpenSetsCurrent, OpenReturns,
                queue
  <2> QED BY <2>1, QueueStays
<1>5. CASE OpenFails
  <2>1. Forget /\ phase' = phase /\ writers = <<>>
    BY <1>5 DEF OpenFails, ControlInv, QuietUnlessUp
  <2> QED BY <2>1, NobodyBusy, ForgetQueue
<1>6. CASE Closed
  <2>1. Forget /\ phase' = phase /\ writers = <<>>
    BY <1>6 DEF Closed, ControlInv, NobodyWhenClosing
  <2> QED BY <2>1, NobodyBusy, ForgetQueue
<1>7. CASE ProcessCrash \/ MachineCrashes
  <2>1. Forget BY <1>7 DEF ProcessCrash, MachineCrashes
  <2>2. \A c \in Calls : phase'[c] \notin Busy
    <3>1. phase \in [Calls -> Phases] BY DEF ControlInv, ControlTypes
    <3>2. \A c \in Calls : phase[c] \in {"idle", "error", "lost"} \cup Busy \cup {"ok"}
      BY <3>1 DEF Phases, Busy, Working
    <3> QED BY <1>7, <3>2, CrashedCalls DEF Busy, Working
  <2> QED BY <2>1, <2>2, ForgetQueue
<1>8. CASE Pin \/ Unpin \/ Close
  BY <1>8, QueueStays DEF Pin, Unpin, Close, queue
<1>9. CASE UNCHANGED vars BY <1>9, QueueStays DEF vars, queue
<1> QED BY <1>1, <1>2, <1>3, <1>4, <1>5, <1>6, <1>7, <1>8, <1>9 DEF Next, OpenStep

-----------------------------------------------------------------------------
(* Records of the descriptor.                                              *)

\* A step that leaves the descriptor alone.
LEMMA EditsStay ==
    ASSUME UNCHANGED <<manifests, current, manifestNo>>
    PROVE  Edits' = Edits /\ Synced' = Synced /\ LastEdit' = LastEdit
  BY DEF Edits, Synced, LastEdit

\* LogAndApply appends a record.
LEMMA EditLogged ==
    ASSUME FilesInv, pc = "up", NEW e \in EditType, manifests' = LogEdit(e),
           UNCHANGED <<current, manifestNo>>
    PROVE  /\ Edits' = Append(Edits, e) /\ Synced' = Synced /\ LastEdit' = e
           /\ Len(Edits') = Len(Edits) + 1 /\ Edits'[Len(Edits) + 1] = e
           /\ \A i \in 1 .. Len(Edits) : Edits'[i] = Edits[i]
           /\ Edits' \in Seq(EditType)
<1>1. /\ manifests \in Files(ManifestType) /\ manifestNo \in DOMAIN manifests
      /\ current = manifestNo
      /\ Edits = manifests[manifestNo].edits /\ Synced = manifests[manifestNo].synced
      /\ Edits \in Seq(EditType) /\ Len(Edits) \in Nat
  BY UpIs
<1> DEFINE A == Append(Edits, e)
<1>2. /\ A \in Seq(EditType) /\ Len(A) = Len(Edits) + 1
      /\ \A i \in 1 .. Len(Edits) : A[i] = Edits[i]
      /\ A[Len(Edits) + 1] = e
  BY <1>1, FilesAfterAppend
<1>3. manifests' = [manifests EXCEPT ![manifestNo].edits = A]
  BY <1>1 DEF LogEdit
<1> HIDE DEF A
<1>4. LET m == [manifests EXCEPT ![manifestNo].edits = A]
      IN  /\ m \in Files(ManifestType) /\ DOMAIN m = DOMAIN manifests
          /\ m[manifestNo].edits = A
          /\ m[manifestNo].synced = manifests[manifestNo].synced
  BY <1>1, <1>2, ManifestWith
<1>5. Edits' = A /\ Synced' = Synced /\ LastEdit' = e
  BY <1>1, <1>2, <1>3, <1>4 DEF Edits, Synced, LastEdit, Last
<1> QED BY <1>2, <1>5 DEF A

\* LogAndApply syncs the descriptor; old files are removed or not.
LEMMA EditInstalled ==
    ASSUME FilesInv, pc = "up", UNCHANGED <<current, manifestNo>>, NEW v, NEW l, l \in Nat, NEW p, NEW h,
           \/ manifests' = SyncedManifests /\ UNCHANGED <<logs, tables>>
           \/ DeleteObsoleteFiles(logs, tables, SyncedManifests, v, l, p, h)
    PROVE  /\ Edits' = Edits /\ Synced' = Len(Edits) /\ LastEdit' = LastEdit
           /\ logs' \in Files(LogType) /\ tables' \in Files(TableType)
           /\ DOMAIN logs' \subseteq DOMAIN logs /\ \A n \in DOMAIN logs' : logs'[n] = logs[n]
           /\ \A n \in DOMAIN logs : l <= n => n \in DOMAIN logs'
           /\ DOMAIN tables' \subseteq DOMAIN tables
           /\ \A n \in DOMAIN tables' : tables'[n] = tables[n]
           /\ \A n \in DOMAIN tables : n \in LiveTables(v, p, h) => n \in DOMAIN tables'
           /\ bgError => tables' = tables
<1>1. /\ manifests \in Files(ManifestType) /\ manifestNo \in DOMAIN manifests
      /\ current = manifestNo /\ manifestNo \in Nat
      /\ Edits = manifests[manifestNo].edits /\ Synced = manifests[manifestNo].synced
      /\ Edits \in Seq(EditType) /\ Len(Edits) \in Nat
      /\ logs \in Files(LogType) /\ tables \in Files(TableType)
  BY UpIs
<1>2. /\ SyncedManifests \in Files(ManifestType) /\ DOMAIN SyncedManifests = DOMAIN manifests
      /\ SyncedManifests[manifestNo].edits = Edits
      /\ SyncedManifests[manifestNo].synced = Len(Edits)
  <2>1. SyncedManifests = [manifests EXCEPT ![manifestNo].synced = Len(Edits)]
    BY <1>1 DEF SyncedManifests
  <2> QED BY <1>1, <2>1, ManifestSynced
<1>3. /\ logs' \in Files(LogType) /\ tables' \in Files(TableType)
      /\ DOMAIN logs' \subseteq DOMAIN logs /\ \A n \in DOMAIN logs' : logs'[n] = logs[n]
      /\ \A n \in DOMAIN logs : l <= n => n \in DOMAIN logs'
      /\ DOMAIN tables' \subseteq DOMAIN tables
      /\ \A n \in DOMAIN tables' : tables'[n] = tables[n]
      /\ \A n \in DOMAIN tables : n \in LiveTables(v, p, h) => n \in DOMAIN tables'
      /\ bgError => tables' = tables
      /\ manifests'[manifestNo] = SyncedManifests[manifestNo]
  <2>1. CASE manifests' = SyncedManifests /\ UNCHANGED <<logs, tables>>
    BY <1>1, <2>1
  <2>2. CASE DeleteObsoleteFiles(logs, tables, SyncedManifests, v, l, p, h)
    <3> DEFINE m == SyncedManifests
    <3>1. m \in Files(ManifestType) /\ manifestNo \in DOMAIN m
          /\ DeleteObsoleteFiles(logs, tables, m, v, l, p, h)
      BY <1>1, <1>2, <2>2
    <3> HIDE DEF m
    <3>2. /\ logs' \in Files(LogType) /\ tables' \in Files(TableType)
          /\ DOMAIN logs' \subseteq DOMAIN logs /\ DOMAIN tables' \subseteq DOMAIN tables
          /\ \A n \in DOMAIN logs : l <= n => n \in DOMAIN logs'
          /\ \A n \in DOMAIN tables' : tables'[n] = tables[n]
          /\ \A n \in DOMAIN tables : n \in LiveTables(v, p, h) => n \in DOMAIN tables'
          /\ manifests'[manifestNo] = m[manifestNo]
          /\ bgError => tables' = tables
      BY <1>1, <3>1, ObsoleteFiles
    <3>3. \A n \in DOMAIN logs' : logs'[n] = logs[n]
      <4>1. CASE bgError BY <3>1, <4>1 DEF DeleteObsoleteFiles
      <4>2. CASE ~bgError
        <5>1. logs' = Without(logs, {n \in DOMAIN logs : n < l})
          BY <3>1, <4>2 DEF DeleteObsoleteFiles
        <5> QED BY <5>1 DEF Without
      <4> QED BY <4>1, <4>2
    <3> QED BY <3>2, <3>3 DEF m
  <2> QED BY <2>1, <2>2
<1>4. Edits' = Edits /\ Synced' = Len(Edits) /\ LastEdit' = LastEdit
  BY <1>1, <1>2, <1>3 DEF Edits, Synced, LastEdit
<1> QED BY <1>3, <1>4

\* LogAndApply fails: the last record is there or not.
LEMMA EditBroken ==
    ASSUME FilesInv, ~MayTear, pc = "up", InFlight, manifests' \in BrokenManifests,
           UNCHANGED <<current, manifestNo>>
    PROVE  /\ Edits' \in Seq(EditType) /\ Synced' = Synced
           /\ Len(Edits') \in {Len(Edits), Len(Edits) - 1}
           /\ \A i \in 1 .. Len(Edits') : Edits'[i] = Edits[i]
<1>1. /\ manifests \in Files(ManifestType) /\ manifestNo \in DOMAIN manifests
      /\ current = manifestNo /\ manifestNo \in Nat
      /\ Edits = manifests[manifestNo].edits /\ Synced = manifests[manifestNo].synced
      /\ Edits \in Seq(EditType) /\ Len(Edits) \in 1 .. Len(Edits) /\ Len(Edits) \in Nat
  BY UpIs
<1>2. PICK E \in {Edits, Front(Edits)} : manifests' = [manifests EXCEPT ![manifestNo].edits = E]
  BY <1>1 DEF BrokenManifests
<1>3. /\ E \in Seq(EditType) /\ Len(E) \in {Len(Edits), Len(Edits) - 1}
      /\ \A i \in 1 .. Len(E) : E[i] = Edits[i]
  <2>1. CASE E = Edits BY <1>1, <2>1
  <2>2. CASE E = Front(Edits)
    <3>1. Len(Edits) - 1 \in Nat /\ Len(Edits) - 1 <= Len(Edits) BY <1>1
    <3>2. /\ SubSeq(Edits, 1, Len(Edits) - 1) \in Seq(EditType)
          /\ Len(SubSeq(Edits, 1, Len(Edits) - 1)) = Len(Edits) - 1
          /\ \A i \in 1 .. Len(Edits) - 1 : SubSeq(Edits, 1, Len(Edits) - 1)[i] = Edits[i]
      BY <1>1, <3>1, CutFile
    <3> QED BY <2>2, <3>2 DEF Front
  <2> QED BY <1>2, <2>1, <2>2
<1>4. Edits' = E /\ Synced' = Synced
  <2>1. LET m == [manifests EXCEPT ![manifestNo].edits = E]
        IN  /\ m \in Files(ManifestType) /\ DOMAIN m = DOMAIN manifests
            /\ m[manifestNo].edits = E
            /\ m[manifestNo].synced = manifests[manifestNo].synced
    BY <1>1, <1>3, ManifestWith
  <2> QED BY <1>1, <1>2, <2>1 DEF Edits, Synced
<1> QED BY <1>3, <1>4

-----------------------------------------------------------------------------
(* The jobs of the background thread.                                      *)

\* The job at work in a running database.
LEMMA JobsAre ==
    ASSUME ControlInv, FilesInv, JobInv, pc = "up"
    PROVE  /\ flush.phase \in {"none", "build", "log"} /\ compact.phase \in {"none", "merge", "move", "log"}
           /\ flush = NoFlush => flush.phase = "none"
           /\ compact = NoCompact => compact.phase = "none"
           /\ flush.phase # "none" => imm # NoMem /\ compact.phase \in {"none", "merge"}
           /\ Edits \in Seq(EditType) /\ Len(Edits) \in Nat
           /\ \A i \in 1 .. Len(Edits) : DOMAIN Edits[i].add \in SUBSET Nat
                                         /\ \A n \in DOMAIN Edits[i].add : n < next
           /\ next \in Nat /\ \A n \in DOMAIN tables \cup DOMAIN version : n < next
           /\ DOMAIN version \subseteq DOMAIN tables
           /\ imm # NoMem => imm = <<imm[1]>> /\ imm[1] \in EntrySets /\ Frozen = imm[1]
           /\ imm = NoMem => Frozen = {}
           /\ compact.phase = "merge" /\ flush.phase # "none" => flush.num # compact.num
           /\ compact.phase = "merge" => compact.num \in pending \cap DOMAIN tables
<1>1. /\ flush.phase \in {"none", "build", "log"} /\ compact.phase \in {"none", "merge", "move", "log"}
      /\ flush = NoFlush => flush.phase = "none"
      /\ compact = NoCompact => compact.phase = "none"
      /\ flush.phase # "none" => imm # NoMem /\ compact.phase \in {"none", "merge"}
  BY NoJobs DEF ControlInv, OneJob
<1>2. /\ Edits \in Seq(EditType) /\ Len(Edits) \in Nat /\ next \in Nat
      /\ \A i \in 1 .. Len(Edits) : Edits[i].next <= next /\ Edits[i].next \in Nat
      /\ \A i \in 1 .. Len(Edits) : DOMAIN Edits[i].add \in SUBSET Nat
      /\ \A i \in 1 .. Len(Edits) : \A n \in DOMAIN Edits[i].add : n < Edits[i].next
      /\ \A n \in DOMAIN tables : n < next
  BY UpIs, EditsAre DEF DescriptorOf, Numbered
<1>3. \A i \in 1 .. Len(Edits) : \A n \in DOMAIN Edits[i].add : n < next
  <2> TAKE i \in 1 .. Len(Edits)
  <2> TAKE n \in DOMAIN Edits[i].add
  <2>1. n \in Nat /\ n < Edits[i].next /\ Edits[i].next <= next /\ Edits[i].next \in Nat
    BY <1>2
  <2> QED BY <1>2, <2>1
<1>4. DOMAIN version \subseteq DOMAIN tables
  BY DEF FilesInv, Running, Stored, StoredIn
<1>5. imm # NoMem => imm = <<imm[1]>> /\ imm[1] \in EntrySets
  BY DEF FilesInv, FileTypes
<1>6. /\ compact.phase = "merge" /\ flush.phase # "none" => flush.num # compact.num
      /\ compact.phase = "merge" => compact.num \in pending \cap DOMAIN tables
  BY DEF FilesInv, Running
<1> QED BY <1>1, <1>2, <1>3, <1>4, <1>5, <1>6 DEF Frozen

\* A step that leaves the background thread and what it reads alone.
LEMMA JobStays ==
    ASSUME ControlInv, FilesInv, JobInv, pc = "up", next' \in {next, next + 1},
           UNCHANGED <<manifests, current, manifestNo, tables, version, flush, compact, logNumber>>,
           (imm' = imm /\ logfile' = logfile) \/ imm = NoMem
    PROVE  JobInv'
<1>1. Edits' = Edits /\ LastEdit' = LastEdit BY EditsStay
<1>2. flush.phase = "log" => imm # NoMem BY JobsAre
<1>3. flush.phase = "log" => FlushLogged'
  BY <1>1, <1>2 DEF JobInv, FlushLogged, Frozen
<1>4. compact.phase = "log" => CompactionLogged'
  BY <1>1 DEF JobInv, CompactionLogged
<1>5. compact.phase = "move" => MoveLogged'
  BY <1>1 DEF JobInv, MoveLogged
<1>6. compact.phase = "merge" => compact.num < next' BY UpIs DEF JobInv
<1> QED BY <1>1, <1>3, <1>4, <1>5, <1>6 DEF JobInv

\* CompactMemTable's steps.
LEMMA FlushJob ==
    ASSUME ControlInv, FilesInv, JobInv, ~MayTear,
           StartFlush \/ FlushBuilt \/ FlushInstalled \/ FlushFailed
    PROVE  JobInv'
<1>1. CASE StartFlush
  <2>1. /\ pc = "up" /\ compact.phase \in {"none", "merge"} /\ next' = next + 1
        /\ flush' = [num |-> next, phase |-> "build"]
        /\ UNCHANGED <<manifests, current, manifestNo, version, compact, pc>>
    BY <1>1, NoJobs DEF StartFlush
  <2>2. Edits' = Edits BY <2>1, EditsStay
  <2>3. next \in Nat /\ compact.num \in Nat BY <2>1, UpIs
  <2> QED BY <2>1, <2>2, <2>3 DEF JobInv
<1>2. CASE FlushBuilt
  <2>0. flush.phase = "build" /\ pc = "up"
    <3>1. flush.phase = "build" BY <1>2 DEF FlushBuilt
    <3> QED BY <3>1, NoJobs DEF ControlInv, QuietUnlessUp
  <2>1. /\ imm # NoMem /\ compact.phase \in {"none", "merge"} /\ imm = <<imm[1]>> /\ Frozen = imm[1]
        /\ compact.phase = "merge" => flush.num # compact.num
        /\ imm[1] \in EntrySets
    BY <2>0, JobsAre
  <2>2. /\ next \in Nat /\ last \in Nat /\ logfile \in Nat /\ flush.num \in Nat
        /\ tables \in Files(TableType) /\ Len(Edits) \in Nat
    BY <2>0, UpIs
  <2> DEFINE add(level) == IF imm = <<{}>> THEN Empty ELSE Single(flush.num, level)
  <2>3. PICK level \in {0, 1} : manifests' = LogEdit(Edit(add(level), {}, logfile, next, last))
    BY <1>2 DEF FlushBuilt
  <2>4. /\ UNCHANGED <<current, manifestNo, version, compact, pc, imm, logfile, next>>
        /\ flush' = [flush EXCEPT !.phase = "log"]
        /\ tables' = IF imm = <<{}>> THEN tables
                     ELSE Put(tables, flush.num, [done |-> TRUE, entries |-> imm[1]])
    BY <1>2 DEF FlushBuilt, vset, memory
  <2>5. flush'.num = flush.num /\ flush'.phase = "log"
    BY <2>4 DEF ControlInv, OneJob
  <2>6. add(level) \in Files(Nat) /\ DOMAIN add(level) \subseteq {flush.num}
    BY <2>2, EmptyFiles, SingleFile
  <2> HIDE DEF add
  <2> DEFINE e == Edit(add(level), {}, logfile, next, last)
  <2>7. e \in EditType /\ e.add = add(level) /\ e.del = {} /\ e.log = logfile
    BY <2>2, <2>6, EditIs DEF Edit
  <2>8. manifests' = LogEdit(e) BY <2>3
  <2> HIDE DEF e
  <2>9. /\ LastEdit' = e /\ Len(Edits') = Len(Edits) + 1 /\ Edits'[Len(Edits) + 1] = e
        /\ \A i \in 1 .. Len(Edits) : Edits'[i] = Edits[i]
    BY <2>0, <2>4, <2>7, <2>8, EditLogged
  <2>10. Frozen' = Frozen BY <2>4 DEF Frozen
  <2>11. imm = <<{}>> <=> Frozen = {} BY <2>1
  <2>12. Frozen # {} => flush.num \in DOMAIN tables' /\ tables'[flush.num].entries = Frozen
    <3> SUFFICES ASSUME Frozen # {}
                 PROVE  flush.num \in DOMAIN tables' /\ tables'[flush.num].entries = Frozen
      OBVIOUS
    <3> DEFINE r == [done |-> TRUE, entries |-> imm[1]]
    <3>1. tables' = Put(tables, flush.num, r) BY <2>4, <2>11
    <3>2. r \in TableType /\ r.entries = Frozen BY <2>1 DEF TableType
    <3> HIDE DEF r
    <3> QED BY <3>1, <3>2 DEF Put, Over, Single
  <2>13. FlushLogged'
    <3>1. \/ e.add = (IF Frozen = {} THEN Empty ELSE Single(flush.num, 0))
          \/ e.add = (IF Frozen = {} THEN Empty ELSE Single(flush.num, 1))
      BY <2>7, <2>11 DEF add
    <3> QED BY <2>4, <2>5, <2>7, <2>9, <2>10, <2>12, <3>1 DEF FlushLogged
  <2>14. compact.phase = "merge" =>
            \A i \in 1 .. Len(Edits') : compact.num \notin DOMAIN Edits'[i].add
    <3> SUFFICES ASSUME compact.phase = "merge", NEW i \in 1 .. Len(Edits')
                 PROVE  compact.num \notin DOMAIN Edits'[i].add
      OBVIOUS
    <3>1. CASE i \in 1 .. Len(Edits) BY <2>0, <2>9, <3>1 DEF JobInv
    <3>2. CASE i = Len(Edits) + 1 BY <2>1, <2>6, <2>7, <2>9, <3>2
    <3> QED BY <2>2, <2>9, <3>1, <3>2
  <2> QED BY <2>0, <2>1, <2>4, <2>13, <2>14 DEF JobInv
<1>3. CASE FlushInstalled
  <2>0. flush.phase = "log" /\ pc = "up"
    <3>1. flush.phase = "log" BY <1>3 DEF FlushInstalled
    <3> QED BY <3>1, NoJobs DEF ControlInv, QuietUnlessUp
  <2>1. /\ compact.phase \in {"none", "merge"}
        /\ compact.phase = "merge" => flush.num # compact.num
    BY <2>0, JobsAre
  <2>2. /\ version' = ApplyEdit(version, LastEdit) /\ logNumber' = LastEdit.log
        /\ UNCHANGED <<current, next, manifestNo, pc, compact>> /\ flush' = NoFlush
        /\ DeleteObsoleteFiles(logs, tables, SyncedManifests, version', logNumber', pending,
                               compact.held)
    BY <1>3 DEF FlushInstalled, FlushEnds
  <2>3. FlushLogged BY <2>0 DEF JobInv
  <2>4. Edits' = Edits
    <3> DEFINE v == version'
               l == logNumber'
    <3>1. DeleteObsoleteFiles(logs, tables, SyncedManifests, v, l, pending, compact.held) /\ l \in Nat
      BY <2>0, <2>2, <2>3, UpIs DEF FlushLogged
    <3> HIDE DEF v, l
    <3> QED BY <2>0, <2>2, <3>1, EditInstalled
  <2>5. DOMAIN version' = DOMAIN LastEdit.add \cup DOMAIN version /\ DOMAIN LastEdit.add \subseteq {flush.num}
    <3>1. DOMAIN LastEdit.add \subseteq {flush.num}
      BY <2>3 DEF FlushLogged, Empty, Single
    <3> QED BY <2>2, <2>3, <3>1 DEF FlushLogged, ApplyEdit, Over, Without
  <2>6. flush'.phase = "none" BY <2>2, NoJobs
  <2> QED BY <2>0, <2>1, <2>2, <2>4, <2>5, <2>6 DEF JobInv
<1>4. CASE FlushFailed
  <2>0. flush.phase \in {"build", "log"} /\ pc = "up"
    <3>1. flush.phase \in {"build", "log"} BY <1>4 DEF FlushFailed
    <3> QED BY <3>1, NoJobs DEF ControlInv, QuietUnlessUp
  <2>1. compact.phase \in {"none", "merge"} BY <2>0, JobsAre
  <2>2. /\ UNCHANGED <<current, version, next, manifestNo, pc, compact>> /\ flush' = NoFlush
        /\ manifests' = manifests \/ (flush.phase = "log" /\ manifests' \in BrokenManifests)
    BY <1>4 DEF FlushFailed, FlushEnds, vset
  <2>3. Len(Edits') <= Len(Edits) /\ \A i \in 1 .. Len(Edits') : Edits'[i] = Edits[i]
    <3>1. CASE manifests' = manifests
      BY <2>0, <2>2, <3>1, EditsStay, UpIs
    <3>2. CASE flush.phase = "log" /\ manifests' \in BrokenManifests
      <4>1. InFlight BY <3>2 DEF InFlight
      <4> QED BY <2>0, <2>2, <3>2, <4>1, EditBroken, UpIs
    <3> QED BY <2>2, <3>1, <3>2
  <2>4. Len(Edits') \in Nat /\ Len(Edits) \in Nat
    <3>1. CASE manifests' = manifests
      BY <2>0, <2>2, <3>1, EditsStay, UpIs
    <3>2. CASE flush.phase = "log" /\ manifests' \in BrokenManifests
      <4>1. InFlight BY <3>2 DEF InFlight
      <4> QED BY <2>0, <2>2, <3>2, <4>1, EditBroken, UpIs, LenProperties
    <3> QED BY <2>2, <3>1, <3>2
  <2>5. flush'.phase = "none" BY <2>2, NoJobs
  <2>6. \A i \in 1 .. Len(Edits') : i \in 1 .. Len(Edits) BY <2>3, <2>4
  <2> QED BY <2>0, <2>1, <2>2, <2>3, <2>5, <2>6 DEF JobInv
<1> QED BY <1>1, <1>2, <1>3, <1>4

\* The steps of a compaction.
LEMMA CompactionJob ==
    ASSUME ControlInv, FilesInv, JobInv,
           StartMove \/ StartCompaction \/ CompactionBuilt \/ CompactionInstalled \/ CompactionFailed
    PROVE  JobInv'
<1>1. CASE StartMove
  <2>0. /\ pc = "up" /\ flush = NoFlush /\ pc' = pc
        /\ UNCHANGED <<current, manifestNo, version, logNumber, flush>>
    BY <1>1 DEF StartMove, MayCompact, Idle, vset
  <2>1. PICK n \in Level0(version) :
              /\ manifests' = LogEdit(Edit(Single(n, 1), {n}, logNumber, next, last))
              /\ compact' = [num |-> 0, inputs |-> {n}, held |-> DOMAIN version,
                             phase |-> "move"]
    BY <1>1 DEF StartMove
  <2>2. next \in Nat /\ last \in Nat /\ logNumber \in Nat /\ DOMAIN version \in SUBSET Nat
    BY <2>0, UpIs
  <2>3. n \in Nat /\ n \in DOMAIN version BY <2>2 DEF Level0
  <2> DEFINE e == Edit(Single(n, 1), {n}, logNumber, next, last)
  <2>4. e \in EditType /\ e.add = Single(n, 1) /\ e.del = {n} /\ e.log = logNumber
    <3>1. Single(n, 1) \in Files(Nat) /\ {n} \in SUBSET Nat
      BY <2>3, SingleFile
    <3> QED BY <2>2, <3>1, EditIs
  <2>5. manifests' = LogEdit(e) BY <2>1
  <2> HIDE DEF e
  <2>6. LastEdit' = e BY <2>0, <2>4, <2>5, EditLogged
  <2>7. MoveLogged' BY <2>0, <2>3, <2>4, <2>6 DEF MoveLogged
  <2>8. flush'.phase = "none" /\ compact'.phase = "move"
    BY <2>0, <2>1, NoJobs
  <2> QED BY <2>7, <2>8 DEF JobInv
<1>2. CASE StartCompaction
  <2>1. /\ pc = "up" /\ flush = NoFlush /\ next' = next + 1
        /\ UNCHANGED <<pc, manifests, current, manifestNo, version, flush>>
    BY <1>2 DEF StartCompaction, MayCompact, Idle
  <2>2. PICK S \in PickInputs : compact' = [num |-> next, inputs |-> S, held |-> DOMAIN version,
                                            phase |-> "merge"]
    BY <1>2 DEF StartCompaction
  <2>3. S \subseteq DOMAIN version BY DEF PickInputs
  <2>4. Edits' = Edits BY <2>1, EditsStay
  <2>5. /\ next \in Nat /\ next \notin DOMAIN version
        /\ \A i \in 1 .. Len(Edits) : next \notin DOMAIN Edits[i].add
    BY <2>1, JobsAre
  <2>6. /\ compact'.num = next /\ compact'.inputs = S /\ compact'.phase = "merge"
        /\ flush'.phase = "none"
    BY <2>1, <2>2, NoJobs
  <2>7. compact'.num < next' BY <2>1, <2>5, <2>6
  <2> QED BY <2>1, <2>3, <2>4, <2>5, <2>6, <2>7 DEF JobInv
<1>3. CASE CompactionBuilt
  <2>0. /\ compact.phase = "merge" /\ pc = "up" /\ flush = NoFlush
        /\ UNCHANGED <<current, manifestNo, version, logNumber, next, flush, pc>>
    <3>1. compact.phase = "merge" BY <1>3 DEF CompactionBuilt
    <3> QED BY <1>3, <3>1, NoJobs DEF CompactionBuilt, ControlInv, QuietUnlessUp, vset
  <2>1. /\ next \in Nat /\ last \in Nat /\ logNumber \in Nat /\ compact.num \in Nat
        /\ DOMAIN version \in SUBSET Nat
    BY <2>0, UpIs
  <2>2. /\ compact.inputs \subseteq DOMAIN version /\ compact.num \notin DOMAIN version
        /\ compact.num \in DOMAIN tables
    BY <2>0, JobsAre DEF JobInv
  <2> DEFINE e == Edit(Single(compact.num, 1), compact.inputs, logNumber, next, last)
  <2>3. /\ e \in EditType /\ e.add = Single(compact.num, 1) /\ e.del = compact.inputs
        /\ e.log = logNumber
    <3>1. compact.inputs \in SUBSET Nat BY <2>1, <2>2
    <3> QED BY <2>1, <3>1, SingleFile, EditIs DEF Edit
  <2>4. manifests' = LogEdit(e) BY <1>3 DEF CompactionBuilt
  <2> HIDE DEF e
  <2>5. LastEdit' = e BY <2>0, <2>3, <2>4, EditLogged
  <2>6. /\ compact' = [compact EXCEPT !.phase = "log"]
        /\ tables' = [tables EXCEPT ![compact.num] =
                        [done |-> TRUE, entries |-> TableEntries(tables, compact.inputs)]]
    BY <1>3 DEF CompactionBuilt
  <2>7. compact'.num = compact.num /\ compact'.inputs = compact.inputs /\ compact'.phase = "log"
    BY <2>6 DEF ControlInv, OneJob
  <2>8. /\ DOMAIN tables' = DOMAIN tables
        /\ tables'[compact.num].entries = TableEntries(tables, compact.inputs)
        /\ \A n \in DOMAIN tables : n # compact.num => tables'[n] = tables[n]
    BY <2>2, <2>6
  <2>9. TableEntries(tables', compact.inputs) = TableEntries(tables, compact.inputs)
    BY <2>2, <2>8 DEF TableEntries
  <2>10. CompactionLogged'
    BY <2>0, <2>2, <2>3, <2>5, <2>7, <2>8, <2>9 DEF CompactionLogged
  <2>11. flush'.phase = "none" BY <2>0, NoJobs
  <2> QED BY <2>0, <2>2, <2>7, <2>10, <2>11 DEF JobInv
<1>4. CASE CompactionInstalled \/ CompactionFailed
  <2>1. compact' = NoCompact /\ flush' = flush /\ pc' = pc
        /\ (flush = NoFlush \/ compact.phase \in {"log", "move"})
    BY <1>4 DEF CompactionInstalled, CompactionFailed
  <2>2. flush = NoFlush BY <2>1 DEF ControlInv, OneJob
  <2>3. flush'.phase = "none" /\ compact'.phase = "none"
    BY <2>1, <2>2, NoJobs
  <2> QED BY <2>3 DEF JobInv
<1> QED BY <1>1, <1>2, <1>3, <1>4

\* Every step keeps what is known of the background thread's jobs.
LEMMA JobStep == ControlInv /\ FilesInv /\ JobInv /\ ~MayTear /\ [Next]_vars => JobInv'
<1> SUFFICES ASSUME ControlInv, FilesInv, JobInv, ~MayTear, [Next]_vars, pc' = "up" PROVE JobInv'
  BY DEF JobInv
<1>1. ASSUME NEW c \in Calls, Write(c) \/ LeaderStep(c) PROVE JobInv'
  <2>1. pc = "up"
    BY <1>1 DEF Write, LeaderStep, WriteRejected, WriteHasRoom, WriteWaits, SwitchMemTable,
                  SwitchFailed, AppendLog, AppendFailed, SyncLog, SyncFailed, FinishWrite
  <2>2. CASE SwitchMemTable(c)
    BY <2>1, <2>2, JobStays DEF SwitchMemTable, MaySwitch, MustWait
  <2>3. CASE ~SwitchMemTable(c)
    <3>1. UNCHANGED <<manifests, current, manifestNo, tables, version, next, flush, compact,
                      logNumber, imm, logfile>>
      BY <1>1, <2>3 DEF Write, LeaderStep, WriteRejected, WriteHasRoom, WriteWaits, SwitchFailed,
            AppendLog, AppendFailed, SyncLog, SyncFailed, FinishWrite, disk, vset, memory, bg
    <3> QED BY <2>1, <3>1, JobStays
  <2> QED BY <2>2, <2>3
<1>2. CASE BackgroundStep
  <2>1. CASE BackgroundNothing
    BY <2>1, JobStays DEF BackgroundNothing, disk, vset, memory
  <2> QED BY <1>2, <2>1, FlushJob, CompactionJob DEF BackgroundStep
<1>3. CASE OpenStep
  <2>1. flush' = NoFlush /\ compact' = NoCompact
    BY <1>3 DEF OpenStep, NewDB, Recover, RecoverLogFile, OpenWritesManifest, OpenSetsCurrent,
                OpenReturns, OpenFails, Forget, ControlInv, QuietUnlessUp, bg
  <2>2. flush'.phase = "none" /\ compact'.phase = "none" BY <2>1, NoJobs
  <2> QED BY <2>2 DEF JobInv
<1>4. CASE Closed \/ ProcessCrash \/ MachineCrashes
  BY <1>4 DEF Closed, ProcessCrash, MachineCrashes, Forget
<1>5. CASE Pin \/ Unpin \/ Close \/ UNCHANGED vars
  <2>1. UNCHANGED <<pc, manifests, current, manifestNo, tables, version, next, flush, compact,
                    logNumber, imm, logfile>>
    BY <1>5 DEF Pin, Unpin, Close, vars, disk, vset, memory, bg
  <2> QED BY <2>1, JobStays
<1> QED BY <1>1, <1>2, <1>3, <1>4, <1>5 DEF Next

-----------------------------------------------------------------------------
(* How the logs change.                                                    *)

\* The fields of a log.
LEMMA LogsAre ==
    ASSUME NEW L, L \in Files(LogType)
    PROVE  \A n \in DOMAIN L : /\ L[n].recs \in Seq(RecordType) /\ Len(L[n].recs) \in Nat
                               /\ L[n].synced \in Nat
<1> SUFFICES ASSUME NEW n \in DOMAIN L
             PROVE  L[n].recs \in Seq(RecordType) /\ Len(L[n].recs) \in Nat /\ L[n].synced \in Nat
  OBVIOUS
<1>1. L[n] \in LogType BY FilesMeans
<1>2. L[n].recs \in Seq(RecordType) /\ L[n].synced \in Nat
  BY <1>1 DEF LogType
<1> QED BY <1>2, LenProperties

\* AddRecord appends one record to the current log.
LEMMA LogAppended ==
    ASSUME logs \in Files(LogType), logfile \in DOMAIN logs, NEW r \in RecordType,
           logs' = WithRecord(r)
    PROVE  /\ DOMAIN logs' = DOMAIN logs
           /\ \A n \in DOMAIN logs : n # logfile => logs'[n] = logs[n]
           /\ LogPart(logs'[logfile], FALSE) = LogPart(logs[logfile], FALSE) \cup r.entries
           /\ LogPart(logs[logfile], TRUE) \subseteq LogPart(logs'[logfile], TRUE)
           /\ WholeRecords /\ r.ok => WholeRecords'
<1> DEFINE q == logs[logfile].recs
           p == logs'[logfile].recs
<1>1. q \in Seq(RecordType) /\ Len(q) \in Nat BY LogsAre
<1>2. /\ DOMAIN logs' = DOMAIN logs
      /\ \A n \in DOMAIN logs : n # logfile => logs'[n] = logs[n]
      /\ p = Append(q, r)
      /\ logs'[logfile].synced = logs[logfile].synced
  <2>1. logs[logfile] \in LogType BY FilesMeans
  <2>2. logs[logfile] = [recs |-> q, synced |-> logs[logfile].synced]
    BY <2>1 DEF LogType
  <2> QED BY <2>2 DEF WithRecord
<1> HIDE DEF p, q
<1>3. /\ Len(p) = Len(q) + 1 /\ p[Len(q) + 1] = r
      /\ \A i \in 1 .. Len(q) : p[i] = q[i]
  BY <1>1, <1>2, AppendProperties
<1>4. /\ 1 .. Len(p) = 1 .. Len(q) \cup {Len(q) + 1}
      /\ Len(q) + 1 \notin 1 .. Len(q)
  BY <1>1, <1>3
<1>5. LogPart(logs'[logfile], FALSE) = LogPart(logs[logfile], FALSE) \cup r.entries
  <2>1. \A e : e \in LogPart(logs'[logfile], FALSE) <=> \E i \in 1 .. Len(p) : e \in p[i].entries
    BY InLog DEF p
  <2>2. \A e : e \in LogPart(logs[logfile], FALSE) <=> \E i \in 1 .. Len(q) : e \in q[i].entries
    BY InLog DEF q
  <2> QED BY <1>3, <1>4, <2>1, <2>2
<1>6. LogPart(logs[logfile], TRUE) \subseteq LogPart(logs'[logfile], TRUE)
  <2> DEFINE s == logs[logfile].synced
  <2>1. \A e : e \in LogPart(logs'[logfile], TRUE)
               <=> \E i \in 1 .. Len(p) : i <= s /\ e \in p[i].entries
    BY <1>2, InLog DEF p
  <2>2. \A e : e \in LogPart(logs[logfile], TRUE)
               <=> \E i \in 1 .. Len(q) : i <= s /\ e \in q[i].entries
    BY InLog DEF q
  <2> HIDE DEF s
  <2> QED BY <1>3, <1>4, <2>1, <2>2
<1>7. ASSUME WholeRecords, r.ok PROVE WholeRecords'
  <2> SUFFICES ASSUME NEW n \in DOMAIN logs', NEW i \in 1 .. Len(logs'[n].recs)
               PROVE  logs'[n].recs[i].ok
    BY DEF WholeRecords
  <2>1. CASE n # logfile BY <1>2, <1>7, <2>1 DEF WholeRecords
  <2>2. CASE n = logfile
    <3>1. i \in 1 .. Len(p) BY <2>2 DEF p
    <3>2. \A k \in 1 .. Len(q) : q[k].ok BY <1>7 DEF WholeRecords, q
    <3>3. p[i].ok BY <1>3, <1>4, <1>7, <3>1, <3>2
    <3> QED BY <2>2, <3>3 DEF p
  <2> QED BY <2>1, <2>2
<1> QED BY <1>2, <1>5, <1>6, <1>7

\* Sync makes the whole log safe.
LEMMA LogSynced ==
    ASSUME logs \in Files(LogType), logfile \in DOMAIN logs,
           logs' = [logs EXCEPT ![logfile].synced = Len(logs[logfile].recs)]
    PROVE  /\ DOMAIN logs' = DOMAIN logs
           /\ \A n \in DOMAIN logs : n # logfile => logs'[n] = logs[n]
           /\ \A sure \in BOOLEAN : LogPart(logs'[logfile], sure) = LogPart(logs[logfile], FALSE)
           /\ LogPart(logs[logfile], TRUE) \subseteq LogPart(logs[logfile], FALSE)
           /\ WholeRecords => WholeRecords'
<1> DEFINE q == logs[logfile].recs
<1>1. /\ DOMAIN logs' = DOMAIN logs
      /\ \A n \in DOMAIN logs : n # logfile => logs'[n] = logs[n]
      /\ logs'[logfile].recs = q /\ logs'[logfile].synced = Len(q)
  <2>1. logs[logfile] \in LogType BY FilesMeans
  <2>2. logs[logfile] = [recs |-> q, synced |-> logs[logfile].synced]
    BY <2>1 DEF LogType
  <2> QED BY <2>2
<1>2. Len(q) \in Nat BY LogsAre
<1>3. \A sure \in BOOLEAN : LogPart(logs'[logfile], sure) = LogPart(logs[logfile], FALSE)
  <2> TAKE sure \in BOOLEAN
  <2>1. \A e : e \in LogPart(logs[logfile], FALSE) <=> \E i \in 1 .. Len(q) : e \in q[i].entries
    BY InLog
  <2>2. \A e : e \in LogPart(logs'[logfile], sure)
           <=> \E i \in 1 .. Len(q) : (sure => i <= Len(q)) /\ e \in q[i].entries
    BY <1>1, InLog
  <2>3. \A i \in 1 .. Len(q) : i <= Len(q) BY <1>2
  <2> HIDE DEF q
  <2>4. \A e : e \in LogPart(logs'[logfile], sure) <=> e \in LogPart(logs[logfile], FALSE)
    BY <2>1, <2>2, <2>3
  <2>5. \A A, B : (\A e : e \in A <=> e \in B) => A = B OBVIOUS
  <2> QED BY <2>4, <2>5
<1>4. LogPart(logs[logfile], TRUE) \subseteq LogPart(logs[logfile], FALSE)
  BY InLog
<1>5. \A n \in DOMAIN logs : logs'[n].recs = logs[n].recs BY <1>1
<1>6. WholeRecords => WholeRecords' BY <1>1, <1>5 DEF WholeRecords
<1> QED BY <1>1, <1>3, <1>4, <1>6

\* A new log is empty.
LEMMA LogAdded ==
    ASSUME logs \in Files(LogType), NEW n, n \notin DOMAIN logs,
           logs' = Put(logs, n, [recs |-> <<>>, synced |-> 0])
    PROVE  /\ DOMAIN logs' = DOMAIN logs \cup {n}
           /\ \A m \in DOMAIN logs : logs'[m] = logs[m]
           /\ logs'[n].recs = <<>>
           /\ \A sure : LogPart(logs'[n], sure) = {}
           /\ WholeRecords => WholeRecords'
<1>1. /\ DOMAIN logs' = DOMAIN logs \cup {n}
      /\ \A m \in DOMAIN logs : logs'[m] = logs[m]
      /\ logs'[n].recs = <<>>
  BY DEF Put, Over, Single
<1>2. 1 .. Len(logs'[n].recs) = {} BY <1>1
<1>3. \A sure : LogPart(logs'[n], sure) = {} BY <1>2, InLog
<1>4. WholeRecords => WholeRecords' BY <1>1, <1>2 DEF WholeRecords
<1> QED BY <1>1, <1>3, <1>4

\* What a crash of the machine leaves: of every log at least what was synced,
\* and the descriptor up to one of its stops.
LEMMA CrashLeaves ==
    ASSUME FilesInv, MachineCrashes
    PROVE  /\ DOMAIN logs' = DOMAIN logs
           /\ \A n \in DOMAIN logs :
                 /\ LogPart(logs[n], TRUE) \subseteq LogPart(logs'[n], TRUE)
                 /\ \A sure \in BOOLEAN : LogPart(logs'[n], sure) \subseteq LogPart(logs[n], FALSE)
                 /\ LogPart(logs'[n], FALSE) \subseteq LogPart(logs'[n], TRUE)
           /\ WholeRecords => WholeRecords'
           /\ current # 0 => /\ Len(Edits') \in Stops(Edits, Synced) /\ Synced' = Len(Edits')
                             /\ Edits' \in Seq(EditType)
                             /\ \A i \in 1 .. Len(Edits') : Edits'[i] = Edits[i]
<1>1. /\ logs \in Files(LogType) /\ manifests \in Files(ManifestType)
      /\ logs' \in CutLogs /\ manifests' \in CutManifests /\ current' = current
  BY DEF FilesInv, FileTypes, MachineCrashes
<1>2. PICK keep : /\ \A n \in DOMAIN logs : keep[n] \in logs[n].synced .. Len(logs[n].recs)
                  /\ logs' = [n \in DOMAIN logs |->
                        [recs |-> SubSeq(logs[n].recs, 1, keep[n]), synced |-> keep[n]]]
  <2>1. \E keep : /\ \A n \in DOMAIN logs : keep[n] \in logs[n].synced .. Len(logs[n].recs)
                  /\ logs' = [n \in DOMAIN logs |->
                        [recs |-> SubSeq(logs[n].recs, 1, keep[n]), synced |-> keep[n]]]
    BY <1>1 DEF CutLogs, Cuts
  <2> QED BY <2>1
<1>3. ASSUME NEW n \in DOMAIN logs
      PROVE  /\ keep[n] \in Nat /\ logs[n].synced <= keep[n] /\ keep[n] <= Len(logs[n].recs)
             /\ logs'[n].synced = keep[n] /\ Len(logs'[n].recs) = keep[n]
             /\ \A i \in 1 .. keep[n] : logs'[n].recs[i] = logs[n].recs[i]
             /\ Len(logs[n].recs) \in Nat /\ logs[n].synced \in Nat
  <2>1. /\ logs[n].recs \in Seq(RecordType) /\ Len(logs[n].recs) \in Nat /\ logs[n].synced \in Nat
    BY <1>1, LogsAre
  <2>2. keep[n] \in Nat /\ logs[n].synced <= keep[n] /\ keep[n] <= Len(logs[n].recs)
    BY <1>2, <2>1
  <2>3. /\ Len(SubSeq(logs[n].recs, 1, keep[n])) = keep[n]
        /\ \A i \in 1 .. keep[n] : SubSeq(logs[n].recs, 1, keep[n])[i] = logs[n].recs[i]
    BY <2>1, <2>2, CutFile
  <2> QED BY <1>2, <2>1, <2>2, <2>3
<1>4. DOMAIN logs' = DOMAIN logs BY <1>2
<1>5. ASSUME NEW n \in DOMAIN logs
      PROVE  /\ LogPart(logs[n], TRUE) \subseteq LogPart(logs'[n], TRUE)
             /\ \A sure \in BOOLEAN : LogPart(logs'[n], sure) \subseteq LogPart(logs[n], FALSE)
             /\ LogPart(logs'[n], FALSE) \subseteq LogPart(logs'[n], TRUE)
             /\ WholeRecords => \A i \in 1 .. Len(logs'[n].recs) : logs'[n].recs[i].ok
  <2>1. \A i \in 1 .. Len(logs'[n].recs) : /\ i \in 1 .. Len(logs[n].recs) /\ i <= logs'[n].synced
                                           /\ logs'[n].recs[i] = logs[n].recs[i]
    BY <1>3
  <2>2. \A i \in 1 .. Len(logs[n].recs) : i <= logs[n].synced => i \in 1 .. Len(logs'[n].recs)
    BY <1>3
  <2>3. \A sure : \A e : e \in LogPart(logs'[n], sure)
           <=> \E i \in 1 .. Len(logs'[n].recs) :
                  (sure => i <= logs'[n].synced) /\ e \in logs'[n].recs[i].entries
    BY InLog
  <2>4. \A sure : \A e : e \in LogPart(logs[n], sure)
           <=> \E i \in 1 .. Len(logs[n].recs) :
                  (sure => i <= logs[n].synced) /\ e \in logs[n].recs[i].entries
    BY InLog
  <2>5. WholeRecords => \A i \in 1 .. Len(logs'[n].recs) : logs'[n].recs[i].ok
    BY <2>1 DEF WholeRecords
  <2>6. LogPart(logs[n], TRUE) \subseteq LogPart(logs'[n], TRUE)
    BY <2>1, <2>2, <2>3, <2>4
  <2>7. \A sure \in BOOLEAN : LogPart(logs'[n], sure) \subseteq LogPart(logs[n], FALSE)
    BY <2>1, <2>3, <2>4
  <2>8. LogPart(logs'[n], FALSE) \subseteq LogPart(logs'[n], TRUE)
    BY <2>1, <2>3
  <2> QED BY <2>5, <2>6, <2>7, <2>8
<1>6. WholeRecords => WholeRecords' BY <1>4, <1>5 DEF WholeRecords
<1>7. ASSUME current # 0
      PROVE  /\ Len(Edits') \in Stops(Edits, Synced) /\ Synced' = Len(Edits')
             /\ Edits' \in Seq(EditType)
             /\ \A i \in 1 .. Len(Edits') : Edits'[i] = Edits[i]
  <2>1. /\ current \in DOMAIN manifests /\ Edits \in Seq(EditType) /\ Len(Edits) \in Nat
        /\ Synced \in 0 .. Len(Edits)
    BY <1>7, EditsType
  <2>2. PICK kept : /\ \A n \in DOMAIN manifests :
                          kept[n] \in manifests[n].synced .. Len(manifests[n].edits)
                    /\ manifests' = [n \in DOMAIN manifests |->
                          [edits |-> SubSeq(manifests[n].edits, 1, kept[n]), synced |-> kept[n]]]
    <3>1. \E kept : /\ \A n \in DOMAIN manifests :
                          kept[n] \in manifests[n].synced .. Len(manifests[n].edits)
                    /\ manifests' = [n \in DOMAIN manifests |->
                          [edits |-> SubSeq(manifests[n].edits, 1, kept[n]), synced |-> kept[n]]]
      BY <1>1 DEF CutManifests, Cuts
    <3> QED BY <3>1
  <2> DEFINE k == kept[current]
  <2>3. k \in Nat /\ Synced <= k /\ k <= Len(Edits)
    BY <2>1, <2>2 DEF Edits, Synced
  <2>4. Edits' = SubSeq(Edits, 1, k) /\ Synced' = k
    BY <1>1, <2>1, <2>2 DEF Edits, Synced
  <2> HIDE DEF k
  <2>5. /\ SubSeq(Edits, 1, k) \in Seq(EditType) /\ Len(SubSeq(Edits, 1, k)) = k
        /\ \A i \in 1 .. k : SubSeq(Edits, 1, k)[i] = Edits[i]
    BY <2>1, <2>3, CutFile
  <2>6. k \in Stops(Edits, Synced) BY <2>1, <2>3 DEF Stops
  <2> QED BY <2>4, <2>5, <2>6
<1> QED BY <1>4, <1>5, <1>6, <1>7

-----------------------------------------------------------------------------
(* The logs are whole.                                                     *)

\* Files that are kept are whole.
LEMMA FewerLogs ==
    ASSUME WholeRecords, DOMAIN logs' \subseteq DOMAIN logs, \A n \in DOMAIN logs' : logs'[n] = logs[n]
    PROVE  WholeRecords'
BY DEF WholeRecords

\* The batch of a group is a record of the log.
LEMMA BatchIs ==
    ASSUME ControlInv, FilesInv
    PROVE  /\ Batch(TRUE) \in RecordType /\ Batch(TRUE).ok
           /\ Batch(TRUE).entries = GroupEntries
<1>1. GroupEntries \in EntrySets BY GroupTypes DEF FilesInv, FileTypes
<1> QED BY <1>1 DEF Batch, RecordType

\* A leader's step that writes: the log it appends to or syncs is there.
LEMMA LogIsOpen ==
    ASSUME ControlInv, FilesInv, NEW c \in Calls, phase[c] \in Working
    PROVE  /\ pc = "up" /\ logs \in Files(LogType) /\ logfile \in DOMAIN logs
           /\ writers # <<>> /\ writers[1] = c
           /\ group \in 1 .. Len(writers) /\ Len(writers) \in Nat
BY UpIs, WorkerIs

\* A new log has a number of its own.
LEMMA LogIsNew ==
    ASSUME FilesInv, pc = "up" \/ (pc = "logs" /\ recovering = {})
    PROVE  next \notin DOMAIN logs /\ logs \in Files(LogType)
<1>1. CASE pc = "up"
  <2>1. \A n \in DOMAIN logs : n < next BY <1>1, UpIs
  <2>2. logs \in Files(LogType) /\ next \in Nat /\ DOMAIN logs \in SUBSET Nat
    BY <1>1, UpIs
  <2> QED BY <2>1, <2>2
<1>2. CASE pc = "logs" /\ recovering = {}
  <2>1. \A n \in DOMAIN logs : n < next BY <1>2 DEF FilesInv, Opening
  <2>2. logs \in Files(LogType) /\ next \in Nat /\ DOMAIN logs \in SUBSET Nat
    BY <1>2, OpeningIs
  <2> QED BY <2>1, <2>2
<1> QED BY <1>1, <1>2

\* No step tears a record, unless an append may.
LEMMA WholeStep ==
    ControlInv /\ FilesInv /\ WholeRecords /\ ~MayTear /\ [Next]_vars => WholeRecords'
<1> SUFFICES ASSUME ControlInv, FilesInv, WholeRecords, ~MayTear, [Next]_vars PROVE WholeRecords'
  OBVIOUS
<1>1. ASSUME logs' = logs PROVE WholeRecords' BY <1>1, FewerLogs
<1>2. ASSUME NEW c \in Calls, Write(c) PROVE WholeRecords'
  BY <1>1, <1>2 DEF Write, disk
<1>3. ASSUME NEW c \in Calls, LeaderStep(c) PROVE WholeRecords'
  <2>1. CASE WriteRejected(c) \/ WriteHasRoom(c) \/ WriteWaits(c) \/ SwitchFailed(c)
               \/ SyncFailed(c) \/ FinishWrite(c)
    BY <1>1, <2>1 DEF WriteRejected, WriteHasRoom, WriteWaits, SwitchFailed, SyncFailed,
                      FinishWrite, disk
  <2>2. CASE SwitchMemTable(c)
    <3>1. Leader(c) /\ logs' = Put(logs, next, [recs |-> <<>>, synced |-> 0])
      BY <2>2 DEF SwitchMemTable, MaySwitch, NeedsSwitch
    <3>2. next \notin DOMAIN logs /\ logs \in Files(LogType)
      BY <3>1, LeaderIs, LogIsNew
    <3> QED BY <3>1, <3>2, LogAdded
  <2>3. CASE AppendLog(c) \/ AppendFailed(c)
    <3>1. /\ phase[c] = "append"
          /\ logs' = logs \/ logs' = WithRecord(Batch(TRUE))
      BY <2>3 DEF AppendLog, AppendFailed
    <3>2. logs \in Files(LogType) /\ logfile \in DOMAIN logs
      BY <3>1, LogIsOpen DEF Working
    <3>3. CASE logs' = WithRecord(Batch(TRUE))
      BY <3>2, <3>3, BatchIs, LogAppended
    <3> QED BY <1>1, <3>1, <3>3
  <2>4. CASE SyncLog(c)
    <3>1. phase[c] = "sync" /\ logs' = [logs EXCEPT ![logfile].synced = Len(logs[logfile].recs)]
      BY <2>4 DEF SyncLog
    <3>2. logs \in Files(LogType) /\ logfile \in DOMAIN logs
      BY <3>1, LogIsOpen DEF Working
    <3> QED BY <3>1, <3>2, LogSynced
  <2> QED BY <1>3, <2>1, <2>2, <2>3, <2>4 DEF LeaderStep
<1>4. ASSUME NEW v, NEW l, l \in Nat, NEW p, NEW h, pc = "up",
             DeleteObsoleteFiles(logs, tables, SyncedManifests, v, l, p, h),
             UNCHANGED <<current, manifestNo>>
      PROVE  WholeRecords'
  BY <1>4, EditInstalled, FewerLogs
<1>5. CASE BackgroundStep
  <2>1. CASE BackgroundNothing \/ StartFlush \/ FlushBuilt \/ FlushFailed \/ StartMove
               \/ StartCompaction \/ CompactionBuilt \/ CompactionFailed
    BY <1>1, <2>1 DEF BackgroundNothing, StartFlush, FlushBuilt, FlushFailed, StartMove,
                      StartCompaction, CompactionBuilt, CompactionFailed, disk
  <2>2. ASSUME FlushInstalled \/ CompactionInstalled
        PROVE  pc = "up" /\ LastEdit.log \in Nat
    <3>1. InFlight /\ (flush # NoFlush \/ compact # NoCompact)
      BY <2>2, NoJobs DEF FlushInstalled, CompactionInstalled, InFlight
    <3>2. pc = "up" BY <3>1 DEF ControlInv, QuietUnlessUp
    <3> QED BY <3>1, <3>2, UpIs, EditsAre
  <2>3. CASE FlushInstalled
    <3>1. /\ DeleteObsoleteFiles(logs, tables, SyncedManifests, version', LastEdit.log, pending,
                                 compact.held)
          /\ UNCHANGED <<current, manifestNo>>
      BY <2>3 DEF FlushInstalled
    <3> QED BY <1>4, <2>2, <2>3, <3>1
  <2>4. CASE CompactionInstalled
    <3>1. /\ logs' = logs \/ DeleteObsoleteFiles(logs, tables, SyncedManifests, version', LastEdit.log,
                                                 pending', {})
          /\ UNCHANGED <<current, manifestNo>>
      BY <2>4 DEF CompactionInstalled
    <3> QED BY <1>1, <1>4, <2>2, <2>4, <3>1
  <2> QED BY <1>5, <2>1, <2>3, <2>4 DEF BackgroundStep
<1>6. CASE OpenStep
  <2>1. CASE NewDB \/ Recover \/ RecoverLogFile \/ OpenSetsCurrent \/ OpenFails
    BY <1>1, <2>1 DEF NewDB, Recover, RecoverLogFile, OpenSetsCurrent, OpenFails, disk
  <2>2. CASE OpenWritesManifest
    <3>1. /\ pc = "logs" /\ recovering = {}
          /\ logs' = Put(logs, next, [recs |-> <<>>, synced |-> 0])
      BY <2>2 DEF OpenWritesManifest
    <3> QED BY <3>1, LogIsNew, LogAdded
  <2>3. CASE OpenReturns
    <3>1. logs' = logs \/ logs' = Without(logs, {n \in DOMAIN logs : n < logNumber'})
      BY <2>3 DEF OpenReturns, DeleteObsoleteFiles
    <3>2. DOMAIN logs' \subseteq DOMAIN logs /\ \A n \in DOMAIN logs' : logs'[n] = logs[n]
      BY <3>1 DEF Without
    <3> QED BY <3>2, FewerLogs
  <2> QED BY <1>6, <2>1, <2>2, <2>3 DEF OpenStep
<1>7. CASE Pin \/ Unpin \/ Close \/ Closed \/ ProcessCrash \/ UNCHANGED vars
  BY <1>1, <1>7 DEF Pin, Unpin, Close, Closed, ProcessCrash, vars, disk
<1>8. CASE MachineCrashes BY <1>8, CrashLeaves
<1> QED BY <1>2, <1>3, <1>5, <1>6, <1>7, <1>8 DEF Next

-----------------------------------------------------------------------------
(* What recovery finds.                                                    *)

\* A file without a torn record is read to its end.
LEMMA ReadWhole ==
    ASSUME NEW S, NEW recs, recs \in Seq(S), \A i \in 1 .. Len(recs) : recs[i].ok
    PROVE  ReadableRecords(recs) = recs
<1>1. DOMAIN recs = 1 .. Len(recs) BY LenProperties
<1>2. {i \in DOMAIN recs : ~recs[i].ok} = {} BY <1>1
<1> QED BY <1>2 DEF ReadableRecords

\* RecoverLogFile finds every record of a whole log.
LEMMA LogRead ==
    ASSUME NEW L, L \in Files(LogType), NEW n, n \in DOMAIN L,
           \A i \in 1 .. Len(L[n].recs) : L[n].recs[i].ok
    PROVE  LogEntries(L[n].recs) = LogPart(L[n], FALSE)
<1> DEFINE q == L[n].recs
<1>1. q \in Seq(RecordType) BY LogsAre
<1>2. ReadableRecords(q) = q /\ DOMAIN q = 1 .. Len(q)
  BY <1>1, ReadWhole, LenProperties
<1>3. LogPart(L[n], FALSE) = UNION {q[i].entries : i \in 1 .. Len(q)}
  <2>1. {k \in 1 .. Len(q) : FALSE => k <= L[n].synced} = 1 .. Len(q)
    OBVIOUS
  <2> QED BY <2>1 DEF LogPart
<1> HIDE DEF q
<1>4. LogEntries(q) = UNION {r.entries : r \in {q[i] : i \in 1 .. Len(q)}}
  BY <1>2 DEF LogEntries, ToSet
<1>5. UNION {r.entries : r \in {q[i] : i \in 1 .. Len(q)}} = UNION {q[i].entries : i \in 1 .. Len(q)}
  OBVIOUS
<1>6. LogEntries(q) = LogPart(L[n], FALSE) BY <1>3, <1>4, <1>5
<1> QED BY <1>6 DEF q

\* What VersionSet::Recover makes of a whole descriptor.
LEMMA EditsRead ==
    ASSUME NEW E, E \in Seq(EditType), \A i \in 1 .. Len(E) : E[i].ok
    PROVE  /\ ReadableRecords(E) = E
           /\ ReplayEdits(E).files = FilesAfter(E)[Len(E)]
           /\ ReplayEdits(E).log = LogAt(E, Len(E))
           /\ Len(E) # 0 => /\ ReplayEdits(E).next = E[Len(E)].next
                            /\ ReplayEdits(E).last = E[Len(E)].last
           /\ Len(E) \in Nat /\ (E = <<>> <=> Len(E) = 0)
<1>1. ReadableRecords(E) = E BY ReadWhole
<1>2. Len(E) \in Nat /\ (E = <<>> <=> Len(E) = 0)
  BY LenProperties, EmptySeq
<1> DEFINE final == IF E = <<>> THEN Edit(Empty, {}, 0, 0, 0) ELSE Last(E)
<1>3. ReplayEdits(E) = [files |-> FilesAfter(E)[Len(E)], log |-> final.log,
                        next |-> final.next, last |-> final.last]
  BY <1>1 DEF ReplayEdits
<1>4. CASE E = <<>> BY <1>1, <1>2, <1>3, <1>4 DEF Edit, LogAt
<1>5. CASE E # <<>> BY <1>1, <1>2, <1>3, <1>5 DEF Last, LogAt
<1> QED BY <1>4, <1>5

\* Recovery of a directory without torn records.
LEMMA RecoverableIs ==
    ASSUME NEW L, L \in Files(LogType), NEW T, NEW M, M \in Files(ManifestType),
           NEW c \in Nat, c # 0 => c \in DOMAIN M,
           \A n \in DOMAIN L : \A i \in 1 .. Len(L[n].recs) : L[n].recs[i].ok,
           c # 0 => M[c].edits \in Seq(EditType)
                    /\ \A i \in 1 .. Len(M[c].edits) : M[c].edits[i].ok
    PROVE  Recoverable([logs |-> L, tables |-> T, manifests |-> M, current |-> c])
              = IF c = 0 THEN {} ELSE Found(L, T, M[c].edits, Len(M[c].edits), FALSE)
<1> DEFINE D == [logs |-> L, tables |-> T, manifests |-> M, current |-> c]
           R(s) == TableEntries(T, DOMAIN s.files)
                   \cup UNION {LogEntries(L[n].recs) : n \in {m \in DOMAIN L : m >= s.log}}
<1>1. Recoverable(D) = UNION {R(s) : s \in {ReplayEdits(e) : e \in {M[n].edits : n \in {c} \ {0}}}}
  BY DEF Recoverable
<1>2. CASE c = 0 BY <1>1, <1>2
<1>3. CASE c # 0
  <2> DEFINE E == M[c].edits
  <2>1. Recoverable(D) = R(ReplayEdits(E)) BY <1>1, <1>3
  <2>2. /\ ReplayEdits(E).files = FilesAfter(E)[Len(E)]
        /\ ReplayEdits(E).log = LogAt(E, Len(E))
    BY <1>3, EditsRead
  <2>3. \A n \in DOMAIN L : LogEntries(L[n].recs) = LogPart(L[n], FALSE)
    BY LogRead
  <2>4. LogsFrom(L, LogAt(E, Len(E)), FALSE)
          = UNION {LogEntries(L[n].recs) : n \in {m \in DOMAIN L : m >= LogAt(E, Len(E))}}
    <3> DEFINE N == {m \in DOMAIN L : m >= LogAt(E, Len(E))}
    <3>1. LogsFrom(L, LogAt(E, Len(E)), FALSE) = UNION {LogPart(L[n], FALSE) : n \in N \cap DOMAIN L}
      BY DEF LogsFrom, LogsIn
    <3>2. N \cap DOMAIN L = N OBVIOUS
    <3> QED BY <2>3, <3>1, <3>2
  <2>5. R(ReplayEdits(E)) = Found(L, T, E, Len(E), FALSE)
    <3> DEFINE s == ReplayEdits(E)
    <3>1. R(s) = TableEntries(T, DOMAIN FilesAfter(E)[Len(E)])
                 \cup UNION {LogEntries(L[n].recs) : n \in {m \in DOMAIN L : m >= LogAt(E, Len(E))}}
      BY <2>2
    <3> HIDE DEF s, R
    <3> QED BY <2>4, <3>1 DEF Found, Named, s
  <2> HIDE DEF R, D
  <2> QED BY <1>3, <2>1, <2>5 DEF D
<1> QED BY <1>2, <1>3

\* Every record of a descriptor is whole, unless an append may tear one.
LEMMA EditsWhole ==
    ASSUME FilesInv, ~MayTear, current # 0
    PROVE  \A i \in 1 .. Len(Edits) : Edits[i].ok
BY EditsType DEF DescriptorOf, Numbered

\* What DB::Open would find now.
LEMMA RecoverableNow ==
    FilesInv /\ WholeRecords /\ ~MayTear =>
       Recoverable(Disk) = IF current = 0 THEN {}
                           ELSE Found(logs, tables, Edits, Len(Edits), FALSE)
<1> SUFFICES ASSUME FilesInv, WholeRecords, ~MayTear
             PROVE  Recoverable(Disk) = IF current = 0 THEN {}
                                        ELSE Found(logs, tables, Edits, Len(Edits), FALSE)
  OBVIOUS
<1>1. logs \in Files(LogType) /\ manifests \in Files(ManifestType) /\ current \in Nat
  BY DEF FilesInv, FileTypes
<1>2. current # 0 => /\ current \in DOMAIN manifests /\ Edits \in Seq(EditType)
                     /\ \A i \in 1 .. Len(Edits) : Edits[i].ok
  BY EditsType, EditsWhole
<1>3. Recoverable([logs |-> logs, tables |-> tables, manifests |-> manifests, current |-> current])
        = IF current = 0 THEN {} ELSE Found(logs, tables, Edits, Len(Edits), FALSE)
  BY <1>1, <1>2, RecoverableIs DEF WholeRecords, Edits
<1> QED BY <1>3 DEF Disk

\* What is found, entry by entry.
LEMMA InFound ==
    \A L, T, E, j, sure, e : e \in Found(L, T, E, j, sure)
       <=> e \in Named(T, E, j) \/ \E n \in DOMAIN L : n >= LogAt(E, j) /\ e \in LogPart(L[n], sure)
BY InNewerLogs DEF Found

\* The same files lead to the same entries, and more of them to more.
LEMMA FoundGrows ==
    ASSUME NEW L, NEW K, NEW T, NEW U, NEW E, NEW F, NEW j, NEW sure,
           LogAt(F, j) = LogAt(E, j), Named(T, E, j) \subseteq Named(U, F, j),
           \A n \in DOMAIN L : n >= LogAt(E, j) =>
              n \in DOMAIN K /\ LogPart(L[n], sure) \subseteq LogPart(K[n], sure)
    PROVE  Found(L, T, E, j, sure) \subseteq Found(K, U, F, j, sure)
BY InFound

\* The stops of the descriptor in use; the whole of it is one.
LEMMA StopsAre ==
    ASSUME FilesInv, current # 0
    PROVE  /\ Edits \in Seq(EditType) /\ Len(Edits) \in Nat /\ Synced \in 0 .. Len(Edits)
           /\ \A j \in Stops(Edits, Synced) : j \in 0 .. Len(Edits) /\ Synced <= j
                                              /\ j \in Nat /\ (j # 0 => j \in 1 .. Len(Edits))
           /\ Len(Edits) \in Stops(Edits, Synced)
<1>1. Edits \in Seq(EditType) /\ Len(Edits) \in Nat /\ Synced \in 0 .. Len(Edits)
  BY EditsType
<1> QED BY <1>1 DEF Stops

-----------------------------------------------------------------------------
(* The store, while the database runs.                                     *)

\* What a running database shows, a crash at any stop of the descriptor leaves.
LEMMA UpKept == FilesInv /\ UpStore /\ pc = "up" => KeptInv
<1> SUFFICES ASSUME FilesInv, UpStore, pc = "up", NEW j \in Stops(Edits, Synced),
                    NEW sure \in BOOLEAN, NEW c \in Written, sure => kind[c] = "sync"
             PROVE  c \in CallsOf(Found(logs, tables, Edits, j, sure))
  BY DEF KeptInv, KeptAt
<1>1. PICK e \in mem \cup Frozen \cup TableEntries(tables, DOMAIN version) : e.call = c
  <2>1. c \in CallsOf(mem \cup Frozen \cup TableEntries(tables, DOMAIN version))
    BY DEF UpStore
  <2> QED BY <2>1 DEF CallsOf
<1>2. Owed(e, sure) BY <1>1 DEF Owed, Written, Answered
<1>3. LogAt(Edits, j) <= logfile /\ logfile \in DOMAIN logs
  <2>1. j = 0 \/ j \in 1 .. Len(Edits) BY UpIs, StopsAre
  <2> QED BY <2>1, UpIs DEF LogAt
<1>4. e \in Found(logs, tables, Edits, j, sure)
  <2>1. CASE e \in mem
    <3>1. e \in LogPart(logs[logfile], sure) BY <1>2, <2>1 DEF UpStore
    <3>2. logfile >= LogAt(Edits, j)
      <4>1. LogAt(Edits, j) \in Nat /\ logfile \in Nat
        BY UpIs, StopsAre, EditsAre DEF LogAt
      <4> QED BY <1>3, <4>1
    <3> QED BY <1>3, <3>1, <3>2, InFound
  <2>2. CASE e \in Frozen BY <1>2, <2>2 DEF UpStore
  <2>3. CASE e \in TableEntries(tables, DOMAIN version)
    BY <2>3, InFound DEF UpStore
  <2> QED BY <1>1, <2>1, <2>2, <2>3
<1> QED BY <1>1, <1>4 DEF CallsOf

\* What a step to a running database has to show.
LEMMA UpIsStored == FilesInv /\ pc = "up" /\ UpStore /\ LastInv => StoreInv
<1> SUFFICES ASSUME FilesInv, pc = "up", UpStore, LastInv PROVE StoreInv
  OBVIOUS
<1>1. current # 0 BY UpIs
<1>2. KeptInv BY UpKept
<1> QED BY <1>1, <1>2 DEF StoreInv, EmptyInv, OpenStore

\* What a step of a running database has to show.
LEMMA UpStored ==
    ASSUME FilesInv', pc' = "up", UpStore', LastInv'
    PROVE  StoreInv'
<1>1. (FilesInv /\ pc = "up" /\ UpStore /\ LastInv)' OBVIOUS
<1> QED BY <1>1, UpIsStored, PTL

\* What is stored of a running database.
LEMMA UpHas ==
    ASSUME FilesInv, StoreInv, pc = "up"
    PROVE  UpStore /\ LastInv /\ current # 0
BY UpIs DEF StoreInv

\* A step of the writers that touches neither a file nor the memtable.
LEMMA StoreStays ==
    ASSUME FilesInv, FilesInv', StoreInv, pc = "up", pc' = "up",
           UNCHANGED <<logs, tables, manifests, current, mem, imm, version, last, logfile, logNumber>>,
           \A c \in Calls : phase[c] \in Quiet => phase'[c] = phase[c] /\ kind'[c] = kind[c],
           \A c \in Calls : phase'[c] = "ok" /\ kind'[c] # "force"
                               => phase[c] = "ok" /\ kind[c] = kind'[c],
           \A e : InGroup(e) => InGroup(e)',
           \A c \in Calls : phase'[c] \in {"sync", "insert"}
               => phase[c] = phase'[c] /\ kind'[c] = kind[c] /\ GroupEntries' = GroupEntries
    PROVE  StoreInv'
<1>1. UpStore /\ LastInv /\ current # 0 BY UpHas
<1>2. OnDisk' = OnDisk /\ Logged' = Logged /\ Frozen' = Frozen /\ Edits' = Edits /\ Synced' = Synced
  BY DEF OnDisk, Logged, Frozen, Edits, Synced
<1>3. OnDisk \cup Logged \cup mem \cup Frozen \subseteq Entries
  <2>1. logs \in Files(LogType) /\ tables \in Files(TableType)
    BY DEF FilesInv, FileTypes
  <2>2. OnDisk \subseteq Entries /\ Logged \subseteq Entries
    BY <2>1, EntriesAre DEF OnDisk, Logged
  <2>3. mem \in EntrySets /\ imm \in {NoMem} \cup {<<m>> : m \in EntrySets}
    BY DEF FilesInv, FileTypes
  <2>4. Frozen \subseteq Entries BY <2>3 DEF Frozen, EntrySets, Entries
  <2> QED BY <2>2, <2>3, <2>4 DEF EntrySets, Entries
<1>4. \A e \in Entries : Settled(e) => Settled(e)'
  BY DEF Settled, Entries
<1>5. Written' \subseteq Written BY DEF Written, Answered
<1>6. \A e \in Entries, sure \in BOOLEAN : Settled(e) /\ Owed(e, sure)' => Owed(e, sure)
  BY DEF Owed, Settled, Entries, Quiet
<1>7. LastInv' BY <1>1, <1>2 DEF LastInv
<1>8. UpStore'
  <2>1. Unique(OnDisk \cup Logged)' BY <1>1, <1>2 DEF UpStore, Unique
  <2>2. \A e \in (OnDisk \cup mem \cup Frozen)' : Settled(e)'
    BY <1>1, <1>2, <1>3, <1>4 DEF UpStore
  <2>3. \A e \in Logged' : Settled(e)' \/ InGroup(e)'
    BY <1>1, <1>2, <1>3, <1>4 DEF UpStore
  <2>4. Written' \subseteq CallsOf(mem' \cup Frozen' \cup TableEntries(tables', DOMAIN version'))
    BY <1>1, <1>2, <1>5 DEF UpStore
  <2>5. \A sure \in BOOLEAN : \A e \in mem' : Owed(e, sure)' => e \in LogPart(logs'[logfile'], sure)
    BY <1>1, <1>3, <1>6 DEF UpStore
  <2>6. \A sure \in BOOLEAN : \A e \in Frozen' :
          Owed(e, sure)' => e \in LogsFrom(logs', logNumber', sure)
    BY <1>1, <1>2, <1>3, <1>6 DEF UpStore
  <2>7. \A c \in Calls :
          /\ phase'[c] \in {"sync", "insert"} => GroupEntries' \subseteq LogPart(logs'[logfile'], FALSE)
          /\ phase'[c] = "insert" /\ kind'[c] = "sync"
             => GroupEntries' \subseteq LogPart(logs'[logfile'], TRUE)
    BY <1>1 DEF UpStore
  <2>8. \A j \in Stops(Edits', Synced') :
          /\ TableEntries(tables', DOMAIN version') \subseteq Named(tables', Edits', j)
          /\ \A sure \in BOOLEAN : \A e \in Frozen' :
                Owed(e, sure)' => e \in Found(logs', tables', Edits', j, sure)
    BY <1>1, <1>2, <1>3, <1>6 DEF UpStore
  <2> QED BY <2>1, <2>2, <2>3, <2>4, <2>5, <2>6, <2>7, <2>8 DEF UpStore
<1> QED BY <1>7, <1>8, UpStored

\* A step that leaves the writers alone as well.
LEMMA StoreSame ==
    ASSUME FilesInv, FilesInv', StoreInv, pc = "up", pc' = "up",
           UNCHANGED <<logs, tables, manifests, current, mem, imm, version, last, logfile, logNumber,
                       writers, group, phase, kind>>
    PROVE  StoreInv' /\ Shown' = Shown
<1>1. GroupEntries' = GroupEntries BY DEF GroupEntries, Batches
<1>2. \A e : InGroup(e) => InGroup(e)' BY <1>1 DEF InGroup
<1>3. Shown' = Shown BY DEF Shown, Frozen
<1> QED BY <1>1, <1>2, <1>3, StoreStays

-----------------------------------------------------------------------------
(* The steps of the writers.                                               *)

\* While nobody works no group is in the log.
LEMMA NoGroup ==
    ASSUME \A d \in Calls : phase[d] \notin Working
    PROVE  \A e : ~InGroup(e)
BY DEF InGroup

\* Who has an answer does not wait for one.
LEMMA QuietIsNotBusy ==
    /\ Quiet \cap Busy = {} /\ "idle" \notin Busy /\ Working \subseteq Busy
    /\ {"sync", "insert"} \subseteq Working \ {"append"}
    /\ {"append", "sync", "insert", "failed", "syncfailed"} = Working
    /\ "queued" \notin Working /\ "idle" \notin Quiet
BY DEF Quiet, Busy, Working

\* The leader is refused.
LEMMA RefusedStore ==
    ASSUME ControlInv, QueueInv, FilesInv, FilesInv', StoreInv, NEW c \in Calls,
           WriteRejected(c) \/ SwitchFailed(c)
    PROVE  StoreInv'
<1>1. /\ Leader(c) /\ Answer(1, "error")
      /\ UNCHANGED <<pc, logs, tables, manifests, current, mem, imm, version, last, logfile, logNumber>>
  BY DEF WriteRejected, SwitchFailed, MaySwitch, NeedsSwitch, disk, vset, memory
<1>2. /\ pc = "up" /\ writers # <<>> /\ 1 \in 1 .. Len(writers)
      /\ \A d \in Calls : phase[d] \notin Working
  BY <1>1, LeaderIs
<1>3. /\ kind' = kind
      /\ \A d \in Calls : /\ phase[d] \notin Busy => phase'[d] = phase[d]
                          /\ phase'[d] \notin Working
                          /\ phase'[d] = phase[d] \/ phase'[d] = "error"
  BY <1>1, <1>2, AnswerIs
<1>4. \A e : InGroup(e) => InGroup(e)' BY <1>2, NoGroup
<1> QED BY <1>1, <1>2, <1>3, <1>4, QuietIsNotBusy, StoreStays

\* A call of Write comes, the leader takes its group, or its sync fails.
LEMMA QueuedStore ==
    ASSUME ControlInv, QueueInv, FilesInv, FilesInv', StoreInv, NEW c \in Calls,
           Write(c) \/ WriteHasRoom(c) \/ WriteWaits(c) \/ SyncFailed(c)
    PROVE  StoreInv'
<1>1. UNCHANGED <<pc, logs, tables, manifests, current, mem, imm, version, last, logfile, logNumber>>
  BY DEF Write, WriteHasRoom, WriteWaits, SyncFailed, disk, vset, memory
<1>2. CASE Write(c)
  <2>1. /\ \A d \in Calls : d # c => phase'[d] = phase[d] /\ kind'[d] = kind[d]
        /\ phase[c] = "idle" /\ phase'[c] = "queued"
        /\ \A i \in 1 .. Len(writers) : writers[i] # c /\ writers'[i] = writers[i]
        /\ group' = group
    BY <1>2, WriteQueue
  <2>2. /\ Len(writers) \in Nat /\ group \in 0 .. Len(writers)
        /\ \A i \in 1 .. Len(writers) : writers[i] \in Calls
    BY WritersAre
  <2>3. group \in Nat /\ \A i \in 1 .. group : i \in 1 .. Len(writers)
    BY <2>2
  <2>4. GroupEntries' = GroupEntries
    BY <1>1, <2>1, <2>2, <2>3, GroupSame
  <2>5. pc = "up" BY <1>2 DEF Write
  <2>6. \A e : InGroup(e) => InGroup(e)'
    BY <2>1, <2>4, QuietIsNotBusy DEF InGroup
  <2> QED BY <1>1, <2>1, <2>4, <2>5, <2>6, QuietIsNotBusy, StoreStays
<1>3. CASE WriteHasRoom(c)
  <2>1. Leader(c) /\ kind[c] # "force" /\ Proceed(c)
    BY <1>3 DEF WriteHasRoom
  <2>2. /\ pc = "up" /\ phase[c] = "queued"
        /\ \A d \in Calls : phase[d] \notin Working
    BY <2>1, LeaderIs
  <2>3. phase' = [phase EXCEPT ![c] = "append"] /\ kind' = kind
    BY <2>1 DEF Proceed
  <2>4. \A d \in Calls : phase'[d] = (IF d = c THEN "append" ELSE phase[d])
    BY <2>3 DEF ControlInv, ControlTypes
  <2>5. \A e : InGroup(e) => InGroup(e)' BY <2>2, NoGroup
  <2> QED BY <1>1, <2>2, <2>3, <2>4, <2>5, QuietIsNotBusy, StoreStays DEF Quiet
<1>4. CASE WriteWaits(c)
  <2>1. UNCHANGED <<writers, group, phase, kind>> /\ Leader(c)
    BY <1>4 DEF WriteWaits, NeedsSwitch
  <2> QED BY <1>1, <2>1, LeaderIs, StoreSame
<1>5. CASE SyncFailed(c)
  <2>1. /\ phase[c] = "sync" /\ phase' = [phase EXCEPT ![c] = "syncfailed"]
        /\ UNCHANGED <<writers, group, kind>>
    BY <1>5 DEF SyncFailed
  <2>2. \A d \in Calls : phase'[d] = (IF d = c THEN "syncfailed" ELSE phase[d])
    BY <2>1 DEF ControlInv, ControlTypes
  <2>3. GroupEntries' = GroupEntries
    BY <1>1, <2>1 DEF GroupEntries, Batches
  <2>4. pc = "up" BY <2>1, WorkerIs, QuietIsNotBusy
  <2>5. \A e : InGroup(e) => InGroup(e)'
    <3>1. phase'[c] \in Working \ {"append"} BY <2>2 DEF Working
    <3> QED BY <2>3, <3>1 DEF InGroup
  <2> QED BY <1>1, <2>1, <2>2, <2>3, <2>4, <2>5, QuietIsNotBusy, StoreStays DEF Quiet
<1> QED BY <1>2, <1>3, <1>4, <1>5

\* Entries of a running database.
LEMMA UpEntries ==
    ASSUME FilesInv
    PROVE  /\ OnDisk \subseteq Entries /\ Logged \subseteq Entries
           /\ mem \subseteq Entries /\ Frozen \subseteq Entries
           /\ TableEntries(tables, DOMAIN version) \subseteq OnDisk
           /\ logs \in Files(LogType) /\ tables \in Files(TableType)
<1>1. logs \in Files(LogType) /\ tables \in Files(TableType)
  BY DEF FilesInv, FileTypes
<1>2. OnDisk \subseteq Entries /\ Logged \subseteq Entries
      /\ TableEntries(tables, DOMAIN version) \subseteq OnDisk
  BY <1>1, EntriesAre DEF OnDisk, Logged
<1>3. mem \in EntrySets /\ imm \in {NoMem} \cup {<<m>> : m \in EntrySets}
  BY DEF FilesInv, FileTypes
<1>4. Frozen \subseteq Entries /\ mem \subseteq Entries
  BY <1>3 DEF Frozen, EntrySets, Entries
<1> QED BY <1>1, <1>2, <1>4

\* New numbers and new calls join old ones.
LEMMA UniqueJoin ==
    ASSUME last \in Nat, NEW S, S \subseteq Entries, NEW G, G \subseteq Entries, Unique(S), Unique(G),
           \A e \in S : Settled(e) \/ e \in G,
           \A e \in G : e.seq > last /\ phase[e.call] \in Busy
    PROVE  Unique(S \cup G)
<1>1. \A e \in S, f \in G : e \in G \/ (e.seq # f.seq /\ e.call # f.call)
  <2> SUFFICES ASSUME NEW e \in S, NEW f \in G, e \notin G PROVE e.seq # f.seq /\ e.call # f.call
    OBVIOUS
  <2>1. e.seq \in Nat /\ f.seq \in Nat /\ e.seq <= last /\ phase[e.call] \in Quiet
    BY DEF Settled, Entries
  <2> QED BY <2>1, QuietIsNotBusy
<1>2. \A e, f \in S : e.seq = f.seq <=> e.call = f.call BY DEF Unique
<1>3. \A e, f \in G : e.seq = f.seq <=> e.call = f.call BY DEF Unique
<1> SUFFICES ASSUME NEW e \in S \cup G, NEW f \in S \cup G
             PROVE  e.seq = f.seq <=> e.call = f.call
  BY DEF Unique
<1> QED BY <1>1, <1>2, <1>3

\* AddRecord and Sync: the log holds more, or more of it is safe.
LEMMA StoreAppends ==
    ASSUME ControlInv, QueueInv, FilesInv, FilesInv', StoreInv, NEW c \in Calls, phase[c] \in Working,
           NEW p \in Working \ {"append"}, phase' = [phase EXCEPT ![c] = p],
           UNCHANGED <<pc, tables, manifests, current, version, last, logfile, logNumber, mem, imm,
                       writers, group, kind>>,
           DOMAIN logs' = DOMAIN logs,
           \A n \in DOMAIN logs, sure \in BOOLEAN : LogPart(logs[n], sure) \subseteq LogPart(logs'[n], sure),
           \A n \in DOMAIN logs : LogPart(logs'[n], FALSE) \subseteq LogPart(logs[n], FALSE) \cup GroupEntries,
           p \in {"sync", "insert"} => GroupEntries \subseteq LogPart(logs'[logfile], FALSE),
           p = "insert" /\ kind[c] = "sync" => GroupEntries \subseteq LogPart(logs'[logfile], TRUE)
    PROVE  StoreInv'
<1>1. /\ pc = "up" /\ logfile \in DOMAIN logs /\ writers[1] = c
  BY LogIsOpen
<1>2. UpStore /\ LastInv /\ current # 0 /\ last \in Nat
  BY <1>1, UpHas, UpIs
<1>3. /\ OnDisk' = OnDisk /\ Frozen' = Frozen /\ Edits' = Edits /\ Synced' = Synced
      /\ GroupEntries' = GroupEntries
  BY DEF OnDisk, Frozen, Edits, Synced, GroupEntries, Batches
<1>4. \A d \in Calls : phase'[d] = (IF d = c THEN p ELSE phase[d])
  BY DEF ControlInv, ControlTypes
<1>5. \A d \in Calls : phase[d] \in Working => d = c BY <1>1, WorkerIs
<1>6. \A e \in Entries : Settled(e) => Settled(e)'
  BY <1>4, QuietIsNotBusy DEF Settled, Entries
<1>7. Written' \subseteq Written BY <1>4 DEF Written, Answered, Working
<1>8. \A e \in Entries, sure \in BOOLEAN : Owed(e, sure)' => Owed(e, sure)
  BY <1>4 DEF Owed, Entries, Working
<1>9. \A e : e \in GroupEntries => InGroup(e)'
  <2>1. phase'[c] \in Working \ {"append"} BY <1>4
  <2> QED BY <1>3, <2>1 DEF InGroup
<1>10. \A e : InGroup(e) => e \in GroupEntries BY DEF InGroup
<1>11. Logged' \subseteq Logged \cup GroupEntries BY InLogs DEF Logged
<1>12. Logged \subseteq Entries /\ OnDisk \subseteq Entries /\ mem \subseteq Entries /\ Frozen \subseteq Entries
  BY UpEntries
<1>13. /\ \A e \in GroupEntries : e.seq > last /\ phase[e.call] \in Busy /\ e \in Entries
       /\ Unique(GroupEntries)
  <2>1. GroupEntries \subseteq Entries
    BY <1>2, GroupTypes DEF EntrySets, Entries
  <2> QED BY <1>2, <2>1, GroupNumbers
<1>14. LastInv' BY <1>2, <1>3 DEF LastInv
<1>15. UpStore'
  <2>1. Unique(OnDisk \cup Logged)'
    <3>1. \A e \in OnDisk \cup Logged : Settled(e) \/ e \in GroupEntries
      BY <1>2, <1>10 DEF UpStore
    <3> DEFINE S == OnDisk \cup Logged
    <3>2. S \subseteq Entries /\ GroupEntries \subseteq Entries /\ Unique(S)
      BY <1>2, <1>12, <1>13 DEF UpStore
    <3>3. Unique(S \cup GroupEntries)
      BY <1>2, <1>13, <3>1, <3>2, UniqueJoin
    <3>4. (OnDisk \cup Logged)' \subseteq S \cup GroupEntries
      BY <1>3, <1>11
    <3> QED BY <3>3, <3>4 DEF Unique
  <2>2. \A e \in (OnDisk \cup mem \cup Frozen)' : Settled(e)'
    BY <1>2, <1>3, <1>6, <1>12 DEF UpStore
  <2>3. \A e \in Logged' : Settled(e)' \/ InGroup(e)'
    BY <1>2, <1>6, <1>9, <1>10, <1>11, <1>12 DEF UpStore
  <2>4. Written' \subseteq CallsOf(mem' \cup Frozen' \cup TableEntries(tables', DOMAIN version'))
    BY <1>2, <1>3, <1>7 DEF UpStore
  <2>5. \A sure \in BOOLEAN : \A e \in mem' : Owed(e, sure)' => e \in LogPart(logs'[logfile'], sure)
    BY <1>1, <1>2, <1>8, <1>12 DEF UpStore
  <2>6. \A sure \in BOOLEAN : \A e \in Frozen' :
          Owed(e, sure)' => e \in LogsFrom(logs', logNumber', sure)
    BY <1>2, <1>3, <1>8, <1>12, InNewerLogs DEF UpStore
  <2>7. \A d \in Calls :
          /\ phase'[d] \in {"sync", "insert"} => GroupEntries' \subseteq LogPart(logs'[logfile'], FALSE)
          /\ phase'[d] = "insert" /\ kind'[d] = "sync"
             => GroupEntries' \subseteq LogPart(logs'[logfile'], TRUE)
    BY <1>3, <1>4, <1>5, QuietIsNotBusy
  <2>8. \A j \in Stops(Edits', Synced') :
          /\ TableEntries(tables', DOMAIN version') \subseteq Named(tables', Edits', j)
          /\ \A sure \in BOOLEAN : \A e \in Frozen' :
                Owed(e, sure)' => e \in Found(logs', tables', Edits', j, sure)
    <3> SUFFICES ASSUME NEW j \in Stops(Edits, Synced)
                 PROVE  /\ TableEntries(tables, DOMAIN version) \subseteq Named(tables, Edits, j)
                        /\ \A sure \in BOOLEAN : \A e \in Frozen :
                              Owed(e, sure)' => e \in Found(logs', tables, Edits, j, sure)
      BY <1>3
    <3>1. \A sure \in BOOLEAN : Found(logs, tables, Edits, j, sure) \subseteq Found(logs', tables, Edits, j, sure)
      BY InFound
    <3> QED BY <1>2, <1>8, <1>12, <3>1 DEF UpStore
  <2> QED BY <2>1, <2>2, <2>3, <2>4, <2>5, <2>6, <2>7, <2>8 DEF UpStore
<1> QED BY <1>1, <1>14, <1>15, UpStored

\* The leader appends the batch of its group to the log, or syncs it.
LEMMA AppendStore ==
    ASSUME ControlInv, QueueInv, FilesInv, FilesInv', ~MayTear, StoreInv, NEW c \in Calls,
           AppendLog(c) \/ AppendFailed(c) \/ SyncLog(c)
    PROVE  StoreInv'
<1>1. /\ UNCHANGED <<pc, tables, manifests, current, version, last, logfile, logNumber, mem, imm,
                     writers, group, kind>>
      /\ phase[c] \in Working
  BY DEF AppendLog, AppendFailed, SyncLog, vset, memory, Working
<1>2. pc = "up" /\ logs \in Files(LogType) /\ logfile \in DOMAIN logs
  BY <1>1, LogIsOpen
<1>3. ASSUME logs' = logs \/ logs' = WithRecord(Batch(TRUE))
      PROVE  /\ DOMAIN logs' = DOMAIN logs
             /\ \A n \in DOMAIN logs, sure \in BOOLEAN :
                   LogPart(logs[n], sure) \subseteq LogPart(logs'[n], sure)
             /\ \A n \in DOMAIN logs :
                   LogPart(logs'[n], FALSE) \subseteq LogPart(logs[n], FALSE) \cup GroupEntries
             /\ logs' # logs => GroupEntries \subseteq LogPart(logs'[logfile], FALSE)
  <2>1. CASE logs' = logs BY <2>1
  <2>2. CASE logs' = WithRecord(Batch(TRUE))
    <3> DEFINE r == Batch(TRUE)
    <3>1. r \in RecordType /\ r.entries = GroupEntries BY BatchIs
    <3> HIDE DEF r
    <3>2. logs' = WithRecord(r) BY <2>2 DEF r
    <3>3. /\ DOMAIN logs' = DOMAIN logs
          /\ \A n \in DOMAIN logs : n # logfile => logs'[n] = logs[n]
          /\ LogPart(logs'[logfile], FALSE) = LogPart(logs[logfile], FALSE) \cup GroupEntries
          /\ LogPart(logs[logfile], TRUE) \subseteq LogPart(logs'[logfile], TRUE)
      BY <1>2, <3>1, <3>2, LogAppended
    <3> QED BY <3>3
  <2> QED BY <1>3, <2>1, <2>2
<1>4. CASE AppendFailed(c)
  <2>1. (logs' = logs \/ logs' = WithRecord(Batch(TRUE))) /\ phase' = [phase EXCEPT ![c] = "failed"]
    BY <1>4 DEF AppendFailed
  <2> DEFINE p == "failed"
  <2>2. p \in Working \ {"append"} /\ p \notin {"sync", "insert"} /\ phase' = [phase EXCEPT ![c] = p]
    BY <2>1 DEF Working
  <2> HIDE DEF p
  <2> QED BY <1>1, <1>3, <2>1, <2>2, StoreAppends
<1>5. CASE AppendLog(c)
  <2> DEFINE p == IF kind[c] = "sync" THEN "sync" ELSE "insert"
  <2>1. logs' = WithRecord(Batch(TRUE)) /\ phase' = [phase EXCEPT ![c] = p]
    BY <1>5 DEF AppendLog
  <2>2. p \in Working \ {"append"} /\ ~(p = "insert" /\ kind[c] = "sync")
    BY DEF Working
  <2> HIDE DEF p
  <2>3. GroupEntries \subseteq LogPart(logs'[logfile], FALSE)
    <3> DEFINE r == Batch(TRUE)
    <3>1. r \in RecordType /\ r.entries = GroupEntries BY BatchIs
    <3> HIDE DEF r
    <3>2. logs' = WithRecord(r) BY <2>1 DEF r
    <3>3. LogPart(logs'[logfile], FALSE) = LogPart(logs[logfile], FALSE) \cup GroupEntries
      BY <1>2, <3>1, <3>2, LogAppended
    <3> QED BY <3>3
  <2> QED BY <1>1, <1>3, <2>1, <2>2, <2>3, StoreAppends
<1>6. CASE SyncLog(c)
  <2>1. /\ logs' = [logs EXCEPT ![logfile].synced = Len(logs[logfile].recs)]
        /\ phase' = [phase EXCEPT ![c] = "insert"] /\ phase[c] = "sync"
    BY <1>6 DEF SyncLog
  <2>2. /\ DOMAIN logs' = DOMAIN logs
        /\ \A n \in DOMAIN logs : n # logfile => logs'[n] = logs[n]
        /\ \A sure \in BOOLEAN : LogPart(logs'[logfile], sure) = LogPart(logs[logfile], FALSE)
        /\ LogPart(logs[logfile], TRUE) \subseteq LogPart(logs[logfile], FALSE)
    BY <1>2, <2>1, LogSynced
  <2>3. GroupEntries \subseteq LogPart(logs[logfile], FALSE)
    BY <1>2, <2>1, UpHas DEF UpStore
  <2> DEFINE p == "insert"
  <2>4. p \in Working \ {"append"} /\ phase' = [phase EXCEPT ![c] = p]
    BY <2>1 DEF Working
  <2> HIDE DEF p
  <2>5. \A n \in DOMAIN logs, sure \in BOOLEAN :
           LogPart(logs[n], sure) \subseteq LogPart(logs'[n], sure)
    BY <2>2
  <2>6. \A n \in DOMAIN logs :
           LogPart(logs'[n], FALSE) \subseteq LogPart(logs[n], FALSE) \cup GroupEntries
    BY <2>2
  <2> QED BY <1>1, <2>2, <2>3, <2>4, <2>5, <2>6, StoreAppends
<1> QED BY <1>4, <1>5, <1>6

\* The end of Write: the group is in the memtable, and in the log as far as its
\* calls asked for.
LEMMA FinishStore ==
    ASSUME ControlInv, QueueInv, FilesInv, FilesInv', StoreInv, NEW c \in Calls, FinishWrite(c)
    PROVE  StoreInv'
<1> DEFINE answer == IF phase[c] = "insert" THEN "ok" ELSE "error"
           G == IF phase[c] = "insert" THEN GroupEntries ELSE {}
<1>1. /\ UNCHANGED <<pc, logs, tables, manifests, current, version, logfile, logNumber, imm>>
      /\ phase[c] \in Working \ {"append"} /\ last' = last + Batches(group) /\ mem' = mem \cup G
      /\ Answer(group, answer)
  BY DEF FinishWrite, disk, Working
<1>2. /\ pc = "up" /\ logs \in Files(LogType) /\ logfile \in DOMAIN logs
      /\ writers # <<>> /\ writers[1] = c /\ group \in 1 .. Len(writers) /\ Len(writers) \in Nat
  BY <1>1, LogIsOpen
<1>3. UpStore /\ LastInv /\ current # 0 /\ last \in Nat
  BY <1>2, UpHas, UpIs
<1>4. /\ kind' = kind
      /\ \A d \in Calls : /\ phase[d] \notin Busy => phase'[d] = phase[d]
                          /\ phase'[d] \notin Working
                          /\ \/ phase'[d] = phase[d] /\ \A i \in 1 .. group : writers[i] # d
                             \/ phase'[d] = answer /\ \E i \in 1 .. group : writers[i] = d
  <2>1. answer \in {"ok", "error"} OBVIOUS
  <2> HIDE DEF answer
  <2> QED BY <1>1, <1>2, <2>1, AnswerIs
<1>5. /\ \A e \in GroupEntries :
            /\ e \in Entries /\ e.seq \in Nat /\ e.seq <= last + Batches(group)
            /\ e.call \in Calls /\ kind[e.call] # "force" /\ \E i \in 1 .. group : writers[i] = e.call
      /\ \A d \in Calls : (\E i \in 1 .. group : writers[i] = d) /\ kind[d] # "force"
            => d \in CallsOf(GroupEntries)
      /\ Batches(group) \in Nat
  <2>1. GroupEntries \subseteq Entries
    BY <1>3, GroupTypes DEF EntrySets, Entries
  <2> QED BY <1>3, <2>1, GroupNumbers
<1>6. OnDisk' = OnDisk /\ Logged' = Logged /\ Frozen' = Frozen /\ Edits' = Edits /\ Synced' = Synced
  BY <1>1 DEF OnDisk, Logged, Frozen, Edits, Synced
<1>7. OnDisk \subseteq Entries /\ Logged \subseteq Entries /\ mem \subseteq Entries /\ Frozen \subseteq Entries
  BY UpEntries
<1>8. \A e \in Entries : Settled(e) => Settled(e)'
  <2> SUFFICES ASSUME NEW e \in Entries, Settled(e) PROVE Settled(e)'
    OBVIOUS
  <2>1. e.seq \in Nat /\ e.call \in Calls BY DEF Entries
  <2>2. e.seq <= last + Batches(group) BY <1>3, <1>5, <2>1 DEF Settled
  <2>3. phase'[e.call] = phase[e.call]
    BY <1>4, <2>1, QuietIsNotBusy DEF Settled
  <2> QED BY <1>1, <1>4, <2>2, <2>3 DEF Settled
<1>9. \A e \in GroupEntries : Settled(e)'
  <2> SUFFICES ASSUME NEW e \in GroupEntries PROVE Settled(e)' OBVIOUS
  <2>1. phase'[e.call] = answer BY <1>4, <1>5
  <2> QED BY <1>1, <1>4, <1>5, <2>1 DEF Settled, Quiet
<1>10. \A e \in Entries, sure \in BOOLEAN : Settled(e) /\ Owed(e, sure)' => Owed(e, sure)
  <2> SUFFICES ASSUME NEW e \in Entries, NEW sure \in BOOLEAN, Settled(e), Owed(e, sure)'
               PROVE  Owed(e, sure)
    OBVIOUS
  <2>1. e.call \in Calls BY DEF Entries
  <2>2. phase'[e.call] = phase[e.call]
    BY <1>4, <2>1, QuietIsNotBusy DEF Settled
  <2> QED BY <1>4, <2>2 DEF Owed
<1>11. LastInv' BY <1>1, <1>3, <1>6 DEF LastInv
<1>12. UpStore'
  <2>1. Unique(OnDisk \cup Logged)' BY <1>3, <1>6 DEF UpStore, Unique
  <2>2. \A e \in (OnDisk \cup mem \cup Frozen)' : Settled(e)'
    BY <1>1, <1>3, <1>6, <1>7, <1>8, <1>9 DEF UpStore
  <2>3. \A e \in Logged' : Settled(e)' \/ InGroup(e)'
    <3>1. \A e \in Logged : Settled(e) \/ e \in GroupEntries
      BY <1>3 DEF UpStore, InGroup
    <3> QED BY <1>6, <1>7, <1>8, <1>9, <3>1
  <2>4. Written' \subseteq CallsOf(mem' \cup Frozen' \cup TableEntries(tables', DOMAIN version'))
    <3> SUFFICES ASSUME NEW d \in Written'
                 PROVE  d \in CallsOf(mem' \cup Frozen \cup TableEntries(tables, DOMAIN version))
      BY <1>1, <1>6
    <3>1. d \in Calls /\ phase'[d] = "ok" /\ kind[d] # "force"
      BY <1>4 DEF Written, Answered
    <3>2. CASE phase'[d] = phase[d]
      <4>1. d \in Written BY <3>1, <3>2 DEF Written, Answered
      <4>2. d \in CallsOf(mem \cup Frozen \cup TableEntries(tables, DOMAIN version))
        BY <1>3, <4>1 DEF UpStore
      <4> QED BY <1>1, <4>2 DEF CallsOf
    <3>3. CASE phase'[d] = answer /\ \E i \in 1 .. group : writers[i] = d
      <4>1. G = GroupEntries BY <3>1, <3>3
      <4>2. d \in CallsOf(GroupEntries) BY <1>5, <3>1, <3>3
      <4> QED BY <1>1, <4>1, <4>2 DEF CallsOf
    <3> QED BY <1>4, <3>1, <3>2, <3>3
  <2>5. \A sure \in BOOLEAN : \A e \in mem' : Owed(e, sure)' => e \in LogPart(logs'[logfile'], sure)
    <3> SUFFICES ASSUME NEW sure \in BOOLEAN, NEW e \in mem \cup G, Owed(e, sure)'
                 PROVE  e \in LogPart(logs[logfile], sure)
      BY <1>1
    <3>1. CASE e \in mem
      <4>1. Settled(e) /\ e \in Entries BY <1>3, <1>7, <3>1 DEF UpStore
      <4> QED BY <1>3, <1>10, <3>1, <4>1 DEF UpStore
    <3>2. CASE e \in G
      <4>1. phase[c] = "insert" /\ e \in GroupEntries BY <3>2
      <4>2. CASE sure = FALSE BY <1>3, <4>1, <4>2 DEF UpStore
      <4>3. CASE sure = TRUE
        <5>1. kind[e.call] = "sync" BY <1>4, <4>3 DEF Owed
        <5>2. kind[c] = "sync" BY <1>1, <1>5, <4>1, <5>1 DEF QueueInv
        <5> QED BY <1>3, <4>1, <4>3, <5>2 DEF UpStore
      <4> QED BY <4>2, <4>3
    <3> QED BY <3>1, <3>2
  <2>6. \A sure \in BOOLEAN : \A e \in Frozen' :
          Owed(e, sure)' => e \in LogsFrom(logs', logNumber', sure)
    BY <1>1, <1>3, <1>6, <1>7, <1>10 DEF UpStore
  <2>7. \A d \in Calls :
          /\ phase'[d] \in {"sync", "insert"} => GroupEntries' \subseteq LogPart(logs'[logfile'], FALSE)
          /\ phase'[d] = "insert" /\ kind'[d] = "sync"
             => GroupEntries' \subseteq LogPart(logs'[logfile'], TRUE)
    BY <1>4, QuietIsNotBusy
  <2>8. \A j \in Stops(Edits', Synced') :
          /\ TableEntries(tables', DOMAIN version') \subseteq Named(tables', Edits', j)
          /\ \A sure \in BOOLEAN : \A e \in Frozen' :
                Owed(e, sure)' => e \in Found(logs', tables', Edits', j, sure)
    BY <1>1, <1>3, <1>6, <1>7, <1>10 DEF UpStore
  <2> QED BY <2>1, <2>2, <2>3, <2>4, <2>5, <2>6, <2>7, <2>8 DEF UpStore
<1> QED BY <1>1, <1>2, <1>11, <1>12, UpStored

\* The memtable is switched: what it holds is in a log that no stop of the
\* descriptor leaves out.
LEMMA SwitchStore ==
    ASSUME ControlInv, QueueInv, FilesInv, FilesInv', StoreInv, NEW c \in Calls, SwitchMemTable(c)
    PROVE  StoreInv'
<1>1. /\ UNCHANGED <<pc, tables, manifests, current, version, last, logNumber>>
      /\ logs' = Put(logs, next, [recs |-> <<>>, synced |-> 0]) /\ logfile' = next
      /\ imm' = <<mem>> /\ mem' = {} /\ imm = NoMem
      /\ Leader(c) /\ Proceed(c)
  BY DEF SwitchMemTable, MaySwitch, NeedsSwitch, MustWait
<1>2. /\ pc = "up" /\ writers # <<>> /\ 1 \in 1 .. Len(writers) /\ writers[1] = c
      /\ \A d \in Calls : phase[d] \notin Working
  BY <1>1, LeaderIs DEF Leader
<1>3. UpStore /\ LastInv /\ current # 0 /\ last \in Nat
  BY <1>2, UpHas, UpIs
<1>4. /\ kind' = kind
      /\ \A d \in Calls : phase[d] \in Quiet => phase'[d] = phase[d]
      /\ \A d \in Calls : phase'[d] = "ok" /\ kind[d] # "force" => phase[d] = "ok"
      /\ \A d \in Calls : phase'[d] \notin {"sync", "insert"}
  <2>1. CASE kind[c] = "force"
    <3>1. Answer(1, "ok") BY <1>1, <2>1 DEF Proceed
    <3>2. /\ kind' = kind
          /\ \A d \in Calls : /\ phase[d] \notin Busy => phase'[d] = phase[d]
                              /\ phase'[d] \notin Working
                              /\ phase'[d] = phase[d] \/ \E i \in 1 .. 1 : writers[i] = d
      BY <1>2, <3>1, AnswerIs
    <3>3. \A d \in Calls : phase'[d] = phase[d] \/ kind[d] = "force"
      BY <1>2, <2>1, <3>2
    <3> QED BY <3>2, <3>3, QuietIsNotBusy
  <2>2. CASE kind[c] # "force"
    <3>1. phase' = [phase EXCEPT ![c] = "append"] /\ kind' = kind
      BY <1>1, <2>2 DEF Proceed
    <3>2. \A d \in Calls : phase'[d] = (IF d = c THEN "append" ELSE phase[d])
      BY <3>1 DEF ControlInv, ControlTypes
    <3>3. phase[c] = "queued" BY <1>1 DEF Leader
    <3> QED BY <1>2, <3>1, <3>2, <3>3, QuietIsNotBusy DEF Quiet
  <2> QED BY <2>1, <2>2
<1>5. /\ next \notin DOMAIN logs /\ logs \in Files(LogType)
      /\ DOMAIN logs' = DOMAIN logs \cup {next}
      /\ \A m \in DOMAIN logs : logs'[m] = logs[m]
      /\ \A sure : LogPart(logs'[next], sure) = {}
  <2>1. next \notin DOMAIN logs /\ logs \in Files(LogType)
    BY <1>2, LogIsNew
  <2> QED BY <1>1, <2>1, LogAdded
<1>6. /\ OnDisk' = OnDisk /\ Edits' = Edits /\ Synced' = Synced
      /\ Frozen' = mem /\ Frozen = {}
  BY <1>1 DEF OnDisk, Frozen, Edits, Synced, NoMem
<1>7. Logged' = Logged
  <2>1. \A e : e \in Logged <=> \E n \in DOMAIN logs : e \in LogPart(logs[n], FALSE)
    BY InLogs DEF Logged
  <2>2. \A e : e \in Logged' <=> \E n \in DOMAIN logs' : e \in LogPart(logs'[n], FALSE)
    BY InLogs DEF Logged
  <2>3. \A e : e \in Logged' <=> e \in Logged
    <3>1. \A e : e \notin LogPart(logs'[next], FALSE) BY <1>5
    <3>2. \A m \in DOMAIN logs : LogPart(logs'[m], FALSE) = LogPart(logs[m], FALSE)
      BY <1>5
    <3>3. DOMAIN logs' = DOMAIN logs \cup {next} BY <1>5
    <3> QED BY <2>1, <2>2, <3>1, <3>2, <3>3
  <2>4. \A A, B : (\A e : e \in A <=> e \in B) => A = B OBVIOUS
  <2> QED BY <2>3, <2>4
<1>8. OnDisk \subseteq Entries /\ Logged \subseteq Entries /\ mem \subseteq Entries
  BY UpEntries
<1>9. \A e \in Entries : Settled(e) => Settled(e)'
  BY <1>1, <1>4 DEF Settled, Entries
<1>10. \A e \in Entries, sure \in BOOLEAN : Settled(e) /\ Owed(e, sure)' => Owed(e, sure)
  BY <1>4 DEF Owed, Settled, Entries
<1>11. Written' \subseteq Written BY <1>4 DEF Written, Answered
<1>12. LastInv' BY <1>1, <1>3, <1>6 DEF LastInv
<1>13. \A sure \in BOOLEAN : \A e \in mem : Owed(e, sure)' => e \in LogPart(logs[logfile], sure)
  BY <1>3, <1>8, <1>10 DEF UpStore
<1>14. /\ logfile \in DOMAIN logs /\ logNumber <= logfile /\ logfile \in Nat /\ logNumber \in Nat
       /\ \A i \in 1 .. Len(Edits) : Edits[i].log <= logfile
  BY <1>2, UpIs
<1>15. UpStore'
  <2>1. Unique(OnDisk \cup Logged)'
    BY <1>3, <1>6, <1>7 DEF UpStore, Unique
  <2>2. \A e \in (OnDisk \cup mem \cup Frozen)' : Settled(e)'
    BY <1>1, <1>3, <1>6, <1>8, <1>9 DEF UpStore
  <2>3. \A e \in Logged' : Settled(e)' \/ InGroup(e)'
    BY <1>2, <1>3, <1>7, <1>8, <1>9, NoGroup DEF UpStore
  <2>4. Written' \subseteq CallsOf(mem' \cup Frozen' \cup TableEntries(tables', DOMAIN version'))
    BY <1>1, <1>3, <1>6, <1>11 DEF UpStore
  <2>5. \A sure \in BOOLEAN : \A e \in mem' : Owed(e, sure)' => e \in LogPart(logs'[logfile'], sure)
    BY <1>1
  <2>6. \A sure \in BOOLEAN : \A e \in Frozen' :
          Owed(e, sure)' => e \in LogsFrom(logs', logNumber', sure)
    <3> SUFFICES ASSUME NEW sure \in BOOLEAN, NEW e \in mem, Owed(e, sure)'
                 PROVE  e \in LogsFrom(logs', logNumber, sure)
      BY <1>1, <1>6
    <3>1. e \in LogPart(logs'[logfile], sure) /\ logfile \in DOMAIN logs' /\ logfile >= logNumber
      BY <1>5, <1>13, <1>14
    <3> QED BY <3>1, InNewerLogs
  <2>7. \A d \in Calls :
          /\ phase'[d] \in {"sync", "insert"} => GroupEntries' \subseteq LogPart(logs'[logfile'], FALSE)
          /\ phase'[d] = "insert" /\ kind'[d] = "sync"
             => GroupEntries' \subseteq LogPart(logs'[logfile'], TRUE)
    BY <1>4
  <2>8. \A j \in Stops(Edits', Synced') :
          /\ TableEntries(tables', DOMAIN version') \subseteq Named(tables', Edits', j)
          /\ \A sure \in BOOLEAN : \A e \in Frozen' :
                Owed(e, sure)' => e \in Found(logs', tables', Edits', j, sure)
    <3> SUFFICES ASSUME NEW j \in Stops(Edits, Synced)
                 PROVE  /\ TableEntries(tables, DOMAIN version) \subseteq Named(tables, Edits, j)
                        /\ \A sure \in BOOLEAN : \A e \in mem :
                              Owed(e, sure)' => e \in Found(logs', tables, Edits, j, sure)
      BY <1>1, <1>6
    <3>1. j = 0 \/ j \in 1 .. Len(Edits) BY <1>3, StopsAre
    <3>2. LogAt(Edits, j) \in Nat
      BY <1>3, <3>1, StopsAre, EditsAre DEF LogAt
    <3>3. logfile >= LogAt(Edits, j) BY <1>14, <3>1, <3>2 DEF LogAt
    <3>4. logfile \in DOMAIN logs' /\ logs'[logfile] = logs[logfile]
      BY <1>5, <1>14
    <3> QED BY <1>3, <1>13, <3>3, <3>4, InFound DEF UpStore
  <2> QED BY <2>1, <2>2, <2>3, <2>4, <2>5, <2>6, <2>7, <2>8 DEF UpStore
<1> QED BY <1>1, <1>2, <1>12, <1>15, UpStored

\* Every step of the writers.
LEMMA WriterStore ==
    ASSUME ControlInv, QueueInv, FilesInv, FilesInv', ~MayTear, StoreInv, NEW c \in Calls,
           Write(c) \/ LeaderStep(c)
    PROVE  StoreInv'
BY RefusedStore, QueuedStore, AppendStore, FinishStore, SwitchStore DEF LeaderStep

-----------------------------------------------------------------------------
(* The steps of the background thread.                                     *)

\* What a step of the background thread has to show: nothing that was visible
\* is lost, and wherever the descriptor may now be cut, it leads to the tables of
\* the version and to the memtable that is being written.
LEMMA BackgroundStore ==
    ASSUME FilesInv, FilesInv', StoreInv, pc = "up", pc' = "up",
           UNCHANGED <<writers, group, phase, kind, mem, last, logfile>>,
           OnDisk' \subseteq OnDisk \cup Frozen, Frozen' \subseteq Frozen,
           DOMAIN logs' \subseteq DOMAIN logs, \A n \in DOMAIN logs' : logs'[n] = logs[n],
           logfile \in DOMAIN logs',
           Frozen \cup TableEntries(tables, DOMAIN version)
              \subseteq Frozen' \cup TableEntries(tables', DOMAIN version'),
           Frozen' # {} => /\ logNumber' = logNumber
                           /\ \A n \in DOMAIN logs : n >= logNumber => n \in DOMAIN logs',
           \A j \in Stops(Edits', Synced') :
              /\ TableEntries(tables', DOMAIN version') \subseteq Named(tables', Edits', j)
              /\ \A sure \in BOOLEAN : \A e \in Frozen' :
                    Owed(e, sure) => e \in Found(logs', tables', Edits', j, sure)
              /\ j # 0 => \A e \in Named(tables', Edits', j) : e.seq <= Edits'[j].last
    PROVE  StoreInv'
<1>1. UpStore BY UpHas
<1>2. GroupEntries' = GroupEntries BY DEF GroupEntries, Batches
<1>3. \A e : /\ Settled(e)' <=> Settled(e)
             /\ InGroup(e)' <=> InGroup(e)
             /\ \A sure \in BOOLEAN : Owed(e, sure)' <=> Owed(e, sure)
  BY <1>2 DEF Settled, InGroup, Owed
<1>4. Written' = Written BY DEF Written, Answered
<1>5. Logged' \subseteq Logged
  <2>1. \A e : e \in Logged <=> \E n \in DOMAIN logs : e \in LogPart(logs[n], FALSE)
    BY InLogs DEF Logged
  <2>2. \A e : e \in Logged' <=> \E n \in DOMAIN logs' : e \in LogPart(logs'[n], FALSE)
    BY InLogs DEF Logged
  <2> QED BY <2>1, <2>2
<1>6. LastInv' BY DEF LastInv
<1>7. UpStore'
  <2>1. Unique(OnDisk \cup Logged)'
    <3>1. \A e \in Frozen : e \in LogsFrom(logs, logNumber, FALSE)
      BY <1>1 DEF UpStore, Owed
    <3>2. Frozen \subseteq Logged
      BY <3>1, InNewerLogs, InLogs DEF Logged
    <3>3. (OnDisk \cup Logged)' \subseteq OnDisk \cup Logged
      BY <1>5, <3>2
    <3> QED BY <1>1, <3>3 DEF UpStore, Unique
  <2>2. \A e \in (OnDisk \cup mem \cup Frozen)' : Settled(e)'
    BY <1>1, <1>3 DEF UpStore
  <2>3. \A e \in Logged' : Settled(e)' \/ InGroup(e)'
    BY <1>1, <1>3, <1>5 DEF UpStore
  <2>4. Written' \subseteq CallsOf(mem' \cup Frozen' \cup TableEntries(tables', DOMAIN version'))
    BY <1>1, <1>4 DEF UpStore, CallsOf
  <2>5. \A sure \in BOOLEAN : \A e \in mem' : Owed(e, sure)' => e \in LogPart(logs'[logfile'], sure)
    BY <1>1, <1>3 DEF UpStore
  <2>6. \A sure \in BOOLEAN : \A e \in Frozen' :
          Owed(e, sure)' => e \in LogsFrom(logs', logNumber', sure)
    BY <1>1, <1>3, InNewerLogs DEF UpStore
  <2>7. \A d \in Calls :
          /\ phase'[d] \in {"sync", "insert"} => GroupEntries' \subseteq LogPart(logs'[logfile'], FALSE)
          /\ phase'[d] = "insert" /\ kind'[d] = "sync"
             => GroupEntries' \subseteq LogPart(logs'[logfile'], TRUE)
    BY <1>1, <1>2 DEF UpStore
  <2>8. \A j \in Stops(Edits', Synced') :
          /\ TableEntries(tables', DOMAIN version') \subseteq Named(tables', Edits', j)
          /\ \A sure \in BOOLEAN : \A e \in Frozen' :
                Owed(e, sure)' => e \in Found(logs', tables', Edits', j, sure)
    BY <1>3
  <2> QED BY <2>1, <2>2, <2>3, <2>4, <2>5, <2>6, <2>7, <2>8 DEF UpStore
<1> QED BY <1>6, <1>7, UpStored

\* What such directories have in common.
LEMMA OneTable ==
    ASSUME NEW T, NEW U, NEW k,
           SameBut(T, U, k)
    PROVE  /\ \A S : k \notin S => TableEntries(U, S) = TableEntries(T, S)
           /\ \A e \in TableEntries(U, DOMAIN U) :
              e \in TableEntries(T, DOMAIN T) \/ (k \in DOMAIN U /\ e \in U[k].entries)
<1>1. ASSUME NEW S, k \notin S PROVE TableEntries(U, S) = TableEntries(T, S)
  <2>1. \A e : e \in TableEntries(U, S) <=> e \in TableEntries(T, S)
    BY <1>1, InTables DEF SameBut
  <2>2. \A A, B : (\A e : e \in A <=> e \in B) => A = B OBVIOUS
  <2> QED BY <2>1, <2>2
<1>2. ASSUME NEW e \in TableEntries(U, DOMAIN U)
      PROVE  e \in TableEntries(T, DOMAIN T) \/ (k \in DOMAIN U /\ e \in U[k].entries)
  <2>1. PICK n \in DOMAIN U : e \in U[n].entries BY InTables
  <2>2. CASE n # k
    <3>1. n \in DOMAIN T /\ e \in T[n].entries BY <2>1, <2>2 DEF SameBut
    <3> QED BY <3>1, InTables
  <2> QED BY <2>1, <2>2
<1>3. \A S : k \notin S => TableEntries(U, S) = TableEntries(T, S)
  BY <1>1
<1>4. \A e \in TableEntries(U, DOMAIN U) :
              e \in TableEntries(T, DOMAIN T) \/ (k \in DOMAIN U /\ e \in U[k].entries)
  BY <1>2
<1> QED BY <1>3, <1>4

\* A table that no edit adds is named nowhere.
LEMMA NotNamed ==
    ASSUME NEW E, E \in Seq(EditType), NEW T, NEW U, NEW k,
           SameBut(T, U, k),
           \A i \in 1 .. Len(E) : k \notin DOMAIN E[i].add
    PROVE  \A j \in 0 .. Len(E) : Named(U, E, j) = Named(T, E, j) /\ k \notin DOMAIN FilesAfter(E)[j]
<1> SUFFICES ASSUME NEW j \in 0 .. Len(E)
             PROVE  Named(U, E, j) = Named(T, E, j) /\ k \notin DOMAIN FilesAfter(E)[j]
  OBVIOUS
<1>1. Len(E) \in Nat BY EditsAre
<1>2. \A i \in 1 .. j : i \in 1 .. Len(E) BY <1>1
<1>3. k \notin DOMAIN FilesAfter(E)[j] BY <1>2, FilesAfterNamed
<1>4. TableEntries(U, DOMAIN FilesAfter(E)[j]) = TableEntries(T, DOMAIN FilesAfter(E)[j])
  BY <1>3, OneTable
<1> QED BY <1>3, <1>4 DEF Named

\* What the descriptor in use leads to while the database runs.
LEMMA UpStops ==
    ASSUME FilesInv, StoreInv, pc = "up"
    PROVE  \A j \in Stops(Edits, Synced) :
              /\ j \in 0 .. Len(Edits)
              /\ TableEntries(tables, DOMAIN version) \subseteq Named(tables, Edits, j)
              /\ \A sure \in BOOLEAN : \A e \in Frozen :
                    Owed(e, sure) => e \in Found(logs, tables, Edits, j, sure)
              /\ j # 0 => \A e \in Named(tables, Edits, j) : e.seq <= Edits[j].last
<1>1. UpStore /\ LastInv /\ current # 0 BY UpHas
<1> QED BY <1>1, StopsAre DEF UpStore, LastInv

\* A table is begun, finished or removed that nobody names.
LEMMA TablesStore ==
    ASSUME FilesInv, FilesInv', StoreInv, pc = "up", pc' = "up",
           UNCHANGED <<writers, group, phase, kind, mem, last, logfile,
                       logs, manifests, current, version, logNumber, imm>>,
           NEW k,
           SameBut(tables, tables', k),
           k \notin DOMAIN version, \A i \in 1 .. Len(Edits) : k \notin DOMAIN Edits[i].add,
           k \in DOMAIN tables' => tables'[k].entries \subseteq OnDisk \cup Frozen
    PROVE  StoreInv' /\ Shown' = Shown
<1>1. /\ Edits' = Edits /\ Synced' = Synced /\ Frozen' = Frozen
      /\ Edits \in Seq(EditType) /\ Len(Edits) \in Nat /\ logfile \in DOMAIN logs
  BY UpIs DEF Edits, Synced, Frozen
<1>2. \A j \in 0 .. Len(Edits) : Named(tables', Edits, j) = Named(tables, Edits, j)
  BY <1>1, NotNamed
<1>3. TableEntries(tables', DOMAIN version) = TableEntries(tables, DOMAIN version)
  BY OneTable
<1>4. OnDisk' \subseteq OnDisk \cup Frozen BY OneTable DEF OnDisk
<1>5. \A j \in 0 .. Len(Edits), sure \in BOOLEAN :
         Found(logs, tables', Edits, j, sure) = Found(logs, tables, Edits, j, sure)
  BY <1>2 DEF Found
<1>6. \A j \in Stops(Edits', Synced') :
              /\ TableEntries(tables', DOMAIN version') \subseteq Named(tables', Edits', j)
              /\ \A sure \in BOOLEAN : \A e \in Frozen' :
                    Owed(e, sure) => e \in Found(logs', tables', Edits', j, sure)
              /\ j # 0 => \A e \in Named(tables', Edits', j) : e.seq <= Edits'[j].last
  BY <1>1, <1>2, <1>3, <1>5, UpStops
<1>7. Shown' = Shown BY <1>1, <1>3 DEF Shown
<1> QED BY <1>1, <1>3, <1>4, <1>6, <1>7, BackgroundStore

\* LogAndApply appends the record of a new version.
LEMMA EditStore ==
    ASSUME FilesInv, FilesInv', StoreInv, pc = "up", pc' = "up",
           UNCHANGED <<writers, group, phase, kind, mem, last, logfile,
                       logs, current, manifestNo, version, logNumber, imm>>,
           NEW k,
           SameBut(tables, tables', k),
           k \notin DOMAIN version, \A i \in 1 .. Len(Edits) : k \notin DOMAIN Edits[i].add,
           k \in DOMAIN tables' => tables'[k].entries \subseteq OnDisk \cup Frozen,
           NEW e \in EditType, manifests' = LogEdit(e), e.last = last,
           NEW now, now = TableEntries(tables', DOMAIN e.add
                                                  \cup (DOMAIN FilesAfter(Edits)[Len(Edits)] \ e.del)),
           Named(tables, Edits, Len(Edits)) \subseteq now,
           Frozen \subseteq now \/ e.log = logNumber
    PROVE  StoreInv' /\ Shown' = Shown
<1>1. /\ Frozen' = Frozen /\ Synced' = Synced /\ Edits' = Append(Edits, e)
      /\ Edits \in Seq(EditType) /\ Len(Edits) \in Nat /\ logfile \in DOMAIN logs
      /\ Synced \in 0 .. Len(Edits)
  BY UpIs, EditLogged DEF Frozen
<1> DEFINE m == Len(Edits)
           F == Edits'
<1>2. /\ Len(F) = m + 1 /\ F[m + 1] = e /\ m \in Nat
      /\ \A i \in 1 .. m : F[i] = Edits[i]
      /\ \A j \in 0 .. m : FilesAfter(F)[j] = FilesAfter(Edits)[j]
      /\ DOMAIN FilesAfter(F)[m + 1] = DOMAIN e.add \cup (DOMAIN FilesAfter(Edits)[m] \ e.del)
  BY <1>1, FilesAfterAppend
<1>3. \A j \in 0 .. m : Named(tables', Edits, j) = Named(tables, Edits, j)
  BY <1>1, NotNamed
<1>4. /\ \A j \in 0 .. m : Named(tables', F, j) = Named(tables, Edits, j)
      /\ Named(tables', F, m + 1) = now
  BY <1>2, <1>3 DEF Named
<1>5. TableEntries(tables', DOMAIN version) = TableEntries(tables, DOMAIN version)
  BY OneTable
<1>6. OnDisk' \subseteq OnDisk \cup Frozen BY OneTable DEF OnDisk
<1>7. /\ \A j \in 0 .. m : LogAt(F, j) = LogAt(Edits, j)
      /\ LogAt(F, m + 1) = e.log
  <2>1. \A j \in 0 .. m : j = 0 \/ j \in 1 .. m BY <1>2
  <2>2. m + 1 # 0 BY <1>2
  <2> QED BY <1>2, <2>1, <2>2 DEF LogAt
<1>8. \A j \in 0 .. m, sure \in BOOLEAN :
         Found(logs, tables', F, j, sure) = Found(logs, tables, Edits, j, sure)
  BY <1>4, <1>7 DEF Found
<1>9. /\ m \in Stops(Edits, Synced)
      /\ \A j \in Stops(F, Synced) : (j \in Stops(Edits, Synced) /\ j \in 0 .. m) \/ j = m + 1
  BY <1>1, <1>2 DEF Stops
<1> HIDE DEF m, F
<1>10. ASSUME NEW j \in Stops(F, Synced)
       PROVE  /\ TableEntries(tables, DOMAIN version) \subseteq Named(tables', F, j)
              /\ \A sure \in BOOLEAN : \A f \in Frozen :
                    Owed(f, sure) => f \in Found(logs, tables', F, j, sure)
              /\ j # 0 => \A f \in Named(tables', F, j) : f.seq <= F[j].last
  <2>1. CASE j \in Stops(Edits, Synced) /\ j \in 0 .. m
    <3>1. j # 0 => F[j] = Edits[j] BY <1>2, <2>1
    <3> QED BY <1>4, <1>8, <2>1, <3>1, UpStops
  <2>2. CASE j = m + 1
    <3>1. TableEntries(tables, DOMAIN version) \subseteq now
      BY <1>9, UpStops DEF m
    <3>2. ASSUME NEW sure \in BOOLEAN, NEW f \in Frozen, Owed(f, sure)
          PROVE  f \in Found(logs, tables', F, j, sure)
      <4>1. CASE Frozen \subseteq now BY <1>4, <2>2, <4>1, InFound
      <4>2. CASE e.log = logNumber
        <5>1. f \in LogsFrom(logs, logNumber, sure)
          BY <3>2, UpHas DEF UpStore
        <5> QED BY <1>7, <2>2, <4>2, <5>1 DEF Found
      <4> QED BY <4>1, <4>2
    <3>3. ASSUME NEW f \in now PROVE f.seq <= last
      <4>1. f \in OnDisk \cup Frozen
        <5>1. f \in OnDisk' BY InTables DEF OnDisk
        <5> QED BY <1>6, <5>1
      <4> QED BY <4>1, UpHas DEF UpStore, Settled
    <3> QED BY <1>2, <1>4, <2>2, <3>1, <3>2, <3>3
  <2> QED BY <1>9, <2>1, <2>2
<1>11. \A j \in Stops(Edits', Synced') :
              /\ TableEntries(tables', DOMAIN version') \subseteq Named(tables', Edits', j)
              /\ \A sure \in BOOLEAN : \A f \in Frozen' :
                    Owed(f, sure) => f \in Found(logs', tables', Edits', j, sure)
              /\ j # 0 => \A f \in Named(tables', Edits', j) : f.seq <= Edits'[j].last
  BY <1>1, <1>5, <1>10 DEF F
<1>12. Shown' = Shown BY <1>1, <1>5 DEF Shown
<1> QED BY <1>1, <1>5, <1>6, <1>11, <1>12, BackgroundStore

\* LogAndApply returns: the version is installed, and what is obsolete is deleted.
LEMMA InstallStore ==
    ASSUME ControlInv, FilesInv, FilesInv', StoreInv, pc = "up", pc' = "up", InFlight,
           UNCHANGED <<writers, group, phase, kind, mem, last, logfile, current, manifestNo, bgError>>,
           version' = ApplyEdit(version, LastEdit), NEW p, NEW h,
           \/ manifests' = SyncedManifests /\ UNCHANGED <<logs, tables>>
           \/ DeleteObsoleteFiles(logs, tables, SyncedManifests, version', LastEdit.log, p, h),
           Frozen' \subseteq Frozen,
           Frozen \subseteq Frozen' \cup TableEntries(tables, DOMAIN version'),
           \A n \in LastEdit.del \cap DOMAIN version \cap DOMAIN tables :
              tables[n].entries \subseteq TableEntries(tables, DOMAIN version'),
           \A n \in DOMAIN LastEdit.add \cap DOMAIN tables :
              tables[n].entries \subseteq Frozen \cup TableEntries(tables, DOMAIN version),
           Frozen' # {} => LastEdit.log = logNumber /\ logNumber' = logNumber
    PROVE  StoreInv' /\ Shown' = Shown
<1> DEFINE m == Len(Edits)
<1>1. /\ Edits \in Seq(EditType) /\ m \in Nat /\ m \in 1 .. m /\ LastEdit = Edits[m]
      /\ Synced \in 0 .. m /\ logfile \in DOMAIN logs /\ version \in Files(Nat)
      /\ LastEdit.log <= logfile /\ LastEdit.log \in Nat /\ LastEdit.add \in Files(Nat)
      /\ logfile \in Nat
  BY UpIs, EditsAre
<1>2. /\ Edits' = Edits /\ Synced' = m
      /\ DOMAIN logs' \subseteq DOMAIN logs /\ \A n \in DOMAIN logs' : logs'[n] = logs[n]
      /\ \A n \in DOMAIN logs : LastEdit.log <= n => n \in DOMAIN logs'
      /\ DOMAIN tables' \subseteq DOMAIN tables /\ \A n \in DOMAIN tables' : tables'[n] = tables[n]
      /\ \A n \in DOMAIN tables : n \in DOMAIN version' => n \in DOMAIN tables'
      /\ bgError => tables' = tables
  <2>1. CASE manifests' = SyncedManifests /\ UNCHANGED <<logs, tables>>
    <3>1. Edits' = Edits /\ Synced' = m BY <1>1, <2>1, EditInstalled
    <3> QED BY <2>1, <3>1
  <2>2. CASE DeleteObsoleteFiles(logs, tables, SyncedManifests, version', LastEdit.log, p, h)
    <3> DEFINE v == version'
               l == LastEdit.log
    <3>1. l \in Nat /\ DeleteObsoleteFiles(logs, tables, SyncedManifests, v, l, p, h)
      BY <1>1, <2>2
    <3> HIDE DEF v, l
    <3>2. /\ Edits' = Edits /\ Synced' = m
          /\ DOMAIN logs' \subseteq DOMAIN logs /\ \A n \in DOMAIN logs' : logs'[n] = logs[n]
          /\ \A n \in DOMAIN logs : l <= n => n \in DOMAIN logs'
          /\ DOMAIN tables' \subseteq DOMAIN tables /\ \A n \in DOMAIN tables' : tables'[n] = tables[n]
          /\ \A n \in DOMAIN tables : n \in LiveTables(v, p, h) => n \in DOMAIN tables'
          /\ bgError => tables' = tables
      BY <3>1, EditInstalled
    <3>3. DOMAIN v \subseteq LiveTables(v, p, h) BY DEF LiveTables
    <3> QED BY <3>2, <3>3 DEF v, l
  <2> QED BY <2>1, <2>2
<1>3. DOMAIN version' = DOMAIN LastEdit.add \cup (DOMAIN version \ LastEdit.del)
  BY <1>1 DEF ApplyEdit, Over, Without
<1>4. DOMAIN FilesAfter(Edits)[m] = DOMAIN LastEdit.add \cup (DOMAIN FilesAfter(Edits)[m - 1] \ LastEdit.del)
  <2>1. m - 1 \in 0 .. m /\ m \in 0 .. m /\ m # 0 BY <1>1
  <2>2. FilesAfter(Edits)[m] = ApplyEdit(FilesAfter(Edits)[m - 1], Edits[m])
    BY <1>1, <2>1, FilesAfterDef
  <2> QED BY <1>1, <2>2 DEF ApplyEdit, Over, Without
<1>5. m \in Stops(Edits, Synced) /\ m # 0 BY <1>1 DEF Stops
<1>6. TableEntries(tables', DOMAIN version') = TableEntries(tables, DOMAIN version')
  <2>1. \A e : e \in TableEntries(tables', DOMAIN version') <=> e \in TableEntries(tables, DOMAIN version')
    BY <1>2, InTables
  <2>2. \A A, B : (\A e : e \in A <=> e \in B) => A = B OBVIOUS
  <2> QED BY <2>1, <2>2
<1>7. TableEntries(tables, DOMAIN version) \subseteq TableEntries(tables, DOMAIN version')
  <2> SUFFICES ASSUME NEW e \in TableEntries(tables, DOMAIN version)
               PROVE  e \in TableEntries(tables, DOMAIN version')
    OBVIOUS
  <2>1. PICK n \in DOMAIN version \cap DOMAIN tables : e \in tables[n].entries
    BY InTables
  <2>2. CASE n \in LastEdit.del BY <2>1, <2>2
  <2>3. CASE n \notin LastEdit.del
    <3>1. n \in DOMAIN version' \cap DOMAIN tables BY <1>3, <2>1, <2>3
    <3> QED BY <2>1, <3>1, InTables
  <2> QED BY <2>2, <2>3
<1>8. OnDisk' \subseteq OnDisk /\ Named(tables', Edits, m) \subseteq Named(tables, Edits, m)
  BY <1>2, InTables DEF OnDisk, Named
<1>9. TableEntries(tables', DOMAIN version') \subseteq Named(tables', Edits, m)
  <2>1. CASE ~bgError
    <3>1. DOMAIN FilesAfter(Edits)[m] = DOMAIN version'
      BY <2>1 DEF FilesInv, Running
    <3> QED BY <3>1 DEF Named
  <2>2. CASE bgError
    <3> SUFFICES ASSUME NEW e \in TableEntries(tables, DOMAIN version')
                 PROVE  e \in Named(tables, Edits, m)
      BY <1>2, <2>2
    <3>1. PICK n \in DOMAIN version' \cap DOMAIN tables : e \in tables[n].entries
      BY InTables
    <3>2. CASE n \in DOMAIN LastEdit.add
      <4>1. n \in DOMAIN FilesAfter(Edits)[m] BY <1>4, <3>2
      <4> QED BY <3>1, <4>1, InTables DEF Named
    <3>3. CASE n \in DOMAIN version
      <4>1. e \in TableEntries(tables, DOMAIN version)
        BY <3>1, <3>3, InTables
      <4> QED BY <1>5, <4>1, UpStops
    <3> QED BY <1>3, <3>1, <3>2, <3>3
  <2> QED BY <2>1, <2>2
<1>10. Frozen' # {} => /\ logNumber' = logNumber
                       /\ \A n \in DOMAIN logs : n >= logNumber => n \in DOMAIN logs'
  BY <1>1, <1>2
<1>11. Stops(Edits', Synced') = {m} BY <1>1, <1>2 DEF Stops
<1>12. ASSUME NEW sure \in BOOLEAN, NEW e \in Frozen', Owed(e, sure)
       PROVE  e \in Found(logs', tables', Edits, m, sure)
  <2>1. e \in LogsFrom(logs, logNumber, sure)
    BY <1>12, UpHas DEF UpStore
  <2>2. LogAt(Edits, m) = logNumber /\ Frozen' # {}
    BY <1>1, <1>5, <1>12 DEF LogAt
  <2>3. PICK n \in DOMAIN logs : n >= logNumber /\ e \in LogPart(logs[n], sure)
    BY <2>1, InNewerLogs
  <2>4. n \in DOMAIN logs' /\ logs'[n] = logs[n]
    BY <1>2, <1>10, <2>2, <2>3
  <2> QED BY <2>2, <2>3, <2>4, InFound
<1>13. \A j \in Stops(Edits', Synced') :
          /\ TableEntries(tables', DOMAIN version') \subseteq Named(tables', Edits', j)
          /\ \A sure \in BOOLEAN : \A e \in Frozen' :
                Owed(e, sure) => e \in Found(logs', tables', Edits', j, sure)
          /\ j # 0 => \A e \in Named(tables', Edits', j) : e.seq <= Edits'[j].last
  <2>1. \A e \in Named(tables', Edits, m) : e.seq <= Edits[m].last
    BY <1>5, <1>8, UpStops
  <2> HIDE DEF m
  <2> QED BY <1>2, <1>9, <1>11, <1>12, <2>1
<1>14. logfile \in DOMAIN logs' BY <1>1, <1>2
<1>15. Frozen \cup TableEntries(tables, DOMAIN version)
          \subseteq Frozen' \cup TableEntries(tables', DOMAIN version')
  BY <1>6, <1>7
<1>16. TableEntries(tables, DOMAIN version') \subseteq Frozen \cup TableEntries(tables, DOMAIN version)
  <2> SUFFICES ASSUME NEW e \in TableEntries(tables, DOMAIN version')
               PROVE  e \in Frozen \cup TableEntries(tables, DOMAIN version)
    OBVIOUS
  <2>1. PICK n \in DOMAIN version' \cap DOMAIN tables : e \in tables[n].entries
    BY InTables
  <2>2. CASE n \in DOMAIN LastEdit.add BY <2>1, <2>2
  <2>3. CASE n \in DOMAIN version BY <2>1, <2>3, InTables
  <2> QED BY <1>3, <2>1, <2>2, <2>3
<1>17. Shown' = Shown
  <2>1. Frozen' \cup TableEntries(tables', DOMAIN version') = Frozen \cup TableEntries(tables, DOMAIN version)
    BY <1>6, <1>15, <1>16
  <2> QED BY <2>1 DEF Shown
<1> QED BY <1>2, <1>8, <1>10, <1>13, <1>14, <1>15, <1>17, BackgroundStore

\* LogAndApply fails: its record is there or not.
LEMMA BrokenStore ==
    ASSUME FilesInv, FilesInv', ~MayTear, StoreInv, pc = "up", pc' = "up", InFlight,
           UNCHANGED <<writers, group, phase, kind, mem, last, logfile,
                       logs, tables, current, manifestNo, version, logNumber, imm>>,
           manifests' \in BrokenManifests
    PROVE  StoreInv' /\ Shown' = Shown
<1>1. /\ Edits' \in Seq(EditType) /\ Synced' = Synced
      /\ Len(Edits') \in {Len(Edits), Len(Edits) - 1}
      /\ \A i \in 1 .. Len(Edits') : Edits'[i] = Edits[i]
  BY EditBroken
<1>2. /\ Len(Edits') \in Nat /\ Len(Edits) \in Nat /\ Edits \in Seq(EditType)
      /\ logfile \in DOMAIN logs /\ Frozen' = Frozen /\ OnDisk' = OnDisk
  BY <1>1, UpIs, EditsAre DEF Frozen, OnDisk
<1>3. Len(Edits') <= Len(Edits) BY <1>1, <1>2
<1> DEFINE F == Edits'
           k == Len(F)
<1>4. \A j \in 0 .. k : FilesAfter(F)[j] = FilesAfter(Edits)[j]
  BY <1>1, <1>2, <1>3, FilesAfterPrefix
<1>5. ASSUME NEW j \in Stops(F, Synced)
      PROVE  /\ j \in Stops(Edits, Synced) /\ (j # 0 => F[j] = Edits[j])
             /\ LogAt(F, j) = LogAt(Edits, j)
             /\ Named(tables, F, j) = Named(tables, Edits, j)
  <2>1. j \in 0 .. k /\ j \in Stops(Edits, Synced) /\ (j # 0 => j \in 1 .. k)
    BY <1>2, <1>3 DEF Stops
  <2> QED BY <1>1, <1>4, <2>1 DEF LogAt, Named
<1>6. \A j \in Stops(Edits', Synced') :
          /\ TableEntries(tables', DOMAIN version') \subseteq Named(tables', Edits', j)
          /\ \A sure \in BOOLEAN : \A e \in Frozen' :
                Owed(e, sure) => e \in Found(logs', tables', Edits', j, sure)
          /\ j # 0 => \A e \in Named(tables', Edits', j) : e.seq <= Edits'[j].last
  BY <1>1, <1>2, <1>5, UpStops DEF Found
<1>7. Shown' = Shown BY <1>2 DEF Shown
<1> QED BY <1>2, <1>6, <1>7, BackgroundStore

\* CompactMemTable.
LEMMA FlushStore ==
    ASSUME ControlInv, FilesInv, FilesInv', JobInv, ~MayTear, StoreInv,
           StartFlush \/ FlushBuilt \/ FlushInstalled \/ FlushFailed
    PROVE  StoreInv' /\ Shown' = Shown
<1>1. CASE StartFlush
  <2>1. /\ pc = "up" /\ pc' = "up"
        /\ UNCHANGED <<writers, group, phase, kind, mem, last, logfile,
                       logs, manifests, current, version, logNumber, imm>>
        /\ tables' = IF imm = <<{}>> THEN tables
                     ELSE Put(tables, next, [done |-> FALSE, entries |-> {}])
    BY <1>1 DEF StartFlush, queue, memory
  <2>2. /\ next \notin DOMAIN version /\ next \notin DOMAIN tables
        /\ \A i \in 1 .. Len(Edits) : next \notin DOMAIN Edits[i].add
    BY <2>1, JobsAre
  <2>3. SameBut(tables, tables', next)
    BY <2>1 DEF SameBut, Put, Over, Single
  <2>4. next \in DOMAIN tables' => tables'[next].entries = {}
    BY <2>1, <2>2 DEF Put, Over, Single
  <2> QED BY <2>1, <2>2, <2>3, <2>4, TablesStore
<1>2. CASE FlushBuilt
  <2>0. flush.phase = "build" /\ pc = "up"
    <3>1. flush.phase = "build" BY <1>2 DEF FlushBuilt
    <3> QED BY <3>1, NoJobs DEF ControlInv, QuietUnlessUp
  <2>1. imm # NoMem /\ imm = <<imm[1]>> /\ Frozen = imm[1] /\ imm[1] \in EntrySets
    BY <2>0, JobsAre
  <2>2. /\ next \in Nat /\ last \in Nat /\ logfile \in Nat /\ flush.num \in Nat
        /\ Edits \in Seq(EditType) /\ Len(Edits) \in Nat
    BY <2>0, UpIs
  <2> DEFINE add(level) == IF imm = <<{}>> THEN Empty ELSE Single(flush.num, level)
  <2>3. PICK level \in {0, 1} : manifests' = LogEdit(Edit(add(level), {}, logfile, next, last))
    BY <1>2 DEF FlushBuilt
  <2>4. /\ UNCHANGED <<writers, group, phase, kind, mem, last, logfile,
                       logs, current, manifestNo, version, logNumber, imm, pc>>
        /\ tables' = IF imm = <<{}>> THEN tables
                     ELSE Put(tables, flush.num, [done |-> TRUE, entries |-> imm[1]])
    BY <1>2 DEF FlushBuilt, vset, memory, queue
  <2>5. add(level) \in Files(Nat) /\ DOMAIN add(level) = (IF imm = <<{}>> THEN {} ELSE {flush.num})
    BY <2>2, EmptyFiles, SingleFile
  <2> HIDE DEF add
  <2> DEFINE e == Edit(add(level), {}, logfile, next, last)
  <2>6. e \in EditType /\ e.add = add(level) /\ e.del = {} /\ e.last = last
    BY <2>2, <2>5, EditIs DEF Edit
  <2>7. manifests' = LogEdit(e) BY <2>3
  <2> HIDE DEF e
  <2> DEFINE k == flush.num
             D == DOMAIN FilesAfter(Edits)[Len(Edits)]
             now == TableEntries(tables', DOMAIN e.add \cup (D \ e.del))
  <2>8. k \notin DOMAIN version /\ \A i \in 1 .. Len(Edits) : k \notin DOMAIN Edits[i].add
    BY <2>0 DEF FilesInv, Running
  <2>9. SameBut(tables, tables', k)
    BY <2>4 DEF SameBut, Put, Over, Single
  <2>10. k \in DOMAIN tables' => tables'[k].entries \subseteq OnDisk \cup Frozen
    <3>1. CASE imm = <<{}>> BY <2>4, <3>1, InTables DEF OnDisk
    <3>2. CASE imm # <<{}>> BY <2>1, <2>4, <3>2 DEF Put, Over, Single
    <3> QED BY <3>1, <3>2
  <2>11. Frozen \subseteq now
    <3>1. CASE imm = <<{}>> BY <2>1, <3>1
    <3>2. CASE imm # <<{}>>
      <4>1. k \in DOMAIN tables' /\ tables'[k].entries = Frozen
        BY <2>1, <2>4, <3>2 DEF Put, Over, Single
      <4>2. k \in DOMAIN e.add BY <2>5, <2>6, <3>2
      <4> QED BY <4>1, <4>2, InTables
    <3> QED BY <3>1, <3>2
  <2>12. Named(tables, Edits, Len(Edits)) \subseteq now
    <3>1. Named(tables', Edits, Len(Edits)) = Named(tables, Edits, Len(Edits))
      <4>1. Len(Edits) \in 0 .. Len(Edits) BY <2>2
      <4> QED BY <2>2, <2>8, <2>9, <4>1, NotNamed
    <3>2. Named(tables', Edits, Len(Edits)) \subseteq now
      BY <2>6, InTables DEF Named
    <3> QED BY <3>1, <3>2
  <2> HIDE DEF k, now
  <2>13. now = TableEntries(tables', DOMAIN e.add \cup (DOMAIN FilesAfter(Edits)[Len(Edits)] \ e.del))
    BY DEF now
  <2>14. pc' = "up" BY <2>0, <2>4
  <2> QED BY <2>0, <2>4, <2>6, <2>7, <2>8, <2>9, <2>10, <2>11, <2>12, <2>13, <2>14, EditStore
<1>3. CASE FlushInstalled
  <2>0. flush.phase = "log" /\ pc = "up" /\ InFlight
    <3>1. flush.phase = "log" BY <1>3 DEF FlushInstalled
    <3> QED BY <3>1, NoJobs DEF ControlInv, QuietUnlessUp, InFlight
  <2>1. FlushLogged BY <2>0 DEF JobInv
  <2>2. /\ version' = ApplyEdit(version, LastEdit) /\ logNumber' = LastEdit.log /\ imm' = NoMem
        /\ UNCHANGED <<writers, group, phase, kind, mem, last, logfile, current, manifestNo, bgError, pc>>
        /\ DeleteObsoleteFiles(logs, tables, SyncedManifests, version', LastEdit.log, pending,
                               compact.held)
    BY <1>3 DEF FlushInstalled, FlushEnds, BackgroundDone, SignalAll
  <2>3. Frozen' = {} BY <2>2 DEF Frozen
  <2>4. Frozen \subseteq TableEntries(tables, DOMAIN version')
    <3> SUFFICES ASSUME Frozen # {} PROVE Frozen \subseteq TableEntries(tables, DOMAIN version')
      OBVIOUS
    <3>1. flush.num \in DOMAIN LastEdit.add /\ flush.num \in DOMAIN tables
          /\ tables[flush.num].entries = Frozen
      BY <2>1 DEF FlushLogged, Single
    <3>2. flush.num \in DOMAIN version'
      BY <2>2, <3>1 DEF ApplyEdit, Over
    <3> QED BY <3>1, <3>2, InTables
  <2>5. LastEdit.del = {} BY <2>1 DEF FlushLogged
  <2>6. \A n \in DOMAIN LastEdit.add \cap DOMAIN tables :
           tables[n].entries \subseteq Frozen \cup TableEntries(tables, DOMAIN version)
    BY <2>1, EmptyFiles DEF FlushLogged, Single
  <2> QED BY <2>0, <2>2, <2>3, <2>4, <2>5, <2>6, InstallStore
<1>4. CASE FlushFailed
  <2>0. flush.phase \in {"build", "log"} /\ pc = "up"
    <3>1. flush.phase \in {"build", "log"} BY <1>4 DEF FlushFailed
    <3> QED BY <3>1, NoJobs DEF ControlInv, QuietUnlessUp
  <2>1. /\ UNCHANGED <<writers, group, phase, kind, mem, last, logfile, manifestNo,
                       logs, current, version, logNumber, imm>>
        /\ pc' = "up"
    BY <1>4, <2>0 DEF FlushFailed, FlushEnds, BackgroundDone, SignalAll, vset, memory
  <2>2. CASE flush.phase = "build"
    <3>1. imm # NoMem /\ Frozen = imm[1] BY <2>0, <2>2, JobsAre
    <3>2. /\ manifests' = manifests
          /\ \/ tables' = tables
             \/ tables' = Put(tables, flush.num, [done |-> TRUE, entries |-> imm[1]])
             \/ tables' = Without(tables, {flush.num})
      BY <1>4, <2>2 DEF FlushFailed
    <3>3. /\ flush.num \notin DOMAIN version
          /\ \A i \in 1 .. Len(Edits) : flush.num \notin DOMAIN Edits[i].add
      BY <2>0, <2>2 DEF FilesInv, Running
    <3>4. SameBut(tables, tables', flush.num)
      BY <3>2 DEF SameBut, Put, Over, Single, Without
    <3>5. flush.num \in DOMAIN tables' => tables'[flush.num].entries \subseteq OnDisk \cup Frozen
      <4>1. CASE tables' = tables BY <4>1, InTables DEF OnDisk
      <4>2. CASE tables' = Put(tables, flush.num, [done |-> TRUE, entries |-> imm[1]])
        BY <3>1, <4>2 DEF Put, Over, Single
      <4>3. CASE tables' = Without(tables, {flush.num})
        BY <4>3 DEF Without
      <4> QED BY <3>2, <4>1, <4>2, <4>3
    <3> QED BY <2>0, <2>1, <3>2, <3>3, <3>4, <3>5, TablesStore
  <2>3. CASE flush.phase = "log"
    <3>1. InFlight /\ tables' = tables /\ manifests' \in BrokenManifests
      BY <1>4, <2>3 DEF FlushFailed, InFlight
    <3> QED BY <2>0, <2>1, <3>1, BrokenStore
  <2> QED BY <2>0, <2>2, <2>3
<1> QED BY <1>1, <1>2, <1>3, <1>4

\* A trivial move and DoCompactionWork.
LEMMA CompactionStore ==
    ASSUME ControlInv, FilesInv, FilesInv', JobInv, ~MayTear, StoreInv,
           StartMove \/ StartCompaction \/ CompactionBuilt \/ CompactionInstalled \/ CompactionFailed
    PROVE  StoreInv' /\ Shown' = Shown
<1>1. CASE StartMove
  <2>0. /\ pc = "up" /\ pc' = "up"
        /\ UNCHANGED <<writers, group, phase, kind, mem, last, logfile, tables,
                       logs, current, manifestNo, version, logNumber, imm>>
    BY <1>1 DEF StartMove, MayCompact, vset, memory, queue
  <2>1. PICK n \in Level0(version) :
           manifests' = LogEdit(Edit(Single(n, 1), {n}, logNumber, next, last))
    BY <1>1 DEF StartMove
  <2>2. /\ next \in Nat /\ last \in Nat /\ logNumber \in Nat /\ n \in Nat
        /\ Edits \in Seq(EditType) /\ Len(Edits) \in Nat
    BY <2>0, UpIs DEF Level0
  <2>3. Single(n, 1) \in Files(Nat) /\ DOMAIN Single(n, 1) = {n}
    BY <2>2, SingleFile
  <2> DEFINE add == Single(n, 1)
             I == {n}
  <2>4. add \in Files(Nat) /\ DOMAIN add = I /\ I \in SUBSET Nat
    BY <2>2, <2>3
  <2>5. manifests' = LogEdit(Edit(add, I, logNumber, next, last))
    BY <2>1
  <2> HIDE DEF add, I
  <2> DEFINE e == Edit(add, I, logNumber, next, last)
  <2>6. e \in EditType /\ e.add = add /\ e.del = I /\ e.last = last /\ e.log = logNumber
    BY <2>2, <2>4, EditIs DEF Edit
  <2>7. manifests' = LogEdit(e) BY <2>5
  <2> HIDE DEF e
  <2> DEFINE k == next
             D == DOMAIN FilesAfter(Edits)[Len(Edits)]
             now == TableEntries(tables', DOMAIN e.add \cup (D \ e.del))
  <2>8. /\ k \notin DOMAIN version /\ k \notin DOMAIN tables
        /\ \A i \in 1 .. Len(Edits) : k \notin DOMAIN Edits[i].add
    BY <2>0, JobsAre
  <2>9. SameBut(tables, tables', k) /\ k \notin DOMAIN tables'
    BY <2>0, <2>8 DEF SameBut
  <2>10. Named(tables, Edits, Len(Edits)) \subseteq now
    BY <2>0, <2>4, <2>6, InTables DEF Named
  <2> HIDE DEF k, now
  <2>11. now = TableEntries(tables', DOMAIN e.add \cup (DOMAIN FilesAfter(Edits)[Len(Edits)] \ e.del))
    BY DEF now
  <2> QED BY <2>0, <2>6, <2>7, <2>8, <2>9, <2>10, <2>11, EditStore
<1>2. CASE StartCompaction
  <2>1. /\ pc = "up" /\ pc' = "up"
        /\ UNCHANGED <<writers, group, phase, kind, mem, last, logfile,
                       logs, manifests, current, version, logNumber, imm>>
        /\ tables' = Put(tables, next, [done |-> FALSE, entries |-> {}])
    BY <1>2 DEF StartCompaction, MayCompact, queue, memory
  <2>2. /\ next \notin DOMAIN version /\ next \notin DOMAIN tables
        /\ \A i \in 1 .. Len(Edits) : next \notin DOMAIN Edits[i].add
    BY <2>1, JobsAre
  <2>3. SameBut(tables, tables', next)
    BY <2>1 DEF SameBut, Put, Over, Single
  <2>4. next \in DOMAIN tables' => tables'[next].entries = {}
    BY <2>1 DEF Put, Over, Single
  <2> QED BY <2>1, <2>2, <2>3, <2>4, TablesStore
<1>3. CASE CompactionBuilt
  <2>0. compact.phase = "merge" /\ pc = "up"
    <3>1. compact.phase = "merge" BY <1>3 DEF CompactionBuilt
    <3> QED BY <3>1, NoJobs DEF ControlInv, QuietUnlessUp
  <2>1. /\ compact.num \in DOMAIN tables /\ compact.num \notin DOMAIN version
        /\ \A i \in 1 .. Len(Edits) : compact.num \notin DOMAIN Edits[i].add
    BY <2>0, JobsAre DEF JobInv
  <2>2. /\ next \in Nat /\ last \in Nat /\ logNumber \in Nat /\ compact.num \in Nat
        /\ compact.inputs \in SUBSET Nat
        /\ Edits \in Seq(EditType) /\ Len(Edits) \in Nat
    BY <2>0, UpIs DEF FilesInv, FileTypes
  <2>3. /\ UNCHANGED <<writers, group, phase, kind, mem, last, logfile,
                       logs, current, manifestNo, version, logNumber, imm, pc>>
        /\ tables' = [tables EXCEPT ![compact.num] =
                     [done |-> TRUE, entries |-> TableEntries(tables, compact.inputs)]]
        /\ manifests' = LogEdit(Edit(Single(compact.num, 1), compact.inputs, logNumber, next, last))
    BY <1>3 DEF CompactionBuilt, vset, memory, queue
  <2>4. Single(compact.num, 1) \in Files(Nat) /\ DOMAIN Single(compact.num, 1) = {compact.num}
    BY <2>2, SingleFile
  <2> DEFINE add == Single(compact.num, 1)
             I == compact.inputs
  <2>5. add \in Files(Nat) /\ DOMAIN add = {compact.num} /\ I \in SUBSET Nat
    BY <2>2, <2>4
  <2>6. manifests' = LogEdit(Edit(add, I, logNumber, next, last))
    BY <2>3
  <2> HIDE DEF add, I
  <2> DEFINE e == Edit(add, I, logNumber, next, last)
  <2>7. e \in EditType /\ e.add = add /\ e.del = I /\ e.last = last /\ e.log = logNumber
    BY <2>2, <2>5, EditIs DEF Edit
  <2>8. manifests' = LogEdit(e) BY <2>6
  <2> HIDE DEF e
  <2> DEFINE k == compact.num
             D == DOMAIN FilesAfter(Edits)[Len(Edits)]
             now == TableEntries(tables', DOMAIN e.add \cup (D \ e.del))
  <2>9. /\ k \in DOMAIN tables' /\ tables'[k].entries = TableEntries(tables, I)
        /\ SameBut(tables, tables', k)
    BY <2>1, <2>3 DEF SameBut, I
  <2>10. tables'[k].entries \subseteq OnDisk
    BY <2>9, InTables DEF OnDisk
  <2>11. Named(tables, Edits, Len(Edits)) \subseteq now
    <3>1. k \notin D
      <4>1. Len(Edits) \in 0 .. Len(Edits) BY <2>2
      <4> QED BY <2>1, <2>2, <2>9, <4>1, NotNamed
    <3> SUFFICES ASSUME NEW f \in TableEntries(tables, D) PROVE f \in now
      BY DEF Named
    <3>2. PICK n \in D \cap DOMAIN tables : f \in tables[n].entries
      BY InTables
    <3>3. CASE n \in I
      <4>1. f \in tables'[k].entries BY <2>9, <3>2, <3>3, InTables
      <4>2. k \in DOMAIN e.add BY <2>5, <2>7
      <4> QED BY <2>9, <4>1, <4>2, InTables
    <3>4. CASE n \notin I
      <4>1. n \in DOMAIN tables' /\ tables'[n] = tables[n]
        BY <2>9, <3>1, <3>2 DEF SameBut
      <4>2. n \in D \ e.del BY <2>7, <3>2, <3>4
      <4> QED BY <3>2, <4>1, <4>2, InTables
    <3> QED BY <3>3, <3>4
  <2>12. k \notin DOMAIN version /\ \A i \in 1 .. Len(Edits) : k \notin DOMAIN Edits[i].add
    BY <2>1
  <2> HIDE DEF k, now
  <2>13. now = TableEntries(tables', DOMAIN e.add \cup (DOMAIN FilesAfter(Edits)[Len(Edits)] \ e.del))
    BY DEF now
  <2>14. pc' = "up" BY <2>0, <2>3
  <2> QED BY <2>0, <2>3, <2>7, <2>8, <2>9, <2>10, <2>11, <2>12, <2>13, <2>14, EditStore
<1>4. CASE CompactionInstalled
  <2>0. compact.phase \in {"log", "move"} /\ pc = "up" /\ InFlight
    <3>1. compact.phase \in {"log", "move"}
      BY <1>4 DEF CompactionInstalled
    <3> QED BY <3>1, NoJobs DEF ControlInv, QuietUnlessUp, InFlight
  <2>1. /\ version' = ApplyEdit(version, LastEdit) /\ logNumber' = LastEdit.log
        /\ UNCHANGED <<writers, group, phase, kind, mem, imm, last, logfile, current, manifestNo,
                       bgError, pc>>
        /\ \/ manifests' = SyncedManifests /\ UNCHANGED <<logs, tables>>
           \/ DeleteObsoleteFiles(logs, tables, SyncedManifests, version', LastEdit.log, pending', {})
    BY <1>4 DEF CompactionInstalled, BackgroundDone, SignalAll, memory
  <2>2. LastEdit.log = logNumber /\ Frozen' = Frozen
    BY <2>0, <2>1 DEF JobInv, CompactionLogged, MoveLogged, Frozen
  <2>3. \A n \in LastEdit.del \cap DOMAIN version \cap DOMAIN tables :
           tables[n].entries \subseteq TableEntries(tables, DOMAIN version')
    <3> SUFFICES ASSUME NEW n \in LastEdit.del \cap DOMAIN version \cap DOMAIN tables,
                        NEW f \in tables[n].entries
                 PROVE  f \in TableEntries(tables, DOMAIN version')
      OBVIOUS
    <3>1. DOMAIN LastEdit.add \subseteq DOMAIN version'
      BY <2>1 DEF ApplyEdit, Over
    <3>2. CASE compact.phase = "log"
      <4>1. CompactionLogged BY <2>0, <3>2 DEF JobInv
      <4>2. f \in tables[compact.num].entries /\ compact.num \in DOMAIN tables
        BY <4>1, InTables DEF CompactionLogged
      <4>3. compact.num \in DOMAIN version'
        BY <3>1, <4>1 DEF CompactionLogged, Single
      <4> QED BY <4>2, <4>3, InTables
    <3>3. CASE compact.phase = "move"
      <4>1. n \in DOMAIN LastEdit.add
        BY <2>0, <3>3 DEF JobInv, MoveLogged, Single
      <4> QED BY <3>1, <4>1, InTables
    <3> QED BY <2>0, <3>2, <3>3
  <2>5. ASSUME NEW n \in DOMAIN LastEdit.add \cap DOMAIN tables, NEW f \in tables[n].entries
        PROVE  f \in TableEntries(tables, DOMAIN version)
    <3>1. CASE compact.phase = "log"
      <4>1. CompactionLogged /\ compact.inputs \subseteq DOMAIN version
        BY <2>0, <3>1 DEF JobInv
      <4>2. f \in TableEntries(tables, compact.inputs)
        BY <4>1 DEF CompactionLogged, Single
      <4> QED BY <4>1, <4>2, InTables
    <3>2. CASE compact.phase = "move"
      <4>1. n \in DOMAIN version
        BY <2>0, <3>2 DEF JobInv, MoveLogged, Single
      <4> QED BY <4>1, InTables
    <3> QED BY <2>0, <3>1, <3>2
  <2>6. \A n \in DOMAIN LastEdit.add \cap DOMAIN tables :
           tables[n].entries \subseteq Frozen \cup TableEntries(tables, DOMAIN version)
    BY <2>5
  <2> DEFINE p == pending'
             h == {}
  <2>4. \/ manifests' = SyncedManifests /\ UNCHANGED <<logs, tables>>
        \/ DeleteObsoleteFiles(logs, tables, SyncedManifests, version', LastEdit.log, p, h)
    BY <2>1
  <2> HIDE DEF p, h
  <2> QED BY <2>0, <2>1, <2>2, <2>3, <2>4, <2>6, InstallStore
<1>5. CASE CompactionFailed
  <2>0. compact.phase \in {"merge", "log", "move"} /\ pc = "up"
    <3>1. compact.phase \in {"merge", "log", "move"}
      BY <1>5 DEF CompactionFailed
    <3> QED BY <3>1, NoJobs DEF ControlInv, QuietUnlessUp
  <2>1. /\ UNCHANGED <<writers, group, phase, kind, mem, last, logfile, manifestNo, tables,
                       logs, current, version, logNumber, imm>>
        /\ pc' = "up"
    BY <1>5, <2>0 DEF CompactionFailed, BackgroundDone, SignalAll, vset, memory
  <2>2. CASE manifests' = manifests BY <2>0, <2>1, <2>2, StoreSame
  <2>3. CASE compact.phase \in {"log", "move"} /\ manifests' \in BrokenManifests
    <3>1. InFlight BY <2>3 DEF InFlight
    <3> QED BY <2>0, <2>1, <2>3, <3>1, BrokenStore
  <2> QED BY <1>5, <2>2, <2>3 DEF CompactionFailed
<1> QED BY <1>1, <1>2, <1>3, <1>4, <1>5

\* Every step of the background thread.
LEMMA BackgroundStepStore ==
    ASSUME ControlInv, FilesInv, FilesInv', JobInv, ~MayTear, StoreInv, BackgroundStep
    PROVE  StoreInv' /\ Shown' = Shown
<1>1. CASE BackgroundNothing
  <2>1. /\ pc = "up" /\ pc' = "up"
        /\ UNCHANGED <<logs, tables, manifests, current, mem, imm, version, last, logfile, logNumber,
                       writers, group, phase, kind>>
    BY <1>1 DEF BackgroundNothing, BackgroundDone, SignalAll, disk, vset, memory
  <2> QED BY <2>1, StoreSame
<1> QED BY <1>1, FlushStore, CompactionStore DEF BackgroundStep

-----------------------------------------------------------------------------
(* The process ends.                                                       *)

\* Whatever is found was written by a call that waits or has its answer.
LEMMA FoundCalls ==
    ASSUME ControlInv, QueueInv, FilesInv, StoreInv, current # 0, NEW j \in Stops(Edits, Synced)
    PROVE  /\ Unique(Found(logs, tables, Edits, j, FALSE))
           /\ \A e \in Found(logs, tables, Edits, j, FALSE) :
                 /\ e \in Entries
                 /\ phase[e.call] \in Quiet \cup Busy /\ kind[e.call] # "force"
<1>1. logs \in Files(LogType) /\ tables \in Files(TableType) /\ last \in Nat
  BY DEF FilesInv, FileTypes
<1>2. Found(logs, tables, Edits, j, FALSE) \subseteq OnDisk \cup Logged
      /\ OnDisk \cup Logged \subseteq Entries
  BY <1>1, EntriesAre DEF OnDisk, Logged
<1>3. CASE pc = "up"
  <2>1. UpStore BY <1>3 DEF StoreInv
  <2>2. Unique(Found(logs, tables, Edits, j, FALSE))
    BY <1>2, <2>1 DEF UpStore, Unique
  <2>3. \A e \in Found(logs, tables, Edits, j, FALSE) : Settled(e) \/ e \in GroupEntries
    BY <1>2, <2>1 DEF UpStore, InGroup
  <2>4. \A e \in GroupEntries : phase[e.call] \in Busy /\ kind[e.call] # "force"
    BY <1>1, GroupNumbers
  <2> QED BY <1>2, <2>2, <2>3, <2>4 DEF Settled
<1>4. CASE pc # "up"
  <2>1. DownStore BY <1>4 DEF StoreInv
  <2> QED BY <1>2, <2>1 DEF DownStore
<1> QED BY <1>3, <1>4

\* The process is gone: what is on disk is what there is.
LEMMA EndStore ==
    ASSUME ControlInv, QueueInv, FilesInv, StoreInv, current # 0, current' = current,
           pc' = "down", mem' = {}, kind' = kind,
           \A c \in Calls : phase[c] \in Quiet \cup Busy => phase'[c] \in Quiet,
           \A j \in Stops(Edits', Synced') :
              /\ j \in Stops(Edits, Synced) /\ (j # 0 => Edits'[j] = Edits[j])
              /\ Named(tables', Edits', j) = Named(tables, Edits, j)
              /\ Found(logs', tables', Edits', j, FALSE) \subseteq Found(logs, tables, Edits, j, FALSE),
           KeptInv'
    PROVE  StoreInv'
<1>1. LastInv' BY DEF StoreInv, LastInv
<1>2. DownStore'
  <2> SUFFICES ASSUME NEW j \in Stops(Edits', Synced')
               PROVE  /\ Unique(Found(logs', tables', Edits', j, FALSE))
                      /\ \A e \in Found(logs', tables', Edits', j, FALSE) :
                            phase'[e.call] \in Quiet /\ kind'[e.call] # "force"
    BY DEF DownStore, Unique
  <2>1. /\ Unique(Found(logs, tables, Edits, j, FALSE))
        /\ \A e \in Found(logs, tables, Edits, j, FALSE) :
                 /\ e \in Entries
                 /\ phase[e.call] \in Quiet \cup Busy /\ kind[e.call] # "force"
    BY FoundCalls
  <2> QED BY <2>1 DEF Unique, Entries
<1>3. EmptyInv' /\ OpenStore' BY DEF EmptyInv, OpenStore
<1> QED BY <1>1, <1>2, <1>3 DEF StoreInv

\* What recovery would find is there when nothing on disk changes.
LEMMA DiskStays ==
    ASSUME \/ UNCHANGED <<logs, tables, manifests, current>>
           \/ /\ UNCHANGED <<logs, tables, current>> /\ current \in DOMAIN manifests
              /\ current \in DOMAIN manifests' /\ manifests'[current] = manifests[current]
    PROVE  /\ Edits' = Edits /\ Synced' = Synced
           /\ \A j \in Stops(Edits', Synced') :
              /\ j \in Stops(Edits, Synced) /\ (j # 0 => Edits'[j] = Edits[j])
              /\ Named(tables', Edits', j) = Named(tables, Edits, j)
              /\ \A sure : Found(logs', tables', Edits', j, sure) = Found(logs, tables, Edits, j, sure)
<1>1. Edits' = Edits /\ Synced' = Synced /\ logs' = logs /\ tables' = tables
  BY DEF Edits, Synced
<1> QED BY <1>1

\* The database is closed, its process dies, or DB::Open returns an error.
LEMMA ProcessEnds ==
    ASSUME ControlInv, QueueInv, FilesInv, StoreInv, Closed \/ ProcessCrash \/ OpenFails
    PROVE  /\ StoreInv' /\ current # 0 /\ pc' = "down" /\ kind' = kind
           /\ Shown' = Found(logs, tables, Edits, Len(Edits), FALSE)
           /\ \A c \in Calls : phase'[c] = IF phase[c] \in Busy THEN "lost" ELSE phase[c]
<1>1. /\ current' = current /\ pc' = "down" /\ mem' = {} /\ kind' = kind
  BY DEF Closed, ProcessCrash, OpenFails, Forget, disk
<1>2. current # 0
  <2>1. CASE Closed
    <3>1. pc = "up" BY <2>1 DEF Closed, ControlInv, QuietUnlessUp
    <3> QED BY <3>1, UpIs
  <2>2. CASE ProcessCrash BY <2>2 DEF ProcessCrash, StoreInv, EmptyInv
  <2>3. CASE OpenFails BY <2>3 DEF OpenFails, StoreInv, EmptyInv
  <2> QED BY <2>1, <2>2, <2>3
<1>3. \/ UNCHANGED <<logs, tables, manifests, current>>
      \/ /\ UNCHANGED <<logs, tables, current>> /\ current \in DOMAIN manifests
         /\ current \in DOMAIN manifests' /\ manifests'[current] = manifests[current]
  <2>1. CASE Closed \/ ProcessCrash
    BY <2>1 DEF Closed, ProcessCrash, disk
  <2>2. CASE OpenFails
    <3>1. UNCHANGED <<logs, tables, current>> /\ pc \in {"logs", "manifest"}
      BY <2>2 DEF OpenFails
    <3>2. current < manifestNo /\ current \in DOMAIN manifests /\ current \in Nat /\ manifestNo \in Nat
      BY <3>1, OpeningIs DEF FilesInv, Opening
    <3>3. manifests' = manifests \/ manifests' = Without(manifests, {manifestNo})
      BY <2>2 DEF OpenFails
    <3> QED BY <3>1, <3>2, <3>3 DEF Without
  <2> QED BY <2>1, <2>2
<1>4. /\ Edits' = Edits /\ Synced' = Synced
      /\ \A j \in Stops(Edits', Synced') :
              /\ j \in Stops(Edits, Synced) /\ (j # 0 => Edits'[j] = Edits[j])
              /\ Named(tables', Edits', j) = Named(tables, Edits, j)
              /\ \A sure : Found(logs', tables', Edits', j, sure) = Found(logs, tables, Edits, j, sure)
  BY <1>3, DiskStays
<1>5. \A c \in Calls :
         /\ phase'[c] = IF phase[c] \in Busy THEN "lost" ELSE phase[c]
         /\ phase[c] \in Quiet \cup Busy => phase'[c] \in Quiet
         /\ phase'[c] = "ok" => phase[c] = "ok"
  <2>1. CASE ProcessCrash
    <3>1. \A c \in Calls :
                 /\ phase[c] \in {"idle", "error", "lost"} => phase'[c] = phase[c]
                 /\ phase[c] \in Busy => phase'[c] = "lost"
                 /\ phase[c] = "ok" => phase'[c] = "ok"
      BY <2>1, CrashedCalls
    <3>2. \A c \in Calls : phase[c] \in {"idle"} \cup Quiet \cup Busy
      BY DEF ControlInv, ControlTypes, Phases, Quiet, Busy, Working
    <3> QED BY <3>1, <3>2 DEF Quiet, Busy, Working
  <2>2. CASE Closed \/ OpenFails
    <3>1. phase' = phase BY <2>2 DEF Closed, OpenFails
    <3>2. writers = <<>>
      BY <2>2 DEF Closed, OpenFails, ControlInv, QuietUnlessUp, NobodyWhenClosing
    <3> QED BY <3>1, <3>2, NobodyBusy
  <2> QED BY <2>1, <2>2
<1>6. Written' \subseteq Written BY <1>1, <1>5 DEF Written, Answered
<1>7. KeptInv'
  <2> SUFFICES ASSUME NEW j \in Stops(Edits', Synced'), NEW sure \in BOOLEAN, NEW c \in Written',
                      sure => kind'[c] = "sync"
               PROVE  c \in CallsOf(Found(logs', tables', Edits', j, sure))
    BY DEF KeptInv, KeptAt, CallsOf
  <2>1. KeptAt(logs, tables, Edits, j)
    BY <1>2, <1>4 DEF StoreInv, KeptInv
  <2> QED BY <1>1, <1>4, <1>6, <2>1 DEF KeptAt
<1>8. StoreInv' BY <1>1, <1>2, <1>4, <1>5, <1>7, EndStore
<1>9. Shown' = Found(logs, tables, Edits, Len(Edits), FALSE)
  <2>1. Len(Edits') \in Stops(Edits', Synced') BY <1>2, <1>4, StopsAre
  <2> QED BY <1>1, <1>2, <1>4, <2>1 DEF Shown
<1> QED BY <1>1, <1>2, <1>5, <1>8, <1>9

\* The machine crashes: a sync write is in the synced part of a log or in a
\* table, and one that is not was lost is answered so.
LEMMA MachineEnds ==
    ASSUME ControlInv, QueueInv, FilesInv, FilesInv', WholeRecords, ~MayTear, StoreInv,
           MachineCrashes
    PROVE  /\ StoreInv' /\ current # 0 /\ pc' = "down" /\ kind' = kind
           /\ \E k \in Stops(Edits, Synced) : Shown' \subseteq Found(logs, tables, Edits, k, FALSE)
           /\ \A c \in Calls :
                 phase'[c] = IF \/ phase[c] \in Busy
                                \/ /\ phase[c] = "ok" /\ kind[c] = "async"
                                   /\ c \notin CallsOf(Shown')
                             THEN "lost" ELSE phase[c]
<1>1. /\ UNCHANGED <<current, tables, kind>> /\ pc' = "down" /\ mem' = {}
      /\ current # 0
  BY DEF MachineCrashes, Forget, StoreInv, EmptyInv
<1>2. /\ DOMAIN logs' = DOMAIN logs
      /\ \A n \in DOMAIN logs :
            /\ LogPart(logs[n], TRUE) \subseteq LogPart(logs'[n], TRUE)
            /\ LogPart(logs'[n], FALSE) \subseteq LogPart(logs[n], FALSE)
            /\ LogPart(logs'[n], TRUE) \subseteq LogPart(logs'[n], FALSE)
      /\ WholeRecords'
      /\ Len(Edits') \in Stops(Edits, Synced) /\ Synced' = Len(Edits')
      /\ Edits' \in Seq(EditType)
      /\ \A i \in 1 .. Len(Edits') : Edits'[i] = Edits[i]
  BY <1>1, CrashLeaves, InLog
<1> DEFINE F == Edits'
           k == Len(F)
<1>3. k \in Nat /\ k <= Len(Edits) /\ k \in 0 .. k /\ Len(Edits) \in Nat /\ (k # 0 => k \in 1 .. k)
  BY <1>1, <1>2, StopsAre
<1>4. Stops(Edits', Synced') = {k} BY <1>2, <1>3 DEF Stops
<1>5. FilesAfter(F)[k] = FilesAfter(Edits)[k]
  <2>1. \A j \in 0 .. k : FilesAfter(F)[j] = FilesAfter(Edits)[j]
    BY <1>2, <1>3, FilesAfterPrefix
  <2> QED BY <1>3, <2>1
<1>6. /\ Named(tables', F, k) = Named(tables, Edits, k) /\ LogAt(F, k) = LogAt(Edits, k)
      /\ k # 0 => F[k] = Edits[k]
  BY <1>1, <1>2, <1>3, <1>5 DEF Named, LogAt
<1>7. /\ Found(logs', tables', F, k, FALSE) \subseteq Found(logs, tables, Edits, k, FALSE)
      /\ Found(logs, tables, Edits, k, TRUE) \subseteq Found(logs', tables', F, k, TRUE)
      /\ Found(logs', tables', F, k, TRUE) \subseteq Found(logs', tables', F, k, FALSE)
  <2> DEFINE U == tables'
             K == logs'
             a == LogAt(Edits, k)
  <2>1. \A sure, e : e \in Found(logs, tables, Edits, k, sure)
           <=> e \in Named(tables, Edits, k) \/ \E n \in DOMAIN logs : n >= a /\ e \in LogPart(logs[n], sure)
    BY InFound
  <2>2. \A sure, e : e \in Found(K, U, F, k, sure)
           <=> e \in Named(tables, Edits, k) \/ \E n \in DOMAIN K : n >= a /\ e \in LogPart(K[n], sure)
    BY <1>6, InFound
  <2>3. /\ DOMAIN K = DOMAIN logs
        /\ \A n \in DOMAIN logs :
              /\ LogPart(logs[n], TRUE) \subseteq LogPart(K[n], TRUE)
              /\ LogPart(K[n], FALSE) \subseteq LogPart(logs[n], FALSE)
              /\ LogPart(K[n], TRUE) \subseteq LogPart(K[n], FALSE)
    BY <1>2
  <2> HIDE DEF K, U, F, k, a
  <2>4. Found(K, U, F, k, FALSE) \subseteq Found(logs, tables, Edits, k, FALSE)
    BY <2>1, <2>2, <2>3
  <2>5. Found(logs, tables, Edits, k, TRUE) \subseteq Found(K, U, F, k, TRUE)
    BY <2>1, <2>2, <2>3
  <2>6. Found(K, U, F, k, TRUE) \subseteq Found(K, U, F, k, FALSE)
    BY <2>2, <2>3
  <2> QED BY <2>4, <2>5, <2>6 DEF K, U, F
<1>8. \A c \in Calls : /\ phase[c] \in Quiet \cup Busy => phase'[c] \in Quiet
                       /\ phase'[c] = "ok" => phase[c] = "ok"
  <2>1. \A c \in Calls :
                 /\ phase[c] \in {"idle", "error", "lost"} => phase'[c] = phase[c]
                 /\ phase[c] \in Busy => phase'[c] = "lost"
                 /\ phase[c] = "ok" => phase'[c] \in {"ok", "lost"}
    BY CrashedCalls
  <2>2. \A c \in Calls : phase[c] \in {"idle"} \cup Quiet \cup Busy
    BY DEF ControlInv, ControlTypes, Phases, Quiet, Busy, Working
  <2> QED BY <2>1, <2>2 DEF Quiet
<1>9. Written' \subseteq Written BY <1>1, <1>8 DEF Written, Answered
<1> DEFINE M == manifests'
           L == logs'
<1>10. Recoverable([Disk EXCEPT !.logs = logs', !.manifests = manifests'])
          = Found(logs', tables', F, k, FALSE)
  <2>1. /\ L \in Files(LogType) /\ M \in Files(ManifestType) /\ current \in Nat
        /\ current \in DOMAIN M
    BY <1>1 DEF FilesInv, FileTypes, Descriptor
  <2>2. /\ \A n \in DOMAIN L : \A i \in 1 .. Len(L[n].recs) : L[n].recs[i].ok
        /\ M[current].edits = F
    BY <1>1, <1>2 DEF WholeRecords, Edits
  <2>3. \A i \in 1 .. Len(F) : F[i].ok
    <3>1. \A i \in 1 .. Len(F) : i \in 1 .. Len(Edits) BY <1>3
    <3> QED BY <1>1, <1>2, <3>1, EditsWhole
  <2> DEFINE D == [Disk EXCEPT !.logs = logs', !.manifests = manifests']
             R == [logs |-> L, tables |-> tables, manifests |-> M, current |-> current]
  <2>4. D.logs = L /\ D.tables = tables /\ D.manifests = M /\ D.current = current
    BY Zenon DEF Disk
  <2>5. R.logs = L /\ R.tables = tables /\ R.manifests = M /\ R.current = current
    OBVIOUS
  <2> HIDE DEF D, R, L, M, F
  <2>6. Recoverable(D) = Recoverable(R) BY <2>4, <2>5 DEF Recoverable
  <2>7. /\ current # 0 => current \in DOMAIN M
        /\ current # 0 => M[current].edits \in Seq(EditType)
                          /\ \A i \in 1 .. Len(M[current].edits) : M[current].edits[i].ok
    BY <1>2, <2>1, <2>2, <2>3 DEF F
  <2>8. Recoverable(R) = IF current = 0 THEN {}
                         ELSE Found(L, tables, M[current].edits, Len(M[current].edits), FALSE)
    BY <2>1, <2>2, <2>7, RecoverableIs DEF R
  <2>9. Recoverable(R) = Found(L, tables, F, Len(F), FALSE)
    BY <1>1, <2>2, <2>8
  <2> QED BY <1>1, <2>6, <2>9 DEF D, L
<1>11. \A c \in Calls : phase'[c] = "ok" /\ kind[c] = "async" /\ phase[c] = "ok"
                           => c \in CallsOf(Found(logs', tables', F, k, FALSE))
  <2>1. phase' = [c \in Calls |->
                CASE phase[c] \in {"idle", "error", "lost"} -> phase[c]
                  [] phase[c] = "ok" -> IF kind[c] = "async"
                                           /\ c \notin CallsOf(Found(logs', tables', F, k, FALSE))
                                        THEN "lost" ELSE "ok"
                  [] OTHER -> "lost"]
    BY <1>10 DEF MachineCrashes, CrashCalls
  <2> DEFINE C == CallsOf(Found(logs', tables', F, k, FALSE))
  <2> HIDE DEF C
  <2>2. phase' = [c \in Calls |->
                CASE phase[c] \in {"idle", "error", "lost"} -> phase[c]
                  [] phase[c] = "ok" -> IF kind[c] = "async" /\ c \notin C THEN "lost" ELSE "ok"
                  [] OTHER -> "lost"]
    BY <2>1 DEF C
  <2>3. ASSUME NEW c \in Calls, phase'[c] = "ok", kind[c] = "async", phase[c] = "ok" PROVE c \in C
    BY <2>2, <2>3
  <2> QED BY <2>3 DEF C
<1>12. KeptInv'
  <2> SUFFICES ASSUME NEW sure \in BOOLEAN, NEW c \in Written', sure => kind[c] = "sync"
               PROVE  c \in CallsOf(Found(logs', tables', F, k, sure))
    BY <1>1, <1>4 DEF KeptInv, KeptAt, CallsOf
  <2>1. KeptAt(logs, tables, Edits, k) /\ c \in Written
    BY <1>1, <1>2, <1>9 DEF StoreInv, KeptInv
  <2>2. CASE kind[c] = "sync"
    <3>1. c \in CallsOf(Found(logs, tables, Edits, k, TRUE))
      BY <2>1, <2>2 DEF KeptAt
    <3>2. c \in CallsOf(Found(logs', tables', F, k, TRUE))
      BY <1>7, <3>1 DEF CallsOf
    <3>3. c \in CallsOf(Found(logs', tables', F, k, FALSE))
      BY <1>7, <3>2 DEF CallsOf
    <3> QED BY <3>2, <3>3
  <2>3. CASE kind[c] # "sync"
    <3>1. c \in Calls /\ kind[c] = "async" /\ sure = FALSE
      BY <1>1, <2>1, <2>3 DEF Written, Answered, ControlInv, ControlTypes
    <3>2. phase'[c] = "ok" /\ phase[c] = "ok"
      BY <1>1, <2>1 DEF Written, Answered
    <3> QED BY <1>11, <3>1, <3>2
  <2> QED BY <2>2, <2>3
<1>13. \A j \in Stops(Edits', Synced') :
              /\ j \in Stops(Edits, Synced) /\ (j # 0 => Edits'[j] = Edits[j])
              /\ Named(tables', Edits', j) = Named(tables, Edits, j)
              /\ Found(logs', tables', Edits', j, FALSE) \subseteq Found(logs, tables, Edits, j, FALSE)
  BY <1>2, <1>4, <1>6, <1>7
<1>14. StoreInv' BY <1>1, <1>8, <1>12, <1>13, EndStore
<1>15. Shown' = Found(logs', tables', F, k, FALSE) BY <1>1 DEF Shown
<1>16. \A c \in Calls :
          phase'[c] = IF \/ phase[c] \in Busy
                         \/ phase[c] = "ok" /\ kind[c] = "async" /\ c \notin CallsOf(Shown')
                      THEN "lost" ELSE phase[c]
  <2> DEFINE C == CallsOf(Shown')
  <2>1. phase' = [c \in Calls |->
                CASE phase[c] \in {"idle", "error", "lost"} -> phase[c]
                  [] phase[c] = "ok" -> IF kind[c] = "async" /\ c \notin C THEN "lost" ELSE "ok"
                  [] OTHER -> "lost"]
    BY <1>10, <1>15 DEF MachineCrashes, CrashCalls
  <2> HIDE DEF C
  <2>2. \A c \in Calls : phase[c] \in {"idle"} \cup Quiet \cup Busy
    BY DEF ControlInv, ControlTypes, Phases, Quiet, Busy, Working
  <2>3. \A c \in Calls :
          phase'[c] = IF phase[c] \in Busy \/ (phase[c] = "ok" /\ kind[c] = "async" /\ c \notin C)
                      THEN "lost" ELSE phase[c]
    BY <2>1, <2>2 DEF Quiet, Busy, Working
  <2> QED BY <2>3 DEF C
<1>17. k \in Stops(Edits, Synced) /\ Shown' \subseteq Found(logs, tables, Edits, k, FALSE)
  BY <1>2, <1>7, <1>15
<1> QED BY <1>1, <1>14, <1>16, <1>17

-----------------------------------------------------------------------------
(* DB::Open and the store.                                                 *)

\* A step of DB::Open after which the descriptor still leads to what it did.
LEMMA OpenStays ==
    ASSUME FilesInv, StoreInv, current # 0, pc # "up", pc' # "up",
           UNCHANGED <<current, phase, kind>>, Edits' = Edits, Synced' = Synced,
           \A j \in 0 .. Len(Edits) :
              /\ Named(tables', Edits, j) = Named(tables, Edits, j)
              /\ \A sure \in BOOLEAN :
                    Found(logs', tables', Edits, j, sure) = Found(logs, tables, Edits, j, sure),
           OpenStore'
    PROVE  StoreInv' /\ Shown' = Shown
<1>1. \A j \in Stops(Edits, Synced) : j \in 0 .. Len(Edits) BY StopsAre
<1>2. LastInv' BY <1>1 DEF StoreInv, LastInv
<1>3. Written' = Written BY DEF Written, Answered
<1>4. KeptInv'
  <2> SUFFICES ASSUME NEW j \in Stops(Edits, Synced), NEW sure \in BOOLEAN, NEW c \in Written,
                      sure => kind[c] = "sync"
               PROVE  c \in CallsOf(Found(logs', tables', Edits, j, sure))
    BY <1>3 DEF KeptInv, KeptAt, CallsOf
  <2>1. c \in CallsOf(Found(logs, tables, Edits, j, sure))
    BY DEF StoreInv, KeptInv, KeptAt
  <2> QED BY <1>1, <2>1
<1>5. DownStore'
  <2> SUFFICES ASSUME NEW j \in Stops(Edits, Synced)
               PROVE  /\ Unique(Found(logs', tables', Edits, j, FALSE))
                      /\ \A e \in Found(logs', tables', Edits, j, FALSE) :
                            phase[e.call] \in Quiet /\ kind[e.call] # "force"
    BY DEF DownStore, Unique
  <2>1. Found(logs', tables', Edits, j, FALSE) = Found(logs, tables, Edits, j, FALSE)
    BY <1>1
  <2> QED BY <2>1 DEF StoreInv, DownStore
<1>6. EmptyInv' BY DEF EmptyInv
<1>7. Len(Edits) \in 0 .. Len(Edits) BY <1>1, StopsAre
<1>8. Shown' = Shown BY <1>7 DEF Shown
<1> QED BY <1>2, <1>4, <1>5, <1>6, <1>8 DEF StoreInv

\* VersionSet::Recover reads the whole descriptor.
LEMMA RecoverStore ==
    ASSUME ControlInv, FilesInv, ~MayTear, StoreInv, Recover
    PROVE  StoreInv' /\ Shown' = Shown
<1>1. /\ UNCHANGED <<logs, tables, manifests, current, phase, kind, mem>>
      /\ current # 0 /\ pc \in {"down", "recover"} /\ pc' \in {"logs", "corrupt"} /\ mem = {}
  BY DEF Recover, disk, queue, memory, FilesInv, Opening, StoreInv, OpenStore
<1>2. Edits' = Edits /\ Synced' = Synced BY <1>1 DEF Edits, Synced
<1> DEFINE E == Edits
           m == Len(E)
<1>3. /\ E \in Seq(EditType) /\ m \in Nat /\ m \in Stops(E, Synced)
      /\ \A i \in 1 .. m : E[i].ok
      /\ Numbered(current, E)
  BY <1>1, StopsAre, EditsWhole, EditsType DEF DescriptorOf
<1>4. /\ ReadableRecords(E) = E
      /\ ReplayEdits(E).files = FilesAfter(E)[m]
      /\ ReplayEdits(E).log = LogAt(E, m)
      /\ m # 0 => /\ ReplayEdits(E).next = E[m].next
                  /\ ReplayEdits(E).last = E[m].last
      /\ (E = <<>> <=> m = 0)
  BY <1>3, EditsRead
<1>5. ASSUME pc' = "logs"
      PROVE  /\ m # 0 /\ version' = FilesAfter(E)[m] /\ manifestNo' = E[m].next
             /\ last' = E[m].last /\ opened' = Empty
             /\ recovering' = {n \in DOMAIN logs : n >= LogAt(E, m)}
  <2>1. /\ EditsReadable(E) /\ version' = ReplayEdits(E).files /\ manifestNo' = ReplayEdits(E).next
        /\ last' = ReplayEdits(E).last /\ opened' = Empty
        /\ recovering' = {n \in DOMAIN logs : n >= ReplayEdits(E).log}
    BY <1>5 DEF Recover, Edits
  <2>2. m # 0 BY <1>4, <2>1 DEF EditsReadable
  <2> HIDE DEF m
  <2> QED BY <1>4, <2>1, <2>2
<1>6. OpenStore'
  <2>1. CASE pc' = "corrupt" BY <1>1, <2>1 DEF OpenStore
  <2>2. CASE pc' = "logs"
    <3>1. \A i \in 1 .. m : E[i].next <= manifestNo'
      BY <1>3, <1>5, <2>2 DEF Numbered
    <3>2. DOMAIN version' \cup DOMAIN opened' = DOMAIN FilesAfter(E)[m]
      BY <1>5, <2>2, EmptyFiles
    <3>3. TableEntries(tables, DOMAIN version' \cup DOMAIN opened') = Named(tables, E, m)
      BY <3>2 DEF Named
    <3>4. Found(logs, tables, E, m, FALSE)
            = TableEntries(tables, DOMAIN version' \cup DOMAIN opened')
              \cup LogsIn(logs, recovering', FALSE)
      BY <1>5, <2>2, <3>3 DEF Found, LogsFrom
    <3>5. \A e \in TableEntries(tables, DOMAIN version' \cup DOMAIN opened') : e.seq <= last'
      <4>1. \A e \in Named(tables, E, m) : e.seq <= E[m].last
        BY <1>1, <1>3, <1>5, <2>2 DEF StoreInv, LastInv
      <4> QED BY <1>5, <2>2, <3>3, <4>1
    <3> HIDE DEF m
    <3> QED BY <1>1, <1>2, <2>2, <3>1, <3>4, <3>5 DEF OpenStore, m
  <2> QED BY <1>1, <2>1, <2>2
<1>7. \A j \in 0 .. Len(Edits) :
              /\ Named(tables', Edits, j) = Named(tables, Edits, j)
              /\ \A sure \in BOOLEAN :
                    Found(logs', tables', Edits, j, sure) = Found(logs, tables, Edits, j, sure)
  BY <1>1
<1> QED BY <1>1, <1>2, <1>6, <1>7, OpenStays

\* A log becomes a table of level 0.
LEMMA LogStore ==
    ASSUME ControlInv, FilesInv, WholeRecords, StoreInv, RecoverLogFile
    PROVE  StoreInv' /\ Shown' = Shown
<1>1. /\ UNCHANGED <<logs, manifests, current, version, manifestNo, pc, phase, kind, mem>>
      /\ pc = "logs" /\ current # 0 /\ mem = {}
  BY DEF RecoverLogFile, queue, memory, FilesInv, Opening, StoreInv, OpenStore
<1>2. Edits' = Edits /\ Synced' = Synced BY <1>1 DEF Edits, Synced
<1>3. PICK n \in recovering :
         LET entries == LogEntries(logs[n].recs)
         IN  /\ IF entries = {}
                THEN UNCHANGED <<tables, opened>>
                ELSE /\ tables' = Put(tables, next, [done |-> TRUE, entries |-> entries])
                     /\ opened' = Put(opened, next, 0)
             /\ last' = MaxSequence(last, entries)
             /\ recovering' = recovering \ {n}
  BY DEF RecoverLogFile
<1> DEFINE G == LogPart(logs[n], FALSE)
           S == DOMAIN version \cup DOMAIN opened
<1>4. /\ logs \in Files(LogType) /\ tables \in Files(TableType) /\ opened \in Files(Nat)
      /\ next \in Nat /\ last \in Nat /\ manifestNo \in Nat /\ manifestNo < next
      /\ n \in DOMAIN logs /\ next \notin S /\ recovering \subseteq DOMAIN logs
      /\ S \in SUBSET Nat
      /\ Edits \in Seq(EditType) /\ DescriptorOf(current, Edits, Synced, tables)
  <2>1. pc \in {"logs", "manifest", "current"} BY <1>1
  <2>2. recovering \subseteq DOMAIN logs /\ \A k \in S : k < next
    BY <2>1 DEF FilesInv, Opening
  <2>3. next \in Nat BY <2>1, OpeningIs
  <2>4. next \notin S BY <2>2, <2>3
  <2> QED BY <2>1, <2>2, <2>4, OpeningIs
<1>5. LogEntries(logs[n].recs) = G BY <1>4, LogRead DEF WholeRecords
<1>6. G \in EntrySets
  <2>1. logs[n].recs \in Seq(RecordType) BY <1>4, LogsAre
  <2> QED BY <1>5, <2>1, LogEntriesType
<1>7. /\ last' \in Nat /\ last' >= last /\ \A e \in G : last' >= e.seq
      /\ recovering' = recovering \ {n}
  BY <1>3, <1>4, <1>5, <1>6, SequenceRead
<1> HIDE DEF G
<1>8. \/ G = {} /\ UNCHANGED <<tables, opened>>
      \/ /\ tables' = Put(tables, next, [done |-> TRUE, entries |-> G])
         /\ opened' = Put(opened, next, 0)
  BY <1>3, <1>5
<1>9. /\ SameBut(tables, tables', next) 
      /\ \A e : e \in TableEntries(tables', DOMAIN version \cup DOMAIN opened')
                 <=> e \in TableEntries(tables, S) \/ e \in G
  <2>1. CASE G = {} /\ UNCHANGED <<tables, opened>> BY <2>1 DEF SameBut
  <2>2. CASE /\ tables' = Put(tables, next, [done |-> TRUE, entries |-> G])
             /\ opened' = Put(opened, next, 0)
    <3> DEFINE t == [done |-> TRUE, entries |-> G]
               T == tables'
    <3>1. /\ DOMAIN T = DOMAIN tables \cup {next} /\ T[next] = t
          /\ \A k \in DOMAIN tables : k # next => T[k] = tables[k]
      <4>1. T = Put(tables, next, t) BY <2>2
      <4> HIDE DEF T, t
      <4> QED BY <4>1 DEF Put, Over, Single
    <3>2. DOMAIN opened' = DOMAIN opened \cup {next}
      BY <2>2 DEF Put, Over, Single
    <3>3. T[next].entries = G BY <3>1
    <3> HIDE DEF T, t
    <3>4. SameBut(tables, T, next) BY <3>1 DEF SameBut
    <3>5. DOMAIN version \cup DOMAIN opened' = S \cup {next} BY <3>2
    <3>6. \A e : e \in TableEntries(T, S \cup {next}) <=> e \in TableEntries(tables, S) \/ e \in G
      <4> HIDE DEF S
      <4> QED BY <1>4, <3>1, <3>3, InTables
    <3> QED BY <3>4, <3>5, <3>6 DEF T
  <2> QED BY <1>8, <2>1, <2>2
<1>10. \A j \in 0 .. Len(Edits) : Named(tables', Edits, j) = Named(tables, Edits, j)
  <2>1. \A i \in 1 .. Len(Edits) : Edits[i].next \in Nat /\ DOMAIN Edits[i].add \in SUBSET Nat
    BY <1>4, EditsAre
  <2>2. \A i \in 1 .. Len(Edits) : Edits[i].next <= manifestNo
    BY <1>1 DEF StoreInv, OpenStore
  <2>3. \A i \in 1 .. Len(Edits) : \A k \in DOMAIN Edits[i].add : k < Edits[i].next
    BY <1>4 DEF DescriptorOf, Numbered
  <2>4. \A i \in 1 .. Len(Edits) : next \notin DOMAIN Edits[i].add
    <3> SUFFICES ASSUME NEW i \in 1 .. Len(Edits), next \in DOMAIN Edits[i].add PROVE FALSE
      OBVIOUS
    <3>1. next < Edits[i].next /\ Edits[i].next <= manifestNo /\ Edits[i].next \in Nat
      BY <2>1, <2>2, <2>3
    <3> QED BY <1>4, <3>1
  <2> QED BY <1>4, <1>9, <2>4, NotNamed
<1>11. \A j \in 0 .. Len(Edits), sure \in BOOLEAN :
         Found(logs', tables', Edits, j, sure) = Found(logs, tables, Edits, j, sure)
  BY <1>1, <1>10 DEF Found
<1>12. \A e : e \in LogsIn(logs, recovering, FALSE) <=> e \in G \/ e \in LogsIn(logs, recovering', FALSE)
  <2> DEFINE R == recovering'
  <2>1. R = recovering \ {n} /\ n \in DOMAIN logs /\ n \in recovering
    BY <1>4, <1>7
  <2> HIDE DEF R
  <2>2. \A e : e \in LogsIn(logs, recovering, FALSE) <=> e \in G \/ e \in LogsIn(logs, R, FALSE)
    <3> SUFFICES ASSUME NEW e
                 PROVE  e \in LogsIn(logs, recovering, FALSE) <=> e \in G \/ e \in LogsIn(logs, R, FALSE)
      OBVIOUS
    <3>1. e \in LogsIn(logs, recovering, FALSE) <=> \E i \in recovering \cap DOMAIN logs : e \in LogPart(logs[i], FALSE)
      BY InLogs
    <3>2. e \in LogsIn(logs, R, FALSE) <=> \E i \in R \cap DOMAIN logs : e \in LogPart(logs[i], FALSE)
      BY InLogs
    <3>3. e \in G <=> e \in LogPart(logs[n], FALSE) BY DEF G
    <3> QED BY <2>1, <3>1, <3>2, <3>3
  <2> QED BY <2>2 DEF R
<1>13. Found(logs, tables, Edits, Len(Edits), FALSE)
         = TableEntries(tables', DOMAIN version \cup DOMAIN opened')
           \cup LogsIn(logs, recovering', FALSE)
  <2>1. Found(logs, tables, Edits, Len(Edits), FALSE)
          = TableEntries(tables, S) \cup LogsIn(logs, recovering, FALSE)
    BY <1>1 DEF StoreInv, OpenStore
  <2> QED BY <1>9, <1>12, <2>1
<1>14. \A e \in TableEntries(tables', DOMAIN version \cup DOMAIN opened') : e.seq <= last'
  <2>1. \A e \in TableEntries(tables, S) : e.seq <= last /\ e \in Entries
    BY <1>1, <1>4, EntriesAre DEF StoreInv, OpenStore
  <2>2. \A e \in TableEntries(tables, S) : e.seq <= last'
    BY <1>4, <1>7, <2>1 DEF Entries
  <2>3. \A e \in G : e.seq <= last' BY <1>6, <1>7 DEF EntrySets
  <2> QED BY <1>9, <2>2, <2>3
<1>15. OpenStore'
  <2>1. \A i \in 1 .. Len(Edits) : Edits[i].next <= manifestNo
    BY <1>1 DEF StoreInv, OpenStore
  <2>2. Len(Edits) \in 0 .. Len(Edits) BY <1>4, EditsAre
  <2>3. Found(logs', tables', Edits, Len(Edits), FALSE) = Found(logs, tables, Edits, Len(Edits), FALSE)
    BY <1>11, <2>2
  <2> QED BY <1>1, <1>2, <1>13, <1>14, <2>1, <2>3 DEF OpenStore
<1> QED BY <1>1, <1>2, <1>10, <1>11, <1>15, OpenStays

\* What the whole descriptor leads to while the database is not running.
LEMMA DownHas ==
    ASSUME FilesInv, StoreInv, pc # "up", current # 0
    PROVE  LET S == Found(logs, tables, Edits, Len(Edits), FALSE)
           IN  /\ Unique(S)
               /\ \A e \in S : phase[e.call] \in Quiet /\ kind[e.call] # "force"
               /\ Written \subseteq CallsOf(S)
<1>1. Len(Edits) \in Stops(Edits, Synced) BY StopsAre
<1>2. KeptAt(logs, tables, Edits, Len(Edits))
  BY <1>1 DEF StoreInv, KeptInv
<1>3. Written \subseteq CallsOf(Found(logs, tables, Edits, Len(Edits), FALSE))
  BY <1>2 DEF KeptAt
<1> QED BY <1>1, <1>3 DEF StoreInv, DownStore

\* A descriptor of one record.
LEMMA OneEdit ==
    ASSUME NEW e, e \in EditType, NEW s \in 0 .. 1
    PROVE  /\ Len(<<e>>) = 1 /\ <<e>>[1] = e
           /\ DOMAIN FilesAfter(<<e>>)[1] = DOMAIN e.add /\ DOMAIN FilesAfter(<<e>>)[0] = {}
           /\ LogAt(<<e>>, 1) = e.log /\ LogAt(<<e>>, 0) = 0
           /\ Stops(<<e>>, s) = s .. 1
<1> DEFINE q == <<>>
<1>1. q \in Seq(EditType) /\ Len(q) = 0 /\ Append(q, e) = <<e>> /\ 0 \in 0 .. 0
  OBVIOUS
<1> HIDE DEF q
<1>2. FilesAfter(q)[0] = Empty BY <1>1, FilesAfterDef
<1>3. /\ DOMAIN FilesAfter(Append(q, e))[1] = DOMAIN e.add \cup (DOMAIN FilesAfter(q)[0] \ e.del)
      /\ FilesAfter(Append(q, e))[0] = FilesAfter(q)[0]
  <2>1. /\ \A j \in 0 .. Len(q) : FilesAfter(Append(q, e))[j] = FilesAfter(q)[j]
        /\ DOMAIN FilesAfter(Append(q, e))[Len(q) + 1]
                = DOMAIN e.add \cup (DOMAIN FilesAfter(q)[Len(q)] \ e.del)
    BY <1>1, FilesAfterAppend
  <2>2. Len(q) = 0 /\ Len(q) + 1 = 1 /\ 0 \in 0 .. Len(q) BY <1>1
  <2> QED BY <2>1, <2>2
<1>4. DOMAIN FilesAfter(<<e>>)[1] = DOMAIN e.add /\ DOMAIN FilesAfter(<<e>>)[0] = {}
  <2>1. DOMAIN Empty = {} BY EmptyFiles
  <2>2. DOMAIN FilesAfter(Append(q, e))[1] = DOMAIN e.add /\ DOMAIN FilesAfter(Append(q, e))[0] = {}
    BY <1>2, <1>3, <2>1
  <2> QED BY <1>1, <2>2
<1>5. Len(<<e>>) = 1 /\ <<e>>[1] = e OBVIOUS
<1>6. Stops(<<e>>, s) = s .. 1 BY <1>5 DEF Stops
<1> QED BY <1>4, <1>5, <1>6 DEF LogAt

\* A directory without tables and logs leads to nothing.
LEMMA NothingFound ==
    \A E, j, sure : Found(Empty, Empty, E, j, sure) = {} /\ Named(Empty, E, j) = {}
<1> SUFFICES ASSUME NEW E, NEW j, NEW sure
             PROVE  Found(Empty, Empty, E, j, sure) = {} /\ Named(Empty, E, j) = {}
  OBVIOUS
<1>1. \A e : e \notin Named(Empty, E, j)
  BY InTables, EmptyFiles DEF Named
<1>2. \A e : e \notin Found(Empty, Empty, E, j, sure)
  BY <1>1, InFound, EmptyFiles
<1> QED BY <1>1, <1>2

\* NewDB makes an empty database.
LEMMA NewStore ==
    ASSUME StoreInv, NewDB
    PROVE  StoreInv' /\ Shown' = Shown
<1> DEFINE e == Edit(Empty, {}, 0, 2, 0)
<1>1. /\ logs' = Empty /\ tables' = Empty /\ pc' = "recover" /\ current' = 1
      /\ mem' = {} /\ \A c \in Calls : phase'[c] = "idle"
  BY DEF NewDB, StoreInv, EmptyInv, OpenStore, memory, queue
<1>2. manifests' = Put(manifests, 1, [edits |-> <<e>>, synced |-> 0])
  BY DEF NewDB
<1>3. Edits' = <<e>> /\ Synced' = 0
  <2> HIDE DEF e
  <2>1. Put(manifests, 1, [edits |-> <<e>>, synced |-> 0])[1] = [edits |-> <<e>>, synced |-> 0]
    BY DEF Put, Over, Single
  <2> QED BY <1>1, <1>2, <2>1 DEF Edits, Synced
<1>4. Written' = {} BY <1>1 DEF Written, Answered
<1>5. LastInv' BY <1>1, NothingFound DEF LastInv
<1>6. KeptInv' BY <1>4 DEF KeptInv, KeptAt
<1>7. DownStore' BY <1>1, NothingFound DEF DownStore, Unique
<1>8. EmptyInv' /\ OpenStore' BY <1>1 DEF EmptyInv, OpenStore
<1>9. Shown' = Shown
  <2>1. Shown' = {} BY <1>1, NothingFound DEF Shown
  <2>2. Shown = {} BY DEF NewDB, Shown
  <2> QED BY <2>1, <2>2
<1> QED BY <1>1, <1>5, <1>6, <1>7, <1>8, <1>9 DEF StoreInv

\* DB::Open makes a new log and writes the new descriptor.
LEMMA ManifestStore ==
    ASSUME ControlInv, FilesInv, StoreInv, OpenWritesManifest
    PROVE  StoreInv' /\ Shown' = Shown
<1>1. /\ UNCHANGED <<tables, current, version, opened, recovering, last, manifestNo, phase, kind, mem>>
      /\ pc = "logs" /\ pc' = "manifest" /\ recovering = {} /\ current # 0 /\ mem = {}
      /\ logs' = Put(logs, next, [recs |-> <<>>, synced |-> 0]) /\ logfile' = next
  BY DEF OpenWritesManifest, queue, opening, FilesInv, Opening, StoreInv, OpenStore
<1>2. /\ current \in Nat /\ manifestNo \in Nat /\ current < manifestNo
      /\ \A n \in DOMAIN logs : n < next
      /\ DOMAIN logs \in SUBSET Nat /\ next \in Nat
      /\ current \in DOMAIN manifests
  BY <1>1, OpeningIs DEF FilesInv, Opening
<1>3. Edits' = Edits /\ Synced' = Synced
  <2>1. manifests'[current] = manifests[current]
    BY <1>2 DEF OpenWritesManifest, Put, Over, Single
  <2> QED BY <1>1, <2>1 DEF Edits, Synced
<1>4. /\ DOMAIN logs' = DOMAIN logs \cup {next}
      /\ \A n \in DOMAIN logs : logs'[n] = logs[n]
      /\ logs'[next].recs = <<>>
      /\ \A sure : LogPart(logs'[next], sure) = {}
  BY <1>1, LogIsNew, LogAdded
<1>5. \A j \in 0 .. Len(Edits), sure \in BOOLEAN :
         Found(logs', tables', Edits, j, sure) = Found(logs, tables, Edits, j, sure)
  <2> SUFFICES ASSUME NEW j \in 0 .. Len(Edits), NEW sure \in BOOLEAN
               PROVE  Found(logs', tables', Edits, j, sure) = Found(logs, tables, Edits, j, sure)
    OBVIOUS
  <2> DEFINE L == logs'
  <2>1. /\ DOMAIN L = DOMAIN logs \cup {next}
        /\ \A n \in DOMAIN logs : L[n] = logs[n]
        /\ LogPart(L[next], sure) = {}
    BY <1>4
  <2>2. tables' = tables BY <1>1
  <2> HIDE DEF L
  <2>3. \A e : e \in Found(L, tables, Edits, j, sure) <=> e \in Found(logs, tables, Edits, j, sure)
    <3>1. ASSUME NEW e PROVE
            (\E n \in DOMAIN L : n >= LogAt(Edits, j) /\ e \in LogPart(L[n], sure))
              <=> \E n \in DOMAIN logs : n >= LogAt(Edits, j) /\ e \in LogPart(logs[n], sure)
      BY <2>1
    <3> QED BY <3>1, InFound
  <2>4. Found(L, tables, Edits, j, sure) = Found(logs, tables, Edits, j, sure)
    BY <2>3
  <2> QED BY <2>2, <2>4 DEF L
<1>6. OpenStore'
  <2>1. /\ \A i \in 1 .. Len(Edits) : Edits[i].next <= manifestNo
        /\ Found(logs, tables, Edits, Len(Edits), FALSE)
              = TableEntries(tables, DOMAIN version \cup DOMAIN opened)
                \cup LogsIn(logs, recovering, FALSE)
        /\ \A e \in TableEntries(tables, DOMAIN version \cup DOMAIN opened) : e.seq <= last
    BY <1>1 DEF StoreInv, OpenStore
  <2>2. LogsIn(logs, {}, FALSE) = {} /\ LogsIn(logs', {}, FALSE) = {}
    BY DEF LogsIn
  <2>3. Found(logs', tables', Edits, Len(Edits), FALSE) = Found(logs, tables, Edits, Len(Edits), FALSE)
    <3>1. Len(Edits) \in 0 .. Len(Edits) BY <1>1, StopsAre
    <3> QED BY <1>5, <3>1
  <2>4. \A n \in DOMAIN logs' : n <= logfile' BY <1>1, <1>2, <1>4
  <2>5. logs'[logfile'].recs = <<>> BY <1>1, <1>4
  <2> QED BY <1>1, <1>3, <2>1, <2>2, <2>3, <2>4, <2>5 DEF OpenStore
<1>7. \A j \in 0 .. Len(Edits) : Named(tables', Edits, j) = Named(tables, Edits, j)
  BY <1>1
<1> QED BY <1>1, <1>3, <1>5, <1>6, <1>7, OpenStays

\* What the new descriptor leads to: the version, the tables made of the logs,
\* and no log before the new one.
LEMMA SnapshotIs ==
    ASSUME FilesInv, pc \in {"manifest", "current"}
    PROVE  /\ Snapshot \in EditType /\ manifestNo \in DOMAIN manifests
           /\ manifests[manifestNo].edits = <<Snapshot>>
           /\ DOMAIN Snapshot.add = DOMAIN version \cup DOMAIN opened
           /\ Snapshot.add = Over(opened, version)
           /\ Snapshot.log = logfile /\ Snapshot.last = last
           /\ logfile \in DOMAIN logs /\ current # 0 /\ manifestNo \in Nat /\ manifestNo < next
           /\ manifestNo # 0
           /\ logs \in Files(LogType) /\ tables \in Files(TableType)
           /\ manifests \in Files(ManifestType)
           /\ DOMAIN logs \in SUBSET Nat /\ logfile \in Nat
<1>1. /\ pc \in {"logs", "manifest", "current"} /\ manifestNo \in DOMAIN manifests
      /\ manifests[manifestNo].edits = <<Snapshot>> /\ logfile \in DOMAIN logs
      /\ current # 0 /\ (pc = "manifest" => current < manifestNo)
      /\ (pc = "current" => current = manifestNo)
  BY DEF FilesInv, Opening, Snapshot
<1>2. /\ Over(opened, version) \in Files(Nat)
      /\ DOMAIN Over(opened, version) = DOMAIN opened \cup DOMAIN version
      /\ next \in Nat /\ last \in Nat /\ manifestNo \in Nat /\ logfile \in Nat
      /\ manifestNo < next /\ current \in Nat
      /\ logs \in Files(LogType) /\ tables \in Files(TableType)
      /\ manifests \in Files(ManifestType)
      /\ DOMAIN logs \in SUBSET Nat
  BY <1>1, OpeningIs
<1> DEFINE a == Over(opened, version)
<1>3. Snapshot = Edit(a, {}, logfile, next, last) BY DEF Snapshot
<1>4. {} \in SUBSET Nat OBVIOUS
<1> HIDE DEF a
<1>5. Snapshot \in EditType /\ Snapshot.add = a /\ Snapshot.log = logfile /\ Snapshot.last = last
  <2>1. a \in Files(Nat) BY <1>2 DEF a
  <2> QED BY <1>2, <1>3, <1>4, <2>1 DEF Edit, EditType
<1> QED BY <1>1, <1>2, <1>5 DEF a

\* CURRENT is renamed: what the new descriptor leads to is what the old one did.
LEMMA CurrentStore ==
    ASSUME ControlInv, FilesInv, StoreInv, OpenSetsCurrent
    PROVE  StoreInv' /\ Shown' = Shown
<1>1. /\ UNCHANGED <<logs, tables, logfile, version, opened, last, phase, kind, mem>>
      /\ pc = "manifest" /\ pc' = "current" /\ current' = manifestNo /\ mem = {}
      /\ recovering = {}
  BY DEF OpenSetsCurrent, queue, opening, vset, memory, FilesInv, Opening, StoreInv, OpenStore
<1> DEFINE e == Snapshot
           S == TableEntries(tables, DOMAIN version \cup DOMAIN opened)
<1>2. /\ e \in EditType /\ manifestNo \in DOMAIN manifests
      /\ manifests[manifestNo].edits = <<e>>
      /\ DOMAIN e.add = DOMAIN version \cup DOMAIN opened /\ e.log = logfile /\ e.last = last
      /\ logfile \in DOMAIN logs /\ current # 0 /\ manifestNo # 0
      /\ DOMAIN logs \in SUBSET Nat /\ manifests \in Files(ManifestType)
  BY <1>1, SnapshotIs
<1>3. /\ logs[logfile].recs = <<>> /\ \A n \in DOMAIN logs : n <= logfile
      /\ Found(logs, tables, Edits, Len(Edits), FALSE) = S \cup LogsIn(logs, {}, FALSE)
      /\ \A f \in S : f.seq <= last
  BY <1>1 DEF StoreInv, OpenStore
<1>4. Edits' = <<e>> /\ Synced' = 1
  <2> HIDE DEF e
  <2>1. Len(<<e>>) = 1 /\ 1 \in Nat OBVIOUS
  <2>2. manifests' = [manifests EXCEPT ![manifestNo].synced = 1]
    BY <1>2, <2>1 DEF OpenSetsCurrent, SyncedManifests
  <2>3. LET m == [manifests EXCEPT ![manifestNo].synced = 1]
        IN  m[manifestNo].edits = <<e>> /\ m[manifestNo].synced = 1
    BY <1>2, <2>1, ManifestSynced
  <2> QED BY <1>1, <2>2, <2>3 DEF Edits, Synced
<1>5. /\ Len(<<e>>) = 1 /\ <<e>>[1] = e /\ Stops(<<e>>, 1) = {1}
      /\ Named(tables, <<e>>, 1) = S /\ LogAt(<<e>>, 1) = logfile
  <2>1. /\ Len(<<e>>) = 1 /\ <<e>>[1] = e /\ Stops(<<e>>, 1) = 1 .. 1
        /\ DOMAIN FilesAfter(<<e>>)[1] = DOMAIN e.add /\ LogAt(<<e>>, 1) = e.log
    BY <1>2, OneEdit
  <2>2. 1 .. 1 = {1} OBVIOUS
  <2> HIDE DEF e
  <2> QED BY <1>2, <2>1, <2>2 DEF Named
<1> HIDE DEF e
<1>6. \A sure \in BOOLEAN : Found(logs, tables, <<e>>, 1, sure) = S
  <2> SUFFICES ASSUME NEW sure \in BOOLEAN PROVE Found(logs, tables, <<e>>, 1, sure) = S
    OBVIOUS
  <2>1. \A f : f \notin LogPart(logs[logfile], sure) BY <1>3 DEF LogPart
  <2>2. \A n \in DOMAIN logs : n >= logfile => n = logfile BY <1>2, <1>3
  <2> HIDE DEF S
  <2>3. \A f : f \in Found(logs, tables, <<e>>, 1, sure) <=> f \in S
    BY <1>5, <2>1, <2>2, InFound
  <2> QED BY <2>3
<1>7. Found(logs, tables, Edits, Len(Edits), FALSE) = S
  <2>1. LogsIn(logs, {}, FALSE) = {} BY DEF LogsIn
  <2> QED BY <1>3, <2>1
<1>8. /\ Unique(S) /\ \A f \in S : phase[f.call] \in Quiet /\ kind[f.call] # "force"
      /\ Written \subseteq CallsOf(S)
  BY <1>1, <1>2, <1>7, DownHas
<1> HIDE DEF S
<1>9. Written' = Written BY <1>1 DEF Written, Answered
<1>10. LastInv'
  <2>1. /\ tables' = tables /\ Edits' = <<e>> /\ Synced' = 1 /\ last = e.last
    BY <1>1, <1>2, <1>4
  <2>2. \A j \in Stops(<<e>>, 1) : j # 0 => \A f \in Named(tables, <<e>>, j) : f.seq <= <<e>>[j].last
    BY <1>3, <1>5, <2>1 DEF S
  <2> QED BY <2>1, <2>2 DEF LastInv
<1>11. KeptInv'
  <2> SUFFICES ASSUME NEW j \in Stops(Edits', Synced'), NEW sure \in BOOLEAN, NEW c \in Written'
               PROVE  c \in CallsOf(Found(logs', tables', Edits', j, sure))
    BY DEF KeptInv, KeptAt, CallsOf
  <2>1. j = 1 BY <1>4, <1>5
  <2> QED BY <1>1, <1>4, <1>6, <1>8, <1>9, <2>1
<1>12. DownStore'
  <2> SUFFICES ASSUME NEW j \in Stops(Edits', Synced')
               PROVE  /\ Unique(Found(logs', tables', Edits', j, FALSE))
                      /\ \A f \in Found(logs', tables', Edits', j, FALSE) :
                            phase'[f.call] \in Quiet /\ kind'[f.call] # "force"
    BY DEF DownStore, Unique
  <2>1. j = 1 BY <1>4, <1>5
  <2>2. Found(logs', tables', Edits', j, FALSE) = S
    BY <1>1, <1>4, <1>6, <2>1
  <2> QED BY <1>1, <1>8, <2>2
<1>13. OpenStore' BY <1>1, <1>3, <1>4 DEF OpenStore, S
<1>14. EmptyInv' BY <1>1, <1>2 DEF EmptyInv
<1>15. Shown' = Shown
  <2>1. Shown = S BY <1>1, <1>2, <1>7 DEF Shown
  <2>2. Shown' = Found(logs', tables', Edits', Len(Edits'), FALSE)
    BY <1>1, <1>2 DEF Shown
  <2>3. Shown' = S BY <1>1, <1>4, <1>5, <1>6, <2>2
  <2> QED BY <2>1, <2>3
<1> QED BY <1>1, <1>10, <1>11, <1>12, <1>13, <1>14, <1>15 DEF StoreInv

\* DB::Open returns: the database shows what recovery has found.
LEMMA ReturnsStore ==
    ASSUME ControlInv, QueueInv, FilesInv, FilesInv', StoreInv, OpenReturns
    PROVE  StoreInv' /\ Shown' = Shown
<1>1. /\ UNCHANGED <<logfile, last, phase, kind, writers, group, current, mem, imm>>
      /\ pc = "current" /\ pc' = "up" /\ version' = LastEdit.add /\ logNumber' = LastEdit.log
      /\ DeleteObsoleteFiles(logs, tables, manifests, version', logNumber', {}, {})
      /\ mem = {} /\ imm = NoMem /\ writers = <<>> /\ ~bgError
      /\ current = manifestNo /\ Synced = 1
  <2>1. /\ UNCHANGED <<logfile, last, phase, kind, writers, group, current, mem, imm>>
        /\ pc = "current" /\ pc' = "up" /\ version' = LastEdit.add /\ logNumber' = LastEdit.log
        /\ DeleteObsoleteFiles(logs, tables, manifests, version', logNumber', {}, {})
    BY DEF OpenReturns, queue, memory
  <2>2. mem = {} /\ Synced = 1 /\ current = manifestNo
    BY <2>1 DEF StoreInv, OpenStore, FilesInv, Opening
  <2>3. imm = NoMem /\ writers = <<>> /\ ~bgError
    BY <2>1 DEF ControlInv, QuietUnlessUp
  <2> QED BY <2>1, <2>2, <2>3
<1> DEFINE e == Snapshot
           S == TableEntries(tables, DOMAIN version \cup DOMAIN opened)
<1>2. /\ e \in EditType /\ manifestNo \in DOMAIN manifests
      /\ manifests[manifestNo].edits = <<e>>
      /\ DOMAIN e.add = DOMAIN version \cup DOMAIN opened /\ e.log = logfile /\ e.last = last
      /\ logfile \in DOMAIN logs /\ current # 0 /\ manifestNo # 0 /\ manifestNo \in Nat
      /\ DOMAIN logs \in SUBSET Nat /\ manifests \in Files(ManifestType)
      /\ logs \in Files(LogType) /\ tables \in Files(TableType)
      /\ logfile \in Nat
  BY <1>1, SnapshotIs
<1>3. /\ logs[logfile].recs = <<>> /\ \A n \in DOMAIN logs : n <= logfile
      /\ \A f \in S : f.seq <= last
  BY <1>1 DEF StoreInv, OpenStore
<1>4. /\ Len(<<e>>) = 1 /\ <<e>>[1] = e /\ Stops(<<e>>, 1) = {1}
      /\ DOMAIN FilesAfter(<<e>>)[1] = DOMAIN e.add /\ LogAt(<<e>>, 1) = e.log
  <2>1. /\ Len(<<e>>) = 1 /\ <<e>>[1] = e /\ Stops(<<e>>, 1) = 1 .. 1
        /\ DOMAIN FilesAfter(<<e>>)[1] = DOMAIN e.add /\ LogAt(<<e>>, 1) = e.log
    BY <1>2, OneEdit
  <2>2. 1 .. 1 = {1} OBVIOUS
  <2> QED BY <2>1, <2>2
<1> HIDE DEF e
<1>5. Edits = <<e>> /\ LastEdit = e
  <2>1. Edits = <<e>> BY <1>1, <1>2 DEF Edits
  <2>2. Last(<<e>>) = e BY <1>4 DEF Last
  <2> QED BY <1>2, <2>1, <2>2 DEF LastEdit
<1>6. version' = e.add /\ logNumber' = logfile BY <1>1, <1>2, <1>5
<1> DEFINE K == logs'
           U == tables'
<1>7. /\ DOMAIN K \subseteq DOMAIN logs /\ DOMAIN U \subseteq DOMAIN tables
      /\ \A n \in DOMAIN U : U[n] = tables[n]
      /\ DOMAIN U \subseteq DOMAIN version \cup DOMAIN opened
      /\ \A n \in DOMAIN tables : n \in DOMAIN version \cup DOMAIN opened => n \in DOMAIN U
      /\ \A n \in DOMAIN K : n = logfile
      /\ K[logfile] = logs[logfile] /\ logfile \in DOMAIN K
      /\ manifestNo \in DOMAIN manifests' /\ manifests'[manifestNo] = manifests[manifestNo]
  <2>1. LiveTables(version', {}, {}) = DOMAIN version \cup DOMAIN opened
    <3>1. pinned = {} BY <1>1 DEF ControlInv, QuietUnlessUp
    <3> QED BY <1>2, <1>6, <3>1 DEF LiveTables
  <2>2. /\ K = Without(logs, {n \in DOMAIN logs : n < logfile})
        /\ U = Without(tables, DOMAIN tables \ (DOMAIN version \cup DOMAIN opened))
        /\ manifests' = Without(manifests, {n \in DOMAIN manifests : n < manifestNo})
    BY <1>1, <1>6, <2>1 DEF DeleteObsoleteFiles
  <2>3. manifestNo \notin {n \in DOMAIN manifests : n < manifestNo}
    BY <1>2
  <2>4. manifestNo \in DOMAIN manifests' /\ manifests'[manifestNo] = manifests[manifestNo]
    BY <1>2, <2>2, <2>3 DEF Without
  <2> HIDE DEF K, U
  <2>5. /\ DOMAIN U \subseteq DOMAIN tables
        /\ \A n \in DOMAIN U : U[n] = tables[n]
        /\ DOMAIN U \subseteq DOMAIN version \cup DOMAIN opened
        /\ \A n \in DOMAIN tables : n \in DOMAIN version \cup DOMAIN opened => n \in DOMAIN U
    BY <2>2 DEF Without
  <2>6. /\ DOMAIN K = DOMAIN logs \ {n \in DOMAIN logs : n < logfile}
        /\ \A n \in DOMAIN K : K[n] = logs[n]
    BY <2>2 DEF Without
  <2>7. /\ DOMAIN K \subseteq DOMAIN logs
        /\ \A n \in DOMAIN K : n = logfile
        /\ K[logfile] = logs[logfile] /\ logfile \in DOMAIN K
    BY <1>2, <1>3, <2>6
  <2> QED BY <2>4, <2>5, <2>7
<1>8. Edits' = <<e>> /\ Synced' = 1
  BY <1>1, <1>5, <1>7 DEF Edits, Synced
<1>9. /\ TableEntries(U, DOMAIN U) = S /\ TableEntries(U, DOMAIN version') = S
      /\ Named(U, <<e>>, 1) = S /\ Named(tables, <<e>>, 1) = S
  <2> HIDE DEF U
  <2>1. \A f : f \in TableEntries(U, DOMAIN U) <=> f \in S
    BY <1>7, InTables
  <2>2. \A f : f \in TableEntries(U, DOMAIN version \cup DOMAIN opened) <=> f \in S
    BY <1>7, InTables
  <2>3. \A A, B : (\A f : f \in A <=> f \in B) => A = B OBVIOUS
  <2>4. TableEntries(U, DOMAIN U) = S /\ TableEntries(U, DOMAIN version \cup DOMAIN opened) = S
    BY <2>1, <2>2, <2>3
  <2> QED BY <1>2, <1>4, <1>6, <2>4 DEF Named
<1>10. /\ \A f, n, sure : n \in DOMAIN K => f \notin LogPart(K[n], sure)
       /\ \A f, n, sure : n \in DOMAIN logs /\ n >= logfile => f \notin LogPart(logs[n], sure)
  <2>1. \A f, sure : f \notin LogPart(logs[logfile], sure)
    BY <1>3 DEF LogPart
  <2>2. \A n \in DOMAIN logs : n >= logfile => n = logfile BY <1>2, <1>3
  <2> HIDE DEF K
  <2> QED BY <1>7, <2>1, <2>2
<1>11. Found(logs, tables, Edits, Len(Edits), FALSE) = S
  <2> HIDE DEF S
  <2>1. \A f : f \in Found(logs, tables, <<e>>, 1, FALSE) <=> f \in S
    <3> SUFFICES ASSUME NEW f PROVE f \in Found(logs, tables, <<e>>, 1, FALSE) <=> f \in S
      OBVIOUS
    <3>1. f \in Found(logs, tables, <<e>>, 1, FALSE)
            <=> f \in S \/ \E n \in DOMAIN logs : n >= logfile /\ f \in LogPart(logs[n], FALSE)
      <4> DEFINE E == <<e>>
      <4>1. LogAt(E, 1) = logfile /\ Named(tables, E, 1) = S
        BY <1>2, <1>4, <1>9
      <4> HIDE DEF E
      <4>2. f \in Found(logs, tables, E, 1, FALSE)
              <=> f \in Named(tables, E, 1) \/ \E n \in DOMAIN logs : n >= LogAt(E, 1) /\ f \in LogPart(logs[n], FALSE)
        BY InFound
      <4>3. f \in Found(logs, tables, E, 1, FALSE)
              <=> f \in S \/ \E n \in DOMAIN logs : n >= logfile /\ f \in LogPart(logs[n], FALSE)
        BY <4>1, <4>2
      <4> QED BY <4>3 DEF E
    <3>2. ~ \E n \in DOMAIN logs : n >= logfile /\ f \in LogPart(logs[n], FALSE)
      BY <1>10
    <3> QED BY <3>1, <3>2
  <2>2. Found(logs, tables, <<e>>, 1, FALSE) = S BY <2>1
  <2> QED BY <1>4, <1>5, <2>2
<1>12. /\ Unique(S) /\ \A f \in S : phase[f.call] \in Quiet /\ kind[f.call] # "force"
       /\ Written \subseteq CallsOf(S)
  BY <1>1, <1>2, <1>11, DownHas
<1> HIDE DEF S
<1>13. /\ Written' = Written /\ mem' = {} /\ Frozen' = {} /\ OnDisk' = S /\ Logged' = {}
       /\ \A f \in S : Settled(f)'
  <2>1. Written' = Written /\ mem' = {} BY <1>1 DEF Written, Answered
  <2>2. Frozen' = {} BY <1>1 DEF Frozen
  <2>3. OnDisk' = S BY <1>9 DEF OnDisk
  <2>4. \A f : f \notin Logged'
    <3> HIDE DEF K
    <3>1. ASSUME NEW f PROVE f \notin LogsIn(K, DOMAIN K, FALSE)
      <4>1. \A n \in DOMAIN K : f \notin LogPart(K[n], FALSE) BY <1>10
      <4>2. f \in LogsIn(K, DOMAIN K, FALSE)
              <=> \E n \in DOMAIN K \cap DOMAIN K : f \in LogPart(K[n], FALSE)
        BY InLogs
      <4> QED BY <4>1, <4>2
    <3> QED BY <3>1 DEF Logged, K
  <2>5. \A f \in S : f.seq <= last BY <1>3 DEF S
  <2> QED BY <1>1, <1>12, <2>1, <2>2, <2>3, <2>4, <2>5 DEF Settled
<1>14. \A c \in Calls : phase'[c] \notin {"sync", "insert"}
  <2>1. \A c \in Calls : phase[c] \notin Busy BY <1>1, NobodyBusy
  <2> QED BY <1>1, <2>1 DEF Busy, Working
<1>15. UpStore'
  <2>1. Unique(OnDisk \cup Logged)' BY <1>12, <1>13 DEF Unique
  <2>2. \A f \in (OnDisk \cup mem \cup Frozen)' : Settled(f)' BY <1>13
  <2>3. \A f \in Logged' : Settled(f)' \/ InGroup(f)' BY <1>13
  <2>4. Written' \subseteq CallsOf(mem' \cup Frozen' \cup TableEntries(tables', DOMAIN version'))
    BY <1>9, <1>12, <1>13
  <2>5. \A j \in Stops(Edits', Synced') :
          /\ TableEntries(tables', DOMAIN version') \subseteq Named(tables', Edits', j)
          /\ \A sure \in BOOLEAN : \A f \in Frozen' :
                Owed(f, sure)' => f \in Found(logs', tables', Edits', j, sure)
    BY <1>4, <1>8, <1>9, <1>13
  <2> QED BY <1>13, <1>14, <2>1, <2>2, <2>3, <2>4, <2>5 DEF UpStore
<1>16. LastInv'
  <2>1. \A f \in S : f.seq <= last BY <1>3 DEF S
  <2>2. \A j \in Stops(<<e>>, 1) : j # 0 => \A f \in Named(U, <<e>>, j) : f.seq <= <<e>>[j].last
    BY <1>2, <1>4, <1>9, <2>1
  <2> QED BY <1>8, <2>2 DEF LastInv
<1>17. Shown' = Shown
  <2>1. Shown = S BY <1>1, <1>2, <1>11 DEF Shown
  <2>2. Shown' = S BY <1>1, <1>9, <1>13 DEF Shown
  <2> QED BY <2>1, <2>2
<1> QED BY <1>1, <1>15, <1>16, <1>17, UpStored

-----------------------------------------------------------------------------
(* The store, always.                                                      *)

\* A step of something else.
LEMMA OtherStore ==
    ASSUME ControlInv, FilesInv, FilesInv', StoreInv, Pin \/ Unpin \/ Close \/ UNCHANGED vars
    PROVE  StoreInv' /\ Shown' = Shown
<1>1. UNCHANGED <<logs, tables, manifests, current, mem, imm, version, last, logfile, logNumber,
                  manifestNo, recovering, opened, writers, group, phase, kind, pc>>
  BY DEF Pin, Unpin, Close, vars, disk, vset, opening, queue, memory
<1>2. CASE pc = "up" BY <1>1, <1>2, StoreSame
<1>3. CASE pc # "up"
  <2>1. Edits' = Edits /\ Synced' = Synced BY <1>1 DEF Edits, Synced
  <2>2. OpenStore' BY <1>1, <2>1 DEF StoreInv, OpenStore
  <2>3. CASE current # 0
    <3>1. \A j \in 0 .. Len(Edits) :
              /\ Named(tables', Edits, j) = Named(tables, Edits, j)
              /\ \A sure \in BOOLEAN :
                    Found(logs', tables', Edits, j, sure) = Found(logs, tables, Edits, j, sure)
      BY <1>1
    <3> QED BY <1>1, <1>3, <2>1, <2>2, <2>3, <3>1, OpenStays
  <2>4. CASE current = 0
    <3>1. EmptyInv' /\ LastInv' /\ KeptInv'
      BY <1>1, <2>4 DEF StoreInv, EmptyInv, LastInv, KeptInv
    <3>2. Shown' = Shown BY <1>1, <1>3, <2>4 DEF Shown
    <3> QED BY <1>1, <1>3, <2>2, <2>4, <3>1, <3>2 DEF StoreInv
  <2> QED BY <2>3, <2>4
<1> QED BY <1>2, <1>3

\* Every step keeps what was written.
LEMMA StoreStep ==
    ControlInv /\ FilesInv /\ QueueInv /\ WholeRecords /\ JobInv /\ StoreInv /\ ~MayTear
    /\ [Next]_vars => StoreInv'
<1> SUFFICES ASSUME ControlInv, FilesInv, QueueInv, WholeRecords, JobInv, StoreInv, ~MayTear,
                    [Next]_vars
             PROVE  StoreInv'
  OBVIOUS
<1>1. FilesInv' BY FilesStep
<1>2. CASE \E c \in Calls : Write(c) \/ LeaderStep(c)
  BY <1>1, <1>2, WriterStore
<1>3. CASE BackgroundStep BY <1>1, <1>3, BackgroundStepStore
<1>4. CASE OpenStep
  <2>1. CASE NewDB BY <2>1, NewStore
  <2>2. CASE Recover BY <2>2, RecoverStore
  <2>3. CASE RecoverLogFile BY <2>3, LogStore
  <2>4. CASE OpenWritesManifest BY <2>4, ManifestStore
  <2>5. CASE OpenSetsCurrent BY <2>5, CurrentStore
  <2>6. CASE OpenReturns BY <1>1, <2>6, ReturnsStore
  <2>7. CASE OpenFails BY <2>7, ProcessEnds
  <2> QED BY <1>4, <2>1, <2>2, <2>3, <2>4, <2>5, <2>6, <2>7 DEF OpenStep
<1>5. CASE Closed \/ ProcessCrash BY <1>5, ProcessEnds
<1>6. CASE MachineCrashes BY <1>1, <1>6, MachineEnds
<1>7. CASE Pin \/ Unpin \/ Close \/ UNCHANGED vars
  BY <1>1, <1>7, OtherStore
<1> QED BY <1>2, <1>3, <1>4, <1>5, <1>6, <1>7 DEF Next

\* An empty directory satisfies the invariants.
LEMMA StoreInit == DBImplAssumption /\ Init => QueueInv /\ WholeRecords /\ JobInv /\ StoreInv
<1> SUFFICES ASSUME Init PROVE QueueInv /\ WholeRecords /\ JobInv /\ StoreInv
  OBVIOUS
<1>1. /\ logs = Empty /\ tables = Empty /\ current = 0 /\ pc = "down" /\ writers = <<>>
      /\ mem = {} /\ \A c \in Calls : phase[c] = "idle"
  BY DEF Init
<1>2. QueueInv
  <2>1. Len(writers) = 0 /\ 1 .. 0 = {} BY <1>1
  <2> QED BY <1>1, <2>1 DEF QueueInv, Busy, Working
<1>3. WholeRecords BY <1>1, EmptyFiles DEF WholeRecords
<1>4. JobInv BY <1>1 DEF JobInv
<1>5. StoreInv
  BY <1>1 DEF StoreInv, EmptyInv, LastInv, KeptInv, OpenStore
<1> QED BY <1>2, <1>3, <1>4, <1>5

\* Wherever a crash cuts the descriptor, it leads to every write that was
\* answered and to no number twice; a running database shows what it leads to
\* (Write, LogAndApply, DeleteObsoleteFiles, DB::Open).
LEMMA StoreAlways == ~MayTear /\ Spec => [](QueueInv /\ WholeRecords /\ JobInv /\ StoreInv)
<1> SUFFICES ASSUME ~MayTear PROVE Spec => [](QueueInv /\ WholeRecords /\ JobInv /\ StoreInv)
  OBVIOUS
<1> DEFINE I == QueueInv /\ WholeRecords /\ JobInv /\ StoreInv
<1>1. Init => I BY DBImplAssumption, StoreInit
<1>2. ControlInv /\ FilesInv /\ I /\ [Next]_vars => I'
  BY QueueStep, WholeStep, JobStep, StoreStep
<1> QED BY <1>1, <1>2, ControlAlways, FilesAlways, PTL DEF Spec

\* What a running database shows was taken from a log or is in a table; a read
\* at the last sequence number sees all of it.
LEMMA ShownIs ==
    ASSUME ControlInv, FilesInv, StoreInv, pc = "up"
    PROVE  /\ Visible = Shown /\ Shown = mem \cup Frozen \cup TableEntries(tables, DOMAIN version)
           /\ Shown \subseteq OnDisk \cup Logged /\ \A e \in Shown : Settled(e) /\ e \in Entries
           /\ Written \subseteq CallsOf(Shown)
<1>1. UpStore /\ logfile \in DOMAIN logs BY UpIs, UpHas
<1>2. Shown = mem \cup Frozen \cup TableEntries(tables, DOMAIN version)
  BY DEF Shown
<1>3. UNION ToSet(imm) = Frozen
  <2>1. imm \in {NoMem} \cup {<<m>> : m \in EntrySets}
    BY DEF FilesInv, FileTypes
  <2>2. CASE imm = NoMem BY <2>2 DEF NoMem, ToSet, Frozen
  <2>3. CASE imm # NoMem
    <3>1. PICK m \in EntrySets : imm = <<m>> BY <2>1, <2>3
    <3>2. ToSet(<<m>>) = {m} BY DEF ToSet
    <3>3. imm[1] = m BY <3>1
    <3> QED BY <2>3, <3>1, <3>2, <3>3 DEF Frozen
  <2> QED BY <2>2, <2>3
<1>4. \A e \in Shown : Settled(e) /\ e \in Entries
  BY <1>1, <1>2, UpEntries DEF UpStore
<1>5. Visible = Shown
  <2>1. Visible = {e \in Shown : e.seq <= last}
    BY <1>2, <1>3 DEF Visible
  <2> QED BY <1>4, <2>1 DEF Settled
<1>6. mem \subseteq Logged /\ Frozen \subseteq Logged
  <2>1. \A e \in mem : e \in LogPart(logs[logfile], FALSE)
    BY <1>1 DEF UpStore, Owed
  <2>2. \A e \in Frozen : e \in LogsFrom(logs, logNumber, FALSE)
    BY <1>1 DEF UpStore, Owed
  <2>3. \A e : (\E n \in DOMAIN logs : e \in LogPart(logs[n], FALSE)) => e \in Logged
    BY InLogs DEF Logged
  <2>4. \A e \in Frozen : \E n \in DOMAIN logs : e \in LogPart(logs[n], FALSE)
    BY <2>2, InNewerLogs
  <2> QED BY <1>1, <2>1, <2>3, <2>4
<1>7. Shown \subseteq OnDisk \cup Logged BY <1>2, <1>6, UpEntries
<1>8. Written \subseteq CallsOf(Shown) BY <1>1, <1>2 DEF UpStore
<1> QED BY <1>2, <1>4, <1>5, <1>7, <1>8

\* What DB::Open would find if the process died now.
LEMMA FoundNow ==
    ASSUME FilesInv, WholeRecords, StoreInv, ~MayTear
    PROVE  /\ Recoverable(Disk) \subseteq OnDisk \cup Logged
           /\ pc # "up" => Recoverable(Disk) = Shown /\ Unique(Shown)
           /\ Written \subseteq CallsOf(Recoverable(Disk))
<1>1. Recoverable(Disk) = IF current = 0 THEN {}
                          ELSE Found(logs, tables, Edits, Len(Edits), FALSE)
  BY RecoverableNow
<1>2. CASE current = 0
  <2>1. pc # "up" /\ Written = {}
    BY <1>2 DEF StoreInv, EmptyInv, Written, Answered
  <2> QED BY <1>1, <1>2, <2>1 DEF Shown, Unique
<1>3. CASE current # 0
  <2>1. logs \in Files(LogType) /\ tables \in Files(TableType)
    BY DEF FilesInv, FileTypes
  <2>2. Found(logs, tables, Edits, Len(Edits), FALSE) \subseteq OnDisk \cup Logged
    BY <2>1, EntriesAre DEF OnDisk, Logged
  <2>3. KeptAt(logs, tables, Edits, Len(Edits))
    BY <1>3, StopsAre DEF StoreInv, KeptInv
  <2>4. Written \subseteq CallsOf(Found(logs, tables, Edits, Len(Edits), FALSE))
    BY <2>3 DEF KeptAt
  <2>5. pc # "up" => Unique(Found(logs, tables, Edits, Len(Edits), FALSE))
    BY <1>3, DownHas
  <2> QED BY <1>1, <1>3, <2>2, <2>4, <2>5 DEF Shown
<1> QED BY <1>2, <1>3

\* Without torn appends: a sequence number belongs to one write, on disk, in the
\* memtables and in whatever part of the files a crash leaves, and between two
\* writes no entry is above the number the next one builds on (DBImpl::Write,
\* RecoverLogFile, VersionSet::Recover).
THEOREM SequencesAreUnique == ~MayTear /\ Spec => []SequencesUnique
<1> SUFFICES ASSUME ~MayTear PROVE Spec => []SequencesUnique OBVIOUS
<1>1. ControlInv /\ FilesInv /\ QueueInv /\ WholeRecords /\ JobInv /\ StoreInv => SequencesUnique
  <2> SUFFICES ASSUME ControlInv, FilesInv, QueueInv, WholeRecords, StoreInv
               PROVE  SequencesUnique
    OBVIOUS
  <2> DEFINE all == Recoverable(Disk) \cup (IF pc = "up" THEN Visible ELSE {})
             calm == phase \in [Calls -> {"idle", "queued", "ok", "error", "lost"}]
  <2>1. Unique(all) /\ (pc = "up" /\ calm => \A e \in all : e.seq <= last)
    <3>1. CASE pc = "up"
      <4>1. all \subseteq OnDisk \cup Logged BY <3>1, ShownIs, FoundNow
      <4>2. UpStore BY <3>1 DEF StoreInv
      <4>3. Unique(all) BY <4>1, <4>2 DEF UpStore, Unique
      <4>4. ASSUME calm PROVE \A e \in all : e.seq <= last
        <5>1. \A d \in Calls : phase[d] \notin Working
          BY <4>4 DEF Working
        <5>2. \A e : ~InGroup(e) BY <5>1, NoGroup
        <5>3. \A e \in OnDisk \cup Logged : Settled(e)
          BY <4>2, <5>2 DEF UpStore
        <5> QED BY <4>1, <5>3 DEF Settled
      <4> HIDE DEF all, calm
      <4> QED BY <4>3, <4>4
    <3>2. CASE pc # "up"
      <4>1. all = Shown /\ Unique(Shown) BY <3>2, FoundNow
      <4> QED BY <3>2, <4>1
    <3> QED BY <3>1, <3>2
  <2> QED BY <2>1 DEF SequencesUnique, Unique
<1> QED BY <1>1, ControlAlways, FilesAlways, StoreAlways, PTL

\* Without torn appends: a write that was answered with success is found by
\* recovery after the process died at any point, and a sync write after the
\* machine did (DBImpl::Write, LogAndApply, DeleteObsoleteFiles, DB::Open).
THEOREM AnswersAreKept == ~MayTear /\ Spec => []AnswersKept
<1> SUFFICES ASSUME ~MayTear PROVE Spec => []AnswersKept OBVIOUS
<1>1. FilesInv /\ QueueInv /\ WholeRecords /\ JobInv /\ StoreInv => AnswersKept
  BY FoundNow DEF AnswersKept
<1> QED BY <1>1, FilesAlways, StoreAlways, PTL

-----------------------------------------------------------------------------
(* The database implements the store it promises.                          *)

\* What the store shows is what a read, or recovery, finds.
LEMMA ContentsAre == ~MayTear /\ DatabaseInv => StoreContents = CallsOf(Shown)
BY ShownIs, FoundNow DEF DatabaseInv, StoreContents

\* The same of the next state.
LEMMA ContentsNext ==
    ASSUME ~MayTear, DatabaseInv'
    PROVE  StoreContents' = CallsOf(Shown')
<1>1. (~MayTear /\ DatabaseInv)' OBVIOUS
<1>2. (StoreContents = CallsOf(Shown))' BY <1>1, ContentsAre, PTL
<1> QED BY <1>2 DEF CallsOf

\* A call between Write and its answer is pending.
LEMMA CallsAre ==
    ASSUME DatabaseInv
    PROVE  \A c \in Calls :
              /\ phase[c] \in Busy => StoreCall[c] = "pending"
              /\ phase[c] \in {"idle"} \cup Quiet => StoreCall[c] = phase[c]
              /\ phase[c] \in Busy \cup {"idle"} \cup Quiet
<1>1. phase \in [Calls -> Phases]
  BY DEF DatabaseInv, ControlInv, ControlTypes
<1>2. \A c \in Calls : phase[c] \in Busy \cup {"idle"} \cup Quiet
  BY <1>1 DEF Phases, Busy, Working, Quiet
<1> QED BY <1>1, <1>2 DEF StoreCall, Busy, Working, Quiet

\* The same of the next state.
LEMMA CallsNext ==
    ASSUME DatabaseInv'
    PROVE  \A c \in Calls :
              /\ phase'[c] \in Busy => StoreCall'[c] = "pending"
              /\ phase'[c] \in {"idle"} \cup Quiet => StoreCall'[c] = phase'[c]
              /\ phase'[c] \in Busy \cup {"idle"} \cup Quiet
<1>1. phase' \in [Calls -> Phases]
  BY DEF DatabaseInv, ControlInv, ControlTypes
<1>2. \A c \in Calls : phase'[c] \in Busy \cup {"idle"} \cup Quiet
  BY <1>1 DEF Phases, Busy, Working, Quiet
<1> QED BY <1>1, <1>2 DEF StoreCall, Busy, Working, Quiet

\* A step between two of the store's.
LEMMA StoreStutters ==
    ASSUME ~MayTear, DatabaseInv, DatabaseInv', Shown' = Shown, kind' = kind,
           \A c \in Calls : phase'[c] = phase[c] \/ (phase[c] \in Busy /\ phase'[c] \in Busy)
    PROVE  UNCHANGED Store!vars
<1>1. StoreContents' = StoreContents BY ContentsAre, ContentsNext
<1>2. StoreCall' = StoreCall
  <2>1. \A c \in Calls : StoreCall'[c] = StoreCall[c]
    BY CallsAre, CallsNext
  <2>2. StoreCall = [c \in Calls |-> StoreCall[c]] /\ StoreCall' = [c \in Calls |-> StoreCall'[c]]
    BY DEF StoreCall
  <2> QED BY <2>1, <2>2
<1> QED BY <1>1, <1>2 DEF Store!vars

\* A group is answered.
LEMMA StoreResponds ==
    ASSUME ~MayTear, DatabaseInv, DatabaseInv', writers # <<>>,
           NEW n \in 1 .. Len(writers), NEW answer \in {"ok", "error"}, Answer(n, answer),
           NEW S, S = {writers[i] : i \in 1 .. n},
           StoreContents' = IF answer = "ok" THEN StoreContents \cup {c \in S : kind[c] # "force"}
                                             ELSE StoreContents
    PROVE  Store!Next
<1>1. /\ Len(writers) \in Nat /\ S \subseteq Calls /\ S # {}
      /\ \A c \in S : phase[c] \in Busy
      /\ \A i \in 1 .. Len(writers) : writers[i] \in Calls
  BY WritersAre DEF DatabaseInv, QueueInv
<1>2. \A c \in S : StoreCall[c] = "pending" BY <1>1, CallsAre
<1>3. /\ kind' = kind
      /\ \A c \in Calls : phase'[c] = IF c \in S THEN answer ELSE phase[c]
  BY DEF Answer
<1>4. \A c \in Calls : StoreCall'[c] = IF c \in S THEN answer ELSE StoreCall[c]
  BY <1>3, CallsAre, CallsNext DEF Quiet
<1>5. StoreCall' = [c \in Calls |-> IF c \in S THEN answer ELSE StoreCall[c]]
  <2>1. StoreCall' = [c \in Calls |-> StoreCall'[c]] BY DEF StoreCall
  <2> QED BY <1>4, <2>1
<1>6. S \subseteq Store!Pending BY <1>1, <1>2 DEF Store!Pending
<1>7. Store!Respond(S, answer)
  BY <1>1, <1>3, <1>5, <1>6 DEF Store!Respond
<1> QED BY <1>1, <1>7 DEF Store!Next

\* DBImpl::Write is called.
LEMMA StoreSubmits ==
    ASSUME ~MayTear, DatabaseInv, DatabaseInv', NEW c \in Calls, Write(c)
    PROVE  Store!Next
<1>1. /\ phase[c] = "idle" /\ phase' = [phase EXCEPT ![c] = "queued"]
      /\ \E k \in Kinds : kind' = [kind EXCEPT ![c] = k]
      /\ UNCHANGED <<mem, imm, tables, version, pc, logs, manifests, current>>
      /\ pc = "up"
  BY DEF Write, disk, vset, memory
<1>2. Shown' = Shown BY <1>1 DEF Shown, Frozen
<1>3. StoreContents' = StoreContents BY <1>2, ContentsAre, ContentsNext
<1>4. phase \in [Calls -> Phases]
  BY DEF DatabaseInv, ControlInv, ControlTypes
<1>5. \A d \in Calls : StoreCall'[d] = IF d = c THEN "pending" ELSE StoreCall[d]
  BY <1>1, <1>4, CallsAre, CallsNext DEF Busy
<1>6. StoreCall' = [StoreCall EXCEPT ![c] = "pending"]
  <2>1. StoreCall = [d \in Calls |-> StoreCall[d]] /\ StoreCall' = [d \in Calls |-> StoreCall'[d]]
    BY DEF StoreCall
  <2> QED BY <1>5, <2>1
<1>7. StoreCall[c] = "idle" BY <1>1, CallsAre
<1>8. Store!Submit(c) BY <1>1, <1>3, <1>6, <1>7 DEF Store!Submit
<1> QED BY <1>8 DEF Store!Next

\* A step of the leader: nothing for the store, or the answer of a group.
LEMMA LeaderPromise ==
    ASSUME ~MayTear, DatabaseInv, DatabaseInv', NEW c \in Calls, LeaderStep(c)
    PROVE  [Store!Next]_(Store!vars)
<1>0. ControlInv /\ FilesInv /\ QueueInv /\ StoreInv BY DEF DatabaseInv
<1>1. ASSUME UNCHANGED <<mem, imm, tables, version>>, pc = "up", pc' = "up" PROVE Shown' = Shown
  BY <1>1 DEF Shown, Frozen
<1>2. ASSUME Shown' = Shown, kind' = kind, NEW p \in Working, phase[c] \in Busy,
             phase' = [phase EXCEPT ![c] = p]
      PROVE  [Store!Next]_(Store!vars)
  <2>1. phase \in [Calls -> Phases] BY <1>0 DEF ControlInv, ControlTypes
  <2>2. \A d \in Calls : phase'[d] = phase[d] \/ (phase[d] \in Busy /\ phase'[d] \in Busy)
    BY <1>2, <2>1 DEF Busy
  <2> QED BY <1>2, <2>2, StoreStutters
<1>3. ASSUME Shown' = Shown, Leader(c), NEW a \in {"ok", "error"}, Answer(1, a),
             a = "ok" => kind[c] = "force"
      PROVE  [Store!Next]_(Store!vars)
  <2>1. writers # <<>> /\ 1 \in 1 .. Len(writers) /\ writers[1] = c
    BY <1>0, <1>3, LeaderIs DEF Leader
  <2> DEFINE S == {writers[i] : i \in 1 .. 1}
  <2>2. S = {c} BY <2>1
  <2>3. StoreContents' = StoreContents
    BY <1>3, ContentsAre, ContentsNext
  <2>4. StoreContents' = IF a = "ok" THEN StoreContents \cup {d \in S : kind[d] # "force"}
                                     ELSE StoreContents
    BY <1>3, <2>2, <2>3
  <2> HIDE DEF S
  <2>5. S = {writers[i] : i \in 1 .. 1} BY DEF S
  <2> QED BY <1>3, <2>1, <2>4, <2>5, StoreResponds
<1>4. CASE WriteRejected(c) \/ SwitchFailed(c)
  <2>1. Leader(c) /\ Answer(1, "error") /\ UNCHANGED <<mem, imm, tables, version, pc>>
    BY <1>4 DEF WriteRejected, SwitchFailed, MaySwitch, NeedsSwitch, disk, vset, memory
  <2>2. pc = "up" BY <1>0, <2>1, LeaderIs
  <2> QED BY <1>1, <1>3, <2>1, <2>2
<1>5. CASE WriteHasRoom(c)
  <2>1. /\ Leader(c) /\ UNCHANGED <<mem, imm, tables, version, pc, kind>>
        /\ phase' = [phase EXCEPT ![c] = "append"]
    BY <1>5 DEF WriteHasRoom, Proceed, disk, vset, memory
  <2>2. pc = "up" /\ phase[c] \in Busy /\ "append" \in Working
    BY <1>0, <2>1, LeaderIs DEF Busy, Working
  <2> QED BY <1>1, <1>2, <2>1, <2>2
<1>6. CASE WriteWaits(c)
  <2>1. Leader(c) /\ UNCHANGED <<mem, imm, tables, version, pc, kind, phase>>
    BY <1>6 DEF WriteWaits, NeedsSwitch, disk, vset, memory
  <2>2. pc = "up" BY <1>0, <2>1, LeaderIs
  <2> QED BY <1>1, <2>1, <2>2, StoreStutters
<1>7. CASE SwitchMemTable(c)
  <2>1. /\ Leader(c) /\ UNCHANGED <<tables, version, pc>> /\ imm = NoMem
        /\ imm' = <<mem>> /\ mem' = {} /\ Proceed(c)
    BY <1>7 DEF SwitchMemTable, MaySwitch, NeedsSwitch, MustWait
  <2>2. pc = "up" /\ phase[c] \in Busy /\ "append" \in Working
    BY <1>0, <2>1, LeaderIs DEF Busy, Working
  <2>3. Frozen = {} /\ Frozen' = mem
    <3>1. imm' # NoMem /\ imm'[1] = mem BY <2>1 DEF NoMem
    <3> QED BY <2>1, <3>1 DEF Frozen
  <2>4. Shown' = Shown BY <2>1, <2>2, <2>3 DEF Shown
  <2>5. CASE kind[c] = "force" BY <1>3, <2>1, <2>4, <2>5 DEF Proceed
  <2>6. CASE kind[c] # "force"
    BY <1>2, <2>1, <2>2, <2>4, <2>6 DEF Proceed
  <2> QED BY <2>5, <2>6
<1>8. CASE AppendLog(c) \/ AppendFailed(c) \/ SyncLog(c) \/ SyncFailed(c)
  <2>1. PICK p \in Working : phase' = [phase EXCEPT ![c] = p]
    BY <1>8 DEF AppendLog, AppendFailed, SyncLog, SyncFailed, Working
  <2>2. phase[c] \in Working /\ UNCHANGED <<mem, imm, tables, version, pc, kind>>
    BY <1>8 DEF AppendLog, AppendFailed, SyncLog, SyncFailed, Working, disk, vset, memory
  <2>3. pc = "up" /\ phase[c] \in Busy BY <1>0, <2>2, WorkerIs DEF Busy
  <2> QED BY <1>1, <1>2, <2>1, <2>2, <2>3
<1>9. CASE FinishWrite(c)
  <2> DEFINE a == IF phase[c] = "insert" THEN "ok" ELSE "error"
             S == {writers[i] : i \in 1 .. group}
             G == GroupEntries
  <2>1. /\ phase[c] \in Working /\ Answer(group, a) /\ a \in {"ok", "error"}
        /\ UNCHANGED <<imm, tables, version, pc>>
        /\ mem' = IF a = "ok" THEN mem \cup G ELSE mem
    BY <1>9 DEF FinishWrite, Working, disk
  <2>2. /\ pc = "up" /\ writers # <<>> /\ group \in 1 .. Len(writers)
    BY <1>0, <2>1, WorkerIs
  <2>3. /\ \A e \in G : e.call \in Calls /\ kind[e.call] # "force"
                        /\ \E i \in 1 .. group : writers[i] = e.call
        /\ \A d \in Calls : (\E i \in 1 .. group : writers[i] = d) /\ kind[d] # "force"
                 => d \in CallsOf(G)
    BY <1>0, GroupNumbers DEF FilesInv, FileTypes
  <2>4. \A d \in S : d \in Calls
    <3>1. \A i \in 1 .. group : i \in 1 .. Len(writers)
      BY <1>0, <2>2, WritersAre
    <3> QED BY <1>0, <3>1, WritersAre
  <2> HIDE DEF a, G
  <2>5. Shown' = IF a = "ok" THEN Shown \cup G ELSE Shown
    BY <2>1, <2>2 DEF Shown, Frozen
  <2>6. CallsOf(G) = {d \in S : kind[d] # "force"}
    BY <2>3, <2>4 DEF CallsOf
  <2>7. CallsOf(Shown') = IF a = "ok" THEN CallsOf(Shown) \cup CallsOf(G) ELSE CallsOf(Shown)
    BY <2>5 DEF CallsOf
  <2> HIDE DEF S
  <2>8. StoreContents' = IF a = "ok" THEN StoreContents \cup {d \in S : kind[d] # "force"}
                                     ELSE StoreContents
    BY <2>6, <2>7, ContentsAre, ContentsNext
  <2>9. S = {writers[i] : i \in 1 .. group} BY DEF S
  <2> QED BY <2>1, <2>2, <2>8, <2>9, StoreResponds
<1> QED BY <1>4, <1>5, <1>6, <1>7, <1>8, <1>9 DEF LeaderStep

\* Background work, DB::Open and iterators show what was shown.
LEMMA StoreUnmoved ==
    ASSUME ~MayTear, DatabaseInv, DatabaseInv',
           \/ BackgroundStep \/ (OpenStep /\ ~OpenFails)
           \/ Pin \/ Unpin \/ Close \/ UNCHANGED vars
    PROVE  UNCHANGED Store!vars
<1>1. ControlInv /\ FilesInv /\ FilesInv' /\ QueueInv /\ WholeRecords /\ JobInv /\ StoreInv
  BY DEF DatabaseInv
<1>2. Shown' = Shown
  <2>1. CASE BackgroundStep BY <1>1, <2>1, BackgroundStepStore
  <2>2. CASE OpenStep /\ ~OpenFails
    BY <1>1, <2>2, NewStore, RecoverStore, LogStore, ManifestStore, CurrentStore, ReturnsStore
       DEF OpenStep
  <2>3. CASE Pin \/ Unpin \/ Close \/ UNCHANGED vars
    BY <1>1, <2>3, OtherStore
  <2> QED BY <2>1, <2>2, <2>3
<1>3. phase' = phase /\ kind' = kind
  <2>1. CASE BackgroundStep
    BY <2>1 DEF BackgroundStep, BackgroundNothing, StartFlush, FlushBuilt, FlushInstalled, FlushFailed,
                StartMove, StartCompaction, CompactionBuilt, CompactionInstalled, CompactionFailed,
                FlushEnds, BackgroundDone, SignalAll, queue
  <2>2. CASE OpenStep /\ ~OpenFails
    BY <2>2 DEF OpenStep, NewDB, Recover, RecoverLogFile, OpenWritesManifest, OpenSetsCurrent,
                OpenReturns, queue
  <2>3. CASE Pin \/ Unpin \/ Close \/ UNCHANGED vars
    BY <2>3 DEF Pin, Unpin, Close, vars, queue
  <2> QED BY <2>1, <2>2, <2>3
<1> QED BY <1>2, <1>3, StoreStutters

\* What the database shows has every write that was answered with success.
LEMMA WrittenShown == ControlInv /\ FilesInv /\ StoreInv => Written \subseteq CallsOf(Shown)
<1> SUFFICES ASSUME ControlInv, FilesInv, StoreInv PROVE Written \subseteq CallsOf(Shown)
  OBVIOUS
<1>1. CASE pc = "up" BY <1>1, ShownIs
<1>2. CASE pc # "up" /\ current # 0 BY <1>2, DownHas DEF Shown
<1>3. CASE current = 0
  <2>1. Written = {} BY <1>3 DEF StoreInv, EmptyInv, Written, Answered
  <2> QED BY <2>1
<1> QED BY <1>1, <1>2, <1>3

\* The same of the next state.
LEMMA WrittenNext ==
    ASSUME ControlInv', FilesInv', StoreInv'
    PROVE  Written' \subseteq CallsOf(Shown')
<1>1. (ControlInv /\ FilesInv /\ StoreInv)' OBVIOUS
<1>2. (Written \subseteq CallsOf(Shown))' BY <1>1, WrittenShown, PTL
<1> QED BY <1>2 DEF CallsOf

\* What is shown was written by a call, and by none that forces a flush.
LEMMA ShownWrites ==
    ASSUME ControlInv, FilesInv, QueueInv, StoreInv
    PROVE  \A c \in CallsOf(Shown) : c \in Calls /\ kind[c] # "force"
<1>1. CASE pc = "up" BY <1>1, ShownIs DEF Settled, CallsOf, Entries
<1>2. CASE pc # "up" /\ current # 0
  <2>1. Len(Edits) \in Stops(Edits, Synced) BY <1>2, StopsAre
  <2> QED BY <1>2, <2>1, FoundCalls DEF Shown, CallsOf, Entries
<1>3. CASE pc # "up" /\ current = 0 BY <1>3 DEF Shown, CallsOf
<1> QED BY <1>1, <1>2, <1>3

\* The process ends: recovery finds what was answered and not lost, and nothing
\* that no call wrote.
LEMMA StoreRestarts ==
    ASSUME ~MayTear, DatabaseInv, DatabaseInv', current # 0, pc' = "down", kind' = kind,
           NEW machine \in BOOLEAN, NEW k \in Stops(Edits, Synced),
           Shown' \subseteq Found(logs, tables, Edits, k, FALSE),
           \A c \in Calls :
              phase'[c] = IF \/ phase[c] \in Busy
                             \/ /\ phase[c] = "ok" /\ machine /\ kind[c] = "async"
                                /\ c \notin CallsOf(Shown')
                          THEN "lost" ELSE phase[c]
    PROVE  Store!Next
<1>1. /\ ControlInv /\ FilesInv /\ QueueInv /\ StoreInv
      /\ ControlInv' /\ FilesInv' /\ StoreInv'
  BY DEF DatabaseInv
<1>2. StoreContents = CallsOf(Shown) /\ StoreContents' = CallsOf(Shown')
  BY ContentsAre, ContentsNext
<1>3. \A c \in Calls :
         StoreCall'[c] = CASE StoreCall[c] = "pending" -> "lost"
                           [] StoreCall[c] = "ok" /\ machine /\ kind[c] = "async"
                              /\ c \notin StoreContents' -> "lost"
                           [] OTHER -> StoreCall[c]
  <2> DEFINE C == StoreContents'
  <2>1. SUFFICES ASSUME NEW c \in Calls
                 PROVE  StoreCall'[c] = CASE StoreCall[c] = "pending" -> "lost"
                           [] StoreCall[c] = "ok" /\ machine /\ kind[c] = "async" /\ c \notin C -> "lost"
                           [] OTHER -> StoreCall[c]
    OBVIOUS
  <2>2. phase'[c] = IF phase[c] \in Busy \/ (phase[c] = "ok" /\ machine /\ kind[c] = "async" /\ c \notin C)
                    THEN "lost" ELSE phase[c]
    BY <1>2
  <2> HIDE DEF C
  <2>3. CASE phase[c] \in Busy
    <3>1. phase'[c] = "lost" /\ StoreCall[c] = "pending"
      BY <2>2, <2>3, CallsAre
    <3>2. StoreCall'[c] = "lost" BY <3>1, CallsNext DEF Quiet
    <3> QED BY <3>1, <3>2
  <2>4. CASE phase[c] \notin Busy
    <3>1. phase[c] \in {"idle"} \cup Quiet /\ StoreCall[c] = phase[c] /\ phase[c] # "pending"
      BY <2>4, CallsAre DEF Quiet
    <3>2. phase'[c] \in {"idle"} \cup Quiet BY <2>2, <3>1 DEF Quiet
    <3>3. StoreCall'[c] = phase'[c] BY <3>2, CallsNext
    <3> QED BY <2>2, <2>4, <3>1, <3>3
  <2> QED BY <2>3, <2>4
<1>4. StoreCall' = [c \in Calls |->
         CASE StoreCall[c] = "pending" -> "lost"
           [] StoreCall[c] = "ok" /\ machine /\ kind[c] = "async" /\ c \notin StoreContents' -> "lost"
           [] OTHER -> StoreCall[c]]
  <2> DEFINE C == StoreContents'
             K == StoreCall'
  <2>1. K = [c \in Calls |-> K[c]] BY DEF StoreCall
  <2>2. \A c \in Calls :
           K[c] = CASE StoreCall[c] = "pending" -> "lost"
                    [] StoreCall[c] = "ok" /\ machine /\ kind[c] = "async" /\ c \notin C -> "lost"
                    [] OTHER -> StoreCall[c]
    BY <1>3
  <2> HIDE DEF C, K
  <2>3. K = [c \in Calls |->
                CASE StoreCall[c] = "pending" -> "lost"
                  [] StoreCall[c] = "ok" /\ machine /\ kind[c] = "async" /\ c \notin C -> "lost"
                  [] OTHER -> StoreCall[c]]
    BY <2>1, <2>2
  <2> QED BY <2>3 DEF C, K
<1>5. StoreContents' \subseteq
         StoreContents \cup {c \in Calls : StoreCall[c] \in {"pending", "error", "lost"}}
  <2> SUFFICES ASSUME NEW c \in CallsOf(Shown')
               PROVE  \/ c \in StoreContents
                      \/ c \in Calls /\ StoreCall[c] \in {"pending", "error", "lost"}
    BY <1>2
  <2>1. c \in Calls /\ phase[c] \in Quiet \cup Busy /\ kind[c] # "force"
    <3>1. PICK e \in Found(logs, tables, Edits, k, FALSE) : e.call = c
      BY DEF CallsOf
    <3> QED BY <1>1, <3>1, FoundCalls DEF Entries
  <2>2. CASE phase[c] = "ok"
    <3>1. c \in Written BY <2>1, <2>2 DEF Written, Answered
    <3> QED BY <1>1, <1>2, <3>1, WrittenShown
  <2>3. CASE phase[c] \in Busy \cup {"error", "lost"}
    BY <2>1, <2>3, CallsAre DEF Quiet
  <2> QED BY <2>1, <2>2, <2>3 DEF Quiet
<1>6. {c \in StoreContents : StoreCall'[c] = "ok"} \subseteq StoreContents'
  <2> SUFFICES ASSUME NEW c \in CallsOf(Shown), StoreCall'[c] = "ok" PROVE c \in CallsOf(Shown')
    BY <1>2
  <2>1. kind[c] # "force" BY <1>1, ShownWrites
  <2>2. c \in Calls BY <1>1, ShownWrites
  <2>3. phase'[c] = "ok" BY <2>2, CallsNext DEF Quiet
  <2>4. c \in Written' BY <2>1, <2>2, <2>3 DEF Written, Answered
  <2> QED BY <1>1, <2>4, WrittenNext
<1>7. Store!Restart(machine) BY <1>4, <1>5, <1>6 DEF Store!Restart
<1> QED BY <1>7 DEF Store!Next

\* A step of the database is one of the store it promises, or none.
LEMMA PromiseStep ==
    ASSUME ~MayTear, DatabaseInv, DatabaseInv', [Next]_vars
    PROVE  [Store!Next]_(Store!vars)
<1>1. ControlInv /\ FilesInv /\ FilesInv' /\ QueueInv /\ WholeRecords /\ StoreInv
  BY DEF DatabaseInv
<1>2. CASE \E c \in Calls : Write(c) BY <1>2, StoreSubmits
<1>3. CASE \E c \in Calls : LeaderStep(c) BY <1>3, LeaderPromise
<1>4. CASE \/ BackgroundStep \/ (OpenStep /\ ~OpenFails)
           \/ Pin \/ Unpin \/ Close \/ UNCHANGED vars
  BY <1>4, StoreUnmoved
<1>5. CASE Closed \/ ProcessCrash \/ OpenFails
  <2>1. /\ current # 0 /\ pc' = "down" /\ kind' = kind
        /\ Shown' = Found(logs, tables, Edits, Len(Edits), FALSE)
        /\ \A c \in Calls : phase'[c] = IF phase[c] \in Busy THEN "lost" ELSE phase[c]
    BY <1>1, <1>5, ProcessEnds
  <2>2. Len(Edits) \in Stops(Edits, Synced) BY <1>1, <2>1, StopsAre
  <2>3. /\ FALSE \in BOOLEAN
        /\ Shown' \subseteq Found(logs, tables, Edits, Len(Edits), FALSE)
        /\ \A c \in Calls :
              phase'[c] = IF \/ phase[c] \in Busy
                             \/ /\ phase[c] = "ok" /\ FALSE /\ kind[c] = "async"
                                /\ c \notin CallsOf(Shown')
                          THEN "lost" ELSE phase[c]
    BY <2>1
  <2> QED BY <2>1, <2>2, <2>3, StoreRestarts
<1>6. CASE MachineCrashes
  <2>1. /\ current # 0 /\ pc' = "down" /\ kind' = kind
        /\ \A c \in Calls :
              phase'[c] = IF \/ phase[c] \in Busy
                             \/ /\ phase[c] = "ok" /\ kind[c] = "async"
                                /\ c \notin CallsOf(Shown')
                          THEN "lost" ELSE phase[c]
    BY <1>1, <1>6, MachineEnds
  <2>2. PICK k \in Stops(Edits, Synced) : Shown' \subseteq Found(logs, tables, Edits, k, FALSE)
    BY <1>1, <1>6, MachineEnds
  <2>3. /\ TRUE \in BOOLEAN
        /\ \A c \in Calls :
              phase'[c] = IF \/ phase[c] \in Busy
                             \/ /\ phase[c] = "ok" /\ TRUE /\ kind[c] = "async"
                                /\ c \notin CallsOf(Shown')
                          THEN "lost" ELSE phase[c]
    BY <2>1
  <2> QED BY <2>1, <2>2, <2>3, StoreRestarts
<1> QED BY <1>2, <1>3, <1>4, <1>5, <1>6 DEF Next, OpenStep

\* At first the store is empty and nobody has called.
LEMMA StoreBegins == Init => Store!Init
<1> SUFFICES ASSUME Init PROVE Store!Init OBVIOUS
<1>1. pc = "down" /\ current = 0 BY DEF Init
<1>2. Recoverable(Disk) = {}
  <2>1. Disk.current \in {0} BY <1>1 DEF Disk
  <2>2. {Disk.current} \ {0} = {} BY <2>1
  <2> QED BY <2>2 DEF Recoverable
<1>3. StoreContents = {} BY <1>1, <1>2 DEF StoreContents, CallsOf
<1>4. StoreCall = [c \in Calls |-> "idle"] BY DEF Init, StoreCall
<1>5. kind \in [Calls -> Kinds \cup {"async"}] BY DEF Init
<1> QED BY <1>3, <1>4, <1>5 DEF Store!Init

\* Without torn appends the database implements the store it promises: it starts
\* as one and each of its steps is one of the store's or none. A group of
\* writes appears as a whole, with its answer, and a restart loses only what
\* the options of the calls allow (Write, LogAndApply, DB::Open).
THEOREM ImplementsStore == ~MayTear /\ Spec => Store!Init /\ KeepsStorePromise
<1> SUFFICES ASSUME ~MayTear PROVE Spec => Store!Init /\ KeepsStorePromise
  OBVIOUS
<1>1. ControlInv /\ FilesInv /\ QueueInv /\ WholeRecords /\ JobInv /\ StoreInv <=> DatabaseInv
  BY DEF DatabaseInv
<1>2. DatabaseInv /\ DatabaseInv' /\ [Next]_vars => [Store!Next]_(Store!vars)
  BY PromiseStep
<1>3. Init => Store!Init BY StoreBegins
<1> QED BY <1>1, <1>2, <1>3, ControlAlways, FilesAlways, StoreAlways, PTL DEF Spec, KeepsStorePromise
=============================================================================
