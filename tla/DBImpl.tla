------------------------------- MODULE DBImpl -------------------------------
(***************************************************************************)
(* The database object of the storage engine (db/db_impl.cc) with the      *)
(* files it leaves on disk: the queue of writers and its group commit, the *)
(* switch of the memtable, the background thread that flushes and          *)
(* compacts, the MANIFEST protocol of VersionSet::LogAndApply, the removal *)
(* of obsolete files, crashes of the process and of the machine, and the   *)
(* recovery of DB::Open.                                                   *)
(*                                                                         *)
(* A call of Write is a member of Calls and writes one entry.  What a      *)
(* table or a log holds is the set of its entries; which entry hides which *)
(* is the subject of module Levels, how a log is cut into blocks that of   *)
(* module LogFormat.                                                       *)
(***************************************************************************)
EXTENDS Naturals, Sequences, FiniteSets, SequencesExt

CONSTANTS
    Calls,          \* calls of DBImpl::Write
    Kinds,          \* what they ask for: subset of {"sync", "async", "force"}
    MemCap,         \* write_buffer_size, in entries
    MaxGroup,       \* max_size of a group, in batches
    L0Trigger,      \* config::kL0_CompactionTrigger
    L0Stop,         \* config::kL0_StopWritesTrigger
    MayTear,        \* a failed append may leave a part of its record
    MachineCrash,   \* the machine may crash, not only the process
    MaxTrouble      \* bound: crashes, closes and I/O errors in a behaviour

ASSUME DBImplAssumption ==
    /\ Kinds \subseteq {"sync", "async", "force"}
    /\ MemCap \in Nat
    /\ MaxGroup \in Nat \ {0}
    /\ L0Trigger \in Nat \ {0}
    /\ L0Stop \in Nat /\ L0Trigger <= L0Stop
    /\ MayTear \in BOOLEAN /\ MachineCrash \in BOOLEAN
    /\ MaxTrouble \in Nat

VARIABLES
    \* The directory.
    logs,           \* log number -> [recs, synced]
    tables,         \* table number -> [done, entries]
    manifests,      \* descriptor number -> [edits, synced]
    current,        \* the descriptor CURRENT names, 0 if there is none
    \* VersionSet.
    version,        \* current_: table number -> level
    next,           \* next_file_number_
    last,           \* last_sequence_
    logNumber,      \* log_number_
    manifestNo,     \* manifest_file_number_
    \* DBImpl.
    pc,             \* where the process is in DB::Open; "up" when it returned
    recovering,     \* the logs Recover has still to read
    opened,         \* the tables RecoverLogFile has written: edit of DB::Open
    writers,        \* writers_
    group,          \* how many of them the leader writes, 0 if it does not
    waiting,        \* the leader is in bg_cv_.Wait()
    mem,            \* entries of mem_
    imm,            \* <<entries of imm_>>, or NoMem if it is NULL
    logfile,        \* logfile_number_
    pending,        \* pending_outputs_
    bgError,        \* bg_error_ is set
    scheduled,      \* bg_compaction_scheduled_
    closing,        \* shutting_down_
    flush,          \* what CompactMemTable is doing
    compact,        \* what DoCompactionWork is doing
    pinned,         \* tables of a version an iterator holds
    \* The clients, and what happened.
    phase,          \* how far a call of Write is
    kind,           \* what it asked for
    trouble         \* crashes, closes and I/O errors so far

disk    == <<logs, tables, manifests, current>>
vset    == <<version, next, last, logNumber, manifestNo>>
opening == <<recovering, opened>>
queue   == <<writers, group, waiting, phase, kind>>
memory  == <<mem, imm, logfile>>
bg      == <<pending, scheduled, flush, compact>>
vars == <<disk, vset, pc, opening, queue, memory, bg, bgError, closing, pinned,
          trouble>>

NoMem     == <<>>
NoFlush   == [num |-> 0, phase |-> "none"]
NoCompact == [num |-> 0, inputs |-> {}, held |-> {}, phase |-> "none"]

Empty == [n \in {} |-> 0]
Single(k, v) == [n \in {k} |-> v]
Over(f, g) == [n \in DOMAIN f \cup DOMAIN g |-> IF n \in DOMAIN f THEN f[n] ELSE g[n]]
Put(f, k, v) == Over(Single(k, v), f)
Without(f, S) == [k \in DOMAIN f \ S |-> f[k]]

Entry(seq, c) == [seq |-> seq, call |-> c]

Trouble == trouble < MaxTrouble /\ trouble' = trouble + 1

-----------------------------------------------------------------------------
(* The descriptor (version_set.cc).                                        *)

Edit(add, del, log, nextV, lastV) ==
    [ok |-> TRUE, add |-> add, del |-> del, log |-> log, next |-> nextV,
     last |-> lastV]

\* Mutant: deletions are applied after additions.
ApplyDeletesLast(v, e) == Without(Over(e.add, v), e.del)

\* VersionSet::Builder: a file that an edit deletes and adds again is added.
ApplyEdit(v, e) == Over(e.add, Without(v, e.del))

\* The records of a log or a descriptor that Reader::ReadRecord returns: a torn
\* record makes it drop the rest of the block, and what is written here fits one
\* block.
ReadableRecords(recs) ==
    LET torn == {i \in DOMAIN recs : ~recs[i].ok}
    IN  IF torn = {} THEN recs
        ELSE SubSeq(recs, 1, (CHOOSE i \in torn : \A j \in torn : i <= j) - 1)

\* The files of the version after each record of a descriptor.
FilesAfter(edits) ==
    LET files[i \in 0 .. Len(edits)] ==
            IF i = 0 THEN Empty ELSE ApplyEdit(files[i - 1], edits[i])
    IN  files

\* What VersionSet::Recover makes of the records of a descriptor: the numbers
\* are those of the last.
ReplayEdits(edits) ==
    LET read == ReadableRecords(edits)
        final == IF read = <<>> THEN Edit(Empty, {}, 0, 0, 0) ELSE Last(read)
    IN  [files |-> FilesAfter(read)[Len(read)], log |-> final.log,
         next |-> final.next, last |-> final.last]

\* A record cut off at the end is the mark of a writer that died; elsewhere it
\* is corruption, as is a descriptor without a record.
EditsReadable(edits) ==
    /\ ReadableRecords(edits) # <<>>
    /\ \A i \in 1 .. Len(edits) - 1 : edits[i].ok

LogEntries(recs) == UNION {r.entries : r \in ToSet(ReadableRecords(recs))}

TableEntries(T, S) == UNION {T[n].entries : n \in S \cap DOMAIN T}

-----------------------------------------------------------------------------
(* Scheduling and obsolete files.                                          *)

Level0(v) == {n \in DOMAIN v : v[n] = 0}

NeedsCompaction(v) == Cardinality(Level0(v)) >= L0Trigger

\* The condition of MaybeScheduleCompaction.
Work(immV, versionV, errV) ==
    ~closing /\ ~errV /\ (immV # NoMem \/ NeedsCompaction(versionV))

\* Mutant: the thread that runs is expected to do it.
ScheduleNothing(immV, versionV, errV) == UNCHANGED scheduled

MaybeScheduleCompaction(immV, versionV, errV) ==
    scheduled' = (scheduled \/ Work(immV, versionV, errV))

\* bg_cv_.SignalAll().
SignalAll == waiting' = FALSE /\ UNCHANGED <<writers, group, phase, kind>>

\* The end of BackgroundCall.
BackgroundDone(immV, versionV, errV) ==
    /\ scheduled' = Work(immV, versionV, errV)
    /\ SignalAll

\* Mutant: only the current version is live.
LiveInCurrent(versionV, pendingV, heldV) == DOMAIN versionV \cup pendingV

\* DeleteObsoleteFiles, with the values its caller has just installed.  The
\* versions that iterators and a running compaction refer to are live too
\* (AddLiveFiles).
LiveTables(versionV, pendingV, heldV) ==
    DOMAIN versionV \cup pendingV \cup pinned \cup heldV

DeleteObsoleteFiles(logsV, tablesV, manifestsV, versionV, logV, pendingV, heldV) ==
    IF bgError
    THEN logs' = logsV /\ tables' = tablesV /\ manifests' = manifestsV
    ELSE /\ logs' = Without(logsV, {n \in DOMAIN logsV : n < logV})
         /\ tables' = Without(tablesV,
                              DOMAIN tablesV \ LiveTables(versionV, pendingV, heldV))
         /\ manifests' = Without(manifestsV,
                                 {n \in DOMAIN manifestsV : n < manifestNo})

-----------------------------------------------------------------------------
(* DBImpl::Write.                                                          *)

Leader(c) == writers # <<>> /\ writers[1] = c /\ phase[c] = "queued" /\ ~waiting

Write(c) ==
    /\ pc = "up" /\ ~closing
    /\ phase[c] = "idle"
    /\ \E k \in Kinds : kind' = [kind EXCEPT ![c] = k]
    /\ phase' = [phase EXCEPT ![c] = "queued"]
    /\ writers' = Append(writers, c)
    /\ UNCHANGED <<disk, vset, pc, opening, group, waiting, memory, bg, bgError,
                   closing, pinned, trouble>>

\* Mutant: a sync write joins any group.
GroupSizeMixed(q) ==
    LET batches(i) == Cardinality({j \in 1 .. i : kind[q[j]] # "force"})
    IN  CHOOSE n \in 1 .. Len(q) :
          batches(n) <= MaxGroup /\ (n < Len(q) => batches(n + 1) > MaxGroup)

\* BuildBatchGroup: how many writers from the front the leader takes along.
\* A NULL batch adds nothing; a sync write never rides on a non-sync one.
GroupSize(q) ==
    LET Joins(i) == /\ kind[q[i]] = "sync" => kind[q[1]] = "sync"
                    /\ kind[q[i]] # "force"
                       => Cardinality({j \in 1 .. i : kind[q[j]] # "force"}) <= MaxGroup
    IN  CHOOSE n \in 1 .. Len(q) : /\ \A i \in 2 .. n : Joins(i)
                                   /\ n < Len(q) => ~Joins(n + 1)

\* How many batches the first n writers bring, and the entries of the batch the
\* leader makes of its group: each has the next sequence number.
Batches(n) == Cardinality({i \in 1 .. n : kind[writers[i]] # "force"})

GroupEntries ==
    {Entry(last + Batches(i), writers[i]) : i \in {j \in 1 .. group : kind[writers[j]] # "force"}}

\* Answer the first n writers; the next one becomes the leader.
Answer(n, answer) ==
    /\ phase' = [c \in Calls |-> IF \E i \in 1 .. n : writers[i] = c
                                 THEN answer ELSE phase[c]]
    /\ writers' = SubSeq(writers, n + 1, Len(writers))
    /\ group' = 0
    /\ UNCHANGED <<waiting, kind>>

\* The leader has room: it takes its group to the log, or has nothing to
\* write (a NULL batch).
Proceed(c) ==
    IF kind[c] = "force" THEN Answer(1, "ok")
    ELSE /\ group' = GroupSize(writers)
         /\ phase' = [phase EXCEPT ![c] = "append"]
         /\ UNCHANGED <<writers, waiting, kind>>

\* MakeRoomForWrite yields the previous error.
WriteRejected(c) ==
    /\ Leader(c) /\ bgError
    /\ Answer(1, "error")
    /\ UNCHANGED <<disk, vset, pc, opening, memory, bg, bgError, closing, pinned,
                   trouble>>

\* MakeRoomForWrite finds room in the memtable.
WriteHasRoom(c) ==
    /\ Leader(c) /\ ~bgError
    /\ kind[c] # "force"
    /\ Cardinality(mem) <= MemCap
    /\ Proceed(c)
    /\ UNCHANGED <<disk, vset, pc, opening, memory, bg, bgError, closing, pinned,
                   trouble>>

\* The memtable is full or a switch is forced.
NeedsSwitch(c) ==
    /\ Leader(c) /\ ~bgError
    /\ kind[c] = "force" \/ Cardinality(mem) > MemCap

MustWait == imm # NoMem \/ Cardinality(Level0(version)) >= L0Stop

\* imm_ is still being written, or level 0 is full: bg_cv_.Wait().
WriteWaits(c) ==
    /\ NeedsSwitch(c) /\ MustWait
    /\ waiting' = TRUE
    /\ UNCHANGED <<disk, vset, pc, opening, writers, group, phase, kind, memory, bg,
                   bgError, closing, pinned, trouble>>

MaySwitch(c) == NeedsSwitch(c) /\ ~MustWait

SwitchMemTable(c) ==
    /\ MaySwitch(c)
    /\ next' = next + 1
    /\ logs' = Put(logs, next, [recs |-> <<>>, synced |-> 0])
    /\ logfile' = next
    /\ imm' = <<mem>>
    /\ mem' = {}
    /\ MaybeScheduleCompaction(imm', version, FALSE)
    /\ Proceed(c)
    /\ UNCHANGED <<tables, manifests, current, version, last, logNumber, manifestNo,
                   pc, opening, pending, flush, compact, bgError, closing, pinned,
                   trouble>>

\* NewWritableFile fails; ReuseFileNumber takes the number back.
SwitchFailed(c) ==
    /\ MaySwitch(c)
    /\ Trouble
    /\ Answer(1, "error")
    /\ UNCHANGED <<disk, vset, pc, opening, memory, bg, bgError, closing, pinned>>

Batch(ok) == [entries |-> GroupEntries, ok |-> ok]

WithRecord(r) == [logs EXCEPT ![logfile].recs = Append(@, r)]

\* log_->AddRecord, with the mutex released.
AppendLog(c) ==
    /\ phase[c] = "append"
    /\ logs' = WithRecord(Batch(TRUE))
    /\ phase' = [phase EXCEPT ![c] = IF kind[c] = "sync" THEN "sync" ELSE "insert"]
    /\ UNCHANGED <<tables, manifests, current, vset, pc, opening, writers, group,
                   waiting, kind, memory, bg, bgError, closing, pinned, trouble>>

\* AddRecord fails having written nothing, a part of the record, or all of it.
AppendFailed(c) ==
    /\ phase[c] = "append"
    /\ Trouble
    /\ logs' \in {logs, WithRecord(Batch(TRUE))}
                  \cup (IF MayTear THEN {WithRecord(Batch(FALSE))} ELSE {})
    /\ phase' = [phase EXCEPT ![c] = "failed"]
    /\ UNCHANGED <<tables, manifests, current, vset, pc, opening, writers, group,
                   waiting, kind, memory, bg, bgError, closing, pinned>>

SyncLog(c) ==
    /\ phase[c] = "sync"
    /\ logs' = [logs EXCEPT ![logfile].synced = Len(logs[logfile].recs)]
    /\ phase' = [phase EXCEPT ![c] = "insert"]
    /\ UNCHANGED <<tables, manifests, current, vset, pc, opening, writers, group,
                   waiting, kind, memory, bg, bgError, closing, pinned, trouble>>

SyncFailed(c) ==
    /\ phase[c] = "sync"
    /\ Trouble
    /\ phase' = [phase EXCEPT ![c] = "syncfailed"]
    /\ UNCHANGED <<disk, vset, pc, opening, writers, group, waiting, kind, memory, bg,
                   bgError, closing, pinned>>

\* The end of Write: InsertInto, and under the mutex again the sequence
\* number, which advances whether or not the write succeeded, the background
\* error of a failed sync, and the answers.
FinishWrite(c) ==
    /\ phase[c] \in {"insert", "failed", "syncfailed"}
    /\ mem' = IF phase[c] = "insert" THEN mem \cup GroupEntries ELSE mem
    /\ last' = last + Batches(group)
    /\ bgError' = (bgError \/ phase[c] = "syncfailed")
    /\ Answer(group, IF phase[c] = "insert" THEN "ok" ELSE "error")
    /\ UNCHANGED <<disk, version, next, logNumber, manifestNo, pc, opening, imm,
                   logfile, bg, closing, pinned, trouble>>

-----------------------------------------------------------------------------
(* The background thread.                                                  *)

\* LogAndApply in two halves: the record is appended to the descriptor, and
\* after the sync the edit is installed.  In between the mutex is free.
LogEdit(e) == [manifests EXCEPT ![manifestNo].edits = Append(@, e)]

LastEdit == Last(manifests[manifestNo].edits)

\* Mutant: the descriptor is not synced.
UnsyncedManifests == manifests

SyncedManifests ==
    [manifests EXCEPT ![manifestNo].synced = Len(manifests[manifestNo].edits)]

\* What an append or a sync that fails may leave of the last record.
BrokenManifests ==
    LET edits == manifests[manifestNo].edits
        With(e) == [manifests EXCEPT ![manifestNo].edits = e]
    IN  {With(edits), With(Front(edits))}
        \cup (IF MayTear THEN {With(Append(Front(edits), [LastEdit EXCEPT !.ok = FALSE]))}
                         ELSE {})

Idle == flush = NoFlush /\ compact = NoCompact

\* BackgroundCall with nothing to do.
BackgroundNothing ==
    /\ pc = "up" /\ scheduled /\ Idle
    /\ ~Work(imm, version, bgError)
    /\ BackgroundDone(imm, version, bgError)
    /\ UNCHANGED <<disk, vset, pc, opening, memory, pending, flush, compact,
                   bgError, closing, pinned, trouble>>

\* CompactMemTable, called by BackgroundCompaction or, between two entries,
\* by DoCompactionWork, which does not look at bg_error_.  BuildTable makes
\* no file of an empty memtable.
StartFlush ==
    /\ pc = "up" /\ scheduled /\ flush = NoFlush /\ imm # NoMem /\ ~closing
    /\ \/ compact = NoCompact /\ ~bgError
       \/ compact.phase = "merge"
    /\ flush' = [num |-> next, phase |-> "build"]
    /\ next' = next + 1
    /\ pending' = pending \cup {next}
    /\ tables' = IF imm = <<{}>> THEN tables
                 ELSE Put(tables, next, [done |-> FALSE, entries |-> {}])
    /\ UNCHANGED <<logs, manifests, current, version, last, logNumber, manifestNo,
                   pc, opening, queue, memory, scheduled, compact, bgError, closing,
                   pinned, trouble>>

\* The table is written and synced; the edit names it, at the level
\* PickLevelForMemTableOutput chooses, and the log that is still needed.
FlushBuilt ==
    /\ flush.phase = "build" /\ ~closing
    /\ flush' = [flush EXCEPT !.phase = "log"]
    /\ pending' = pending \ {flush.num}
    /\ tables' = IF imm = <<{}>> THEN tables
                 ELSE Put(tables, flush.num, [done |-> TRUE, entries |-> imm[1]])
    /\ \E level \in {0, 1} :
          manifests' = LogEdit(Edit(IF imm = <<{}>> THEN Empty ELSE Single(flush.num, level),
                                    {}, logfile, next, last))
    /\ UNCHANGED <<logs, current, vset, pc, opening, queue, memory, scheduled, compact,
                   bgError, closing, pinned, trouble>>

\* The end of CompactMemTable, and of BackgroundCall unless a compaction
\* waits for it.
FlushEnds(immV, versionV, errV) ==
    /\ flush' = NoFlush
    /\ IF compact = NoCompact THEN BackgroundDone(immV, versionV, errV)
                              ELSE SignalAll /\ UNCHANGED scheduled

FlushInstalled ==
    /\ flush.phase = "log"
    /\ version' = ApplyEdit(version, LastEdit)
    /\ logNumber' = LastEdit.log
    /\ imm' = NoMem
    /\ DeleteObsoleteFiles(logs, tables, SyncedManifests, version', logNumber', pending,
                           compact.held)
    /\ FlushEnds(NoMem, version', bgError)
    /\ UNCHANGED <<current, next, last, manifestNo, pc, opening, mem, logfile,
                   pending, compact, bgError, closing, pinned, trouble>>

\* BuildTable or LogAndApply fails, or the database is being closed.
FlushFailed ==
    /\ \/ /\ flush.phase = "build" /\ closing
          /\ tables' = IF imm = <<{}>> THEN tables
                       ELSE Put(tables, flush.num, [done |-> TRUE, entries |-> imm[1]])
          /\ UNCHANGED <<manifests, trouble>>
       \/ /\ flush.phase = "build" /\ Trouble
          /\ tables' = Without(tables, {flush.num})
          /\ UNCHANGED manifests
       \/ /\ flush.phase = "log" /\ Trouble
          /\ manifests' \in BrokenManifests
          /\ UNCHANGED tables
    /\ pending' = pending \ {flush.num}
    /\ bgError' = TRUE
    /\ FlushEnds(imm, version, TRUE)
    /\ UNCHANGED <<logs, current, vset, pc, opening, memory, compact, closing,
                   pinned>>

\* BackgroundCompaction picks inputs: files of level 0 with what they overlap.
PickInputs == {S \in SUBSET DOMAIN version : S \cap Level0(version) # {}}

MayCompact ==
    /\ pc = "up" /\ scheduled /\ Idle
    /\ ~closing /\ ~bgError /\ imm = NoMem
    /\ NeedsCompaction(version)

\* A trivial move only rewrites the descriptor; it deletes no files.
StartMove ==
    /\ MayCompact
    /\ \E n \in Level0(version) :
          /\ manifests' = LogEdit(Edit(Single(n, 1), {n}, logNumber, next, last))
          /\ compact' = [num |-> 0, inputs |-> {n}, held |-> DOMAIN version,
                         phase |-> "move"]
    /\ UNCHANGED <<logs, tables, current, vset, pc, opening, queue, memory, pending,
                   scheduled, flush, bgError, closing, pinned, trouble>>

\* DoCompactionWork with its output file (OpenCompactionOutputFile).
StartCompaction ==
    /\ MayCompact
    /\ \E S \in PickInputs :
          compact' = [num |-> next, inputs |-> S, held |-> DOMAIN version,
                      phase |-> "merge"]
    /\ next' = next + 1
    /\ pending' = pending \cup {next}
    /\ tables' = Put(tables, next, [done |-> FALSE, entries |-> {}])
    /\ UNCHANGED <<logs, manifests, current, version, last, logNumber, manifestNo, pc,
                   opening, queue, memory, scheduled, flush, bgError, closing, pinned,
                   trouble>>

\* FinishCompactionOutputFile, then the first half of InstallCompactionResults.
CompactionBuilt ==
    /\ compact.phase = "merge" /\ flush = NoFlush /\ ~closing
    /\ compact' = [compact EXCEPT !.phase = "log"]
    /\ tables' = [tables EXCEPT ![compact.num] =
                     [done |-> TRUE, entries |-> TableEntries(tables, compact.inputs)]]
    /\ manifests' = LogEdit(Edit(Single(compact.num, 1), compact.inputs, logNumber, next, last))
    /\ UNCHANGED <<logs, current, vset, pc, opening, queue, memory, pending, scheduled,
                   flush, bgError, closing, pinned, trouble>>

\* LogAndApply returns; CleanupCompaction, ReleaseInputs, DeleteObsoleteFiles
\* and the end of BackgroundCall.
CompactionInstalled ==
    /\ compact.phase \in {"log", "move"}
    /\ version' = ApplyEdit(version, LastEdit)
    /\ logNumber' = LastEdit.log
    /\ pending' = pending \ {compact.num}
    /\ IF compact.phase = "log"
       THEN DeleteObsoleteFiles(logs, tables, SyncedManifests, version', logNumber',
                                pending', {})
       ELSE manifests' = SyncedManifests /\ UNCHANGED <<logs, tables>>
    /\ compact' = NoCompact
    /\ BackgroundDone(imm, version', bgError)
    /\ UNCHANGED <<current, next, last, manifestNo, pc, opening, memory, flush,
                   bgError, closing, pinned, trouble>>

\* An output or the descriptor cannot be written, or the database is being
\* closed.  The output stays until a later DeleteObsoleteFiles.
CompactionFailed ==
    /\ flush = NoFlush
    /\ \/ compact.phase = "merge" /\ closing /\ UNCHANGED <<manifests, trouble>>
       \/ compact.phase = "merge" /\ ~closing /\ Trouble /\ UNCHANGED manifests
       \/ compact.phase \in {"log", "move"} /\ Trouble /\ manifests' \in BrokenManifests
    /\ pending' = pending \ {compact.num}
    /\ bgError' = TRUE
    /\ compact' = NoCompact
    /\ BackgroundDone(imm, version, TRUE)
    /\ UNCHANGED <<logs, tables, current, vset, pc, opening, memory, flush,
                   closing, pinned>>

\* An iterator takes a reference to the current version, and gives it back.
Pin ==
    /\ pc = "up" /\ ~closing
    /\ pinned = {} /\ version # Empty
    /\ pinned' = DOMAIN version
    /\ UNCHANGED <<disk, vset, pc, opening, queue, memory, bg, bgError, closing, trouble>>

Unpin ==
    /\ pinned # {}
    /\ pinned' = {}
    /\ UNCHANGED <<disk, vset, pc, opening, queue, memory, bg, bgError, closing, trouble>>

-----------------------------------------------------------------------------
(* Crashes, close and DB::Open.                                            *)

\* What is gone with the process.
Forget ==
    /\ pc' = "down"
    /\ version' = Empty /\ next' = 0 /\ last' = 0 /\ logNumber' = 0 /\ manifestNo' = 0
    /\ recovering' = {} /\ opened' = Empty
    /\ writers' = <<>> /\ group' = 0 /\ waiting' = FALSE
    /\ mem' = {} /\ imm' = NoMem /\ logfile' = 0
    /\ pending' = {} /\ scheduled' = FALSE /\ flush' = NoFlush /\ compact' = NoCompact
    /\ bgError' = FALSE /\ closing' = FALSE /\ pinned' = {}
    /\ UNCHANGED kind

Answered == {c \in Calls : phase[c] = "ok"}

\* The calls whose answer the clients were given and may rely on.
Written == {c \in Answered : kind[c] # "force"}

\* What recovery finds on disk D, if there is a descriptor.
Recoverable(D) ==
    UNION {TableEntries(D.tables, DOMAIN s.files)
             \cup UNION {LogEntries(D.logs[n].recs) : n \in {m \in DOMAIN D.logs : m >= s.log}} :
           s \in {ReplayEdits(e) : e \in {D.manifests[n].edits : n \in {D.current} \ {0}}}}

Disk == [logs |-> logs, tables |-> tables, manifests |-> manifests, current |-> current]

CallsOf(entries) == {e.call : e \in entries}

\* After the crash a call without an answer has none coming, and one whose
\* write the machine lost is no longer relied upon.
CrashCalls(D) ==
    phase' = [c \in Calls |->
                CASE phase[c] \in {"idle", "error", "lost"} -> phase[c]
                  [] phase[c] = "ok" -> IF kind[c] = "async" /\ c \notin CallsOf(Recoverable(D))
                                        THEN "lost" ELSE "ok"
                  [] OTHER -> "lost"]

ProcessCrash ==
    /\ pc \notin {"down", "corrupt"}
    /\ Trouble
    /\ Forget
    /\ phase' = [c \in Calls |-> IF phase[c] \in {"idle", "ok", "error", "lost"}
                                 THEN phase[c] ELSE "lost"]
    /\ UNCHANGED disk

\* A file keeps at least what was synced of it; creating, renaming and
\* deleting files is taken to be durable, in that order.
Cuts(files, length(_), cutAt(_, _)) ==
    LET longest == Max({0} \cup {length(files[n]) : n \in DOMAIN files})
    IN  {[n \in DOMAIN files |-> cutAt(files[n], keep[n])] :
           keep \in {f \in [DOMAIN files -> 0 .. longest] :
                       \A n \in DOMAIN files :
                          f[n] \in files[n].synced .. length(files[n])}}

CutLogs ==
    Cuts(logs, LAMBDA f : Len(f.recs),
         LAMBDA f, k : [recs |-> SubSeq(f.recs, 1, k), synced |-> k])

CutManifests ==
    Cuts(manifests, LAMBDA f : Len(f.edits),
         LAMBDA f, k : [edits |-> SubSeq(f.edits, 1, k), synced |-> k])

MachineCrashes ==
    /\ MachineCrash
    /\ pc \notin {"down", "corrupt"}
    /\ Trouble
    /\ Forget
    /\ logs' \in CutLogs
    /\ manifests' \in CutManifests
    /\ CrashCalls([Disk EXCEPT !.logs = logs', !.manifests = manifests'])
    /\ UNCHANGED <<tables, current>>

\* ~DBImpl: no call is running and every iterator is gone; it waits for the
\* background thread.
Close ==
    /\ pc = "up" /\ ~closing
    /\ writers = <<>> /\ pinned = {}
    /\ Trouble
    /\ closing' = TRUE
    /\ UNCHANGED <<disk, vset, pc, opening, queue, memory, bg, bgError, pinned>>

Closed ==
    /\ closing /\ ~scheduled
    /\ Forget
    /\ UNCHANGED <<disk, phase, trouble>>

\* NewDB: descriptor 1, written and closed but not synced, and CURRENT.
NewDB ==
    /\ pc = "down" /\ current = 0
    /\ manifests' = Put(manifests, 1, [edits |-> <<Edit(Empty, {}, 0, 2, 0)>>, synced |-> 0])
    /\ current' = 1
    /\ pc' = "recover"
    /\ UNCHANGED <<logs, tables, vset, opening, queue, memory, bg, bgError, closing, pinned,
                   trouble>>

\* VersionSet::Recover, and the first part of DBImpl::Recover: every table
\* of the version must be in the directory, under any type of file.
FilesPresent == DOMAIN tables \cup DOMAIN logs \cup DOMAIN manifests

Recover ==
    /\ pc = "recover" \/ (pc = "down" /\ current # 0)
    /\ LET edits == manifests[current].edits
           s == ReplayEdits(edits)
       IN  IF EditsReadable(edits) /\ DOMAIN s.files \subseteq FilesPresent
           THEN /\ pc' = "logs"
                /\ version' = s.files
                /\ manifestNo' = s.next
                /\ next' = s.next + 1
                /\ last' = s.last
                /\ logNumber' = s.log
                /\ recovering' = {n \in DOMAIN logs : n >= s.log}
           ELSE /\ pc' = "corrupt"
                /\ UNCHANGED <<vset, recovering>>
    /\ opened' = Empty
    /\ UNCHANGED <<disk, queue, memory, bg, bgError, closing, pinned, trouble>>

\* Mutant: the number of a log that was read is not marked.
MarkNothing(nextV, n) == nextV

MarkFileNumberUsed(nextV, n) == Max({nextV, n + 1})

\* Mutant: the sequence numbers in the log are not looked at.
SequenceOfDescriptor(lastV, entries) == lastV

\* max_sequence of RecoverLogFile, and SetLastSequence of Recover.
MaxSequence(lastV, entries) == Max({lastV} \cup {e.seq : e \in entries})

\* RecoverLogFile of the oldest log left: its entries become a table of level 0,
\* and its number is marked as used.
RecoverLogFile ==
    /\ pc = "logs"
    /\ \E n \in recovering :
          LET entries == LogEntries(logs[n].recs)
              used == IF entries = {} THEN next ELSE next + 1
          IN  /\ \A m \in recovering : n <= m
              /\ IF entries = {}
                 THEN UNCHANGED <<tables, opened>>
                 ELSE /\ tables' = Put(tables, next, [done |-> TRUE, entries |-> entries])
                      /\ opened' = Put(opened, next, 0)
              /\ next' = MarkFileNumberUsed(used, n)
              /\ last' = MaxSequence(last, entries)
              /\ recovering' = recovering \ {n}
    /\ UNCHANGED <<logs, manifests, current, version, logNumber, manifestNo, pc, queue,
                   memory, bg, bgError, closing, pinned, trouble>>

\* DB::Open makes a new log, and LogAndApply a new descriptor with a snapshot
\* of the version and the edit.
OpenWritesManifest ==
    /\ pc = "logs" /\ recovering = {}
    /\ logs' = Put(logs, next, [recs |-> <<>>, synced |-> 0])
    /\ logfile' = next
    /\ next' = next + 1
    /\ manifests' = Put(manifests, manifestNo,
                        [edits |-> <<Edit(Over(opened, version), {}, next, next + 1, last)>>,
                         synced |-> 0])
    /\ pc' = "manifest"
    /\ UNCHANGED <<tables, current, version, last, logNumber, manifestNo, opening, queue,
                   mem, imm, bg, bgError, closing, pinned, trouble>>

\* The descriptor is synced and CURRENT is renamed to name it.
OpenSetsCurrent ==
    /\ pc = "manifest"
    /\ manifests' = SyncedManifests
    /\ current' = manifestNo
    /\ pc' = "current"
    /\ UNCHANGED <<logs, tables, vset, opening, queue, memory, bg, bgError, closing, pinned,
                   trouble>>

OpenReturns ==
    /\ pc = "current"
    /\ pc' = "up"
    /\ version' = LastEdit.add
    /\ logNumber' = LastEdit.log
    /\ opened' = Empty
    /\ DeleteObsoleteFiles(logs, tables, manifests, version', logNumber', {}, {})
    /\ MaybeScheduleCompaction(NoMem, version', FALSE)
    /\ UNCHANGED <<current, next, last, manifestNo, recovering, queue, memory, pending,
                   flush, compact, bgError, closing, pinned, trouble>>

\* A table, the log, the descriptor or CURRENT cannot be written: Open
\* returns the error, and the descriptor it was making is deleted.
OpenFails ==
    /\ pc \in {"logs", "manifest"}
    /\ Trouble
    /\ manifests' = IF pc = "manifest" THEN Without(manifests, {manifestNo}) ELSE manifests
    /\ Forget
    /\ UNCHANGED <<logs, tables, current, phase>>

-----------------------------------------------------------------------------
Init ==
    /\ logs = Empty /\ tables = Empty /\ manifests = Empty /\ current = 0
    /\ version = Empty /\ next = 0 /\ last = 0 /\ logNumber = 0 /\ manifestNo = 0
    /\ pc = "down" /\ recovering = {} /\ opened = Empty
    /\ writers = <<>> /\ group = 0 /\ waiting = FALSE
    /\ mem = {} /\ imm = NoMem /\ logfile = 0
    /\ pending = {} /\ bgError = FALSE /\ scheduled = FALSE /\ closing = FALSE
    /\ flush = NoFlush /\ compact = NoCompact /\ pinned = {}
    /\ phase = [c \in Calls |-> "idle"] /\ kind = [c \in Calls |-> "async"]
    /\ trouble = 0

LeaderStep(c) ==
    \/ WriteRejected(c) \/ WriteHasRoom(c) \/ WriteWaits(c) \/ SwitchMemTable(c) \/ SwitchFailed(c)
    \/ AppendLog(c) \/ AppendFailed(c) \/ SyncLog(c) \/ SyncFailed(c) \/ FinishWrite(c)

BackgroundStep ==
    \/ BackgroundNothing
    \/ StartFlush \/ FlushBuilt \/ FlushInstalled \/ FlushFailed
    \/ StartMove \/ StartCompaction \/ CompactionBuilt \/ CompactionInstalled
    \/ CompactionFailed

OpenStep ==
    \/ NewDB \/ Recover \/ RecoverLogFile \/ OpenWritesManifest \/ OpenSetsCurrent
    \/ OpenReturns \/ OpenFails

Next ==
    \/ \E c \in Calls : Write(c) \/ LeaderStep(c)
    \/ BackgroundStep
    \/ OpenStep
    \/ Pin \/ Unpin
    \/ Close \/ Closed
    \/ ProcessCrash \/ MachineCrashes

Spec == Init /\ [][Next]_vars

-----------------------------------------------------------------------------
(* Properties.                                                             *)

\* Shape of the state; sequence numbers and file numbers as their counters
\* say, and tables are only read when they were finished.
TypeOK ==
    /\ pc \in {"down", "recover", "logs", "manifest", "current", "up", "corrupt"}
    /\ phase \in [Calls -> {"idle", "queued", "append", "sync", "insert", "failed",
                            "syncfailed", "ok", "error", "lost"}]
    /\ kind \in [Calls -> {"sync", "async", "force"}]
    /\ group \in 0 .. Len(writers)
    /\ flush.phase \in {"none", "build", "log"}
    /\ compact.phase \in {"none", "merge", "move", "log"}
    /\ pc = "up" => /\ logfile \in DOMAIN logs /\ manifestNo \in DOMAIN manifests
                    /\ \A n \in DOMAIN logs \cup DOMAIN tables : n < next

Visible ==
    {e \in mem \cup (UNION ToSet(imm)) \cup TableEntries(tables, DOMAIN version) :
       e.seq <= last}

\* A write that was answered with success is found again: by recovery after
\* the process died at any point, and, if it was a sync write, after the
\* machine did (options.h:187-201, Write, LogAndApply, DB::Open).
AnswersKept == pc # "corrupt" => Written \subseteq CallsOf(Recoverable(Disk))

\* A database that was opened once can be opened again: the descriptor is
\* readable and no table it names was deleted (DBImpl::Recover).
Reopens == pc = "corrupt" => current = 1

\* A sequence number belongs to one write, and no entry on disk is above the
\* number the next write builds on (Write, LogAndApply, Recover).
SequencesUnique ==
    LET all == Recoverable(Disk) \cup (IF pc = "up" THEN Visible ELSE {})
    IN  /\ \A e, f \in all : e.seq = f.seq <=> e.call = f.call
        /\ pc = "up" /\ phase \in [Calls -> {"idle", "queued", "ok", "error", "lost"}]
           => \A e \in all : e.seq <= last

\* What an iterator or a running compaction reads, and what the version
\* names, is a finished table that is still there (DeleteObsoleteFiles).
NeededTablesExist ==
    pc = "up" => \A n \in DOMAIN version \cup pinned \cup compact.held :
                    n \in DOMAIN tables /\ tables[n].done

\* A leader that sleeps on bg_cv_ sleeps while the background thread has
\* still to come to the SignalAll of BackgroundCall (MaybeScheduleCompaction,
\* MakeRoomForWrite).
SleeperIsWoken == waiting => scheduled

\* The database implements DurableStore: a process that is gone is what
\* recovery would find, and a call between Write and its answer is pending.
StoreCall ==
    [c \in Calls |-> IF phase[c] \in {"idle", "ok", "error", "lost"} THEN phase[c]
                     ELSE "pending"]

StoreContents == CallsOf(IF pc = "up" THEN Visible ELSE Recoverable(Disk))

Store == INSTANCE DurableStore
           WITH contents <- StoreContents,
                call <- StoreCall

\* Every step of the engine is a step of the store it promises, or none: a
\* running database shows every write it has acknowledged, also across the
\* switch of the memtable, flushes, compactions and errors, and a restart
\* loses only what the calls' options allow (Write, LogAndApply, DB::Open).
KeepsStorePromise == [][Store!Next]_(Store!vars)
=============================================================================
