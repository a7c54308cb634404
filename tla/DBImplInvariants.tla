-------------------------- MODULE DBImplInvariants --------------------------
(***************************************************************************)
(* The inductive invariants of DBImpl.                                     *)
(*                                                                         *)
(* They build on each other: ControlInv says who may be at work (a writer  *)
(* at the head of the queue, the background thread while it is scheduled), *)
(* FilesInv what is on disk and how the descriptor relates to the version  *)
(* in memory, and AwakeInv who owes a wake-up.                             *)
(*                                                                         *)
(* The second half follows the entries: QueueInv is about the calls in a   *)
(* group, WholeRecords about the records of the logs, JobInv about what    *)
(* the background thread will install, and StoreInv about which entries    *)
(* the memtables, the logs and the tables hold, and which of them a crash  *)
(* leaves.                                                                 *)
(***************************************************************************)
EXTENDS DBImpl

-----------------------------------------------------------------------------
(* Who is at work.                                                         *)

Phases == {"idle", "queued", "append", "sync", "insert", "failed", "syncfailed",
           "ok", "error", "lost"}

\* A leader in its group commit, with the mutex released (DBImpl::Write).
Working == {"append", "sync", "insert", "failed", "syncfailed"}

ControlTypes ==
    /\ pc \in {"down", "recover", "logs", "manifest", "current", "up", "corrupt"}
    /\ phase \in [Calls -> Phases]
    /\ kind \in [Calls -> {"sync", "async", "force"}]
    /\ writers \in Seq(Calls)
    /\ group \in 0 .. Len(writers)
    /\ waiting \in BOOLEAN /\ scheduled \in BOOLEAN
    /\ bgError \in BOOLEAN /\ closing \in BOOLEAN

\* Until DB::Open has returned there is neither a writer nor a background
\* thread.
QuietUnlessUp ==
    pc # "up" => /\ writers = <<>> /\ ~waiting
                 /\ imm = NoMem /\ pending = {} /\ ~scheduled
                 /\ flush = NoFlush /\ compact = NoCompact
                 /\ ~bgError /\ ~closing /\ pinned = {}

\* Only the head of the queue writes; its group is not empty.
LeaderWorks ==
    \A c \in Calls : phase[c] \in Working =>
        writers # <<>> /\ writers[1] = c /\ group # 0

\* Whoever destroys the database has no call left in it.
NobodyWhenClosing == closing => writers = <<>>

\* The background thread flushes or compacts only while it is scheduled, and
\* while CompactMemTable runs, a compaction is between two entries.
OneJob ==
    /\ flush = [num |-> flush.num, phase |-> flush.phase]
    /\ compact = [num |-> compact.num, inputs |-> compact.inputs, held |-> compact.held,
                  phase |-> compact.phase]
    /\ flush = NoFlush \/ flush.phase \in {"build", "log"}
    /\ compact = NoCompact \/ compact.phase \in {"merge", "move", "log"}
    /\ flush # NoFlush \/ compact # NoCompact => scheduled
    /\ flush # NoFlush => imm # NoMem /\ compact.phase \in {"none", "merge"}

ControlInv ==
    /\ ControlTypes
    /\ QuietUnlessUp
    /\ LeaderWorks
    /\ NobodyWhenClosing
    /\ OneJob

-----------------------------------------------------------------------------
(* What is on disk.                                                        *)

FileNumbers == {S \in SUBSET Nat : IsFiniteSet(S)}
Files(T) == UNION {[S -> T] : S \in FileNumbers}

EntrySets == {S \in SUBSET [seq : Nat, call : Calls] : IsFiniteSet(S)}

RecordType == [entries : EntrySets, ok : BOOLEAN]
LogType == [recs : Seq(RecordType), synced : Nat]
TableType == [done : BOOLEAN, entries : EntrySets]
EditType == [ok : BOOLEAN, add : Files(Nat), del : SUBSET Nat, log : Nat, next : Nat,
             last : Nat]
ManifestType == [edits : Seq(EditType), synced : Nat]

FileTypes ==
    /\ logs \in Files(LogType) /\ tables \in Files(TableType)
    /\ manifests \in Files(ManifestType) /\ current \in Nat
    /\ version \in Files(Nat) /\ opened \in Files(Nat)
    /\ next \in Nat /\ last \in Nat /\ logNumber \in Nat /\ manifestNo \in Nat
    /\ logfile \in Nat /\ recovering \in SUBSET Nat
    /\ mem \in EntrySets /\ imm \in {NoMem} \cup {<<m>> : m \in EntrySets}
    /\ flush.num \in Nat /\ compact.num \in Nat
    /\ compact.inputs \in SUBSET Nat /\ compact.held \in SUBSET Nat
    /\ pinned \in SUBSET Nat /\ pending \in SUBSET Nat

\* The descriptor CURRENT names, and how much of it a crash of the machine
\* cannot take.
Edits == manifests[current].edits
Synced == manifests[current].synced

\* Finished tables among those of a directory.
StoredIn(S, T) == \A n \in S : n \in DOMAIN T /\ T[n].done

Stored(S) == StoredIn(S, tables)

\* The numbers in a descriptor c with edits E were all handed out before the
\* next one it records; only MayTear leaves torn records.
Numbered(c, E) ==
    /\ \A i \in 1 .. Len(E) :
          /\ c < E[i].next /\ E[i].log < E[i].next
          /\ \A n \in DOMAIN E[i].add : n < E[i].next
          /\ ~MayTear => E[i].ok
    /\ \A i, j \in 1 .. Len(E) : i <= j => E[i].next <= E[j].next

\* A reader stops after j records, because a crash can cut the descriptor there
\* or the next record is torn.
StopsAfter(E, synced, j) ==
    /\ \A i \in 1 .. j : E[i].ok
    /\ j >= synced \/ ~E[j + 1].ok

\* Wherever the reader of a descriptor stops, the tables it then names are there.
DescriptorOf(c, E, synced, T) ==
    /\ synced \in 0 .. Len(E)
    /\ c # 1 => synced # 0
    /\ Numbered(c, E)
    /\ \A j \in 0 .. Len(E) :
          StopsAfter(E, synced, j) => StoredIn(DOMAIN FilesAfter(E)[j], T)

Descriptor ==
    current # 0 => /\ current \in DOMAIN manifests
                   /\ DescriptorOf(current, Edits, Synced, tables)

\* DB::Open: the version that was read and the tables made of logs are there,
\* and every log that was not read has a number that was handed out.
Opening ==
    /\ pc = "recover" => current # 0
    /\ pc \in {"logs", "manifest", "current"} =>
        /\ current # 0 /\ manifestNo < next
        /\ Stored(DOMAIN version) /\ Stored(DOMAIN opened)
        /\ \A n \in DOMAIN version \cup DOMAIN opened : n < next
        /\ recovering \subseteq DOMAIN logs
        /\ \A n \in DOMAIN logs : n \in recovering \/ n < next
    /\ pc \in {"logs", "manifest"} => current < manifestNo
    /\ pc = "current" => current = manifestNo
    /\ pc \in {"manifest", "current"} =>
        /\ recovering = {} /\ logfile \in DOMAIN logs
        /\ manifestNo \in DOMAIN manifests
        /\ manifests[manifestNo].edits = <<Edit(Over(opened, version), {}, logfile, next, last)>>

\* A record of the descriptor that is not installed yet.
InFlight == flush.phase = "log" \/ compact.phase \in {"move", "log"}

\* A running database: every number in use was handed out, what anybody reads
\* is there, the table being written is named by nobody, and unless an error
\* stopped it, the descriptor says what the version in memory says.
Running ==
    pc = "up" =>
        /\ current # 0 /\ current = manifestNo /\ manifestNo < next
        /\ logfile \in DOMAIN logs /\ logNumber <= logfile
        /\ \A n \in DOMAIN logs \cup DOMAIN tables : n < next
        /\ \A i \in 1 .. Len(Edits) : Edits[i].next <= next /\ Edits[i].log <= logfile
        /\ Stored(DOMAIN version) /\ Stored(pinned) /\ Stored(compact.held)
        /\ flush.phase = "build" =>
              /\ flush.num < next
              /\ flush.num \notin DOMAIN version \cup pinned \cup compact.held
              /\ \A i \in 1 .. Len(Edits) : flush.num \notin DOMAIN Edits[i].add
        /\ compact.phase = "merge" =>
              /\ compact.num \in pending \cap DOMAIN tables
              /\ flush.phase # "none" => flush.num # compact.num
        /\ InFlight => Synced < Len(Edits) /\ Stored(DOMAIN LastEdit.add)
        /\ ~bgError =>
              /\ \A i \in 1 .. Len(Edits) : Edits[i].ok
              /\ DOMAIN FilesAfter(Edits)[Len(Edits)] =
                    IF InFlight THEN DOMAIN ApplyEdit(version, LastEdit)
                                ELSE DOMAIN version

FilesInv == FileTypes /\ Descriptor /\ Opening /\ Running

\* Whoever waits for the background thread is waited for: a leader sleeps only
\* while the thread is scheduled, and it is scheduled whenever there is work
\* and no error (MaybeScheduleCompaction).
AwakeInv ==
    /\ waiting => scheduled
    /\ pc = "up" /\ Work(imm, version, bgError) => scheduled

-----------------------------------------------------------------------------
(* The database and the store it promises.                                 *)

\* The calls that have their answer, and those that wait for one.
Quiet == {"ok", "error", "lost"}
Busy == {"queued"} \cup Working

\* What the first records of a log hold: all of them, or those a crash of the
\* machine cannot take.
LogPart(f, sure) ==
    UNION {f.recs[i].entries : i \in {k \in 1 .. Len(f.recs) : sure => k <= f.synced}}

LogsIn(L, S, sure) == UNION {LogPart(L[n], sure) : n \in S \cap DOMAIN L}

LogsFrom(L, k, sure) == LogsIn(L, {n \in DOMAIN L : n >= k}, sure)

\* What recovery makes of the first j records of a descriptor.
Named(T, E, j) == TableEntries(T, DOMAIN FilesAfter(E)[j])
LogAt(E, j) == IF j = 0 THEN 0 ELSE E[j].log
Found(L, T, E, j, sure) == Named(T, E, j) \cup LogsFrom(L, LogAt(E, j), sure)

\* How many records a crash may leave of the descriptor.
Stops(E, s) == {j \in 0 .. Len(E) : s <= j}

\* Everything in the directory, and the memtable that is being written to a table.
OnDisk == TableEntries(tables, DOMAIN tables)
Logged == LogsIn(logs, DOMAIN logs, FALSE)
Frozen == IF imm = NoMem THEN {} ELSE imm[1]

Unique(S) == \A e, f \in S : e.seq = f.seq <=> e.call = f.call

\* An entry of a write that was answered, and one that must be found again:
\* after the process died, or for sure, after the machine did.
Settled(e) == e.seq <= last /\ phase[e.call] \in Quiet /\ kind[e.call] # "force"
Owed(e, sure) == sure => kind[e.call] = "sync" /\ phase[e.call] = "ok"

\* An entry that the leader has taken to the log.
InGroup(e) ==
    e \in GroupEntries /\ \E c \in Calls : phase[c] \in Working \ {"append"}

\* The queue: nobody is in it twice, whoever is in it waits for an answer, and
\* a sync write is in no group of an other.
QueueInv ==
    /\ \A i, j \in 1 .. Len(writers) : writers[i] = writers[j] => i = j
    /\ \A i \in 1 .. Len(writers) : phase[writers[i]] \in Busy
    /\ \A c \in Calls : phase[c] \in Busy => \E i \in 1 .. Len(writers) : writers[i] = c
    /\ \A c \in Calls : phase[c] \in Working =>
          /\ kind[c] # "force"
          /\ \A i \in 1 .. group : kind[writers[i]] = "sync" => kind[c] = "sync"
    /\ \A c \in Calls : phase[c] = "sync" => kind[c] = "sync"

\* No record was torn.
WholeRecords == \A n \in DOMAIN logs : \A i \in 1 .. Len(logs[n].recs) : logs[n].recs[i].ok

\* Until the database is made there is nothing.
EmptyInv == current = 0 => /\ pc = "down" /\ logs = Empty /\ tables = Empty
                           /\ \A c \in Calls : phase[c] = "idle"

\* What the background thread is about to install.
FlushLogged ==
    /\ LastEdit.add = (IF Frozen = {} THEN Empty ELSE Single(flush.num, 0))
       \/ LastEdit.add = (IF Frozen = {} THEN Empty ELSE Single(flush.num, 1))
    /\ LastEdit.del = {} /\ LastEdit.log = logfile
    /\ Frozen # {} => flush.num \in DOMAIN tables /\ tables[flush.num].entries = Frozen

CompactionLogged ==
    /\ LastEdit.add = Single(compact.num, 1) /\ LastEdit.del = compact.inputs
    /\ LastEdit.log = logNumber
    /\ compact.num \in DOMAIN tables
    /\ tables[compact.num].entries = TableEntries(tables, compact.inputs)

MoveLogged ==
    /\ \E n \in DOMAIN version : LastEdit.add = Single(n, 1) /\ LastEdit.del = {n}
    /\ LastEdit.log = logNumber

JobInv ==
    pc = "up" =>
       /\ compact.phase \in {"merge", "log"} =>
             compact.inputs \subseteq DOMAIN version /\ compact.num \notin DOMAIN version
       /\ compact.phase = "merge" =>
             /\ compact.num < next
             /\ \A i \in 1 .. Len(Edits) : compact.num \notin DOMAIN Edits[i].add
       /\ flush.phase = "log" => FlushLogged
       /\ compact.phase = "log" => CompactionLogged
       /\ compact.phase = "move" => MoveLogged

\* A running database.
UpStore ==
    /\ Unique(OnDisk \cup Logged)
    /\ \A e \in OnDisk \cup mem \cup Frozen : Settled(e)
    /\ \A e \in Logged : Settled(e) \/ InGroup(e)
    /\ Written \subseteq CallsOf(mem \cup Frozen \cup TableEntries(tables, DOMAIN version))
    /\ \A sure \in BOOLEAN : \A e \in mem : Owed(e, sure) => e \in LogPart(logs[logfile], sure)
    /\ \A sure \in BOOLEAN : \A e \in Frozen :
          Owed(e, sure) => e \in LogsFrom(logs, logNumber, sure)
    /\ \A c \in Calls :
          /\ phase[c] \in {"sync", "insert"} => GroupEntries \subseteq LogPart(logs[logfile], FALSE)
          /\ phase[c] = "insert" /\ kind[c] = "sync"
             => GroupEntries \subseteq LogPart(logs[logfile], TRUE)
    /\ \A j \in Stops(Edits, Synced) :
          /\ TableEntries(tables, DOMAIN version) \subseteq Named(tables, Edits, j)
          /\ \A sure \in BOOLEAN : \A e \in Frozen :
                Owed(e, sure) => e \in Found(logs, tables, Edits, j, sure)

\* The number a reader of the descriptor starts from is above its tables.
LastInv ==
    current # 0 => \A j \in Stops(Edits, Synced) :
        j # 0 => \A e \in Named(tables, Edits, j) : e.seq <= Edits[j].last

KeptAt(L, T, E, j) ==
    \A sure \in BOOLEAN : \A c \in Written : (sure => kind[c] = "sync") =>
        c \in CallsOf(Found(L, T, E, j, sure))

KeptInv == current # 0 => \A j \in Stops(Edits, Synced) : KeptAt(logs, tables, Edits, j)

\* A database that is not running.
DownStore ==
    \A j \in Stops(Edits, Synced) :
       /\ Unique(Found(logs, tables, Edits, j, FALSE))
       /\ \A e \in Found(logs, tables, Edits, j, FALSE) :
             phase[e.call] \in Quiet /\ kind[e.call] # "force"

\* DB::Open: the tables of the version and of the logs that were read, with the
\* logs that were not, are what the descriptor leads to.
OpenStore ==
    /\ pc \in {"logs", "manifest"} =>
         /\ \A i \in 1 .. Len(Edits) : Edits[i].next <= manifestNo
         /\ Found(logs, tables, Edits, Len(Edits), FALSE)
              = TableEntries(tables, DOMAIN version \cup DOMAIN opened)
                \cup LogsIn(logs, recovering, FALSE)
    /\ pc \in {"manifest", "current"} =>
         /\ logs[logfile].recs = <<>>
         /\ \A n \in DOMAIN logs : n <= logfile
    /\ pc = "current" => Synced = 1
    /\ pc # "up" => mem = {}
    /\ pc \in {"logs", "manifest", "current"} =>
         \A e \in TableEntries(tables, DOMAIN version \cup DOMAIN opened) : e.seq <= last

StoreInv ==
    /\ EmptyInv
    /\ LastInv
    /\ KeptInv
    /\ pc = "up" => UpStore
    /\ pc # "up" /\ current # 0 => DownStore
    /\ OpenStore

\* What the database shows, or would show if it was opened now.
Shown ==
    IF pc = "up" THEN mem \cup Frozen \cup TableEntries(tables, DOMAIN version)
    ELSE IF current = 0 THEN {} ELSE Found(logs, tables, Edits, Len(Edits), FALSE)

\* Everything above, for databases whose records are never torn.
DatabaseInv == ControlInv /\ FilesInv /\ QueueInv /\ WholeRecords /\ JobInv /\ StoreInv

\* The descriptor DB::Open writes: a snapshot of what it has read.
Snapshot == Edit(Over(opened, version), {}, logfile, next, last)

\* Two directories whose tables differ in one at most.
SameBut(T, U, k) ==
    \A n : n # k => (n \in DOMAIN T <=> n \in DOMAIN U) /\ (n \in DOMAIN T => U[n] = T[n])

=============================================================================
