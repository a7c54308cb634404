------------------------------ MODULE LogFormat ------------------------------
(***************************************************************************)
(* The format of logs and descriptors, byte by byte: log::Writer           *)
(* (db/log_writer.cc) cuts records into fragments that do not cross a      *)
(* block, log::Reader (db/log_reader.cc) puts together what it can of a    *)
(* file that a crash cut short or that was damaged.                        *)
(*                                                                         *)
(* A byte is the fragment it belongs to and its place there; the fragment  *)
(* number 0 is a trailer.  What a byte says is left out, and with it the   *)
(* checksum: a damaged byte is noticed.                                    *)
(***************************************************************************)
EXTENDS Naturals, Sequences, FiniteSets, SequencesExt

CONSTANTS
    BlockSize,  \* kBlockSize
    HeaderSize, \* kHeaderSize
    Sizes,      \* sizes of records
    MaxRecords  \* bound: records

VARIABLES
    file,       \* the bytes: sequence of [frag, at]
    frags,      \* the fragments: sequence of [rec, type, len]
    written,    \* number of records
    damaged,    \* <<[at, longer]>>: a damaged byte, the length if longer
    initial,    \* initial_offset_
    reader,     \* [pos, end, eof, resync], the rest of buffer_ is pos .. end
    got,        \* the records ReadRecord returned: sequences of fragments
    stage       \* "write", "read" or "done"

vars == <<file, frags, written, damaged, initial, reader, got, stage>>

-----------------------------------------------------------------------------
(* Writer.                                                                 *)

\* The fragments of AddRecord from an offset in the block: a trailer when no
\* header fits, then as much of the record as fits the block.
RECURSIVE Cut(_, _, _)
Cut(offset, left, begin) ==
    LET leftover == BlockSize - offset
        pad   == IF leftover < HeaderSize THEN leftover ELSE 0
        avail == (IF leftover < HeaderSize THEN BlockSize ELSE leftover) - HeaderSize
        len   == Min({left, avail})
        end   == left = len
        type  == CASE begin /\ end -> "full" [] begin /\ ~end -> "first"
                   [] ~begin /\ end -> "last" [] OTHER -> "middle"
        piece == [pad |-> pad, len |-> len, type |-> type]
    IN  IF end THEN <<piece>>
        ELSE <<piece>> \o Cut(BlockSize - avail + len, left - len, FALSE)

\* Mutant: the trailer is not filled.
BytesUnpadded(pieces) ==
    LET first == Len(frags)
    IN  FlattenSeq([i \in DOMAIN pieces |->
          [j \in 1 .. HeaderSize + pieces[i].len |-> [frag |-> first + i, at |-> j]]])

\* EmitPhysicalRecord of each fragment.
Bytes(pieces) ==
    LET first == Len(frags)
    IN  FlattenSeq([i \in DOMAIN pieces |->
          [j \in 1 .. pieces[i].pad |-> [frag |-> 0, at |-> j]]
          \o [j \in 1 .. HeaderSize + pieces[i].len |-> [frag |-> first + i, at |-> j]]])

AddRecord(size) ==
    /\ stage = "write"
    /\ written < MaxRecords
    /\ LET pieces == Cut(Len(file) % BlockSize, size, TRUE)
       IN  /\ file' = file \o Bytes(pieces)
           /\ frags' = frags \o [i \in DOMAIN pieces |->
                         [rec |-> written + 1, type |-> pieces[i].type, len |-> pieces[i].len]]
    /\ written' = written + 1
    /\ UNCHANGED <<damaged, initial, reader, got, stage>>

\* A crash cuts the file short.
Truncate(n) ==
    /\ stage = "write" /\ damaged = <<>>
    /\ file' = SubSeq(file, 1, n)
    /\ stage' = "read"
    /\ UNCHANGED <<frags, written, damaged, initial, reader, got>>

\* A byte changes.  A damaged length may run over the end of the buffer.
Damage(n) ==
    /\ stage = "write" /\ damaged = <<>>
    /\ \E longer \in {FALSE, file[n].at \in HeaderSize - 2 .. HeaderSize - 1} :
          damaged' = <<[at |-> n, longer |-> longer]>>
    /\ stage' = "read"
    /\ UNCHANGED <<file, frags, written, initial, reader, got>>

\* Reading starts at an offset: SkipToInitialBlock.
StartAt(offset) ==
    /\ stage = "write"
    /\ initial' = offset
    /\ LET inBlock == offset % BlockSize
           block   == (offset - inBlock)
                      + (IF inBlock > BlockSize - (HeaderSize - 1) THEN BlockSize ELSE 0)
       IN  reader' = [pos |-> block, end |-> block, eof |-> FALSE, resync |-> offset > 0]
    /\ stage' = "read"
    /\ UNCHANGED <<file, frags, written, damaged, got>>

-----------------------------------------------------------------------------
(* Reader.                                                                 *)

IsDamaged(from, to) == damaged # <<>> /\ damaged[1].at \in from .. to

\* ReadPhysicalRecord: [type, frag, r], with r the reader afterwards.
RECURSIVE ReadPhysicalRecord(_)
ReadPhysicalRecord(r) ==
    LET rest    == r.end - r.pos
        cleared == [r EXCEPT !.pos = r.end]
        bad     == [type |-> "bad", frag |-> 0, r |-> cleared]
        eof     == [type |-> "eof", frag |-> 0, r |-> cleared]
        refill  == LET end == Max({r.end, Min({Len(file), r.end + BlockSize})})
                   IN  [r EXCEPT !.pos = r.end, !.end = end, !.eof = end - r.end < BlockSize]
        f       == file[r.pos + 1].frag
        size    == HeaderSize + frags[f].len
        tooLong == \/ IsDamaged(r.pos + 1, r.pos + HeaderSize) /\ damaged[1].longer
                   \/ ~IsDamaged(r.pos + 1, r.pos + HeaderSize) /\ size > rest
    IN  CASE rest < HeaderSize /\ ~r.eof -> ReadPhysicalRecord(refill)
          [] rest < HeaderSize /\ r.eof -> eof
          [] rest >= HeaderSize /\ f = 0 -> bad
          [] rest >= HeaderSize /\ f # 0 /\ tooLong -> IF r.eof THEN eof ELSE bad
          [] rest >= HeaderSize /\ f # 0 /\ ~tooLong ->
               IF IsDamaged(r.pos + 1, r.pos + size) THEN bad
               ELSE LET after == [r EXCEPT !.pos = @ + size]
                    IN  IF r.pos < initial THEN [type |-> "bad", frag |-> 0, r |-> after]
                        ELSE [type |-> frags[f].type, frag |-> f, r |-> after]

\* ReadRecord: [found, record, r]; scratch is what a first fragment began.
RECURSIVE Assemble(_, _)
Assemble(r, scratch) ==
    LET p == ReadPhysicalRecord(r)
        now == [p.r EXCEPT !.resync = @ /\ p.type = "middle"]
    IN  CASE p.r.resync /\ p.type \in {"middle", "last"} -> Assemble(now, scratch)
          [] p.type = "full" ->
               [found |-> TRUE, record |-> <<p.frag>>, r |-> now]
          [] p.type = "first" -> Assemble(now, <<p.frag>>)
          [] ~p.r.resync /\ p.type = "middle" ->
               Assemble(now, IF scratch = <<>> THEN <<>> ELSE Append(scratch, p.frag))
          [] ~p.r.resync /\ p.type = "last" ->
               IF scratch = <<>> THEN Assemble(now, <<>>)
               ELSE [found |-> TRUE, record |-> Append(scratch, p.frag), r |-> now]
          [] p.type = "bad" -> Assemble(now, <<>>)
          [] p.type = "eof" -> [found |-> FALSE, record |-> <<>>, r |-> now]

ReadRecord ==
    /\ stage = "read"
    /\ LET a == Assemble(reader, <<>>)
       IN  /\ reader' = a.r
           /\ got' = IF a.found THEN Append(got, a.record) ELSE got
           /\ stage' = IF a.found THEN "read" ELSE "done"
    /\ UNCHANGED <<file, frags, written, damaged, initial>>

Init ==
    /\ file = <<>> /\ frags = <<>> /\ written = 0
    /\ damaged = <<>> /\ initial = 0
    /\ reader = [pos |-> 0, end |-> 0, eof |-> FALSE, resync |-> FALSE]
    /\ got = <<>> /\ stage = "write"

Next ==
    \/ \E size \in Sizes : AddRecord(size)
    \/ \E n \in 0 .. Len(file) : Truncate(n)
    \/ \E n \in DOMAIN file : Damage(n)
    \/ \E offset \in 1 .. Len(file) : StartAt(offset)
    \/ ReadRecord

Spec == Init /\ [][Next]_vars

-----------------------------------------------------------------------------
Fragments(rec) == {f \in DOMAIN frags : frags[f].rec = rec}
Whole(rec) == SetToSortSeq(Fragments(rec), <)

BytesOf(f) == {n \in DOMAIN file : file[n].frag = f}
Complete(f) == Cardinality(BytesOf(f)) = HeaderSize + frags[f].len

\* From the fragment of the damaged byte on, the rest of its block is lost.
Block(n) == (n - 1) \div BlockSize

Lost(f) ==
    \/ ~Complete(f)
    \/ /\ damaged # <<>>
       /\ Block(Max(BytesOf(f))) = Block(damaged[1].at)
       /\ f >= file[damaged[1].at].frag
       /\ file[damaged[1].at].frag # 0

\* The records a reader must find: those that begin at its offset or later
\* and that lost no fragment.
Readable ==
    SelectSeq([rec \in 1 .. written |-> Whole(rec)],
              LAMBDA fs : /\ \A i \in DOMAIN fs : ~Lost(fs[i])
                          /\ Min(BytesOf(fs[1])) > initial)

\* Whatever a crash cut off or a byte damaged, the reader returns just the
\* records it can still know, each of them whole, and in their order
\* (RecoverLogFile, VersionSet::Recover).
ReadsBack ==
    /\ stage = "done" => got = Readable
    /\ IsPrefix(got, Readable)
==============================================================================
