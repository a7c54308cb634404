---------------------------- MODULE LevelsProofs ----------------------------
(***************************************************************************)
(* Theorems about Levels, for any number of keys, writes, tables, levels,  *)
(* snapshots and restarts, as long as nobody calls CompactRange and no     *)
(* snapshot is held or no output is cut inside a key (the client of this   *)
(* repository does neither; LevelDBBoundary.cfg shows what happens with    *)
(* both).                                                                  *)
(*                                                                         *)
(* The inductive invariant LevelsInv says how tables lie (TablesInv:       *)
(* LevelsApart, NewerUp, MemoryIsNewest) and, while a compaction is under  *)
(* way, that its inputs can be replaced one level further down             *)
(* (CompactingInv).  ReadsInv adds that the entries every snapshot and     *)
(* every reader needs are still stored.                                    *)
(***************************************************************************)
EXTENDS Levels, OrderLemmas, SequenceTheorems

-----------------------------------------------------------------------------
(* Ranges of keys.                                                         *)

\* Entries are compared by what W, a value of writes, says of them.
Covers(W, S, k) == \E s, t \in S : W[s].key <= k /\ k <= W[t].key

\* Every key of S is before every key of T.
Below(W, S, T) == \A s \in S, t \in T : W[s].key < W[t].key

\* The two hold disjoint ranges of keys.
Apart(W, S, T) == Below(W, S, T) \/ Below(W, T, S)

\* The writes, and the tables made of them.
WritesType == writes \in Seq([key : Keys, del : BOOLEAN])

Tables == [num : Nat, seqs : (SUBSET (1 .. last)) \ {{}}]

\* The entries of a set of tables.
Content(fs) == UNION {f.seqs : f \in fs}

\* A range of user keys, and what is in it.
Ranges == {r \in [lo : Nat, hi : Nat] : r.lo <= r.hi}

Within(k, r) == r.lo <= k /\ k <= r.hi

\* What Write appended is an entry with a user key and a type.
LEMMA EntryTypes ==
    ASSUME LevelsAssumption, WritesType
    PROVE  /\ last \in Nat
           /\ \A s \in 1 .. last : /\ writes[s] \in [key : Keys, del : BOOLEAN]
                                   /\ Key(s) \in Nat /\ Key(s) = writes[s].key
<1>1. last \in Nat
  BY LenProperties DEF WritesType, last
<1>2. ASSUME NEW s \in 1 .. last PROVE writes[s] \in [key : Keys, del : BOOLEAN]
  BY ElementOfSeq DEF WritesType, last
<1> QED BY <1>1, <1>2 DEF Key, LevelsAssumption

\* The entries of a set of tables are some of the writes, and finitely many.
LEMMA ContentType ==
    ASSUME LevelsAssumption, WritesType, NEW fs \in SUBSET Tables
    PROVE  /\ Content(fs) \subseteq 1 .. last /\ IsFiniteSet(Content(fs))
           /\ fs # {} => Content(fs) # {}
<1>1. Content(fs) \in SUBSET (1 .. last)
  BY DEF Content, Tables
<1>2. IsFiniteSet(1 .. last)
  <2>1. 1 \in Int /\ last \in Int
    BY EntryTypes
  <2> QED BY <2>1, FS_Interval
<1>3. IsFiniteSet(Content(fs))
  BY <1>1, <1>2, FS_Subset
<1>4. ASSUME fs # {} PROVE Content(fs) # {}
  <2>1. PICK f \in fs : TRUE
    BY <1>4
  <2>2. f.seqs # {} /\ f.seqs \subseteq Content(fs)
    BY <2>1 DEF Content, Tables
  <2> QED BY <2>2
<1> QED BY <1>1, <1>3, <1>4

\* GetRange returns the smallest range that holds every key of the files.
LEMMA HullIs ==
    ASSUME LevelsAssumption, WritesType, NEW fs \in SUBSET Tables, fs # {}
    PROVE  /\ Hull(fs) \in Ranges
           /\ \A s \in Content(fs) : Within(Key(s), Hull(fs))
           /\ \E s \in Content(fs) : Key(s) = Hull(fs).lo
           /\ \E s \in Content(fs) : Key(s) = Hull(fs).hi
           /\ \A k \in Nat : Within(k, Hull(fs)) <=> Covers(writes, Content(fs), k)
<1> DEFINE ks == {Key(s) : s \in Content(fs)}
           g == [s \in Content(fs) |-> Key(s)]
<1>1. /\ Content(fs) \subseteq 1 .. last /\ IsFiniteSet(Content(fs)) /\ Content(fs) # {}
  BY ContentType
<1>2. \A s \in Content(fs) : Key(s) \in Nat /\ Key(s) = writes[s].key
  BY <1>1, EntryTypes
<1>3. ks \in SUBSET Nat /\ ks # {}
  BY <1>1, <1>2
<1>4. g \in Surjection(Content(fs), ks)
  BY DEF Surjection
<1>5. IsFiniteSet(ks)
  <2> HIDE DEF ks, g
  <2> QED BY <1>1, <1>4, FS_Surjection
<1>6. Hull(fs) = [lo |-> Min(ks), hi |-> Max(ks)]
  BY DEF Hull, Content
<1>7. /\ Min(ks) \in ks /\ \A y \in ks : Min(ks) <= y
      /\ Max(ks) \in ks /\ \A y \in ks : Max(ks) >= y
  <2> HIDE DEF ks
  <2> QED BY <1>3, <1>5, MinIs, MaxIs
<1>8. /\ \A s \in Content(fs) : Within(Key(s), Hull(fs))
      /\ \E s \in Content(fs) : Key(s) = Hull(fs).lo
      /\ \E s \in Content(fs) : Key(s) = Hull(fs).hi
      /\ Hull(fs).lo \in Nat /\ Hull(fs).hi \in Nat
  <2>1. Hull(fs).lo = Min(ks) /\ Hull(fs).hi = Max(ks)
    BY <1>6
  <2>2. \A s \in Content(fs) : Key(s) \in ks
    OBVIOUS
  <2>3. \A y \in ks : \E s \in Content(fs) : Key(s) = y
    OBVIOUS
  <2> HIDE DEF ks
  <2> QED BY <1>3, <1>7, <2>1, <2>2, <2>3 DEF Within
<1>9. Hull(fs) \in Ranges
  BY <1>3, <1>6, <1>7, <1>8 DEF Ranges
<1>10. ASSUME NEW k \in Nat PROVE Within(k, Hull(fs)) <=> Covers(writes, Content(fs), k)
  <2>1. ASSUME Within(k, Hull(fs)) PROVE Covers(writes, Content(fs), k)
    BY <1>2, <1>8, <2>1 DEF Within, Covers
  <2>2. ASSUME Covers(writes, Content(fs), k) PROVE Within(k, Hull(fs))
    <3>1. PICK s \in Content(fs), t \in Content(fs) : Key(s) <= k /\ k <= Key(t)
      BY <1>2, <2>2 DEF Covers
    <3>2. Within(Key(s), Hull(fs)) /\ Within(Key(t), Hull(fs))
      BY <1>8
    <3> QED BY <1>2, <1>8, <3>1, <3>2 DEF Within
  <2> QED BY <2>1, <2>2
<1> QED BY <1>8, <1>9, <1>10

\* The range of one table.
LEMMA RangeIs ==
    ASSUME LevelsAssumption, WritesType, NEW f \in Tables
    PROVE  /\ Range1(f) \in Ranges
           /\ \A s \in f.seqs : Within(Key(s), Range1(f))
           /\ \E s \in f.seqs : Key(s) = Range1(f).lo
           /\ \E s \in f.seqs : Key(s) = Range1(f).hi
           /\ \A k \in Nat : Within(k, Range1(f)) <=> Covers(writes, f.seqs, k)
<1>1. {f} \in SUBSET Tables /\ {f} # {} /\ Content({f}) = f.seqs /\ Range1(f) = Hull({f})
  BY DEF Content, Range1
<1> HIDE DEF Range1
<1> QED BY <1>1, HullIs

\* Two ranges meet when there is a key in both.
LEMMA OverlapIs ==
    ASSUME NEW r \in Ranges, NEW q \in Ranges
    PROVE  Overlaps(r, q) <=> \E k \in Nat : Within(k, r) /\ Within(k, q)
<1>1. r.lo \in Nat /\ r.hi \in Nat /\ q.lo \in Nat /\ q.hi \in Nat /\ r.lo <= r.hi /\ q.lo <= q.hi
  BY DEF Ranges
<1>2. ASSUME Overlaps(r, q) PROVE \E k \in Nat : Within(k, r) /\ Within(k, q)
  <2>1. CASE r.lo <= q.lo
    BY <1>1, <1>2, <2>1 DEF Overlaps, Within
  <2>2. CASE q.lo <= r.lo
    BY <1>1, <1>2, <2>2 DEF Overlaps, Within
  <2> QED BY <1>1, <2>1, <2>2
<1> QED BY <1>1, <1>2 DEF Overlaps, Within

\* Ranges that do not meet hold different keys, all of one below the other's.
LEMMA ApartIs ==
    ASSUME LevelsAssumption, WritesType, NEW f \in Tables, NEW fs \in SUBSET Tables, fs # {}
    PROVE  ~Overlaps(Range1(f), Hull(fs)) <=> Apart(writes, f.seqs, Content(fs))
<1>1. /\ Range1(f) \in Ranges /\ Hull(fs) \in Ranges
      /\ \A s \in f.seqs : Within(Key(s), Range1(f))
      /\ \A s \in Content(fs) : Within(Key(s), Hull(fs))
  BY RangeIs, HullIs
<1>2. PICK a \in f.seqs : Key(a) = Range1(f).lo
  BY RangeIs
<1>3. PICK b \in f.seqs : Key(b) = Range1(f).hi
  BY RangeIs
<1>4. PICK c \in Content(fs) : Key(c) = Hull(fs).lo
  BY HullIs
<1>5. PICK d \in Content(fs) : Key(d) = Hull(fs).hi
  BY HullIs
<1>6. \A s \in f.seqs \cup Content(fs) : Key(s) \in Nat /\ Key(s) = writes[s].key
  BY EntryTypes, ContentType DEF Tables
<1>7. Range1(f).lo \in Nat /\ Range1(f).hi \in Nat /\ Hull(fs).lo \in Nat /\ Hull(fs).hi \in Nat
      /\ Range1(f).lo <= Range1(f).hi /\ Hull(fs).lo <= Hull(fs).hi
  BY <1>1 DEF Ranges
<1>8. ASSUME ~Overlaps(Range1(f), Hull(fs)) PROVE Apart(writes, f.seqs, Content(fs))
  <2>1. CASE Range1(f).hi < Hull(fs).lo
    BY <1>1, <1>6, <1>7, <2>1 DEF Apart, Below, Within
  <2>2. CASE Hull(fs).hi < Range1(f).lo
    BY <1>1, <1>6, <1>7, <2>2 DEF Apart, Below, Within
  <2> QED BY <1>7, <1>8, <2>1, <2>2 DEF Overlaps
<1>9. ASSUME Apart(writes, f.seqs, Content(fs)) PROVE ~Overlaps(Range1(f), Hull(fs))
  <2>1. CASE Below(writes, f.seqs, Content(fs))
    BY <1>3, <1>4, <1>6, <1>7, <2>1 DEF Below, Overlaps
  <2>2. CASE Below(writes, Content(fs), f.seqs)
    BY <1>2, <1>5, <1>6, <1>7, <2>2 DEF Below, Overlaps
  <2> QED BY <1>9, <2>1, <2>2 DEF Apart
<1> QED BY <1>8, <1>9

-----------------------------------------------------------------------------
(* GetOverlappingInputs.                                                   *)

\* What widening a range does.
LEMMA WidenedIs ==
    ASSUME LevelsAssumption, WritesType, NEW r \in Ranges, NEW S \in SUBSET Tables, S # {}
    PROVE  /\ Widened(r, S) \in Ranges
           /\ Widened(r, S).lo \in {r.lo, Hull(S).lo} /\ Widened(r, S).hi \in {r.hi, Hull(S).hi}
           /\ Widened(r, S).lo <= r.lo /\ Widened(r, S).lo <= Hull(S).lo
           /\ r.hi <= Widened(r, S).hi /\ Hull(S).hi <= Widened(r, S).hi
<1>1. /\ r.lo \in Nat /\ r.hi \in Nat /\ Hull(S).lo \in Nat /\ Hull(S).hi \in Nat
      /\ r.lo <= r.hi /\ Hull(S).lo <= Hull(S).hi
  BY HullIs DEF Ranges
<1> DEFINE A == {r.lo, Hull(S).lo}
           B == {r.hi, Hull(S).hi}
<1>2. A \in SUBSET Nat /\ A # {} /\ B \in SUBSET Nat /\ B # {} /\ IsFiniteSet(B)
  <2>1. IsFiniteSet({r.hi} \cup {Hull(S).hi})
    BY FS_Singleton, FS_AddElement
  <2>2. {r.hi} \cup {Hull(S).hi} = B
    OBVIOUS
  <2> QED BY <1>1, <2>1, <2>2
<1>3. Min(A) \in A /\ \A y \in A : Min(A) <= y
  <2> HIDE DEF A
  <2> QED BY <1>2, MinIs
<1>4. Max(B) \in B /\ \A y \in B : Max(B) >= y
  <2> HIDE DEF B
  <2> QED BY <1>2, MaxIs
<1>5. Widened(r, S) = [lo |-> Min(A), hi |-> Max(B)]
  BY DEF Widened
<1>6. Min(A) <= r.lo /\ Min(A) <= Hull(S).lo /\ r.hi <= Max(B) /\ Hull(S).hi <= Max(B)
      /\ Min(A) \in Nat /\ Max(B) \in Nat
  BY <1>1, <1>3, <1>4
<1>7. Widened(r, S).lo = Min(A) /\ Widened(r, S).hi = Max(B)
  BY <1>5
<1>8. Min(A) <= Max(B)
  <2> HIDE DEF A, B
  <2> QED BY <1>1, <1>6
<1> HIDE DEF A, B
<1>9. Widened(r, S) \in Ranges
  BY <1>5, <1>6, <1>8 DEF Ranges
<1> QED BY <1>3, <1>4, <1>6, <1>7, <1>9 DEF A, B

\* What all tables of T meet grows with them into a range without a gap.
LEMMA NoGap ==
    ASSUME LevelsAssumption, WritesType, NEW q \in Ranges, NEW T \in SUBSET Tables,
           \A f \in T : Overlaps(Range1(f), q),
           NEW k \in Nat, T # {} => Within(k, Widened(q, T)), T = {} => Within(k, q)
    PROVE  Within(k, q) \/ \E f \in T : Within(k, Range1(f))
<1> SUFFICES ASSUME T # {}, ~Within(k, q) PROVE \E f \in T : Within(k, Range1(f))
  OBVIOUS
<1>1. /\ Widened(q, T) \in Ranges
      /\ Widened(q, T).lo \in {q.lo, Hull(T).lo} /\ Widened(q, T).hi \in {q.hi, Hull(T).hi}
      /\ Within(k, Widened(q, T))
  BY WidenedIs
<1>2. q.lo \in Nat /\ q.hi \in Nat /\ q.lo <= q.hi
  BY DEF Ranges
<1>3. ASSUME NEW f \in T
      PROVE  /\ Range1(f) \in Ranges /\ Range1(f).lo \in Nat /\ Range1(f).hi \in Nat
             /\ Range1(f).lo <= q.hi /\ q.lo <= Range1(f).hi
             /\ \A s \in f.seqs : Within(Key(s), Range1(f))
  <2>1. Range1(f) \in Ranges /\ \A s \in f.seqs : Within(Key(s), Range1(f))
    BY RangeIs
  <2> QED BY <2>1 DEF Ranges, Overlaps
<1>4. \A s \in Content(T) : \E f \in T : s \in f.seqs
  BY DEF Content
<1>5. CASE k < q.lo
  <2>1. Widened(q, T).lo # q.lo
    BY <1>1, <1>2, <1>5 DEF Within, Ranges
  <2>2. Hull(T).lo <= k
    BY <1>1, <2>1 DEF Within
  <2>3. PICK s \in Content(T) : Key(s) = Hull(T).lo
    BY HullIs
  <2>4. PICK f \in T : s \in f.seqs
    BY <1>4
  <2>5. Within(Key(s), Range1(f)) /\ q.lo <= Range1(f).hi /\ Range1(f).hi \in Nat
        /\ Range1(f).lo \in Nat
    BY <1>3, <2>4
  <2>6. Hull(T).lo \in Nat
    BY HullIs DEF Ranges
  <2>7. Within(k, Range1(f))
    BY <1>2, <1>5, <2>2, <2>3, <2>5, <2>6 DEF Within
  <2> QED BY <2>7
<1>6. CASE q.hi < k
  <2>1. Widened(q, T).hi # q.hi
    BY <1>1, <1>2, <1>6 DEF Within, Ranges
  <2>2. k <= Hull(T).hi
    BY <1>1, <2>1 DEF Within
  <2>3. PICK s \in Content(T) : Key(s) = Hull(T).hi
    BY HullIs
  <2>4. PICK f \in T : s \in f.seqs
    BY <1>4
  <2>5. Within(Key(s), Range1(f)) /\ Range1(f).lo <= q.hi /\ Range1(f).hi \in Nat
        /\ Range1(f).lo \in Nat
    BY <1>3, <2>4
  <2>6. Hull(T).hi \in Nat
    BY HullIs DEF Ranges
  <2>7. Within(k, Range1(f))
    BY <1>2, <1>6, <2>2, <2>3, <2>5, <2>6 DEF Within
  <2> QED BY <2>7
<1> QED BY <1>2, <1>5, <1>6 DEF Within

\* Widening a range with more tables widens it more.
LEMMA WidenedMore ==
    ASSUME LevelsAssumption, WritesType, NEW r \in Ranges, NEW T \in SUBSET Tables,
           NEW S \in SUBSET T, S # {}, NEW k \in Nat, Within(k, Widened(r, T))
    PROVE  Within(k, Widened(Widened(r, S), T))
<1>1. T # {} /\ S \in SUBSET Tables
  OBVIOUS
<1>2. Widened(r, S) \in Ranges /\ Widened(r, T) \in Ranges
  BY <1>1, WidenedIs
<1>3. Widened(Widened(r, S), T) \in Ranges
      /\ Widened(Widened(r, S), T).lo <= Widened(r, S).lo
      /\ Widened(Widened(r, S), T).lo <= Hull(T).lo
      /\ Widened(r, S).hi <= Widened(Widened(r, S), T).hi
      /\ Hull(T).hi <= Widened(Widened(r, S), T).hi
  BY <1>1, <1>2, WidenedIs
<1>4. Widened(r, S).lo <= r.lo /\ r.hi <= Widened(r, S).hi
  BY <1>1, WidenedIs
<1>5. Widened(r, T).lo \in {r.lo, Hull(T).lo} /\ Widened(r, T).hi \in {r.hi, Hull(T).hi}
  BY <1>1, WidenedIs
<1>6. r.lo \in Nat /\ r.hi \in Nat /\ Hull(T).lo \in Nat /\ Hull(T).hi \in Nat
      /\ Widened(r, S).lo \in Nat /\ Widened(r, S).hi \in Nat
      /\ Widened(Widened(r, S), T).lo \in Nat /\ Widened(Widened(r, S), T).hi \in Nat
  BY <1>1, <1>2, <1>3, HullIs DEF Ranges
<1>7. Widened(r, T).lo <= k /\ k <= Widened(r, T).hi
  BY DEF Within
<1>8. Widened(Widened(r, S), T).lo <= k
  BY <1>3, <1>4, <1>5, <1>6, <1>7
<1>9. k <= Widened(Widened(r, S), T).hi
  BY <1>3, <1>4, <1>5, <1>6, <1>7
<1> QED BY <1>8, <1>9 DEF Within

\* The tables that widened a range meet it.
LEMMA InsideWidened ==
    ASSUME LevelsAssumption, WritesType, NEW F \in SUBSET Tables, NEW r \in Ranges,
           NEW S \in SUBSET F, S # {}
    PROVE  /\ S \subseteq Overlapping(F, Widened(r, S))
           /\ Overlapping(F, r) \subseteq Overlapping(F, Widened(r, S))
<1>1. S \in SUBSET Tables
  OBVIOUS
<1>2. /\ Widened(r, S) \in Ranges
      /\ Widened(r, S).lo <= r.lo /\ Widened(r, S).lo <= Hull(S).lo
      /\ r.hi <= Widened(r, S).hi /\ Hull(S).hi <= Widened(r, S).hi
  BY <1>1, WidenedIs
<1>3. Widened(r, S).lo \in Nat /\ Widened(r, S).hi \in Nat /\ r.lo \in Nat /\ r.hi \in Nat
      /\ Hull(S).lo \in Nat /\ Hull(S).hi \in Nat
  BY <1>1, <1>2, HullIs DEF Ranges
<1>4. ASSUME NEW f \in S PROVE Overlaps(Range1(f), Widened(r, S))
  <2>1. f \in Tables /\ Range1(f) \in Ranges
    BY <1>1, RangeIs
  <2>2. PICK s \in f.seqs : Key(s) = Range1(f).lo
    BY <2>1, RangeIs
  <2>3. s \in Content(S)
    BY DEF Content
  <2>4. Within(Key(s), Hull(S))
    BY <1>1, <2>3, HullIs
  <2>5. Range1(f).lo \in Nat /\ Range1(f).hi \in Nat /\ Range1(f).lo <= Range1(f).hi
    BY <2>1 DEF Ranges
  <2> QED BY <1>2, <1>3, <2>2, <2>4, <2>5 DEF Within, Overlaps
<1>5. ASSUME NEW f \in F, Overlaps(Range1(f), r) PROVE Overlaps(Range1(f), Widened(r, S))
  <2>1. Range1(f).lo \in Nat /\ Range1(f).hi \in Nat
    BY RangeIs DEF Ranges
  <2> QED BY <1>2, <1>3, <1>5, <2>1 DEF Overlaps
<1> QED BY <1>4, <1>5 DEF Overlapping

\* The recursive definition of Rounds has the value it describes.
LEMMA RoundsDef ==
    ASSUME NEW fs, Cardinality(fs) \in Nat, NEW r
    PROVE  Rounds(fs, r) = [n \in 0 .. Cardinality(fs) |->
              IF n = 0 THEN Overlapping(fs, r)
              ELSE IF Rounds(fs, r)[n - 1] = {} THEN {}
              ELSE Overlapping(fs, Widened(r, Rounds(fs, r)[n - 1]))]
<1> DEFINE Step(n, x) == IF n = 0 THEN Overlapping(fs, r)
                         ELSE IF x = {} THEN {} ELSE Overlapping(fs, Widened(r, x))
           S == {m \in Nat : \E g : g = [n \in 0 .. m |-> Step(n, g[n - 1])]}
<1> HIDE DEF Step
<1>0. \A x, y : Step(0, x) = Step(0, y)
  BY DEF Step
<1>1. 0 \in S
  <2> DEFINE g == [n \in 0 .. 0 |-> Step(0, 0)]
  <2>1. g = [n \in 0 .. 0 |-> Step(n, g[n - 1])]
    <3>1. \A n \in 0 .. 0 : Step(n, g[n - 1]) = Step(0, 0)
      BY <1>0
    <3> QED BY <3>1
  <2> QED BY <2>1
<1>2. ASSUME NEW m \in Nat, m \in S PROVE m + 1 \in S
  <2>1. PICK g : g = [n \in 0 .. m |-> Step(n, g[n - 1])]
    BY <1>2
  <2> DEFINE h == [n \in 0 .. m + 1 |-> IF n = m + 1 THEN Step(m + 1, g[m]) ELSE g[n]]
  <2>2. ASSUME NEW n \in 0 .. m + 1 PROVE h[n] = Step(n, h[n - 1])
    <3>1. CASE n = 0
      <4>1. h[n] = g[0] /\ g[0] = Step(0, g[0 - 1])
        BY <2>1, <3>1
      <4>2. Step(0, g[0 - 1]) = Step(0, h[0 - 1])
        BY <1>0
      <4> QED BY <3>1, <4>1, <4>2
    <3>2. CASE n = m + 1
      <4>1. n - 1 = m /\ m \in 0 .. m + 1 /\ m # m + 1
        BY <3>2
      <4>2. h[n - 1] = g[m] /\ h[n] = Step(m + 1, g[m])
        BY <3>2, <4>1
      <4> QED BY <3>2, <4>1, <4>2
    <3>3. CASE n \in 1 .. m
      <4>1. /\ n - 1 \in 0 .. m + 1 /\ n - 1 # m + 1 /\ n # m + 1
            /\ n \in 0 .. m /\ n \in 0 .. m + 1
        BY <3>3
      <4>2. h[n - 1] = g[n - 1] /\ h[n] = g[n]
        BY <4>1
      <4>3. g[n] = Step(n, g[n - 1])
        BY <2>1, <4>1
      <4> QED BY <4>2, <4>3
    <3> QED BY <3>1, <3>2, <3>3
  <2>3. h = [n \in 0 .. m + 1 |-> Step(n, h[n - 1])]
    <3>1. h = [n \in 0 .. m + 1 |-> h[n]]
      OBVIOUS
    <3> HIDE DEF h
    <3> QED BY <2>2, <3>1
  <2>4. \E k : k = [n \in 0 .. m + 1 |-> Step(n, k[n - 1])]
    <3> HIDE DEF h
    <3> QED BY <2>3
  <2> QED BY <2>4
<1>3. Cardinality(fs) \in S
  <2> HIDE DEF S
  <2> QED BY <1>1, <1>2, SetInduction
<1>4. \E g : g = [n \in 0 .. Cardinality(fs) |->
                    IF n = 0 THEN Overlapping(fs, r)
                    ELSE IF g[n - 1] = {} THEN {}
                    ELSE Overlapping(fs, Widened(r, g[n - 1]))]
  BY <1>3 DEF Step
<1> QED BY <1>4 DEF Rounds

\* The table set T answers a search for r among F: it holds what meets r, and
\* what it widens r to has no gap.
Answers(F, r, T) ==
    /\ T \subseteq F /\ Overlapping(F, r) \subseteq T
    /\ \A k \in Nat : T # {} /\ Within(k, Widened(r, T)) =>
          Within(k, r) \/ \E f \in T : Within(k, Range1(f))

\* One round more keeps it so.
LEMMA RoundAnswers ==
    ASSUME LevelsAssumption, WritesType, NEW F \in SUBSET Tables, NEW r \in Ranges,
           NEW S, S # {}, Answers(F, r, S)
    PROVE  Answers(F, r, Overlapping(F, Widened(r, S)))
<1> DEFINE q == Widened(r, S)
           T == Overlapping(F, q)
<1>1. S \in SUBSET F /\ S \in SUBSET Tables /\ q \in Ranges
  BY WidenedIs DEF Answers
<1>2. S \subseteq T /\ Overlapping(F, r) \subseteq T
  BY <1>1, InsideWidened
<1>3. T \in SUBSET Tables /\ T \subseteq F /\ \A f \in T : Overlaps(Range1(f), q)
  BY DEF Overlapping
<1> HIDE DEF q, T
<1>4. ASSUME NEW k \in Nat, Within(k, Widened(r, T))
      PROVE  Within(k, r) \/ \E f \in T : Within(k, Range1(f))
  <2>1. Within(k, Widened(q, T))
    BY <1>1, <1>2, <1>3, <1>4, WidenedMore DEF q
  <2>2. Within(k, q) \/ \E f \in T : Within(k, Range1(f))
    BY <1>1, <1>2, <1>3, <2>1, NoGap
  <2>3. ASSUME Within(k, q) PROVE Within(k, r) \/ \E f \in S : Within(k, Range1(f))
    BY <2>3 DEF q, Answers
  <2> QED BY <1>2, <2>2, <2>3
<1>5. Answers(F, r, T)
  BY <1>2, <1>3, <1>4 DEF Answers
<1> QED BY <1>5 DEF T, q

\* In level 0 the search ends with all tables that meet what it widened the
\* range to (GetOverlappingInputs).
LEMMA RoundsAnswer ==
    ASSUME LevelsAssumption, WritesType, NEW F \in SUBSET Tables, IsFiniteSet(F),
           NEW r \in Ranges, NEW R, R = Rounds(F, r)[Cardinality(F)]
    PROVE  /\ Answers(F, r, R)
           /\ R # {} => Overlapping(F, Widened(r, R)) = R
<1> DEFINE N == Cardinality(F)
           found == Rounds(F, r)
           more(S) == Overlapping(F, Widened(r, S))
           P(n) == \/ found[n] = {} /\ Overlapping(F, r) = {}
                   \/ /\ found[n] # {} /\ Answers(F, r, found[n])
                      /\ found[n] = more(found[n]) \/ n < Cardinality(found[n])
           S == {n \in Nat : n <= N => P(n)}
<1>1. N \in Nat
  BY FS_CardinalityType
<1>2. \A n \in 0 .. N : found[n] = IF n = 0 THEN Overlapping(F, r)
                                   ELSE IF found[n - 1] = {} THEN {}
                                   ELSE more(found[n - 1])
  <2> HIDE DEF more
  <2>1. found = [n \in 0 .. N |-> IF n = 0 THEN Overlapping(F, r)
                                  ELSE IF found[n - 1] = {} THEN {}
                                  ELSE more(found[n - 1])]
    BY <1>1, RoundsDef DEF more
  <2> HIDE DEF found, N
  <2> QED BY <2>1
<1> HIDE DEF N, found
<1>3. \A T \in SUBSET F : IsFiniteSet(T) /\ Cardinality(T) \in Nat /\ Cardinality(T) <= N
                          /\ (Cardinality(T) = 0 <=> T = {})
  <2> SUFFICES ASSUME NEW T \in SUBSET F
               PROVE  IsFiniteSet(T) /\ Cardinality(T) \in Nat /\ Cardinality(T) <= N
                      /\ (Cardinality(T) = 0 <=> T = {})
    OBVIOUS
  <2>1. IsFiniteSet(T) /\ Cardinality(T) <= N
    BY FS_Subset DEF N
  <2> QED BY <2>1, FS_CardinalityType, FS_EmptySet
<1>4. 0 \in S
  <2>1. found[0] = Overlapping(F, r)
    BY <1>1, <1>2
  <2>2. CASE Overlapping(F, r) = {}
    BY <2>1, <2>2
  <2>3. CASE Overlapping(F, r) # {}
    <3>1. Answers(F, r, Overlapping(F, r))
      <4>1. /\ Overlapping(F, r) \in SUBSET Tables /\ Overlapping(F, r) \subseteq F
            /\ \A f \in Overlapping(F, r) : Overlaps(Range1(f), r)
        BY DEF Overlapping
      <4> QED BY <4>1, NoGap DEF Answers
    <3>2. Cardinality(found[0]) \in Nat /\ Cardinality(found[0]) # 0
      <4>1. found[0] \in SUBSET F /\ found[0] # {}
        BY <2>1, <2>3 DEF Overlapping
      <4> QED BY <1>3, <4>1
    <3>3. 0 < Cardinality(found[0])
      BY <3>2
    <3> HIDE DEF more
    <3> QED BY <2>1, <2>3, <3>1, <3>3
  <2> QED BY <2>2, <2>3
<1>5. ASSUME NEW n \in Nat, n \in S PROVE n + 1 \in S
  <2> SUFFICES ASSUME n + 1 <= N PROVE P(n + 1)
    OBVIOUS
  <2>1. P(n) /\ n + 1 \in 0 .. N /\ n + 1 # 0 /\ (n + 1) - 1 = n
    BY <1>1, <1>5
  <2>2. found[n + 1] = IF found[n] = {} THEN {} ELSE more(found[n])
    <3> HIDE DEF P, more
    <3> QED BY <1>2, <2>1
  <2>3. CASE found[n] = {}
    BY <2>1, <2>2, <2>3
  <2>4. CASE found[n] # {}
    <3>1. /\ found[n + 1] = more(found[n]) /\ Answers(F, r, found[n])
          /\ found[n] = more(found[n]) \/ n < Cardinality(found[n])
      BY <2>1, <2>2, <2>4
    <3>2. Answers(F, r, found[n + 1])
      BY <2>4, <3>1, RoundAnswers
    <3>3. found[n] \in SUBSET F /\ found[n + 1] \in SUBSET F
      BY <3>1, <3>2 DEF Answers
    <3>4. found[n] \subseteq found[n + 1]
      BY <2>4, <3>1, <3>3, InsideWidened
    <3> HIDE DEF more
    <3>5. CASE found[n] = more(found[n])
      BY <2>4, <3>1, <3>2, <3>5
    <3>6. CASE found[n] # more(found[n])
      <4>1. n < Cardinality(found[n]) /\ found[n + 1] # found[n]
        BY <3>1, <3>6
      <4>2. /\ Cardinality(found[n]) <= Cardinality(found[n + 1])
            /\ Cardinality(found[n + 1]) = Cardinality(found[n]) => found[n + 1] = found[n]
        BY <1>3, <3>3, <3>4, FS_Subset
      <4>3. Cardinality(found[n]) \in Nat /\ Cardinality(found[n + 1]) \in Nat
        BY <1>3, <3>3
      <4>4. n + 1 < Cardinality(found[n + 1])
        BY <4>1, <4>2, <4>3
      <4> QED BY <2>4, <3>2, <3>4, <4>4
    <3> QED BY <3>5, <3>6
  <2> QED BY <2>3, <2>4
<1>6. N \in S
  <2> HIDE DEF S
  <2> QED BY <1>1, <1>4, <1>5, SetInduction
<1>7. P(N) /\ R = found[N]
  BY <1>1, <1>6 DEF found, N
<1>8. CASE found[N] = {}
  BY <1>7, <1>8 DEF Answers
<1>9. CASE found[N] # {}
  <2>1. Answers(F, r, found[N]) /\ (found[N] = more(found[N]) \/ N < Cardinality(found[N]))
    BY <1>7, <1>9
  <2>2. Cardinality(found[N]) \in Nat /\ Cardinality(found[N]) <= N
    BY <1>3, <2>1 DEF Answers
  <2> QED BY <1>1, <1>7, <2>1, <2>2
<1> QED BY <1>8, <1>9

FilesType == files \in [Levels -> SUBSET Tables] /\ \A l \in Levels : IsFiniteSet(files[l])

\* GetOverlappingInputs at any level.
LEMMA OverlappingInputs ==
    ASSUME LevelsAssumption, WritesType, FilesType, NEW level \in Levels, NEW r \in Ranges,
           NEW R, R = GetOverlappingInputs(level, r)
    PROVE  /\ Answers(files[level], r, R)
           /\ level = 0 /\ R # {} => Overlapping(files[0], Widened(r, R)) = R
           /\ level # 0 => R = Overlapping(files[level], r)
<1>1. files[level] \in SUBSET Tables /\ IsFiniteSet(files[level])
  BY DEF FilesType
<1>2. CASE level = 0
  <2>1. R = Rounds(files[0], r)[Cardinality(files[0])]
    BY <1>2 DEF GetOverlappingInputs
  <2> QED BY <1>1, <1>2, <2>1, RoundsAnswer
<1>3. CASE level # 0
  <2>1. R = Overlapping(files[level], r)
    BY <1>3 DEF GetOverlappingInputs
  <2>2. /\ R \in SUBSET Tables /\ R \subseteq files[level]
        /\ \A f \in R : Overlaps(Range1(f), r)
    BY <1>1, <2>1 DEF Overlapping
  <2>3. Answers(files[level], r, R)
    BY <2>1, <2>2, NoGap DEF Answers
  <2> QED BY <1>3, <2>1, <2>3
<1> QED BY <1>2, <1>3

-----------------------------------------------------------------------------
(* The inputs of a compaction.                                             *)

\* The tables of T together cover every key between any two of theirs.
Solid(W, T) ==
    \A k \in Nat : Covers(W, Content(T), k) => \E f \in T : Covers(W, f.seqs, k)

\* What a compaction of level may begin with.
GoodStart(level, T) ==
    /\ T \subseteq files[level] /\ T # {}
    /\ Solid(writes, T)
    /\ level = 0 => Overlapping(files[0], Hull(T)) \subseteq T

\* More tables span more keys.
LEMMA HullGrows ==
    ASSUME LevelsAssumption, WritesType, NEW T \in SUBSET Tables, NEW S \in SUBSET T, S # {},
           NEW k \in Nat, Within(k, Hull(S))
    PROVE  Within(k, Hull(T))
<1>1. S \in SUBSET Tables /\ T # {}
  OBVIOUS
<1>2. Covers(writes, Content(S), k)
  BY <1>1, HullIs
<1>3. Content(S) \subseteq Content(T)
  BY DEF Content
<1>4. Covers(writes, Content(T), k)
  BY <1>2, <1>3 DEF Covers
<1> QED BY <1>1, <1>4, HullIs

\* A table that meets the smaller range meets the larger.
LEMMA OverlapGrows ==
    ASSUME LevelsAssumption, WritesType, NEW f \in Tables, NEW q \in Ranges, NEW p \in Ranges,
           \A k \in Nat : Within(k, q) => Within(k, p), Overlaps(Range1(f), q)
    PROVE  Overlaps(Range1(f), p)
BY OverlapIs, RangeIs

\* The hull of two sets of tables is the hull of the one widened by the other.
LEMMA UnionWidens ==
    ASSUME LevelsAssumption, WritesType, NEW S \in SUBSET Tables, S # {},
           NEW T \in SUBSET Tables, NEW r \in Ranges,
           \A k \in Nat : Within(k, Hull(S)) => Within(k, r),
           NEW k \in Nat, Covers(writes, Content(S \cup T), k)
    PROVE  IF T = {} THEN Within(k, r) ELSE Within(k, Widened(r, T))
<1>1. CASE T = {}
  <2>1. S \cup T = S
    BY <1>1
  <2> QED BY <1>1, <2>1, HullIs
<1>2. CASE T # {}
  <2>1. PICK s \in Content(S \cup T), t \in Content(S \cup T) :
           writes[s].key <= k /\ k <= writes[t].key
    BY DEF Covers
  <2>2. /\ Widened(r, T).lo <= r.lo /\ Widened(r, T).lo <= Hull(T).lo
        /\ r.hi <= Widened(r, T).hi /\ Hull(T).hi <= Widened(r, T).hi
        /\ Widened(r, T) \in Ranges /\ Hull(T) \in Ranges /\ Hull(S) \in Ranges
    BY <1>2, WidenedIs, HullIs
  <2>3. /\ Widened(r, T).lo \in Nat /\ Widened(r, T).hi \in Nat /\ Hull(T).lo \in Nat
        /\ Hull(T).hi \in Nat /\ r.lo \in Nat /\ r.hi \in Nat
    BY <2>2 DEF Ranges
  <2>4. ASSUME NEW x \in Content(S \cup T)
        PROVE  Key(x) = writes[x].key /\ Key(x) \in Nat /\ Within(Key(x), Widened(r, T))
    <3>1. Key(x) = writes[x].key /\ Key(x) \in Nat
      <4>1. S \cup T \in SUBSET Tables
        OBVIOUS
      <4>2. x \in 1 .. last
        BY <4>1, ContentType
      <4> QED BY <4>2, EntryTypes
    <3>2. x \in Content(S) \/ x \in Content(T)
      BY DEF Content
    <3>3. CASE x \in Content(S)
      <4>1. Within(Key(x), Hull(S))
        BY <3>3, HullIs
      <4>2. Within(Key(x), r)
        BY <3>1, <4>1
      <4> QED BY <2>2, <2>3, <3>1, <4>2 DEF Within
    <3>4. CASE x \in Content(T)
      <4>1. Within(Key(x), Hull(T))
        BY <1>2, <3>4, HullIs
      <4> QED BY <2>2, <2>3, <3>1, <4>1 DEF Within
    <3> QED BY <3>1, <3>2, <3>3, <3>4
  <2>5. Within(Key(s), Widened(r, T)) /\ Within(Key(t), Widened(r, T))
        /\ Key(s) <= k /\ k <= Key(t) /\ Key(s) \in Nat /\ Key(t) \in Nat
    BY <2>1, <2>4
  <2> QED BY <1>2, <2>3, <2>5 DEF Within
<1> QED BY <1>1, <1>2

\* WithOverlaps: the chosen file, in level 0 with all that it reaches.
LEMMA GoodWithOverlaps ==
    ASSUME LevelsAssumption, WritesType, FilesType, NEW level \in Levels,
           NEW f \in files[level]
    PROVE  GoodStart(level, WithOverlaps(level, f))
<1>1. files[level] \in SUBSET Tables /\ f \in Tables /\ {f} \in SUBSET Tables
  BY DEF FilesType
<1>2. /\ Range1(f) \in Ranges /\ Hull({f}) = Range1(f)
      /\ \A k \in Nat : Within(k, Range1(f)) <=> Covers(writes, f.seqs, k)
  BY <1>1, RangeIs DEF Range1
<1>3. CASE level # 0
  <2>1. WithOverlaps(level, f) = {f} /\ Content({f}) = f.seqs
    BY <1>3 DEF WithOverlaps, Content
  <2> QED BY <1>3, <2>1 DEF GoodStart, Solid
<1>4. CASE level = 0
  <2> DEFINE R == GetOverlappingInputs(0, Range1(f))
  <2>1. WithOverlaps(level, f) = R
    BY <1>4 DEF WithOverlaps
  <2> HIDE DEF R
  <2>2. Answers(files[0], Range1(f), R)
        /\ (R # {} => Overlapping(files[0], Widened(Range1(f), R)) = R)
    BY <1>2, <1>4, OverlappingInputs DEF R
  <2>3. f \in R
    <3>1. Overlaps(Range1(f), Range1(f))
      BY <1>2 DEF Overlaps, Ranges
    <3> QED BY <1>4, <2>2, <3>1 DEF Answers, Overlapping
  <2>4. R \in SUBSET Tables /\ R \subseteq files[0] /\ {f} \cup R = R
    BY <1>1, <1>4, <2>2, <2>3 DEF Answers
  <2>5. ASSUME NEW k \in Nat, Covers(writes, Content(R), k)
        PROVE  Within(k, Widened(Range1(f), R))
    BY <1>1, <1>2, <2>3, <2>4, <2>5, UnionWidens
  <2>6. Solid(writes, R)
    <3> SUFFICES ASSUME NEW k \in Nat, Covers(writes, Content(R), k)
                 PROVE  \E g \in R : Covers(writes, g.seqs, k)
      BY DEF Solid
    <3>1. PICK g \in R : Within(k, Range1(g))
      BY <2>2, <2>3, <2>5 DEF Answers
    <3>2. g \in Tables
      BY <2>4
    <3> QED BY <3>1, <3>2, RangeIs
  <2>7. Overlapping(files[0], Hull(R)) \subseteq R
    <3>1. Hull(R) \in Ranges /\ Widened(Range1(f), R) \in Ranges
      BY <1>2, <2>3, <2>4, HullIs, WidenedIs
    <3>2. \A k \in Nat : Within(k, Hull(R)) => Within(k, Widened(Range1(f), R))
      BY <2>3, <2>4, <2>5, HullIs
    <3>3. \A g \in files[0] : Overlaps(Range1(g), Hull(R)) =>
             Overlaps(Range1(g), Widened(Range1(f), R))
      BY <1>1, <1>4, <3>1, <3>2, OverlapGrows
    <3> QED BY <2>2, <2>3, <3>3 DEF Overlapping
  <2> QED BY <1>4, <2>1, <2>3, <2>4, <2>6, <2>7 DEF GoodStart
<1> QED BY <1>3, <1>4

\* What a compaction of level, on the tables of files, may be given.
GoodInputs(level, in0, in1) ==
    /\ in0 \subseteq files[level] /\ in0 # {}
    /\ level = 0 => Overlapping(files[0], Hull(in0)) \subseteq in0
    /\ in1 = Overlapping(files[level + 1], Hull(in0))
    /\ Solid(writes, in0 \cup in1)

\* SetupOtherInputs, with and without the expansion of the inputs.
LEMMA GoodAfterSetup ==
    ASSUME LevelsAssumption, WritesType, FilesType, NEW level \in 0 .. NumLevels - 2,
           NEW in0, GoodStart(level, in0), NEW ins \in Inputs(level, in0)
    PROVE  ins = <<ins[1], ins[2]>> /\ GoodInputs(level, ins[1], ins[2])
<1> DEFINE in1 == GetOverlappingInputs(level + 1, Hull(in0))
           all == Hull(in0 \cup in1)
           more0 == GetOverlappingInputs(level, all)
           more1 == GetOverlappingInputs(level + 1, Hull(more0))
<1>0. level \in Levels /\ level + 1 \in Levels /\ level + 1 # 0 /\ level \in Nat
  BY DEF Levels, LevelsAssumption
<1>1. /\ files[level] \in SUBSET Tables /\ files[level + 1] \in SUBSET Tables
      /\ in0 \in SUBSET Tables /\ in0 # {} /\ Solid(writes, in0)
  BY <1>0 DEF FilesType, GoodStart
<1>2. Hull(in0) \in Ranges /\ \A k \in Nat : Within(k, Hull(in0)) <=> Covers(writes, Content(in0), k)
  BY <1>1, HullIs
<1>3. in1 = Overlapping(files[level + 1], Hull(in0))
  BY <1>0, <1>2, OverlappingInputs
<1> HIDE DEF in1, all, more0, more1
<1>4. in1 \in SUBSET Tables /\ in0 \cup in1 \in SUBSET Tables /\ in0 \cup in1 # {}
      /\ \A f \in in1 : Overlaps(Range1(f), Hull(in0))
  BY <1>1, <1>3 DEF Overlapping
<1>5. Solid(writes, in0 \cup in1)
  <2> SUFFICES ASSUME NEW k \in Nat, Covers(writes, Content(in0 \cup in1), k)
               PROVE  \E f \in in0 \cup in1 : Covers(writes, f.seqs, k)
    BY DEF Solid
  <2>1. IF in1 = {} THEN Within(k, Hull(in0)) ELSE Within(k, Widened(Hull(in0), in1))
    BY <1>1, <1>2, <1>4, UnionWidens
  <2>2. Within(k, Hull(in0)) \/ \E f \in in1 : Within(k, Range1(f))
    BY <1>2, <1>4, <2>1, NoGap
  <2>3. ASSUME Within(k, Hull(in0)) PROVE \E f \in in0 : Covers(writes, f.seqs, k)
    BY <1>1, <1>2, <2>3 DEF Solid
  <2>4. ASSUME NEW f \in in1, Within(k, Range1(f)) PROVE Covers(writes, f.seqs, k)
    BY <1>4, <2>4, RangeIs
  <2> QED BY <2>2, <2>3, <2>4
<1>6. CASE ins = <<in0, in1>>
  BY <1>3, <1>5, <1>6 DEF GoodInputs, GoodStart
<1>7. CASE /\ ins = <<more0, more1>> /\ in1 # {}
           /\ Cardinality(more1) = Cardinality(in1)
  <2>1. all \in Ranges /\ \A k \in Nat : Within(k, all) <=> Covers(writes, Content(in0 \cup in1), k)
    BY <1>4, HullIs DEF all
  <2>2. /\ Answers(files[level], all, more0)
        /\ level = 0 /\ more0 # {} => Overlapping(files[0], Widened(all, more0)) = more0
    BY <1>0, <2>1, OverlappingInputs DEF more0
  <2>3. in0 \subseteq more0
    <3> SUFFICES ASSUME NEW f \in in0 PROVE f \in more0
      OBVIOUS
    <3>1. f \in files[level] /\ f \in Tables /\ Range1(f) \in Ranges
      BY <1>1, RangeIs DEF GoodStart
    <3>2. {f} \in SUBSET (in0 \cup in1) /\ {f} # {} /\ Hull({f}) = Range1(f)
      BY DEF Range1
    <3>3. \A k \in Nat : Within(k, Range1(f)) => Within(k, all)
      BY <1>4, <3>2, HullGrows DEF all
    <3>4. Overlaps(Range1(f), Range1(f))
      BY <3>1 DEF Overlaps, Ranges
    <3>5. Overlaps(Range1(f), all)
      BY <2>1, <3>1, <3>3, <3>4, OverlapGrows
    <3> QED BY <2>2, <3>1, <3>5 DEF Answers, Overlapping
  <2>4. more0 \subseteq files[level] /\ more0 \in SUBSET Tables /\ more0 # {}
    BY <1>1, <2>2, <2>3 DEF Answers
  <2>5. Hull(more0) \in Ranges
        /\ \A k \in Nat : Within(k, Hull(in0)) => Within(k, Hull(more0))
    BY <1>1, <2>3, <2>4, HullIs, HullGrows
  <2>6. more1 = Overlapping(files[level + 1], Hull(more0))
    BY <1>0, <2>5, OverlappingInputs DEF more1
  <2>7. in1 \subseteq more1
    <3>1. \A f \in files[level + 1] : Overlaps(Range1(f), Hull(in0)) => Overlaps(Range1(f), Hull(more0))
      BY <1>1, <1>2, <2>5, OverlapGrows
    <3> QED BY <1>3, <2>6, <3>1 DEF Overlapping
  <2>8. more1 = in1
    <3>1. IsFiniteSet(more1)
      <4>1. more1 \in SUBSET files[level + 1] /\ IsFiniteSet(files[level + 1])
        BY <1>0, <2>6 DEF Overlapping, FilesType
      <4> QED BY <4>1, FS_Subset
    <3> QED BY <1>7, <2>7, <3>1, FS_Subset
  <2>9. level = 0 => Overlapping(files[0], Hull(more0)) \subseteq more0
    <3> SUFFICES ASSUME level = 0, NEW f \in files[0], Overlaps(Range1(f), Hull(more0))
                 PROVE  f \in more0
      BY DEF Overlapping
    <3>1. Widened(all, more0) \in Ranges
      BY <2>1, <2>4, WidenedIs
    <3>2. Widened(all, more0).lo <= Hull(more0).lo /\ Hull(more0).hi <= Widened(all, more0).hi
      BY <2>1, <2>4, WidenedIs
    <3>3. \A k \in Nat : Within(k, Hull(more0)) => Within(k, Widened(all, more0))
      BY <2>5, <3>1, <3>2 DEF Within, Ranges
    <3>4. Overlaps(Range1(f), Widened(all, more0))
      BY <1>1, <2>5, <3>1, <3>3, OverlapGrows
    <3> QED BY <2>2, <2>4, <3>4 DEF Overlapping
  <2>10. Solid(writes, more0 \cup in1)
    <3> SUFFICES ASSUME NEW k \in Nat, Covers(writes, Content(more0 \cup in1), k)
                 PROVE  \E f \in more0 \cup in1 : Covers(writes, f.seqs, k)
      BY DEF Solid
    <3>1. \A j \in Nat : Within(j, Hull(in1)) => Within(j, all)
      BY <1>4, <1>7, HullGrows DEF all
    <3>2. in1 \cup more0 = more0 \cup in1
      OBVIOUS
    <3>3. Within(k, Widened(all, more0))
      BY <1>4, <1>7, <2>1, <2>4, <3>1, <3>2, UnionWidens
    <3>4. Within(k, all) \/ \E f \in more0 : Within(k, Range1(f))
      BY <2>2, <2>4, <3>3 DEF Answers
    <3>5. ASSUME Within(k, all) PROVE \E f \in more0 \cup in1 : Covers(writes, f.seqs, k)
      BY <1>5, <2>1, <2>3, <3>5 DEF Solid
    <3>6. ASSUME NEW f \in more0, Within(k, Range1(f)) PROVE Covers(writes, f.seqs, k)
      BY <2>4, <3>6, RangeIs
    <3> QED BY <3>4, <3>5, <3>6
  <2>11. ins[1] = more0 /\ ins[2] = in1
    BY <1>7, <2>8
  <2> QED BY <1>7, <2>4, <2>6, <2>8, <2>9, <2>10, <2>11 DEF GoodInputs
<1> QED BY <1>6, <1>7 DEF Inputs, in1, all, more0, more1

-----------------------------------------------------------------------------
(* The inductive invariant.                                                *)

\* What S holds of a key is newer than what T holds of it.
Newer(W, S, T) == \A s \in S, t \in T : W[s].key = W[t].key => s > t

\* The memtable is newer than the one being written, and both than any table.
MemoryIsNewest ==
    /\ mem \subseteq 1 .. last /\ imm \subseteq 1 .. last
    /\ \A s \in mem, t \in imm : s > t
    /\ \A l \in Levels : \A f \in files[l] : \A s \in mem \cup imm, t \in f.seqs : s > t

\* Tables of level 0 are memtables, numbered as they were written.
Level0InOrder ==
    \A f, g \in files[0] :
       \/ f = g
       \/ f.num < g.num /\ \A s \in f.seqs, t \in g.seqs : s < t
       \/ g.num < f.num /\ \A s \in f.seqs, t \in g.seqs : t < s

PairwiseApart(W, fs) == \A f, g \in fs : f = g \/ Apart(W, f.seqs, g.seqs)

LevelsApart == \A l \in Levels \ {0} : PairwiseApart(writes, files[l])

NewerUp ==
    \A i, j \in Levels : i < j =>
       \A f \in files[i], g \in files[j] : Newer(writes, f.seqs, g.seqs)

TablesInv == /\ WritesType /\ FilesType
             /\ MemoryIsNewest /\ Level0InOrder /\ LevelsApart /\ NewerUp

\* The inputs of a compaction may be replaced by tables of the next level:
\* nothing else there is in their way, and what stays behind is newer.
Replaceable(level, in0, in1) ==
    /\ in0 \subseteq files[level] /\ in1 \subseteq files[level + 1]
    /\ \A g \in files[level + 1] \ in1 : Apart(writes, g.seqs, Content(in0 \cup in1))
    /\ \A g \in files[level] \ in0 : Newer(writes, g.seqs, Content(in0))

NoSharedKey(W, S, T) == \A s \in S, t \in T : W[s].key # W[t].key

\* While a compaction runs, flushes stay out of its range, or above it.
CompactionInv(c) ==
    /\ c.level \in 0 .. NumLevels - 2
    /\ Replaceable(c.level, c.in0, c.in1)
    /\ c.in0 # {} /\ Solid(writes, c.in0 \cup c.in1)
    /\ c.base \in [Levels -> SUBSET Tables]
    /\ \A l \in c.level + 2 .. NumLevels - 1 :
          /\ IsFiniteSet(c.base[l]) /\ PairwiseApart(writes, c.base[l])
          /\ \A g \in files[l] \ c.base[l] :
                NoSharedKey(writes, g.seqs, Content(c.in0 \cup c.in1))

CompactingInv == compact = <<>> \/ (Len(compact) = 1 /\ CompactionInv(compact[1]))

\* Keys that are all below or above one another are not shared.
LEMMA ApartShares ==
    ASSUME LevelsAssumption, WritesType,
           NEW S \in SUBSET (1 .. last), NEW T \in SUBSET (1 .. last), Apart(writes, S, T)
    PROVE  /\ NoSharedKey(writes, S, T) /\ Newer(writes, S, T) /\ Newer(writes, T, S)
           /\ Apart(writes, T, S)
<1>1. \A s \in S \cup T : writes[s].key \in Nat
  <2> SUFFICES ASSUME NEW s \in S \cup T PROVE writes[s].key \in Nat
    OBVIOUS
  <2>1. s \in 1 .. last
    OBVIOUS
  <2> QED BY <2>1, EntryTypes
<1>2. ASSUME NEW s \in S, NEW t \in T PROVE writes[s].key # writes[t].key
  <2>1. writes[s].key \in Nat /\ writes[t].key \in Nat
    BY <1>1
  <2>2. writes[s].key < writes[t].key \/ writes[t].key < writes[s].key
    BY DEF Apart, Below
  <2> QED BY <2>1, <2>2
<1>3. Apart(writes, T, S)
  BY DEF Apart
<1> QED BY <1>2, <1>3 DEF Newer, NoSharedKey

\* A table that is apart from each table of a range without a gap is apart from
\* all of it.
LEMMA ApartFromSolid ==
    ASSUME LevelsAssumption, WritesType, NEW T \in SUBSET Tables, T # {}, Solid(writes, T),
           NEW g \in Tables, \A f \in T : Apart(writes, g.seqs, f.seqs)
    PROVE  Apart(writes, g.seqs, Content(T))
<1> SUFFICES ASSUME Overlaps(Range1(g), Hull(T)) PROVE FALSE
  BY ApartIs
<1>1. Range1(g) \in Ranges /\ Hull(T) \in Ranges
  BY RangeIs, HullIs
<1>2. PICK k \in Nat : Within(k, Range1(g)) /\ Within(k, Hull(T))
  BY <1>1, OverlapIs
<1>3. PICK f \in T : Covers(writes, f.seqs, k)
  BY <1>2, HullIs DEF Solid
<1>4. f \in Tables /\ {f} \in SUBSET Tables /\ {f} # {} /\ Content({f}) = f.seqs /\ Hull({f}) = Range1(f)
  BY DEF Content, Range1
<1>5. ~Overlaps(Range1(g), Range1(f))
  BY <1>4, ApartIs
<1>6. Within(k, Range1(f)) /\ Range1(f) \in Ranges
  BY <1>3, <1>4, RangeIs
<1> QED BY <1>1, <1>2, <1>5, <1>6, OverlapIs

\* What SetupOtherInputs takes may be replaced.
LEMMA GoodIsReplaceable ==
    ASSUME LevelsAssumption, TablesInv, NEW level \in 0 .. NumLevels - 2, NEW in0, NEW in1,
           GoodInputs(level, in0, in1)
    PROVE  Replaceable(level, in0, in1)
<1>0. level \in Levels /\ level + 1 \in Levels /\ level + 1 # 0 /\ level \in Nat
  BY DEF Levels, LevelsAssumption
<1>1. /\ WritesType /\ FilesType
      /\ files[level] \in SUBSET Tables /\ files[level + 1] \in SUBSET Tables
      /\ in0 \in SUBSET Tables /\ in0 # {} /\ in0 \subseteq files[level]
      /\ in1 = Overlapping(files[level + 1], Hull(in0))
      /\ Solid(writes, in0 \cup in1)
  BY <1>0 DEF TablesInv, FilesType, GoodInputs
<1>2. in1 \subseteq files[level + 1] /\ in0 \cup in1 \in SUBSET Tables /\ in0 \cup in1 # {}
  BY <1>1 DEF Overlapping
<1>3. \A f \in Tables : f.seqs \in SUBSET (1 .. last)
  BY DEF Tables
<1>4. ASSUME NEW g \in files[level + 1] \ in1
      PROVE  Apart(writes, g.seqs, Content(in0 \cup in1))
  <2>1. g \in Tables /\ ~Overlaps(Range1(g), Hull(in0))
    BY <1>1 DEF Overlapping
  <2>2. Apart(writes, g.seqs, Content(in0))
    BY <1>1, <2>1, ApartIs
  <2>3. ASSUME NEW f \in in0 PROVE Apart(writes, g.seqs, f.seqs)
    <3>1. f.seqs \subseteq Content(in0)
      BY DEF Content
    <3> QED BY <2>2, <3>1 DEF Apart, Below
  <2>4. ASSUME NEW f \in in1 PROVE Apart(writes, g.seqs, f.seqs)
    BY <1>0, <1>2 DEF TablesInv, LevelsApart, PairwiseApart
  <2> QED BY <1>1, <1>2, <2>1, <2>3, <2>4, ApartFromSolid
<1>5. ASSUME NEW g \in files[level] \ in0 PROVE Newer(writes, g.seqs, Content(in0))
  <2>0. g \in Tables
    BY <1>1
  <2>1. CASE level = 0
    <3>1. ~Overlaps(Range1(g), Hull(in0))
      BY <2>1 DEF GoodInputs, Overlapping
    <3>2. Apart(writes, g.seqs, Content(in0))
      BY <1>1, <2>0, <3>1, ApartIs
    <3> QED BY <1>1, <1>3, <2>0, <3>2, ContentType, ApartShares
  <2>2. CASE level # 0
    <3>1. ASSUME NEW f \in in0 PROVE Newer(writes, g.seqs, f.seqs)
      <4>1. Apart(writes, g.seqs, f.seqs) /\ f \in Tables
        BY <1>0, <1>1, <2>2 DEF TablesInv, LevelsApart, PairwiseApart
      <4> QED BY <1>1, <1>3, <2>0, <4>1, ApartShares
    <3> QED BY <3>1 DEF Newer, Content
  <2> QED BY <2>1, <2>2
<1> QED BY <1>1, <1>2, <1>4, <1>5 DEF Replaceable

-----------------------------------------------------------------------------
(* Orders.                                                                 *)

Pairs(S) == {p \in S \X S : Precedes(p[1], p[2])}

\* The order of internal keys on the writes (InternalKeyComparator).
LEMMA PrecedesOrder ==
    ASSUME LevelsAssumption, WritesType, NEW S \in SUBSET (1 .. last)
    PROVE  /\ StrictOrder(Pairs(S), S) /\ IsFiniteSet(S)
           /\ \A x, y \in S : <<x, y>> \in Pairs(S) <=> Precedes(x, y)
<1>1. \A x, y \in S : <<x, y>> \in Pairs(S) <=> Precedes(x, y)
  BY DEF Pairs
<1>2. \A x \in S : Key(x) \in Nat /\ x \in Nat
  <2> SUFFICES ASSUME NEW x \in S PROVE Key(x) \in Nat /\ x \in Nat
    OBVIOUS
  <2>1. x \in 1 .. last
    OBVIOUS
  <2> QED BY <2>1, EntryTypes
<1>3. IsFiniteSet(S)
  <2>1. 1 \in Int /\ last \in Int
    BY EntryTypes
  <2> QED BY <2>1, FS_Interval, FS_Subset
<1>4. \A x \in S : ~Precedes(x, x)
  BY <1>2 DEF Precedes
<1>5. \A x, y, z \in S : Precedes(x, y) /\ Precedes(y, z) => Precedes(x, z)
  BY <1>2 DEF Precedes
<1>6. \A x, y \in S : x = y \/ Precedes(x, y) \/ Precedes(y, x)
  BY <1>2 DEF Precedes
<1> HIDE DEF Pairs
<1> QED BY <1>1, <1>3, <1>4, <1>5, <1>6 DEF StrictOrder

\* A table has a smallest and a largest entry (FileMetaData).
LEMMA BoundsAre ==
    ASSUME LevelsAssumption, WritesType, NEW f \in Tables
    PROVE  /\ Smallest(f) \in f.seqs
           /\ \A t \in f.seqs : t = Smallest(f) \/ Precedes(Smallest(f), t)
           /\ Largest(f) \in f.seqs
           /\ \A t \in f.seqs : t = Largest(f) \/ Precedes(t, Largest(f))
<1>1. f.seqs \in SUBSET (1 .. last) /\ f.seqs # {}
  BY DEF Tables
<1>2. /\ StrictOrder(Pairs(f.seqs), f.seqs) /\ IsFiniteSet(f.seqs)
      /\ \A x, y \in f.seqs : <<x, y>> \in Pairs(f.seqs) <=> Precedes(x, y)
  BY <1>1, PrecedesOrder
<1> HIDE DEF Pairs
<1>3. /\ \E x \in f.seqs : \A y \in f.seqs : y = x \/ <<x, y>> \in Pairs(f.seqs)
      /\ \E x \in f.seqs : \A y \in f.seqs : y = x \/ <<y, x>> \in Pairs(f.seqs)
  BY <1>1, <1>2, Ends
<1>4. \E x \in f.seqs : \A y \in f.seqs : y = x \/ Precedes(x, y)
  BY <1>2, <1>3
<1>5. \E x \in f.seqs : \A y \in f.seqs : y = x \/ Precedes(y, x)
  BY <1>2, <1>3
<1> QED BY <1>4, <1>5 DEF Smallest, Largest

FilePairs(fs) == {p \in fs \X fs : Before(p[1], p[2])}

\* The order of the files of a level (BySmallestKey).
LEMMA BeforeOrder ==
    ASSUME LevelsAssumption, WritesType, NEW fs \in SUBSET Tables,
           \A f, g \in fs : f = g \/ f.num # g.num \/ Apart(writes, f.seqs, g.seqs)
    PROVE  /\ StrictOrder(FilePairs(fs), fs)
           /\ \A f, g \in fs : <<f, g>> \in FilePairs(fs) <=> Before(f, g)
<1>1. \A f, g \in fs : <<f, g>> \in FilePairs(fs) <=> Before(f, g)
  BY DEF FilePairs
<1>2. ASSUME NEW f \in fs
      PROVE  Smallest(f) \in f.seqs /\ Smallest(f) \in 1 .. last /\ f.num \in Nat
             /\ f.seqs \in SUBSET (1 .. last)
  <2>1. f \in Tables
    OBVIOUS
  <2>2. f.seqs \in SUBSET (1 .. last) /\ f.num \in Nat
    BY <2>1 DEF Tables
  <2> QED BY <2>1, <2>2, BoundsAre
<1>3. \A x \in 1 .. last : Key(x) \in Nat /\ x \in Nat
  BY EntryTypes
<1>4. \A x, y, z \in 1 .. last : Precedes(x, y) /\ Precedes(y, z) => Precedes(x, z)
  BY <1>3 DEF Precedes
<1>5. \A x \in 1 .. last : ~Precedes(x, x)
  BY <1>3 DEF Precedes
<1>6. \A x, y \in 1 .. last : x = y \/ Precedes(x, y) \/ Precedes(y, x)
  BY <1>3 DEF Precedes
<1>7. \A f \in fs : ~Before(f, f)
  BY <1>2, <1>5 DEF Before
<1>8. ASSUME NEW f \in fs, NEW g \in fs, NEW h \in fs, Before(f, g), Before(g, h)
      PROVE  Before(f, h)
  <2>1. f.num \in Nat /\ g.num \in Nat /\ h.num \in Nat /\ Smallest(f) \in 1 .. last
        /\ Smallest(g) \in 1 .. last /\ Smallest(h) \in 1 .. last
    BY <1>2
  <2> QED BY <1>4, <1>8, <2>1 DEF Before
<1>9. ASSUME NEW f \in fs, NEW g \in fs PROVE f = g \/ Before(f, g) \/ Before(g, f)
  <2>1. f.num \in Nat /\ g.num \in Nat /\ Smallest(f) \in f.seqs /\ Smallest(g) \in g.seqs
        /\ Smallest(f) \in 1 .. last /\ Smallest(g) \in 1 .. last
        /\ f.seqs \in SUBSET (1 .. last) /\ g.seqs \in SUBSET (1 .. last)
    BY <1>2
  <2>2. CASE Smallest(f) # Smallest(g)
    BY <1>6, <2>1, <2>2 DEF Before
  <2>3. CASE Smallest(f) = Smallest(g)
    <3>1. ~NoSharedKey(writes, f.seqs, g.seqs)
      BY <2>1, <2>3 DEF NoSharedKey
    <3>2. ~Apart(writes, f.seqs, g.seqs)
      BY <2>1, <3>1, ApartShares
    <3> QED BY <2>1, <2>3, <3>2 DEF Before
  <2> QED BY <2>2, <2>3
<1> HIDE DEF FilePairs
<1> QED BY <1>1, <1>7, <1>8, <1>9 DEF StrictOrder

\* PickCompaction takes a file of the level (compact_pointer_ only says which).
LEMMA NextFileIs ==
    ASSUME LevelsAssumption, TablesInv, NEW level \in Levels, files[level] # {}
    PROVE  NextFile(level) \in files[level]
<1> DEFINE F == files[level]
           n == Cardinality(F)
           fs == Sorted(F)
           after == {i \in DOMAIN fs : pointer[level] = 0 \/ Precedes(pointer[level], Largest(fs[i]))}
<1>1. F \in SUBSET Tables /\ IsFiniteSet(F) /\ WritesType
  BY DEF TablesInv, FilesType
<1>2. \A f, g \in F : f = g \/ f.num # g.num \/ Apart(writes, f.seqs, g.seqs)
  <2> SUFFICES ASSUME NEW f \in F, NEW g \in F
               PROVE  f = g \/ f.num # g.num \/ Apart(writes, f.seqs, g.seqs)
    OBVIOUS
  <2>1. CASE level = 0
    <3>1. f.num \in Nat /\ g.num \in Nat
      BY <1>1 DEF Tables
    <3> QED BY <2>1, <3>1 DEF TablesInv, Level0InOrder
  <2>2. CASE level # 0
    BY <2>2 DEF TablesInv, LevelsApart, PairwiseApart
  <2> QED BY <2>1, <2>2
<1> HIDE DEF F
<1>3. /\ StrictOrder(FilePairs(F), F)
      /\ \A f, g \in F : <<f, g>> \in FilePairs(F) <=> Before(f, g)
  BY <1>1, <1>2, BeforeOrder
<1>4. \A i \in 0 .. n - 1 : \E x \in F : Rank(FilePairs(F), F, x) = i
  BY <1>1, <1>3, Ranks
<1>5. n \in Nat /\ n # 0
  BY <1>1, FS_CardinalityType, FS_EmptySet DEF F
<1>6. fs = [i \in 1 .. n |-> CHOOSE x \in F : Cardinality({y \in F : Before(y, x)}) = i - 1]
  BY DEF Sorted, InOrder
<1> HIDE DEF fs, n
<1>7. \A x \in F : Rank(FilePairs(F), F, x) = Cardinality({y \in F : Before(y, x)})
  <2> SUFFICES ASSUME NEW x \in F
               PROVE  Rank(FilePairs(F), F, x) = Cardinality({y \in F : Before(y, x)})
    OBVIOUS
  <2>1. {y \in F : <<y, x>> \in FilePairs(F)} = {y \in F : Before(y, x)}
    BY <1>3
  <2> QED BY <2>1 DEF Rank
<1>8. ASSUME NEW i \in 1 .. n PROVE fs[i] \in F
  <2>1. i - 1 \in 0 .. n - 1
    BY <1>5
  <2>2. PICK x \in F : Rank(FilePairs(F), F, x) = i - 1
    BY <1>4, <2>1
  <2>3. Cardinality({y \in F : Before(y, x)}) = i - 1
    BY <1>7, <2>2
  <2> QED BY <1>6, <2>3
<1>9. DOMAIN fs = 1 .. n
  BY <1>6
<1>10. NextFile(level) = fs[IF after = {} THEN 1 ELSE Min(after)]
  BY DEF NextFile, fs, F
<1>11. after \in SUBSET (1 .. n)
  BY <1>9
<1> HIDE DEF after
<1>12. CASE after = {}
  BY <1>5, <1>8, <1>10, <1>12 DEF F
<1>13. CASE after # {}
  <2>1. Min(after) \in after
    BY <1>11, <1>13, MinIs
  <2> QED BY <1>8, <1>10, <1>11, <1>13, <2>1 DEF F
<1> QED BY <1>12, <1>13

\* Every compaction the code picks by itself has a good start.
LEMMA PickIsGood ==
    ASSUME LevelsAssumption, TablesInv, NEW p \in PickCompaction
    PROVE  p[1] \in 0 .. NumLevels - 2 /\ GoodStart(p[1], p[2])
<1>1. \E level \in 0 .. NumLevels - 2 : \E f \in files[level] :
         p = <<level, WithOverlaps(level, f)>>
  <2> DEFINE full == {level \in 0 .. NumLevels - 2 :
                        IF level = 0 THEN Cardinality(files[0]) >= L0Trigger
                        ELSE files[level] # {}}
             seeks(level) == IF 0 \in full THEN {} ELSE SeekFiles(level)
  <2>0. \A level \in 0 .. NumLevels - 2 : level \in Levels
    BY DEF Levels, LevelsAssumption
  <2>1. ASSUME NEW level \in full PROVE NextFile(level) \in files[level]
    <3>1. CASE level = 0
      <4>1. Cardinality(files[0]) # 0
        BY <3>1 DEF LevelsAssumption
      <4>2. files[0] # {}
        BY <4>1, FS_EmptySet
      <4> QED BY <2>0, <3>1, <4>2, NextFileIs
    <3>2. CASE level # 0
      BY <2>0, <3>2, NextFileIs
    <3> QED BY <3>1, <3>2
  <2>2. \A level : seeks(level) \subseteq files[level]
    <3> SUFFICES ASSUME NEW level PROVE SeekFiles(level) \subseteq files[level]
      OBVIOUS
    <3> QED BY DEF SeekFiles
  <2>3. PickCompaction = {<<level, WithOverlaps(level, NextFile(level))>> : level \in full}
            \cup UNION {{<<level, WithOverlaps(level, f)>> : f \in seeks(level)} :
                          level \in 0 .. NumLevels - 2}
    BY DEF PickCompaction
  <2>4. \A level \in full : level \in 0 .. NumLevels - 2
    OBVIOUS
  <2> HIDE DEF full, seeks
  <2>5. CASE p \in {<<level, WithOverlaps(level, NextFile(level))>> : level \in full}
    BY <2>1, <2>4, <2>5
  <2>6. CASE p \in UNION {{<<level, WithOverlaps(level, f)>> : f \in seeks(level)} :
                          level \in 0 .. NumLevels - 2}
    BY <2>2, <2>6
  <2> QED BY <2>3, <2>5, <2>6
<1>chosen. PICK level \in 0 .. NumLevels - 2 : \E f \in files[level] :
         p = <<level, WithOverlaps(level, f)>>
  BY <1>1
<1>2. PICK f \in files[level] : p = <<level, WithOverlaps(level, f)>>
  BY <1>chosen
<1>3. level \in Levels /\ p[1] = level /\ p[2] = WithOverlaps(level, f)
  BY <1>2 DEF Levels, LevelsAssumption
<1> QED BY <1>2, <1>3, GoodWithOverlaps DEF TablesInv

-----------------------------------------------------------------------------
(* Steps.                                                                  *)

\* A step that leaves the writes alone leaves their number and types alone.
LEMMA SameWrites ==
    ASSUME WritesType, writes' = writes
    PROVE  WritesType' /\ last' = last /\ Tables' = Tables
BY DEF WritesType, last, Tables

\* InstallCompactionResults and a trivial move: the inputs give way to tables
\* with some of their entries, in the next level.
LEMMA ReplaceTables ==
    ASSUME LevelsAssumption, TablesInv, NEW level \in 0 .. NumLevels - 2, NEW in0, NEW in1,
           Replaceable(level, in0, in1),
           NEW out \in SUBSET Tables, IsFiniteSet(out), PairwiseApart(writes, out),
           Content(out) \subseteq Content(in0 \cup in1),
           files' = [files EXCEPT ![level] = @ \ in0, ![level + 1] = (@ \ in1) \cup out],
           UNCHANGED <<writes, mem, imm>>
    PROVE  TablesInv'
<1>0. level \in Levels /\ level + 1 \in Levels /\ level + 1 # 0 /\ level \in Nat
      /\ level + 1 # level /\ \A l \in Levels : l \in Nat
  BY DEF Levels, LevelsAssumption
<1>1. WritesType' /\ last' = last /\ Tables' = Tables
  BY SameWrites DEF TablesInv
<1>2. /\ files' \in [Levels -> SUBSET Tables]
      /\ files'[level] = files[level] \ in0
      /\ files'[level + 1] = (files[level + 1] \ in1) \cup out
      /\ \A l \in Levels : l # level /\ l # level + 1 => files'[l] = files[l]
  BY <1>0 DEF TablesInv, FilesType
<1>3. \A l \in Levels : IsFiniteSet(files'[l])
  <2> SUFFICES ASSUME NEW l \in Levels PROVE IsFiniteSet(files'[l])
    OBVIOUS
  <2>1. IsFiniteSet(files[l])
    BY DEF TablesInv, FilesType
  <2>2. CASE l = level + 1
    <3>1. IsFiniteSet(files[l] \ in1)
      BY <2>1, FS_Difference
    <3>2. IsFiniteSet((files[l] \ in1) \cup out)
      BY <3>1, FS_Union
    <3> QED BY <1>2, <2>2, <3>2
  <2>3. CASE l = level
    <3>1. IsFiniteSet(files[l] \ in0)
      BY <2>1, FS_Difference
    <3> QED BY <1>2, <2>3, <3>1
  <2> QED BY <1>2, <2>1, <2>2, <2>3
<1>4. ASSUME NEW l \in Levels, NEW f \in files'[l]
      PROVE  f \in files[l] \/ (l = level + 1 /\ f \in out)
  BY <1>2
<1>5. ASSUME NEW f \in out, NEW s \in f.seqs
      PROVE  /\ s \in Content(in0 \cup in1)
             /\ \/ s \in Content(in0) /\ \E h \in files[level] : s \in h.seqs
                \/ \E h \in files[level + 1] : s \in h.seqs
  <2>1. s \in Content(in0 \cup in1)
    BY DEF Content
  <2> QED BY <2>1 DEF Content, Replaceable
<1>6. MemoryIsNewest'
  <2>1. mem' \subseteq 1 .. last' /\ imm' \subseteq 1 .. last' /\ \A s \in mem', t \in imm' : s > t
    BY <1>1 DEF TablesInv, MemoryIsNewest
  <2>2. ASSUME NEW l \in Levels, NEW f \in files'[l], NEW s \in mem \cup imm, NEW t \in f.seqs
        PROVE  s > t
    <3>1. CASE f \in files[l]
      BY <3>1 DEF TablesInv, MemoryIsNewest
    <3>2. CASE l = level + 1 /\ f \in out
      <4>1. \E m \in Levels : \E h \in files[m] : t \in h.seqs
        BY <1>0, <1>5, <3>2
      <4> QED BY <4>1 DEF TablesInv, MemoryIsNewest
    <3> QED BY <1>4, <3>1, <3>2
  <2> QED BY <2>1, <2>2 DEF MemoryIsNewest
<1>7. Level0InOrder'
  <2>1. files'[0] \subseteq files[0]
    <3>1. 0 \in Levels
      BY DEF Levels, LevelsAssumption
    <3> QED BY <1>0, <1>2, <3>1
  <2> QED BY <2>1 DEF TablesInv, Level0InOrder
<1>8. LevelsApart'
  <2> SUFFICES ASSUME NEW l \in Levels \ {0}, NEW f \in files'[l], NEW g \in files'[l], f # g
               PROVE  Apart(writes, f.seqs, g.seqs)
    BY DEF LevelsApart, PairwiseApart
  <2>1. CASE f \in files[l] /\ g \in files[l]
    BY <2>1 DEF TablesInv, LevelsApart, PairwiseApart
  <2>2. CASE f \in out /\ g \in out
    BY <2>2 DEF PairwiseApart
  <2>3. ASSUME NEW x \in files'[l], NEW y \in out, x \notin out, l = level + 1
        PROVE  Apart(writes, x.seqs, y.seqs) /\ Apart(writes, y.seqs, x.seqs)
    <3>1. Apart(writes, x.seqs, Content(in0 \cup in1))
      BY <1>2, <2>3 DEF Replaceable
    <3>2. y.seqs \subseteq Content(in0 \cup in1)
      BY <1>5
    <3> QED BY <3>1, <3>2 DEF Apart, Below
  <2> QED BY <1>4, <2>1, <2>2, <2>3
<1>9. NewerUp'
  <2> SUFFICES ASSUME NEW i \in Levels, NEW j \in Levels, i < j,
                      NEW f \in files'[i], NEW g \in files'[j]
               PROVE  Newer(writes, f.seqs, g.seqs)
    BY DEF NewerUp
  <2> SUFFICES ASSUME NEW s \in f.seqs, NEW t \in g.seqs, writes[s].key = writes[t].key
               PROVE  s > t
    BY DEF Newer
  <2>0. i \in Nat /\ j \in Nat
    BY <1>0
  <2>1. \A a, b \in Levels : \A x \in files[a], y \in files[b] :
           a < b /\ s \in x.seqs /\ t \in y.seqs => s > t
    BY DEF TablesInv, NewerUp, Newer
  <2>2. CASE f \in files[i] /\ g \in files[j]
    BY <2>1, <2>2
  <2>3. CASE i = level + 1 /\ f \in out /\ g \in files[j]
    <3>1. \E a \in {level, level + 1} : \E x \in files[a] : s \in x.seqs
      BY <1>5, <2>3
    <3> QED BY <1>0, <2>0, <2>1, <2>3, <3>1
  <2>4. CASE j = level + 1 /\ g \in out /\ f \in files[i]
    <3>1. CASE \E y \in files[level + 1] : t \in y.seqs
      BY <1>0, <2>1, <2>4, <3>1
    <3>2. CASE t \in Content(in0) /\ \E y \in files[level] : t \in y.seqs
      <4>1. CASE i = level
        <5>1. f \in files[level] \ in0
          BY <1>2, <4>1
        <5> QED BY <3>2, <5>1 DEF Replaceable, Newer
      <4>2. CASE i < level
        BY <1>0, <2>1, <2>4, <3>2, <4>2
      <4> QED BY <1>0, <2>0, <2>4, <4>1, <4>2
    <3> QED BY <1>5, <2>4, <3>1, <3>2
  <2>5. ~(i = level + 1 /\ j = level + 1)
    BY <2>0
  <2> QED BY <1>4, <2>2, <2>3, <2>4, <2>5
<1>10. FilesType'
  BY <1>1, <1>2, <1>3 DEF FilesType
<1> QED BY <1>1, <1>6, <1>7, <1>8, <1>9, <1>10 DEF TablesInv

\* Entries in the order of their internal keys.
LEMMA InternalOrder ==
    ASSUME LevelsAssumption, WritesType, NEW S \in SUBSET (1 .. last),
           NEW order, order = InOrder(S, Precedes)
    PROVE  /\ Cardinality(S) \in Nat /\ order \in [1 .. Cardinality(S) -> S]
           /\ Len(order) = Cardinality(S) /\ DOMAIN order = 1 .. Cardinality(S)
           /\ \A i, j \in 1 .. Cardinality(S) : i < j => Precedes(order[i], order[j])
           /\ \A x \in S : \E i \in 1 .. Cardinality(S) : order[i] = x
<1> DEFINE R == Pairs(S)
           n == Cardinality(S)
<1>1. StrictOrder(R, S) /\ IsFiniteSet(S) /\ \A x, y \in S : <<x, y>> \in R <=> Precedes(x, y)
  BY PrecedesOrder
<1> HIDE DEF R
<1>2. order = [i \in 1 .. n |-> CHOOSE x \in S : Rank(R, S, x) = i - 1]
  <2>1. order = [i \in 1 .. n |-> CHOOSE x \in S : Cardinality({y \in S : Precedes(y, x)}) = i - 1]
    BY DEF InOrder
  <2>2. ASSUME NEW x \in S PROVE Rank(R, S, x) = Cardinality({y \in S : Precedes(y, x)})
    <3>1. {y \in S : <<y, x>> \in R} = {y \in S : Precedes(y, x)}
      BY <1>1
    <3> QED BY <3>1 DEF Rank
  <2>3. ASSUME NEW i \in 1 .. n
        PROVE  (CHOOSE x \in S : Cardinality({y \in S : Precedes(y, x)}) = i - 1)
                  = CHOOSE x \in S : Rank(R, S, x) = i - 1
    BY <2>2
  <2> QED BY <2>1, <2>3
<1>3. /\ n \in Nat /\ order \in [1 .. n -> S]
      /\ \A i, j \in 1 .. n : i < j => <<order[i], order[j]>> \in R
      /\ \A x \in S : \E i \in 1 .. n : order[i] = x
  BY <1>1, <1>2, Listed
<1> HIDE DEF n
<1>4. \A i, j \in 1 .. n : i < j => Precedes(order[i], order[j])
  <2> SUFFICES ASSUME NEW i \in 1 .. n, NEW j \in 1 .. n, i < j
               PROVE  Precedes(order[i], order[j])
    OBVIOUS
  <2>1. order[i] \in S /\ order[j] \in S /\ <<order[i], order[j]>> \in R
    BY <1>3
  <2> QED BY <1>1, <2>1
<1>5. Len(order) = n
  <2>1. order \in Seq(S)
    BY <1>3, SeqDef
  <2>2. Len(order) \in Nat /\ DOMAIN order = 1 .. Len(order)
    BY <2>1, LenProperties
  <2> QED BY <1>3, <2>2
<1> QED BY <1>3, <1>4, <1>5 DEF n

\* Entries that are cut only between keys, or of which no two have the same key,
\* make tables that share no key (ShouldStopBefore, MaxOutputFileSize).
LEMMA OutputsAre ==
    ASSUME LevelsAssumption, WritesType, NEW S \in SUBSET (1 .. last),
           SplitKeys => \A x, y \in S : Key(x) = Key(y) => x = y,
           NEW out \in Outputs(S)
    PROVE  /\ IsFiniteSet(out) /\ UNION out = S
           /\ \A C \in out : C # {} /\ C \subseteq S
           /\ \A C, D \in out : C = D \/ Apart(writes, C, D)
<1> DEFINE order == InOrder(S, Precedes)
           n == Cardinality(S)
           mayCut == {i \in 1 .. Len(order) - 1 : SplitKeys \/ Key(order[i]) # Key(order[i + 1])}
           class(cuts, i) == {k \in DOMAIN order : {j \in cuts : j < k} = {j \in cuts : j < i}}
           chunk(cuts, i) == {order[k] : k \in class(cuts, i)}
<1>1. PICK cuts \in SUBSET mayCut : out = {chunk(cuts, i) : i \in DOMAIN order}
  BY DEF Outputs
<1>2. /\ n \in Nat /\ order \in [1 .. n -> S] /\ Len(order) = n /\ DOMAIN order = 1 .. n
      /\ \A i, j \in 1 .. n : i < j => Precedes(order[i], order[j])
      /\ \A x \in S : \E i \in 1 .. n : order[i] = x
  BY InternalOrder
<1> HIDE DEF order, n
<1>3. \A i \in 1 .. n : Key(order[i]) \in Nat /\ Key(order[i]) = writes[order[i]].key
  <2> SUFFICES ASSUME NEW i \in 1 .. n
               PROVE  Key(order[i]) \in Nat /\ Key(order[i]) = writes[order[i]].key
    OBVIOUS
  <2>1. order[i] \in 1 .. last
    BY <1>2
  <2> QED BY <2>1, EntryTypes
<1>4. ASSUME NEW i \in 1 .. n, NEW j \in 1 .. n, i <= j PROVE Key(order[i]) <= Key(order[j])
  <2>1. CASE i = j
    BY <1>3, <2>1
  <2>2. CASE i # j
    <3>1. Precedes(order[i], order[j])
      BY <1>2, <1>4, <2>2
    <3> QED BY <1>3, <3>1 DEF Precedes
  <2> QED BY <2>1, <2>2
<1>5. ASSUME NEW j \in cuts
      PROVE  j \in 1 .. n /\ j + 1 \in 1 .. n /\ Key(order[j]) < Key(order[j + 1])
  <2>1. j \in 1 .. n - 1 /\ (SplitKeys \/ Key(order[j]) # Key(order[j + 1]))
    BY <1>2
  <2>2. j \in 1 .. n /\ j + 1 \in 1 .. n /\ j <= j + 1 /\ j < j + 1
    BY <1>2, <2>1
  <2>3. order[j] # order[j + 1] /\ order[j] \in S /\ order[j + 1] \in S
    <3>1. order[j] \in S /\ order[j + 1] \in S /\ Precedes(order[j], order[j + 1])
      BY <1>2, <2>2
    <3>2. order[j] \in 1 .. last
      BY <3>1
    <3>3. order[j] \in Nat /\ Key(order[j]) \in Nat
      BY <3>2, EntryTypes
    <3> QED BY <3>1, <3>3 DEF Precedes
  <2>4. Key(order[j]) # Key(order[j + 1])
    BY <2>1, <2>3
  <2>5. Key(order[j]) <= Key(order[j + 1]) /\ Key(order[j]) \in Nat /\ Key(order[j + 1]) \in Nat
    BY <1>3, <1>4, <2>2
  <2> QED BY <2>2, <2>4, <2>5
<1> HIDE DEF mayCut
<1>6. ASSUME NEW i \in 1 .. n, NEW h \in 1 .. n, NEW j \in cuts, j < i, ~(j < h)
      PROVE  Below(writes, chunk(cuts, h), chunk(cuts, i))
  <2> SUFFICES ASSUME NEW a \in class(cuts, h), NEW b \in class(cuts, i)
               PROVE  writes[order[a]].key < writes[order[b]].key
    BY DEF Below
  <2>1. a \in 1 .. n /\ b \in 1 .. n /\ {m \in cuts : m < a} = {m \in cuts : m < h}
        /\ {m \in cuts : m < b} = {m \in cuts : m < i}
    BY <1>2
  <2>2. j < b /\ ~(j < a)
    BY <1>6, <2>1
  <2>3. j \in Nat /\ j + 1 <= b /\ a <= j
    BY <1>5, <2>1, <2>2
  <2>4. Key(order[a]) <= Key(order[j]) /\ Key(order[j]) < Key(order[j + 1])
        /\ Key(order[j + 1]) <= Key(order[b])
    BY <1>4, <1>5, <2>1, <2>3
  <2>5. Key(order[a]) < Key(order[b])
    BY <1>3, <1>5, <2>1, <2>4
  <2> QED BY <1>3, <2>1, <2>5
<1>7. ASSUME NEW C \in out, NEW D \in out PROVE C = D \/ Apart(writes, C, D)
  <2>1. PICK i \in 1 .. n : C = chunk(cuts, i)
    BY <1>1, <1>2
  <2>2. PICK h \in 1 .. n : D = chunk(cuts, h)
    BY <1>1, <1>2
  <2>3. CASE {j \in cuts : j < i} = {j \in cuts : j < h}
    BY <2>1, <2>2, <2>3
  <2>4. CASE {j \in cuts : j < i} # {j \in cuts : j < h}
    <3>1. PICK j \in cuts : (j < i /\ ~(j < h)) \/ (j < h /\ ~(j < i))
      BY <2>4
    <3> HIDE DEF chunk
    <3> QED BY <1>6, <2>1, <2>2, <3>1 DEF Apart
  <2> QED BY <2>3, <2>4
<1>8. ASSUME NEW C \in out PROVE C # {} /\ C \subseteq S
  <2>1. PICK i \in 1 .. n : C = chunk(cuts, i)
    BY <1>1, <1>2
  <2>2. i \in class(cuts, i)
    BY <1>2
  <2>3. \A k \in class(cuts, i) : order[k] \in S
    BY <1>2
  <2> QED BY <2>1, <2>2, <2>3
<1>9. UNION out = S
  <2>1. ASSUME NEW x \in S PROVE \E C \in out : x \in C
    <3>1. PICK i \in 1 .. n : order[i] = x
      BY <1>2
    <3>2. i \in class(cuts, i)
      BY <1>2
    <3>3. x \in chunk(cuts, i)
      BY <3>1, <3>2
    <3> HIDE DEF chunk
    <3>4. chunk(cuts, i) \in out
      BY <1>1, <1>2
    <3> QED BY <3>3, <3>4
  <2> QED BY <1>8, <2>1
<1>10. IsFiniteSet(out)
  <2> DEFINE g == [i \in 1 .. n |-> chunk(cuts, i)]
  <2>1. g \in Surjection(1 .. n, out)
    <3> HIDE DEF chunk
    <3> QED BY <1>1, <1>2 DEF Surjection
  <2>2. IsFiniteSet(1 .. n)
    <3>1. 1 \in Int /\ n \in Int
      BY <1>2
    <3> QED BY <3>1, FS_Interval
  <2> HIDE DEF g
  <2> QED BY <2>1, <2>2, FS_Surjection
<1> QED BY <1>7, <1>8, <1>9, <1>10

\* What entries say of their keys depends on those entries only.
LEMMA SameKeys ==
    ASSUME NEW W, NEW V, NEW S, NEW T, \A s \in S \cup T : W[s] = V[s]
    PROVE  /\ Apart(W, S, T) <=> Apart(V, S, T)
           /\ Newer(W, S, T) <=> Newer(V, S, T)
           /\ NoSharedKey(W, S, T) <=> NoSharedKey(V, S, T)
           /\ \A k : Covers(W, S, k) <=> Covers(V, S, k)
BY DEF Apart, Below, Newer, NoSharedKey, Covers

\* Write appends to the writes, and so leaves what is known of the others.
LEMMA WriteAppends ==
    ASSUME LevelsAssumption, WritesType, NEW k \in Keys, NEW del \in BOOLEAN, Write(k, del)
    PROVE  /\ WritesType' /\ last' = last + 1 /\ last \in Nat
           /\ \A s \in 1 .. last : writes[s] = writes'[s] /\ s \in 1 .. last' /\ s < last + 1
           /\ Tables \subseteq Tables'
           /\ writes'[last + 1] = [key |-> k, del |-> del]
<1> DEFINE e == [key |-> k, del |-> del]
           T == [key : Keys, del : BOOLEAN]
<1>1. writes \in Seq(T) /\ e \in T /\ writes' = Append(writes, e)
  BY DEF WritesType, Write
<1> HIDE DEF e, T
<1>2. /\ writes' \in Seq(T) /\ Len(writes') = Len(writes) + 1 /\ Len(writes) \in Nat
      /\ \A i \in 1 .. Len(writes) : writes'[i] = writes[i]
      /\ writes'[Len(writes) + 1] = e
  BY <1>1, AppendProperties, LenProperties
<1>3. WritesType' /\ last' = last + 1 /\ last \in Nat
  BY <1>2 DEF WritesType, last, T
<1>4. \A s \in 1 .. last : writes[s] = writes'[s] /\ s \in 1 .. last' /\ s < last + 1
  BY <1>2, <1>3 DEF last
<1>5. Tables \subseteq Tables'
  BY <1>4 DEF Tables
<1> QED BY <1>2, <1>3, <1>4, <1>5 DEF e, last

\* Write: the new entry is in the memtable and newer than all others.
LEMMA WriteKeeps ==
    ASSUME LevelsAssumption, TablesInv, CompactingInv, compact' = compact,
           NEW k \in Keys, NEW del \in BOOLEAN, Write(k, del)
    PROVE  TablesInv' /\ CompactingInv'
<1>1. /\ WritesType' /\ last' = last + 1 /\ last \in Nat
      /\ \A s \in 1 .. last : writes[s] = writes'[s] /\ s \in 1 .. last' /\ s < last + 1
      /\ Tables \subseteq Tables'
  BY WriteAppends DEF TablesInv
<1>2. mem' = mem \cup {last + 1} /\ imm' = imm /\ files' = files
  BY DEF Write
<1>3. FilesType'
  BY <1>1, <1>2 DEF TablesInv, FilesType
<1>4. \A l \in Levels : \A f \in files[l] : f.seqs \subseteq 1 .. last
  BY DEF TablesInv, FilesType, Tables
<1>5. MemoryIsNewest'
  <2>1. mem \subseteq 1 .. last /\ imm \subseteq 1 .. last
    BY DEF TablesInv, MemoryIsNewest
  <2>2. mem' \subseteq 1 .. last' /\ imm' \subseteq 1 .. last'
    <3>1. last + 1 \in 1 .. last'
      BY <1>1
    <3>2. 1 .. last \subseteq 1 .. last'
      BY <1>1
    <3> QED BY <1>2, <2>1, <3>1, <3>2
  <2>3. \A s \in mem', t \in imm' : s > t
    BY <1>1, <1>2, <2>1 DEF TablesInv, MemoryIsNewest
  <2>4. ASSUME NEW l \in Levels, NEW f \in files[l], NEW s \in mem' \cup imm', NEW t \in f.seqs
        PROVE  s > t
    <3>1. t \in 1 .. last
      BY <1>4
    <3>2. CASE s = last + 1
      BY <1>1, <3>1, <3>2
    <3>3. CASE s \in mem \cup imm
      BY <3>3 DEF TablesInv, MemoryIsNewest
    <3> QED BY <1>2, <3>2, <3>3
  <2> QED BY <1>2, <2>2, <2>3, <2>4 DEF MemoryIsNewest
<1>6. Level0InOrder'
  BY <1>2 DEF TablesInv, Level0InOrder
<1>7. ASSUME NEW S \in SUBSET (1 .. last), NEW T \in SUBSET (1 .. last)
      PROVE  /\ Apart(writes, S, T) <=> Apart(writes', S, T)
             /\ Newer(writes, S, T) <=> Newer(writes', S, T)
             /\ NoSharedKey(writes, S, T) <=> NoSharedKey(writes', S, T)
             /\ \A n : Covers(writes, S, n) <=> Covers(writes', S, n)
  <2>1. \A s \in S \cup T : writes[s] = writes'[s]
    BY <1>1
  <2> QED BY <2>1, SameKeys
<1>8. ASSUME NEW l \in Levels \ {0} PROVE PairwiseApart(writes', files'[l])
  BY <1>2, <1>4, <1>7 DEF TablesInv, LevelsApart, PairwiseApart
<1>9. NewerUp'
  BY <1>2, <1>4, <1>7 DEF TablesInv, NewerUp
<1>10. TablesInv'
  BY <1>1, <1>3, <1>5, <1>6, <1>8, <1>9 DEF TablesInv, LevelsApart
<1>11. ASSUME compact # <<>> PROVE CompactingInv'
  <2> DEFINE c == compact[1]
             all == c.in0 \cup c.in1
  <2>1. Len(compact) = 1 /\ CompactionInv(c)
    BY <1>11 DEF CompactingInv
  <2>2. c.level \in Levels /\ c.level + 1 \in Levels
    BY <2>1 DEF CompactionInv, Levels, LevelsAssumption
  <2> HIDE DEF c
  <2>3. /\ c.in0 \subseteq files[c.level] /\ c.in1 \subseteq files[c.level + 1]
        /\ \A f \in all : f.seqs \subseteq 1 .. last
    BY <1>4, <2>1, <2>2 DEF CompactionInv, Replaceable
  <2>4. Content(all) \in SUBSET (1 .. last) /\ Content(c.in0) \in SUBSET (1 .. last)
    BY <2>3 DEF Content
  <2>5. Replaceable(c.level, c.in0, c.in1)'
    <3>1. compact[1]' = compact[1]
      OBVIOUS
    <3>2. \A g \in files[c.level + 1] \ c.in1 : Apart(writes', g.seqs, Content(all))
      BY <1>4, <1>7, <2>1, <2>2, <2>4 DEF CompactionInv, Replaceable
    <3>3. \A g \in files[c.level] \ c.in0 : Newer(writes', g.seqs, Content(c.in0))
      BY <1>4, <1>7, <2>1, <2>2, <2>4 DEF CompactionInv, Replaceable
    <3> QED BY <1>2, <2>3, <3>1, <3>2, <3>3 DEF Replaceable, c
  <2>6. Solid(writes', all)
    <3>1. Solid(writes, all)
      BY <2>1 DEF CompactionInv
    <3>2. \A n : Covers(writes, Content(all), n) <=> Covers(writes', Content(all), n)
      BY <1>7, <2>4
    <3>3. \A f \in all : \A n : Covers(writes, f.seqs, n) <=> Covers(writes', f.seqs, n)
      BY <1>7, <2>3
    <3> QED BY <3>1, <3>2, <3>3 DEF Solid
  <2>7. c.base \in [Levels -> SUBSET (Tables')] /\ c.in0 # {} /\ c.level \in 0 .. NumLevels - 2
    BY <1>1, <2>1 DEF CompactionInv
  <2>8. ASSUME NEW l \in c.level + 2 .. NumLevels - 1
        PROVE  /\ IsFiniteSet(c.base[l]) /\ PairwiseApart(writes', c.base[l])
               /\ \A g \in files[l] \ c.base[l] : NoSharedKey(writes', g.seqs, Content(all))
    <3>1. l \in Levels
      BY <2>2 DEF Levels
    <3>2. \A g \in c.base[l] : g.seqs \subseteq 1 .. last
      BY <2>1, <3>1 DEF CompactionInv, Tables
    <3>3. PairwiseApart(writes', c.base[l])
      BY <1>7, <2>1, <3>2 DEF CompactionInv, PairwiseApart
    <3>4. ASSUME NEW g \in files[l] \ c.base[l] PROVE NoSharedKey(writes', g.seqs, Content(all))
      <4>1. NoSharedKey(writes, g.seqs, Content(all))
        BY <2>1 DEF CompactionInv
      <4> QED BY <1>4, <1>7, <2>4, <3>1, <4>1
    <3> QED BY <2>1, <3>3, <3>4 DEF CompactionInv
  <2>9. CompactionInv(compact[1])'
    BY <1>2, <2>5, <2>6, <2>7, <2>8 DEF CompactionInv, c
  <2> QED BY <2>1, <2>9 DEF CompactingInv
<1> QED BY <1>10, <1>11 DEF CompactingInv

\* All that is in tables, and all that is stored.
Disk == UNION {Content(files[l]) : l \in Levels}
Stored == mem \cup imm \cup Disk

\* Where an entry of a table is.
LEMMA DiskIs == \A t : t \in Disk <=> \E l \in Levels : \E f \in files[l] : t \in f.seqs
BY DEF Disk, Content

\* NewFileNumber: above every number of level 0.
LEMMA NextIs ==
    ASSUME LevelsAssumption, FilesType
    PROVE  next \in Nat /\ \A f \in files[0] : f.num \in Nat /\ f.num < next
<1> DEFINE N == {f.num : f \in files[0]}
<1>1. 0 \in Levels
  BY DEF Levels, LevelsAssumption
<1>2. files[0] \in SUBSET Tables /\ IsFiniteSet(files[0])
  BY <1>1 DEF FilesType
<1>3. \A f \in files[0] : f.num \in Nat /\ f.num \in N
  BY <1>2 DEF Tables
<1>4. IsFiniteSet(N)
  <2> DEFINE g == [f \in files[0] |-> f.num]
  <2>1. g \in Surjection(files[0], N)
    BY DEF Surjection
  <2> HIDE DEF g, N
  <2> QED BY <1>2, <2>1, FS_Surjection
<1>5. N \in SUBSET Nat
  BY <1>3
<1>6. next = 1 + Max({0} \cup N)
  BY DEF next
<1> HIDE DEF N
<1>7. IsFiniteSet(N \cup {0})
  BY <1>4, FS_AddElement
<1>8. {0} \cup N = N \cup {0} /\ N \cup {0} \in SUBSET Nat /\ N \cup {0} # {}
  BY <1>5
<1>9. Max(N \cup {0}) \in N \cup {0} /\ \A y \in N \cup {0} : Max(N \cup {0}) >= y
  BY <1>7, <1>8, MaxIs
<1> DEFINE m == Max(N \cup {0})
<1>10. next = 1 + m
  BY <1>6, <1>8
<1> HIDE DEF m
<1>11. m \in Nat /\ \A y \in N : y \in Nat /\ m >= y
  <2>1. m \in N \cup {0} /\ \A y \in N \cup {0} : m >= y
    BY <1>9 DEF m
  <2>2. \A y \in N \cup {0} : y \in Nat
    BY <1>5
  <2> QED BY <2>1, <2>2
<1>12. next \in Nat /\ \A y \in N : y < next
  BY <1>10, <1>11
<1> QED BY <1>3, <1>12

\* Two tables whose ranges do not meet are apart.
LEMMA ApartTables ==
    ASSUME LevelsAssumption, WritesType, NEW f \in Tables, NEW g \in Tables,
           ~Overlaps(Range1(f), Range1(g))
    PROVE  Apart(writes, f.seqs, g.seqs) /\ Apart(writes, g.seqs, f.seqs)
<1>1. {g} \in SUBSET Tables /\ {g} # {} /\ Content({g}) = g.seqs /\ Hull({g}) = Range1(g)
  BY DEF Content, Range1
<1> HIDE DEF Range1
<1>2. Apart(writes, f.seqs, g.seqs)
  BY <1>1, ApartIs
<1> QED BY <1>2 DEF Apart

\* PickLevelForMemTableOutput: below level 0 the memtable meets no table of its
\* level nor of the levels above.
LEMMA MemTableLevelIs ==
    ASSUME LevelsAssumption, TablesInv, NEW n \in Nat, NEW S \in (SUBSET (1 .. last)) \ {{}},
           NEW level \in MemTableLevels(Range1([num |-> 0, seqs |-> S])),
           NEW t, t = [num |-> n, seqs |-> S]
    PROVE  /\ level \in Levels /\ t \in Tables
           /\ level # 0 => \A l \in 0 .. level : \A f \in files[l] :
                              Apart(writes, f.seqs, S) /\ Apart(writes, S, f.seqs)
<1> DEFINE u == [num |-> 0, seqs |-> S]
<1>1. u \in Tables /\ t \in Tables /\ u.seqs = S
  BY DEF Tables
<1> HIDE DEF u
<1>2. \/ level = 0
      \/ level \in 0 .. MaxMemCompactLevel
         /\ \A l \in 0 .. level : ~OverlapInLevel(l, Range1(u))
  BY DEF MemTableLevels, u
<1>3. level \in Levels
  BY <1>2 DEF Levels, LevelsAssumption
<1>4. ASSUME level # 0, NEW l \in 0 .. level, NEW f \in files[l]
      PROVE  Apart(writes, f.seqs, S) /\ Apart(writes, S, f.seqs)
  <2>1. ~Overlaps(Range1(f), Range1(u))
    BY <1>2, <1>4 DEF OverlapInLevel
  <2>2. l \in Levels
    BY <1>2, <1>3, <1>4 DEF Levels
  <2>3. f \in Tables
    BY <2>2 DEF TablesInv, FilesType
  <2>4. WritesType
    BY DEF TablesInv
  <2> QED BY <1>1, <2>1, <2>3, <2>4, ApartTables
<1> QED BY <1>1, <1>3, <1>4

\* CompactMemTable: the table of a memtable stays in level 0, or goes down where
\* nothing meets it, out of the way of a running compaction.
LEMMA FlushKeeps ==
    ASSUME LevelsAssumption, TablesInv, CompactingInv, CompactMemTable
    PROVE  TablesInv' /\ CompactingInv' /\ Disk' = Disk \cup imm
<1>0. PICK level \in MemTableLevels(Range1([num |-> 0, seqs |-> imm])) :
         files' = [files EXCEPT ![level] = @ \cup {File(level, imm)}]
  BY DEF CompactMemTable
<1> DEFINE t == File(level, imm)
<1>1. writes' = writes /\ mem' = mem /\ imm' = {} /\ compact' = compact /\ imm # {}
  BY DEF CompactMemTable
<1>2. imm \in (SUBSET (1 .. last)) \ {{}} /\ WritesType /\ FilesType
  BY <1>1 DEF TablesInv, MemoryIsNewest
<1>3. next \in Nat /\ \A f \in files[0] : f.num \in Nat /\ f.num < next
  BY <1>2, NextIs
<1>4. /\ t.seqs = imm /\ (level = 0 => t.num = next)
      /\ t = [num |-> IF level = 0 THEN next ELSE 0, seqs |-> imm]
      /\ (IF level = 0 THEN next ELSE 0) \in Nat
  BY <1>3 DEF File
<1> HIDE DEF t
<1>5. /\ level \in Levels /\ t \in Tables
      /\ level # 0 => \A l \in 0 .. level : \A f \in files[l] :
                         Apart(writes, f.seqs, imm) /\ Apart(writes, imm, f.seqs)
  BY <1>2, <1>4, MemTableLevelIs
<1>6. WritesType' /\ last' = last /\ Tables' = Tables
  BY <1>1, <1>2, SameWrites
<1>7. /\ files' \in [Levels -> SUBSET Tables]
      /\ files'[level] = files[level] \cup {t}
      /\ \A l \in Levels : l # level => files'[l] = files[l]
  BY <1>0, <1>2, <1>5 DEF FilesType, t
<1>8. FilesType'
  <2>1. ASSUME NEW l \in Levels PROVE IsFiniteSet(files'[l])
    <3>1. IsFiniteSet(files[l]) /\ IsFiniteSet(files[l] \cup {t})
      BY <1>2, FS_AddElement DEF FilesType
    <3> QED BY <1>7, <3>1
  <2> QED BY <1>6, <1>7, <2>1 DEF FilesType
<1>9. \A l \in Levels : \A f \in files[l] : \A s \in mem \cup imm, x \in f.seqs : s > x
  BY DEF TablesInv, MemoryIsNewest
<1>10. MemoryIsNewest'
  <2>1. mem' \subseteq 1 .. last' /\ imm' \subseteq 1 .. last' /\ \A s \in mem', x \in imm' : s > x
    BY <1>1, <1>6 DEF TablesInv, MemoryIsNewest
  <2>2. ASSUME NEW l \in Levels, NEW f \in files'[l], NEW s \in mem, NEW x \in f.seqs
        PROVE  s > x
    <3>1. CASE f \in files[l]
      BY <1>9, <3>1
    <3>2. CASE f = t
      BY <1>4, <3>2 DEF TablesInv, MemoryIsNewest
    <3> QED BY <1>7, <3>1, <3>2
  <2> QED BY <1>1, <2>1, <2>2 DEF MemoryIsNewest
<1>11. Level0InOrder'
  <2>0. 0 \in Levels
    BY DEF Levels, LevelsAssumption
  <2>1. CASE level # 0
    BY <1>7, <2>0, <2>1 DEF TablesInv, Level0InOrder
  <2>2. CASE level = 0
    <3>1. \A f \in files[0] : f.num < t.num /\ \A s \in f.seqs, x \in t.seqs : s < x
      <4> SUFFICES ASSUME NEW f \in files[0], NEW s \in f.seqs, NEW x \in imm PROVE s < x
        BY <1>3, <1>4, <2>2
      <4>1. s \in Nat /\ x \in Nat
        BY <1>2, <2>0 DEF FilesType, Tables
      <4> QED BY <1>9, <2>0, <4>1
    <3>2. \A f \in files'[0] : f \in files[0] \/ f = t
      BY <1>7, <2>2
    <3> QED BY <3>1, <3>2 DEF TablesInv, Level0InOrder
  <2> QED BY <2>1, <2>2
<1>12. LevelsApart'
  <2> SUFFICES ASSUME NEW l \in Levels \ {0}, NEW f \in files'[l], NEW g \in files'[l], f # g
               PROVE  Apart(writes, f.seqs, g.seqs)
    BY <1>1 DEF LevelsApart, PairwiseApart
  <2>1. CASE f \in files[l] /\ g \in files[l]
    BY <2>1 DEF TablesInv, LevelsApart, PairwiseApart
  <2>2. CASE l = level /\ (f = t \/ g = t)
    <3>1. l \in 0 .. level /\ level # 0
      BY <2>2 DEF Levels
    <3> QED BY <1>4, <1>5, <1>7, <2>2, <3>1
  <2> QED BY <1>7, <2>1, <2>2
<1>13. NewerUp'
  <2> SUFFICES ASSUME NEW i \in Levels, NEW j \in Levels, i < j,
                      NEW f \in files'[i], NEW g \in files'[j]
               PROVE  Newer(writes, f.seqs, g.seqs)
    BY <1>1 DEF NewerUp
  <2>1. CASE f \in files[i] /\ g \in files[j]
    BY <2>1 DEF TablesInv, NewerUp
  <2>2. CASE i = level /\ f = t
    <3>1. g \in files[j]
      BY <1>7, <2>2 DEF Levels
    <3> QED BY <1>4, <1>9, <2>2, <3>1 DEF Newer
  <2>3. CASE j = level /\ g = t
    <3>1. f \in files[i] /\ level # 0 /\ i \in 0 .. level
      BY <1>7, <2>3 DEF Levels
    <3>2. f.seqs \in SUBSET (1 .. last) /\ Apart(writes, f.seqs, imm)
      BY <1>2, <1>5, <3>1 DEF FilesType, Tables
    <3> QED BY <1>2, <1>4, <2>3, <3>2, ApartShares
  <2> QED BY <1>7, <2>1, <2>2, <2>3
<1>14. TablesInv'
  BY <1>6, <1>8, <1>10, <1>11, <1>12, <1>13 DEF TablesInv
<1>15. ASSUME compact # <<>> PROVE CompactingInv'
  <2> DEFINE c == compact[1]
             all == c.in0 \cup c.in1
  <2>1. Len(compact) = 1 /\ CompactionInv(c)
    BY <1>15 DEF CompactingInv
  <2>2. /\ c.level \in Levels /\ c.level + 1 \in Levels /\ c.level + 1 # 0 /\ c.level \in Nat
        /\ c.level + 1 # c.level
    BY <2>1 DEF CompactionInv, Levels, LevelsAssumption
  <2> HIDE DEF c
  <2>3. /\ c.in0 \subseteq files[c.level] /\ c.in1 \subseteq files[c.level + 1]
        /\ all \in SUBSET Tables /\ all # {}
    BY <1>2, <2>1, <2>2 DEF CompactionInv, Replaceable, FilesType
  <2>4. ASSUME level >= c.level + 1, NEW f \in all
        PROVE  Apart(writes, imm, f.seqs) /\ f.seqs \in SUBSET (1 .. last)
    <3>1. c.level \in 0 .. level /\ c.level + 1 \in 0 .. level /\ level # 0
      BY <1>5, <2>2, <2>4 DEF Levels
    <3> QED BY <1>5, <2>3, <3>1 DEF Tables
  <2>5. Replaceable(c.level, c.in0, c.in1)'
    <3>1. compact[1]' = compact[1]
      BY <1>1
    <3>2. c.in0 \subseteq files'[c.level] /\ c.in1 \subseteq files'[c.level + 1]
      BY <1>7, <2>2, <2>3
    <3>3. ASSUME NEW g \in files'[c.level + 1] \ c.in1
          PROVE  Apart(writes, g.seqs, Content(all))
      <4>1. CASE g \in files[c.level + 1]
        BY <2>1, <4>1 DEF CompactionInv, Replaceable
      <4>2. CASE g = t /\ level = c.level + 1
        <5>1. \A f \in all : Apart(writes, t.seqs, f.seqs)
          BY <1>4, <2>2, <2>4, <4>2
        <5>2. Solid(writes, all)
          BY <2>1 DEF CompactionInv
        <5> QED BY <1>2, <1>5, <2>3, <4>2, <5>1, <5>2, ApartFromSolid
      <4> QED BY <1>7, <2>2, <4>1, <4>2
    <3>4. ASSUME NEW g \in files'[c.level] \ c.in0 PROVE Newer(writes, g.seqs, Content(c.in0))
      <4>1. CASE g \in files[c.level]
        BY <2>1, <4>1 DEF CompactionInv, Replaceable
      <4>2. CASE g = t
        BY <1>4, <1>9, <2>2, <2>3, <4>2 DEF Newer, Content
      <4> QED BY <1>7, <2>2, <4>1, <4>2
    <3> QED BY <1>1, <3>1, <3>2, <3>3, <3>4 DEF Replaceable, c
  <2>6. ASSUME NEW l \in c.level + 2 .. NumLevels - 1, NEW g \in files'[l] \ c.base[l]
        PROVE  NoSharedKey(writes, g.seqs, Content(all))
    <3>0. l \in Levels /\ l >= c.level + 1
      BY <2>2 DEF Levels
    <3>1. CASE g \in files[l]
      BY <2>1, <3>1 DEF CompactionInv
    <3>2. CASE g = t /\ l = level
      <4>1. \A f \in all : NoSharedKey(writes, imm, f.seqs)
        BY <1>2, <2>4, <3>0, <3>2, ApartShares
      <4> QED BY <1>4, <3>2, <4>1 DEF NoSharedKey, Content
    <3> QED BY <1>7, <3>0, <3>1, <3>2
  <2>7. CompactionInv(compact[1])'
    <3>1. /\ c.level \in 0 .. NumLevels - 2 /\ c.in0 # {} /\ Solid(writes, all)
          /\ c.base \in [Levels -> SUBSET Tables]
          /\ \A l \in c.level + 2 .. NumLevels - 1 :
                IsFiniteSet(c.base[l]) /\ PairwiseApart(writes, c.base[l])
      BY <2>1 DEF CompactionInv
    <3> QED BY <1>1, <1>6, <2>5, <2>6, <3>1 DEF CompactionInv, c
  <2> QED BY <1>1, <2>1, <2>7 DEF CompactingInv
<1>16. Disk' = Disk \cup imm
  <2>1. ASSUME NEW l \in Levels
        PROVE  Content(files'[l]) = IF l = level THEN Content(files[l]) \cup imm
                                    ELSE Content(files[l])
    BY <1>4, <1>7 DEF Content
  <2>2. Disk' = UNION {Content(files'[l]) : l \in Levels}
    BY DEF Disk, Content
  <2> QED BY <1>5, <2>1, <2>2 DEF Disk
<1> QED BY <1>1, <1>14, <1>15, <1>16 DEF CompactingInv

\* Where outputs may be cut inside a key, no snapshot was newer than an input.
SplitInv ==
    compact # <<>> /\ SplitKeys =>
       \A f \in compact[1].in0 \cup compact[1].in1 : \A s \in f.seqs : s <= compact[1].smallest

\* StartCompaction: the inputs the code picks may be replaced.
LEMMA StartKeeps ==
    ASSUME LevelsAssumption, TablesInv, CompactingInv, SplitKeys => snapshots = {}, StartCompaction
    PROVE  TablesInv' /\ CompactingInv' /\ SplitInv'
<1>1. /\ compact = <<>> /\ writes' = writes /\ mem' = mem /\ imm' = imm /\ files' = files
      /\ \E p \in PickCompaction : \E ins \in Inputs(p[1], p[2]) : Begin(p[1], ins)
  BY DEF StartCompaction
<1>2. PICK p \in PickCompaction : \E ins \in Inputs(p[1], p[2]) : Begin(p[1], ins)
  BY <1>1
<1>3. PICK ins \in Inputs(p[1], p[2]) : Begin(p[1], ins)
  BY <1>2
<1>4. p[1] \in 0 .. NumLevels - 2 /\ GoodStart(p[1], p[2])
  BY PickIsGood
<1>5. WritesType /\ FilesType
  BY DEF TablesInv
<1>6. GoodInputs(p[1], ins[1], ins[2])
  BY <1>4, <1>5, GoodAfterSetup
<1>7. Replaceable(p[1], ins[1], ins[2])
  BY <1>4, <1>6, GoodIsReplaceable
<1>8. TablesInv'
  BY <1>1 DEF TablesInv, WritesType, FilesType, Tables, last, MemoryIsNewest, Level0InOrder,
              LevelsApart, NewerUp
<1> DEFINE c == [level |-> p[1], in0 |-> ins[1], in1 |-> ins[2], base |-> files,
                 smallest |-> IF snapshots = {} THEN last ELSE Min(snapshots),
                 was |-> pointer[p[1]]]
<1>9. compact' = <<c>>
  BY <1>3 DEF Begin
<1>10. /\ c.smallest = IF snapshots = {} THEN last ELSE Min(snapshots)
       /\ c.level = p[1] /\ c.in0 = ins[1] /\ c.in1 = ins[2] /\ c.base = files
  OBVIOUS
<1> HIDE DEF c
<1>11. Len(compact') = 1 /\ compact'[1] = c
  BY <1>9
<1>12. /\ Replaceable(c.level, c.in0, c.in1) /\ c.in0 # {}
       /\ Solid(writes, c.in0 \cup c.in1) /\ c.level \in 0 .. NumLevels - 2
       /\ c.base \in [Levels -> SUBSET Tables]
  BY <1>4, <1>5, <1>6, <1>7, <1>10 DEF GoodInputs, FilesType
<1>13. \A l \in c.level + 2 .. NumLevels - 1 :
          IsFiniteSet(c.base[l]) /\ PairwiseApart(writes, c.base[l])
  <2> SUFFICES ASSUME NEW l \in c.level + 2 .. NumLevels - 1
               PROVE  IsFiniteSet(files[l]) /\ PairwiseApart(writes, files[l])
    BY <1>10
  <2>1. l \in Levels \ {0}
    BY <1>12 DEF Levels, LevelsAssumption
  <2> QED BY <1>5, <2>1 DEF FilesType, TablesInv, LevelsApart
<1>14. CompactionInv(compact[1])'
  <2>1. (compact[1])' = c
    BY <1>11
  <2> QED BY <1>1, <1>10, <1>12, <1>13, <2>1 DEF CompactionInv, Replaceable, Tables, last
<1>15. SplitInv'
  <2> SUFFICES ASSUME SplitKeys, NEW f \in c.in0 \cup c.in1, NEW s \in f.seqs
               PROVE  s <= c.smallest
    BY <1>11 DEF SplitInv
  <2>1. c.level \in Levels /\ c.level + 1 \in Levels
    BY <1>12 DEF Levels, LevelsAssumption
  <2>2. s \in 1 .. last
    BY <1>5, <1>12, <2>1 DEF Replaceable, FilesType, Tables
  <2> QED BY <1>10, <2>2
<1> QED BY <1>8, <1>11, <1>14, <1>15 DEF CompactingInv

\* A compaction with one input and nothing below moves it (IsTrivialMove).
LEMMA MoveKeeps ==
    ASSUME LevelsAssumption, TablesInv, MoveFile
    PROVE  TablesInv' /\ compact' = <<>> /\ Disk' = Disk
<1>1. /\ compact = <<>> /\ compact' = compact /\ UNCHANGED <<writes, mem, imm>>
      /\ \E p \in PickCompaction : \E ins \in Inputs(p[1], p[2]) :
            /\ MayMove(p[1], ins)
            /\ files' = [files EXCEPT ![p[1]] = @ \ ins[1],
                                      ![p[1] + 1] = @ \cup {File(p[1] + 1, f.seqs) : f \in ins[1]}]
  BY DEF MoveFile
<1>2. PICK p \in PickCompaction : \E ins \in Inputs(p[1], p[2]) :
            /\ MayMove(p[1], ins)
            /\ files' = [files EXCEPT ![p[1]] = @ \ ins[1],
                                      ![p[1] + 1] = @ \cup {File(p[1] + 1, f.seqs) : f \in ins[1]}]
  BY <1>1
<1>3. PICK ins \in Inputs(p[1], p[2]) :
            /\ MayMove(p[1], ins)
            /\ files' = [files EXCEPT ![p[1]] = @ \ ins[1],
                                      ![p[1] + 1] = @ \cup {File(p[1] + 1, f.seqs) : f \in ins[1]}]
  BY <1>2
<1>4. p[1] \in 0 .. NumLevels - 2 /\ GoodStart(p[1], p[2])
  BY PickIsGood
<1>5. WritesType /\ FilesType
  BY DEF TablesInv
<1>6. GoodInputs(p[1], ins[1], ins[2])
  BY <1>4, <1>5, GoodAfterSetup
<1>7. Replaceable(p[1], ins[1], ins[2])
  BY <1>4, <1>6, GoodIsReplaceable
<1>8. ins[1] # {} /\ Cardinality(ins[1]) = 1 /\ ins[2] = {} /\ ins[1] \subseteq files[p[1]]
  BY <1>3, <1>6 DEF MayMove, GoodInputs
<1>9. p[1] \in Levels /\ p[1] + 1 \in Levels /\ p[1] + 1 # 0
  BY <1>4 DEF Levels, LevelsAssumption
<1>10. PICK f \in ins[1] : TRUE
  BY <1>8
<1>11. f \in Tables /\ IsFiniteSet(ins[1])
  <2>1. IsFiniteSet(files[p[1]]) /\ files[p[1]] \in SUBSET Tables
    BY <1>5, <1>9 DEF FilesType
  <2> QED BY <1>8, <2>1, FS_Subset
<1>12. ins[1] = {f}
  <2>1. \E x : ins[1] = {x}
    BY <1>8, <1>11, FS_Singleton
  <2> QED BY <1>10, <2>1
<1> DEFINE g == File(p[1] + 1, f.seqs)
           out == {g}
<1>13. g = [num |-> 0, seqs |-> f.seqs] /\ g.seqs = f.seqs
  BY <1>9 DEF File
<1>14. {File(p[1] + 1, h.seqs) : h \in ins[1]} = out
  BY <1>12
<1> HIDE DEF g
<1>15. g \in Tables
  BY <1>11, <1>13 DEF Tables
<1>16. IsFiniteSet(out) /\ out \in SUBSET Tables /\ PairwiseApart(writes, out)
  BY <1>15, FS_Singleton DEF PairwiseApart
<1>17. Content(out) \subseteq Content(ins[1] \cup ins[2])
  BY <1>12, <1>13 DEF Content
<1>18. files' = [files EXCEPT ![p[1]] = @ \ ins[1],
                              ![p[1] + 1] = (@ \ ins[2]) \cup out]
  <2>1. \A S : S \ ins[2] = S
    BY <1>8
  <2> QED BY <1>3, <1>14, <2>1
<1> HIDE DEF out
<1>19. TablesInv'
  BY <1>1, <1>4, <1>7, <1>16, <1>17, <1>18, ReplaceTables
<1>20. Disk' = Disk
  <2>1. /\ files'[p[1]] = files[p[1]] \ {f}
        /\ files'[p[1] + 1] = files[p[1] + 1] \cup {g}
        /\ \A l \in Levels : l # p[1] /\ l # p[1] + 1 => files'[l] = files[l]
    BY <1>4, <1>5, <1>8, <1>9, <1>12, <1>18 DEF FilesType, out
  <2>2. p[1] # p[1] + 1 /\ f \in files[p[1]]
    BY <1>4, <1>8
  <2>3. \A t : t \in Disk' <=> \E l \in Levels : \E h \in files'[l] : t \in h.seqs
    BY DEF Disk, Content
  <2>4. ASSUME NEW t \in Disk PROVE t \in Disk'
    BY <1>9, <1>13, <2>1, <2>3, DiskIs
  <2>5. ASSUME NEW t \in Disk' PROVE t \in Disk
    BY <1>9, <1>13, <2>1, <2>2, <2>3, DiskIs
  <2> QED BY <2>4, <2>5
<1> QED BY <1>1, <1>19, <1>20

\* What a compaction keeps has each key once if no snapshot was held.
LEMMA KeptOnce ==
    ASSUME LevelsAssumption, WritesType, compact # <<>>, SplitInv, SplitKeys,
           Content(compact[1].in0 \cup compact[1].in1) \subseteq 1 .. last,
           NEW x \in Kept(compact[1]), NEW y \in Kept(compact[1]), Key(x) = Key(y)
    PROVE  x = y
<1> DEFINE all == Content(compact[1].in0 \cup compact[1].in1)
           min == compact[1].smallest
<1>1. \A s \in all : s <= min
  BY DEF SplitInv, Content
<1>2. \A s \in Kept(compact[1]) : s \in all /\ \A t \in all : ~(Key(t) = Key(s) /\ s < t /\ t <= min)
  BY DEF Kept, Content
<1>3. \A s \in all : s \in Nat
  OBVIOUS
<1> HIDE DEF all, min
<1>4. ~(x < y) /\ ~(y < x) /\ x \in Nat /\ y \in Nat
  BY <1>1, <1>2, <1>3
<1> QED BY <1>4

\* A compaction ends: its outputs replace its inputs.
LEMMA FinishKeeps ==
    ASSUME LevelsAssumption, TablesInv, CompactingInv, SplitInv, FinishCompaction
    PROVE  /\ TablesInv' /\ compact' = <<>> /\ Disk' \subseteq Disk
           /\ \A t \in Disk : \/ t \in Disk'
                              \/ (\E f \in compact[1].in0 \cup compact[1].in1 : t \in f.seqs)
                                 /\ t \notin Kept(compact[1])
           /\ \A t \in Disk' : \/ t \in Kept(compact[1])
                               \/ \E l \in Levels : \E g \in files[l] :
                                     /\ t \in g.seqs
                                     /\ l = compact[1].level => g \notin compact[1].in0
                                     /\ l = compact[1].level + 1 => g \notin compact[1].in1
<1> DEFINE c == compact[1]
           all == c.in0 \cup c.in1
<1>1. CompactionInv(c) /\ compact' = <<>> /\ UNCHANGED <<writes, mem, imm>>
  BY DEF FinishCompaction, CompactingInv
<1>2. PICK cut \in Outputs(Kept(c)) :
         files' = [files EXCEPT ![c.level] = @ \ c.in0,
                                ![c.level + 1] = (@ \ c.in1) \cup {File(c.level + 1, seqs) : seqs \in cut}]
  BY DEF FinishCompaction
<1>3. c.level \in Levels /\ c.level + 1 \in Levels /\ c.level + 1 # 0 /\ c.level \in 0 .. NumLevels - 2
  BY <1>1 DEF CompactionInv, Levels, LevelsAssumption
<1> HIDE DEF c
<1>4. WritesType /\ FilesType /\ Replaceable(c.level, c.in0, c.in1)
  BY <1>1 DEF TablesInv, CompactionInv
<1>5. all \in SUBSET Tables
  BY <1>3, <1>4 DEF Replaceable, FilesType
<1> HIDE DEF all
<1>6. Content(all) \in SUBSET (1 .. last)
  BY <1>5 DEF Content, Tables
<1>7. Kept(c) \in SUBSET Content(all)
  BY DEF Kept, Content, all
<1>8. /\ IsFiniteSet(cut) /\ UNION cut = Kept(c)
      /\ \A C \in cut : C # {} /\ C \subseteq Kept(c)
      /\ \A C, D \in cut : C = D \/ Apart(writes, C, D)
  <2>1. ASSUME SplitKeys, NEW x \in Kept(c), NEW y \in Kept(c), Key(x) = Key(y) PROVE x = y
    <3>1. compact # <<>>
      BY DEF FinishCompaction
    <3> QED BY <1>4, <1>6, <2>1, <3>1, KeptOnce DEF all, c
  <2>2. Kept(c) \in SUBSET (1 .. last)
    BY <1>6, <1>7
  <2> QED BY <1>4, <2>1, <2>2, OutputsAre
<1> DEFINE table(S) == [num |-> 0, seqs |-> S]
           out == {table(S) : S \in cut}
<1>9. {File(c.level + 1, S) : S \in cut} = out
  BY <1>3 DEF File
<1>10. out \in SUBSET Tables
  BY <1>6, <1>7, <1>8 DEF Tables
<1>11. IsFiniteSet(out)
  <2> DEFINE g == [S \in cut |-> table(S)]
  <2>1. g \in Surjection(cut, out)
    BY DEF Surjection
  <2> HIDE DEF g, out
  <2> QED BY <1>8, <2>1, FS_Surjection
<1>12. PairwiseApart(writes, out)
  BY <1>8 DEF PairwiseApart
<1>13. Content(out) \subseteq Content(all)
  BY <1>7, <1>8 DEF Content
<1>14. files' = [files EXCEPT ![c.level] = @ \ c.in0, ![c.level + 1] = (@ \ c.in1) \cup out]
  BY <1>2, <1>9
<1> HIDE DEF out
<1>15. TablesInv'
  BY <1>1, <1>3, <1>4, <1>10, <1>11, <1>12, <1>13, <1>14, ReplaceTables DEF all
<1>16. /\ files'[c.level] = files[c.level] \ c.in0
       /\ files'[c.level + 1] = (files[c.level + 1] \ c.in1) \cup out
       /\ \A l \in Levels : l # c.level /\ l # c.level + 1 => files'[l] = files[l]
       /\ c.level # c.level + 1
  BY <1>3, <1>4, <1>14 DEF FilesType
<1>17. /\ \A t \in Kept(c) : \E g \in out : t \in g.seqs
       /\ \A g \in out : g.seqs \subseteq Kept(c)
  <2>1. ASSUME NEW S \in cut PROVE \E g \in out : g.seqs = S
    <3>1. table(S) \in out /\ table(S).seqs = S
      BY DEF out
    <3> HIDE DEF table
    <3> QED BY <3>1
  <2>2. \A g \in out : \E S \in cut : g.seqs = S
    BY DEF out
  <2> QED BY <1>8, <2>1, <2>2
<1>18. \A t : t \in Disk' <=> \E l \in Levels : \E h \in files'[l] : t \in h.seqs
  BY DEF Disk, Content
<1>19. ASSUME NEW t \in Disk
       PROVE  t \in Disk' \/ ((\E f \in all : t \in f.seqs) /\ t \notin Kept(c))
  <2>1. PICK l \in Levels : \E f \in files[l] : t \in f.seqs
    BY DiskIs
  <2>2. PICK f \in files[l] : t \in f.seqs
    BY <2>1
  <2>3. CASE f \in files'[l]
    BY <1>18, <2>2, <2>3
  <2>4. CASE f \in all /\ t \notin Kept(c)
    BY <2>2, <2>4
  <2>5. CASE f \in all /\ t \in Kept(c)
    BY <1>3, <1>16, <1>17, <1>18, <2>5
  <2>6. f \in files'[l] \/ f \in all
    BY <1>16 DEF all
  <2> QED BY <2>3, <2>4, <2>5, <2>6
<1>20. ASSUME NEW t \in Disk'
       PROVE  t \in Kept(c) \/ \E l \in Levels : \E g \in files[l] :
                                    /\ t \in g.seqs
                                    /\ l = c.level => g \notin c.in0
                                    /\ l = c.level + 1 => g \notin c.in1
  <2>1. PICK l \in Levels : \E f \in files'[l] : t \in f.seqs
    BY <1>18
  <2>2. PICK f \in files'[l] : t \in f.seqs
    BY <2>1
  <2>3. CASE f \in out
    BY <1>17, <2>2, <2>3
  <2>4. CASE f \notin out
    BY <1>16, <2>2, <2>4
  <2> QED BY <2>3, <2>4
<1>21. \A t \in Kept(c) : t \in Disk
  <2>1. all \subseteq files[c.level] \cup files[c.level + 1]
    BY <1>4 DEF Replaceable, all
  <2> QED BY <1>3, <1>7, <2>1, DiskIs DEF Content
<1>22. Disk' \subseteq Disk
  BY <1>20, <1>21, DiskIs
<1> QED BY <1>1, <1>15, <1>19, <1>20, <1>22 DEF all, c

\* Reopen: the logs become tables of level 0, the older below the newer.
LEMMA ReopenKeeps ==
    ASSUME LevelsAssumption, TablesInv, Reopen
    PROVE  TablesInv' /\ compact' = <<>> /\ manual' = <<>> /\ Stored' = Stored
<1> DEFINE table(n, seqs) == IF seqs = {} THEN {} ELSE {[num |-> n, seqs |-> seqs]}
           old == table(next, imm)
           new == table(next + 1, mem)
<1>1. /\ files' = [files EXCEPT ![0] = @ \cup old \cup new]
      /\ writes' = writes /\ mem' = {} /\ imm' = {} /\ compact' = <<>> /\ manual' = <<>>
  BY DEF Reopen
<1>2. WritesType /\ FilesType /\ mem \subseteq 1 .. last /\ imm \subseteq 1 .. last
      /\ (\A s \in mem, x \in imm : s > x)
  BY DEF TablesInv, MemoryIsNewest
<1>3. next \in Nat /\ \A f \in files[0] : f.num \in Nat /\ f.num < next
  BY <1>2, NextIs
<1>4. /\ \A f \in old : f.num = next /\ f.seqs = imm /\ f \in Tables
      /\ \A f \in new : f.num = next + 1 /\ f.seqs = mem /\ f \in Tables
      /\ \A f, g \in old : f = g
      /\ \A f, g \in new : f = g
  <2>1. ASSUME NEW n \in Nat, NEW S \in SUBSET (1 .. last)
        PROVE  /\ \A f \in table(n, S) : f.num = n /\ f.seqs = S /\ f \in Tables
               /\ \A f, g \in table(n, S) : f = g
    <3>1. CASE S = {}
      BY <3>1
    <3>2. CASE S # {}
      <4> DEFINE f == [num |-> n, seqs |-> S]
      <4>1. f.num = n /\ f.seqs = S /\ f \in Tables
        BY <3>2 DEF Tables
      <4>2. table(n, S) = {f}
        BY <3>2
      <4> HIDE DEF f, table
      <4> QED BY <4>1, <4>2
    <3> QED BY <3>1, <3>2
  <2>2. next + 1 \in Nat
    BY <1>3
  <2> HIDE DEF table
  <2> QED BY <1>2, <1>3, <2>1, <2>2
<1>5. IsFiniteSet(old) /\ IsFiniteSet(new)
  BY FS_EmptySet, FS_Singleton
<1> HIDE DEF old, new, table
<1>6. WritesType' /\ last' = last /\ Tables' = Tables
  BY <1>1, <1>2, SameWrites
<1>7. 0 \in Levels /\ \A l \in Levels : l \in Nat
  BY DEF Levels, LevelsAssumption
<1>8. /\ files' \in [Levels -> SUBSET Tables]
      /\ files'[0] = files[0] \cup old \cup new
      /\ \A l \in Levels : l # 0 => files'[l] = files[l]
  BY <1>1, <1>2, <1>4, <1>7 DEF FilesType
<1>9. FilesType'
  <2>1. IsFiniteSet(files[0] \cup old \cup new)
    <3>1. IsFiniteSet(files[0] \cup old)
      BY <1>2, <1>5, <1>7, FS_Union DEF FilesType
    <3> QED BY <1>5, <3>1, FS_Union
  <2>2. ASSUME NEW l \in Levels PROVE IsFiniteSet(files'[l])
    BY <1>2, <1>8, <2>1 DEF FilesType
  <2> QED BY <1>6, <1>8, <2>2 DEF FilesType
<1>10. \A l \in Levels : \A f \in files[l] : \A s \in mem \cup imm, x \in f.seqs : s > x
  BY DEF TablesInv, MemoryIsNewest
<1>11. MemoryIsNewest'
  BY <1>1 DEF MemoryIsNewest
<1>12. \A S \in SUBSET (1 .. last) : S \subseteq Nat
  OBVIOUS
<1>13. \A f \in files[0] : f.seqs \subseteq Nat
  BY <1>2, <1>7 DEF FilesType, Tables
<1>14. /\ \A f \in files[0], g \in old : f.num < g.num /\ \A s \in f.seqs, x \in g.seqs : s < x
       /\ \A f \in files[0], g \in new : f.num < g.num /\ \A s \in f.seqs, x \in g.seqs : s < x
       /\ \A f \in old, g \in new : f.num < g.num /\ \A s \in f.seqs, x \in g.seqs : s < x
  <2>1. ASSUME NEW f \in files[0], NEW g \in old \cup new
        PROVE  f.num < g.num /\ \A s \in f.seqs, x \in g.seqs : s < x
    <3>1. f.num < g.num /\ g.seqs \in {imm, mem}
      BY <1>3, <1>4
    <3>2. ASSUME NEW s \in f.seqs, NEW x \in g.seqs PROVE s < x
      <4>1. x \in mem \cup imm /\ x \in Nat /\ s \in Nat
        BY <1>2, <1>12, <1>13, <3>1
      <4>2. x > s
        BY <1>7, <1>10, <4>1
      <4> QED BY <4>1, <4>2
    <3> QED BY <3>1, <3>2
  <2>2. ASSUME NEW f \in old, NEW g \in new
        PROVE  f.num < g.num /\ \A s \in f.seqs, x \in g.seqs : s < x
    <3>1. f.num < g.num /\ f.seqs = imm /\ g.seqs = mem
      BY <1>3, <1>4
    <3>2. ASSUME NEW s \in imm, NEW x \in mem PROVE s < x
      <4>1. s \in Nat /\ x \in Nat /\ x > s
        BY <1>2
      <4> QED BY <4>1
    <3> QED BY <3>1, <3>2
  <2> QED BY <2>1, <2>2
<1>15. Level0InOrder'
  <2> SUFFICES ASSUME NEW f \in files'[0], NEW g \in files'[0]
               PROVE  \/ f = g
                      \/ f.num < g.num /\ \A s \in f.seqs, x \in g.seqs : s < x
                      \/ g.num < f.num /\ \A s \in f.seqs, x \in g.seqs : x < s
    BY DEF Level0InOrder
  <2>1. CASE f \in files[0] /\ g \in files[0]
    BY <2>1 DEF TablesInv, Level0InOrder
  <2>2. CASE f \in files[0] /\ g \in old \cup new
    BY <1>14, <2>2
  <2>3. CASE f \in old \cup new /\ g \in files[0]
    BY <1>14, <2>3
  <2>4. CASE f \in old \cup new /\ g \in old \cup new
    BY <1>4, <1>14, <2>4
  <2> QED BY <1>8, <2>1, <2>2, <2>3, <2>4
<1>16. LevelsApart'
  BY <1>1, <1>8 DEF TablesInv, LevelsApart
<1>17. NewerUp'
  <2> SUFFICES ASSUME NEW i \in Levels, NEW j \in Levels, i < j,
                      NEW f \in files'[i], NEW g \in files'[j]
               PROVE  Newer(writes, f.seqs, g.seqs)
    BY <1>1 DEF NewerUp
  <2>1. g \in files[j]
    BY <1>7, <1>8
  <2>2. CASE f \in files[i]
    BY <2>1, <2>2 DEF TablesInv, NewerUp
  <2>3. CASE f \in old \cup new
    <3>1. f.seqs \in {imm, mem}
      BY <1>4, <2>3
    <3> QED BY <1>10, <2>1, <3>1 DEF Newer
  <2> QED BY <1>7, <1>8, <2>2, <2>3
<1>18. Content(old) = imm /\ Content(new) = mem
  <2>1. \A n, S : Content(table(n, S)) = S
    <3> SUFFICES ASSUME NEW n, NEW S PROVE Content(table(n, S)) = S
      OBVIOUS
    <3>1. CASE S = {}
      BY <3>1 DEF Content, table
    <3>2. CASE S # {}
      <4> DEFINE f == [num |-> n, seqs |-> S]
      <4>1. table(n, S) = {f} /\ f.seqs = S
        BY <3>2 DEF table
      <4> HIDE DEF f
      <4> QED BY <4>1 DEF Content
    <3> QED BY <3>1, <3>2
  <2> QED BY <2>1 DEF old, new
<1>19. Stored' = Stored
  <2>1. ASSUME NEW l \in Levels
        PROVE  Content(files'[l]) = IF l = 0 THEN Content(files[l]) \cup imm \cup mem
                                    ELSE Content(files[l])
    <3>1. Content(files[0] \cup old \cup new) = Content(files[0]) \cup Content(old) \cup Content(new)
      BY DEF Content
    <3> QED BY <1>8, <1>18, <3>1
  <2>2. Stored' = UNION {Content(files'[l]) : l \in Levels}
    BY <1>1 DEF Stored, Disk, Content
  <2>3. ASSUME NEW t
        PROVE  (\E l \in Levels : t \in Content(files'[l]))
                  <=> (t \in imm \/ t \in mem \/ \E l \in Levels : t \in Content(files[l]))
    BY <1>7, <2>1
  <2> QED BY <2>2, <2>3 DEF Stored, Disk
<1> QED BY <1>1, <1>6, <1>9, <1>11, <1>15, <1>16, <1>17, <1>19 DEF TablesInv

LevelsInv == TablesInv /\ CompactingInv /\ SplitInv /\ manual = <<>>

\* At first there is nothing.
LEMMA StartsWell == ASSUME LevelsAssumption, Init PROVE LevelsInv
<1>1. WritesType
  <2>1. <<>> \in Seq([key : Keys, del : BOOLEAN])
    BY EmptySeq
  <2> QED BY <2>1 DEF Init, WritesType
<1>2. FilesType
  <2>1. files \in [Levels -> SUBSET Tables] /\ \A l \in Levels : files[l] = {}
    BY DEF Init
  <2> QED BY <2>1, FS_EmptySet DEF FilesType
<1>3. \A l \in Levels : files[l] = {}
  BY DEF Init
<1>4. 0 \in Levels
  BY DEF Levels, LevelsAssumption
<1>5. MemoryIsNewest
  BY <1>3 DEF Init, MemoryIsNewest
<1>6. Level0InOrder
  BY <1>3, <1>4 DEF Level0InOrder
<1>7. LevelsApart
  BY <1>3 DEF LevelsApart, PairwiseApart
<1>8. NewerUp
  BY <1>3 DEF NewerUp
<1>9. CompactingInv /\ SplitInv /\ manual = <<>>
  BY DEF Init, CompactingInv, SplitInv
<1> QED BY <1>1, <1>2, <1>5, <1>6, <1>7, <1>8, <1>9 DEF LevelsInv, TablesInv

\* What neither the tables nor the memtables nor a compaction notice.
LEMMA OtherStepsKeep ==
    ASSUME LevelsInv, UNCHANGED <<writes, files, compact, manual>>,
           \/ UNCHANGED <<mem, imm>>
           \/ mem' = {} /\ imm = {} /\ imm' = mem
    PROVE  LevelsInv'
<1>1. WritesType' /\ FilesType' /\ Level0InOrder' /\ LevelsApart' /\ NewerUp'
  BY DEF LevelsInv, TablesInv, WritesType, FilesType, Tables, last, Level0InOrder, LevelsApart,
         NewerUp
<1>2. MemoryIsNewest'
  BY DEF LevelsInv, TablesInv, MemoryIsNewest, last
<1>3. CompactingInv' /\ SplitInv' /\ manual' = <<>>
  BY DEF LevelsInv, SplitInv, CompactingInv, CompactionInv, Replaceable, Tables, last
<1> QED BY <1>1, <1>2, <1>3 DEF LevelsInv, TablesInv

\* Every step keeps the invariant, where nobody calls CompactRange and no snapshot
\* is held, or no output is cut between entries of one key.
LEMMA StepsKeep ==
    ASSUME LevelsAssumption, ManualRanges = {}, SplitKeys => snapshots = {}, LevelsInv, [Next]_vars
    PROVE  LevelsInv'
<1>1. ASSUME NEW k \in Keys, NEW del \in BOOLEAN, Write(k, del) PROVE LevelsInv'
  <2>1. compact' = compact /\ manual' = manual
    BY <1>1 DEF Write
  <2> QED BY <1>1, <2>1, WriteKeeps DEF LevelsInv, SplitInv
<1>2. CASE GetSnapshot
  BY <1>2, OtherStepsKeep DEF GetSnapshot
<1>3. ASSUME NEW s \in snapshots, ReleaseSnapshot(s) PROVE LevelsInv'
  BY <1>3, OtherStepsKeep DEF ReleaseSnapshot
<1>4. CASE SwitchMemTable
  BY <1>4, OtherStepsKeep DEF SwitchMemTable
<1>5. CASE CompactMemTable
  <2>1. manual' = manual /\ compact' = compact
    BY <1>5 DEF CompactMemTable
  <2> QED BY <1>5, <2>1, FlushKeeps DEF LevelsInv, SplitInv
<1>6. CASE StartCompaction
  <2>1. manual' = manual
    BY <1>6 DEF StartCompaction
  <2> QED BY <1>6, <2>1, StartKeeps DEF LevelsInv
<1>7. CASE MoveFile
  <2>1. manual' = manual
    BY <1>7 DEF MoveFile
  <2> QED BY <1>7, <2>1, MoveKeeps DEF LevelsInv, CompactingInv, SplitInv
<1>8. CASE FinishCompaction
  <2>1. manual' = manual
    BY <1>8 DEF FinishCompaction
  <2> QED BY <1>8, <2>1, FinishKeeps DEF LevelsInv, CompactingInv, SplitInv
<1>9. CASE ManualCompaction
  BY <1>9 DEF ManualCompaction, LevelsInv
<1>10. CASE Reopen
  BY <1>10, ReopenKeeps DEF LevelsInv, CompactingInv, SplitInv
<1>11. CASE UNCHANGED vars
  BY <1>11, OtherStepsKeep DEF vars
<1> QED
  BY <1>1, <1>2, <1>3, <1>4, <1>5, <1>6, <1>7, <1>8, <1>9, <1>10, <1>11 DEF Next

\* The tables of the levels are as the invariant says in every reachable state.
LEMMA LevelsHold ==
    ASSUME LevelsAssumption, ManualRanges = {}
    PROVE  Spec /\ [](SplitKeys => snapshots = {}) => []LevelsInv
<1>1. Init => LevelsInv
  BY StartsWell
<1>2. LevelsInv /\ (SplitKeys => snapshots = {}) /\ [Next]_vars => LevelsInv'
  BY StepsKeep
<1> QED BY <1>1, <1>2, PTL DEF Spec

-----------------------------------------------------------------------------
(* Theorems.                                                               *)

\* Below level 0 no two files of a level share a key (the assertions of
\* Builder::SaveTo and MaybeAddFile), as long as nobody calls CompactRange and no
\* snapshot is held, or no output of a compaction ends between two entries of one
\* key.  The database client takes no snapshot and never calls CompactRange.
THEOREM NoSharedKeys ==
    ASSUME LevelsAssumption, ManualRanges = {}
    PROVE  Spec /\ [](SplitKeys => snapshots = {}) => []LevelsDisjoint
<1>1. LevelsInv => LevelsDisjoint
  <2> SUFFICES ASSUME LevelsInv, NEW level \in Levels \ {0},
                      NEW f \in files[level], NEW g \in files[level], f # g
               PROVE  Precedes(Largest(f), Smallest(g)) \/ Precedes(Largest(g), Smallest(f))
    BY DEF LevelsDisjoint
  <2>1. WritesType /\ f \in Tables /\ g \in Tables /\ Apart(writes, f.seqs, g.seqs)
    BY DEF LevelsInv, TablesInv, FilesType, LevelsApart, PairwiseApart
  <2>2. /\ Smallest(f) \in f.seqs /\ Largest(f) \in f.seqs
        /\ Smallest(g) \in g.seqs /\ Largest(g) \in g.seqs
    BY <2>1, BoundsAre
  <2>3. \/ writes[Largest(f)].key < writes[Smallest(g)].key
        \/ writes[Largest(g)].key < writes[Smallest(f)].key
    BY <2>1, <2>2 DEF Apart, Below
  <2> QED BY <2>3 DEF Precedes, Key
<1>2. Spec /\ [](SplitKeys => snapshots = {}) => []LevelsInv
  BY LevelsHold
<1> QED BY <1>1, <1>2, PTL

\* A function on 1 .. n is a sequence of length n.
LEMMA LengthIs ==
    ASSUME NEW S, NEW n \in Nat, NEW u \in [1 .. n -> S]
    PROVE  u \in Seq(S) /\ Len(u) = n
<1>1. u \in Seq(S)
  BY SeqDef
<1>2. Len(u) \in Nat /\ DOMAIN u = 1 .. Len(u)
  BY <1>1, LenProperties
<1> QED BY <1>1, <1>2

\* Where the parts of a sequence are that is made of three.
LEMMA ThreeParts ==
    ASSUME NEW S, NEW p \in Seq(S), NEW u \in Seq(S), NEW v \in Seq(S)
    PROVE  /\ DOMAIN (p \o u \o v) = 1 .. Len(p) + Len(u) + Len(v)
           /\ \A i \in 1 .. Len(p) + Len(u) + Len(v) :
                 (p \o u \o v)[i] = IF i <= Len(p) THEN p[i]
                                    ELSE IF i <= Len(p) + Len(u) THEN u[i - Len(p)]
                                    ELSE v[i - (Len(p) + Len(u))]
<1> DEFINE w == p \o u
           q == w \o v
<1>0. w \in Seq(S)
  BY ConcatProperties
<1>1. /\ Len(w) = Len(p) + Len(u)
      /\ \A i \in 1 .. Len(p) + Len(u) : w[i] = IF i <= Len(p) THEN p[i] ELSE u[i - Len(p)]
  BY ConcatProperties
<1>2. Len(p) \in Nat /\ Len(u) \in Nat /\ Len(v) \in Nat
  BY LenProperties
<1> HIDE DEF w
<1>3. /\ q \in Seq(S) /\ Len(q) = Len(w) + Len(v)
      /\ \A i \in 1 .. Len(w) + Len(v) : q[i] = IF i <= Len(w) THEN w[i] ELSE v[i - Len(w)]
  BY <1>0, ConcatProperties
<1> HIDE DEF q
<1>4. DOMAIN q = 1 .. Len(p) + Len(u) + Len(v)
  <2>1. DOMAIN q = 1 .. Len(q)
    BY <1>3, LenProperties
  <2> QED BY <1>1, <1>3, <2>1
<1>5. ASSUME NEW i \in 1 .. Len(p) + Len(u) + Len(v)
      PROVE  q[i] = IF i <= Len(p) THEN p[i]
                    ELSE IF i <= Len(p) + Len(u) THEN u[i - Len(p)]
                    ELSE v[i - (Len(p) + Len(u))]
  <2>1. q[i] = IF i <= Len(p) + Len(u) THEN w[i] ELSE v[i - (Len(p) + Len(u))]
    BY <1>1, <1>3
  <2>2. CASE i <= Len(p) + Len(u)
    <3>1. i \in 1 .. Len(p) + Len(u)
      BY <1>2, <2>2
    <3> QED BY <1>1, <2>1, <2>2, <3>1
  <2>3. CASE ~(i <= Len(p) + Len(u))
    <3>1. ~(i <= Len(p))
      BY <1>2, <2>3
    <3> QED BY <2>1, <2>3, <3>1
  <2> QED BY <2>2, <2>3
<1> QED BY <1>4, <1>5 DEF q, w

NewestFirst(fs) ==
    [i \in 1 .. Cardinality(fs) |->
        CHOOSE x \in fs : Cardinality({y \in fs : y.num > x.num}) = i - 1]

Younger(fs) == {p \in fs \X fs : p[1].num > p[2].num}

\* The tables of level 0, the newest first (Version::Get sorts them so).
LEMMA Level0Listed ==
    ASSUME LevelsAssumption, TablesInv,
           NEW q, q = NewestFirst(files[0])
    PROVE  \E n \in Nat : /\ q \in [1 .. n -> files[0]]
                          /\ \A i, j \in 1 .. n : i < j => q[i].num > q[j].num
                          /\ \A f \in files[0] : \E i \in 1 .. n : q[i] = f
<1> DEFINE F == files[0]
           R == Younger(F)
           n == Cardinality(F)
<1>0. 0 \in Levels
  BY DEF Levels, LevelsAssumption
<1>1. F \in SUBSET Tables /\ IsFiniteSet(F)
  BY <1>0 DEF TablesInv, FilesType
<1>2. \A f, g \in F : f = g \/ f.num < g.num \/ g.num < f.num
  BY DEF TablesInv, Level0InOrder
<1>3. \A f \in F : f.num \in Nat
  BY <1>1 DEF Tables
<1>4. q = [i \in 1 .. n |-> CHOOSE x \in F : Cardinality({y \in F : y.num > x.num}) = i - 1]
  BY DEF NewestFirst
<1> HIDE DEF F
<1>5. \A f, g \in F : <<f, g>> \in R <=> f.num > g.num
  BY DEF Younger
<1> HIDE DEF R
<1>6. StrictOrder(R, F)
  BY <1>2, <1>3, <1>5 DEF StrictOrder
<1>7. q = [i \in 1 .. n |-> CHOOSE x \in F : Rank(R, F, x) = i - 1]
  <2>1. ASSUME NEW x \in F PROVE Rank(R, F, x) = Cardinality({y \in F : y.num > x.num})
    <3>1. {y \in F : <<y, x>> \in R} = {y \in F : y.num > x.num}
      BY <1>5
    <3> QED BY <3>1 DEF Rank
  <2>2. ASSUME NEW i \in 1 .. n
        PROVE  (CHOOSE x \in F : Cardinality({y \in F : y.num > x.num}) = i - 1)
                  = CHOOSE x \in F : Rank(R, F, x) = i - 1
    BY <2>1
  <2> QED BY <1>4, <2>2
<1>8. /\ n \in Nat /\ q \in [1 .. n -> F]
      /\ \A i, j \in 1 .. n : i < j => <<q[i], q[j]>> \in R
      /\ \A x \in F : \E i \in 1 .. n : q[i] = x
  BY <1>1, <1>6, <1>7, Listed
<1> HIDE DEF n
<1>9. \A i, j \in 1 .. n : i < j => q[i].num > q[j].num
  <2> SUFFICES ASSUME NEW i \in 1 .. n, NEW j \in 1 .. n, i < j PROVE q[i].num > q[j].num
    OBVIOUS
  <2>1. q[i] \in F /\ q[j] \in F /\ <<q[i], q[j]>> \in R
    BY <1>8
  <2> QED BY <1>5, <2>1
<1> QED BY <1>8, <1>9 DEF F

\* What a level holds of a key is newer than what the levels below it hold, and
\* the memtables hold what is newer still (Version::Get, version_set.cc:346-348),
\* under the same conditions.
THEOREM EntriesNeverHop ==
    ASSUME LevelsAssumption, ManualRanges = {}
    PROVE  Spec /\ [](SplitKeys => snapshots = {}) => []NewerAbove
<1>1. ASSUME LevelsInv PROVE NewerAbove
  <2> DEFINE level0 == InOrder(files[0], LAMBDA f, g : f.num > g.num)
             m == NumLevels - 1
             deep == [level \in 1 .. NumLevels - 1 |-> UNION {f.seqs : f \in files[level]}]
             flat == [i \in DOMAIN level0 |-> level0[i].seqs]
             tiers == <<mem, imm>> \o flat \o deep
             All == SUBSET Nat
  <2>0. level0 = NewestFirst(files[0])
    BY DEF InOrder, NewestFirst
  <2>1. PICK n \in Nat : /\ level0 \in [1 .. n -> files[0]]
                         /\ \A i, j \in 1 .. n : i < j => level0[i].num > level0[j].num
    BY <1>1, <2>0, Level0Listed DEF LevelsInv
  <2>2. NewerAbove <=> \A i, j \in DOMAIN tiers : i < j =>
                          \A s \in tiers[i], t \in tiers[j] : Key(s) = Key(t) => s > t
    BY DEF NewerAbove
  <2> HIDE DEF level0
  <2>3. /\ 0 \in Levels /\ m \in Nat
        /\ \A level \in 1 .. NumLevels - 1 : level \in Levels /\ 0 < level
    BY DEF Levels, LevelsAssumption
  <2>4. \A level \in Levels : \A f \in files[level] : f \in Tables /\ f.seqs \subseteq 1 .. last
    BY <1>1 DEF LevelsInv, TablesInv, FilesType, Tables
  <2>5. mem \subseteq 1 .. last /\ imm \subseteq 1 .. last
    BY <1>1 DEF LevelsInv, TablesInv, MemoryIsNewest
  <2>6. flat \in [1 .. n -> All] /\ \A i \in 1 .. n : flat[i] = level0[i].seqs /\ level0[i] \in files[0]
    <3>1. \A i \in 1 .. n : level0[i] \in files[0]
      BY <2>1
    <3>2. \A i \in 1 .. n : level0[i].seqs \subseteq Nat
      BY <2>3, <2>4, <3>1
    <3>3. DOMAIN level0 = 1 .. n
      BY <2>1
    <3> QED BY <3>1, <3>2, <3>3
  <2>7. deep \in [1 .. m -> All] /\ \A l \in 1 .. m : deep[l] = Content(files[l])
    <3>1. \A l \in 1 .. NumLevels - 1 : Content(files[l]) \subseteq Nat
      BY <2>3, <2>4 DEF Content
    <3>2. \A l \in 1 .. NumLevels - 1 : UNION {f.seqs : f \in files[l]} = Content(files[l])
      BY DEF Content
    <3> QED BY <3>1, <3>2
  <2>8. mem \in All /\ imm \in All
    BY <2>5
  <2> HIDE DEF flat, deep, m, All
  <2>9. /\ DOMAIN tiers = 1 .. n + m + 2
        /\ \A i \in 1 .. n + m + 2 :
              tiers[i] = IF i = 1 THEN mem ELSE IF i = 2 THEN imm
                         ELSE IF i <= n + 2 THEN flat[i - 2] ELSE deep[i - (n + 2)]
    <3> DEFINE pair == <<mem, imm>>
    <3>1. tiers = pair \o flat \o deep
      OBVIOUS
    <3>2. Len(pair) = 2 /\ pair[1] = mem /\ pair[2] = imm
      OBVIOUS
    <3>typed. pair \in Seq(All)
      BY <2>8
    <3> HIDE DEF tiers, pair
    <3>3. flat \in Seq(All) /\ deep \in Seq(All)
      BY <2>3, <2>6, <2>7, SeqDef
    <3>4. Len(flat) = n /\ Len(deep) = m
      BY <2>3, <2>6, <2>7, LengthIs
    <3>5. /\ DOMAIN (pair \o flat \o deep) = 1 .. Len(pair) + Len(flat) + Len(deep)
          /\ \A i \in 1 .. Len(pair) + Len(flat) + Len(deep) :
                (pair \o flat \o deep)[i] = IF i <= Len(pair) THEN pair[i]
                      ELSE IF i <= Len(pair) + Len(flat) THEN flat[i - Len(pair)]
                      ELSE deep[i - (Len(pair) + Len(flat))]
      BY <3>typed, <3>3, ThreeParts
    <3>6. 2 + n + m = n + m + 2 /\ 2 + n = n + 2
      BY <2>3
    <3>7. /\ DOMAIN tiers = 1 .. n + m + 2
          /\ \A i \in 1 .. n + m + 2 :
                tiers[i] = IF i <= 2 THEN pair[i]
                           ELSE IF i <= n + 2 THEN flat[i - 2] ELSE deep[i - (n + 2)]
      BY <3>1, <3>2, <3>4, <3>5, <3>6
    <3>8. \A i \in 1 .. n + m + 2 : i <= 2 <=> i = 1 \/ i = 2
      BY <2>3
    <3> QED BY <3>2, <3>7, <3>8
  <2> HIDE DEF tiers
  <2>10. ASSUME NEW i \in 1 .. n + m + 2, i > 2, NEW t \in tiers[i]
         PROVE  \/ i <= n + 2 /\ i - 2 \in 1 .. n /\ t \in level0[i - 2].seqs
                \/ i > n + 2 /\ i - (n + 2) \in 1 .. m
                   /\ \E f \in files[i - (n + 2)] : t \in f.seqs
    <3>1. CASE i <= n + 2
      <4>1. i - 2 \in 1 .. n /\ i # 1 /\ i # 2
        BY <2>10, <3>1
      <4> QED BY <2>6, <2>9, <2>10, <3>1, <4>1
    <3>2. CASE ~(i <= n + 2)
      <4>1. i - (n + 2) \in 1 .. m /\ i # 1 /\ i # 2 /\ i > n + 2
        BY <2>3, <2>10, <3>2
      <4>2. t \in Content(files[i - (n + 2)])
        BY <2>7, <2>9, <2>10, <3>2, <4>1
      <4> QED BY <4>1, <4>2 DEF Content
    <3> QED BY <3>1, <3>2
  <2>11. \A l \in 1 .. m : l \in Levels /\ 0 < l /\ l \in Nat
    BY <2>3 DEF m
  <2>12. ASSUME NEW i \in 1 .. n + m + 2, i > 2, NEW t \in tiers[i]
         PROVE  \E l \in Levels : \E f \in files[l] : t \in f.seqs
    BY <2>3, <2>6, <2>10, <2>11, <2>12
  <2>13. ASSUME NEW i \in 1 .. n + m + 2, NEW j \in 1 .. n + m + 2, i < j,
                NEW s \in tiers[i], NEW t \in tiers[j], Key(s) = Key(t)
         PROVE  s > t
    <3>1. CASE i \in {1, 2}
      <4>1. s \in mem \cup imm
        BY <2>9, <2>13, <3>1
      <4>2. CASE j = 2
        <5>1. i = 1 /\ s \in mem /\ t \in imm
          BY <2>9, <2>13, <3>1, <4>2
        <5> QED BY <1>1, <5>1 DEF LevelsInv, TablesInv, MemoryIsNewest
      <4>3. CASE j > 2
        <5>1. \E l \in Levels : \E f \in files[l] : t \in f.seqs
          BY <2>12, <2>13, <4>3
        <5> QED BY <1>1, <4>1, <5>1 DEF LevelsInv, TablesInv, MemoryIsNewest
      <4>4. j = 2 \/ j > 2
        BY <2>13, <3>1
      <4> QED BY <4>2, <4>3, <4>4
    <3>2. CASE i > 2
      <4>0. j > 2 /\ i \in Nat /\ j \in Nat
        BY <2>13, <3>2
      <4>1. CASE j <= n + 2
        <5> DEFINE f == level0[i - 2]
                   g == level0[j - 2]
        <5>1. /\ i - 2 \in 1 .. n /\ j - 2 \in 1 .. n /\ i - 2 < j - 2
              /\ s \in f.seqs /\ t \in g.seqs
          BY <2>10, <2>13, <3>2, <4>0, <4>1
        <5>2. f \in files[0] /\ g \in files[0] /\ f.num > g.num
          BY <2>1, <2>6, <5>1
        <5>3. f.num \in Nat /\ g.num \in Nat /\ s \in Nat /\ t \in Nat
          BY <2>3, <2>4, <5>1, <5>2 DEF Tables
        <5> HIDE DEF f, g
        <5>4. \A x \in g.seqs, y \in f.seqs : x < y
          BY <1>1, <5>2, <5>3 DEF LevelsInv, TablesInv, Level0InOrder
        <5> QED BY <5>1, <5>3, <5>4
      <4>2. CASE ~(j <= n + 2)
        <5> DEFINE y == j - (n + 2)
        <5>1. y \in 1 .. m /\ \E g \in files[y] : t \in g.seqs
          BY <2>10, <2>13, <4>0, <4>2
        <5>2. PICK g \in files[y] : t \in g.seqs
          BY <5>1
        <5>3. \E l \in Levels : l < y /\ \E f \in files[l] : s \in f.seqs
          <6>1. CASE i <= n + 2
            BY <2>3, <2>6, <2>10, <2>11, <2>13, <3>2, <5>1, <6>1
          <6>2. CASE ~(i <= n + 2)
            <7>1. i - (n + 2) \in 1 .. m /\ \E f \in files[i - (n + 2)] : s \in f.seqs
              BY <2>10, <2>13, <3>2, <6>2
            <7>2. i - (n + 2) < y
              BY <2>13, <4>0
            <7> QED BY <2>11, <7>1, <7>2
          <6> QED BY <6>1, <6>2
        <5>4. y \in Levels
          BY <2>11, <5>1
        <5> HIDE DEF y
        <5>5. Newer(writes, {s}, {t})
          BY <1>1, <5>2, <5>3, <5>4 DEF LevelsInv, TablesInv, NewerUp, Newer
        <5> QED BY <2>13, <5>5 DEF Newer, Key
      <4> QED BY <4>1, <4>2
    <3>3. i \in {1, 2} \/ i > 2
      BY <2>13
    <3> QED BY <3>1, <3>2, <3>3
  <2> QED BY <2>2, <2>9, <2>13
<1>2. Spec /\ [](SplitKeys => snapshots = {}) => []LevelsInv
  BY LevelsHold
<1> QED BY <1>1, <1>2, PTL

-----------------------------------------------------------------------------
(* Reads.                                                                  *)

\* m is the newest entry of S that a read of k at s may see, or 0.
IsNewest(S, k, s, m) ==
    \/ m = 0 /\ \A t \in S : ~(t <= s /\ Key(t) = k)
    \/ m \in S /\ m <= s /\ Key(m) = k /\ \A t \in S : t <= s /\ Key(t) = k => t <= m

\* There is exactly one.
LEMMA NewestIs ==
    ASSUME LevelsAssumption, WritesType, NEW S \in SUBSET (1 .. last), NEW k, NEW s
    PROVE  /\ IsNewest(S, k, s, Newest(S, k, s))
           /\ \A m : IsNewest(S, k, s, m) => m = Newest(S, k, s)
<1> DEFINE T == {t \in S : t <= s /\ Key(t) = k}
           n == Newest(S, k, s)
<1>1. IsFiniteSet(S)
  BY PrecedesOrder
<1>2. T \in SUBSET S /\ S \in SUBSET Nat
  BY EntryTypes
<1>3. \A t \in S : t \in Nat /\ t # 0
  BY EntryTypes
<1>4. \A t : t \in T <=> t \in S /\ t <= s /\ Key(t) = k
  OBVIOUS
<1>5. n = Max({0} \cup T)
  BY DEF Newest
<1> HIDE DEF T
<1>6. {0} \cup T = T \cup {0} /\ IsFiniteSet(T \cup {0}) /\ T \cup {0} \in SUBSET Nat
      /\ T \cup {0} # {}
  <2>1. IsFiniteSet(T)
    BY <1>1, <1>2, FS_Subset
  <2>2. IsFiniteSet(T \cup {0})
    BY <2>1, FS_AddElement
  <2> QED BY <1>2, <2>2
<1>7. Max(T \cup {0}) \in T \cup {0} /\ \A y \in T \cup {0} : Max(T \cup {0}) >= y
  BY <1>6, MaxIs
<1>8. n \in T \cup {0} /\ \A y \in T \cup {0} : n >= y
  BY <1>5, <1>6, <1>7
<1> HIDE DEF n
<1>9. \A y \in T : y \in Nat /\ y # 0
  BY <1>2, <1>3
<1>10. IsNewest(S, k, s, n)
  <2>1. CASE n = 0
    <3>1. \A y \in T : FALSE
      BY <1>8, <1>9, <2>1
    <3> QED BY <1>4, <2>1, <3>1 DEF IsNewest
  <2>2. CASE n \in T
    <3>1. \A y \in T : y <= n
      BY <1>8, <1>9, <2>2
    <3> QED BY <1>4, <2>2, <3>1 DEF IsNewest
  <2> QED BY <1>8, <2>1, <2>2
<1>11. ASSUME NEW m, IsNewest(S, k, s, m) PROVE m = n
  <2>1. CASE m = 0 /\ \A t \in S : ~(t <= s /\ Key(t) = k)
    BY <1>4, <1>8, <2>1
  <2>2. CASE m \in S /\ m <= s /\ Key(m) = k /\ \A t \in S : t <= s /\ Key(t) = k => t <= m
    <3>1. m \in T /\ \A t \in T : t <= m
      BY <1>4, <2>2
    <3>2. n >= m /\ m \in Nat /\ m # 0
      BY <1>8, <1>9, <3>1
    <3>3. n \in Nat /\ n <= m
      BY <1>8, <1>9, <3>1, <3>2
    <3> QED BY <3>2, <3>3
  <2> QED BY <1>11, <2>1, <2>2 DEF IsNewest
<1> QED BY <1>10, <1>11 DEF n

\* Among tables that are apart, FindFile finds the one with an entry of k that s
\* may see.
LEMMA FirstFile ==
    ASSUME LevelsAssumption, WritesType, NEW fs \in SUBSET Tables, PairwiseApart(writes, fs),
           NEW g \in fs, NEW t \in g.seqs, NEW k, Key(t) = k, NEW s \in Nat, t <= s
    PROVE  FindFile(fs, k, s) = {g} /\ Key(Smallest(g)) <= k
<1> DEFINE ends == {f \in fs : LET x == Largest(f) IN Key(x) > k \/ (Key(x) = k /\ x <= s)}
<1>1. \A f \in fs : f.seqs \subseteq 1 .. last /\ Smallest(f) \in f.seqs /\ Largest(f) \in f.seqs
  BY BoundsAre DEF Tables
<1>2. /\ t = Largest(g) \/ Precedes(t, Largest(g))
      /\ t = Smallest(g) \/ Precedes(Smallest(g), t)
  BY BoundsAre
<1>3. \A x \in 1 .. last : Key(x) \in Nat /\ Key(x) = writes[x].key /\ x \in Nat
  BY EntryTypes
<1>4. /\ k \in Nat /\ t \in Nat /\ Key(Largest(g)) \in Nat /\ Largest(g) \in Nat
      /\ Key(Smallest(g)) \in Nat
  BY <1>1, <1>3
<1>5. Key(Smallest(g)) <= k
  BY <1>2, <1>4 DEF Precedes
<1>6. g \in ends
  <2>1. Key(Largest(g)) > k \/ (Key(Largest(g)) = k /\ Largest(g) <= s)
    BY <1>2, <1>4 DEF Precedes
  <2> QED BY <2>1
<1>7. ASSUME NEW f \in ends, f # g
      PROVE  Key(Smallest(g)) < Key(Smallest(f)) /\ Key(Smallest(f)) \in Nat
  <2>1. f \in fs /\ (Key(Largest(f)) > k \/ Key(Largest(f)) = k)
    OBVIOUS
  <2> HIDE DEF ends
  <2>2. Key(Largest(f)) \in Nat /\ Key(Smallest(f)) \in Nat
    BY <1>1, <1>3, <2>1
  <2>3. Below(writes, f.seqs, g.seqs) \/ Below(writes, g.seqs, f.seqs)
    BY <1>7, <2>1 DEF PairwiseApart, Apart
  <2>4. CASE Below(writes, f.seqs, g.seqs)
    <3>1. Key(Largest(f)) < Key(t)
      BY <1>1, <1>3, <2>1, <2>4 DEF Below
    <3> QED BY <1>4, <2>1, <2>2, <3>1
  <2>5. CASE Below(writes, g.seqs, f.seqs)
    <3>1. Key(Smallest(g)) < Key(Smallest(f))
      BY <1>1, <1>3, <2>1, <2>5 DEF Below
    <3> QED BY <2>2, <3>1
  <2> QED BY <2>3, <2>4, <2>5
<1>8. FindFile(fs, k, s) = {f \in ends : \A h \in ends \ {f} : Before(f, h)}
  BY DEF FindFile
<1> HIDE DEF ends
<1>9. \A h \in ends \ {g} : Before(g, h)
  BY <1>7 DEF Before, Precedes
<1>10. ASSUME NEW f \in ends, f # g PROVE ~Before(f, g)
  <2>1. Key(Smallest(g)) < Key(Smallest(f)) /\ Key(Smallest(f)) \in Nat
    BY <1>7, <1>10
  <2>2. ~Precedes(Smallest(f), Smallest(g)) /\ Smallest(f) # Smallest(g)
    BY <1>4, <2>1 DEF Precedes
  <2> QED BY <2>2 DEF Before
<1> QED BY <1>5, <1>6, <1>8, <1>9, <1>10

\* What a level answers is the newest of what all its tables hold.
LEMMA FromLevelIs ==
    ASSUME LevelsAssumption, TablesInv, NEW level \in Levels, NEW k, NEW s \in Nat
    PROVE  FromLevel(level, k, s) = Newest(Content(files[level]), k, s)
<1> DEFINE F == files[level]
           has(f) == Newest(f.seqs, k, s) # 0
           hits == IF level = 0 THEN {f \in files[0] : has(f)}
                   ELSE {f \in FindFile(files[level], k, s) : Key(Smallest(f)) <= k /\ has(f)}
           best == CHOOSE f \in hits : \A g \in hits : g.num <= f.num
<1>1. FromLevel(level, k, s) = IF hits = {} THEN 0 ELSE Newest(best.seqs, k, s)
  BY DEF FromLevel
<1>2. WritesType /\ F \in SUBSET Tables /\ IsFiniteSet(F)
  BY DEF TablesInv, FilesType
<1>3. \A f \in F : f.seqs \in SUBSET (1 .. last) /\ f.num \in Nat /\ f.seqs \subseteq Content(F)
  BY <1>2 DEF Tables, Content
<1>4. Content(F) \in SUBSET (1 .. last)
  BY <1>3 DEF Content
<1>5. \A f \in F : IsNewest(f.seqs, k, s, Newest(f.seqs, k, s))
  BY <1>2, <1>3, NewestIs
<1>6. \A f \in F : has(f) <=> \E t \in f.seqs : t <= s /\ Key(t) = k
  <2> SUFFICES ASSUME NEW f \in F PROVE has(f) <=> \E t \in f.seqs : t <= s /\ Key(t) = k
    OBVIOUS
  <2>1. 0 \notin f.seqs
    BY <1>3
  <2> QED BY <1>5, <2>1 DEF IsNewest
<1>7. \A m : IsNewest(Content(F), k, s, m) => m = Newest(Content(F), k, s)
  BY <1>2, <1>4, NewestIs
<1> HIDE DEF has
<1>8. CASE \A f \in F : ~has(f)
  <2>1. hits = {}
    <3>1. FindFile(F, k, s) \subseteq F
      BY DEF FindFile
    <3> QED BY <1>8, <3>1
  <2>2. IsNewest(Content(F), k, s, 0)
    BY <1>6, <1>8 DEF IsNewest, Content
  <2> QED BY <1>1, <1>7, <2>1, <2>2
<1>9. ASSUME NEW f \in F, has(f), hits # {}, best \in F, has(best),
             \A g \in F : has(g) => g = best \/ \A x \in g.seqs, y \in best.seqs : x < y
      PROVE  FromLevel(level, k, s) = Newest(Content(F), k, s)
  <2> DEFINE m == Newest(best.seqs, k, s)
  <2> HIDE DEF best, hits
  <2>1. IsNewest(best.seqs, k, s, m) /\ m # 0
    BY <1>5, <1>9 DEF has
  <2> HIDE DEF m
  <2>2. m \in best.seqs /\ m <= s /\ Key(m) = k
        /\ \A t \in best.seqs : t <= s /\ Key(t) = k => t <= m
    BY <2>1 DEF IsNewest
  <2>3. ASSUME NEW t \in Content(F), t <= s, Key(t) = k PROVE t <= m
    <3>1. PICK g \in F : t \in g.seqs
      BY DEF Content
    <3>2. has(g)
      BY <1>6, <2>3, <3>1
    <3>3. CASE g = best
      BY <2>2, <2>3, <3>1, <3>3
    <3>4. CASE \A x \in g.seqs, y \in best.seqs : x < y
      <4>1. t < m /\ t \in Nat /\ m \in Nat
        BY <1>3, <1>9, <2>2, <3>1, <3>4
      <4> QED BY <4>1
    <3> QED BY <1>9, <3>2, <3>3, <3>4
  <2>4. IsNewest(Content(F), k, s, m)
    BY <1>3, <1>9, <2>2, <2>3 DEF IsNewest
  <2> QED BY <1>1, <1>7, <1>9, <2>4 DEF m
<1>10. CASE level = 0 /\ \E f \in F : has(f)
  <2>1. hits = {f \in F : has(f)}
    BY <1>10
  <2> HIDE DEF hits
  <2> DEFINE N == {f.num : f \in hits}
  <2>2. IsFiniteSet(N) /\ N \in SUBSET Nat /\ N # {}
    <3>1. hits \in SUBSET F
      BY <2>1
    <3>2. IsFiniteSet(hits)
      BY <1>2, <3>1, FS_Subset
    <3> DEFINE g == [f \in hits |-> f.num]
    <3>3. g \in Surjection(hits, N)
      BY DEF Surjection
    <3>4. N \in SUBSET Nat /\ N # {}
      BY <1>3, <1>10, <2>1
    <3> HIDE DEF g, N
    <3> QED BY <3>2, <3>3, <3>4, FS_Surjection
  <2>3. \E x \in N : \A y \in N : x >= y
    <3> HIDE DEF N
    <3> QED BY <2>2, LargestElement
  <2>4. \E f \in hits : \A g \in hits : g.num <= f.num
    <3>1. PICK f \in hits : \A g \in hits : f.num >= g.num
      BY <2>3
    <3>2. \A g \in hits : g.num \in Nat
      BY <1>3, <2>1
    <3> QED BY <3>1, <3>2
  <2>5. best \in hits /\ \A g \in hits : g.num <= best.num
    BY <2>4
  <2> HIDE DEF best
  <2>6. ASSUME NEW g \in F, has(g), g # best PROVE \A x \in g.seqs, y \in best.seqs : x < y
    <3>1. g \in hits /\ best \in F
      BY <2>1, <2>5, <2>6
    <3>2. ~(best.num < g.num)
      BY <1>3, <2>5, <3>1
    <3> QED BY <1>10, <2>6, <3>1, <3>2 DEF TablesInv, Level0InOrder
  <2> QED BY <1>9, <1>10, <2>1, <2>5, <2>6
<1>11. CASE level # 0 /\ \E f \in F : has(f)
  <2>1. PICK g \in F : has(g)
    BY <1>11
  <2>2. PairwiseApart(writes, F)
    BY <1>11 DEF TablesInv, LevelsApart
  <2>3. ASSUME NEW f \in F, has(f) PROVE FindFile(F, k, s) = {f} /\ Key(Smallest(f)) <= k
    <3>1. PICK t \in f.seqs : t <= s /\ Key(t) = k
      BY <1>6, <2>3
    <3> QED BY <1>2, <2>2, <3>1, FirstFile
  <2>4. FindFile(F, k, s) = {g} /\ Key(Smallest(g)) <= k
    BY <2>1, <2>3
  <2>5. hits = {g}
    BY <1>11, <2>1, <2>4
  <2>6. \A f \in F : has(f) => f = g
    <3> SUFFICES ASSUME NEW f \in F, has(f) PROVE f = g
      OBVIOUS
    <3>1. FindFile(F, k, s) = {f}
      BY <2>3
    <3> QED BY <2>4, <3>1
  <2>7. best = g
    <3>1. g.num <= g.num
      BY <1>3
    <3> HIDE DEF hits
    <3> QED BY <2>5, <3>1
  <2> HIDE DEF best, hits
  <2> QED BY <1>9, <2>1, <2>5, <2>6, <2>7
<1> QED BY <1>8, <1>10, <1>11

\* What is stored are writes.
LEMMA StoredType ==
    ASSUME LevelsAssumption, TablesInv
    PROVE  /\ mem \in SUBSET (1 .. last) /\ imm \in SUBSET (1 .. last)
           /\ Disk \in SUBSET (1 .. last) /\ Stored \in SUBSET (1 .. last)
           /\ \A l \in Levels : Content(files[l]) \in SUBSET (1 .. last)
<1>1. mem \in SUBSET (1 .. last) /\ imm \in SUBSET (1 .. last)
  BY DEF TablesInv, MemoryIsNewest
<1>2. \A l \in Levels : Content(files[l]) \in SUBSET (1 .. last)
  BY DEF TablesInv, FilesType, Tables, Content
<1>3. Disk \in SUBSET (1 .. last)
  BY <1>2 DEF Disk
<1> QED BY <1>1, <1>2, <1>3 DEF Stored

\* Of two sets, one newer than the other, the newer is asked first.
LEMMA NewerFirst ==
    ASSUME LevelsAssumption, WritesType, NEW S \in SUBSET (1 .. last), NEW T \in SUBSET (1 .. last),
           Newer(writes, S, T), NEW k, NEW s
    PROVE  Newest(S \cup T, k, s)
              = IF Newest(S, k, s) # 0 THEN Newest(S, k, s) ELSE Newest(T, k, s)
<1> DEFINE a == Newest(S, k, s)
           b == Newest(T, k, s)
<1>1. IsNewest(S, k, s, a) /\ IsNewest(T, k, s, b)
  BY NewestIs
<1>2. S \cup T \in SUBSET (1 .. last)
  OBVIOUS
<1>3. \A m : IsNewest(S \cup T, k, s, m) => m = Newest(S \cup T, k, s)
  BY <1>2, NewestIs
<1> HIDE DEF a, b
<1>4. ASSUME NEW x \in S \cup T PROVE x \in Nat /\ x # 0 /\ Key(x) = writes[x].key
  <2>1. x \in 1 .. last
    OBVIOUS
  <2> QED BY <2>1, EntryTypes
<1>5. CASE a # 0
  <2>1. a \in S /\ a <= s /\ Key(a) = k /\ \A t \in S : t <= s /\ Key(t) = k => t <= a
    BY <1>1, <1>5 DEF IsNewest
  <2>2. ASSUME NEW t \in T, Key(t) = k PROVE t <= a
    <3>1. a > t /\ a \in Nat /\ t \in Nat
      BY <1>4, <2>1, <2>2 DEF Newer
    <3> QED BY <3>1
  <2>3. IsNewest(S \cup T, k, s, a)
    BY <2>1, <2>2 DEF IsNewest
  <2> QED BY <1>3, <1>5, <2>3 DEF a
<1>6. CASE a = 0
  <2>1. \A t \in S : ~(t <= s /\ Key(t) = k)
    BY <1>1, <1>4, <1>6 DEF IsNewest
  <2>2. IsNewest(S \cup T, k, s, b)
    BY <1>1, <2>1 DEF IsNewest
  <2> QED BY <1>3, <1>6, <2>2 DEF a, b
<1> QED BY <1>5, <1>6

\* A read finds the newest stored entry it may see (DBImpl::Get, Version::Get).
LEMMA GetIs ==
    ASSUME LevelsAssumption, TablesInv, NEW k, NEW s \in Nat
    PROVE  Get(k, s) = Answer(Newest(Stored, k, s))
<1> DEFINE has == {level \in Levels : FromLevel(level, k, s) # 0}
           deep == IF has = {} THEN 0 ELSE FromLevel(Min(has), k, s)
<1>0. WritesType
  BY DEF TablesInv
<1>1. /\ mem \in SUBSET (1 .. last) /\ imm \in SUBSET (1 .. last)
      /\ Disk \in SUBSET (1 .. last)
      /\ \A l \in Levels : Content(files[l]) \in SUBSET (1 .. last)
  BY StoredType
<1>2. Get(k, s) = Answer(IF Newest(mem, k, s) # 0 THEN Newest(mem, k, s)
                         ELSE IF Newest(imm, k, s) # 0 THEN Newest(imm, k, s) ELSE deep)
  BY DEF Get
<1>3. \A l \in Levels : /\ FromLevel(l, k, s) = Newest(Content(files[l]), k, s)
                        /\ IsNewest(Content(files[l]), k, s, FromLevel(l, k, s))
  <2> SUFFICES ASSUME NEW l \in Levels
               PROVE  /\ FromLevel(l, k, s) = Newest(Content(files[l]), k, s)
                      /\ IsNewest(Content(files[l]), k, s, FromLevel(l, k, s))
    OBVIOUS
  <2>1. FromLevel(l, k, s) = Newest(Content(files[l]), k, s)
    BY FromLevelIs
  <2>2. IsNewest(Content(files[l]), k, s, Newest(Content(files[l]), k, s))
    BY <1>0, <1>1, NewestIs
  <2> QED BY <2>1, <2>2
<1>4. IsNewest(Disk, k, s, deep)
  <2>0. \A x \in Disk : x \in Nat /\ x # 0 /\ Key(x) = writes[x].key
    BY <1>0, <1>1, EntryTypes
  <2>1. CASE has = {}
    <3>1. ASSUME NEW l \in Levels, NEW t \in Content(files[l]) PROVE ~(t <= s /\ Key(t) = k)
      <4>1. FromLevel(l, k, s) = 0
        BY <2>1
      <4>2. 0 \notin Content(files[l])
        BY <1>1
      <4> QED BY <1>3, <3>1, <4>1, <4>2 DEF IsNewest
    <3> QED BY <2>1, <3>1 DEF IsNewest, Disk
  <2>2. CASE has # {}
    <3> DEFINE l == Min(has)
               m == FromLevel(l, k, s)
    <3>1. has \in SUBSET Levels /\ Levels \in SUBSET Nat
      BY DEF Levels
    <3>2. l \in has /\ \A j \in has : l <= j
      <4> HIDE DEF has
      <4> QED BY <2>2, <3>1, MinIs
    <3>3. deep = m /\ l \in Levels /\ m # 0
      BY <2>2, <3>2
    <3>4. \A j \in Levels : FromLevel(j, k, s) # 0 => l <= j
      BY <3>2
    <3> HIDE DEF deep, l, has
    <3>5. /\ m \in Content(files[l]) /\ m <= s /\ Key(m) = k
          /\ \A t \in Content(files[l]) : t <= s /\ Key(t) = k => t <= m
      BY <1>3, <3>3 DEF IsNewest
    <3> HIDE DEF m
    <3>6. ASSUME NEW j \in Levels, NEW t \in Content(files[j]), t <= s, Key(t) = k PROVE t <= m
      <4>1. FromLevel(j, k, s) # 0
        <5>1. 0 \notin Content(files[j])
          BY <1>1
        <5> QED BY <1>3, <3>6, <5>1 DEF IsNewest
      <4>2. CASE j = l
        BY <3>5, <3>6, <4>2
      <4>3. CASE l < j
        <5>1. PICK f \in files[l] : m \in f.seqs
          BY <3>5 DEF Content
        <5>2. PICK g \in files[j] : t \in g.seqs
          BY <3>6 DEF Content
        <5>3. Newer(writes, f.seqs, g.seqs)
          BY <3>3, <4>3 DEF TablesInv, NewerUp
        <5>4. m > t
          BY <3>5, <3>6, <5>1, <5>2, <5>3 DEF Newer, Key
        <5>5. m \in Nat /\ t \in Nat
          BY <1>1, <3>3, <3>5, <3>6
        <5> QED BY <5>4, <5>5
      <4>4. l <= j /\ l \in Nat /\ j \in Nat
        BY <3>1, <3>3, <3>4, <4>1
      <4> QED BY <4>2, <4>3, <4>4
    <3>7. m \in Disk
      BY <3>3, <3>5 DEF Disk
    <3>8. IsNewest(Disk, k, s, m)
      BY <3>5, <3>6, <3>7 DEF IsNewest, Disk
    <3> QED BY <3>3, <3>8
  <2> QED BY <2>1, <2>2
<1> HIDE DEF deep
<1>5. deep = Newest(Disk, k, s)
  BY <1>0, <1>1, <1>4, NewestIs
<1> DEFINE rest == imm \cup Disk
<1>6. Newer(writes, mem, rest) /\ Newer(writes, imm, Disk)
  <2>1. \A s1 \in mem \cup imm, t \in Disk : s1 > t
    BY DEF TablesInv, MemoryIsNewest, Disk, Content
  <2>2. \A s1 \in mem, t \in imm : s1 > t
    BY DEF TablesInv, MemoryIsNewest
  <2> QED BY <2>1, <2>2 DEF Newer
<1>7. rest \in SUBSET (1 .. last)
  BY <1>1
<1>8. Newest(rest, k, s)
         = IF Newest(imm, k, s) # 0 THEN Newest(imm, k, s) ELSE Newest(Disk, k, s)
  BY <1>0, <1>1, <1>6, NewerFirst
<1>9. mem \cup rest = Stored
  BY DEF Stored
<1> HIDE DEF rest
<1>10. Newest(mem \cup rest, k, s)
         = IF Newest(mem, k, s) # 0 THEN Newest(mem, k, s) ELSE Newest(rest, k, s)
  BY <1>0, <1>1, <1>6, <1>7, NewerFirst
<1> QED BY <1>2, <1>5, <1>8, <1>9, <1>10

\* The snapshots that are held are of writes that were made, and a compaction
\* drops nothing that a snapshot newer than smallest_snapshot may need.
SnapshotsInv ==
    /\ snapshots \subseteq Nat /\ \A s \in snapshots : s <= last
    /\ compact # <<>> => /\ compact[1].smallest \in Nat
                         /\ \A s \in snapshots \cup {last} : compact[1].smallest <= s

\* What is stored answers every read as all writes would.
AnswersInv ==
    \A k \in Keys, s \in snapshots \cup {last} :
       Answer(Newest(Stored, k, s)) = Answer(Newest(1 .. last, k, s))

ReadsInv == LevelsInv /\ SnapshotsInv /\ AnswersInv

\* S is what is stored, less what the compaction drops of its inputs.
Dropped(S) ==
    /\ S \subseteq Stored
    /\ \A t \in Stored : \/ t \in S
                          \/ /\ \E f \in compact[1].in0 \cup compact[1].in1 : t \in f.seqs
                             /\ t \notin Kept(compact[1])
    /\ \A t \in S : \/ t \in mem \cup imm \cup Kept(compact[1])
                    \/ \E l \in Levels : \E g \in files[l] :
                          /\ t \in g.seqs
                          /\ l = compact[1].level => g \notin compact[1].in0
                          /\ l = compact[1].level + 1 => g \notin compact[1].in1

\* DoCompactionWork drops only what no read of smallest_snapshot or later misses:
\* entries a newer one hides, and deletion markers with nothing below them.
LEMMA KeptAnswers ==
    ASSUME LevelsAssumption, TablesInv, compact # <<>>, CompactingInv,
           NEW S, Dropped(S),
           NEW k, NEW s \in Nat, compact[1].smallest <= s, compact[1].smallest <= last,
           compact[1].smallest \in Nat
    PROVE  Answer(Newest(S, k, s)) = Answer(Newest(Stored, k, s))
<1> DEFINE c == compact[1]
           all == c.in0 \cup c.in1
           t == Newest(Stored, k, s)
           min == c.smallest
<1>0. CompactionInv(c) /\ WritesType /\ FilesType
  BY DEF CompactingInv, TablesInv
<1>1. Stored \in SUBSET (1 .. last) /\ S \in SUBSET (1 .. last) /\ S \subseteq Stored
      /\ mem \subseteq 1 .. last /\ imm \subseteq 1 .. last
  BY StoredType DEF Dropped
<1>2. IsNewest(Stored, k, s, t) /\ \A m : IsNewest(S, k, s, m) => m = Newest(S, k, s)
  BY <1>0, <1>1, NewestIs
<1> HIDE DEF t
<1>3. CASE t = 0 \/ t \in S
  <2>1. IsNewest(S, k, s, t)
    <3>1. 0 \notin Stored
      BY <1>1
    <3> QED BY <1>1, <1>2, <1>3, <3>1 DEF IsNewest
  <2> QED BY <1>2, <2>1 DEF t
<1>4. CASE t # 0 /\ t \notin S
  <2>1. t \in Stored /\ t <= s /\ Key(t) = k /\ \A x \in Stored : x <= s /\ Key(x) = k => x <= t
    BY <1>2, <1>4 DEF IsNewest
  <2>2. PICK h \in all : t \in h.seqs /\ t \notin Kept(c)
    BY <1>4, <2>1 DEF Dropped
  <2>3. c.level \in Levels /\ c.level + 1 \in Levels /\ c.level + 1 # 0 /\ c.level \in Nat
    BY <1>0 DEF CompactionInv, Levels, LevelsAssumption
  <2>4. c.in0 \subseteq files[c.level] /\ c.in1 \subseteq files[c.level + 1]
    BY <1>0 DEF CompactionInv, Replaceable
  <2>5. UNION {f.seqs : f \in all} = Content(all)
    BY DEF Content
  <2> DEFINE hidden(x) == \E y \in Content(all) : Key(y) = Key(x) /\ x < y /\ y <= min
             obsolete(x) == writes[x].del /\ x <= min /\ IsBaseLevelForKey(c, Key(x))
  <2>6. Kept(c) = {x \in Content(all) : ~hidden(x) /\ ~obsolete(x)}
    BY <2>5 DEF Kept
  <2> HIDE DEF c
  <2>7. Content(all) \subseteq Stored
    BY <2>3, <2>4 DEF Stored, Disk, Content
  <2>8. t \in Content(all)
    BY <2>2 DEF Content
  <2>9. \A x \in Stored : x \in Nat /\ x # 0 /\ Key(x) = writes[x].key
    BY <1>0, <1>1, EntryTypes
  <2>10. min \in Nat /\ min <= s
    BY DEF c
  <2> HIDE DEF all, min
  <2>11. ~hidden(t)
    <3> SUFFICES ASSUME NEW y \in Content(all), Key(y) = k, t < y, y <= min PROVE FALSE
      BY <2>1
    <3>1. y \in Stored /\ y \in Nat /\ t \in Nat
      BY <2>1, <2>7, <2>9
    <3>2. y <= s
      BY <2>10, <3>1
    <3> QED BY <2>1, <3>1, <3>2
  <2>12. writes[t].del /\ t <= min /\ IsBaseLevelForKey(c, k)
    BY <2>1, <2>2, <2>6, <2>8, <2>11
  <2>13. ASSUME NEW u \in S, u <= s, Key(u) = k PROVE FALSE
    <3>1. u \in Stored /\ u <= t /\ u # t
      BY <1>4, <2>1, <2>13 DEF Dropped
    <3>2. u \in Nat /\ t \in Nat /\ u < t /\ writes[u].key = writes[t].key /\ writes[t].key = k
      BY <2>1, <2>9, <2>13, <3>1
    <3>3. CASE u \in mem \cup imm
      <4>1. \E l \in Levels : \E f \in files[l] : t \in f.seqs
        BY <2>2, <2>3, <2>4 DEF all
      <4>2. u > t
        BY <3>3, <4>1 DEF TablesInv, MemoryIsNewest
      <4> QED BY <3>2, <4>2
    <3>4. CASE u \in Kept(c)
      <4>1. hidden(u)
        BY <2>1, <2>8, <2>12, <2>13, <3>2
      <4> QED BY <2>6, <3>4, <4>1
    <3>5. ASSUME NEW l \in Levels, NEW g \in files[l], u \in g.seqs,
                 l = c.level => g \notin c.in0, l = c.level + 1 => g \notin c.in1
          PROVE  FALSE
      <4>0. l \in Nat
        BY DEF Levels
      <4>1. \/ h \in files[c.level] /\ h \in c.in0
            \/ h \in files[c.level + 1] /\ h \in c.in1
        BY <2>2, <2>4 DEF all
      <4>2. CASE l < c.level \/ (l < c.level + 1 /\ h \in files[c.level + 1])
        <5>1. Newer(writes, g.seqs, h.seqs)
          BY <2>3, <4>0, <4>1, <4>2 DEF TablesInv, NewerUp
        <5>2. u > t
          BY <2>2, <3>2, <3>5, <5>1 DEF Newer
        <5> QED BY <3>2, <5>2
      <4>3. CASE l = c.level /\ h \in c.in0
        <5>1. Newer(writes, g.seqs, Content(c.in0))
          BY <1>0, <3>5, <4>3 DEF CompactionInv, Replaceable
        <5>2. t \in Content(c.in0)
          BY <2>2, <4>3 DEF Content
        <5>3. u > t
          BY <3>2, <3>5, <5>1, <5>2 DEF Newer
        <5> QED BY <3>2, <5>3
      <4>4. CASE l = c.level + 1
        <5>1. Apart(writes, g.seqs, Content(all))
          BY <1>0, <3>5, <4>4 DEF CompactionInv, Replaceable, all
        <5>2. writes[u].key < writes[t].key \/ writes[t].key < writes[u].key
          BY <2>8, <3>5, <5>1 DEF Apart, Below
        <5>3. writes[t].key \in Nat
          BY <1>0, <1>1, <2>1, <2>9, EntryTypes
        <5> QED BY <3>2, <5>2, <5>3
      <4>5. CASE l \in c.level + 2 .. NumLevels - 1
        <5>1. CASE g \in c.base[l]
          <6>1. c.base[l] \in SUBSET Tables /\ PairwiseApart(writes, c.base[l])
            BY <1>0, <4>5 DEF CompactionInv
          <6>2. last \in Nat /\ u <= last
            BY <1>0, <1>1, <3>1, EntryTypes
          <6>3. FindFile(c.base[l], k, last) = {g} /\ Key(Smallest(g)) <= k
            BY <1>0, <2>13, <3>5, <5>1, <6>1, <6>2, FirstFile
          <6>4. Key(Smallest(g)) > k
            BY <2>12, <4>5, <6>3 DEF IsBaseLevelForKey
          <6>5. Key(Smallest(g)) \in Nat /\ k \in Nat
            <7>1. g \in Tables
              BY <5>1, <6>1
            <7>2. Smallest(g) \in 1 .. last
              BY <1>0, <7>1, BoundsAre DEF Tables
            <7>3. u \in 1 .. last
              BY <1>1
            <7> QED BY <1>0, <2>13, <7>2, <7>3, EntryTypes
          <6> QED BY <6>3, <6>4, <6>5
        <5>2. CASE g \notin c.base[l]
          <6>1. NoSharedKey(writes, g.seqs, Content(all))
            BY <1>0, <4>5, <5>2 DEF CompactionInv, all
          <6> QED BY <2>8, <3>2, <3>5, <6>1 DEF NoSharedKey
        <5> QED BY <5>1, <5>2
      <4>6. l < c.level \/ l = c.level \/ l = c.level + 1 \/ l \in c.level + 2 .. NumLevels - 1
        BY <2>3 DEF Levels
      <4>7. l = c.level => l < c.level + 1
        BY <2>3
      <4> QED BY <4>1, <4>2, <4>3, <4>4, <4>5, <4>6, <4>7
    <3> QED BY <3>3, <3>4, <3>5 DEF c, Dropped
  <2>14. Newest(S, k, s) = 0
    BY <1>2, <2>13 DEF IsNewest
  <2>15. Answer(t) = 0
    BY <2>12 DEF Answer
  <2> QED BY <2>14, <2>15 DEF Answer, t
<1> QED BY <1>3, <1>4

\* A step that writes nothing and takes no snapshot of another write answers as
\* before if what is stored does.
LEMMA SameAnswers ==
    ASSUME AnswersInv, writes' = writes, snapshots' \subseteq snapshots \cup {last},
           NEW S, S = Stored',
           \A k \in Keys, s \in snapshots \cup {last} :
              Answer(Newest(S, k, s)) = Answer(Newest(Stored, k, s))
    PROVE  AnswersInv'
<1>1. last' = last
  BY DEF last
<1> SUFFICES ASSUME NEW k \in Keys, NEW s \in snapshots' \cup {last}
             PROVE  (Answer(Newest(Stored, k, s)) = Answer(Newest(1 .. last, k, s)))'
  BY <1>1 DEF AnswersInv
<1>3. Newest(Stored, k, s)' = Newest(S, k, s)
  BY DEF Newest, Key
<1>4. Newest(1 .. last, k, s)' = Newest(1 .. last, k, s)
  BY <1>1 DEF Newest, Key
<1>5. Answer(Newest(Stored, k, s))' = Answer(Newest(S, k, s))
  BY <1>3 DEF Answer
<1>6. Answer(Newest(1 .. last, k, s))' = Answer(Newest(1 .. last, k, s))
  BY <1>4 DEF Answer
<1>7. s \in snapshots \cup {last}
  OBVIOUS
<1> QED BY <1>5, <1>6, <1>7 DEF AnswersInv

\* The largest member of a set of natural numbers with a bound that is in it.
LEMMA MaxOf ==
    ASSUME NEW n \in Nat, NEW T, T \subseteq 1 .. n, n \in T
    PROVE  Max({0} \cup T) = n
<1> DEFINE U == {0} \cup T
<1>1. IsFiniteSet(0 .. n)
  <2>1. 0 \in Int /\ n \in Int
    OBVIOUS
  <2> QED BY <2>1, FS_Interval
<1>2. U \in SUBSET (0 .. n) /\ U \in SUBSET Nat /\ U # {} /\ n \in U
  OBVIOUS
<1> HIDE DEF U
<1>3. IsFiniteSet(U)
  BY <1>1, <1>2, FS_Subset
<1>4. Max(U) \in U /\ \A y \in U : Max(U) >= y
  BY <1>2, <1>3, MaxIs
<1>5. Max(U) >= n /\ Max(U) \in 0 .. n
  BY <1>2, <1>4
<1>6. Max(U) = n
  BY <1>5
<1> QED BY <1>6 DEF U

\* Write: a read of the present finds the new entry, the others what they found.
LEMMA WriteAnswers ==
    ASSUME LevelsAssumption, TablesInv, SnapshotsInv, AnswersInv,
           NEW k \in Keys, NEW del \in BOOLEAN, Write(k, del)
    PROVE  AnswersInv'
<1> DEFINE n == last + 1
           Seen(S, j, s) == {t \in S : t <= s /\ Key(t) = j}
           Seen1(S, j, s) == {t \in S : t <= s /\ writes'[t].key = j}
<1>1. /\ last' = n /\ last \in Nat
      /\ \A s \in 1 .. last : writes[s] = writes'[s] /\ s \in 1 .. last' /\ s < n
      /\ writes'[n] = [key |-> k, del |-> del]
  BY WriteAppends DEF TablesInv
<1>2. mem' = mem \cup {n} /\ imm' = imm /\ files' = files /\ snapshots' = snapshots
  BY DEF Write
<1>3. Stored' = Stored \cup {n}
  BY <1>2 DEF Stored, Disk, Content
<1>4. Stored \in SUBSET (1 .. last) /\ 1 .. last' = (1 .. last) \cup {n}
  <2>1. 1 .. last' = (1 .. last) \cup {n}
    BY <1>1
  <2> QED BY <2>1, StoredType
<1>5. n \in Nat /\ n \notin 1 .. last /\ \A s \in Nat : s <= last => ~(n <= s)
  BY <1>1
<1>6. ASSUME NEW S \in SUBSET (1 .. last), NEW j \in Keys, NEW s \in Nat, s <= last
      PROVE  Seen1(S \cup {n}, j, s) = Seen(S, j, s)
  BY <1>1, <1>5, <1>6 DEF Key
<1>7. ASSUME NEW S \in SUBSET (1 .. last), NEW j \in Keys, j # k
      PROVE  Seen1(S \cup {n}, j, n) = Seen(S, j, last)
  <2>1. \A t \in S : t <= n /\ t <= last /\ t \in 1 .. last
    BY <1>1
  <2>2. writes'[n].key # j
    BY <1>1, <1>7
  <2> QED BY <1>1, <2>1, <2>2 DEF Key
<1>8. ASSUME NEW S \in SUBSET (1 .. last)
      PROVE  Max({0} \cup Seen1(S \cup {n}, k, n)) = n
  <2> DEFINE T == Seen1(S \cup {n}, k, n)
  <2>1. n \in T
    BY <1>1
  <2>2. T \subseteq 1 .. n
    BY <1>1, <1>4
  <2> HIDE DEF T
  <2>3. Max({0} \cup T) = n
    BY <1>5, <2>1, <2>2, MaxOf
  <2> QED BY <2>3 DEF T
<1>9. \A S, j, s : Newest(S, j, s) = Max({0} \cup Seen(S, j, s))
  BY DEF Newest
<1>10. \A j, s : /\ Newest(Stored, j, s)' = Max({0} \cup Seen1(Stored \cup {n}, j, s))
                 /\ Newest(1 .. last, j, s)' = Max({0} \cup Seen1((1 .. last) \cup {n}, j, s))
  BY <1>3, <1>4 DEF Newest, Key
<1> HIDE DEF Seen, Seen1
<1>11. ASSUME NEW S \in SUBSET (1 .. last), NEW j, NEW s
       PROVE  Newest(S, j, s) \in 0 .. last /\ Answer(Newest(S, j, s))
                 = IF Newest(S, j, s) = 0 THEN 0
                   ELSE IF writes'[Newest(S, j, s)].del THEN 0 ELSE Newest(S, j, s)
  <2>1. IsNewest(S, j, s, Newest(S, j, s))
    BY NewestIs DEF TablesInv
  <2>2. Newest(S, j, s) = 0 \/ Newest(S, j, s) \in 1 .. last
    BY <2>1 DEF IsNewest
  <2> QED BY <1>1, <2>2 DEF Answer
<1> DEFINE A(x) == IF x = 0 THEN 0 ELSE IF writes'[x].del THEN 0 ELSE x
<1>12. ASSUME NEW j \in Keys, NEW s \in snapshots' \cup {last'}
       PROVE  (Answer(Newest(Stored, j, s)) = Answer(Newest(1 .. last, j, s)))'
  <2> DEFINE x == Newest(Stored, j, s)'
             y == Newest(1 .. last, j, s)'
  <2>0. x = Max({0} \cup Seen1(Stored \cup {n}, j, s))
        /\ y = Max({0} \cup Seen1((1 .. last) \cup {n}, j, s))
    BY <1>10
  <2>1. Answer(Newest(Stored, j, s))' = A(x) /\ Answer(Newest(1 .. last, j, s))' = A(y)
    BY DEF Answer
  <2> HIDE DEF x, y
  <2>2. ASSUME NEW r \in snapshots \cup {last},
               x = Newest(Stored, j, r), y = Newest(1 .. last, j, r)
        PROVE  A(x) = A(y)
    <3>1. Answer(Newest(Stored, j, r)) = A(x)
      BY <1>4, <1>11, <2>2
    <3>2. Answer(Newest(1 .. last, j, r)) = A(y)
      BY <1>11, <2>2
    <3>3. Answer(Newest(Stored, j, r)) = Answer(Newest(1 .. last, j, r))
      BY DEF AnswersInv
    <3> QED BY <3>1, <3>2, <3>3
  <2>3. CASE s \in snapshots
    <3>1. s \in Nat /\ s <= last
      BY <2>3 DEF SnapshotsInv
    <3>2. x = Newest(Stored, j, s) /\ y = Newest(1 .. last, j, s)
      BY <1>4, <1>6, <1>9, <2>0, <3>1
    <3> QED BY <2>1, <2>2, <2>3, <3>2
  <2>4. CASE s = n /\ j # k
    <3>1. x = Newest(Stored, j, last) /\ y = Newest(1 .. last, j, last)
      BY <1>4, <1>7, <1>9, <2>0, <2>4
    <3> QED BY <2>1, <2>2, <3>1
  <2>5. CASE s = n /\ j = k
    <3>1. x = n /\ y = n
      BY <1>4, <1>8, <2>0, <2>5
    <3> QED BY <2>1, <3>1
  <2> QED BY <1>1, <1>2, <2>3, <2>4, <2>5
<1> QED BY <1>12 DEF AnswersInv

\* At first nothing was written and nothing is read.
LEMMA ReadsStart == ASSUME LevelsAssumption, Init PROVE ReadsInv
<1>1. LevelsInv
  BY StartsWell
<1>2. last = 0 /\ Stored = {} /\ 1 .. last = {}
  <2>1. last = 0
    BY EmptySeq DEF Init, last
  <2>2. Stored = {}
    BY DEF Init, Stored, Disk, Content
  <2> QED BY <2>1, <2>2
<1>3. AnswersInv
  BY <1>2 DEF AnswersInv
<1> QED BY <1>1, <1>3 DEF ReadsInv, SnapshotsInv, Init

\* What a compaction keeps in mind of the snapshots stays true.
LEMMA SnapshotsKept ==
    ASSUME LevelsAssumption, LevelsInv, SnapshotsInv, [Next]_vars, ManualRanges = {}
    PROVE  SnapshotsInv'
<1>0. WritesType /\ last \in Nat
  BY EntryTypes DEF LevelsInv, TablesInv
<1>1. ASSUME NEW k \in Keys, NEW del \in BOOLEAN, Write(k, del) PROVE SnapshotsInv'
  <2>1. last' = last + 1 /\ snapshots' = snapshots /\ compact' = compact
    BY <1>0, <1>1, WriteAppends DEF Write
  <2>2. \A s \in snapshots : s \in Nat /\ s <= last
    BY DEF SnapshotsInv
  <2>3. \A s \in snapshots : s <= last + 1
    BY <1>0, <2>2
  <2>4. compact # <<>> => compact[1].smallest <= last + 1
    <3> SUFFICES ASSUME compact # <<>> PROVE compact[1].smallest <= last + 1
      OBVIOUS
    <3>1. compact[1].smallest \in Nat /\ compact[1].smallest <= last
      BY DEF SnapshotsInv
    <3> QED BY <1>0, <3>1
  <2> QED BY <2>1, <2>3, <2>4 DEF SnapshotsInv
<1>2. CASE GetSnapshot
  <2>1. last' = last /\ snapshots' = snapshots \cup {last} /\ compact' = compact
    BY <1>2 DEF GetSnapshot, last
  <2>2. last <= last
    BY <1>0
  <2> QED BY <1>0, <2>1, <2>2 DEF SnapshotsInv
<1>3. ASSUME NEW s \in snapshots, ReleaseSnapshot(s) PROVE SnapshotsInv'
  BY <1>3 DEF ReleaseSnapshot, SnapshotsInv, last
<1>4. CASE SwitchMemTable
  BY <1>4 DEF SwitchMemTable, SnapshotsInv, last
<1>5. CASE CompactMemTable
  BY <1>5 DEF CompactMemTable, SnapshotsInv, last
<1>6. CASE StartCompaction
  <2> DEFINE min == IF snapshots = {} THEN last ELSE Min(snapshots)
  <2>1. writes' = writes /\ snapshots' = snapshots /\ compact'[1].smallest = min
    BY <1>6 DEF StartCompaction, Begin
  <2>2. snapshots \in SUBSET Nat /\ \A s \in snapshots : s <= last
    BY DEF SnapshotsInv
  <2>3. min \in Nat /\ \A s \in snapshots \cup {last} : min <= s
    <3>1. CASE snapshots = {}
      BY <1>0, <3>1
    <3>2. CASE snapshots # {}
      <4>1. Min(snapshots) \in snapshots /\ \A s \in snapshots : Min(snapshots) <= s
        BY <2>2, <3>2, MinIs
      <4> QED BY <2>2, <3>2, <4>1
    <3> QED BY <3>1, <3>2
  <2> HIDE DEF min
  <2> QED BY <2>1, <2>2, <2>3 DEF SnapshotsInv, last
<1>7. CASE MoveFile
  BY <1>7 DEF MoveFile, SnapshotsInv, last
<1>8. CASE FinishCompaction
  BY <1>8 DEF FinishCompaction, SnapshotsInv, last
<1>9. CASE ManualCompaction
  BY <1>9 DEF ManualCompaction, LevelsInv
<1>10. CASE Reopen
  BY <1>10 DEF Reopen, SnapshotsInv
<1>11. CASE UNCHANGED vars
  BY <1>11 DEF vars, SnapshotsInv, last
<1> QED
  BY <1>1, <1>2, <1>3, <1>4, <1>5, <1>6, <1>7, <1>8, <1>9, <1>10, <1>11 DEF Next

\* No step changes an answer but a write, which is the answer of its own key.
LEMMA AnswersKept ==
    ASSUME LevelsAssumption, ManualRanges = {}, ReadsInv, [Next]_vars
    PROVE  AnswersInv'
<1>0. LevelsInv /\ SnapshotsInv /\ AnswersInv /\ TablesInv /\ CompactingInv
      /\ SplitInv
  BY DEF ReadsInv, LevelsInv
<1>1. ASSUME writes' = writes, snapshots' \subseteq snapshots \cup {last}, Stored' = Stored
      PROVE  AnswersInv'
  BY <1>0, <1>1, SameAnswers
<1>2. ASSUME NEW k \in Keys, NEW del \in BOOLEAN, Write(k, del) PROVE AnswersInv'
  BY <1>0, <1>2, WriteAnswers
<1>3. CASE GetSnapshot
  BY <1>1, <1>3 DEF GetSnapshot, Stored, Disk, Content
<1>4. ASSUME NEW s \in snapshots, ReleaseSnapshot(s) PROVE AnswersInv'
  BY <1>1, <1>4 DEF ReleaseSnapshot, Stored, Disk, Content
<1>5. CASE SwitchMemTable
  <2>1. Disk' = Disk
    BY <1>5 DEF SwitchMemTable, Disk, Content
  <2>2. mem' \cup imm' = mem \cup imm
    BY <1>5 DEF SwitchMemTable
  <2> QED BY <1>1, <1>5, <2>1, <2>2 DEF SwitchMemTable, Stored
<1>6. CASE CompactMemTable
  <2>1. Disk' = Disk \cup imm /\ mem' = mem /\ imm' = {}
    BY <1>0, <1>6, FlushKeeps DEF CompactMemTable
  <2>2. Stored' = Stored
    BY <2>1 DEF Stored
  <2> QED BY <1>1, <1>6, <2>2 DEF CompactMemTable
<1>7. CASE StartCompaction
  BY <1>1, <1>7 DEF StartCompaction, Stored, Disk, Content
<1>8. CASE MoveFile
  <2>1. Disk' = Disk /\ mem' = mem /\ imm' = imm
    BY <1>0, <1>8, MoveKeeps DEF MoveFile
  <2> QED BY <1>1, <1>8, <2>1 DEF MoveFile, Stored
<1>9. CASE FinishCompaction
  <2> DEFINE S == Stored'
  <2>1. compact # <<>> /\ writes' = writes /\ mem' = mem /\ imm' = imm /\ snapshots' = snapshots
    BY <1>9 DEF FinishCompaction
  <2>2. /\ Disk' \subseteq Disk
        /\ \A t \in Disk : t \in Disk' \/ ((\E f \in compact[1].in0 \cup compact[1].in1 : t \in f.seqs)
                                           /\ t \notin Kept(compact[1]))
        /\ \A t \in Disk' : t \in Kept(compact[1]) \/ \E l \in Levels : \E g \in files[l] :
                                                /\ t \in g.seqs
                                                /\ l = compact[1].level => g \notin compact[1].in0
                                                /\ l = compact[1].level + 1 => g \notin compact[1].in1
    BY <1>0, <1>9, FinishKeeps
  <2>3. S = mem \cup imm \cup Disk'
    BY <2>1 DEF Stored
  <2> HIDE DEF S
  <2>4. S \in SUBSET Stored
    BY <2>2, <2>3 DEF Stored
  <2>5. \A t \in Stored : t \in S \/ ((\E f \in compact[1].in0 \cup compact[1].in1 : t \in f.seqs)
                                      /\ t \notin Kept(compact[1]))
    BY <2>2, <2>3 DEF Stored
  <2>6. \A t \in S : \/ t \in mem \cup imm \cup Kept(compact[1])
                     \/ \E l \in Levels : \E g \in files[l] :
                           /\ t \in g.seqs
                           /\ l = compact[1].level => g \notin compact[1].in0
                           /\ l = compact[1].level + 1 => g \notin compact[1].in1
    BY <2>2, <2>3
  <2>7. Dropped(S)
    BY <2>4, <2>5, <2>6 DEF Dropped
  <2>8. ASSUME NEW k \in Keys, NEW s \in snapshots \cup {last}
        PROVE  Answer(Newest(S, k, s)) = Answer(Newest(Stored, k, s))
    <3>1. s \in Nat /\ compact[1].smallest \in Nat /\ compact[1].smallest <= s /\ compact[1].smallest <= last
      <4>1. last \in Nat
        BY <1>0, EntryTypes DEF TablesInv
      <4> QED BY <1>0, <2>1, <4>1 DEF SnapshotsInv
    <3> QED BY <1>0, <2>1, <2>7, <3>1, KeptAnswers
  <2> QED BY <1>0, <2>1, <2>8, SameAnswers DEF S
<1>10. CASE ManualCompaction
  BY <1>0, <1>10 DEF ManualCompaction, LevelsInv
<1>11. CASE Reopen
  <2>1. Stored' = Stored /\ snapshots' = {} /\ writes' = writes
    BY <1>0, <1>11, ReopenKeeps DEF Reopen
  <2> QED BY <1>1, <2>1
<1>12. CASE UNCHANGED vars
  BY <1>1, <1>12 DEF vars, Stored, Disk, Content
<1> QED
  BY <1>2, <1>3, <1>4, <1>5, <1>6, <1>7, <1>8, <1>9, <1>10, <1>11, <1>12 DEF Next

\* Every read, of the present and of every snapshot that is held, is answered
\* with the newest write it may see, whatever flushes, compactions, moves and
\* restarts made of the tables (DBImpl::Get, Version::Get, DoCompactionWork),
\* under the same conditions.
THEOREM ReadsAreRight ==
    ASSUME LevelsAssumption, ManualRanges = {}
    PROVE  Spec /\ [](SplitKeys => snapshots = {}) => []ReadsAgree
<1>1. Init => ReadsInv
  BY ReadsStart
<1>2. ReadsInv /\ (SplitKeys => snapshots = {}) /\ [Next]_vars => ReadsInv'
  <2> SUFFICES ASSUME ReadsInv, SplitKeys => snapshots = {}, [Next]_vars PROVE ReadsInv'
    OBVIOUS
  <2>1. LevelsInv /\ SnapshotsInv
    BY DEF ReadsInv
  <2> QED BY <2>1, StepsKeep, SnapshotsKept, AnswersKept DEF ReadsInv
<1>3. ReadsInv => ReadsAgree
  <2> SUFFICES ASSUME ReadsInv, NEW k \in Keys, NEW s \in snapshots \cup {last}
               PROVE  Get(k, s) = Answer(Newest(1 .. last, k, s))
    BY DEF ReadsAgree
  <2>1. TablesInv /\ WritesType
    BY DEF ReadsInv, LevelsInv, TablesInv
  <2>2. s \in Nat
    <3>1. last \in Nat
      BY <2>1, EntryTypes
    <3> QED BY <3>1 DEF ReadsInv, SnapshotsInv
  <2>3. Get(k, s) = Answer(Newest(Stored, k, s))
    BY <2>1, <2>2, GetIs
  <2> QED BY <2>3 DEF ReadsInv, AnswersInv
<1> QED BY <1>1, <1>2, <1>3, PTL DEF Spec
=============================================================================
