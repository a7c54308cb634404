--------------------------- MODULE TableCacheProofs ---------------------------
(***************************************************************************)
(* What TableCache promises its readers, for any number of threads, tables *)
(* and entries and any capacity: no table a reader holds is freed or taken *)
(* for another one, no entry outlives its last use, and the lists hold     *)
(* what they are for.                                                      *)
(*                                                                         *)
(* None of the properties is inductive, because an entry is freed, and     *)
(* moved between the lists, by a count and not by looking at its clients.  *)
(* Counted says what the counts mean; the rest of CacheInv is what a       *)
(* reader knows of the tables it pinned, and InLists what is in which list.*)
(***************************************************************************)
EXTENDS TableCache, OrderLemmas, FiniteSetTheorems, FunctionTheorems, TLAPS

\* The threads that hold h when H says what each thread holds.
Clients(H, h) == {t \in Threads : h \in H[t]}

\* The count of the cache's own reference.
Own(c, h) == IF h \in c.table THEN 1 ELSE 0

\* The cache is the record its operators expect.
Shape(c) ==
  /\ c = [allocated |-> c.allocated, key |-> c.key, refs |-> c.refs,
          inCache |-> c.inCache, table |-> c.table, lru |-> c.lru,
          inUse |-> c.inUse, usage |-> c.usage]
  /\ c.key \in [Handles -> Tables]
  /\ c.refs \in [Handles -> Int]
  /\ c.table \in SUBSET Handles
  /\ c.inCache = c.table

\* An entry has one reference of the cache, if it is cached, and one of each
\* client, and it is freed when it has none.
Counted(c, H) ==
  /\ Shape(c)
  /\ \A h \in Handles : c.refs[h] = Cardinality(Clients(H, h)) + Own(c, h)
  /\ c.allocated = {h \in Handles : c.refs[h] > 0}

\* The hash table has one entry per table, and only of tables on disk.
OnePerTable ==
  /\ \A h \in cache.table : cache.key[h] \in files
  /\ \A g, h \in cache.table : cache.key[g] = cache.key[h] => g = h

\* What a reader works on is in the version it pinned, and one entry each.
ReadersPinned ==
  /\ current \in SUBSET files
  /\ files \in SUBSET Tables
  /\ pinned \in [Threads -> SUBSET files]
  /\ missed \in [Threads -> SUBSET Tables]
  /\ opened \in [Threads -> SUBSET Tables]
  /\ held \in [Threads -> SUBSET Handles]
  /\ \A t \in Threads : missed[t] \cup opened[t] \subseteq pinned[t]
  /\ \A t \in Threads : missed[t] = {} \/ opened[t] = {}
  /\ \A t \in Threads : \A h \in held[t] :
        cache.key[h] \in pinned[t] /\ cache.key[h] \notin missed[t] \cup opened[t]
  /\ \A t \in Threads : \A g, h \in held[t] : cache.key[g] = cache.key[h] => g = h

CacheInv == Counted(cache, held) /\ OnePerTable /\ ReadersPinned

\* Thread t holds h too, and the new entry of Insert in the hash table.
More(H, t, h) == [H EXCEPT ![t] = @ \union {h}]

Entered(c, h, f) == [Allocated(c, h, f) EXCEPT !.table = @ \union {h}]

-----------------------------------------------------------------------------
(* The references of an entry are a finite number.                         *)

\* A handle has finitely many clients.
LEMMA ClientsFinite ==
  ASSUME NEW H, NEW h
  PROVE  /\ IsFiniteSet(Clients(H, h))
         /\ Cardinality(Clients(H, h)) \in Nat
         /\ Cardinality(Clients(H, h)) = 0 <=> Clients(H, h) = {}
<1>1. Clients(H, h) \in SUBSET Threads
  BY DEF Clients
<1>2. IsFiniteSet(Clients(H, h))
  BY <1>1, FS_Subset, CacheAssumption
<1> QED
  BY <1>2, FS_CardinalityType, FS_EmptySet

(* What counting the references means for one entry.                       *)
LEMMA CountedMeans ==
  ASSUME NEW c, NEW H, Counted(c, H), NEW h \in Handles
  PROVE  /\ c.refs[h] \in Nat
         /\ h \in c.table => h \in c.allocated
         /\ \A t \in Threads : h \in H[t] => h \in c.allocated
         /\ h \in c.allocated => h \in c.table \/ Clients(H, h) # {}
         /\ h \notin c.allocated => c.refs[h] = 0
<1>1. Own(c, h) \in {0, 1} /\ (Own(c, h) = 1 <=> h \in c.table)
  BY DEF Own
<1>2. c.refs[h] = Cardinality(Clients(H, h)) + Own(c, h)
  BY DEF Counted
<1>3. h \in c.allocated <=> c.refs[h] > 0
  BY DEF Counted
<1>4. \A t \in Threads : h \in H[t] => Clients(H, h) # {}
  BY DEF Clients
<1> QED
  BY <1>1, <1>2, <1>3, <1>4, ClientsFinite

(* One client more, and one client less.                                   *)
LEMMA OneMore ==
  ASSUME NEW H \in [Threads -> SUBSET Handles], NEW t \in Threads,
         NEW h \in Handles, h \notin H[t]
  PROVE  LET G == [H EXCEPT ![t] = @ \union {h}]
         IN  /\ Cardinality(Clients(G, h)) = Cardinality(Clients(H, h)) + 1
             /\ \A g \in Handles \ {h} : Clients(G, g) = Clients(H, g)
<1> DEFINE G == [H EXCEPT ![t] = @ \union {h}]
<1>1. Clients(G, h) = Clients(H, h) \cup {t} /\ t \notin Clients(H, h)
  BY DEF Clients
<1>2. \A g \in Handles \ {h} : Clients(G, g) = Clients(H, g)
  BY DEF Clients
<1>3. Cardinality(Clients(H, h) \cup {t}) = Cardinality(Clients(H, h)) + 1
  BY <1>1, ClientsFinite, FS_AddElement
<1> QED
  BY <1>1, <1>2, <1>3

\* Releasing a handle makes its clients one fewer and no other handle's.
LEMMA OneLess ==
  ASSUME NEW H \in [Threads -> SUBSET Handles], NEW t \in Threads,
         NEW h \in H[t]
  PROVE  LET G == [H EXCEPT ![t] = @ \ {h}]
         IN  /\ Cardinality(Clients(G, h)) = Cardinality(Clients(H, h)) - 1
             /\ \A g \in Handles \ {h} : Clients(G, g) = Clients(H, g)
<1> DEFINE G == [H EXCEPT ![t] = @ \ {h}]
<1>1. Clients(G, h) = Clients(H, h) \ {t} /\ t \in Clients(H, h)
  BY DEF Clients
<1>2. \A g \in Handles \ {h} : Clients(G, g) = Clients(H, g)
  BY DEF Clients
<1>3. Cardinality(Clients(H, h) \ {t}) = Cardinality(Clients(H, h)) - 1
  BY <1>1, ClientsFinite, FS_RemoveElement
<1> QED
  BY <1>1, <1>2, <1>3

-----------------------------------------------------------------------------
(* What the operations of the cache do to the counts.                      *)

(* Ref: the reader that found a cached entry is a client more.             *)
LEMMA RefCounts ==
  ASSUME NEW c, NEW H \in [Threads -> SUBSET Handles], Counted(c, H),
         NEW t \in Threads, NEW h \in c.table, h \notin H[t]
  PROVE  /\ Counted(Ref(c, h), [H EXCEPT ![t] = @ \union {h}])
         /\ Ref(c, h).table = c.table /\ Ref(c, h).key = c.key
<1> DEFINE G == [H EXCEPT ![t] = @ \union {h}]
           d == Ref(c, h)
           first == c.refs[h] = 1 /\ h \in c.inCache
           refs == [c.refs EXCEPT ![h] = @ + 1]
           lru == IF first THEN Without(c.lru, {h}) ELSE c.lru
           inUse == IF first THEN c.inUse \union {h} ELSE c.inUse
<1>1. h \in Handles /\ Shape(c)
  BY DEF Counted, Shape
<1>0. d = [c EXCEPT !.refs = refs, !.lru = lru, !.inUse = inUse]
  BY DEF Ref
<1> HIDE DEF d, refs, lru, inUse
<1>9. /\ Cardinality(Clients(G, h)) = Cardinality(Clients(H, h)) + 1
      /\ \A g \in Handles \ {h} : Clients(G, g) = Clients(H, g)
  BY <1>1, OneMore
<1> HIDE DEF G
<1>2. /\ d.refs = refs
      /\ d.allocated = c.allocated /\ d.key = c.key
      /\ d.inCache = c.inCache /\ d.table = c.table
  BY <1>0, <1>1, SMT DEF Shape
<1>s. Shape(d)
  <2>1. d = [allocated |-> d.allocated, key |-> d.key, refs |-> d.refs,
             inCache |-> d.inCache, table |-> d.table, lru |-> d.lru,
             inUse |-> d.inUse, usage |-> d.usage]
    <3>1. d = [allocated |-> c.allocated, key |-> c.key, refs |-> refs,
                 inCache |-> c.inCache, table |-> c.table, lru |-> lru,
                 inUse |-> inUse, usage |-> c.usage]
      BY <1>0, <1>1, Zenon DEF Shape
    <3> QED
      BY <3>1, Zenon
  <2>2. d.refs \in [Handles -> Int]
    BY <1>1, <1>2 DEF Shape, refs
  <2> QED
    BY <1>1, <1>2, <2>1, <2>2 DEF Shape
<1>3. \A g \in Handles : d.refs[g] = Cardinality(Clients(G, g)) + Own(d, g)
  <2> SUFFICES ASSUME NEW g \in Handles
               PROVE  d.refs[g] = Cardinality(Clients(G, g)) + Own(d, g)
    OBVIOUS
  <2>1. c.refs[g] = Cardinality(Clients(H, g)) + Own(c, g)
    BY DEF Counted
  <2>2. Own(d, g) = Own(c, g) /\ Own(c, g) \in Nat
    BY <1>2 DEF Own
  <2>3. CASE g = h
    BY <1>1, <1>2, <2>1, <2>2, <2>3, <1>9, ClientsFinite DEF Shape, refs
  <2>4. CASE g # h
    BY <1>1, <1>2, <2>1, <2>2, <2>4, <1>9 DEF Shape, refs
  <2> QED
    BY <2>3, <2>4
<1>4. d.allocated = {g \in Handles : d.refs[g] > 0}
  <2>1. c.refs[h] \in Nat /\ h \in c.allocated
    BY <1>1, CountedMeans
  <2>2. c.allocated = {g \in Handles : c.refs[g] > 0}
    BY DEF Counted
  <2>3. \A g \in Handles : d.refs[g] > 0 <=> c.refs[g] > 0
    BY <1>1, <1>2, <2>1, <2>2 DEF Shape, refs
  <2> QED
    BY <1>2, <2>2, <2>3
<1> QED
  BY <1>2, <1>s, <1>3, <1>4 DEF Counted, d, G

(* Unref: the last reference frees the entry, and only the last.           *)
LEMMA UnrefCounts ==
  ASSUME NEW c, NEW H \in [Threads -> SUBSET Handles], Counted(c, H),
         NEW t \in Threads, NEW h \in H[t]
  PROVE  /\ Counted(Unref(c, h), [H EXCEPT ![t] = @ \ {h}])
         /\ Unref(c, h).table = c.table /\ Unref(c, h).key = c.key
<1> DEFINE G == [H EXCEPT ![t] = @ \ {h}]
           d == Unref(c, h)
           unused == c.refs[h] = 2 /\ h \in c.inCache
           refs == [c.refs EXCEPT ![h] = @ - 1]
           allocated == IF c.refs[h] = 1 THEN c.allocated \ {h} ELSE c.allocated
           lru == IF unused THEN Append(c.lru, h) ELSE c.lru
           inUse == IF unused THEN c.inUse \ {h} ELSE c.inUse
<1>1. h \in Handles /\ Shape(c)
  BY DEF Counted
<1>0. d = [c EXCEPT !.refs = refs, !.allocated = allocated,
                    !.lru = lru, !.inUse = inUse]
  BY DEF Unref
<1> HIDE DEF d, refs, allocated, lru, inUse
<1>9. /\ Cardinality(Clients(G, h)) = Cardinality(Clients(H, h)) - 1
      /\ \A g \in Handles \ {h} : Clients(G, g) = Clients(H, g)
  BY <1>1, OneLess
<1> HIDE DEF G
<1>2. /\ d.refs = refs /\ d.allocated = allocated
      /\ d.key = c.key /\ d.inCache = c.inCache /\ d.table = c.table
  BY <1>0, <1>1, SMT DEF Shape
<1>s. Shape(d)
  <2>1. d = [allocated |-> d.allocated, key |-> d.key, refs |-> d.refs,
             inCache |-> d.inCache, table |-> d.table, lru |-> d.lru,
             inUse |-> d.inUse, usage |-> d.usage]
    <3>1. d = [allocated |-> allocated, key |-> c.key, refs |-> refs,
                 inCache |-> c.inCache, table |-> c.table, lru |-> lru,
                 inUse |-> inUse, usage |-> c.usage]
      BY <1>0, <1>1, Zenon DEF Shape
    <3> QED
      BY <3>1, Zenon
  <2>2. d.refs \in [Handles -> Int]
    BY <1>1, <1>2 DEF Shape, refs
  <2> QED
    BY <1>1, <1>2, <2>1, <2>2 DEF Shape
<1>3. \A g \in Handles : d.refs[g] = Cardinality(Clients(G, g)) + Own(d, g)
  <2> SUFFICES ASSUME NEW g \in Handles
               PROVE  d.refs[g] = Cardinality(Clients(G, g)) + Own(d, g)
    OBVIOUS
  <2>1. c.refs[g] = Cardinality(Clients(H, g)) + Own(c, g)
    BY DEF Counted
  <2>2. Own(d, g) = Own(c, g) /\ Own(c, g) \in Nat
    BY <1>2 DEF Own
  <2>3. CASE g = h
    BY <1>1, <1>2, <2>1, <2>2, <2>3, <1>9, ClientsFinite DEF Shape, refs
  <2>4. CASE g # h
    BY <1>1, <1>2, <2>1, <2>2, <2>4, <1>9 DEF Shape, refs
  <2> QED
    BY <2>3, <2>4
<1>4. d.allocated = {g \in Handles : d.refs[g] > 0}
  <2>1. c.refs[h] \in Nat /\ h \in c.allocated
    BY <1>1, CountedMeans
  <2>2. c.allocated = {g \in Handles : c.refs[g] > 0}
    BY DEF Counted
  <2>3. \A g \in Handles \ {h} : d.refs[g] = c.refs[g]
    BY <1>1, <1>2 DEF Shape, refs
  <2>4. d.refs[h] = c.refs[h] - 1 /\ c.refs[h] > 0
    BY <1>1, <1>2, <2>1, <2>2 DEF Shape, refs
  <2> QED
    BY <1>1, <1>2, <2>1, <2>2, <2>3, <2>4 DEF allocated
<1> QED
  BY <1>2, <1>s, <1>3, <1>4 DEF Counted, d, G

(* FinishErase: a cached entry loses the cache's reference and is freed if *)
(* it had no other.                                                        *)
LEMMA EraseCounts ==
  ASSUME NEW c, NEW H, Counted(c, H), NEW S \in SUBSET c.table
  PROVE  /\ Counted(FinishErase(c, S), H)
         /\ FinishErase(c, S).table = c.table \ S
         /\ FinishErase(c, S).key = c.key
<1> DEFINE d == FinishErase(c, S)
           refs == [h \in Handles |-> IF h \in S THEN c.refs[h] - 1 ELSE c.refs[h]]
           freed == {h \in S : c.refs[h] = 1}
           lru == Without(c.lru, S)
           usage == c.usage - Cardinality(S)
<1>1. Shape(c) /\ S \subseteq Handles
  BY DEF Counted, Shape
<1>0. d = [c EXCEPT !.table = @ \ S, !.inCache = @ \ S, !.lru = lru,
                    !.inUse = @ \ S, !.usage = usage, !.refs = refs,
                    !.allocated = @ \ freed]
  BY DEF FinishErase
<1> HIDE DEF d, refs, freed, lru, usage
<1>2. /\ d.refs = refs /\ d.allocated = c.allocated \ freed
      /\ d.key = c.key /\ d.inCache = c.inCache \ S /\ d.table = c.table \ S
  BY <1>0, <1>1, SMT DEF Shape
<1>3. Shape(d)
  <2>1. d = [allocated |-> d.allocated, key |-> d.key, refs |-> d.refs,
             inCache |-> d.inCache, table |-> d.table, lru |-> d.lru,
             inUse |-> d.inUse, usage |-> d.usage]
    <3>1. d = [allocated |-> c.allocated \ freed, key |-> c.key, refs |-> refs,
                 inCache |-> c.inCache \ S, table |-> c.table \ S, lru |-> lru,
                 inUse |-> c.inUse \ S, usage |-> usage]
      BY <1>0, <1>1, Zenon DEF Shape
    <3> QED
      BY <3>1, Zenon
  <2>2. d.refs \in [Handles -> Int]
    BY <1>1, <1>2 DEF Shape, refs
  <2> QED
    BY <1>1, <1>2, <2>1, <2>2 DEF Shape
<1>4. \A g \in Handles : d.refs[g] = Cardinality(Clients(H, g)) + Own(d, g)
  <2> SUFFICES ASSUME NEW g \in Handles
               PROVE  d.refs[g] = Cardinality(Clients(H, g)) + Own(d, g)
    OBVIOUS
  <2>1. c.refs[g] = Cardinality(Clients(H, g)) + Own(c, g)
    BY DEF Counted
  <2>2. Own(d, g) = IF g \in S THEN Own(c, g) - 1 ELSE Own(c, g)
    BY <1>2 DEF Own
  <2>3. Own(c, g) \in Nat
    BY DEF Own
  <2> QED
    BY <1>2, <2>1, <2>2, <2>3, ClientsFinite DEF refs
<1>5. d.allocated = {g \in Handles : d.refs[g] > 0}
  <2>1. c.allocated = {g \in Handles : c.refs[g] > 0}
    BY DEF Counted
  <2>2. \A g \in Handles : c.refs[g] \in Nat
    BY CountedMeans
  <2> QED
    BY <1>1, <1>2, <2>1, <2>2 DEF refs, freed
<1> QED
  BY <1>2, <1>3, <1>4, <1>5 DEF Counted, d

(* A new entry: the reference of its reader, and that of the cache if it   *)
(* goes into the table.                                                    *)
LEMMA FreshCounts ==
  ASSUME NEW c, NEW H \in [Threads -> SUBSET Handles], Counted(c, H),
         NEW t \in Threads, NEW h \in Handles \ c.allocated,
         NEW own \in {0, 1}, NEW e, Shape(e),
         e.refs[h] = 1 + own,
         \A g \in Handles \ {h} : e.refs[g] = c.refs[g],
         e.table = IF own = 1 THEN c.table \union {h} ELSE c.table,
         e.allocated = c.allocated \union {h}
  PROVE  Counted(e, More(H, t, h))
<1> DEFINE G == More(H, t, h)
<1>1. /\ h \in Handles /\ c.refs[h] = 0 /\ h \notin c.table /\ h \notin H[t]
      /\ c.refs \in [Handles -> Int] /\ c.table \subseteq Handles
  BY CountedMeans DEF Counted, Shape
<1>2. /\ Cardinality(Clients(G, h)) = Cardinality(Clients(H, h)) + 1
      /\ \A g \in Handles \ {h} : Clients(G, g) = Clients(H, g)
  <2>1. h \in Handles /\ h \notin H[t]
    BY <1>1
  <2> QED
    BY <2>1, OneMore DEF More
<1> HIDE DEF G
<1>3. \A g \in Handles : e.refs[g] = Cardinality(Clients(G, g)) + Own(e, g)
  <2> SUFFICES ASSUME NEW g \in Handles
               PROVE  e.refs[g] = Cardinality(Clients(G, g)) + Own(e, g)
    OBVIOUS
  <2>1. c.refs[g] = Cardinality(Clients(H, g)) + Own(c, g)
    BY DEF Counted
  <2>2. CASE g = h
    <3>1. Own(c, h) = 0 /\ Own(e, h) = own
      BY <1>1 DEF Own
    <3> QED
      BY <1>1, <1>2, <2>1, <2>2, <3>1, ClientsFinite
  <2>3. CASE g # h
    <3>1. Own(e, g) = Own(c, g)
      BY <2>3 DEF Own
    <3> QED
      BY <1>1, <1>2, <2>1, <2>3, <3>1
  <2> QED
    BY <2>2, <2>3
<1>4. e.allocated = {g \in Handles : e.refs[g] > 0}
  <2>1. c.allocated = {g \in Handles : c.refs[g] > 0}
    BY DEF Counted
  <2>2. e.refs[h] > 0 /\ \A g \in Handles \ {h} : e.refs[g] = c.refs[g]
    BY <1>1
  <2> QED
    BY <2>1, <2>2
<1> QED
  BY <1>3, <1>4 DEF Counted, G

(* Insert when the cache has no room at all: the entry is its reader's.    *)
LEMMA UncachedCounts ==
  ASSUME NEW c, NEW H \in [Threads -> SUBSET Handles], Counted(c, H),
         NEW t \in Threads, NEW h \in Handles \ c.allocated, NEW f \in Tables,
         Capacity = 0, NEW d, d = Inserted(c, h, f)
  PROVE  /\ Counted(d, More(H, t, h))
         /\ d.key = [c.key EXCEPT ![h] = f] /\ d.inCache = c.inCache /\ d.table = c.table
         /\ d.lru = c.lru /\ d.inUse = c.inUse /\ d.usage = c.usage
<1> DEFINE allocated == c.allocated \union {h}
           key == [c.key EXCEPT ![h] = f]
           refs == [c.refs EXCEPT ![h] = 1]
<1>1. /\ Shape(c) /\ h \in Handles /\ h \notin c.table
      /\ c.key \in [Handles -> Tables] /\ c.refs \in [Handles -> Int]
  BY CountedMeans DEF Counted, Shape
<1>2. d = [c EXCEPT !.allocated = allocated, !.key = key, !.refs = refs]
  BY DEF Inserted, Allocated
<1> HIDE DEF allocated, key, refs
<1>3. d = [allocated |-> allocated, key |-> key, refs |-> refs,
           inCache |-> c.inCache, table |-> c.table, lru |-> c.lru,
           inUse |-> c.inUse, usage |-> c.usage]
  BY <1>1, <1>2, Zenon DEF Shape
<1>4. d = [allocated |-> d.allocated, key |-> d.key, refs |-> d.refs,
           inCache |-> d.inCache, table |-> d.table, lru |-> d.lru,
           inUse |-> d.inUse, usage |-> d.usage]
  BY <1>3, Zenon
<1>5. /\ d.allocated = allocated /\ d.key = key /\ d.refs = refs
      /\ d.inCache = c.inCache /\ d.table = c.table
      /\ d.lru = c.lru /\ d.inUse = c.inUse /\ d.usage = c.usage
  BY <1>3
<1>6. key \in [Handles -> Tables] /\ refs \in [Handles -> Int]
  BY <1>1 DEF key, refs
<1>7. Shape(d)
  BY <1>1, <1>4, <1>5, <1>6 DEF Shape
<1>8. Counted(d, More(H, t, h))
  <2> DEFINE own == 0
  <2>1. own \in {0, 1} /\ own # 1 /\ 1 + own = 1
    OBVIOUS
  <2> HIDE DEF own
  <2>2. /\ d.refs[h] = 1 + own
        /\ \A g \in Handles \ {h} : d.refs[g] = c.refs[g]
        /\ d.table = IF own = 1 THEN c.table \union {h} ELSE c.table
        /\ d.allocated = c.allocated \union {h}
    BY <1>1, <1>5, <2>1 DEF allocated, refs
  <2> QED
    BY <1>7, <2>1, <2>2, FreshCounts
<1> QED
  BY <1>5, <1>8 DEF key

(* Insert: the new entry is in the hash table, beside the one it replaces. *)
LEMMA EnteredCounts ==
  ASSUME NEW c, NEW H \in [Threads -> SUBSET Handles], Counted(c, H),
         NEW t \in Threads, NEW h \in Handles \ c.allocated, NEW f \in Tables,
         Capacity # 0, NEW d, d = Entered(c, h, f)
  PROVE  /\ Counted(d, More(H, t, h))
         /\ d.key = [c.key EXCEPT ![h] = f]
         /\ d.inCache = c.inCache \union {h} /\ d.table = c.table \union {h}
         /\ d.lru = c.lru /\ d.inUse = c.inUse \union {h} /\ d.usage = c.usage + 1
<1> DEFINE e == Allocated(c, h, f)
           allocated == c.allocated \union {h}
           key == [c.key EXCEPT ![h] = f]
           refs == [c.refs EXCEPT ![h] = 2]
           inCache == c.inCache \union {h}
           table == c.table \union {h}
           inUse == c.inUse \union {h}
           usage == c.usage + 1
<1>1. /\ Shape(c) /\ h \in Handles /\ h \notin c.table
      /\ c.key \in [Handles -> Tables] /\ c.refs \in [Handles -> Int]
  BY CountedMeans DEF Counted, Shape
<1>2. d = [allocated |-> allocated, key |-> key, refs |-> refs,
           inCache |-> inCache, table |-> table, lru |-> c.lru,
           inUse |-> inUse, usage |-> usage]
  <2> DEFINE a == [c EXCEPT !.allocated = @ \union {h}, !.key[h] = f, !.refs[h] = 1]
             first == [c.refs EXCEPT ![h] = 1]
  <2>1. e = [a EXCEPT !.refs[h] = 2, !.inCache = @ \union {h},
                      !.inUse = @ \union {h}, !.usage = @ + 1]
    BY DEF Allocated
  <2>2. a = [allocated |-> allocated, key |-> key, refs |-> first,
             inCache |-> c.inCache, table |-> c.table, lru |-> c.lru,
             inUse |-> c.inUse, usage |-> c.usage]
    <3>1. a = [c EXCEPT !.allocated = allocated, !.key = key, !.refs = first]
      OBVIOUS
    <3> HIDE DEF a, allocated, key, first
    <3> QED
      BY <1>1, <3>1, Zenon DEF Shape
  <2>3. [first EXCEPT ![h] = 2] = refs
    BY <1>1
  <2> HIDE DEF a, first
  <2>4. e = [allocated |-> allocated, key |-> key, refs |-> refs,
             inCache |-> inCache, table |-> c.table, lru |-> c.lru,
             inUse |-> inUse, usage |-> usage]
    BY <2>1, <2>2, <2>3, Zenon
  <2>0. d = [e EXCEPT !.table = @ \union {h}]
    BY DEF Entered
  <2> HIDE DEF e
  <2>5. e.table = c.table
    BY <2>4, Zenon
  <2>6. d = [e EXCEPT !.table = table]
    BY <2>0, <2>5
  <2> HIDE DEF table
  <2> QED
    BY <2>4, <2>6, Zenon
<1> HIDE DEF allocated, key, refs, inCache, table, inUse, usage
<1>3. d = [allocated |-> d.allocated, key |-> d.key, refs |-> d.refs,
           inCache |-> d.inCache, table |-> d.table, lru |-> d.lru,
           inUse |-> d.inUse, usage |-> d.usage]
  BY <1>2, Zenon
<1>4. /\ d.allocated = allocated /\ d.key = key /\ d.refs = refs
      /\ d.inCache = inCache /\ d.table = table
      /\ d.lru = c.lru /\ d.inUse = inUse /\ d.usage = usage
  BY <1>2
<1>5. /\ key \in [Handles -> Tables] /\ refs \in [Handles -> Int]
      /\ table \in SUBSET Handles /\ inCache = table
  BY <1>1 DEF key, refs, table, inCache, Shape
<1>6. Shape(d)
  BY <1>3, <1>4, <1>5 DEF Shape
<1>7. Counted(d, More(H, t, h))
  <2> DEFINE own == 1
  <2>1. own \in {0, 1} /\ own = 1 /\ 1 + own = 2
    OBVIOUS
  <2> HIDE DEF own
  <2>2. /\ d.refs[h] = 1 + own
        /\ \A g \in Handles \ {h} : d.refs[g] = c.refs[g]
        /\ d.table = IF own = 1 THEN c.table \union {h} ELSE c.table
        /\ d.allocated = c.allocated \union {h}
    BY <1>1, <1>4, <2>1 DEF allocated, refs, table
  <2> QED
    BY <1>6, <2>1, <2>2, FreshCounts
<1> QED
  BY <1>4, <1>7 DEF key, inCache, table, inUse, usage

(* Insert up to its loop: the new entry replaces the one of the same table *)
(* in the hash table, whose clients keep it.                               *)
LEMMA InsertedCounts ==
  ASSUME NEW c, NEW H \in [Threads -> SUBSET Handles], Counted(c, H),
         NEW t \in Threads, NEW h \in Handles \ c.allocated, NEW f \in Tables
  PROVE  /\ Counted(Inserted(c, h, f), [H EXCEPT ![t] = @ \union {h}])
         /\ Inserted(c, h, f).key[h] = f
         /\ \A g \in Handles \ {h} : Inserted(c, h, f).key[g] = c.key[g]
         /\ \/ Inserted(c, h, f).table = c.table
            \/ \A g : g \in Inserted(c, h, f).table <=>
                       (g \in c.table /\ c.key[g] # f) \/ g = h
<1> DEFINE G == More(H, t, h)
<1>1. h \in Handles /\ h \notin c.table /\ c.key \in [Handles -> Tables]
  BY CountedMeans DEF Counted, Shape
<1>2. CASE Capacity = 0
  <2> DEFINE d == Inserted(c, h, f)
  <2>9. d = Inserted(c, h, f)
    OBVIOUS
  <2> HIDE DEF d
  <2>1. Counted(d, G) /\ d.key = [c.key EXCEPT ![h] = f] /\ d.table = c.table
    BY <1>2, <2>9, UncachedCounts
  <2>2. d.key[h] = f /\ \A g \in Handles \ {h} : d.key[g] = c.key[g]
    BY <1>1, <2>1
  <2> QED
    BY <2>1, <2>2 DEF d, More
<1>3. CASE Capacity # 0
  <2> DEFINE d == Entered(c, h, f)
             S == {g \in c.table : c.key[g] = f}
  <2>1. Inserted(c, h, f) = FinishErase(d, S)
    BY <1>3 DEF Inserted, Entered
  <2>9. d = Entered(c, h, f)
    OBVIOUS
  <2> HIDE DEF d
  <2>2. /\ Counted(d, G) /\ d.key = [c.key EXCEPT ![h] = f]
        /\ d.table = c.table \union {h}
    BY <1>3, <2>9, EnteredCounts
  <2>3. /\ Counted(FinishErase(d, S), G)
        /\ FinishErase(d, S).table = d.table \ S
        /\ FinishErase(d, S).key = d.key
    <3>1. S \in SUBSET d.table
      BY <2>2
    <3> QED
      BY <2>2, <3>1, EraseCounts
  <2>4. d.table \ S = {g \in c.table : c.key[g] # f} \union {h}
    BY <1>1, <2>2
  <2> DEFINE e == Inserted(c, h, f)
  <2>5. /\ Counted(e, G) /\ e.key = [c.key EXCEPT ![h] = f]
        /\ e.table = {g \in c.table : c.key[g] # f} \union {h}
    BY <2>1, <2>2, <2>3, <2>4, Zenon
  <2> HIDE DEF e, S
  <2>6. /\ e.key[h] = f /\ \A g \in Handles \ {h} : e.key[g] = c.key[g]
        /\ \A g : g \in e.table <=> (g \in c.table /\ c.key[g] # f) \/ g = h
    BY <1>1, <2>5
  <2> QED
    BY <2>5, <2>6 DEF e, More
<1> QED
  BY <1>2, <1>3

-----------------------------------------------------------------------------
(* The invariant, one lemma per group of actions.                          *)

\* The cache begins empty.
LEMMA InitCacheInv == Init => CacheInv
<1> SUFFICES ASSUME Init PROVE CacheInv
  OBVIOUS
<1>1. \A h \in Handles : Clients(held, h) = {}
  BY DEF Init, Clients
<1>2. \A h \in Handles : Cardinality(Clients(held, h)) = 0
  BY <1>1, FS_EmptySet
<1>3. (CHOOSE f \in Tables : TRUE) \in Tables
  BY CacheAssumption
<1>4. /\ cache.key \in [Handles -> Tables]
      /\ cache.refs = [h \in Handles |-> 0]
      /\ cache.table = {} /\ cache.inCache = {} /\ cache.allocated = {}
  BY <1>3 DEF Init, EmptyCache
<1>5. Shape(cache)
  <2>1. cache = [allocated |-> cache.allocated, key |-> cache.key,
                 refs |-> cache.refs, inCache |-> cache.inCache,
                 table |-> cache.table, lru |-> cache.lru,
                 inUse |-> cache.inUse, usage |-> cache.usage]
    BY Zenon DEF Init, EmptyCache
  <2> QED
    BY <1>4, <2>1 DEF Shape
<1>6. Counted(cache, held)
  <2>1. \A h \in Handles : cache.refs[h] = 0 /\ Own(cache, h) = 0
    BY <1>4 DEF Own
  <2> QED
    BY <1>2, <1>4, <1>5, <2>1 DEF Counted
<1>7. OnePerTable
  BY <1>4 DEF OnePerTable
<1>8. ReadersPinned
  BY DEF Init, ReadersPinned
<1> QED
  BY <1>6, <1>7, <1>8 DEF CacheInv

(* Steps that leave the cache alone.                                       *)
LEMMA VersionSteps ==
  ASSUME CacheInv, NEW t \in Threads, NEW f \in Tables,
         \/ PinVersion(t) \/ FindMiss(t, f) \/ Open(t) \/ OpenFails(t)
         \/ UnpinVersion(t) \/ DropTable(f)
  PROVE  CacheInv'
<1>1. cache' = cache /\ held' = held /\ files' = files
  BY DEF PinVersion, FindMiss, Open, OpenFails, UnpinVersion, DropTable
<1>2. Counted(cache, held)' /\ OnePerTable'
  BY <1>1 DEF CacheInv, OnePerTable
<1>3. ReadersPinned'
  <2> USE <1>1 DEF CacheInv, ReadersPinned
  <2>1. CASE PinVersion(t)
    BY <2>1 DEF PinVersion
  <2>2. CASE FindMiss(t, f)
    BY <2>2 DEF FindMiss, Wants
  <2>3. CASE Open(t)
    BY <2>3 DEF Open
  <2>4. CASE OpenFails(t)
    BY <2>4 DEF OpenFails
  <2>5. CASE UnpinVersion(t)
    BY <2>5 DEF UnpinVersion
  <2>6. CASE DropTable(f)
    BY <2>6 DEF DropTable
  <2> QED
    BY <2>1, <2>2, <2>3, <2>4, <2>5, <2>6
<1> QED
  BY <1>2, <1>3 DEF CacheInv

\* A lookup that hits (TableCache::FindTable, LRUCache::Lookup) keeps the
\* invariant.
LEMMA FindHitStep ==
  ASSUME CacheInv, NEW t \in Threads, NEW f \in Tables, FindHit(t, f)
  PROVE  CacheInv'
<1>1. PICK h \in Lookup(f) : /\ cache' = Ref(cache, h)
                             /\ held' = [held EXCEPT ![t] = @ \union {h}]
  BY DEF FindHit
<1>2. /\ h \in cache.table /\ h \in Handles /\ cache.key[h] = f
      /\ h \notin held[t] /\ held \in [Threads -> SUBSET Handles]
      /\ Counted(cache, held)
  BY DEF CacheInv, ReadersPinned, Counted, Shape, Lookup, FindHit, Wants
<1>3. /\ Counted(cache, held)'
      /\ cache'.table = cache.table /\ cache'.key = cache.key
  BY <1>1, <1>2, RefCounts
<1>4. OnePerTable'
  BY <1>3 DEF CacheInv, OnePerTable, FindHit
<1>5. ReadersPinned'
  BY <1>1, <1>2, <1>3 DEF CacheInv, ReadersPinned, FindHit, Wants
<1> QED
  BY <1>3, <1>4, <1>5 DEF CacheInv

\* LRUCache::Release keeps the invariant.
LEMMA ReleaseStep ==
  ASSUME CacheInv, NEW t \in Threads, NEW h \in Handles, Release(t, h)
  PROVE  CacheInv'
<1>1. /\ h \in held[t] /\ held \in [Threads -> SUBSET Handles]
      /\ Counted(cache, held)
      /\ cache' = Unref(cache, h) /\ held' = [held EXCEPT ![t] = @ \ {h}]
  BY DEF CacheInv, ReadersPinned, Release
<1>2. /\ Counted(cache, held)'
      /\ cache'.table = cache.table /\ cache'.key = cache.key
  BY <1>1, UnrefCounts
<1>3. OnePerTable'
  BY <1>2 DEF CacheInv, OnePerTable, Release
<1>4. ReadersPinned'
  BY <1>1, <1>2 DEF CacheInv, ReadersPinned, Release
<1> QED
  BY <1>2, <1>3, <1>4 DEF CacheInv

(* Insert: whatever the loop evicts, it takes from the hash table.         *)
LEMMA InsertStep ==
  ASSUME CacheInv, NEW t \in Threads, NEW h \in Handles, Insert(t, h)
  PROVE  CacheInv'
<1>1. PICK f \in opened[t] :
        LET c == Inserted(cache, h, f)
        IN cache' = FinishErase(c, Remove(c, Oldest(c)))
  BY DEF Insert
<1> DEFINE c == Inserted(cache, h, f)
           S == Remove(c, Oldest(c))
<1>2. /\ h \in Handles \ cache.allocated
      /\ held \in [Threads -> SUBSET Handles] /\ Counted(cache, held)
      /\ held' = [held EXCEPT ![t] = @ \union {h}]
      /\ opened' = [opened EXCEPT ![t] = {}]
      /\ f \in Tables /\ f \in pinned[t] /\ f \in files
      /\ \A g \in held[t] : cache.key[g] # f
      /\ cache.key \in [Handles -> Tables]
  BY DEF CacheInv, ReadersPinned, Insert, Counted, Shape
<1>3. /\ Counted(c, held')
      /\ c.key[h] = f /\ \A g \in Handles \ {h} : c.key[g] = cache.key[g]
      /\ \/ c.table = cache.table
         \/ \A g : g \in c.table <=>
                    (g \in cache.table /\ cache.key[g] # f) \/ g = h
  <2>1. /\ Counted(c, [held EXCEPT ![t] = @ \union {h}])
        /\ c.key[h] = f /\ \A g \in Handles \ {h} : c.key[g] = cache.key[g]
        /\ \/ c.table = cache.table
           \/ \A g : g \in c.table <=>
                      (g \in cache.table /\ cache.key[g] # f) \/ g = h
    <3>1. Counted(Inserted(cache, h, f), [held EXCEPT ![t] = @ \union {h}])
      BY <1>2, InsertedCounts
    <3>2. Inserted(cache, h, f).key[h] = f
      BY <1>2, InsertedCounts
    <3>3. \A g \in Handles \ {h} : Inserted(cache, h, f).key[g] = cache.key[g]
      BY <1>2, InsertedCounts
    <3>4. \/ Inserted(cache, h, f).table = cache.table
          \/ \A g : g \in Inserted(cache, h, f).table <=>
                      (g \in cache.table /\ cache.key[g] # f) \/ g = h
      BY <1>2, InsertedCounts
    <3> QED
      BY <3>1, <3>2, <3>3, <3>4
  <2> HIDE DEF c
  <2> QED
    BY <1>2, <2>1
<1>4. S \in SUBSET c.table
  BY DEF Remove
<1> HIDE DEF c, S
<1>5. /\ Counted(FinishErase(c, S), held')
      /\ FinishErase(c, S).table = c.table \ S
      /\ FinishErase(c, S).key = c.key
  BY <1>3, <1>4, EraseCounts
<1>6. cache' = FinishErase(c, S)
  BY <1>1 DEF c, S
<1>7. /\ h \notin cache.table /\ \A u \in Threads : h \notin held[u]
      /\ cache.table \subseteq Handles
  BY <1>2, CountedMeans DEF Counted, Shape
<1>8. /\ cache'.key[h] = f
      /\ \A g \in Handles \ {h} : cache'.key[g] = cache.key[g]
      /\ cache'.table \subseteq cache.table \union {h}
      /\ h \in cache'.table => \A g \in cache'.table \ {h} : cache.key[g] # f
  BY <1>3, <1>5, <1>6, <1>7
<1>9. OnePerTable'
  BY <1>2, <1>7, <1>8 DEF CacheInv, OnePerTable, Insert
<1>10. ReadersPinned'
  <2>1. current' = current /\ files' = files /\ pinned' = pinned /\ missed' = missed
    BY DEF Insert
  <2>2. /\ \A u \in Threads : held'[u] = IF u = t THEN held[u] \union {h} ELSE held[u]
        /\ \A u \in Threads : opened'[u] \subseteq opened[u]
        /\ opened'[t] = {}
        /\ held' \in [Threads -> SUBSET Handles]
        /\ opened' \in [Threads -> SUBSET Tables]
    BY <1>2 DEF CacheInv, ReadersPinned
  <2>3. \A u \in Threads : \A g \in held[u] : g # h /\ g \in Handles
    BY <1>2, <1>7
  <2>4. \A g \in Handles : cache'.key[g] = IF g = h THEN f ELSE cache.key[g]
    BY <1>2, <1>8
  <2>5. f \notin missed[t]
    BY <1>1 DEF CacheInv, ReadersPinned
  <2> QED
    BY <1>2, <2>1, <2>2, <2>3, <2>4, <2>5 DEF CacheInv, ReadersPinned
<1> QED
  BY <1>5, <1>6, <1>9, <1>10 DEF CacheInv

(* Prune, and the deletion of a file no version lists.                     *)
LEMMA EraseSteps ==
  ASSUME CacheInv, NEW f \in Tables, Prune \/ DeleteObsoleteFile(f)
  PROVE  CacheInv'
<1>1. Counted(cache, held) /\ held' = held
  BY DEF CacheInv, Prune, DeleteObsoleteFile
<1>2. CASE Prune
  <2> DEFINE S == Remove(cache, Lists(cache.lru))
  <2>1. S \in SUBSET cache.table /\ cache' = FinishErase(cache, S)
    BY <1>2 DEF Remove, Prune
  <2> HIDE DEF S
  <2>2. /\ Counted(cache, held)'
        /\ cache'.table = cache.table \ S /\ cache'.key = cache.key
    BY <1>1, <2>1, EraseCounts
  <2>3. OnePerTable' /\ ReadersPinned'
    BY <1>2, <2>2 DEF CacheInv, OnePerTable, ReadersPinned, Prune
  <2> QED
    BY <2>2, <2>3 DEF CacheInv
<1>3. CASE DeleteObsoleteFile(f)
  <2> DEFINE S == Lookup(f)
  <2>1. S \in SUBSET cache.table /\ cache' = FinishErase(cache, S)
    BY <1>3 DEF Lookup, DeleteObsoleteFile
  <2>2. \A g \in cache.table \ S : cache.key[g] # f
    BY DEF Lookup
  <2> HIDE DEF S
  <2>3. /\ Counted(cache, held)'
        /\ cache'.table = cache.table \ S /\ cache'.key = cache.key
    BY <1>1, <2>1, EraseCounts
  <2>4. OnePerTable'
    BY <1>3, <2>2, <2>3 DEF CacheInv, OnePerTable, DeleteObsoleteFile
  <2>5. ReadersPinned'
    <3>1. f \notin current /\ \A t \in Threads : f \notin pinned[t]
      BY <1>3 DEF DeleteObsoleteFile, Live
    <3> QED
      BY <1>3, <2>3, <3>1 DEF CacheInv, ReadersPinned, DeleteObsoleteFile
  <2> QED
    BY <2>3, <2>4, <2>5 DEF CacheInv
<1> QED
  BY <1>2, <1>3

(* The invariant behind both properties (FindTable, LRUCache::Insert,      *)
(* Ref, Unref, FinishErase, DeleteObsoleteFiles).                          *)
THEOREM CacheInvariant == Spec => []CacheInv
<1>1. CacheInv /\ [Next]_vars => CacheInv'
  <2> SUFFICES ASSUME CacheInv, [Next]_vars PROVE CacheInv'
    OBVIOUS
  <2>1. CASE UNCHANGED vars
    BY <2>1 DEF CacheInv, OnePerTable, ReadersPinned, vars
  <2>2. CASE Prune
    BY <2>2, EraseSteps, CacheAssumption
  <2>3. ASSUME NEW f \in Tables, DropTable(f) \/ DeleteObsoleteFile(f)
        PROVE  CacheInv'
    <3>1. CASE DeleteObsoleteFile(f)
      BY <3>1, EraseSteps
    <3>2. CASE DropTable(f)
      <4>1. CASE Threads = {}
        BY <3>2, <4>1 DEF DropTable, CacheInv, OnePerTable, ReadersPinned
      <4>2. CASE Threads # {}
        BY <3>2, <4>2, VersionSteps
      <4> QED
        BY <4>1, <4>2
    <3> QED
      BY <2>3, <3>1, <3>2
  <2>4. ASSUME NEW t \in Threads, NEW f \in Tables, FindHit(t, f) \/ FindMiss(t, f)
        PROVE  CacheInv'
    BY <2>4, FindHitStep, VersionSteps
  <2>5. ASSUME NEW t \in Threads,
               PinVersion(t) \/ Open(t) \/ OpenFails(t) \/ UnpinVersion(t)
        PROVE  CacheInv'
    BY <2>5, VersionSteps, CacheAssumption
  <2>6. ASSUME NEW t \in Threads, NEW h \in Handles, Insert(t, h) \/ Release(t, h)
        PROVE  CacheInv'
    BY <2>6, InsertStep, ReleaseStep
  <2> QED
    BY <2>1, <2>2, <2>3, <2>4, <2>5, <2>6 DEF Next
<1> QED
  BY <1>1, InitCacheInv, PTL DEF Spec

(* No handle that a reader holds is freed, whatever other threads insert,  *)
(* release, evict or delete (LRUCache::Unref and FinishErase).             *)
THEOREM HeldSafe == Spec => []HeldTablesOpen
<1>1. CacheInv => HeldTablesOpen
  <2> SUFFICES ASSUME CacheInv PROVE HeldTablesOpen
    OBVIOUS
  <2>1. \A t \in Threads : \A h \in held[t] : h \in cache.allocated
    BY CountedMeans DEF CacheInv, ReadersPinned
  <2> QED
    BY <2>1 DEF HeldTablesOpen, CacheInv, ReadersPinned
<1> QED
  BY <1>1, CacheInvariant, PTL

(* An open table is in the cache or in use, and the cache keeps no table   *)
(* that was deleted and none twice (FindTable's two insertions of one      *)
(* table, LRUCache::Insert, TableCache::Evict).                            *)
THEOREM LeakSafe == Spec => []NothingLeaks
<1>1. CacheInv => NothingLeaks
  <2> SUFFICES ASSUME CacheInv PROVE NothingLeaks
    OBVIOUS
  <2>1. \A h \in cache.allocated : h \in Handles
    BY DEF CacheInv, Counted
  <2>2. \A h \in cache.allocated : h \in cache.table \/ Clients(held, h) # {}
    BY <2>1, CountedMeans DEF CacheInv
  <2>3. \A h : Clients(held, h) = Holders(h)
    BY DEF Clients, Holders
  <2> QED
    BY <2>2, <2>3 DEF NothingLeaks, CacheInv, OnePerTable
<1> QED
  BY <1>1, CacheInvariant, PTL

-----------------------------------------------------------------------------
(* The lists of the cache.                                                 *)

\* What is left of the first entries of a list without those of S.
LeftOf(lru, S) ==
  LET left[i \in 0 .. Len(lru)] ==
        IF i = 0 THEN <<>>
        ELSE IF lru[i] \in S THEN left[i - 1] ELSE Append(left[i - 1], lru[i])
  IN left

\* The next entry is appended to a list, unless it is in S.
Kept(list, h, S) == IF h \in S THEN list ELSE Append(list, h)

\* The recursive definition of LeftOf has the value it describes.
LEMMA LeftOfDef ==
  ASSUME NEW lru, NEW S, Len(lru) \in Nat
  PROVE  LeftOf(lru, S) = [i \in 0 .. Len(lru) |->
                             IF i = 0 THEN <<>> ELSE Kept(LeftOf(lru, S)[i - 1], lru[i], S)]
<1> DEFINE T == {n \in Nat : \E g : g = [i \in 0 .. n |->
                    IF i = 0 THEN <<>> ELSE Kept(g[i - 1], lru[i], S)]}
<1>1. 0 \in T
  <2> DEFINE g == [i \in 0 .. 0 |-> <<>>]
  <2>1. g = [i \in 0 .. 0 |-> IF i = 0 THEN <<>> ELSE Kept(g[i - 1], lru[i], S)]
    OBVIOUS
  <2>2. \E k : k = [i \in 0 .. 0 |-> IF i = 0 THEN <<>> ELSE Kept(k[i - 1], lru[i], S)]
    <3> HIDE DEF g
    <3> QED
      BY <2>1
  <2> QED
    BY <2>2
<1>2. ASSUME NEW n \in Nat, n \in T PROVE n + 1 \in T
  <2>1. PICK g : g = [i \in 0 .. n |-> IF i = 0 THEN <<>> ELSE Kept(g[i - 1], lru[i], S)]
    BY <1>2
  <2> DEFINE h == [i \in 0 .. n + 1 |-> IF i = n + 1 THEN Kept(g[n], lru[n + 1], S) ELSE g[i]]
  <2>2. ASSUME NEW i \in 0 .. n + 1
        PROVE  h[i] = IF i = 0 THEN <<>> ELSE Kept(h[i - 1], lru[i], S)
    <3>1. CASE i = 0
      BY <2>1, <3>1
    <3>2. CASE i = n + 1
      <4>1. i - 1 = n /\ n \in 0 .. n + 1 /\ n # n + 1 /\ n + 1 # 0
        BY <3>2
      <4>2. h[i - 1] = g[n] /\ h[i] = Kept(g[n], lru[n + 1], S)
        BY <3>2, <4>1
      <4> QED
        BY <3>2, <4>1, <4>2
    <3>3. CASE i \in 1 .. n
      <4>1. /\ i - 1 \in 0 .. n + 1 /\ i - 1 # n + 1 /\ i # n + 1 /\ i # 0
            /\ i \in 0 .. n /\ i \in 0 .. n + 1
        BY <3>3
      <4>2. h[i - 1] = g[i - 1] /\ h[i] = g[i]
        BY <4>1
      <4>3. g[i] = Kept(g[i - 1], lru[i], S)
        BY <2>1, <4>1
      <4> QED
        BY <4>1, <4>2, <4>3
    <3> QED
      BY <3>1, <3>2, <3>3
  <2>3. h = [i \in 0 .. n + 1 |-> IF i = 0 THEN <<>> ELSE Kept(h[i - 1], lru[i], S)]
    <3>1. h = [i \in 0 .. n + 1 |-> h[i]]
      OBVIOUS
    <3> HIDE DEF h
    <3> QED
      BY <2>2, <3>1
  <2>4. \E k : k = [i \in 0 .. n + 1 |-> IF i = 0 THEN <<>> ELSE Kept(k[i - 1], lru[i], S)]
    <3> HIDE DEF h
    <3> QED
      BY <2>3
  <2> QED
    BY <2>4
<1>3. Len(lru) \in T
  <2> HIDE DEF T
  <2> QED
    BY <1>1, <1>2, SetInduction
<1>4. \E g : g = [i \in 0 .. Len(lru) |-> IF i = 0 THEN <<>> ELSE Kept(g[i - 1], lru[i], S)]
  BY <1>3
<1> QED
  BY <1>4 DEF LeftOf, Kept

\* No entry is in the list twice.
OnceEach(lru) == \A i, j \in 1 .. Len(lru) : lru[i] = lru[j] => i = j

\* An entry that is not in the list is added to its end.
LEMMA AppendOnce ==
  ASSUME NEW lru \in Seq(Handles), OnceEach(lru), NEW h \in Handles, h \notin Lists(lru)
  PROVE  /\ Append(lru, h) \in Seq(Handles)
         /\ OnceEach(Append(lru, h))
         /\ Lists(Append(lru, h)) = Lists(lru) \union {h}
<1> DEFINE q == Append(lru, h)
           n == Len(lru)
<1>1. /\ q \in Seq(Handles) /\ n \in Nat /\ Len(q) = n + 1
      /\ \A i \in 1 .. n : q[i] = lru[i]
      /\ q[n + 1] = h
  OBVIOUS
<1>2. \A i \in 1 .. n : lru[i] # h
  BY DEF Lists
<1> HIDE DEF q
<1>3. \A i \in 1 .. n + 1 : i = n + 1 \/ i \in 1 .. n
  BY <1>1
<1>4. OnceEach(q)
  BY <1>1, <1>2, <1>3 DEF OnceEach
<1>5. Lists(q) = Lists(lru) \union {h}
  <2>1. 1 .. n + 1 = (1 .. n) \union {n + 1}
    BY <1>1
  <2> QED
    BY <1>1, <2>1 DEF Lists
<1> QED
  BY <1>1, <1>4, <1>5 DEF q

\* Removing entries from a list removes them, and keeps the others once each.
LEMMA WithoutIs ==
  ASSUME NEW lru \in Seq(Handles), OnceEach(lru), NEW S
  PROVE  /\ Without(lru, S) \in Seq(Handles)
         /\ OnceEach(Without(lru, S))
         /\ Lists(Without(lru, S)) = Lists(lru) \ S
<1> DEFINE L == LeftOf(lru, S)
           n == Len(lru)
           Good(i) == /\ L[i] \in Seq(Handles)
                      /\ OnceEach(L[i])
                      /\ Lists(L[i]) = {lru[j] : j \in 1 .. i} \ S
           T == {i \in Nat : i <= n => Good(i)}
<1>1. n \in Nat
  OBVIOUS
<1>2. \A i \in 0 .. n : L[i] = IF i = 0 THEN <<>> ELSE Kept(L[i - 1], lru[i], S)
  <2>1. L = [i \in 0 .. n |-> IF i = 0 THEN <<>> ELSE Kept(L[i - 1], lru[i], S)]
    BY <1>1, LeftOfDef
  <2> HIDE DEF L, n
  <2> QED
    BY <2>1
<1> HIDE DEF L
<1>3. 0 \in T
  <2>1. L[0] = <<>>
    BY <1>1, <1>2
  <2>2. Lists(<<>>) = {} /\ OnceEach(<<>>)
    BY DEF Lists, OnceEach
  <2>3. {lru[j] : j \in 1 .. 0} = {} /\ <<>> \in Seq(Handles)
    OBVIOUS
  <2>4. L[0] \in Seq(Handles) /\ OnceEach(L[0]) /\ Lists(L[0]) = {}
    BY <2>1, <2>2, <2>3, Zenon
  <2>5. Good(0)
    BY <2>3, <2>4
  <2> QED
    BY <2>5
<1>4. ASSUME NEW i \in Nat, i \in T PROVE i + 1 \in T
  <2> SUFFICES ASSUME i + 1 <= n PROVE Good(i + 1)
    OBVIOUS
  <2> DEFINE q == L[i]
             h == lru[i + 1]
  <2>1. /\ q \in Seq(Handles) /\ OnceEach(q) /\ Lists(q) = {lru[j] : j \in 1 .. i} \ S
        /\ L[i + 1] = Kept(q, h, S)
        /\ h \in Handles
    BY <1>1, <1>2, <1>4
  <2>2. {lru[j] : j \in 1 .. i + 1} = {lru[j] : j \in 1 .. i} \union {h}
    <3>1. 1 .. i + 1 = (1 .. i) \union {i + 1}
      OBVIOUS
    <3> QED
      BY <3>1
  <2> HIDE DEF q
  <2>3. CASE h \in S
    BY <2>1, <2>2, <2>3 DEF Kept
  <2>4. CASE h \notin S
    <3>1. L[i + 1] = Append(q, h)
      BY <2>1, <2>4 DEF Kept
    <3>2. h \notin Lists(q)
      <4>1. \A j \in 1 .. i : lru[j] # h
        BY <1>1 DEF OnceEach
      <4> QED
        BY <2>1, <4>1
    <3>3. /\ Append(q, h) \in Seq(Handles) /\ OnceEach(Append(q, h))
          /\ Lists(Append(q, h)) = Lists(q) \union {h}
      BY <2>1, <3>2, AppendOnce
    <3> QED
      BY <2>1, <2>2, <2>4, <3>1, <3>3
  <2> QED
    BY <2>3, <2>4
<1>5. n \in T
  <2> HIDE DEF T
  <2> QED
    BY <1>1, <1>3, <1>4, SetInduction
<1>6. Without(lru, S) = L[n]
  BY DEF Without, L, LeftOf
<1>7. {lru[j] : j \in 1 .. n} = Lists(lru)
  BY DEF Lists
<1> QED
  BY <1>1, <1>5, <1>6, <1>7

(* The lists of a cache whose clients H says: each entry is in the one it  *)
(* belongs in.                                                             *)
InLists(c, H) ==
  /\ c.lru \in Seq(Handles)
  /\ OnceEach(c.lru)
  /\ c.inUse = {h \in c.inCache : Clients(H, h) # {}}
  /\ Lists(c.lru) = c.inCache \ c.inUse
  /\ c.usage = Cardinality(c.inCache)

\* The entries of the cache are finitely many handles.
LEMMA CachedFinite ==
  ASSUME NEW c, NEW H, Counted(c, H)
  PROVE  c.inCache \in SUBSET Handles /\ IsFiniteSet(c.inCache)
<1>1. c.inCache \in SUBSET Handles
  BY DEF Counted, Shape
<1> QED
  BY <1>1, FS_Subset, CacheAssumption

(* Ref: the entry that gets its first client leaves the LRU list.          *)
LEMMA RefLists ==
  ASSUME NEW c, NEW H \in [Threads -> SUBSET Handles], Counted(c, H), InLists(c, H),
         NEW t \in Threads, NEW h \in c.table, h \notin H[t]
  PROVE  InLists(Ref(c, h), More(H, t, h))
<1> DEFINE G == More(H, t, h)
           d == Ref(c, h)
           first == c.refs[h] = 1 /\ h \in c.inCache
           refs == [c.refs EXCEPT ![h] = @ + 1]
           lru == IF first THEN Without(c.lru, {h}) ELSE c.lru
           inUse == IF first THEN c.inUse \union {h} ELSE c.inUse
<1>1. h \in Handles /\ Shape(c) /\ h \in c.inCache
  BY DEF Counted, Shape
<1>2. d = [c EXCEPT !.refs = refs, !.lru = lru, !.inUse = inUse]
  BY DEF Ref
<1>3. first <=> Clients(H, h) = {}
  <2>1. c.refs[h] = Cardinality(Clients(H, h)) + 1
    BY <1>1 DEF Counted, Own
  <2> QED
    BY <1>1, <2>1, ClientsFinite
<1>4. \A g : Clients(G, g) = IF g = h THEN Clients(H, h) \union {t} ELSE Clients(H, g)
  BY <1>1 DEF Clients, More
<1> HIDE DEF d, refs, lru, inUse, first, G
<1>5. /\ d.lru = lru /\ d.inUse = inUse
      /\ d.inCache = c.inCache /\ d.usage = c.usage
  BY <1>1, <1>2, SMT DEF Shape
<1>6. d.inUse = {g \in c.inCache : Clients(G, g) # {}}
  <2>1. c.inUse = {g \in c.inCache : Clients(H, g) # {}}
    BY DEF InLists
  <2>2. d.inUse = c.inUse \union {h}
    BY <1>1, <1>3, <1>5, <2>1 DEF inUse
  <2>3. \A g : Clients(G, g) # {} <=> g = h \/ Clients(H, g) # {}
    BY <1>4
  <2> QED
    BY <1>1, <2>1, <2>2, <2>3
<1>7. /\ d.lru \in Seq(Handles) /\ OnceEach(d.lru)
      /\ Lists(d.lru) = IF first THEN Lists(c.lru) \ {h} ELSE Lists(c.lru)
  <2>1. c.lru \in Seq(Handles) /\ OnceEach(c.lru)
    BY DEF InLists
  <2>2. CASE first
    BY <1>5, <2>1, <2>2, WithoutIs DEF lru
  <2>3. CASE ~first
    BY <1>5, <2>1, <2>3 DEF lru
  <2> QED
    BY <2>2, <2>3
<1>8. Lists(d.lru) = d.inCache \ d.inUse
  <2>1. Lists(c.lru) = c.inCache \ c.inUse /\ c.inUse = {g \in c.inCache : Clients(H, g) # {}}
    BY DEF InLists
  <2> QED
    BY <1>1, <1>3, <1>5, <1>7, <2>1 DEF inUse
<1> QED
  BY <1>5, <1>6, <1>7, <1>8 DEF InLists, d, G

(* Unref: the entry that loses its last client becomes the newest of the   *)
(* LRU list, if it is cached.                                              *)
LEMMA UnrefLists ==
  ASSUME NEW c, NEW H \in [Threads -> SUBSET Handles], Counted(c, H), InLists(c, H),
         NEW t \in Threads, NEW h \in H[t], NEW G, G = [H EXCEPT ![t] = @ \ {h}]
  PROVE  InLists(Unref(c, h), G)
<1> DEFINE d == Unref(c, h)
           unused == c.refs[h] = 2 /\ h \in c.inCache
           refs == [c.refs EXCEPT ![h] = @ - 1]
           allocated == IF c.refs[h] = 1 THEN c.allocated \ {h} ELSE c.allocated
           lru == IF unused THEN Append(c.lru, h) ELSE c.lru
           inUse == IF unused THEN c.inUse \ {h} ELSE c.inUse
<1>1. h \in Handles /\ Shape(c)
  BY DEF Counted
<1>2. d = [c EXCEPT !.refs = refs, !.allocated = allocated, !.lru = lru, !.inUse = inUse]
  BY DEF Unref
<1>3. \A g : Clients(G, g) = IF g = h THEN Clients(H, h) \ {t} ELSE Clients(H, g)
  BY <1>1 DEF Clients
<1>4. unused <=> h \in c.inCache /\ Clients(G, h) = {}
  <2>1. c.refs[h] = Cardinality(Clients(H, h)) + Own(c, h)
    BY <1>1 DEF Counted
  <2>2. t \in Clients(H, h)
    BY DEF Clients
  <2>3. Cardinality(Clients(H, h) \ {t}) = Cardinality(Clients(H, h)) - 1
    BY <2>2, ClientsFinite, FS_RemoveElement
  <2>4. Cardinality(Clients(G, h)) = Cardinality(Clients(H, h)) - 1
    BY <1>3, <2>3
  <2>5. h \in c.inCache => Own(c, h) = 1
    BY <1>1 DEF Own, Shape
  <2>6. /\ Cardinality(Clients(H, h)) \in Nat
        /\ Cardinality(Clients(G, h)) = 0 <=> Clients(G, h) = {}
    BY ClientsFinite
  <2>7. h \in c.inCache => (c.refs[h] = 2 <=> Cardinality(Clients(G, h)) = 0)
    BY <2>1, <2>4, <2>5, <2>6
  <2> QED
    BY <2>6, <2>7
<1> HIDE DEF d, refs, allocated, lru, inUse, unused
<1>5. /\ d.lru = lru /\ d.inUse = inUse
      /\ d.inCache = c.inCache /\ d.usage = c.usage
  BY <1>1, <1>2, SMT DEF Shape
<1>6. /\ c.lru \in Seq(Handles) /\ OnceEach(c.lru)
      /\ c.inUse = {g \in c.inCache : Clients(H, g) # {}}
      /\ Lists(c.lru) = c.inCache \ c.inUse
      /\ c.usage = Cardinality(c.inCache)
  BY DEF InLists
<1>7. Clients(H, h) # {}
  BY DEF Clients
<1>8. d.inUse = {g \in c.inCache : Clients(G, g) # {}}
  <2>1. \A g : g # h => (Clients(G, g) # {} <=> Clients(H, g) # {})
    BY <1>3
  <2> QED
    BY <1>4, <1>5, <1>6, <1>7, <2>1 DEF inUse
<1>9. /\ d.lru \in Seq(Handles) /\ OnceEach(d.lru)
      /\ Lists(d.lru) = IF unused THEN Lists(c.lru) \union {h} ELSE Lists(c.lru)
  <2>1. unused => h \notin Lists(c.lru)
    BY <1>4, <1>6, <1>7
  <2> QED
    BY <1>1, <1>5, <1>6, <2>1, AppendOnce DEF lru
<1>10. Lists(d.lru) = d.inCache \ d.inUse
  BY <1>4, <1>5, <1>6, <1>7, <1>9 DEF inUse
<1> QED
  BY <1>5, <1>6, <1>8, <1>9, <1>10 DEF InLists, d

(* FinishErase: what is erased is in neither list and not counted.         *)
LEMMA EraseLists ==
  ASSUME NEW c, NEW H, Counted(c, H), InLists(c, H), NEW S \in SUBSET c.table
  PROVE  InLists(FinishErase(c, S), H)
<1> DEFINE d == FinishErase(c, S)
           refs == [h \in Handles |-> IF h \in S THEN c.refs[h] - 1 ELSE c.refs[h]]
           freed == {h \in S : c.refs[h] = 1}
           lru == Without(c.lru, S)
           usage == c.usage - Cardinality(S)
<1>1. Shape(c) /\ S \subseteq c.inCache
  BY DEF Counted, Shape
<1>2. d = [c EXCEPT !.table = @ \ S, !.inCache = @ \ S, !.lru = lru,
                    !.inUse = @ \ S, !.usage = usage, !.refs = refs,
                    !.allocated = @ \ freed]
  BY DEF FinishErase
<1> HIDE DEF d, refs, freed, lru, usage
<1>3. /\ d.lru = lru /\ d.inUse = c.inUse \ S
      /\ d.inCache = c.inCache \ S /\ d.usage = usage
  BY <1>1, <1>2, SMT DEF Shape
<1>4. /\ c.lru \in Seq(Handles) /\ OnceEach(c.lru)
      /\ c.inUse = {g \in c.inCache : Clients(H, g) # {}}
      /\ Lists(c.lru) = c.inCache \ c.inUse
      /\ c.usage = Cardinality(c.inCache)
  BY DEF InLists
<1>5. d.lru \in Seq(Handles) /\ OnceEach(d.lru) /\ Lists(d.lru) = Lists(c.lru) \ S
  BY <1>3, <1>4, WithoutIs DEF lru
<1>6. Cardinality(c.inCache \ S) = Cardinality(c.inCache) - Cardinality(S)
  <2>1. IsFiniteSet(c.inCache) /\ IsFiniteSet(S)
    BY <1>1, CachedFinite, FS_Subset
  <2>2. c.inCache \cap S = S
    BY <1>1
  <2> QED
    BY <2>1, <2>2, FS_Difference
<1>7. /\ d.inUse = {g \in d.inCache : Clients(H, g) # {}}
      /\ Lists(d.lru) = d.inCache \ d.inUse
  BY <1>3, <1>4, <1>5
<1> QED
  BY <1>3, <1>4, <1>5, <1>6, <1>7 DEF InLists, usage, d

(* Insert up to its loop.                                                  *)
LEMMA InsertedLists ==
  ASSUME NEW c, NEW H \in [Threads -> SUBSET Handles], Counted(c, H), InLists(c, H),
         NEW t \in Threads, NEW h \in Handles \ c.allocated, NEW f \in Tables
  PROVE  InLists(Inserted(c, h, f), More(H, t, h))
<1> DEFINE G == More(H, t, h)
<1>1. /\ h \in Handles /\ h \notin c.table /\ c.inCache = c.table
      /\ \A u \in Threads : h \notin H[u]
  BY CountedMeans DEF Counted, Shape
<1>2. Clients(H, h) = {}
  BY <1>1 DEF Clients
<1>3. \A g : Clients(G, g) = IF g = h THEN {t} ELSE Clients(H, g)
  BY <1>1, <1>2 DEF Clients, More
<1>4. /\ c.lru \in Seq(Handles) /\ OnceEach(c.lru)
      /\ c.inUse = {g \in c.inCache : Clients(H, g) # {}}
      /\ Lists(c.lru) = c.inCache \ c.inUse
      /\ c.usage = Cardinality(c.inCache)
  BY DEF InLists
<1> HIDE DEF G
<1>5. CASE Capacity = 0
  <2> DEFINE d == Inserted(c, h, f)
  <2>1. d = Inserted(c, h, f)
    OBVIOUS
  <2> HIDE DEF d
  <2>2. /\ Counted(d, More(H, t, h))
        /\ d.key = [c.key EXCEPT ![h] = f] /\ d.inCache = c.inCache /\ d.table = c.table
        /\ d.lru = c.lru /\ d.inUse = c.inUse /\ d.usage = c.usage
    BY <1>5, <2>1, UncachedCounts
  <2>3. d.inUse = {g \in d.inCache : Clients(G, g) # {}}
    BY <1>1, <1>3, <1>4, <2>2
  <2> QED
    BY <1>4, <2>2, <2>3 DEF InLists, d, G
<1>6. CASE Capacity # 0
  <2> DEFINE d == Entered(c, h, f)
             S == {g \in c.table : c.key[g] = f}
  <2>1. Inserted(c, h, f) = FinishErase(d, S)
    BY <1>6 DEF Inserted, Entered
  <2>2. d = Entered(c, h, f)
    OBVIOUS
  <2> HIDE DEF d
  <2>3. /\ Counted(d, More(H, t, h))
        /\ d.key = [c.key EXCEPT ![h] = f]
        /\ d.inCache = c.inCache \union {h} /\ d.table = c.table \union {h}
        /\ d.lru = c.lru /\ d.inUse = c.inUse \union {h} /\ d.usage = c.usage + 1
    BY <1>6, <2>2, EnteredCounts
  <2>4. d.inUse = {g \in d.inCache : Clients(G, g) # {}}
    BY <1>1, <1>3, <1>4, <2>3
  <2>5. Lists(d.lru) = d.inCache \ d.inUse
    BY <1>1, <1>4, <2>3
  <2>6. d.usage = Cardinality(d.inCache)
    <3>1. IsFiniteSet(c.inCache) /\ h \notin c.inCache
      BY <1>1, CachedFinite
    <3>2. Cardinality(c.inCache \union {h}) = Cardinality(c.inCache) + 1
      BY <3>1, FS_AddElement
    <3> QED
      BY <1>4, <2>3, <3>2
  <2>7. InLists(d, G)
    BY <1>4, <2>3, <2>4, <2>5, <2>6 DEF InLists
  <2>8. S \in SUBSET d.table
    BY <2>3
  <2>9. InLists(FinishErase(d, S), G)
    BY <2>3, <2>7, <2>8, EraseLists DEF G
  <2> QED
    BY <2>1, <2>9 DEF G
<1> QED
  BY <1>5, <1>6

(* A list without duplicates is as long as its set of entries.             *)
LEMMA OnceEachCount ==
  ASSUME NEW lru \in Seq(Handles), OnceEach(lru)
  PROVE  Cardinality(Lists(lru)) = Len(lru)
<1> DEFINE n == Len(lru)
           F == [i \in 1 .. n |-> lru[i]]
<1>1. n \in Nat
  OBVIOUS
<1>2. F \in [1 .. n -> Lists(lru)]
  BY DEF Lists
<1>3. \A i, j \in 1 .. n : F[i] = F[j] => i = j
  BY DEF OnceEach
<1>4. \A g \in Lists(lru) : \E i \in 1 .. n : F[i] = g
  BY DEF Lists
<1> HIDE DEF F, n
<1>5. F \in Bijection(1 .. n, Lists(lru))
  BY <1>2, <1>3, <1>4, Fun_IsBij
<1>6. ExistsBijection(1 .. n, Lists(lru))
  BY <1>5, Fun_ExistsBij
<1> QED
  BY <1>1, <1>6, FS_CountingElements DEF n

\* The lists are right at first.
LEMMA InitListed == Init => InLists(cache, held)
<1> SUFFICES ASSUME Init PROVE InLists(cache, held)
  OBVIOUS
<1>1. cache.lru = <<>> /\ cache.inUse = {} /\ cache.inCache = {} /\ cache.usage = 0
  BY DEF Init, EmptyCache
<1>2. <<>> \in Seq(Handles) /\ OnceEach(<<>>) /\ Lists(<<>>) = {}
  BY DEF OnceEach, Lists
<1>3. Cardinality({}) = 0
  BY FS_EmptySet
<1> QED
  BY <1>1, <1>2, <1>3 DEF InLists

\* Whoever looks up, inserts, releases, prunes or evicts leaves them right.
LEMMA ListedStep == CacheInv /\ InLists(cache, held) /\ [Next]_vars => InLists(cache, held)'
<1> SUFFICES ASSUME CacheInv, InLists(cache, held), [Next]_vars PROVE InLists(cache', held')
  BY DEF InLists, OnceEach, Lists, Clients
<1>1. Counted(cache, held) /\ held \in [Threads -> SUBSET Handles]
  BY DEF CacheInv, ReadersPinned
<1>2. CASE UNCHANGED <<cache, held>>
  BY <1>2
<1>3. ASSUME NEW t \in Threads, NEW f \in Tables, FindHit(t, f) PROVE InLists(cache', held')
  <2>1. PICK h \in Lookup(f) : cache' = Ref(cache, h) /\ held' = More(held, t, h)
    BY <1>3 DEF FindHit, More
  <2>2. h \in cache.table /\ h \notin held[t]
    BY <1>3, <2>1 DEF FindHit, Wants, Lookup
  <2> QED
    BY <1>1, <2>1, <2>2, RefLists
<1>4. ASSUME NEW t \in Threads, NEW h \in Handles, Insert(t, h) PROVE InLists(cache', held')
  <2>1. PICK f \in opened[t] :
          LET c == Inserted(cache, h, f)
          IN cache' = FinishErase(c, Remove(c, Oldest(c)))
    BY <1>4 DEF Insert
  <2> DEFINE c == Inserted(cache, h, f)
             S == Remove(c, Oldest(c))
  <2>2. /\ h \in Handles \ cache.allocated /\ f \in Tables
        /\ held' = More(held, t, h)
    BY <1>4 DEF Insert, More, CacheInv, ReadersPinned
  <2>3. InLists(c, held')
    BY <1>1, <2>2, InsertedLists
  <2>4. Counted(c, held')
    BY <1>1, <2>2, InsertedCounts DEF More
  <2>5. S \in SUBSET c.table
    BY DEF Remove
  <2> HIDE DEF c, S
  <2>6. cache' = FinishErase(c, S)
    BY <2>1 DEF c, S
  <2> QED
    BY <2>3, <2>4, <2>5, <2>6, EraseLists
<1>5. ASSUME NEW t \in Threads, NEW h \in Handles, Release(t, h) PROVE InLists(cache', held')
  <2>1. h \in held[t] /\ cache' = Unref(cache, h) /\ held' = [held EXCEPT ![t] = @ \ {h}]
    BY <1>5 DEF Release
  <2> QED
    BY <1>1, <2>1, UnrefLists
<1>6. ASSUME NEW S \in SUBSET cache.table, cache' = FinishErase(cache, S), held' = held
      PROVE  InLists(cache', held')
  BY <1>1, <1>6, EraseLists
<1>7. CASE Prune
  <2> DEFINE S == Remove(cache, Lists(cache.lru))
  <2>1. cache' = FinishErase(cache, S) /\ held' = held /\ S \in SUBSET cache.table
    BY <1>7 DEF Prune, Remove
  <2> QED
    BY <1>6, <2>1
<1>8. ASSUME NEW f \in Tables, DeleteObsoleteFile(f) PROVE InLists(cache', held')
  <2>1. /\ cache' = FinishErase(cache, Lookup(f)) /\ held' = held
        /\ Lookup(f) \in SUBSET cache.table
    BY <1>8 DEF DeleteObsoleteFile, Lookup
  <2> QED
    BY <1>6, <2>1
<1> QED
  BY <1>2, <1>3, <1>4, <1>5, <1>7, <1>8
     DEF Next, vars, PinVersion, FindMiss, Open, OpenFails, UnpinVersion, DropTable

(* Every cached entry is in one of the two lists, the unused ones in the   *)
(* order of their last use and once each, and the usage is their number,   *)
(* whatever threads interleave (LRU_Append, LRU_Remove, Ref, Unref,        *)
(* FinishErase, Insert).                                                   *)
THEOREM ListsSafe == Spec => []ListsAgree
<1>1. CacheInv /\ InLists(cache, held) => ListsAgree
  <2> SUFFICES ASSUME CacheInv, InLists(cache, held) PROVE ListsAgree
    OBVIOUS
  <2>1. cache.inCache = cache.table
    BY DEF CacheInv, Counted, Shape
  <2>2. Cardinality(Lists(cache.lru)) = Len(cache.lru)
    BY OnceEachCount DEF InLists
  <2> QED
    BY <2>1, <2>2 DEF ListsAgree, InLists, Holders, Clients
<1>2. Init => InLists(cache, held)
  BY InitListed
<1>3. CacheInv /\ InLists(cache, held) /\ [Next]_vars => InLists(cache, held)'
  BY ListedStep
<1> QED
  BY <1>1, <1>2, <1>3, CacheInvariant, PTL DEF Spec
=============================================================================
