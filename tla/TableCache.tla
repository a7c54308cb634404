----------------------------- MODULE TableCache -----------------------------
(***************************************************************************)
(* The cache of open table files of the embedded LevelDB (db/table_cache)  *)
(* over the reference counted LRU cache of util/cache: readers pin a       *)
(* version, look its tables up, open and insert those that are missing,    *)
(* hold the handles for as long as their iterators live and give them      *)
(* back; a compaction takes tables out of the current version, and         *)
(* DeleteObsoleteFiles evicts and deletes those no version lists.          *)
(*                                                                         *)
(* Two readers can miss the same table at once: between FindTable's Lookup *)
(* and its Insert no lock is held, and the later Insert replaces an entry  *)
(* that the earlier reader still uses.  A handle that was freed may be     *)
(* allocated again at once, for another table.                             *)
(*                                                                         *)
(* One shard of the sharded cache is modelled, with the charge of 1 the    *)
(* table cache gives every entry.                                          *)
(***************************************************************************)
EXTENDS Integers, Sequences, FiniteSets

CONSTANTS
  Threads,    \* readers, iterators and compactions that read tables
  Tables,     \* numbers of table files
  Handles,    \* the blocks of memory malloc can return for an entry
  Capacity    \* entries the shard keeps

ASSUME CacheAssumption ==
  /\ Tables # {}
  /\ Capacity \in Nat
  /\ IsFiniteSet(Threads)
  /\ IsFiniteSet(Handles)

VARIABLES
  current,    \* the tables the current version lists
  files,      \* the tables on disk
  pinned,     \* per thread, the tables of the version it references
  missed,     \* per thread, the table its FindTable did not find, if any
  opened,     \* per thread, the table it opened and has not inserted, if any
  held,       \* per thread, the handles it has not released
  cache       \* the LRUCache, see EmptyCache

vars == <<current, files, pinned, missed, opened, held, cache>>

Lists(lru) == {lru[i] : i \in 1 .. Len(lru)}

(* LRU_Remove of the entries of S: the others stay in their order.         *)
Without(lru, S) ==
  LET left[i \in 0 .. Len(lru)] ==
        IF i = 0 THEN <<>>
        ELSE IF lru[i] \in S THEN left[i - 1] ELSE Append(left[i - 1], lru[i])
  IN left[Len(lru)]

(* What LRUCache and its entries hold.  The two circular lists are a       *)
(* sequence, oldest first, and a set; table is the hash table; allocated   *)
(* are the entries that were not freed.                                    *)
EmptyCache ==
  [allocated |-> {},
   key       |-> [h \in Handles |-> CHOOSE f \in Tables : TRUE],
   refs      |-> [h \in Handles |-> 0],
   inCache   |-> {},
   table     |-> {},
   lru       |-> <<>>,
   inUse     |-> {},
   usage     |-> 0]

Init ==
  /\ current = Tables
  /\ files = Tables
  /\ pinned = [t \in Threads |-> {}]
  /\ missed = [t \in Threads |-> {}]
  /\ opened = [t \in Threads |-> {}]
  /\ held = [t \in Threads |-> {}]
  /\ cache = EmptyCache

-----------------------------------------------------------------------------
(* LRUCache *)

Lookup(f) == {h \in cache.table : cache.key[h] = f}

\* Mutant: the entry stays in the LRU list.
RefUnmoved(c, h) == [c EXCEPT !.refs[h] = @ + 1]

(* An entry of the cache that gets its first client leaves the LRU list.   *)
Ref(c, h) ==
  LET first == c.refs[h] = 1 /\ h \in c.inCache
  IN [c EXCEPT !.refs[h] = @ + 1,
               !.lru = IF first THEN Without(@, {h}) ELSE @,
               !.inUse = IF first THEN @ \union {h} ELSE @]

(* The last reference frees the entry; the last client of a cached entry   *)
(* makes it the newest of the LRU list.                                    *)
Unref(c, h) ==
  LET unused == c.refs[h] = 2 /\ h \in c.inCache
  IN [c EXCEPT !.refs[h] = @ - 1,
               !.allocated = IF c.refs[h] = 1 THEN @ \ {h} ELSE @,
               !.lru = IF unused THEN Append(@, h) ELSE @,
               !.inUse = IF unused THEN @ \ {h} ELSE @]

(* Table removal and FinishErase of every entry of S: out of its list and  *)
(* of the usage; the reference of the cache is dropped, so an entry that   *)
(* a client still holds stays allocated, in neither list.                  *)
FinishErase(c, S) ==
  [c EXCEPT !.table = @ \ S,
            !.inCache = @ \ S,
            !.lru = Without(@, S),
            !.inUse = @ \ S,
            !.usage = @ - Cardinality(S),
            !.refs = [h \in Handles |-> IF h \in S THEN @[h] - 1 ELSE @[h]],
            !.allocated = @ \ {h \in S : c.refs[h] = 1}]

(* The loop of Insert: the oldest unused entries go until the usage fits   *)
(* or none is left.                                                        *)
Oldest(c) ==
  LET excess == c.usage - Capacity
  IN {c.lru[i] : i \in {j \in 1 .. Len(c.lru) : j <= excess}}

(* Insert's loop and Prune remove by key: what the table has under the     *)
(* keys of the entries of S is erased.                                     *)
Remove(c, S) == {g \in c.table : \E h \in S : c.key[g] = c.key[h]}

\* Mutant: the reference of the cache is not counted.
AllocatedOnce(c, h, f) ==
  [c EXCEPT !.allocated = @ \union {h}, !.key[h] = f, !.refs[h] = 1,
            !.inCache = @ \union {h}, !.inUse = @ \union {h},
            !.usage = @ + 1]

(* The new entry as Insert leaves it: one reference for the caller, and    *)
(* one for the cache, unless the cache has no room at all.                 *)
Allocated(c, h, f) ==
  LET e == [c EXCEPT !.allocated = @ \union {h}, !.key[h] = f, !.refs[h] = 1]
  IN IF Capacity = 0
     THEN e
     ELSE [e EXCEPT !.refs[h] = 2,
                    !.inCache = @ \union {h},
                    !.inUse = @ \union {h},
                    !.usage = @ + 1]

(* HandleTable::Insert returns the entry with the same key, which is       *)
(* erased.                                                                 *)
Inserted(c, h, f) ==
  LET e == Allocated(c, h, f)
  IN IF Capacity = 0
     THEN e
     ELSE FinishErase([e EXCEPT !.table = @ \union {h}],
                      {g \in c.table : c.key[g] = f})

-----------------------------------------------------------------------------
(* A reader takes a reference on the current version, under the mutex.     *)
PinVersion(t) ==
  /\ pinned[t] = {}
  /\ current # {}
  /\ pinned' = [pinned EXCEPT ![t] = current]
  /\ UNCHANGED <<current, files, missed, opened, held, cache>>

(* FindTable: a hit is referenced under the lock of the cache, a miss goes *)
(* on without it.                                                          *)
(* One FindTable at a time, and a reader asks once for each table.          *)
Wants(t, f) ==
  /\ missed[t] = {} /\ opened[t] = {}
  /\ f \in pinned[t]
  /\ \A h \in held[t] : cache.key[h] # f

FindHit(t, f) ==
  /\ Wants(t, f)
  /\ \E h \in Lookup(f) :
       /\ cache' = Ref(cache, h)
       /\ held' = [held EXCEPT ![t] = @ \union {h}]
  /\ UNCHANGED <<current, files, pinned, missed, opened>>

FindMiss(t, f) ==
  /\ Wants(t, f)
  /\ Lookup(f) = {}
  /\ missed' = [missed EXCEPT ![t] = {f}]
  /\ UNCHANGED <<current, files, pinned, opened, held, cache>>

Open(t) ==
  /\ missed[t] # {}
  /\ missed[t] \subseteq files
  /\ opened' = [opened EXCEPT ![t] = missed[t]]
  /\ missed' = [missed EXCEPT ![t] = {}]
  /\ UNCHANGED <<current, files, pinned, held, cache>>

(* NewRandomAccessFile or Table::Open fails; errors are not cached.        *)
OpenFails(t) ==
  /\ missed[t] # {}
  /\ missed' = [missed EXCEPT ![t] = {}]
  /\ UNCHANGED <<current, files, pinned, opened, held, cache>>

Insert(t, h) ==
  /\ h \notin cache.allocated
  /\ \E f \in opened[t] :
       LET c == Inserted(cache, h, f)
       IN cache' = FinishErase(c, Remove(c, Oldest(c)))
  /\ opened' = [opened EXCEPT ![t] = {}]
  /\ held' = [held EXCEPT ![t] = @ \union {h}]
  /\ UNCHANGED <<current, files, pinned, missed>>

(* Get returns, or UnrefEntry runs with the other clean-ups of an iterator.*)
Release(t, h) ==
  /\ h \in held[t]
  /\ cache' = Unref(cache, h)
  /\ held' = [held EXCEPT ![t] = @ \ {h}]
  /\ UNCHANGED <<current, files, pinned, missed, opened>>

UnpinVersion(t) ==
  /\ pinned[t] # {}
  /\ missed[t] = {} /\ opened[t] = {} /\ held[t] = {}
  /\ pinned' = [pinned EXCEPT ![t] = {}]
  /\ UNCHANGED <<current, files, missed, opened, held, cache>>

(* A compaction installs a version without one of its inputs.              *)
DropTable(f) ==
  /\ f \in current
  /\ current' = current \ {f}
  /\ UNCHANGED <<files, pinned, missed, opened, held, cache>>

\* Mutant: only the current version is asked.
LiveInCurrent == current

(* AddLiveFiles: the tables of every version somebody references.          *)
Live == current \union UNION {pinned[t] : t \in Threads}

(* DeleteObsoleteFiles: the entry is erased and the file deleted, with the *)
(* mutex of the database held.                                             *)
DeleteObsoleteFile(f) ==
  /\ f \in files \ Live
  /\ files' = files \ {f}
  /\ cache' = FinishErase(cache, Lookup(f))
  /\ UNCHANGED <<current, pinned, missed, opened, held>>

Prune ==
  /\ cache.lru # <<>>
  /\ cache' = FinishErase(cache, Remove(cache, Lists(cache.lru)))
  /\ UNCHANGED <<current, files, pinned, missed, opened, held>>

Next ==
  \/ \E t \in Threads :
       \/ PinVersion(t)
       \/ \E f \in Tables : FindHit(t, f) \/ FindMiss(t, f)
       \/ Open(t) \/ OpenFails(t)
       \/ \E h \in Handles : Insert(t, h) \/ Release(t, h)
       \/ UnpinVersion(t)
  \/ \E f \in Tables : DropTable(f) \/ DeleteObsoleteFile(f)
  \/ Prune

Spec == Init /\ [][Next]_vars

-----------------------------------------------------------------------------
Holders(h) == {t \in Threads : h \in held[t]}

(* A handle that a reader holds was not freed and is still the table the   *)
(* reader asked for, whatever was inserted, evicted, pruned or deleted in  *)
(* the meantime (util/cache.cc:29-39).                                     *)
HeldTablesOpen ==
  \A t \in Threads : \A h \in held[t] :
    /\ h \in cache.allocated
    /\ cache.key[h] \in pinned[t]
    /\ \A g \in held[t] : cache.key[g] = cache.key[h] => g = h

(* No open file outlives its use: an entry that was not freed is cached or *)
(* held, there is one cached entry per table, and only of tables on disk   *)
(* (a deleted table would keep its descriptor until the cache is full).    *)
NothingLeaks ==
  /\ \A h \in cache.allocated : h \in cache.table \/ Holders(h) # {}
  /\ \A h \in cache.table : cache.key[h] \in files
  /\ \A g, h \in cache.table : cache.key[g] = cache.key[h] => g = h

(* The lists are what cache.cc:23-39 and 203-211 say: every cached entry   *)
(* is in one of them, the LRU list has those without a client, each once,  *)
(* and the usage is their number.                                          *)
ListsAgree ==
  /\ cache.inCache = cache.table
  /\ cache.inUse = {h \in cache.inCache : Holders(h) # {}}
  /\ Lists(cache.lru) = cache.inCache \ cache.inUse
  /\ Len(cache.lru) = Cardinality(Lists(cache.lru))
  /\ cache.usage = Cardinality(cache.inCache)
=============================================================================
