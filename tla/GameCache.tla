------------------------------ MODULE GameCache ------------------------------
(***************************************************************************)
(* The table the meter keeps its targets and the players around it in      *)
(* (meter/cache.hpp): a store of max_size entries, a stack of the free     *)
(* ones, and a uthash of the used ones, which keeps the order they were    *)
(* added in.  An operation is a function from one state of the Cache       *)
(* struct to the next; a pointer to an entry is its slot, NULL is NoSlot.  *)
(*                                                                         *)
(* No mutex of the meter is ever initialised.  pthread_mutex_lock refuses  *)
(* such a mutex on Darwin, where the meter runs, so lock and unlock do     *)
(* nothing; elsewhere they would lock, and an operation inside a lock()    *)
(* would wait for itself.  The operations below are those of Darwin; the   *)
(* modules that use them say which of them other threads come between.     *)
(***************************************************************************)
EXTENDS Integers, SequencesExt, Recency

CONSTANTS
  Key,       \* agent ids
  NoKey,     \* the key of a zeroed entry
  NoData,    \* the data of a zeroed entry
  NoSlot,    \* NULL
  max_size   \* the capacity the table is created with

ASSUME CacheAssumption ==
  /\ NoKey \notin Key
  /\ max_size \in Nat \ {0}

Slot == 0 .. max_size - 1

ASSUME SlotAssumption == NoSlot \notin Slot

\* The Cache struct: limit is __size; init is false before create and after
\* destroy, and then nothing is done or found.
CacheOf(Data) ==
  [limit : Nat, init : BOOLEAN,
   store : [Slot -> [key : Key \cup {NoKey}, idx : Slot \cup {-1}, data : Data \cup {NoData}]],
   cache : Seq(Slot), tracker : Seq(Slot)]

Zeroed == [key |-> NoKey, idx |-> -1, data |-> NoData]

\* cache_create: slot max_size - 1 is freed last and lies on top of the stack.
Created ==
  [limit |-> max_size, init |-> TRUE, store |-> [s \in Slot |-> Zeroed],
   cache |-> <<>>, tracker |-> [i \in 1 .. max_size |-> i - 1]]

\* The slots in use.
Used(c) == {c.cache[i] : i \in DOMAIN c.cache}

Size(c) == IF c.init THEN Len(c.cache) ELSE 0
AtLimit(c) == Size(c) >= c.limit

\* Mutant: the entry is cleared before its index is pushed.
EntryFreeCleared(c, s) == [c EXCEPT !.tracker = Append(@, Zeroed.idx), !.store[s] = Zeroed]

\* entry_free of an entry that has left the hash: its index is pushed.
EntryFree(c, s) ==
  [c EXCEPT !.tracker = Append(@, c.store[s].idx), !.store[s] = Zeroed]

\* cache_delete of an entry; NULL deletes nothing.
RemoveEntry(c, s) ==
  IF ~c.init \/ s = NoSlot THEN c
  ELSE EntryFree([c EXCEPT !.cache = Unlinked(@, s)], s)

\* cache_find.
Find(c, k) ==
  IF c.init /\ \E s \in Used(c) : c.store[s].key = k
    THEN CHOOSE s \in Used(c) : c.store[s].key = k
    ELSE NoSlot

\* cache_delete of a key.
RemoveKey(c, k) == RemoveEntry(c, Find(c, k))

\* Mutant: the top of the stack is read and not popped.
AllocatedPeek(c, k, d) ==
  LET s == Last(c.tracker)
  IN  [c EXCEPT !.cache = Append(@, s), !.store[s] = [key |-> k, idx |-> s, data |-> d]]

\* entry_alloc and HASH_ADD, with the data that is copied into the new entry, or
\* what its owner takes zeroed data for.
Allocated(c, k, d) ==
  LET s == Last(c.tracker)
  IN  [c EXCEPT !.tracker = Front(@), !.cache = Append(@, s),
                !.store[s] = [key |-> k, idx |-> s, data |-> d]]

\* cache_insert with a value: it replaces that of an entry that is there; a full
\* table takes no more.
Insert(c, k, d) ==
  IF ~c.init THEN c
  ELSE IF Find(c, k) # NoSlot THEN [c EXCEPT !.store[Find(c, k)].data = d]
  ELSE IF Len(c.cache) >= max_size THEN c ELSE Allocated(c, k, d)

\* cache_find_and_front: the entry is added again, as the newest.
ToNewest(c, s) == [c EXCEPT !.cache = SeenLast(@, s)]

\* cache_insert_and_evict without a value: an entry that is there becomes the
\* newest and keeps its data; a full table loses its oldest.
InsertAndEvict(c, k, d) ==
  IF ~c.init THEN c
  ELSE IF Find(c, k) # NoSlot THEN ToNewest(c, Find(c, k))
  ELSE Allocated(IF Len(c.cache) >= max_size THEN RemoveEntry(c, Head(c.cache)) ELSE c, k, d)

\* Mutant: the limit never grows again.
ResizeSmaller(c, n) == IF c.init /\ n < c.limit THEN [c EXCEPT !.limit = n] ELSE c

\* Cache.resize.
Resize(c, n) ==
  IF c.init THEN [c EXCEPT !.limit = IF n > max_size THEN max_size ELSE n] ELSE c

\* cache_clear: the used entries are freed in order.
Clear(c) ==
  IF ~c.init THEN c
  ELSE [c EXCEPT !.cache = <<>>, !.tracker = @ \o c.cache, !.store = [s \in Slot |-> Zeroed]]

(***************************************************************************)
(* A live table accounts for every slot: it is in use, once, or on the     *)
(* stack, once; a used entry knows its index, a key is used once.          *)
(***************************************************************************)
Partition(cache, tracker) ==
  /\ \A i, j \in DOMAIN cache : cache[i] = cache[j] => i = j
  /\ \A i, j \in DOMAIN tracker : tracker[i] = tracker[j] => i = j
  /\ \A i \in DOMAIN cache, j \in DOMAIN tracker : cache[i] # tracker[j]
  /\ Len(cache) + Len(tracker) = max_size

Sound(c) ==
  /\ Partition(c.cache, c.tracker)
  /\ \A s \in Used(c) : c.store[s].idx = s /\ c.store[s].key \in Key
  /\ \A s, t \in Used(c) : c.store[s].key = c.store[t].key => s = t
=============================================================================
