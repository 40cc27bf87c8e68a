------------------------------ MODULE UserCache ------------------------------
(***************************************************************************)
(* The server's table of users (server/lru_cache.c, server/context.c): a   *)
(* fixed store of entries, a stack of the free ones, a hash of the used    *)
(* ones in the order they were last seen, and a second hash that finds a   *)
(* user by the character's name.  The node of the second hash lives inside *)
(* the entry it points to, so an entry must leave it before it is freed or *)
(* renamed.                                                                *)
(*                                                                         *)
(* The server is one thread; an operation is a function from one state of  *)
(* the table to the next, which the handlers compose.  A name is one that  *)
(* trim leaves as it is; NoName is the empty string.                       *)
(***************************************************************************)
EXTENDS Integers, SequencesExt, Recency

CONSTANTS
  Endpoint,        \* the clients: an address and a port
  NoEndpoint,      \* the key of a zeroed entry
  Name,            \* the names of characters
  NoName,          \* the empty string
  Report,          \* what a client reports of itself
  NoReport,        \* the report of a zeroed user
  MAX_CACHE_SIZE,  \* 10000
  DAMAGE_PERIOD    \* MSG_FREQ_CLIENT_DAMAGE (0.5 s), in ticks

ASSUME CacheAssumption ==
  /\ NoEndpoint \notin Endpoint
  /\ NoName \notin Name
  /\ NoReport \notin Report
  /\ MAX_CACHE_SIZE \in Nat \ {0}
  /\ DAMAGE_PERIOD \in Nat \ {0}

Slot == 0 .. MAX_CACHE_SIZE - 1

\* CacheEntry with its User and its HashEntry: he is the key of the latter.
\* last_msg_damage = 0 never limits, which is what a saturated age says.
Entry ==
  [key : Endpoint \cup {NoEndpoint}, idx : Slot \cup {-1}, he : Name \cup {NoName},
   name : Name \cup {NoName}, charName : Name \cup {NoName},
   age : 0 .. DAMAGE_PERIOD, report : Report \cup {NoReport}]

Zeroed == [key |-> NoEndpoint, idx |-> -1, he |-> NoName, name |-> NoName,
           charName |-> NoName, age |-> DAMAGE_PERIOD, report |-> NoReport]

\* Lru: cache lists the used slots, the one seen last at the end; tracker is the
\* stack of the free ones; lookup holds the slots whose he is in the second hash.
Lru ==
  [store : [Slot -> Entry], cache : BoundedSeq(Slot, MAX_CACHE_SIZE),
   tracker : BoundedSeq(Slot, MAX_CACHE_SIZE), lookup : SUBSET Slot]
-----------------------------------------------------------------------------
\* lru_create: slot 0 is on top of the stack.
Created ==
  [store |-> [s \in Slot |-> Zeroed], cache |-> <<>>,
   tracker |-> [i \in 1 .. MAX_CACHE_SIZE |-> MAX_CACHE_SIZE - i], lookup |-> {}]

\* entry_free: the index is pushed, then the entry is cleared.
EntryFree(l, s) ==
  [l EXCEPT !.tracker = Append(@, l.store[s].idx), !.store[s] = Zeroed]

Known(l, k) == \E s \in ToSet(l.cache) : l.store[s].key = k

SlotOf(l, k) == CHOOSE s \in ToSet(l.cache) : l.store[s].key = k

\* HASH_DEL and HASH_ADD: s is the one seen last.
ToBack(l, s) == [l EXCEPT !.cache = SeenLast(@, s)]

\* cache_find of an endpoint.
CacheFind(l, k) == IF Known(l, k) THEN ToBack(l, SlotOf(l, k)) ELSE l

\* HASH_FIND_STR in lookup: the entry found under n, if any.
Registered(l, n) == {s \in l.lookup : l.store[s].he = n}

\* cache_update_lookup: k's own node leaves the hash, then the one that has the
\* name; k's node enters it under the name.
CacheUpdateLookup(l, k, n) ==
  LET a == CacheFind(l, k)
      s == SlotOf(a, k)
      own == Registered(a, a.store[s].he) \cap {s}
      kept == a.lookup \ own
      taken == {t \in kept : a.store[t].he = n}
  IN  IF n = NoName THEN l
      ELSE [a EXCEPT !.lookup = (kept \ taken) \cup {s}, !.store[s].he = n]

\* EvictOldest that forgets the name hash.
EvictOldestNamed(l) ==
  EntryFree([l EXCEPT !.cache = Tail(@)], Head(l.cache))

\* EvictOldest that leaves the freed entry in the cache.
EvictOldestKept(l) ==
  LET s == Head(l.cache)
  IN  EntryFree([l EXCEPT !.lookup = @ \ {s}], s)

\* cache_insert of a full cache: the entry seen least recently goes.
EvictOldest(l) ==
  LET s == Head(l.cache)
      named == Registered(l, l.store[s].he) \cap {s}
  IN  EntryFree([l EXCEPT !.lookup = @ \ named, !.cache = Tail(@)], s)

\* cache_insert of a new endpoint: a full cache makes room first.
Pruned(l) == IF Len(l.cache) >= MAX_CACHE_SIZE THEN EvictOldest(l) ELSE l

\* Allocated that leaves the slot on the stack.
AllocatedPeek(l, k) ==
  LET a == Pruned(l)
      s == Last(a.tracker)
  IN  [a EXCEPT !.cache = Append(@, s), !.store[s] = [@ EXCEPT !.idx = s, !.key = k]]

\* entry_alloc and HASH_ADD: the slot on top of the stack is k's.
EntryAlloc(l, k) ==
  LET s == Last(l.tracker)
  IN  [l EXCEPT !.tracker = Front(@), !.cache = Append(@, s),
                !.store[s] = [@ EXCEPT !.idx = s, !.key = k]]

\* Then the new user gets a slot.
Allocated(l, k) == EntryAlloc(Pruned(l), k)

\* InsertUser that does not claim the name again.
InsertUserMute(l, k) == IF Known(l, k) THEN CacheFind(l, k) ELSE Allocated(l, k)

\* lru_insert_user: a known user is refreshed and claims its name again.
InsertUser(l, k) ==
  LET a == IF Known(l, k) THEN CacheFind(l, k) ELSE Allocated(l, k)
  IN  CacheUpdateLookup(a, k, a.store[SlotOf(a, k)].name)

\* lru_update_name of a user that was just inserted.
UpdateName(l, k, n) ==
  LET s == SlotOf(l, k)
  IN  IF n = NoName \/ l.store[s].name = n THEN l
      ELSE CacheUpdateLookup([l EXCEPT !.store[s].name = n], k, n)

\* context_update_account with an account name: a user without a name gets the
\* character's name of the previous begin request, but does not claim it yet.
UpdateAccount(l, k, charName) ==
  LET s == SlotOf(l, k)
      u == l.store[s]
  IN  [l EXCEPT !.store[s] = [u EXCEPT !.name = IF @ = NoName THEN u.charName ELSE @,
                                       !.charName = charName]]

\* FindUser that leaves the order alone.
FindUserOnly(l, n) == l

\* lru_find_user: who is found was seen.
FindUser(l, n) ==
  IF Registered(l, n) = {} THEN l
  ELSE ToBack(l, CHOOSE s \in Registered(l, n) : TRUE)
=============================================================================
