------------------------------ MODULE NameCache ------------------------------
(***************************************************************************)
(* The decoded names of agents, skills and items (meter/lru_cache.cpp).    *)
(* A name is asked of the game once and kept: the used entries are ordered *)
(* by their last use, and a full table loses the one used longest ago.     *)
(* Who looks a name up keeps the pointer lru_find returns, into the entry  *)
(* itself.  A missing name goes to g_unresolved, from which lru_resolve,   *)
(* in the game's thread, asks the game to decode it; the game calls        *)
(* cbDecodeText back in the same thread, now or later.                     *)
(*                                                                         *)
(* The table is an elder twin of the one in cache.hpp and is modelled by   *)
(* the operators of GameCache.  Its operations are single steps, as the    *)
(* lock of lru_cache.cpp is meant to make them.  Everything outside that   *)
(* lock is a step of its own: the read of a found entry, the search of     *)
(* g_unresolved, the push, the iteration and the clearing of it, and the   *)
(* copy of a name into its entry.                                          *)
(***************************************************************************)
EXTENDS GameCache, FiniteSets

CONSTANTS
  User,      \* the places in the meter that look a name up
  Wants,     \* the keys each of them looks up
  Game,      \* the user that is the game's thread: game_update
  Nobody     \* no entry waits for its name

ASSUME NameAssumption ==
  /\ Game \in User /\ Wants \in [User -> SUBSET Key]
  /\ NoData \notin Key /\ Nobody \notin Slot

VARIABLES
  cache,       \* g_cache, g_store and g_tracker; the data of an entry is its name,
               \* and the name of a key is written as that key
  unresolved,  \* g_unresolved
  phase,       \* where lru_resolve is: "out" of it, in its "loop", or about to "clear"
  at,          \* the element the loop is at
  asked,       \* the names the game was asked for and has not answered
  writing,     \* the entry cbDecodeText is about to copy a name into, or Nobody
  user         \* what each user wants, and what it got

vars == <<cache, unresolved, phase, at, asked, writing, user>>
queue == <<unresolved, phase, at, asked>>

\* want: the key it looks up in every frame; pc: where it is in lru_find; slot: the
\* entry it has a pointer to.  A ghost, since: the other keys that became the newest
\* after that pointer was returned.
UserType ==
  [want : Key, pc : {"idle", "found", "missing", "push", "done"},
   slot : Slot \cup {NoSlot}, since : SUBSET Key]

\* A user that wants another name has no pointer yet.
Wanting(k) == [want |-> k, pc |-> "idle", slot |-> NoSlot, since |-> {}]

Init ==
  /\ cache = Created
  /\ unresolved = <<>>
  /\ phase = "out" /\ at = 0 /\ asked = {} /\ writing = Nobody
  /\ user \in {us \in [User -> {Wanting(k) : k \in Key}] : \A u \in User : us[u].want \in Wants[u]}

\* k became the newest: it counts for every pointer to another entry.
Touched(us, k) ==
  [u \in User |-> IF us[u].slot # NoSlot /\ us[u].want # k
                    THEN [us[u] EXCEPT !.since = @ \cup {k}] ELSE us[u]]

\* The game's thread looks its names up before it resolves the missing ones, once in
\* a frame, and decodes none meanwhile.
MayLookUp(u) == u = Game => phase = "out" /\ writing = Nobody
MayDecode == user[Game].pc \in {"idle", "done"} /\ writing = Nobody
Ended(u) == IF u = Game THEN "done" ELSE "idle"

\* Mutant: an entry that is found stays where it is.
FoundInPlace(c, k) == c

\* cache_find: the entry found becomes the newest.
Found(c, k) == IF Find(c, k) = NoSlot THEN c ELSE ToNewest(c, Find(c, k))

\* lru_find: cache_find.
LookUp(u) ==
  LET k == user[u].want
      s == Find(cache, k)
  IN  /\ user[u].pc = "idle" /\ MayLookUp(u)
      /\ cache' = Found(cache, k)
      /\ user' = LET fresh == [user EXCEPT ![u].pc = IF s = NoSlot THEN "missing" ELSE "found",
                                           ![u].slot = s, ![u].since = {}]
                 IN  IF s = NoSlot THEN fresh ELSE Touched(fresh, k)
      /\ UNCHANGED <<queue, writing>>

\* lru_find: the entry found, and by now perhaps another one's, is read; an empty
\* name is returned as NULL.
ReadName(u) ==
  /\ user[u].pc = "found"
  /\ user' = IF cache.store[user[u].slot].data = NoData
               THEN [user EXCEPT ![u] = [Wanting(@.want) EXCEPT !.pc = Ended(u)]]
               ELSE [user EXCEPT ![u].pc = Ended(u)]
  /\ UNCHANGED <<cache, queue, writing>>

\* Mutant: the test of what the search found is inverted.
WaitsNot(k) == \A i \in DOMAIN unresolved : unresolved[i] # k

\* The key is already waiting.
Waits(k) == \E i \in DOMAIN unresolved : unresolved[i] = k

\* lru_find: the search of g_unresolved.
Search(u) ==
  /\ user[u].pc = "missing"
  /\ user' = [user EXCEPT ![u].pc = IF Waits(user[u].want) THEN Ended(u) ELSE "push"]
  /\ UNCHANGED <<cache, queue, writing>>

\* lru_find: the key is pushed, whatever was pushed or cleared since the search.  An
\* array that has no room left may be moved; to a loop that is at an element of the old
\* one utarray_next then gives the first element again, if the new one lies above it,
\* or none.
Push(u) ==
  /\ user[u].pc = "push"
  /\ unresolved' = Append(unresolved, user[u].want)
  /\ \/ UNCHANGED <<phase, at>>
     \/ phase = "loop" /\ at' = 1 /\ UNCHANGED phase
     \/ phase = "loop" /\ phase' = "clear" /\ at' = 0
  /\ user' = [user EXCEPT ![u].pc = Ended(u)]
  /\ UNCHANGED <<cache, asked, writing>>

\* The user turns to another agent or skill, and drops its pointer.
Turn(u, k) ==
  /\ user[u].pc = "idle" /\ k \in Wants[u] \ {user[u].want}
  /\ user' = [user EXCEPT ![u] = Wanting(k)]
  /\ UNCHANGED <<cache, queue, writing>>

\* lru_resolve, which follows the game's own look-ups in a frame.
BeginResolve ==
  /\ phase = "out" /\ user[Game].pc = "done" /\ writing = Nobody
  /\ IF unresolved = <<>> THEN phase' = "clear" /\ at' = 0 ELSE phase' = "loop" /\ at' = 1
  /\ UNCHANGED <<cache, unresolved, asked, writing, user>>

\* Mutant: the loop goes one element too far.
HasNextInclusive == at <= Len(unresolved)

\* utarray_next: there is another element in what the array is now.
HasNext == at < Len(unresolved)

\* One turn of the loop: the game is asked for a name.  It does nothing for a key of
\* CLASS_TYPE_CHAR, the one type nobody looks up, and a name without a coded text is
\* one the game has no answer for.
Resolve ==
  /\ phase = "loop" /\ writing = Nobody
  /\ asked' = asked \cup {unresolved[at]}
  /\ IF HasNext
       THEN at' = at + 1 /\ UNCHANGED phase
       ELSE phase' = "clear" /\ at' = 0
  /\ UNCHANGED <<cache, unresolved, writing, user>>

\* utarray_clear, with what was pushed since the loop ended.
ClearQueue ==
  /\ phase = "clear" /\ writing = Nobody
  /\ unresolved' = <<>>
  /\ phase' = "out"
  /\ user' = [user EXCEPT ![Game].pc = "idle"]
  /\ UNCHANGED <<cache, at, asked, writing>>

\* Mutant: the key is added without a look for it.
InsertedAnew(c, k) ==
  Allocated(IF Len(c.cache) >= max_size THEN RemoveEntry(c, Head(c.cache)) ELSE c, k, NoData)

\* cache_insert, up to the copy of the name.
Inserted(c, k) == InsertAndEvict(c, k, NoData)

\* cbDecodeText with a name.
Decode(k) ==
  /\ k \in asked /\ MayDecode
  /\ asked' = asked \ {k}
  /\ cache' = Inserted(cache, k)
  /\ writing' = Find(Inserted(cache, k), k)
  /\ user' = Touched(user, k)
  /\ UNCHANGED <<unresolved, phase, at>>

\* cache_insert: the name is copied after the lock is released.
WriteName ==
  /\ writing # Nobody
  /\ cache' = [cache EXCEPT !.store[writing].data = cache.store[writing].key]
  /\ writing' = Nobody
  /\ UNCHANGED <<queue, user>>

\* The game has no name for the key, or answers with an empty one.
LoseName(k) ==
  /\ k \in asked /\ MayDecode
  /\ asked' = asked \ {k}
  /\ UNCHANGED <<cache, unresolved, phase, at, writing, user>>

Next ==
  \/ \E u \in User : LookUp(u) \/ ReadName(u) \/ Search(u) \/ Push(u)
  \/ \E u \in User, k \in Key : Turn(u, k)
  \/ BeginResolve \/ Resolve \/ ClearQueue
  \/ \E k \in Key : Decode(k) \/ LoseName(k)
  \/ WriteName

Spec == Init /\ [][Next]_vars

\* The threads keep running, and each user looks its name up again.  The game answers
\* a name it is asked for again and again.  What another thread looks up falls outside
\* lru_resolve now and then: the threads are timed by nothing they share.
FairSpec ==
  /\ Spec
  /\ \A u \in User : WF_vars(LookUp(u) \/ ReadName(u) \/ Search(u) \/ Push(u))
  /\ \A u \in User \ {Game} : /\ SF_vars(phase = "out" /\ LookUp(u))
                              /\ SF_vars(phase = "out" /\ Search(u))
                              /\ SF_vars(phase = "out" /\ Push(u))
  /\ WF_vars(BeginResolve \/ Resolve \/ ClearQueue \/ WriteName)
  /\ \A k \in Key : SF_vars(Decode(k))
------------------------------------------------------------------------------
\* Type invariant.
TypeOK ==
  /\ cache \in CacheOf(Key)
  /\ unresolved \in Seq(Key)
  /\ phase \in {"out", "loop", "clear"} /\ at \in 0 .. Len(unresolved)
  /\ asked \in SUBSET Key /\ writing \in Slot \cup {Nobody}
  /\ user \in [User -> UserType]

\* Every slot of the table is in use once or free once, and a key has one entry; a
\* name that waits to be copied goes into an entry in use, and the loop of lru_resolve
\* is at an element of the array, whatever other threads do meanwhile.
NamesSound ==
  /\ Sound(cache)
  /\ writing # Nobody => writing \in Used(cache)
  /\ phase = "loop" <=> at # 0

\* A pointer returned by lru_find keeps pointing to the entry of its key, with that
\* key's name, until max_size other names have been looked up or decoded: it is safe
\* to keep as long as it is refreshed more often than that.
PointerValid ==
  \A u \in User :
    user[u].slot # NoSlot /\ Cardinality(user[u].since) < max_size =>
      /\ user[u].slot \in Used(cache)
      /\ cache.store[user[u].slot].key = user[u].want
      /\ cache.store[user[u].slot].data \in {user[u].want, NoData}

\* The name of k is in the table.
Decoded(k) == \E s \in Used(cache) : cache.store[s].key = k /\ cache.store[s].data = k

\* A name that somebody keeps looking up is decoded, although what is pushed while
\* lru_resolve iterates or clears may be lost.
EventuallyDecoded ==
  \A u \in User : \A k \in Wants[u] : user[u].want = k ~> (user[u].want # k \/ Decoded(k))
=============================================================================
