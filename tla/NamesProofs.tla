----------------------------- MODULE NamesProofs -----------------------------
(***************************************************************************)
(* Proofs that the table of names accounts for every slot, and that a      *)
(* pointer lru_find returned stays good until max_size other names were    *)
(* used, for every capacity, set of keys and set of users.                 *)
(***************************************************************************)
EXTENDS NameCache, GameCacheProofs, FiniteSetTheorems, FunctionTheorems

\* What an entry may hold.
Names == Key \cup {NoData}

\* The table, the copy of a name that is under way, and the loop of lru_resolve.
TableInv ==
  /\ Live(cache, Names)
  /\ \A s \in Used(cache) : cache.store[s].data \in {cache.store[s].key, NoData}
  /\ writing # Nobody => writing \in Used(cache)
LoopInv ==
  /\ at \in Nat
  /\ phase = "loop" <=> at # 0

-----------------------------------------------------------------------------
(***************************************************************************)
(* The table.                                                              *)
(***************************************************************************)

\* What lru_find returns is an entry in use with the key, which becomes the newest.
LEMMA FoundLive ==
  ASSUME NEW k, TableInv
  PROVE  LET d == Found(cache, k)
         IN  /\ Live(d, Names) /\ Used(d) = Used(cache) /\ d.store = cache.store
             /\ IF Find(cache, k) = NoSlot THEN d = cache
                ELSE /\ Find(cache, k) \in Used(cache)
                     /\ cache.store[Find(cache, k)].key = k
                     /\ d.cache = Append(Unlinked(cache.cache, Find(cache, k)), Find(cache, k))
<1>1. CASE Find(cache, k) = NoSlot
  BY <1>1 DEF Found, TableInv
<1>2. CASE Find(cache, k) # NoSlot
  <2>1. Find(cache, k) \in Used(cache) /\ cache.store[Find(cache, k)].key = k
    BY <1>2, FindProperties DEF TableInv
  <2>2. Found(cache, k) = ToNewest(cache, Find(cache, k))
    BY <1>2 DEF Found
  <2> QED
    BY <1>2, <2>1, <2>2, NewestLive DEF TableInv
<1> QED
  BY <1>1, <1>2

\* The entry cache_insert takes for a name: the one the key has, a free one, or that
\* of the name used longest ago, the first in the order.
LEMMA InsertedLive ==
  ASSUME NEW k \in Key, TableInv
  PROVE  LET d == Inserted(cache, k)
         IN  /\ Live(d, Names)
             /\ \A s \in Used(d) : d.store[s].data \in {d.store[s].key, NoData}
             /\ Find(d, k) \in Used(d) /\ d.store[Find(d, k)].key = k
<1> DEFINE d == Inserted(cache, k)
<1>1. NoData \in Names /\ Live(cache, Names)
  BY DEF Names, TableInv
<1>2. Live(d, Names) /\ \E s \in Used(d) : d.store[s].key = k
  BY <1>1, InsertAndEvictLive DEF Inserted
<1>3. Find(d, k) \in Used(d) /\ d.store[Find(d, k)].key = k
  <2> HIDE DEF d
  <2> QED
    BY <1>2, FindProperties
<1>4. \A s \in Used(d) : d.store[s].data \in {d.store[s].key, NoData}
  <2>1. CASE Find(cache, k) # NoSlot
    <3>1. d = ToNewest(cache, Find(cache, k)) /\ Find(cache, k) \in Used(cache)
      BY <1>1, <2>1, FindProperties, LiveParts DEF Inserted, InsertAndEvict
    <3> HIDE DEF d
    <3>2. Used(d) = Used(cache) /\ d.store = cache.store
      BY <1>1, <3>1, NewestLive
    <3> QED
      BY <3>2 DEF TableInv
  <2>2. CASE Find(cache, k) = NoSlot
    <3> DEFINE full == Len(cache.cache) >= max_size
               stay == IF full THEN Used(cache) \ {Head(cache.cache)} ELSE Used(cache)
    <3>1. PICK n \in Used(d) : /\ d.store[n].data = NoData /\ Used(d) = stay \cup {n}
                               /\ \A s \in Used(d) \ {n} : d.store[s] = cache.store[s]
      BY <1>1, <2>2, EvictedLive DEF Inserted
    <3>2. stay \subseteq Used(cache)
      OBVIOUS
    <3> HIDE DEF d, stay
    <3> QED
      BY <3>1, <3>2 DEF TableInv
  <2> QED
    BY <2>1, <2>2
<1> QED
  BY <1>2, <1>3, <1>4

LEMMA TableStep ==
  ASSUME TableInv, [Next]_vars
  PROVE  TableInv'
<1>1. CASE UNCHANGED <<cache, writing>>
  BY <1>1 DEF TableInv, Live, Sound, Used
<1>2. ASSUME NEW u \in User, LookUp(u)
      PROVE  TableInv'
  <2>1. cache' = Found(cache, user[u].want) /\ UNCHANGED writing
    BY <1>2 DEF LookUp
  <2> QED
    BY <2>1, FoundLive DEF TableInv
<1>3. ASSUME NEW k \in Key, Decode(k)
      PROVE  TableInv'
  <2>1. cache' = Inserted(cache, k) /\ writing' = Find(Inserted(cache, k), k)
    BY <1>3 DEF Decode
  <2> QED
    BY <2>1, InsertedLive DEF TableInv
<1>4. CASE WriteName
  <2>1. writing \in Used(cache) /\ writing \in Slot
    BY <1>4, LiveParts DEF WriteName, TableInv
  <2> DEFINE x == cache.store[writing].key
  <2>2. x \in Names /\ Live(cache, Names)
    BY <2>1 DEF TableInv, Live, Sound, Names
  <2>3. cache' = [cache EXCEPT !.store[writing].data = x] /\ writing' = Nobody
    BY <1>4 DEF WriteName
  <2> HIDE DEF x
  <2>4. /\ Live(cache', Names) /\ Used(cache') = Used(cache)
        /\ \A t \in Used(cache) :
             /\ (cache').store[t].key = cache.store[t].key
             /\ (cache').store[t].data = IF t = writing THEN x ELSE cache.store[t].data
    BY <2>1, <2>2, <2>3, RewrittenLive
  <2>5. \A t \in Used(cache) : (cache').store[t].data \in {(cache').store[t].key, NoData}
    BY <2>4 DEF TableInv, x
  <2> QED
    BY <2>3, <2>4, <2>5 DEF TableInv
<1>5. CASE \E u \in User : ReadName(u) \/ Search(u) \/ Push(u) \/ \E k \in Key : Turn(u, k)
  BY <1>1, <1>5 DEF ReadName, Search, Push, Turn
<1>6. CASE BeginResolve \/ Resolve \/ ClearQueue \/ (\E k \in Key : LoseName(k)) \/ UNCHANGED vars
  BY <1>1, <1>6 DEF BeginResolve, Resolve, ClearQueue, LoseName, vars
<1> QED
  BY <1>2, <1>3, <1>4, <1>5, <1>6 DEF Next

LEMMA LoopStep ==
  ASSUME LoopInv, [Next]_vars
  PROVE  LoopInv'
<1>1. CASE UNCHANGED <<phase, at>>
  BY <1>1 DEF LoopInv
<1>2. CASE \E u \in User : LookUp(u) \/ ReadName(u) \/ Search(u) \/ \E k \in Key : Turn(u, k)
  BY <1>1, <1>2 DEF LookUp, ReadName, Search, Turn, queue
<1>3. CASE \E u \in User : Push(u)
  BY <1>1, <1>3 DEF LoopInv, Push
<1>4. CASE BeginResolve \/ Resolve \/ ClearQueue
  BY <1>4 DEF LoopInv, BeginResolve, Resolve, ClearQueue
<1>5. CASE (\E k \in Key : Decode(k) \/ LoseName(k)) \/ WriteName \/ UNCHANGED vars
  BY <1>1, <1>5 DEF Decode, LoseName, WriteName, queue, vars
<1> QED
  BY <1>2, <1>3, <1>4, <1>5 DEF Next

\* Every slot of the table is in use or free, a name under way goes into an entry in
\* use, and the loop of lru_resolve is at an element of the array (lru_cache.cpp:90-332).
THEOREM NamesCorrect == Spec => []NamesSound
<1>1. Init => TableInv /\ LoopInv
  <2> SUFFICES ASSUME Init PROVE TableInv /\ LoopInv
    OBVIOUS
  <2>1. Live(cache, Names) /\ Used(cache) = {}
    BY CreatedLive DEF Init
  <2> QED
    BY <2>1 DEF Init, TableInv, LoopInv
<1>2. TableInv /\ LoopInv => NamesSound
  BY DEF TableInv, LoopInv, NamesSound, Live
<1> QED
  BY <1>1, <1>2, TableStep, LoopStep, PTL DEF Spec

-----------------------------------------------------------------------------
(***************************************************************************)
(* The pointers.  Used slots are in the order of their last use.  Behind   *)
(* the entry of a pointer come only names used since it was returned, and  *)
(* an entry is evicted when it is the first of a full table: then          *)
(* max_size other names, the new one counted, were used since.             *)
(***************************************************************************)

\* The pointer w has into the table c.
Good(c, w) ==
  w.slot # NoSlot =>
    /\ IsFiniteSet(w.since)
    /\ Cardinality(w.since) < max_size =>
         /\ w.slot \in Used(c) /\ c.store[w.slot].key = w.want
         /\ \A t : Before(c.cache, w.slot, t) => c.store[t].key \in w.since

\* The effect of Touched on one user.
Seen(w, k) == IF w.slot # NoSlot /\ w.want # k THEN [w EXCEPT !.since = @ \cup {k}] ELSE w

UserInv == user \in [User -> UserType]
PointerInv == \A u \in User : Good(cache, user[u])

\* A full table has max_size keys.
LEMMA ManyKeys ==
  ASSUME NEW Data, NEW c, Live(c, Data), Len(c.cache) = max_size,
         NEW S, IsFiniteSet(S), \A s \in Used(c) : c.store[s].key \in S
  PROVE  ~(Cardinality(S) < max_size)
<1> DEFINE f == [i \in 1 .. max_size |-> c.store[c.cache[i]].key]
<1>1. DOMAIN c.cache = 1 .. max_size /\ max_size \in Nat
  BY LiveParts, CacheAssumption, SequenceShape
<1>2. \A i \in 1 .. max_size : c.cache[i] \in Used(c)
  BY <1>1 DEF Used
<1>3. f \in [1 .. max_size -> S]
  BY <1>2
<1>4. IsFiniteSet(1 .. max_size) /\ Cardinality(1 .. max_size) = max_size
  BY <1>1, FS_Interval, CacheAssumption
<1>5. \A i \in 1 .. max_size : f[i] = c.store[c.cache[i]].key
  OBVIOUS
<1> HIDE DEF f
<1>6. SUFFICES ASSUME Cardinality(S) < max_size PROVE FALSE
  OBVIOUS
<1>7. PICK i \in 1 .. max_size, j \in 1 .. max_size : i # j /\ f[i] = f[j]
  BY <1>3, <1>4, <1>6, FS_PigeonHole
<1>8. c.cache[i] = c.cache[j]
  BY <1>2, <1>5, <1>7 DEF Live, Sound
<1> QED
  BY <1>1, <1>7, <1>8 DEF Live, Sound, Partition

\* What was used since grows by a name that is not the pointer's own.
LEMMA SeenSince ==
  ASSUME NEW w \in UserType, NEW k, w.slot # NoSlot, IsFiniteSet(w.since)
  PROVE  LET v == Seen(w, k)
         IN  /\ v.slot = w.slot /\ v.want = w.want
             /\ IsFiniteSet(v.since) /\ w.since \subseteq v.since
             /\ w.want # k => k \in v.since
             /\ Cardinality(v.since) < max_size => Cardinality(w.since) < max_size
<1> DEFINE v == Seen(w, k)
<1>1. CASE w.want = k
  BY <1>1 DEF Seen
<1>2. CASE w.want # k
  <2>1. v.slot = w.slot /\ v.want = w.want /\ v.since = w.since \cup {k}
    BY <1>2 DEF Seen, UserType
  <2>2. /\ IsFiniteSet(v.since) /\ Cardinality(w.since) \in Nat
        /\ Cardinality(v.since) = IF k \in w.since THEN Cardinality(w.since)
                                  ELSE Cardinality(w.since) + 1
    BY <2>1, FS_AddElement, FS_CardinalityType
  <2>3. Cardinality(v.since) < max_size => Cardinality(w.since) < max_size
    BY <2>2, CacheAssumption
  <2> QED
    BY <2>1, <2>2, <2>3
<1> QED
  BY <1>1, <1>2

\* A pointer without an entry stays without.
LEMMA SeenNothing ==
  ASSUME NEW w, NEW k, NEW c, w.slot = NoSlot
  PROVE  Good(c, Seen(w, k))
BY DEF Good, Seen

\* The entry of k, once it is the newest, has none behind it.
LEMMA NewestIsLast ==
  ASSUME NEW q \in Seq(Slot), NEW i \in DOMAIN q, NEW t,
         \A m, n \in DOMAIN q : q[m] = q[n] => m = n
  PROVE  ~Before(Append(Unlinked(q, q[i]), q[i]), q[i], t)
<1> DEFINE u == Unlinked(q, q[i])
<1>1. u \in Seq(Slot) /\ ~In(q[i], u) /\ q[i] \in Slot
  BY UnlinkedShape, SequenceShape
<1> HIDE DEF u
<1>2. ~Before(u, q[i], t)
  BY <1>1 DEF Before, In
<1> QED
  BY <1>1, <1>2, AppendedOrder DEF u

\* Another name becomes the newest.
LEMMA GoodFound ==
  ASSUME TableInv, NEW k, Find(cache, k) # NoSlot, NEW w \in UserType, Good(cache, w)
  PROVE  Good(ToNewest(cache, Find(cache, k)), Seen(w, k))
<1> DEFINE s == Find(cache, k)
           d == ToNewest(cache, s)
           q == cache.cache
           u == Unlinked(q, s)
<1>1. CASE w.slot = NoSlot
  BY <1>1, SeenNothing
<1>2. CASE w.slot # NoSlot
  <2>1. Live(cache, Names) /\ s \in Used(cache) /\ cache.store[s].key = k
    BY FindProperties DEF TableInv
  <2>2. Used(d) = Used(cache) /\ d.store = cache.store /\ d.cache = Append(u, s)
    BY <2>1, NewestLive
  <2>3. PICK i \in DOMAIN q : s = q[i]
    BY <2>1 DEF Used
  <2>4. q \in Seq(Slot) /\ \A m, n \in DOMAIN q : q[m] = q[n] => m = n
    BY <2>1, LiveParts DEF Partition
  <2>5. u \in Seq(Slot) /\ s \in Slot
    BY <2>3, <2>4, UnlinkedShape, SequenceShape
  <2> DEFINE v == Seen(w, k)
  <2>6. IsFiniteSet(w.since)
    BY <1>2 DEF Good
  <2>7. /\ v.slot = w.slot /\ v.want = w.want /\ IsFiniteSet(v.since) /\ w.since \subseteq v.since
        /\ w.want # k => k \in v.since
        /\ Cardinality(v.since) < max_size => Cardinality(w.since) < max_size
    BY <1>2, <2>6, SeenSince
  <2> HIDE DEF d, v, s, q
  <2>8. SUFFICES ASSUME Cardinality(v.since) < max_size
                 PROVE  /\ w.slot \in Used(d) /\ d.store[w.slot].key = w.want
                        /\ \A t : Before(d.cache, w.slot, t) => d.store[t].key \in v.since
    BY <2>7 DEF Good, v, d, s
  <2>9. /\ w.slot \in Used(cache) /\ cache.store[w.slot].key = w.want
        /\ \A t : Before(q, w.slot, t) => cache.store[t].key \in w.since
    BY <1>2, <2>7, <2>8 DEF Good, q
  <2>10. ASSUME NEW t, Before(d.cache, w.slot, t)
         PROVE  d.store[t].key \in v.since
    <3>1. w.slot # s
      BY <2>2, <2>3, <2>4, <2>10, NewestIsLast
    <3>2. w.want # k
      BY <2>1, <2>9, <3>1 DEF Live, Sound
    <3>3. CASE Before(u, w.slot, t)
      BY <2>2, <2>3, <2>4, <2>7, <2>9, <3>3, UnlinkedOrder
    <3>4. CASE t = s
      BY <2>1, <2>2, <2>7, <3>2, <3>4
    <3> QED
      BY <2>2, <2>5, <2>10, <3>3, <3>4, AppendedOrder
  <2> QED
    BY <2>2, <2>9, <2>10
<1> QED
  BY <1>1, <1>2

\* A name that was not in the table is added: a pointer into the entry that is evicted
\* for it has outlived max_size other names.
LEMMA GoodAdded ==
  ASSUME TableInv, NEW k \in Key, Find(cache, k) = NoSlot, NEW w \in UserType, Good(cache, w)
  PROVE  Good(Inserted(cache, k), Seen(w, k))
<1> DEFINE d == Inserted(cache, k)
           q == cache.cache
           full == Len(q) >= max_size
           v == Seen(w, k)
           rest == IF full THEN Unlinked(q, Head(q)) ELSE q
           stay == IF full THEN Used(cache) \ {Head(q)} ELSE Used(cache)
<1>1. CASE w.slot = NoSlot
  BY <1>1, SeenNothing
<1>2. CASE w.slot # NoSlot
  <2>1. Live(cache, Names) /\ NoData \in Names
    BY DEF TableInv, Names
  <2>2. /\ Live(d, Names)
        /\ full => Head(q) \in Used(cache) /\ Len(q) = max_size
    BY <2>1, EvictedLive DEF Inserted
  <2>3. PICK n \in Used(d) :
          /\ d.store[n].key = k /\ d.cache = Append(rest, n)
          /\ Used(d) = stay \cup {n} /\ n \notin stay
          /\ \A s \in Used(d) \ {n} : d.store[s] = cache.store[s]
    BY <2>1, EvictedLive DEF Inserted
  <2>4. q \in Seq(Slot) /\ \A m, o \in DOMAIN q : q[m] = q[o] => m = o
    BY <2>1, LiveParts DEF Partition
  <2>5. n \in Slot
    BY <2>2, LiveParts
  <2>6. full => /\ 1 \in DOMAIN q /\ q[1] = Head(q)
                /\ rest \in Seq(Slot) /\ Len(rest) = Len(q) - 1
                /\ \A s : In(s, rest) => In(s, q) /\ s # Head(q)
    <3>1. full => 1 \in DOMAIN q /\ q[1] = Head(q)
      BY <2>4, CacheAssumption, SequenceShape
    <3>2. full => rest = Unlinked(q, q[1])
      BY <3>1
    <3> HIDE DEF full, rest, q
    <3> QED
      BY <2>4, <3>1, <3>2, UnlinkedShape
  <2>7. IsFiniteSet(w.since)
    BY <1>2 DEF Good
  <2>8. /\ v.slot = w.slot /\ v.want = w.want /\ IsFiniteSet(v.since) /\ w.since \subseteq v.since
        /\ w.want # k => k \in v.since
        /\ Cardinality(v.since) < max_size => Cardinality(w.since) < max_size
    BY <1>2, <2>7, SeenSince
  <2>9. \A s : In(s, rest) => s \in stay
    BY <2>6, InUse
  <2>10. \A s, t : Before(rest, s, t) => Before(q, s, t)
    <3>1. CASE full
      <4>1. rest = Unlinked(q, q[1])
        BY <2>6, <3>1
      <4> HIDE DEF full, rest, q
      <4> QED
        BY <2>4, <2>6, <3>1, <4>1, UnlinkedOrder
    <3>2. CASE ~full
      BY <3>2
    <3> QED
      BY <3>1, <3>2
  <2> HIDE DEF d, v
  <2>11. SUFFICES ASSUME Cardinality(v.since) < max_size
                  PROVE  /\ w.slot \in Used(d) /\ d.store[w.slot].key = w.want
                         /\ \A t : Before(d.cache, w.slot, t) => d.store[t].key \in v.since
    BY <2>8 DEF Good, v, d
  <2>12. /\ w.slot \in Used(cache) /\ cache.store[w.slot].key = w.want
         /\ \A t : Before(q, w.slot, t) => cache.store[t].key \in w.since
    BY <1>2, <2>8, <2>11 DEF Good
  <2>13. w.want # k
    BY <2>1, <2>12, FindProperties
  <2>14. ~(full /\ w.slot = Head(q))
    <3> SUFFICES ASSUME full, w.slot = Head(q) PROVE FALSE
      OBVIOUS
    <3>1. \A s \in stay : cache.store[s].key \in v.since
      <4> SUFFICES ASSUME NEW s \in stay PROVE cache.store[s].key \in v.since
        OBVIOUS
      <4>1. s \in Used(cache) /\ s # q[1]
        BY <2>6
      <4>2. PICK j \in DOMAIN q : q[j] = s
        BY <4>1 DEF Used
      <4>3. 1 < j
        BY <2>4, <4>1, <4>2, SequenceShape
      <4>4. Before(q, w.slot, s)
        BY <2>6, <4>2, <4>3 DEF Before
      <4> QED
        BY <2>8, <2>12, <4>4
    <3>2. \A s \in Used(d) : d.store[s].key \in v.since
      BY <2>3, <2>8, <2>13, <3>1
    <3>3. Len(d.cache) = max_size
      <4> HIDE DEF rest, full, q
      <4>1. Len(rest) = max_size - 1 /\ rest \in Seq(Slot)
        BY <2>2, <2>6
      <4>2. Len(d.cache) = Len(rest) + 1
        BY <2>3, <2>5, <4>1
      <4> QED
        BY <4>1, <4>2, CacheAssumption
    <3> QED
      BY <2>2, <2>8, <2>11, <3>2, <3>3, ManyKeys
  <2>15. w.slot \in stay
    BY <2>12, <2>14
  <2>16. ASSUME NEW t, Before(d.cache, w.slot, t)
         PROVE  d.store[t].key \in v.since
    <3>1. rest \in Seq(Slot)
      BY <2>4, <2>6
    <3> HIDE DEF rest, stay, q, full
    <3>2. CASE Before(rest, w.slot, t)
      <4>1. t \in stay
        BY <2>9, <3>2 DEF Before, In
      <4>2. d.store[t] = cache.store[t]
        BY <2>3, <4>1
      <4> QED
        BY <2>8, <2>10, <2>12, <3>2, <4>2
    <3>3. CASE t = n
      BY <2>3, <2>8, <2>13, <3>3
    <3> QED
      BY <2>3, <2>5, <2>16, <3>1, <3>2, <3>3, AppendedOrder
  <2> HIDE DEF stay
  <2>17. d.store[w.slot] = cache.store[w.slot] /\ w.slot \in Used(d)
    BY <2>3, <2>15
  <2> QED
    BY <2>12, <2>16, <2>17
<1> QED
  BY <1>1, <1>2

\* cache_insert.
LEMMA GoodInserted ==
  ASSUME TableInv, NEW k \in Key, NEW w \in UserType, Good(cache, w)
  PROVE  Good(Inserted(cache, k), Seen(w, k))
<1>1. CASE Find(cache, k) # NoSlot
  <2>1. Inserted(cache, k) = ToNewest(cache, Find(cache, k))
    BY <1>1, LiveParts DEF TableInv, Inserted, InsertAndEvict
  <2> QED
    BY <1>1, <2>1, GoodFound
<1>2. CASE Find(cache, k) = NoSlot
  BY <1>2, GoodAdded
<1> QED
  BY <1>1, <1>2

\* A pointer stays good in a table of the same order and keys.
LEMMA GoodSame ==
  ASSUME NEW c, NEW d, NEW w, NEW v, d.cache = c.cache,
         \A t \in Used(c) : d.store[t].key = c.store[t].key,
         v.slot = w.slot, v.want = w.want, v.since = w.since, Good(c, w)
  PROVE  Good(d, v)
<1>1. Used(d) = Used(c)
  BY DEF Used
<1>2. \A t : Before(c.cache, w.slot, t) => t \in Used(c)
  BY DEF Before, Used
<1> QED
  BY <1>1, <1>2 DEF Good

\* What a look-up makes of its user, and of the others.
LEMMA LookedUp ==
  ASSUME TableInv, UserInv, NEW u \in User, LookUp(u)
  PROVE  LET k == user[u].want
             s == Find(cache, k)
         IN  /\ UserInv' /\ user[u].want \in Key
             /\ s # NoSlot => s \in Used(cache) /\ cache.store[s].key = k /\ s \in Slot
             /\ user'[u].slot = s /\ user'[u].want = k /\ user'[u].since = {}
             /\ \A v \in User \ {u} :
                  user'[v] = IF s = NoSlot THEN user[v] ELSE Seen(user[v], k)
<1> DEFINE k == user[u].want
           s == Find(cache, k)
           pc == IF s = NoSlot THEN "missing" ELSE "found"
           w == [user[u] EXCEPT !.pc = pc, !.slot = s, !.since = {}]
           fresh == [user EXCEPT ![u] = w]
<1>1. s # NoSlot => s \in Used(cache) /\ cache.store[s].key = k /\ s \in Slot
  BY FindProperties, LiveParts DEF TableInv
<1>2. user[u] \in UserType /\ user[u].want \in Key
  BY DEF UserInv, UserType
<1>3. pc \in {"missing", "found"}
  OBVIOUS
<1>4. user' = IF s = NoSlot THEN fresh ELSE Touched(fresh, k)
  <2> DEFINE set == [user EXCEPT ![u].pc = pc, ![u].slot = s, ![u].since = {}]
  <2>1. fresh = set
    BY DEF UserInv
  <2>2. user' = IF s = NoSlot THEN set ELSE Touched(set, k)
    BY Zenon DEF LookUp
  <2> HIDE DEF fresh, set
  <2> QED
    BY <2>1, <2>2
<1> HIDE DEF s, pc
<1>5. w \in UserType /\ w.want = k /\ w.slot = s /\ w.since = {}
  BY <1>1, <1>2, <1>3 DEF UserType
<1> HIDE DEF w
<1>6. fresh \in [User -> UserType] /\ fresh[u] = w /\ \A v \in User \ {u} : fresh[v] = user[v]
  BY <1>5 DEF UserInv
<1> HIDE DEF fresh
<1>7. Touched(fresh, k) = [v \in User |-> Seen(fresh[v], k)]
  BY DEF Touched, Seen
<1>8. \A v \in User : Seen(fresh[v], k) \in UserType
  BY <1>2, <1>6 DEF Seen, UserType
<1>9. user' \in [User -> UserType]
  BY <1>4, <1>6, <1>7, <1>8
<1>10. Seen(w, k) = w
  BY <1>5 DEF Seen
<1>11. user'[u] = w /\ \A v \in User \ {u} : user'[v] = IF s = NoSlot THEN user[v] ELSE Seen(user[v], k)
  BY <1>4, <1>6, <1>7, <1>10
<1> QED
  BY <1>1, <1>2, <1>5, <1>9, <1>11 DEF UserInv, s

\* What the other steps of a user make of it: its pointer is kept, or dropped.
LEMMA Stepped ==
  ASSUME UserInv, NEW u \in User,
         ReadName(u) \/ Search(u) \/ Push(u) \/ \E k \in Key : Turn(u, k)
  PROVE  /\ UserInv' /\ UNCHANGED cache
         /\ \A v \in User :
              \/ user'[v].slot = NoSlot
              \/ /\ user'[v].slot = user[v].slot /\ user'[v].want = user[v].want
                 /\ user'[v].since = user[v].since
<1> DEFINE pcs == {"idle", "found", "missing", "push", "done"}
           Moved == \E pc \in pcs : user' = [user EXCEPT ![u].pc = pc]
           Dropped == \E k \in Key, pc \in pcs :
                        user' = [user EXCEPT ![u] = [want |-> k, pc |-> pc, slot |-> NoSlot,
                                                     since |-> {}]]
<1>1. Ended(u) \in pcs
  BY DEF Ended
<1>2. user[u] \in UserType /\ user[u].want \in Key
  BY DEF UserInv, UserType
<1>3. UNCHANGED cache
  BY DEF ReadName, Search, Push, Turn
<1>4. CASE Moved
  <2>1. PICK pc \in pcs : user' = [user EXCEPT ![u].pc = pc]
    BY <1>4
  <2> DEFINE w == [user[u] EXCEPT !.pc = pc]
  <2>2. w \in UserType /\ w.slot = user[u].slot /\ w.want = user[u].want /\ w.since = user[u].since
    BY <1>2, <2>1 DEF UserType
  <2>3. user' = [user EXCEPT ![u] = w]
    BY <2>1
  <2> HIDE DEF w
  <2> QED
    BY <1>3, <2>2, <2>3 DEF UserInv
<1>5. CASE Dropped
  <2>1. PICK k \in Key, pc \in pcs :
          user' = [user EXCEPT ![u] = [want |-> k, pc |-> pc, slot |-> NoSlot, since |-> {}]]
    BY <1>5
  <2> DEFINE w == [want |-> k, pc |-> pc, slot |-> NoSlot, since |-> {}]
  <2>2. w \in UserType /\ w.slot = NoSlot
    BY <2>1 DEF UserType
  <2>3. user' = [user EXCEPT ![u] = w]
    BY <2>1
  <2> HIDE DEF w
  <2> QED
    BY <1>3, <2>2, <2>3 DEF UserInv
<1>6. Moved \/ Dropped
  <2>1. CASE ReadName(u)
    <3>1. CASE cache.store[user[u].slot].data = NoData
      <4> DEFINE k == user[u].want
                 w == [Wanting(k) EXCEPT !.pc = Ended(u)]
      <4>1. w = [want |-> k, pc |-> Ended(u), slot |-> NoSlot, since |-> {}]
        BY DEF Wanting
      <4>2. user' = [user EXCEPT ![u] = w]
        BY <2>1, <3>1, Zenon DEF ReadName
      <4> HIDE DEF k, w
      <4> QED
        BY <1>1, <1>2, <4>1, <4>2 DEF k
    <3>2. CASE cache.store[user[u].slot].data # NoData
      BY <1>1, <2>1, <3>2 DEF ReadName
    <3> QED
      BY <3>1, <3>2
  <2>2. CASE Search(u)
    <3>1. CASE Waits(user[u].want)
      BY <1>1, <2>2, <3>1 DEF Search
    <3>2. CASE ~Waits(user[u].want)
      BY <2>2, <3>2 DEF Search
    <3> QED
      BY <3>1, <3>2
  <2>3. CASE Push(u)
    BY <1>1, <2>3 DEF Push
  <2>4. CASE \E k \in Key : Turn(u, k)
    BY <2>4 DEF Turn, Wanting
  <2> QED
    BY <2>1, <2>2, <2>3, <2>4
<1> QED
  BY <1>4, <1>5, <1>6

LEMMA PointerLookUp ==
  ASSUME TableInv, UserInv, PointerInv, NEW u \in User, LookUp(u)
  PROVE  UserInv' /\ PointerInv'
<1> DEFINE k == user[u].want
           s == Find(cache, k)
           d == ToNewest(cache, s)
<1>1. /\ UserInv'
      /\ s # NoSlot => s \in Used(cache) /\ cache.store[s].key = k
      /\ user'[u].slot = s /\ user'[u].want = k /\ user'[u].since = {}
      /\ \A v \in User \ {u} : user'[v] = IF s = NoSlot THEN user[v] ELSE Seen(user[v], k)
  BY LookedUp
<1>2. cache' = Found(cache, k)
  BY DEF LookUp
<1>3. CASE s = NoSlot
  <2>1. cache' = cache
    BY <1>2, <1>3 DEF Found
  <2>2. \A v \in User : Good(cache', user'[v])
    BY <1>1, <1>3, <2>1 DEF PointerInv, Good
  <2> QED
    BY <1>1, <2>2 DEF PointerInv
<1>4. CASE s # NoSlot
  <2>1. cache' = d
    BY <1>2, <1>4 DEF Found
  <2>2. \A v \in User : user[v] \in UserType
    BY DEF UserInv
  <2>3. \A v \in User \ {u} : Good(d, user'[v])
    BY <1>1, <1>4, <2>2, GoodFound DEF PointerInv
  <2>4. Used(d) = Used(cache) /\ d.store = cache.store /\ d.cache = Append(Unlinked(cache.cache, s), s)
    BY <1>1, <1>4, NewestLive DEF TableInv
  <2>5. PICK i \in DOMAIN cache.cache : s = cache.cache[i]
    BY <1>1, <1>4 DEF Used
  <2>6. cache.cache \in Seq(Slot)
        /\ \A m, n \in DOMAIN cache.cache : cache.cache[m] = cache.cache[n] => m = n
    BY LiveParts DEF Partition, TableInv
  <2>7. \A t : ~Before(d.cache, s, t)
    BY <2>4, <2>5, <2>6, NewestIsLast
  <2> HIDE DEF d, s, k
  <2>8. Good(d, user'[u])
    BY <1>1, <1>4, <2>4, <2>7, FS_EmptySet DEF Good
  <2> QED
    BY <1>1, <2>1, <2>3, <2>8 DEF PointerInv
<1> QED
  BY <1>3, <1>4

LEMMA PointerDecode ==
  ASSUME TableInv, UserInv, PointerInv, NEW k \in Key, Decode(k)
  PROVE  UserInv' /\ PointerInv'
<1>1. cache' = Inserted(cache, k) /\ user' = [u \in User |-> Seen(user[u], k)]
  BY DEF Decode, Touched, Seen
<1>2. \A u \in User : user[u] \in UserType /\ Seen(user[u], k) \in UserType
  BY DEF UserInv, Seen, UserType
<1>3. \A u \in User : Good(Inserted(cache, k), Seen(user[u], k))
  BY <1>2, GoodInserted DEF PointerInv
<1> QED
  BY <1>1, <1>2, <1>3 DEF UserInv, PointerInv

LEMMA PointerStep ==
  ASSUME TableInv, UserInv, PointerInv, [Next]_vars
  PROVE  UserInv' /\ PointerInv'
<1>1. CASE UNCHANGED <<cache, user>>
  BY <1>1 DEF UserInv, PointerInv
<1>2. CASE \E u \in User : ReadName(u) \/ Search(u) \/ Push(u) \/ \E k \in Key : Turn(u, k)
  <2>1. /\ UserInv' /\ UNCHANGED cache
        /\ \A v \in User : \/ user'[v].slot = NoSlot
                           \/ /\ user'[v].slot = user[v].slot /\ user'[v].want = user[v].want
                              /\ user'[v].since = user[v].since
    BY <1>2, Stepped
  <2>2. \A v \in User : Good(cache', user'[v])
    BY <2>1 DEF PointerInv, Good
  <2> QED
    BY <2>1, <2>2 DEF PointerInv
<1>3. CASE WriteName
  <2>1. writing \in Used(cache) /\ Live(cache, Names) /\ cache.store[writing].key \in Names
    BY <1>3 DEF WriteName, TableInv, Live, Sound, Names
  <2>2. /\ UNCHANGED user
        /\ cache' = [cache EXCEPT !.store[writing].data = cache.store[writing].key]
    BY <1>3 DEF WriteName, queue
  <2>3. /\ (cache').cache = cache.cache
        /\ \A t \in Used(cache) : (cache').store[t].key = cache.store[t].key
    BY <2>1, <2>2, RewrittenLive
  <2>4. \A v \in User : Good(cache', user'[v])
    BY <2>2, <2>3, GoodSame DEF PointerInv
  <2> QED
    BY <2>2, <2>4 DEF UserInv, PointerInv
<1>4. CASE BeginResolve \/ Resolve \/ (\E k \in Key : LoseName(k)) \/ UNCHANGED vars
  BY <1>1, <1>4 DEF BeginResolve, Resolve, LoseName, vars
<1>5. CASE ClearQueue
  <2> DEFINE w == [user[Game] EXCEPT !.pc = "idle"]
  <2>1. user[Game] \in UserType
    BY NameAssumption DEF UserInv
  <2>2. w \in UserType /\ w.slot = user[Game].slot /\ w.want = user[Game].want
        /\ w.since = user[Game].since
    BY <2>1 DEF UserType
  <2>3. user' = [user EXCEPT ![Game] = w] /\ UNCHANGED cache
    BY <1>5 DEF ClearQueue
  <2> HIDE DEF w
  <2>4. Good(cache, w)
    BY <2>2, NameAssumption DEF PointerInv, Good
  <2> QED
    BY <2>2, <2>3, <2>4, NameAssumption DEF UserInv, PointerInv
<1> QED
  BY <1>2, <1>3, <1>4, <1>5, PointerLookUp, PointerDecode DEF Next

\* A pointer lru_find returned is to the entry of its key until max_size other names
\* were looked up or decoded (lru_cache.cpp:143-167, 253-280).
THEOREM PointersCorrect == Spec => []PointerValid
<1>1. Init => TableInv /\ UserInv /\ PointerInv
  <2> SUFFICES ASSUME Init PROVE TableInv /\ UserInv /\ PointerInv
    OBVIOUS
  <2>1. Live(cache, Names) /\ Used(cache) = {}
    BY CreatedLive DEF Init
  <2>2. user \in [User -> {Wanting(k) : k \in Key}]
    BY DEF Init
  <2>3. \A k \in Key : Wanting(k) \in UserType /\ Wanting(k).slot = NoSlot
    BY DEF Wanting, UserType
  <2> QED
    BY <2>1, <2>2, <2>3 DEF Init, TableInv, UserInv, PointerInv, Good
<1>2. TableInv /\ PointerInv => PointerValid
  BY DEF TableInv, PointerInv, Good, PointerValid
<1> QED
  BY <1>1, <1>2, TableStep, PointerStep, PTL DEF Spec

-----------------------------------------------------------------------------
(***************************************************************************)
(* The names that wait, and the types.                                     *)
(***************************************************************************)

QueueInv ==
  /\ unresolved \in Seq(Key) /\ asked \in SUBSET Key
  /\ phase \in {"out", "loop", "clear"} /\ at \in 0 .. Len(unresolved)

LEMMA QueueStep ==
  ASSUME QueueInv, LoopInv, UserInv, [Next]_vars
  PROVE  QueueInv'
<1> USE DEF QueueInv
<1>0. Len(unresolved) \in Nat /\ DOMAIN unresolved = 1 .. Len(unresolved)
  OBVIOUS
<1>1. CASE UNCHANGED <<unresolved, phase, at, asked>>
  BY <1>1
<1>2. ASSUME NEW u \in User, LookUp(u) \/ ReadName(u) \/ Search(u) \/ \E k \in Key : Turn(u, k)
      PROVE  QueueInv'
  BY <1>1, <1>2 DEF LookUp, ReadName, Search, Turn, queue
<1>3. ASSUME NEW u \in User, Push(u)
      PROVE  QueueInv'
  <2> DEFINE k == user[u].want
  <2>1. k \in Key
    BY DEF UserInv, UserType
  <2>2. unresolved' = Append(unresolved, k) /\ asked' = asked
    BY <1>3 DEF Push
  <2>3. \/ UNCHANGED <<phase, at>>
        \/ phase = "loop" /\ phase' = phase /\ at' = 1
        \/ phase' = "clear" /\ at' = 0
    BY <1>3 DEF Push
  <2> HIDE DEF k
  <2>4. unresolved' \in Seq(Key) /\ Len(unresolved') = Len(unresolved) + 1
    BY <2>1, <2>2
  <2> QED
    BY <1>0, <2>2, <2>3, <2>4
<1>4. CASE BeginResolve
  <2>1. UNCHANGED <<unresolved, asked>>
    BY <1>4 DEF BeginResolve
  <2>2. \/ phase' = "clear" /\ at' = 0
        \/ unresolved # <<>> /\ phase' = "loop" /\ at' = 1
    BY <1>4 DEF BeginResolve
  <2>3. unresolved # <<>> => Len(unresolved) >= 1
    OBVIOUS
  <2> QED
    BY <1>0, <2>1, <2>2, <2>3
<1>5. CASE Resolve
  <2>1. at \in DOMAIN unresolved
    BY <1>0, <1>5 DEF Resolve, LoopInv
  <2>2. unresolved[at] \in Key
    BY <2>1
  <2>3. asked' \in SUBSET Key /\ unresolved' = unresolved
    BY <1>5, <2>2 DEF Resolve
  <2>4. \/ at < Len(unresolved) /\ at' = at + 1 /\ phase' = phase
        \/ phase' = "clear" /\ at' = 0
    BY <1>5 DEF Resolve, HasNext
  <2> QED
    BY <1>0, <2>3, <2>4
<1>6. CASE ClearQueue
  <2>1. at = 0
    BY <1>6 DEF ClearQueue, LoopInv
  <2>2. unresolved' = <<>> /\ phase' = "out" /\ UNCHANGED <<at, asked>>
    BY <1>6 DEF ClearQueue
  <2> QED
    BY <2>1, <2>2
<1>7. CASE (\E k \in Key : Decode(k) \/ LoseName(k)) \/ WriteName \/ UNCHANGED vars
  BY <1>7 DEF Decode, LoseName, WriteName, queue, vars
<1> QED
  BY <1>2, <1>3, <1>4, <1>5, <1>6, <1>7 DEF Next

\* Every variable keeps its type for every capacity, set of keys and set of users: what
\* waits and what is asked are keys, and the loop of lru_resolve is within the array,
\* although others push to it and it is cleared (lru_cache.cpp:90-332).
THEOREM NamesTypes == Spec => []TypeOK
<1>1. Init => TableInv /\ LoopInv /\ UserInv /\ PointerInv /\ QueueInv
  <2> SUFFICES ASSUME Init PROVE TableInv /\ LoopInv /\ UserInv /\ PointerInv /\ QueueInv
    OBVIOUS
  <2>1. Live(cache, Names) /\ Used(cache) = {}
    BY CreatedLive DEF Init
  <2>2. user \in [User -> {Wanting(k) : k \in Key}]
    BY DEF Init
  <2>3. \A k \in Key : Wanting(k) \in UserType /\ Wanting(k).slot = NoSlot
    BY DEF Wanting, UserType
  <2> QED
    BY <2>1, <2>2, <2>3 DEF Init, TableInv, LoopInv, UserInv, PointerInv, Good, QueueInv
<1>2. TableInv /\ LoopInv /\ UserInv /\ PointerInv /\ QueueInv => TypeOK
  <2> SUFFICES ASSUME TableInv, UserInv, QueueInv PROVE TypeOK
    OBVIOUS
  <2>1. cache \in CacheOf(Names) /\ Used(cache) \subseteq Slot
    BY LiveParts DEF TableInv, Live
  <2>2. cache \in CacheOf(Key)
    BY <2>1 DEF CacheOf, Names
  <2> QED
    BY <2>1, <2>2 DEF TableInv, UserInv, QueueInv, TypeOK
<1> QED
  BY <1>1, <1>2, TableStep, LoopStep, PointerStep, QueueStep, PTL DEF Spec
=============================================================================
