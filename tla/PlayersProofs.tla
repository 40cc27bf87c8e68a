---------------------------- MODULE PlayersProofs ----------------------------
(***************************************************************************)
(* The table of the closest players keeps its types and accounts for every *)
(* slot, and a frame that nothing disturbs leaves the closest in it.       *)
(*                                                                         *)
(* The inductive invariant is about the scan.  What it has scanned is      *)
(* unmarked if it is listed; what it has scanned and not listed was left   *)
(* out of a full table, in which nobody is farther; and the table stays    *)
(* full, as a player who leaves it makes room for a nearer one.            *)
(***************************************************************************)
EXTENDS ClosestPlayers, GameCacheProofs, WellFoundedInduction

-----------------------------------------------------------------------------
(***************************************************************************)
(* Numbers: what holds of 0 and of the next number holds of all.           *)
(***************************************************************************)

\* The order of the natural numbers is well-founded.
LEMMA LeastNumber ==
  ASSUME NEW T, T \subseteq Nat, T # {}
  PROVE  \E m \in T : \A k \in T : m <= k
<1> DEFINE R == {ss \in Nat \X Nat : ss[1] < ss[2]}
<1>1. OpToRel(<, Nat) = R
  BY DEF OpToRel
<1>2. IsWellFoundedOn(R, Nat)
  BY <1>1, NatLessThanWellFounded
<1>3. \A k, m \in Nat : k < m => <<k, m>> \in R
  OBVIOUS
<1> HIDE DEF R
<1>4. PICK m \in T : \A k \in T : ~(<<k, m>> \in R)
  BY <1>2, WFMin
<1>5. \A k \in T : m <= k
  <2> SUFFICES ASSUME NEW k \in T
               PROVE  m <= k
    OBVIOUS
  <2>1. ~(k < m)
    BY <1>3, <1>4
  <2> QED
    BY <2>1
<1> QED
  BY <1>5

\* Induction: a set that has 0 and, with each number, the next one.
LEMMA UpTo ==
  ASSUME NEW n \in Nat, NEW G, 0 \in G, \A i \in 1 .. n : i - 1 \in G => i \in G
  PROVE  \A i \in 0 .. n : i \in G
<1> DEFINE T == {i \in 0 .. n : i \notin G}
<1>1. SUFFICES ASSUME T # {}
               PROVE  FALSE
  OBVIOUS
<1>2. T \subseteq Nat
  OBVIOUS
<1>3. PICK m \in T : \A k \in T : m <= k
  BY <1>1, <1>2, LeastNumber
<1>4. m \in 0 .. n /\ m # 0
  OBVIOUS
<1>5. m - 1 \in G
  BY <1>3, <1>4
<1> QED
  BY <1>4, <1>5
-----------------------------------------------------------------------------
(***************************************************************************)
(* The farthest player.                                                    *)
(***************************************************************************)

\* Every sequence of numbers has a first greatest one.
LEMMA FirstGreatest ==
  ASSUME NEW n \in Nat, n # 0, NEW d \in [1 .. n -> Nat]
  PROVE  \E i \in 1 .. n : \A j \in 1 .. n : d[j] <= d[i] /\ (j < i => d[j] < d[i])
<1> DEFINE Greatest(i, m) == \A j \in 1 .. m : d[j] <= d[i] /\ (j < i => d[j] < d[i])
           G == {m \in 0 .. n : m # 0 => \E i \in 1 .. m : Greatest(i, m)}
<1>1. 0 \in G
  OBVIOUS
<1>2. ASSUME NEW m \in 1 .. n, m - 1 \in G
      PROVE  m \in G
  <2>1. d[m] \in Nat /\ \A j \in 1 .. m : d[j] \in Nat
    OBVIOUS
  <2>2. CASE m = 1
    <3>1. Greatest(1, m)
      BY <2>1, <2>2
    <3> HIDE DEF Greatest
    <3> QED
      BY <2>2, <3>1
  <2>3. CASE m # 1
    <3>1. PICK i \in 1 .. m - 1 : Greatest(i, m - 1)
      BY <1>2, <2>3
    <3>2. CASE d[m] > d[i]
      <4>1. \A j \in 1 .. m - 1 : d[j] < d[m]
        BY <2>1, <3>1, <3>2
      <4>2. Greatest(m, m)
        BY <2>1, <4>1
      <4> HIDE DEF Greatest
      <4> QED
        BY <4>2
    <3>3. CASE ~(d[m] > d[i])
      <4>1. d[m] <= d[i] /\ i < m
        BY <2>1, <3>1, <3>3
      <4>2. Greatest(i, m)
        BY <2>1, <3>1, <4>1
      <4> HIDE DEF Greatest
      <4> QED
        BY <4>2
    <3> QED
      BY <3>2, <3>3
  <2> QED
    BY <2>2, <2>3
<1> HIDE DEF G
<1>3. \A m \in 1 .. n : m - 1 \in G => m \in G
  BY <1>2
<1>4. \A m \in 0 .. n : m \in G
  BY <1>1, <1>3, UpTo
<1>5. n \in G
  BY <1>4
<1> QED
  BY <1>5 DEF G

\* A table of players.
Peopled(c) ==
  /\ Live(c, PlayerData) /\ c.limit <= max_size
  /\ \A s \in Used(c) : c.store[s].data \in PlayerData

LEMMA Parts ==
  ASSUME NEW c, Peopled(c)
  PROVE  /\ c.cache \in Seq(Slot) /\ Len(c.cache) \in Nat /\ Len(c.cache) <= max_size
         /\ c.init /\ c.limit \in Nat
         /\ Used(c) \subseteq Slot
         /\ \A s \in Used(c) : /\ c.store[s].key \in Key /\ c.store[s].data \in PlayerData
                               /\ DistanceOf(c, s) \in Nat /\ c.store[s].data.who \in Name
                               /\ c.store[s].data.marked \in BOOLEAN
         /\ \A s, t \in Used(c) : c.store[s].key = c.store[t].key => s = t
<1>1. /\ c.cache \in Seq(Slot) /\ c.tracker \in Seq(Slot) /\ c.init /\ c.limit \in Nat
      /\ Used(c) \subseteq Slot /\ Partition(c.cache, c.tracker)
  BY LiveParts DEF Peopled
<1> DEFINE n == Len(c.cache)
           m == Len(c.tracker)
<1>2. n \in Nat /\ m \in Nat /\ n + m = max_size
  <2>1. n \in Nat /\ m \in Nat
    BY <1>1, SequenceShape
  <2>2. n + m = max_size
    BY <1>1 DEF Partition
  <2> QED
    BY <2>1, <2>2
<1> HIDE DEF n, m
<1>3. n <= max_size
  BY <1>2, CacheAssumption
<1>4. ASSUME NEW s \in Used(c)
      PROVE  /\ c.store[s].key \in Key /\ c.store[s].data \in PlayerData
             /\ DistanceOf(c, s) \in Nat /\ c.store[s].data.who \in Name
             /\ c.store[s].data.marked \in BOOLEAN
  <2>1. c.store[s].data \in PlayerData /\ c.store[s].key \in Key
    BY DEF Peopled, Live, Sound
  <2> QED
    BY <2>1, PlayersAssumption DEF PlayerData, DistanceOf
<1>5. \A s, t \in Used(c) : c.store[s].key = c.store[t].key => s = t
  BY DEF Peopled, Live, Sound
<1> QED
  BY <1>1, <1>2, <1>3, <1>4, <1>5 DEF n

\* Nobody in the table is farther than what Farthest says.
LEMMA FarthestIs ==
  ASSUME NEW c, Peopled(c)
  PROVE  /\ FarthestDistance(c) \in Nat
         /\ \A s \in Used(c) : DistanceOf(c, s) <= FarthestDistance(c)
         /\ Farthest(c) # NoSlot => /\ Farthest(c) \in Used(c)
                                    /\ FarthestDistance(c) = DistanceOf(c, Farthest(c))
<1> DEFINE n == Len(c.cache)
           d == [i \in 1 .. n |-> DistanceOf(c, c.cache[i])]
<1>1. n \in Nat /\ DOMAIN c.cache = 1 .. n /\ \A i \in 1 .. n : c.cache[i] \in Used(c)
  BY Parts, SequenceShape DEF Used
<1>2. d \in [1 .. n -> Nat] /\ \A i \in 1 .. n : d[i] = DistanceOf(c, c.cache[i])
  BY <1>1, Parts
<1>3. \A s \in Used(c) : \E i \in 1 .. n : s = c.cache[i] /\ d[i] = DistanceOf(c, s)
  BY <1>1, <1>2 DEF Used
<1> HIDE DEF d, n
<1>4. CASE \E i \in DOMAIN c.cache : IsFarthest(c, i)
  <2> DEFINE i == CHOOSE i \in DOMAIN c.cache : IsFarthest(c, i)
  <2>1. i \in 1 .. n /\ IsFarthest(c, i) /\ Farthest(c) = c.cache[i]
    BY <1>1, <1>4 DEF Farthest
  <2> HIDE DEF i
  <2>2. Farthest(c) \in Used(c) /\ Farthest(c) # NoSlot
    BY <1>1, <2>1, Parts, SlotAssumption
  <2>3. FarthestDistance(c) = DistanceOf(c, c.cache[i])
    BY <2>1, <2>2 DEF FarthestDistance
  <2>4. \A j \in 1 .. n : DistanceOf(c, c.cache[j]) <= DistanceOf(c, c.cache[i])
    BY <1>1, <2>1 DEF IsFarthest
  <2>5. \A s \in Used(c) : DistanceOf(c, s) <= DistanceOf(c, c.cache[i])
    BY <1>3, <2>4
  <2>6. DistanceOf(c, c.cache[i]) \in Nat
    BY <1>1, <2>1, Parts
  <2> QED
    BY <2>1, <2>2, <2>3, <2>5, <2>6
<1>5. CASE ~\E i \in DOMAIN c.cache : IsFarthest(c, i)
  <2>1. Farthest(c) = NoSlot /\ FarthestDistance(c) = 0
    BY <1>5 DEF Farthest, FarthestDistance
  <2>2. ASSUME n # 0
        PROVE  \A i \in 1 .. n : d[i] <= 0
    <3>1. PICK i \in 1 .. n : \A j \in 1 .. n : d[j] <= d[i] /\ (j < i => d[j] < d[i])
      BY <1>1, <1>2, <2>2, FirstGreatest
    <3>2. ~(d[i] > 0)
      BY <1>1, <1>2, <1>5, <3>1 DEF IsFarthest
    <3> QED
      BY <1>2, <3>1, <3>2
  <2>3. \A i \in 1 .. n : d[i] <= 0
    BY <1>1, <2>2
  <2> QED
    BY <1>3, <2>1, <2>3
<1> QED
  BY <1>4, <1>5

-----------------------------------------------------------------------------
(***************************************************************************)
(* What the steps do to the table.                                         *)
(***************************************************************************)

\* An entry goes, or none.
LEMMA RemovedPeopled ==
  ASSUME NEW c, Peopled(c), NEW s \in Used(c)
  PROVE  LET d == RemoveEntry(c, s)
         IN  /\ Peopled(d) /\ Used(d) = Used(c) \ {s} /\ d.limit = c.limit
             /\ Len(d.cache) = Len(c.cache) - 1
             /\ \A t \in Used(d) : d.store[t] = c.store[t]
<1> DEFINE d == RemoveEntry(c, s)
<1>1. /\ Live(d, PlayerData) /\ Used(d) = Used(c) \ {s} /\ Len(d.cache) = Len(c.cache) - 1
      /\ \A t \in Used(d) : d.store[t] = c.store[t]
  BY RemoveLive DEF Peopled
<1>2. d.limit = c.limit
  <2>1. c \in CacheOf(PlayerData) /\ c.init /\ s # NoSlot
    BY LiveParts, SlotAssumption DEF Peopled, Live
  <2> DEFINE u == Unlinked(c.cache, s)
             x == [c EXCEPT !.cache = u]
             r == Append(x.tracker, x.store[s].idx)
  <2>2. d = [x EXCEPT !.tracker = r, !.store[s] = Zeroed]
    BY <2>1 DEF RemoveEntry, EntryFree
  <2>3. x.limit = c.limit
    BY <2>1 DEF CacheOf
  <2> HIDE DEF x, r, d
  <2>4. d.limit = x.limit
    BY <2>2
  <2> QED
    BY <2>3, <2>4
<1> HIDE DEF d
<1>3. \A t \in Used(d) : d.store[t].data \in PlayerData
  BY <1>1 DEF Peopled
<1> QED
  BY <1>1, <1>2, <1>3 DEF Peopled, d

\* An entry is rewritten.
LEMMA RewrittenPeopled ==
  ASSUME NEW c, Peopled(c), NEW s \in Used(c), NEW x \in PlayerData
  PROVE  LET d == [c EXCEPT !.store[s].data = x]
         IN  /\ Peopled(d) /\ Used(d) = Used(c) /\ d.limit = c.limit /\ d.cache = c.cache
             /\ \A t \in Used(c) : /\ d.store[t].key = c.store[t].key
                                   /\ d.store[t].data = IF t = s THEN x ELSE c.store[t].data
<1> DEFINE d == [c EXCEPT !.store[s].data = x]
<1>1. /\ Live(d, PlayerData) /\ Used(d) = Used(c) /\ d.cache = c.cache
      /\ \A t \in Used(c) : /\ d.store[t].key = c.store[t].key
                            /\ d.store[t].data = IF t = s THEN x ELSE c.store[t].data
  BY RewrittenLive DEF Peopled
<1>2. d.limit = c.limit
  BY DEF Peopled, Live, CacheOf
<1> HIDE DEF d
<1>3. \A t \in Used(d) : d.store[t].data \in PlayerData
  BY <1>1 DEF Peopled
<1> QED
  BY <1>1, <1>2, <1>3 DEF Peopled, d

\* A player who is not listed enters a table that has room.
LEMMA EnteredPeopled ==
  ASSUME NEW c, Peopled(c), NEW a \in Key, \A s \in Used(c) : c.store[s].key # a,
         NEW x \in PlayerData, Len(c.cache) < max_size
  PROVE  LET d == Insert(c, a, x)
         IN  /\ Peopled(d) /\ d.limit = c.limit /\ Len(d.cache) = Len(c.cache) + 1
             /\ \E n \in Used(d) : /\ n \notin Used(c) /\ Used(d) = Used(c) \cup {n}
                                   /\ d.store[n].key = a /\ d.store[n].data = x
             /\ \A s \in Used(c) : d.store[s] = c.store[s]
<1> DEFINE d == Insert(c, a, x)
           e == Allocated(c, a, x)
<1>1. /\ Live(c, PlayerData) /\ c.init /\ Len(c.cache) \in Nat /\ c.cache \in Seq(Slot)
      /\ c \in CacheOf(PlayerData)
  BY Parts DEF Peopled, Live
<1>2. Find(c, a) = NoSlot
  BY <1>1, FindProperties
<1>3. d = e
  BY <1>1, <1>2, CacheAssumption DEF Insert
<1>4. /\ Live(e, PlayerData)
      /\ \E n \in Used(e) :
           /\ n \notin Used(c) /\ e.cache = Append(c.cache, n) /\ Used(e) = Used(c) \cup {n}
           /\ e.store[n].key = a /\ e.store[n].data = x
           /\ \A s \in Used(c) : e.store[s] = c.store[s]
  BY <1>1, AllocatedLive
<1>5. e.limit = c.limit
  <2> DEFINE m == Last(c.tracker)
             r == Front(c.tracker)
             y == [key |-> a, idx |-> m, data |-> x]
  <2>1. e = [c EXCEPT !.tracker = r, !.cache = Append(@, m), !.store[m] = y]
    BY DEF Allocated
  <2> HIDE DEF m, r, y, e
  <2> QED
    BY <1>1, <2>1 DEF CacheOf
<1> HIDE DEF e
<1>6. PICK n \in Used(e) :
           /\ n \notin Used(c) /\ e.cache = Append(c.cache, n) /\ Used(e) = Used(c) \cup {n}
           /\ e.store[n].key = a /\ e.store[n].data = x
           /\ \A s \in Used(c) : e.store[s] = c.store[s]
  BY <1>4
<1>7. n \in Slot
  BY <1>4, LiveParts
<1>8. Len(e.cache) = Len(c.cache) + 1
  BY <1>1, <1>6, <1>7, AppendProperties
<1>9. \A s \in Used(e) : e.store[s].data \in PlayerData
  BY <1>6 DEF Peopled
<1>10. Peopled(e)
  BY <1>4, <1>5, <1>9 DEF Peopled
<1> QED
  BY <1>3, <1>5, <1>6, <1>8, <1>10

\* All players are marked.
LEMMA MarkedPeopled ==
  ASSUME NEW c, Peopled(c)
  PROVE  LET d == MarkAll(c)
         IN  /\ Peopled(d) /\ Used(d) = Used(c) /\ d.limit = c.limit /\ d.cache = c.cache
             /\ \A s \in Used(c) : /\ d.store[s].key = c.store[s].key
                                   /\ DistanceOf(d, s) = DistanceOf(c, s)
                                   /\ d.store[s].data.marked = TRUE
<1> DEFINE d == MarkAll(c)
           f == [s \in Slot |-> [c.store[s].data EXCEPT !.marked = TRUE]]
           g == [s \in Slot |-> IF s \in Used(c) THEN [c.store[s] EXCEPT !.data.marked = TRUE]
                               ELSE c.store[s]]
           h == [s \in Slot |-> IF s \in Used(c) THEN [c.store[s] EXCEPT !.data = f[s]] ELSE c.store[s]]
<1>0. /\ c \in CacheOf(PlayerData) /\ c.store \in StoreOf(PlayerData) /\ Used(c) \subseteq Slot
      /\ Live(c, PlayerData)
  BY LiveParts DEF Peopled, Live
<1>1. d = [c EXCEPT !.store = g]
  BY DEF MarkAll
<1>2. g = h
  <2>1. \A s \in Slot : [c.store[s] EXCEPT !.data.marked = TRUE] = [c.store[s] EXCEPT !.data = f[s]]
    BY <1>0 DEF StoreOf
  <2> HIDE DEF f
  <2> QED
    BY <2>1
<1>3. \A s \in Slot : h[s] = IF s \in Used(c) THEN [c.store[s] EXCEPT !.data = f[s]] ELSE c.store[s]
  OBVIOUS
<1>4. \A s \in Used(c) : /\ f[s] \in PlayerData /\ f[s].distance = c.store[s].data.distance
                         /\ f[s].marked = TRUE
  <2> SUFFICES ASSUME NEW s \in Used(c)
               PROVE  /\ f[s] \in PlayerData /\ f[s].distance = c.store[s].data.distance
                      /\ f[s].marked = TRUE
    OBVIOUS
  <2> DEFINE x == c.store[s].data
  <2>1. f[s] = [x EXCEPT !.marked = TRUE] /\ x \in PlayerData
    BY <1>0 DEF Peopled
  <2> HIDE DEF x, f
  <2>2. f[s] \in PlayerData /\ f[s].distance = x.distance /\ f[s].marked = TRUE
    BY <2>1 DEF PlayerData
  <2> QED
    BY <2>2 DEF x
<1> HIDE DEF f, g
<1>5. PICK More : Live([c EXCEPT !.store = h], More)
  BY <1>0, AllRewrittenLive
<1> HIDE DEF h, d
<1>6. d.store = h /\ d.cache = c.cache /\ d.limit = c.limit /\ Used(d) = Used(c) /\ Live(d, More)
  BY <1>0, <1>1, <1>2, <1>5 DEF CacheOf, Used
<1>7. ASSUME NEW s \in Slot
      PROVE  /\ d.store[s].key = c.store[s].key
             /\ d.store[s].data = IF s \in Used(c) THEN f[s] ELSE c.store[s].data
  <2> DEFINE x == c.store[s]
             y == f[s]
  <2>1. x \in [key : Key \cup {NoKey}, idx : Slot \cup {-1}, data : PlayerData \cup {NoData}]
    BY <1>0 DEF StoreOf
  <2>2. d.store[s] = IF s \in Used(c) THEN [x EXCEPT !.data = y] ELSE x
    BY <1>3, <1>6
  <2> HIDE DEF x, y
  <2>3. [x EXCEPT !.data = y].key = x.key /\ [x EXCEPT !.data = y].data = y
    BY <2>1
  <2>4. d.store[s].key = x.key /\ d.store[s].data = IF s \in Used(c) THEN y ELSE x.data
    BY <2>2, <2>3
  <2> QED
    BY <2>4 DEF x, y
<1>8. Live(d, PlayerData)
  <2>1. \A t \in Slot : d.store[t].data \in PlayerData \cup {NoData}
    BY <1>0, <1>4, <1>7 DEF StoreOf
  <2> QED
    BY <1>6, <2>1, Narrowed
<1>9. \A s \in Used(c) : /\ d.store[s].key = c.store[s].key
                         /\ d.store[s].data = f[s]
  BY <1>0, <1>7
<1>10. Peopled(d)
  BY <1>4, <1>6, <1>8, <1>9 DEF Peopled
<1>11. \A s \in Used(c) : DistanceOf(d, s) = DistanceOf(c, s) /\ d.store[s].data.marked = TRUE
  BY <1>4, <1>9 DEF DistanceOf
<1> QED
  BY <1>6, <1>9, <1>10, <1>11 DEF d

LEMMA ResizedPeopled ==
  ASSUME NEW c, Peopled(c), NEW n \in 0 .. max_size
  PROVE  LET d == Resize(c, n)
         IN  /\ Peopled(d) /\ Used(d) = Used(c) /\ d.store = c.store /\ d.limit = n
<1> DEFINE d == Resize(c, n)
<1>1. c \in CacheOf(PlayerData) /\ c.init /\ n \in Nat
  BY LiveParts, CacheAssumption DEF Peopled, Live
<1>2. d = [c EXCEPT !.limit = n]
  BY <1>1, CacheAssumption DEF Resize
<1>3. Live(d, PlayerData) /\ Used(d) = Used(c)
  BY <1>1, ResizeLive DEF Peopled
<1> HIDE DEF d
<1>4. d.store = c.store /\ d.limit = n
  BY <1>1, <1>2 DEF CacheOf
<1> QED
  BY <1>3, <1>4, CacheAssumption DEF Peopled, d

LEMMA ClearedPeopled ==
  ASSUME NEW c, Peopled(c)
  PROVE  Peopled(Clear(c)) /\ Used(Clear(c)) = {}
<1> DEFINE d == Clear(c)
           r == c.tracker \o c.cache
           z == [s \in Slot |-> Zeroed]
<1>1. Live(d, PlayerData) /\ Used(d) = {}
  BY ClearLive DEF Peopled
<1>2. c \in CacheOf(PlayerData) /\ c.init
  BY LiveParts DEF Peopled, Live
<1>3. d = [c EXCEPT !.cache = <<>>, !.tracker = r, !.store = z]
  BY <1>2 DEF Clear
<1> HIDE DEF r, z, d
<1>4. d.limit = c.limit
  BY <1>2, <1>3 DEF CacheOf
<1> QED
  BY <1>1, <1>4 DEF Peopled, d

\* Who is listed.
Has(c, a) == \E s \in Used(c) : c.store[s].key = a

LEMMA HasFind ==
  ASSUME NEW c, Peopled(c), NEW a
  PROVE  /\ Find(c, a) = NoSlot <=> ~Has(c, a)
         /\ Find(c, a) # NoSlot => Find(c, a) \in Used(c) /\ c.store[Find(c, a)].key = a
BY FindProperties DEF Has, Peopled

LEMMA FreshPlayer ==
  ASSUME NEW p \in Person, p.who # Nobody
  PROVE  /\ Fresh(p) \in PlayerData /\ Fresh(p).distance = p.distance
         /\ Fresh(p).marked = FALSE /\ p.distance \in Nat
<1>1. p.who \in Name /\ p.distance \in Distance /\ p.distance \in Nat
  BY PlayersAssumption DEF Person
<1> QED
  BY <1>1 DEF Fresh, PlayerData

\* The four things that may happen to a player of the array.
IsRefreshed(c, e, a, p) ==
  /\ Used(e) = Used(c) /\ Len(e.cache) = Len(c.cache) /\ Has(c, a)
  /\ \A s \in Used(c) :
       /\ e.store[s].key = c.store[s].key /\ DistanceOf(e, s) = DistanceOf(c, s)
       /\ e.store[s].data.marked = IF e.store[s].key = a THEN FALSE ELSE c.store[s].data.marked

IsLeftOut(c, e, a, p) ==
  /\ e = c /\ ~Has(c, a) /\ Len(c.cache) >= c.limit
  /\ \A s \in Used(c) : DistanceOf(c, s) <= p.distance

NewAt(e, n, a, p) ==
  /\ e.store[n].key = a /\ DistanceOf(e, n) = p.distance /\ e.store[n].data.marked = FALSE

IsAdded(c, e, a, p) ==
  /\ ~Has(c, a) /\ ~(Len(c.cache) >= c.limit) /\ Len(e.cache) = Len(c.cache) + 1
  /\ \E n \in Used(e) :
       n \notin Used(c) /\ Used(e) = Used(c) \cup {n} /\ NewAt(e, n, a, p)
  /\ \A s \in Used(c) : e.store[s] = c.store[s]

IsReplaced(c, e, a, p) ==
  /\ ~Has(c, a) /\ Len(c.cache) >= c.limit /\ Len(e.cache) = Len(c.cache)
  /\ \E n \in Used(e), f \in Used(c) :
       /\ n \notin Used(c) \ {f} /\ Used(e) = (Used(c) \ {f}) \cup {n} /\ NewAt(e, n, a, p)
       /\ p.distance < DistanceOf(c, f)
       /\ \A s \in Used(c) : DistanceOf(c, s) <= DistanceOf(c, f)
       /\ \A s \in Used(c) \ {f} : e.store[s] = c.store[s]

LEMMA AdmittedPeopled ==
  ASSUME NEW c, Peopled(c), NEW a \in Key, NEW p \in Person, p.who # Nobody
  PROVE  LET e == Admitted(c, a, p)
         IN  /\ Peopled(e) /\ e.limit = c.limit
             /\ \/ IsRefreshed(c, e, a, p) \/ IsLeftOut(c, e, a, p)
                \/ IsAdded(c, e, a, p) \/ IsReplaced(c, e, a, p)
<1> DEFINE e == Admitted(c, a, p)
           x == Fresh(p)
<1>1. /\ c.init /\ Len(c.cache) \in Nat /\ Len(c.cache) <= max_size /\ c.limit \in Nat
      /\ \A s \in Used(c) : c.store[s].data \in PlayerData /\ DistanceOf(c, s) \in Nat
      /\ \A s, t \in Used(c) : c.store[s].key = c.store[t].key => s = t
      /\ c.limit <= max_size
  BY Parts DEF Peopled
<1>2. x \in PlayerData /\ x.distance = p.distance /\ x.marked = FALSE /\ p.distance \in Nat
  BY FreshPlayer
<1>3. AtLimit(c) <=> Len(c.cache) >= c.limit
  BY <1>1 DEF AtLimit, Size
<1>4. CASE Find(c, a) # NoSlot
  <2> DEFINE s == Find(c, a)
             t == c.store[s].data
             y == [t EXCEPT !.who = p.who, !.marked = FALSE]
  <2>1. s \in Used(c) /\ c.store[s].key = a /\ Has(c, a)
    BY <1>4, HasFind
  <2>2. e = [c EXCEPT !.store[s].data = y]
    BY <1>4 DEF Admitted, Refreshed
  <2> HIDE DEF s
  <2>3. t \in PlayerData /\ p.who \in Name
    BY <1>1, <2>1 DEF Person
  <2> HIDE DEF t, e
  <2>4. y \in PlayerData /\ y.distance = t.distance /\ y.marked = FALSE
    BY <2>3 DEF PlayerData
  <2> HIDE DEF y
  <2>5. /\ Peopled(e) /\ Used(e) = Used(c) /\ e.limit = c.limit /\ e.cache = c.cache
        /\ \A r \in Used(c) : /\ e.store[r].key = c.store[r].key
                              /\ e.store[r].data = IF r = s THEN y ELSE c.store[r].data
    BY <2>1, <2>2, <2>4, RewrittenPeopled
  <2>6. \A r \in Used(c) : e.store[r].key = a <=> r = s
    BY <1>1, <2>1, <2>5
  <2>7. \A r \in Used(c) : /\ DistanceOf(e, r) = DistanceOf(c, r)
                           /\ e.store[r].data.marked = IF r = s THEN FALSE ELSE c.store[r].data.marked
    BY <2>4, <2>5 DEF DistanceOf, t
  <2>8. IsRefreshed(c, e, a, p)
    BY <2>1, <2>5, <2>6, <2>7 DEF IsRefreshed
  <2> QED
    BY <2>5, <2>8 DEF e
<1>5. CASE Find(c, a) = NoSlot /\ ~AtLimit(c)
  <2>1. ~Has(c, a) /\ \A s \in Used(c) : c.store[s].key # a
    BY <1>5, HasFind DEF Has
  <2>2. e = Insert(c, a, x) /\ Len(c.cache) < max_size /\ ~(Len(c.cache) >= c.limit)
    BY <1>1, <1>3, <1>5, CacheAssumption DEF Admitted
  <2> HIDE DEF x, e
  <2>3. /\ Peopled(e) /\ e.limit = c.limit /\ Len(e.cache) = Len(c.cache) + 1
        /\ \E n \in Used(e) : /\ n \notin Used(c) /\ Used(e) = Used(c) \cup {n}
                              /\ e.store[n].key = a /\ e.store[n].data = x
        /\ \A s \in Used(c) : e.store[s] = c.store[s]
    BY <1>2, <2>1, <2>2, EnteredPeopled
  <2>4. IsAdded(c, e, a, p)
    BY <1>2, <2>1, <2>2, <2>3 DEF IsAdded, NewAt, DistanceOf
  <2> QED
    BY <2>3, <2>4 DEF e
<1>6. CASE Find(c, a) = NoSlot /\ AtLimit(c)
  <2> DEFINE f == Farthest(c)
             d == RemoveEntry(c, f)
  <2>1. ~Has(c, a) /\ \A s \in Used(c) : c.store[s].key # a
    BY <1>6, HasFind DEF Has
  <2>2. /\ FarthestDistance(c) \in Nat
        /\ \A s \in Used(c) : DistanceOf(c, s) <= FarthestDistance(c)
        /\ f # NoSlot => f \in Used(c) /\ FarthestDistance(c) = DistanceOf(c, f)
        /\ f = NoSlot => FarthestDistance(c) = 0
    BY FarthestIs DEF FarthestDistance
  <2>3. e = IF p.distance >= FarthestDistance(c) THEN c ELSE Insert(d, a, x)
    BY <1>6 DEF Admitted, Replacing
  <2> HIDE DEF e, x
  <2>4. CASE p.distance >= FarthestDistance(c)
    <3>1. \A s \in Used(c) : DistanceOf(c, s) <= p.distance
      BY <1>1, <1>2, <2>2, <2>4
    <3>2. IsLeftOut(c, e, a, p)
      BY <1>3, <1>6, <2>1, <2>3, <2>4, <3>1 DEF IsLeftOut
    <3> QED
      BY <2>3, <2>4, <3>2 DEF e
  <2>5. CASE ~(p.distance >= FarthestDistance(c))
    <3>1. /\ f \in Used(c) /\ p.distance < DistanceOf(c, f)
          /\ \A s \in Used(c) : DistanceOf(c, s) <= DistanceOf(c, f)
      BY <1>2, <2>2, <2>5
    <3> HIDE DEF f
    <3>2. /\ Peopled(d) /\ Used(d) = Used(c) \ {f} /\ d.limit = c.limit
          /\ Len(d.cache) = Len(c.cache) - 1
          /\ \A t \in Used(d) : d.store[t] = c.store[t]
      BY <3>1, RemovedPeopled
    <3> HIDE DEF d
    <3>3. Len(d.cache) \in Nat /\ Len(d.cache) < max_size
      BY <1>1, <3>2, Parts, CacheAssumption
    <3>4. \A s \in Used(d) : d.store[s].key # a
      BY <2>1, <3>2
    <3>5. /\ Peopled(e) /\ e.limit = d.limit /\ Len(e.cache) = Len(d.cache) + 1
          /\ \E n \in Used(e) : /\ n \notin Used(d) /\ Used(e) = Used(d) \cup {n}
                                /\ e.store[n].key = a /\ e.store[n].data = x
          /\ \A s \in Used(d) : e.store[s] = d.store[s]
      BY <1>2, <2>3, <2>5, <3>2, <3>3, <3>4, EnteredPeopled
    <3>6. Len(e.cache) = Len(c.cache)
      BY <1>1, <3>2, <3>3, <3>5
    <3>7. PICK n \in Used(e) : /\ n \notin Used(d) /\ Used(e) = Used(d) \cup {n}
                               /\ e.store[n].key = a /\ e.store[n].data = x
      BY <3>5
    <3>8. NewAt(e, n, a, p)
      BY <1>2, <3>7 DEF NewAt, DistanceOf
    <3>9. n \notin Used(c) \ {f} /\ Used(e) = (Used(c) \ {f}) \cup {n}
      BY <3>2, <3>7
    <3>10. \A s \in Used(c) \ {f} : e.store[s] = c.store[s]
      BY <3>2, <3>5
    <3>11. IsReplaced(c, e, a, p)
      BY <1>3, <1>6, <2>1, <3>1, <3>6, <3>8, <3>9, <3>10 DEF IsReplaced
    <3> QED
      BY <3>2, <3>5, <3>11 DEF e
  <2> QED
    BY <2>4, <2>5
<1> QED
  BY <1>4, <1>5, <1>6

-----------------------------------------------------------------------------
(***************************************************************************)
(* The loop over the names a client asks about.                            *)
(***************************************************************************)

\* The list after a name.
Kept(list, n) == IF n \in Connected THEN Append(list, n) ELSE list

\* The function of the loop exists: it does for no name, and an initial part of
\* it extends by one turn.
LEMMA KnownExists ==
  ASSUME NEW names \in Seq(Name)
  PROVE  \E f : f = [i \in 0 .. Len(names) |->
                       IF i = 0 THEN <<>> ELSE Kept(f[i - 1], names[i])]
<1> DEFINE none == <<>>
           Is(f, m) == f = [i \in 0 .. m |-> IF i = 0 THEN none ELSE Kept(f[i - 1], names[i])]
           n == Len(names)
           G == {m \in 0 .. n : \E f : Is(f, m)}
<1>1. n \in Nat
  BY SequenceShape
<1>2. 0 \in G
  <2> DEFINE f == [i \in 0 .. 0 |-> none]
  <2>1. f = [i \in 0 .. 0 |-> IF i = 0 THEN none ELSE Kept(f[i - 1], names[i])]
    OBVIOUS
  <2> HIDE DEF none
  <2>2. Is(f, 0)
    BY <2>1
  <2> HIDE DEF f
  <2>3. \E g : Is(g, 0)
    BY <2>2
  <2>4. 0 \in 0 .. n
    BY <1>1
  <2> HIDE DEF Is
  <2> QED
    BY <2>3, <2>4
<1>3. ASSUME NEW m \in 1 .. n, m - 1 \in G
      PROVE  m \in G
  <2>1. PICK f : Is(f, m - 1)
    BY <1>3
  <2> HIDE DEF none
  <2> DEFINE g == [i \in 0 .. m |-> IF i = 0 THEN none ELSE Kept(f[i - 1], names[i])]
  <2>2. \A i \in 0 .. m - 1 : g[i] = f[i]
    BY <2>1, <1>1
  <2>3. g = [i \in 0 .. m |-> IF i = 0 THEN none ELSE Kept(g[i - 1], names[i])]
    BY <2>2, <1>1
  <2> HIDE DEF g
  <2>4. Is(g, m)
    BY <2>3
  <2> QED
    BY <2>4, <1>1
<1> HIDE DEF G
<1>4. n \in G
  BY <1>1, <1>2, <1>3, UpTo
<1> QED
  BY <1>4 DEF G

\* The loop makes a list of names.
LEMMA KnownNames ==
  ASSUME NEW names \in Seq(Name \cup {Nobody})
  PROVE  Known(names) \in Seq(Name)
<1> DEFINE n == Len(names)
           f == CHOOSE f : f = [i \in 0 .. n |-> IF i = 0 THEN <<>> ELSE Kept(f[i - 1], names[i])]
<1>1. n \in Nat
  BY SequenceShape
<1>2. f = [i \in 0 .. n |-> IF i = 0 THEN <<>> ELSE Kept(f[i - 1], names[i])]
  BY KnownExists
<1>3. Known(names) = f[n]
  BY DEF Known, Kept
<1> HIDE DEF f, n
<1> DEFINE G == {i \in 0 .. n : f[i] \in Seq(Name)}
<1>4. f[0] = <<>> /\ \A i \in 1 .. n : f[i] = Kept(f[i - 1], names[i])
  BY <1>1, <1>2
<1>5. 0 \in G
  <2>1. <<>> \in Seq(Name) /\ 0 \in 0 .. n
    BY <1>1
  <2> QED
    BY <1>4, <2>1
<1>6. ASSUME NEW i \in 1 .. n, i - 1 \in G
      PROVE  i \in G
  <2>1. f[i - 1] \in Seq(Name) /\ f[i] = Kept(f[i - 1], names[i])
    BY <1>1, <1>4, <1>6
  <2>2. f[i] \in Seq(Name)
    BY <2>1, PlayersAssumption, AppendProperties DEF Kept
  <2> QED
    BY <1>1, <2>2
<1> HIDE DEF G
<1>7. \A i \in 0 .. n : i \in G
  BY <1>1, <1>5, <1>6, UpTo
<1>8. n \in G
  BY <1>1, <1>7
<1> QED
  BY <1>3, <1>8 DEF G

\* The request is about entries of the table.
LEMMA FirstSlots ==
  ASSUME NEW c, Peopled(c), NEW q \in Nearest(c)
  PROVE  First(q) \in Seq(Slot)
<1> DEFINE n == Len(c.cache)
           k == IF Len(q) < MSG_CLOSEST_PLAYERS THEN Len(q) ELSE MSG_CLOSEST_PLAYERS
           a == [i \in 1 .. k |-> q[i]]
<1>1. n \in Nat /\ q \in [1 .. n -> Used(c)] /\ Used(c) \subseteq Slot
  BY Parts DEF Nearest
<1> HIDE DEF n
<1>2. Len(q) = n
  BY <1>1, FunctionIsSequence
<1>3. k \in Nat /\ k <= n
  BY <1>1, <1>2, PlayersAssumption
<1>4. First(q) = a
  BY DEF First
<1> HIDE DEF k
<1>5. a \in [1 .. k -> Slot]
  BY <1>1, <1>3
<1> HIDE DEF a
<1> QED
  BY <1>3, <1>4, <1>5, FunctionIsSequence

\* It holds the names that are in them, or none.
LEMMA AskedNames ==
  ASSUME NEW c, Peopled(c), NEW q \in Seq(Slot)
  PROVE  Asked(c, q) \in Seq(Name \cup {Nobody})
<1> DEFINE a == [i \in 1 .. Len(q) |-> IF q[i] \in Used(c) THEN c.store[q[i]].data.who ELSE Nobody]
<1>1. \A s \in Used(c) : c.store[s].data.who \in Name
  BY Parts
<1>2. Asked(c, q) = a /\ Len(q) \in Nat
  BY SequenceShape DEF Asked
<1>3. a \in [1 .. Len(q) -> Name \cup {Nobody}]
  BY <1>1
<1> HIDE DEF a
<1> QED
  BY <1>2, <1>3, FunctionIsSequence

-----------------------------------------------------------------------------
(***************************************************************************)
(* The types.                                                              *)
(***************************************************************************)

TypeInv ==
  /\ world \in [Key -> Person] /\ seen \in [Key -> Person]
  /\ Peopled(closest)
  /\ max_players \in 0 .. max_size
  /\ pc \in {"idle", "shrink", "resize", "mark", "scan", "sweep"}
  /\ todo \subseteq Present(seen) /\ (todo # {} => pc = "scan")
  /\ exact \in BOOLEAN /\ calm \in BOOLEAN
  /\ sorted \in Seq(Slot)
  /\ \A q \in answers : q \in Seq(Name)
  /\ answer \in Seq(Name)
  /\ player \in Slot \cup {NoSlot} /\ (player # NoSlot => answer # <<>>)
  /\ changes \in 0 .. MaxChanges

LEMMA TypesInit == Init => TypeInv
<1> SUFFICES ASSUME Init PROVE TypeInv
  OBVIOUS
<1>1. Live(closest, PlayerData) /\ Used(closest) = {} /\ closest.limit = max_size
  BY CreatedLive DEF Init, Created
<1>2. Peopled(closest)
  BY <1>1, CacheAssumption DEF Peopled
<1>3. world \in [Key -> Person]
  BY PlayersAssumption DEF Init, Person
<1>4. answer \in Seq(Name) /\ sorted \in Seq(Slot)
  BY DEF Init
<1>5. max_players \in 0 .. max_size /\ changes \in 0 .. MaxChanges
  BY CacheAssumption, PlayersAssumption DEF Init
<1> QED
  BY <1>2, <1>3, <1>4, <1>5 DEF Init, TypeInv

\* The table after a report was written, if the entry is still there.
LEMMA ReportPeopled ==
  ASSUME TypeInv, WriteReport
  PROVE  /\ Peopled(closest') /\ Used(closest') = Used(closest)
         /\ closest'.limit = closest.limit /\ closest'.cache = closest.cache
         /\ \A s \in Used(closest) :
              /\ closest'.store[s].key = closest.store[s].key
              /\ DistanceOf(closest', s) = DistanceOf(closest, s)
              /\ closest'.store[s].data.marked = closest.store[s].data.marked
<1>1. Peopled(closest) /\ answer \in Seq(Name) /\ answer # <<>>
  BY DEF TypeInv, WriteReport
<1>2. CASE player \in Used(closest)
  <2> DEFINE t == closest.store[player].data
             h == Head(answer)
             y == [t EXCEPT !.dps = h]
  <2>1. closest' = [closest EXCEPT !.store[player].data = y]
    BY <1>2 DEF WriteReport
  <2>2. h \in Name
    BY <1>1
  <2>3. t \in PlayerData
    BY <1>1, <1>2, Parts
  <2> HIDE DEF t, h
  <2>4. y \in PlayerData /\ y.distance = t.distance /\ y.marked = t.marked
    BY <2>2, <2>3 DEF PlayerData
  <2> HIDE DEF y
  <2>5. /\ Peopled(closest') /\ Used(closest') = Used(closest)
        /\ closest'.limit = closest.limit /\ closest'.cache = closest.cache
        /\ \A s \in Used(closest) :
             /\ closest'.store[s].key = closest.store[s].key
             /\ closest'.store[s].data = IF s = player THEN y ELSE closest.store[s].data
    <3> DEFINE d == [closest EXCEPT !.store[player].data = y]
    <3>1. /\ Peopled(d) /\ Used(d) = Used(closest)
          /\ d.limit = closest.limit /\ d.cache = closest.cache
          /\ \A s \in Used(closest) :
               /\ d.store[s].key = closest.store[s].key
               /\ d.store[s].data = IF s = player THEN y ELSE closest.store[s].data
      BY <1>1, <1>2, <2>4, RewrittenPeopled
    <3>2. closest' = d
      BY <2>1
    <3> HIDE DEF d
    <3> QED
      BY <3>1, <3>2
  <2>6. \A s \in Used(closest) :
          /\ DistanceOf(closest', s) = DistanceOf(closest, s)
          /\ closest'.store[s].data.marked = closest.store[s].data.marked
    BY <2>4, <2>5 DEF DistanceOf, t
  <2> QED
    BY <2>5, <2>6
<1>3. CASE player \notin Used(closest)
  <2>1. closest' = closest
    BY <1>3 DEF WriteReport
  <2> QED
    BY <1>1, <2>1 DEF DistanceOf
<1> QED
  BY <1>2, <1>3

\* A step of the frame keeps the table one of players.
LEMMA FramePeopled ==
  ASSUME TypeInv, Shrink \/ ResizeTable \/ MarkPlayers \/ (\E a \in Key : ScanPlayer(a)) \/ Sweep
  PROVE  Peopled(closest')
<1>1. Peopled(closest) /\ seen \in [Key -> Person] /\ todo \subseteq Present(seen)
  BY DEF TypeInv
<1>2. CASE Shrink
  <2>1. CASE Farthest(closest) = NoSlot
    BY <1>1, <1>2, <2>1 DEF Shrink, RemoveEntry
  <2>2. CASE Farthest(closest) # NoSlot
    <3>1. Farthest(closest) \in Used(closest) /\ closest' = RemoveEntry(closest, Farthest(closest))
      BY <1>1, <1>2, <2>2, FarthestIs DEF Shrink
    <3> QED
      BY <1>1, <3>1, RemovedPeopled
  <2> QED
    BY <2>1, <2>2
<1>3. CASE ResizeTable
  <2>1. max_players \in 0 .. max_size
    BY DEF TypeInv
  <2> QED
    BY <1>1, <1>3, <2>1, ResizedPeopled DEF ResizeTable
<1>6. CASE MarkPlayers
  BY <1>1, <1>6, MarkedPeopled DEF MarkPlayers
<1>4. ASSUME NEW a \in Key, ScanPlayer(a)
      PROVE  Peopled(closest')
  <2>1. a \in Present(seen) /\ closest' = Admitted(closest, a, seen[a])
    BY <1>1, <1>4 DEF ScanPlayer
  <2>2. seen[a] \in Person /\ seen[a].who # Nobody
    BY <1>1, <2>1 DEF Present
  <2> QED
    BY <1>1, <2>1, <2>2, AdmittedPeopled
<1>5. CASE Sweep
  <2>1. PICK i \in Marked(closest) : closest' = RemoveEntry(closest, closest.cache[i])
    BY <1>5 DEF Sweep
  <2>2. closest.cache[i] \in Used(closest)
    BY <2>1 DEF Marked, Used
  <2> QED
    BY <1>1, <2>1, <2>2, RemovedPeopled
<1> QED
  BY <1>2, <1>3, <1>4, <1>5, <1>6

LEMMA TypesStep == TypeInv /\ [Next]_vars => TypeInv'
<1> SUFFICES ASSUME TypeInv, [Next]_vars PROVE TypeInv'
  OBVIOUS
<1> USE DEF frameVars, netVars
<1>1. CASE BeginFrame
  BY <1>1 DEF TypeInv, BeginFrame, Present
<1>2. CASE Shrink
  BY <1>2, FramePeopled DEF TypeInv, Shrink
<1>3. CASE Shrunk \/ Scanned \/ EndFrame
  BY <1>3 DEF TypeInv, Shrunk, Scanned, EndFrame
<1>4. CASE ResizeTable \/ MarkPlayers
  BY <1>4, FramePeopled DEF TypeInv, ResizeTable, MarkPlayers
<1>5. ASSUME NEW a \in Key, ScanPlayer(a)
      PROVE  TypeInv'
  BY <1>5, FramePeopled DEF TypeInv, ScanPlayer
<1>6. CASE ScanFaults
  <2>1. changes' \in 0 .. MaxChanges
    BY <1>6, PlayersAssumption DEF TypeInv, ScanFaults
  <2> QED
    BY <1>6, <2>1 DEF TypeInv, ScanFaults
<1>7. CASE Sweep
  BY <1>7, FramePeopled DEF TypeInv, Sweep
<1>8. CASE Ask
  <2> DEFINE found == Known(Asked(closest, sorted))
  <2>1. found \in Seq(Name)
    BY AskedNames, KnownNames DEF TypeInv
  <2>2. answers' \subseteq answers \cup {found} /\ sorted' = <<>>
    BY <1>8 DEF Ask
  <2> HIDE DEF found
  <2>3. sorted' \in Seq(Slot) /\ \A q \in answers' : q \in Seq(Name)
    BY <2>1, <2>2 DEF TypeInv
  <2> QED
    BY <1>8, <2>3 DEF TypeInv, Ask
<1>9. ASSUME NEW m \in answers, Lose(m) \/ Receive(m)
      PROVE  TypeInv'
  <2>1. m \in Seq(Name) /\ answers' \subseteq answers
    BY <1>9 DEF TypeInv, Lose, Receive
  <2>2. CASE Lose(m)
    BY <2>1, <2>2 DEF TypeInv, Lose
  <2>3. CASE Receive(m)
    <3>1. player = NoSlot
      BY <2>3 DEF TypeInv, Receive
    <3> QED
      BY <2>1, <2>3, <3>1 DEF TypeInv, Receive
  <2> QED
    BY <1>9, <2>2, <2>3
<1>10. CASE FindNamed
  <2>1. PICK i \in Named(closest, Head(answer)) : player' = closest.cache[i]
    BY <1>10 DEF FindNamed
  <2>2. player' \in Used(closest)
    BY <2>1 DEF Named, Used
  <2>3. player' \in Slot
    BY <2>2, Parts DEF TypeInv
  <2> QED
    BY <1>10, <2>3 DEF TypeInv, FindNamed
<1>11. CASE NobodyNamed
  <2>1. answer' = <<>> /\ <<>> \in Seq(Name)
    BY <1>11 DEF NobodyNamed
  <2> QED
    BY <1>11, <2>1 DEF TypeInv, NobodyNamed
<1>12. CASE WriteReport
  <2>1. answer \in Seq(Name) /\ answer # <<>>
    BY <1>12 DEF TypeInv, WriteReport
  <2>2. answer' \in Seq(Name)
    BY <1>12, <2>1 DEF WriteReport
  <2>3. Peopled(closest')
    BY <1>12, ReportPeopled
  <2> QED
    BY <1>12, <2>2, <2>3 DEF TypeInv, WriteReport
<1>13. ASSUME Counted
       PROVE  changes' \in 0 .. MaxChanges
  BY <1>13, PlayersAssumption DEF TypeInv, Counted
<1>14. ASSUME NEW a \in Key, NEW n \in Name, NEW d \in Distance, Arrive(a, n, d)
       PROVE  TypeInv'
  <2>1. [who |-> n, distance |-> d] \in Person
    BY DEF Person
  <2>2. world' \in [Key -> Person]
    BY <1>14, <2>1 DEF TypeInv, Arrive
  <2> QED
    BY <1>13, <1>14, <2>2 DEF TypeInv, Arrive
<1>15. ASSUME NEW a \in Key, Leave(a)
       PROVE  TypeInv'
  <2>1. world' \in [Key -> Person]
    BY <1>15 DEF TypeInv, Leave, Person
  <2> QED
    BY <1>13, <1>15, <2>1 DEF TypeInv, Leave
<1>16. ASSUME NEW a \in Key, NEW d \in Distance, Move(a, d)
       PROVE  TypeInv'
  <2>1. world' \in [Key -> Person]
    BY <1>16 DEF TypeInv, Move, Person
  <2> QED
    BY <1>13, <1>16, <2>1 DEF TypeInv, Move
<1>17. ASSUME NEW n \in 0 .. max_size, SetMaxPlayers(n)
       PROVE  TypeInv'
  BY <1>13, <1>17 DEF TypeInv, SetMaxPlayers
<1>18. CASE Reset
  <2>1. Peopled(closest')
    BY <1>18, ClearedPeopled DEF TypeInv, Reset
  <2> QED
    BY <1>13, <1>18, <2>1 DEF TypeInv, Reset
<1>19. CASE UNCHANGED vars
  BY <1>19 DEF TypeInv, vars
<1>21. CASE Sort
  <2>1. PICK q \in Nearest(closest) : sorted' = First(q)
    BY <1>21 DEF Sort
  <2>2. sorted' \in Seq(Slot)
    BY <2>1, FirstSlots DEF TypeInv
  <2> QED
    BY <1>21, <2>2 DEF TypeInv, Sort
<1>20. CASE Frame
  BY <1>1, <1>2, <1>3, <1>4, <1>5, <1>7, <1>20 DEF Frame
<1> QED
  BY <1>6, <1>8, <1>9, <1>10, <1>11, <1>12, <1>14, <1>15, <1>16, <1>17, <1>18, <1>19, <1>20, <1>21
     DEF Next, Handle

LEMMA TypesHold == Spec => []TypeInv
BY TypesInit, TypesStep, PTL DEF Spec

\* Every variable keeps its type: only players of the game are listed, asked for and
\* reported on, and the receive thread's pointer is to an entry of the table
\* (game_data.cpp:264-373, 2442-2548).
THEOREM PlayersTypes == Spec => []TypeOK
<1>1. TypeInv => TypeOK
  BY DEF TypeInv, TypeOK, Peopled, Live
<1> QED
  BY <1>1, TypesHold, PTL

\* Whatever comes between the steps of a frame, every slot of the table is in use
\* once or free once, and every entry is found by its own agent (cache.hpp:74-110).
THEOREM TableCorrect == Spec => []TableSound
<1>1. TypeInv => TableSound
  BY DEF TypeInv, TableSound, Peopled, Live
<1> QED
  BY <1>1, TypesHold, PTL

-----------------------------------------------------------------------------
(***************************************************************************)
(* The scan.  w is the array as the frame reads it, left are the players   *)
(* it has yet to look at.                                                  *)
(***************************************************************************)

\* Who was looked at and is not listed.
Missing(c, w, left) == {a \in Present(w) \ left : ~Has(c, a)}

\* The distances are right, the marked are those who were not looked at, and those
\* who were looked at and are missing are not nearer than anyone who is listed.
Scanning(c, w, left) ==
  /\ \A s \in Used(c) :
       w[c.store[s].key].who # Nobody => DistanceOf(c, s) = w[c.store[s].key].distance
  /\ \A s \in Used(c) : c.store[s].data.marked <=> c.store[s].key \notin Present(w) \ left
  /\ \A b \in Missing(c, w, left), s \in Used(c) : DistanceOf(c, s) <= w[b].distance

\* Someone is missing only if the table was full.
Full(c, w, left) == Missing(c, w, left) # {} => Len(c.cache) >= c.limit

AllMarked(c) == \A s \in Used(c) : c.store[s].data.marked

\* One player of the array.
LEMMA ScanStep ==
  ASSUME NEW w \in [Key -> Person], NEW left, left \subseteq Present(w), NEW a \in left,
         NEW c, Peopled(c), Scanning(c, w, left), Full(c, w, left)
  PROVE  LET e == Admitted(c, a, w[a])
         IN  Scanning(e, w, left \ {a}) /\ Full(e, w, left \ {a})
<1> DEFINE e == Admitted(c, a, w[a])
           p == w[a]
           rest == left \ {a}
<1>1. a \in Key /\ p \in Person /\ p.who # Nobody /\ a \in Present(w)
  BY DEF Present
<1>2. /\ Peopled(e) /\ e.limit = c.limit
      /\ \/ IsRefreshed(c, e, a, p) \/ IsLeftOut(c, e, a, p)
         \/ IsAdded(c, e, a, p) \/ IsReplaced(c, e, a, p)
  BY <1>1, AdmittedPeopled
<1>3. /\ \A s \in Used(c) : DistanceOf(c, s) \in Nat
      /\ \A b \in Present(w) : b \in Key /\ w[b].distance \in Nat
      /\ Present(w) \ rest = (Present(w) \ left) \cup {a} /\ a \notin Present(w) \ left
  <2>1. ASSUME NEW b \in Present(w)
        PROVE  b \in Key /\ w[b].distance \in Nat
    BY PlayersAssumption DEF Present, Person
  <2> QED
    BY <1>1, <2>1, Parts
<1>4. /\ \A s \in Used(c) :
            w[c.store[s].key].who # Nobody => DistanceOf(c, s) = w[c.store[s].key].distance
      /\ \A s \in Used(c) : c.store[s].data.marked <=> c.store[s].key \notin Present(w) \ left
      /\ \A b \in Missing(c, w, left), s \in Used(c) : DistanceOf(c, s) <= w[b].distance
      /\ Missing(c, w, left) # {} => Len(c.cache) >= c.limit
  BY DEF Scanning, Full
<1> HIDE DEF e, rest, p
<1> DEFINE Goal == Scanning(e, w, rest) /\ Full(e, w, rest)
<1>5. SUFFICES Goal
  BY DEF e, rest, p
<1>6. CASE IsRefreshed(c, e, a, p)
  <2>1. /\ Used(e) = Used(c) /\ Len(e.cache) = Len(c.cache) /\ Has(c, a)
        /\ \A s \in Used(c) :
             /\ e.store[s].key = c.store[s].key /\ DistanceOf(e, s) = DistanceOf(c, s)
             /\ e.store[s].data.marked = IF e.store[s].key = a THEN FALSE ELSE c.store[s].data.marked
    BY <1>6 DEF IsRefreshed
  <2>2. \A b : Has(e, b) <=> Has(c, b)
    BY <2>1 DEF Has
  <2>3. Missing(e, w, rest) = Missing(c, w, left)
    BY <1>3, <2>1, <2>2 DEF Missing
  <2>4. \A s \in Used(e) : e.store[s].data.marked <=> e.store[s].key \notin Present(w) \ rest
    BY <1>3, <1>4, <2>1
  <2> QED
    BY <1>2, <1>4, <2>1, <2>3, <2>4 DEF Scanning, Full
<1>7. CASE IsLeftOut(c, e, a, p)
  <2>1. /\ e = c /\ ~Has(c, a) /\ Len(c.cache) >= c.limit
        /\ \A s \in Used(c) : DistanceOf(c, s) <= w[a].distance
    BY <1>7 DEF IsLeftOut, p
  <2>2. Missing(c, w, rest) = Missing(c, w, left) \cup {a}
    BY <1>3, <2>1 DEF Missing
  <2>3. \A s \in Used(c) : c.store[s].key # a
    BY <2>1 DEF Has
  <2>4. \A s \in Used(c) : c.store[s].data.marked <=> c.store[s].key \notin Present(w) \ rest
    BY <1>3, <1>4, <2>3
  <2> QED
    BY <1>4, <2>1, <2>2, <2>4 DEF Scanning, Full
<1>8. CASE IsAdded(c, e, a, p)
  <2>1. ~Has(c, a) /\ \A s \in Used(c) : c.store[s].key # a
    BY <1>8 DEF IsAdded, Has
  <2>2. Missing(c, w, left) = {}
    BY <1>4, <1>8 DEF IsAdded
  <2>3. PICK n \in Used(e) : n \notin Used(c) /\ Used(e) = Used(c) \cup {n} /\ NewAt(e, n, a, p)
    BY <1>8 DEF IsAdded
  <2>4. e.store[n].key = a /\ DistanceOf(e, n) = w[a].distance /\ e.store[n].data.marked = FALSE
    BY <2>3 DEF NewAt, p
  <2>5. \A s \in Used(c) : e.store[s] = c.store[s] /\ DistanceOf(e, s) = DistanceOf(c, s)
    BY <1>8 DEF IsAdded, DistanceOf
  <2>6. \A b : Has(c, b) => Has(e, b)
    BY <2>3, <2>5 DEF Has
  <2>7. Has(e, a)
    BY <2>3, <2>4 DEF Has
  <2>8. Missing(e, w, rest) = {}
    BY <1>3, <2>2, <2>6, <2>7 DEF Missing
  <2>9. \A s \in Used(e) : e.store[s].data.marked <=> e.store[s].key \notin Present(w) \ rest
    BY <1>3, <1>4, <2>1, <2>3, <2>4, <2>5
  <2>10. \A s \in Used(e) :
           w[e.store[s].key].who # Nobody => DistanceOf(e, s) = w[e.store[s].key].distance
    BY <1>4, <2>3, <2>4, <2>5
  <2> QED
    BY <2>8, <2>9, <2>10 DEF Scanning, Full
<1>9. CASE IsReplaced(c, e, a, p)
  <2>1. ~Has(c, a) /\ \A s \in Used(c) : c.store[s].key # a
    BY <1>9 DEF IsReplaced, Has
  <2>2. PICK n \in Used(e), f \in Used(c) :
          /\ n \notin Used(c) \ {f} /\ Used(e) = (Used(c) \ {f}) \cup {n} /\ NewAt(e, n, a, p)
          /\ p.distance < DistanceOf(c, f)
          /\ \A s \in Used(c) : DistanceOf(c, s) <= DistanceOf(c, f)
          /\ \A s \in Used(c) \ {f} : e.store[s] = c.store[s]
    BY <1>9 DEF IsReplaced
  <2>3. /\ e.store[n].key = a /\ DistanceOf(e, n) = w[a].distance /\ e.store[n].data.marked = FALSE
        /\ w[a].distance < DistanceOf(c, f)
    BY <2>2 DEF NewAt, p
  <2>4. \A s \in Used(c) \ {f} : e.store[s] = c.store[s] /\ DistanceOf(e, s) = DistanceOf(c, s)
    BY <2>2 DEF DistanceOf
  <2>5. \A s \in Used(e) : s = n \/ s \in Used(c) \ {f}
    BY <2>2
  <2>6. \A s \in Used(e) : DistanceOf(e, s) \in Nat /\ DistanceOf(e, s) <= DistanceOf(c, f)
    BY <1>1, <1>3, <2>2, <2>3, <2>4, <2>5
  <2>7. Has(e, a)
    BY <2>2, <2>3 DEF Has
  <2>8. ASSUME NEW b \in Missing(e, w, rest)
        PROVE  DistanceOf(c, f) <= w[b].distance
    <3>1. b \in Present(w) \ left /\ ~Has(e, b)
      BY <1>3, <2>7, <2>8 DEF Missing
    <3>2. CASE Has(c, b)
      <4>1. c.store[f].key = b
        BY <2>2, <2>4, <3>1, <3>2 DEF Has
      <4>2. DistanceOf(c, f) = w[b].distance
        BY <1>4, <2>2, <3>1, <4>1 DEF Present
      <4> QED
        BY <1>3, <2>2, <4>2
    <3>3. CASE ~Has(c, b)
      <4>1. b \in Missing(c, w, left)
        BY <3>1, <3>3 DEF Missing
      <4> QED
        BY <1>4, <2>2, <4>1
    <3> QED
      BY <3>2, <3>3
  <2>9. \A b \in Missing(e, w, rest), s \in Used(e) : DistanceOf(e, s) <= w[b].distance
    <3> SUFFICES ASSUME NEW b \in Missing(e, w, rest), NEW s \in Used(e)
                 PROVE  DistanceOf(e, s) <= w[b].distance
      OBVIOUS
    <3>1. w[b].distance \in Nat /\ DistanceOf(c, f) \in Nat
      BY <1>3, <2>2 DEF Missing
    <3> QED
      BY <2>6, <2>8, <3>1
  <2>10. \A s \in Used(e) : e.store[s].data.marked <=> e.store[s].key \notin Present(w) \ rest
    BY <1>3, <1>4, <2>1, <2>3, <2>4, <2>5
  <2>11. \A s \in Used(e) :
           w[e.store[s].key].who # Nobody => DistanceOf(e, s) = w[e.store[s].key].distance
    BY <1>4, <2>3, <2>4, <2>5
  <2>12. Len(e.cache) >= e.limit
    BY <1>2, <1>9 DEF IsReplaced
  <2> QED
    BY <2>9, <2>10, <2>11, <2>12 DEF Scanning, Full
<1> QED
  BY <1>2, <1>6, <1>7, <1>8, <1>9

\* A marked entry goes.
LEMMA SweepStep ==
  ASSUME NEW w \in [Key -> Person], NEW c, Peopled(c), NEW r \in Used(c), c.store[r].data.marked
  PROVE  LET d == RemoveEntry(c, r)
         IN  /\ Scanning(c, w, {}) => Scanning(d, w, {})
             /\ AllMarked(c) => AllMarked(d)
<1> DEFINE d == RemoveEntry(c, r)
<1>1. Used(d) = Used(c) \ {r} /\ \A t \in Used(d) : d.store[t] = c.store[t]
  BY RemovedPeopled
<1> HIDE DEF d
<1>2. \A t \in Used(d) : t \in Used(c) /\ d.store[t] = c.store[t] /\ DistanceOf(d, t) = DistanceOf(c, t)
  BY <1>1 DEF DistanceOf
<1>3. AllMarked(c) => AllMarked(d)
  BY <1>2 DEF AllMarked
<1>4. ASSUME Scanning(c, w, {})
      PROVE  Scanning(d, w, {})
  <2>1. c.store[r].key \notin Present(w)
    BY <1>4 DEF Scanning
  <2>2. \A b \in Present(w) : Has(c, b) => Has(d, b)
    BY <1>1, <2>1 DEF Has
  <2>3. Missing(d, w, {}) \subseteq Missing(c, w, {})
    BY <2>2 DEF Missing
  <2> QED
    BY <1>2, <1>4, <2>3 DEF Scanning
<1> QED
  BY <1>3, <1>4 DEF d

\* What does not matter to the scan.
LEMMA SameScan ==
  ASSUME NEW c, NEW d, NEW w, NEW left,
         Used(d) = Used(c), d.cache = c.cache, d.limit = c.limit,
         \A s \in Used(c) : /\ d.store[s].key = c.store[s].key
                            /\ DistanceOf(d, s) = DistanceOf(c, s)
                            /\ d.store[s].data.marked = c.store[s].data.marked
  PROVE  /\ Scanning(c, w, left) => Scanning(d, w, left)
         /\ Full(c, w, left) => Full(d, w, left)
         /\ AllMarked(c) => AllMarked(d)
<1>1. Missing(d, w, left) = Missing(c, w, left)
  BY DEF Missing, Has
<1> QED
  BY <1>1 DEF Scanning, Full, AllMarked

\* NoneNearer, of any table.
Closest(c, w) ==
  \A s \in Used(c) :
    LET p == w[c.store[s].key]
    IN  /\ p.who # Nobody
        /\ \A a \in Present(w) : Find(c, a) = NoSlot => p.distance <= w[a].distance

\* When nobody is marked any more, the scan found the closest.
LEMMA ScannedClosest ==
  ASSUME NEW w \in [Key -> Person], NEW c, Peopled(c), Marked(c) = {},
         Scanning(c, w, {}) \/ AllMarked(c)
  PROVE  Closest(c, w)
<1>1. \A s \in Used(c) : ~c.store[s].data.marked
  BY DEF Marked, Used
<1>2. CASE AllMarked(c)
  BY <1>1, <1>2 DEF AllMarked, Closest
<1>3. CASE Scanning(c, w, {})
  <2> SUFFICES ASSUME NEW s \in Used(c)
               PROVE  /\ w[c.store[s].key].who # Nobody
                      /\ \A a \in Present(w) :
                           Find(c, a) = NoSlot => w[c.store[s].key].distance <= w[a].distance
    BY DEF Closest
  <2>1. c.store[s].key \in Present(w)
    BY <1>1, <1>3 DEF Scanning
  <2>2. w[c.store[s].key].who # Nobody /\ DistanceOf(c, s) = w[c.store[s].key].distance
    BY <1>3, <2>1 DEF Scanning, Present
  <2>3. ASSUME NEW a \in Present(w), Find(c, a) = NoSlot
        PROVE  DistanceOf(c, s) <= w[a].distance
    <3>1. a \in Missing(c, w, {})
      BY <2>3, HasFind DEF Missing
    <3> QED
      BY <1>3, <3>1 DEF Scanning
  <2> QED
    BY <2>2, <2>3
<1> QED
  BY <1>2, <1>3

-----------------------------------------------------------------------------
(***************************************************************************)
(* The frame.                                                              *)
(***************************************************************************)

\* A limit of 0 lets the scan look at nobody, and all go.
ScanInv ==
  /\ pc = "scan" /\ calm /\ exact =>
       \/ Scanning(closest, seen, todo) /\ Full(closest, seen, todo)
       \/ todo = {} /\ AllMarked(closest)
  /\ pc = "sweep" /\ calm /\ exact => Scanning(closest, seen, {}) \/ AllMarked(closest)
  /\ ClosestIfExact

\* The loop begins with everybody marked and nobody looked at.
LEMMA ScanBegins ==
  ASSUME TypeInv, MarkPlayers, exact'
  PROVE  \/ Scanning(closest', seen, todo') /\ Full(closest', seen, todo')
         \/ todo' = {} /\ AllMarked(closest')
<1> DEFINE d == MarkAll(closest)
<1>1. Peopled(closest)
  BY DEF TypeInv
<1>2. /\ Used(d) = Used(closest)
      /\ \A s \in Used(closest) : /\ d.store[s].key = closest.store[s].key
                                  /\ DistanceOf(d, s) = DistanceOf(closest, s)
                                  /\ d.store[s].data.marked = TRUE
  BY <1>1, MarkedPeopled
<1>3. closest' = d
  BY DEF MarkPlayers
<1> HIDE DEF d
<1>4. AllMarked(closest')
  BY <1>2, <1>3 DEF AllMarked
<1>5. CASE max_players > 0
  <2>1. todo' = Present(seen)
    BY <1>5 DEF MarkPlayers
  <2>2. Missing(closest', seen, todo') = {}
    BY <2>1 DEF Missing
  <2>3. \A s \in Used(closest) :
          seen[closest.store[s].key].who # Nobody =>
            DistanceOf(closest, s) = seen[closest.store[s].key].distance
    BY DEF MarkPlayers
  <2> QED
    BY <1>2, <1>3, <1>4, <2>1, <2>2, <2>3 DEF Scanning, Full, AllMarked
<1>6. CASE ~(max_players > 0)
  BY <1>4, <1>6 DEF MarkPlayers
<1> QED
  BY <1>5, <1>6

LEMMA ScanInvStep == TypeInv /\ ScanInv /\ [Next]_vars => ScanInv'
<1> SUFFICES ASSUME TypeInv, ScanInv, [Next]_vars PROVE ScanInv'
  OBVIOUS
<1> USE DEF frameVars, netVars
<1>1. /\ Peopled(closest) /\ seen \in [Key -> Person] /\ todo \subseteq Present(seen)
      /\ exact \in BOOLEAN /\ calm \in BOOLEAN
  BY DEF TypeInv
<1>2. ASSUME UNCHANGED <<closest, pc, todo, seen, exact, calm>>
      PROVE  ScanInv'
  BY <1>2 DEF ScanInv, ClosestIfExact, NoneNearer
<1>3. CASE BeginFrame \/ Shrink \/ Shrunk \/ ResizeTable
  BY <1>3 DEF BeginFrame, Shrink, Shrunk, ResizeTable, ScanInv, ClosestIfExact
<1>4. CASE MarkPlayers
  BY <1>4, ScanBegins DEF MarkPlayers, ScanInv, ClosestIfExact
<1>5. ASSUME NEW a \in Key, ScanPlayer(a)
      PROVE  ScanInv'
  <2>1. /\ pc = "scan" /\ pc' = "scan" /\ a \in todo /\ todo' = todo \ {a}
        /\ seen' = seen /\ exact' = exact /\ calm' = calm
        /\ closest' = Admitted(closest, a, seen[a])
    BY <1>5 DEF ScanPlayer
  <2>2. ASSUME calm, exact
        PROVE  Scanning(closest', seen, todo \ {a}) /\ Full(closest', seen, todo \ {a})
    <3>1. Scanning(closest, seen, todo) /\ Full(closest, seen, todo)
      BY <2>1, <2>2 DEF ScanInv
    <3> QED
      BY <1>1, <2>1, <3>1, ScanStep
  <2> QED
    BY <2>1, <2>2 DEF ScanInv, ClosestIfExact
<1>6. CASE ScanFaults \/ Reset
  BY <1>6 DEF ScanFaults, Reset, ScanInv, ClosestIfExact
<1>7. CASE Scanned
  BY <1>7 DEF Scanned, ScanInv, ClosestIfExact
<1>8. CASE Sweep
  <2>1. /\ pc = "sweep" /\ pc' = "sweep" /\ seen' = seen /\ exact' = exact /\ calm' = calm
    BY <1>8 DEF Sweep
  <2>2. PICK i \in Marked(closest) : closest' = RemoveEntry(closest, closest.cache[i])
    BY <1>8 DEF Sweep
  <2>3. closest.cache[i] \in Used(closest) /\ closest.store[closest.cache[i]].data.marked
    BY <2>2 DEF Marked, Used
  <2>4. /\ Scanning(closest, seen, {}) => Scanning(closest', seen, {})
        /\ AllMarked(closest) => AllMarked(closest')
    BY <1>1, <2>2, <2>3, SweepStep
  <2> QED
    BY <2>1, <2>4 DEF ScanInv, ClosestIfExact
<1>9. CASE EndFrame
  <2>1. /\ pc = "sweep" /\ pc' = "idle" /\ Marked(closest) = {}
        /\ UNCHANGED <<closest, seen, exact, calm>>
    BY <1>9 DEF EndFrame
  <2>2. ASSUME calm, exact
        PROVE  Closest(closest, seen)
    BY <1>1, <2>1, <2>2, ScannedClosest DEF ScanInv
  <2>3. Closest(closest, seen) => NoneNearer'
    BY <2>1 DEF Closest, NoneNearer
  <2> QED
    BY <2>1, <2>2, <2>3 DEF ScanInv, ClosestIfExact
<1>10. CASE WriteReport
  <2>1. UNCHANGED <<pc, todo, seen, exact, calm>>
    BY <1>10 DEF WriteReport
  <2>2. /\ Peopled(closest') /\ Used(closest') = Used(closest)
        /\ closest'.limit = closest.limit /\ closest'.cache = closest.cache
        /\ \A s \in Used(closest) :
             /\ closest'.store[s].key = closest.store[s].key
             /\ DistanceOf(closest', s) = DistanceOf(closest, s)
             /\ closest'.store[s].data.marked = closest.store[s].data.marked
    BY <1>10, ReportPeopled
  <2>3. \A left : /\ Scanning(closest, seen, left) => Scanning(closest', seen, left)
                  /\ Full(closest, seen, left) => Full(closest', seen, left)
                  /\ AllMarked(closest) => AllMarked(closest')
    BY <2>2, SameScan
  <2>4. NoneNearer => NoneNearer'
    <3>1. \A a : Find(closest', a) = NoSlot <=> Find(closest, a) = NoSlot
      <4>1. \A a : Has(closest', a) <=> Has(closest, a)
        BY <2>2 DEF Has
      <4> QED
        BY <1>1, <2>2, <4>1, HasFind
    <3> QED
      BY <2>1, <2>2, <3>1 DEF NoneNearer
  <2> QED
    BY <2>1, <2>3, <2>4 DEF ScanInv, ClosestIfExact
<1>11. CASE Sort \/ Ask \/ FindNamed \/ NobodyNamed \/ UNCHANGED vars
  BY <1>2, <1>11 DEF Sort, Ask, FindNamed, NobodyNamed, vars
<1>12. CASE \E m \in answers : Lose(m) \/ Receive(m)
  BY <1>2, <1>12 DEF Lose, Receive
<1>13. CASE \/ \E a \in Key, n \in Name, d \in Distance : Arrive(a, n, d)
            \/ \E a \in Key : Leave(a)
            \/ \E a \in Key, d \in Distance : Move(a, d)
            \/ \E n \in 0 .. max_size : SetMaxPlayers(n)
  BY <1>2, <1>13 DEF Arrive, Leave, Move, SetMaxPlayers
<1>14. CASE Frame
  BY <1>3, <1>4, <1>5, <1>7, <1>8, <1>9, <1>14 DEF Frame
<1> QED
  BY <1>6, <1>10, <1>11, <1>12, <1>13, <1>14 DEF Next, Handle

\* At the end of a frame that nothing disturbed and that began with right distances,
\* nobody who was left out is nearer than anyone who is shown, whatever the limit and
\* however often it moved (game_data.cpp:329-346, 359-363).
THEOREM ClosestCorrect == Spec => []ClosestIfExact
<1>1. Init => ScanInv
  BY DEF Init, ScanInv, ClosestIfExact
<1>2. ScanInv => ClosestIfExact
  BY DEF ScanInv
<1> QED
  BY <1>1, <1>2, TypesHold, ScanInvStep, PTL DEF Spec
=============================================================================
