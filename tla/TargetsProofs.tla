---------------------------- MODULE TargetsProofs ----------------------------
(***************************************************************************)
(* The targets keep their types, the table accounts for every slot, no     *)
(* target claims more damage than was done to it, and a lock holds.        *)
(*                                                                         *)
(* The inductive invariant is about each entry by itself, its agent and    *)
(* the damage of its being; and about the world: what is selected or was   *)
(* hit is on this map.                                                     *)
(***************************************************************************)
EXTENDS Targets, GameCacheProofs

\* An entry before its being is known.
RawData ==
  [aptr : Being \cup {NoBeing}, wmptr : Being \cup {NoBeing}, invuln : BOOLEAN,
   isDead : BOOLEAN, tdmg : Nat,
   seen : 0 .. MAX_TARGET_AGE + 1, hit : 0 .. RESET_TIMER + 1]

\* The entry of agent k.
Right(t, k) == t \in TargetData /\ t.aptr[2] = k

WorldInv ==
  /\ shard \in Shard /\ there \in [Key -> Health] /\ friendly \in BOOLEAN
  /\ selected \in Key \cup {NoKey}
  /\ \A a \in Key : there[a] # "gone" => shard \in UsedOn[a]
  /\ selected # NoKey => there[selected] # "gone"

\* A table of such entries.
Table(c) ==
  /\ Live(c, TargetData)
  /\ \A s \in Used(c) : Right(Data(c, s), c.store[s].key)

\* No entry of c claims more damage than its being took.
Charged(c, taken) == \A s \in Used(c) : Data(c, s).tdmg <= taken[Data(c, s).aptr]

Shown ==
  [locked : BOOLEAN, time_sel : 0 .. Retention, id : Key, aptr : Being, tdmg : Nat,
   invuln : BOOLEAN]

SentPlayer == [id : Key, aptr : Being, tdmg : Nat, invuln : BOOLEAN]

MeterInv ==
  /\ dps \in Shown \cup {NoTarget} /\ (dps.id # NoKey => dps.aptr[2] = dps.id)
  /\ current \in Key \cup {NoKey} /\ checked \in Being \cup {NoBeing}
  /\ sent \in [1 .. MSG_TARGETS -> SentPlayer \cup {Unsent}]

RestInv ==
  /\ autolock \in [{"raid", "custom"} -> SUBSET Npc]
  /\ pc \in {"idle", "calc", "prefer", "report"}
  /\ cursor \in Slot \cup {NoSlot} /\ following \in Slot \cup {NoSlot}
  /\ dealt \in [Being -> Nat] /\ changes \in 0 .. MaxChanges

IInv == WorldInv /\ Table(targets) /\ MeterInv /\ RestInv

-----------------------------------------------------------------------------
(***************************************************************************)
(* The entries.                                                            *)
(***************************************************************************)

LEMMA Bounds ==
  /\ MAX_TARGET_AGE \in Nat /\ RESET_TIMER \in Nat /\ MaxChanges \in Nat
  /\ Retention \in Nat \ {0} /\ MSG_TARGETS \in Nat \ {0}
  BY TargetsAssumption

LEMMA BeingHere ==
  ASSUME WorldInv, NEW a \in Key, there[a] # "gone"
  PROVE  Here(a) \in Being /\ Here(a)[2] = a /\ Here(a) # NoBeing
<1>1. shard \in Shard /\ shard \in UsedOn[a]
  BY DEF WorldInv
<1>2. Here(a) = <<shard, a>>
  BY DEF Here
<1>3. Here(a) \in Shard \X Key /\ Here(a)[1] = shard /\ Here(a)[2] = a
  BY <1>1, <1>2
<1>4. a # NoKey
  BY CacheAssumption
<1> QED
  BY <1>1, <1>3, <1>4 DEF Being, NoBeing

LEMMA BlankRaw == Blank \in RawData /\ TargetData \subseteq RawData
<1>1. Blank \in RawData
  BY Bounds DEF Blank, RawData
<1>2. TargetData \subseteq RawData
  BY DEF TargetData, RawData
<1> QED
  BY <1>1, <1>2

\* A hit, a resisted attack and a selection of the being b.
Struck(u, b) == [u EXCEPT !.aptr = b, !.invuln = FALSE, !.tdmg = @ + 1, !.hit = 0]

Resisted(u, b) == [u EXCEPT !.aptr = b, !.invuln = TRUE]

Chosen(u, b, dead) == [u EXCEPT !.aptr = b, !.wmptr = b, !.seen = 0, !.isDead = dead]

LEMMA ReadRight ==
  ASSUME NEW t \in RawData, t.aptr \in Being, NEW a, NEW health
  PROVE  LET r == Read(a, t, health)
         IN  r \in TargetData /\ r.aptr = t.aptr /\ r.tdmg = t.tdmg
<1> DEFINE r == Read(a, t, health)
           w == IF t.wmptr = NoBeing THEN t.aptr ELSE t.wmptr
           dead == health = "dead"
<1>1. r = [t EXCEPT !.isDead = dead, !.seen = 0, !.wmptr = w]
  BY DEF Read
<1>2. w \in Being /\ dead \in BOOLEAN /\ 0 \in 0 .. MAX_TARGET_AGE + 1
  BY Bounds DEF RawData
<1> HIDE DEF r, w, dead
<1>3. r \in TargetData
  BY <1>1, <1>2 DEF RawData, TargetData
<1>4. r.aptr = t.aptr /\ r.tdmg = t.tdmg
  BY <1>1 DEF RawData
<1> QED
  BY <1>3, <1>4 DEF r

LEMMA StruckRight ==
  ASSUME NEW u \in RawData, NEW b \in Being
  PROVE  LET t == Struck(u, b)
         IN  t \in RawData /\ t.aptr = b /\ t.tdmg = u.tdmg + 1
<1> DEFINE t == Struck(u, b)
           n == u.tdmg + 1
<1>1. t = [u EXCEPT !.aptr = b, !.invuln = FALSE, !.tdmg = n, !.hit = 0]
  BY DEF Struck
<1>2. n \in Nat /\ 0 \in 0 .. RESET_TIMER + 1
  BY Bounds DEF RawData
<1> HIDE DEF t, n
<1>3. t \in RawData
  BY <1>1, <1>2 DEF RawData
<1>4. t.aptr = b /\ t.tdmg = n
  BY <1>1 DEF RawData
<1> QED
  BY <1>3, <1>4 DEF t, n

LEMMA ResistedRight ==
  ASSUME NEW u \in RawData, NEW b \in Being
  PROVE  LET t == Resisted(u, b)
         IN  t \in RawData /\ t.aptr = b /\ t.tdmg = u.tdmg
<1> DEFINE t == Resisted(u, b)
<1>1. t = [u EXCEPT !.aptr = b, !.invuln = TRUE]
  BY DEF Resisted
<1> HIDE DEF t
<1>2. t \in RawData
  BY <1>1 DEF RawData
<1>3. t.aptr = b /\ t.tdmg = u.tdmg
  BY <1>1 DEF RawData
<1> QED
  BY <1>2, <1>3 DEF t

LEMMA ChosenRight ==
  ASSUME NEW u \in RawData, NEW b \in Being, NEW dead \in BOOLEAN
  PROVE  LET t == Chosen(u, b, dead)
         IN  t \in TargetData /\ t.aptr = b /\ t.tdmg = u.tdmg
<1> DEFINE t == Chosen(u, b, dead)
<1>1. t = [u EXCEPT !.aptr = b, !.wmptr = b, !.seen = 0, !.isDead = dead]
  BY DEF Chosen
<1>2. 0 \in 0 .. MAX_TARGET_AGE + 1
  BY Bounds
<1> HIDE DEF t
<1>3. t \in TargetData
  BY <1>1, <1>2 DEF RawData, TargetData
<1>4. t.aptr = b /\ t.tdmg = u.tdmg
  BY <1>1 DEF RawData
<1> QED
  BY <1>3, <1>4 DEF t

LEMMA OlderType ==
  ASSUME NEW n \in Nat, NEW i \in 0 .. n
  PROVE  Older(i, n) \in 0 .. n /\ Older(i, n) = IF i < n THEN i + 1 ELSE i
  BY DEF Older

\* Time passes for an entry.
LEMMA AgedRight ==
  ASSUME NEW t \in TargetData
  PROVE  LET x == Aged(t)
         IN  x \in TargetData /\ x.aptr = t.aptr /\ x.tdmg = t.tdmg
<1> DEFINE x == Aged(t)
           p == Older(t.seen, MAX_TARGET_AGE + 1)
           h == Older(t.hit, RESET_TIMER + 1)
<1>1. x = [t EXCEPT !.seen = p, !.hit = h]
  BY DEF Aged
<1>2. t.seen \in 0 .. MAX_TARGET_AGE + 1 /\ t.hit \in 0 .. RESET_TIMER + 1
  BY DEF TargetData
<1>3. p \in 0 .. MAX_TARGET_AGE + 1 /\ h \in 0 .. RESET_TIMER + 1
  BY <1>2, OlderType, Bounds
<1> HIDE DEF x, p, h
<1>4. x \in TargetData
  BY <1>1, <1>3 DEF TargetData
<1>5. x.aptr = t.aptr /\ x.tdmg = t.tdmg
  BY <1>1 DEF TargetData
<1> QED
  BY <1>4, <1>5 DEF x

LEMMA MinOf ==
  ASSUME NEW i \in Nat, NEW j \in Nat
  PROVE  Min({i, j}) \in {i, j} /\ Min({i, j}) <= i /\ Min({i, j}) <= j
<1>1. \E x \in {i, j} : \A y \in {i, j} : x <= y
  BY DEF Min
<1> QED
  BY <1>1 DEF Min

-----------------------------------------------------------------------------
(***************************************************************************)
(* The table.                                                              *)
(***************************************************************************)

\* What the slots hold after cache_insert_and_evict of a.
LEMMA EnteredStore ==
  ASSUME NEW c, Live(c, TargetData), NEW a \in Key
  PROVE  LET d == InsertAndEvict(c, a, Blank)
             s == Find(d, a)
         IN  /\ Live(d, TargetData \cup {Blank}) /\ s \in Used(d) /\ d.store[s].key = a
             /\ \A t \in Slot : t # s => d.store[t].data \in TargetData \cup {NoData}
             /\ \A t \in Used(d) : t # s => t \in Used(c) /\ d.store[t] = c.store[t]
             /\ \/ s \in Used(c) /\ d.store[s] = c.store[s]
                \/ d.store[s].data = Blank
<1> DEFINE Wider == TargetData \cup {Blank}
           d == InsertAndEvict(c, a, Blank)
           s == Find(d, a)
<1>1. Live(c, Wider) /\ Blank \in Wider
  BY MoreData
<1>2. \A t \in Slot : c.store[t].data \in TargetData \cup {NoData}
  BY LiveParts DEF StoreOf
<1> HIDE DEF Wider
<1>3. CASE Find(c, a) # NoSlot
  <2>1. Find(c, a) \in Used(c) /\ c.store[Find(c, a)].key = a
    BY <1>3, FindProperties
  <2>2. d = ToNewest(c, Find(c, a))
    BY <1>3, LiveParts DEF InsertAndEvict
  <2> HIDE DEF d
  <2>3. Live(d, Wider) /\ Used(d) = Used(c) /\ d.store = c.store
    BY <1>1, <2>1, <2>2, NewestLive
  <2>4. s \in Used(d) /\ d.store[s].key = a
    BY <2>1, <2>3, FindProperties
  <2> HIDE DEF s
  <2> QED
    BY <1>2, <2>3, <2>4 DEF d, s, Wider
<1>4. CASE Find(c, a) = NoSlot
  <2> DEFINE full == Len(c.cache) >= max_size
             kept == IF full THEN Used(c) \ {Head(c.cache)} ELSE Used(c)
             e == IF full THEN RemoveEntry(c, Head(c.cache)) ELSE c
  <2>1. Live(d, Wider) /\ (full => Head(c.cache) \in Used(c))
    BY <1>1, <1>4, EvictedLive
  <2>2. PICK n \in Used(d) : /\ d.store[n].key = a /\ d.store[n].data = Blank
                             /\ Used(d) = kept \cup {n}
                             /\ \A t \in Used(d) \ {n} : d.store[t] = c.store[t]
    BY <1>1, <1>4, EvictedLive
  <2>3. d = Allocated(e, a, Blank)
    BY <1>4, LiveParts DEF InsertAndEvict
  <2>4. Live(e, TargetData) /\ \A t \in Slot : e.store[t].data \in TargetData \cup {NoData}
    <3>1. Live(e, TargetData)
      BY <2>1, RemoveLive
    <3> HIDE DEF e
    <3> QED
      BY <3>1, LiveParts DEF StoreOf
  <2> HIDE DEF d, e, full, s
  <2>5. \A t \in Slot : d.store[t] = e.store[t] \/ t \in Used(d)
    <3> DEFINE m == Last(e.tracker)
               x == [key |-> a, idx |-> m, data |-> Blank]
    <3>1. d = [e EXCEPT !.tracker = Front(@), !.cache = Append(@, m), !.store[m] = x]
      BY <2>3 DEF Allocated
    <3>2. e \in CacheOf(TargetData) /\ e.store \in StoreOf(TargetData) /\ e.cache \in Seq(Slot)
      BY <2>4, LiveParts DEF Live
    <3> HIDE DEF m, x
    <3>3. d.store = [e.store EXCEPT ![m] = x] /\ d.cache = Append(e.cache, m)
      BY <3>1, <3>2 DEF CacheOf
    <3>4. m \in Used(d)
      <4>1. e.cache \in Seq(Slot \cup {m}) /\ Len(e.cache) \in Nat
        BY <3>2
      <4>2. Len(e.cache) + 1 \in DOMAIN d.cache /\ d.cache[Len(e.cache) + 1] = m
        BY <3>3, <4>1, AppendProperties
      <4> QED
        BY <4>2 DEF Used
    <3> QED
      BY <3>2, <3>3, <3>4 DEF StoreOf
  <2>6. s \in Used(d) /\ d.store[s].key = a
    BY <2>1, <2>2, FindProperties DEF s
  <2>7. s = n
    BY <2>1, <2>2, <2>6 DEF Live, Sound
  <2>8. \A t \in Slot : t # s => d.store[t].data \in TargetData \cup {NoData}
    <3> SUFFICES ASSUME NEW t \in Slot, t # s
                 PROVE  d.store[t].data \in TargetData \cup {NoData}
      OBVIOUS
    <3>1. CASE t \in Used(d)
      BY <1>2, <2>2, <2>7, <3>1
    <3>2. CASE t \notin Used(d)
      BY <2>4, <2>5, <3>2
    <3> QED
      BY <3>1, <3>2
  <2>9. \A t \in Used(d) : t # s => t \in Used(c) /\ d.store[t] = c.store[t]
    BY <2>1, <2>2, <2>7
  <2>10. d.store[s].data = Blank
    BY <2>2, <2>7
  <2> QED
    BY <2>1, <2>6, <2>8, <2>9, <2>10 DEF d, s, Wider
<1> QED
  BY <1>3, <1>4

\* The entry of a is rewritten after that.
LEMMA EnteredRight ==
  ASSUME NEW c, Table(c), NEW a \in Key, NEW x \in TargetData, Right(x, a)
  PROVE  LET d == InsertAndEvict(c, a, Blank)
             e == [d EXCEPT !.store[Find(d, a)].data = x]
         IN  /\ Table(e)
             /\ \A s \in Used(e) : \/ Data(e, s) = x
                                   \/ s \in Used(c) /\ Data(e, s) = Data(c, s)
<1> DEFINE d == InsertAndEvict(c, a, Blank)
           s == Find(d, a)
           e == [d EXCEPT !.store[s].data = x]
           Wider == TargetData \cup {Blank}
<1>0. Live(c, TargetData) /\ \A t \in Used(c) : Right(Data(c, t), c.store[t].key)
  BY DEF Table
<1>1. /\ Live(d, Wider) /\ s \in Used(d) /\ d.store[s].key = a
      /\ \A t \in Slot : t # s => d.store[t].data \in TargetData \cup {NoData}
      /\ \A t \in Used(d) : t # s => t \in Used(c) /\ d.store[t] = c.store[t]
  BY <1>0, EnteredStore
<1> HIDE DEF d, s, Wider
<1>2. /\ Live(e, Wider) /\ Used(e) = Used(d)
      /\ \A t \in Used(d) : /\ e.store[t].key = d.store[t].key
                            /\ e.store[t].data = IF t = s THEN x ELSE d.store[t].data
  <2>1. x \in Wider
    BY DEF Wider
  <2> QED
    BY <1>1, <2>1, RewrittenLive
<1>3. \A t \in Slot : e.store[t].data = IF t = s THEN x ELSE d.store[t].data
  <2>1. d \in CacheOf(Wider) /\ d.store \in StoreOf(Wider) /\ s \in Slot
    BY <1>1, LiveParts DEF Live
  <2> DEFINE y == [d.store[s] EXCEPT !.data = x]
  <2>2. e.store = [d.store EXCEPT ![s] = y] /\ y.data = x
    BY <2>1 DEF CacheOf, StoreOf
  <2> HIDE DEF e, y
  <2> QED
    BY <2>1, <2>2 DEF StoreOf
<1> HIDE DEF e
<1>4. Live(e, TargetData)
  <2>1. \A t \in Slot : e.store[t].data \in TargetData \cup {NoData}
    BY <1>1, <1>3
  <2> QED
    BY <1>2, <2>1, Narrowed
<1>5. ASSUME NEW t \in Used(e)
      PROVE  /\ Right(Data(e, t), e.store[t].key)
             /\ Data(e, t) = x \/ (t \in Used(c) /\ Data(e, t) = Data(c, t))
  <2>1. CASE t = s
    BY <1>0, <1>1, <1>2, <2>1 DEF Data
  <2>2. CASE t # s
    BY <1>0, <1>1, <1>2, <2>2 DEF Data
  <2> QED
    BY <2>1, <2>2
<1> QED
  BY <1>4, <1>5 DEF Table, e, d, s

\* An entry of the table is rewritten.
LEMMA RewrittenRight ==
  ASSUME NEW c, Table(c), NEW s \in Used(c), NEW x \in TargetData, Right(x, c.store[s].key)
  PROVE  LET e == [c EXCEPT !.store[s].data = x]
         IN  /\ Table(e)
             /\ \A t \in Used(e) : \/ t = s /\ Data(e, t) = x
                                   \/ t \in Used(c) /\ Data(e, t) = Data(c, t)
<1> DEFINE e == [c EXCEPT !.store[s].data = x]
<1>0. Live(c, TargetData) /\ \A t \in Used(c) : Right(Data(c, t), c.store[t].key)
  BY DEF Table
<1>1. /\ Live(e, TargetData) /\ Used(e) = Used(c)
      /\ \A t \in Used(c) : /\ e.store[t].key = c.store[t].key
                            /\ e.store[t].data = IF t = s THEN x ELSE c.store[t].data
  BY <1>0, RewrittenLive
<1> HIDE DEF e
<1>2. ASSUME NEW t \in Used(e)
      PROVE  /\ Right(Data(e, t), e.store[t].key)
             /\ (t = s /\ Data(e, t) = x) \/ (t \in Used(c) /\ Data(e, t) = Data(c, t))
  <2>1. CASE t = s
    BY <1>0, <1>1, <2>1 DEF Data
  <2>2. CASE t # s
    BY <1>0, <1>1, <2>2 DEF Data
  <2> QED
    BY <2>1, <2>2
<1> QED
  BY <1>1, <1>2 DEF Table, e

\* An entry is removed.
LEMMA RemovedRight ==
  ASSUME NEW c, Table(c), NEW a
  PROVE  LET e == RemoveKey(c, a)
         IN  /\ Table(e)
             /\ \A t \in Used(e) : t \in Used(c) /\ Data(e, t) = Data(c, t)
<1> DEFINE e == RemoveKey(c, a)
<1>0. Live(c, TargetData) /\ \A t \in Used(c) : Right(Data(c, t), c.store[t].key)
  BY DEF Table
<1>1. CASE Find(c, a) = NoSlot
  BY <1>1 DEF RemoveKey, RemoveEntry
<1>2. CASE Find(c, a) # NoSlot
  <2>1. Find(c, a) \in Used(c)
    BY <1>2, <1>0, FindProperties
  <2>2. e = RemoveEntry(c, Find(c, a))
    BY DEF RemoveKey
  <2> HIDE DEF e
  <2>3. /\ Live(e, TargetData) /\ Used(e) \subseteq Used(c)
        /\ \A t \in Used(e) : e.store[t] = c.store[t]
    BY <1>0, <2>1, <2>2, RemoveLive
  <2> QED
    BY <1>0, <2>3 DEF Data, Table, e
<1> QED
  BY <1>1, <1>2

\* Time passes for all entries.
LEMMA AllAgedRight ==
  ASSUME NEW c, Table(c)
  PROVE  LET e == AllAged(c)
         IN  /\ Table(e) /\ Used(e) = Used(c)
             /\ \A t \in Used(e) : Data(e, t) = Aged(Data(c, t))
<1> DEFINE e == AllAged(c)
           h == [s \in Slot |-> IF s \in Used(c) THEN [c.store[s] EXCEPT !.data = Aged(c.store[s].data)]
                               ELSE c.store[s]]
           f == [s \in Slot |-> Aged(c.store[s].data)]
           g == [s \in Slot |-> IF s \in Used(c) THEN [c.store[s] EXCEPT !.data = f[s]]
                               ELSE c.store[s]]
<1>0. Live(c, TargetData) /\ \A t \in Used(c) : Right(Data(c, t), c.store[t].key)
  BY DEF Table
<1>1. e = [c EXCEPT !.store = h] /\ c \in CacheOf(TargetData) /\ c.store \in StoreOf(TargetData)
  BY <1>0, LiveParts DEF AllAged, Live
<1>2. h = g
  OBVIOUS
<1>3. \A t \in Used(c) : Aged(c.store[t].data) \in TargetData
  BY <1>0, AgedRight DEF Right, Data
<1>4. \A t \in Slot : h[t] = IF t \in Used(c) THEN [c.store[t] EXCEPT !.data = Aged(c.store[t].data)]
                             ELSE c.store[t]
  OBVIOUS
<1>5. PICK More : Live([c EXCEPT !.store = g], More)
  <2> HIDE DEF f
  <2> QED
    BY <1>0, AllRewrittenLive
<1> HIDE DEF h, g, f
<1>6. e.store = h /\ e.cache = c.cache
  <2> HIDE DEF e
  <2> QED
    BY <1>1 DEF CacheOf
<1> HIDE DEF e
<1>7. Live(e, More) /\ Used(e) = Used(c) /\ Used(c) \subseteq Slot
  BY <1>1, <1>2, <1>5, <1>6, <1>0, LiveParts DEF Used
<1>8. ASSUME NEW t \in Slot
      PROVE  /\ e.store[t].key = c.store[t].key
             /\ e.store[t].data = IF t \in Used(c) THEN Aged(c.store[t].data) ELSE c.store[t].data
  <2> DEFINE x == c.store[t]
             y == Aged(x.data)
  <2>1. x \in [key : Key \cup {NoKey}, idx : Slot \cup {-1}, data : TargetData \cup {NoData}]
    BY <1>1 DEF StoreOf
  <2>2. e.store[t] = IF t \in Used(c) THEN [x EXCEPT !.data = y] ELSE x
    BY <1>4, <1>6
  <2> HIDE DEF x, y
  <2>3. [x EXCEPT !.data = y].key = x.key /\ [x EXCEPT !.data = y].data = y
    BY <2>1
  <2>4. e.store[t].key = x.key /\ e.store[t].data = IF t \in Used(c) THEN y ELSE x.data
    BY <2>2, <2>3
  <2> QED
    BY <2>4 DEF x, y
<1>9. Live(e, TargetData)
  <2>1. \A t \in Slot : e.store[t].data \in TargetData \cup {NoData}
    BY <1>1, <1>3, <1>8 DEF StoreOf
  <2> QED
    BY <1>7, <2>1, Narrowed
<1>10. \A t \in Used(e) : Data(e, t) = Aged(Data(c, t)) /\ e.store[t].key = c.store[t].key
  BY <1>7, <1>8 DEF Data
<1>11. \A t \in Used(e) : Right(Data(e, t), e.store[t].key)
  BY <1>0, <1>7, <1>10, AgedRight DEF Right
<1> QED
  BY <1>7, <1>9, <1>10, <1>11 DEF Table, e

-----------------------------------------------------------------------------
(***************************************************************************)
(* The steps.                                                              *)
(***************************************************************************)

\* An agent id is used on one map at most.
UsedOnce == \A a \in Key : \A m, n \in UsedOn[a] : m = n

LEMMA OneBeing ==
  ASSUME UsedOnce, NEW b \in Being, NEW c \in Being, b[2] = c[2]
  PROVE  b = c
<1>1. b \in Shard \X Key /\ c \in Shard \X Key /\ b[1] \in UsedOn[b[2]] /\ c[1] \in UsedOn[c[2]]
  BY DEF Being
<1>2. b[1] = c[1]
  BY <1>1 DEF UsedOnce
<1> QED
  BY <1>1, <1>2

\* A table of which one entry at most changed.
LEMMA ChargedStep ==
  ASSUME NEW c, NEW e, NEW x, NEW taken \in [Being -> Nat], NEW more \in [Being -> Nat],
         \A b \in Being : taken[b] <= more[b], Table(c), Charged(c, taken),
         \A s \in Used(e) : Data(e, s) = x \/ (s \in Used(c) /\ Data(e, s) = Data(c, s)),
         x.tdmg <= more[x.aptr]
  PROVE  Charged(e, more)
<1> SUFFICES ASSUME NEW s \in Used(e)
             PROVE  Data(e, s).tdmg <= more[Data(e, s).aptr]
  BY DEF Charged
<1>1. CASE Data(e, s) = x
  BY <1>1
<1>2. CASE s \in Used(c) /\ Data(e, s) = Data(c, s)
  <2> DEFINE t == Data(c, s)
  <2>1. t.tdmg <= taken[t.aptr] /\ t \in TargetData
    BY <1>2 DEF Charged, Table, Right
  <2> HIDE DEF t
  <2>2. t.tdmg \in Nat /\ t.aptr \in Being
    BY <2>1 DEF TargetData
  <2>3. taken[t.aptr] \in Nat /\ more[t.aptr] \in Nat /\ taken[t.aptr] <= more[t.aptr]
    BY <2>2
  <2>4. t.tdmg <= more[t.aptr]
    BY <2>1, <2>2, <2>3
  <2> QED
    BY <1>2, <2>4 DEF t
<1> QED
  BY <1>1, <1>2

\* The entry agent a comes to: a new one, or one of its own.
LEMMA EnteredData ==
  ASSUME NEW c, Table(c), NEW a \in Key
  PROVE  LET d == InsertAndEvict(c, a, Blank)
             u == Data(d, Find(d, a))
         IN  /\ u \in RawData
             /\ u = Blank \/ (Right(u, a) /\ \E s \in Used(c) : u = Data(c, s))
<1> DEFINE d == InsertAndEvict(c, a, Blank)
           s == Find(d, a)
           u == Data(d, s)
<1>1. /\ s \in Used(d) /\ d.store[s].key = a
      /\ (s \in Used(c) /\ d.store[s] = c.store[s]) \/ d.store[s].data = Blank
  BY EnteredStore DEF Table
<1>2. \A t \in Used(c) : Right(Data(c, t), c.store[t].key)
  BY DEF Table
<1> HIDE DEF s, d
<1>3. CASE d.store[s].data = Blank
  BY <1>3, BlankRaw DEF Data, d, s
<1>4. CASE s \in Used(c) /\ d.store[s] = c.store[s]
  <2>1. u = Data(c, s) /\ Right(u, a)
    BY <1>1, <1>2, <1>4 DEF Data
  <2> HIDE DEF u
  <2>2. u \in RawData
    BY <2>1, BlankRaw DEF Right
  <2> QED
    BY <1>4, <2>1, <2>2 DEF u, s, d
<1> QED
  BY <1>1, <1>3, <1>4

\* The damage of the entry agent a comes to is its own.
LEMMA EnteredCharge ==
  ASSUME NEW c, Table(c), NEW a \in Key, NEW taken \in [Being -> Nat], Charged(c, taken),
         UsedOnce, NEW b \in Being, b[2] = a
  PROVE  LET d == InsertAndEvict(c, a, Blank)
             u == Data(d, Find(d, a))
         IN  u.tdmg \in Nat /\ u.tdmg <= taken[b]
<1> DEFINE d == InsertAndEvict(c, a, Blank)
           u == Data(d, Find(d, a))
<1>1. u \in RawData /\ (u = Blank \/ (Right(u, a) /\ \E s \in Used(c) : u = Data(c, s)))
  BY EnteredData
<1>2. taken[b] \in Nat
  OBVIOUS
<1> HIDE DEF u
<1>3. u.tdmg \in Nat
  BY <1>1 DEF RawData
<1>4. CASE u = Blank
  BY <1>2, <1>3, <1>4 DEF Blank, u, d
<1>5. CASE Right(u, a) /\ \E s \in Used(c) : u = Data(c, s)
  <2>1. u.tdmg <= taken[u.aptr]
    BY <1>5 DEF Charged
  <2>2. u.aptr \in Being /\ u.aptr[2] = a
    BY <1>5 DEF Right, TargetData
  <2>3. u.aptr = b
    BY <2>2, OneBeing
  <2> QED
    BY <1>3, <2>1, <2>3 DEF u, d
<1> QED
  BY <1>1, <1>4, <1>5

\* What a step may do to the table and to what the beings took.
TableStep == Table(targets') /\ (UsedOnce /\ Charged(targets, dealt) => Charged(targets', dealt'))

LEMMA HitTable ==
  ASSUME IInv, NEW a \in Key, Hit(a)
  PROVE  TableStep /\ dealt' \in [Being -> Nat] /\ \A b \in Being : dealt[b] <= dealt'[b]
<1> DEFINE d == InsertAndEvict(targets, a, Blank)
           u == Data(d, Find(d, a))
           t == Struck(u, Here(a))
<1>1. PICK health \in Health : targets' = [d EXCEPT !.store[Find(d, a)].data = Read(a, t, health)]
  BY DEF Hit, Entered, Struck, Health
<1> DEFINE x == Read(a, t, health)
           n == dealt[Here(a)] + 1
<1>2. /\ there[a] # "gone" /\ dealt' = [dealt EXCEPT ![Here(a)] = n]
  BY DEF Hit
<1>3. Here(a) \in Being /\ Here(a)[2] = a /\ Table(targets) /\ dealt \in [Being -> Nat]
  BY <1>2, BeingHere DEF IInv, RestInv
<1>4. u \in RawData
  BY <1>3, EnteredData
<1> HIDE DEF u
<1>5. t \in RawData /\ t.aptr = Here(a) /\ t.tdmg = u.tdmg + 1
  BY <1>3, <1>4, StruckRight
<1> HIDE DEF t
<1>6. x \in TargetData /\ x.aptr = Here(a) /\ x.tdmg = u.tdmg + 1
  BY <1>3, <1>5, ReadRight
<1> HIDE DEF x
<1>7. Right(x, a)
  BY <1>3, <1>6 DEF Right
<1>8. /\ Table(targets')
      /\ \A s \in Used(targets') : \/ Data(targets', s) = x
                                   \/ s \in Used(targets) /\ Data(targets', s) = Data(targets, s)
  BY <1>1, <1>3, <1>6, <1>7, EnteredRight DEF x
<1>9. /\ dealt' \in [Being -> Nat] /\ dealt'[Here(a)] = n /\ n \in Nat
      /\ \A b \in Being : dealt[b] <= dealt'[b]
  BY <1>2, <1>3
<1>10. ASSUME UsedOnce, Charged(targets, dealt)
       PROVE  Charged(targets', dealt')
  <2>1. u.tdmg \in Nat /\ u.tdmg <= dealt[Here(a)]
    BY <1>3, <1>10, EnteredCharge DEF u
  <2>2. x.tdmg <= dealt'[x.aptr]
    BY <1>3, <1>6, <1>9, <2>1
  <2> QED
    BY <1>3, <1>8, <1>9, <1>10, <2>2, ChargedStep
<1> QED
  BY <1>8, <1>9, <1>10 DEF TableStep

LEMMA ResistTable ==
  ASSUME IInv, NEW a \in Key, Resist(a)
  PROVE  TableStep
<1> DEFINE d == InsertAndEvict(targets, a, Blank)
           u == Data(d, Find(d, a))
           t == Resisted(u, Here(a))
           x == Read(a, t, there[a])
<1>1. targets' = [d EXCEPT !.store[Find(d, a)].data = x]
  BY DEF Resist, Entered, Resisted
<1>2. /\ there[a] # "gone" /\ dealt' = dealt
  BY DEF Resist
<1>3. Here(a) \in Being /\ Here(a)[2] = a /\ Table(targets) /\ dealt \in [Being -> Nat]
  BY <1>2, BeingHere DEF IInv, RestInv
<1>4. u \in RawData
  BY <1>3, EnteredData
<1> HIDE DEF u
<1>5. t \in RawData /\ t.aptr = Here(a) /\ t.tdmg = u.tdmg
  BY <1>3, <1>4, ResistedRight
<1> HIDE DEF t
<1>6. x \in TargetData /\ x.aptr = Here(a) /\ x.tdmg = u.tdmg
  BY <1>3, <1>5, ReadRight
<1> HIDE DEF x
<1>7. Right(x, a)
  BY <1>3, <1>6 DEF Right
<1>8. /\ Table(targets')
      /\ \A s \in Used(targets') : \/ Data(targets', s) = x
                                   \/ s \in Used(targets) /\ Data(targets', s) = Data(targets, s)
  BY <1>1, <1>3, <1>6, <1>7, EnteredRight
<1>9. ASSUME UsedOnce, Charged(targets, dealt)
      PROVE  Charged(targets', dealt')
  <2>1. u.tdmg \in Nat /\ u.tdmg <= dealt[Here(a)]
    BY <1>3, <1>9, EnteredCharge DEF u
  <2>2. x.tdmg <= dealt[x.aptr]
    BY <1>6, <2>1
  <2>3. \A b \in Being : dealt[b] <= dealt[b]
    BY <1>3
  <2>4. Charged(targets', dealt)
    BY <1>3, <1>8, <1>9, <2>2, <2>3, ChargedStep
  <2> QED
    BY <1>2, <2>4
<1> QED
  BY <1>8, <1>9 DEF TableStep

\* An entry is rewritten, its being and its damage are not.
LEMMA RewrittenStep ==
  ASSUME Table(targets), dealt \in [Being -> Nat], dealt' = dealt,
         NEW s \in Used(targets), NEW x \in TargetData, Right(x, targets.store[s].key),
         x.aptr = Data(targets, s).aptr, x.tdmg = Data(targets, s).tdmg,
         targets' = [targets EXCEPT !.store[s].data = x]
  PROVE  TableStep
<1>1. /\ Table(targets')
      /\ \A t \in Used(targets') :
           \/ t = s /\ Data(targets', t) = x
           \/ t \in Used(targets) /\ Data(targets', t) = Data(targets, t)
  BY RewrittenRight
<1>2. ASSUME Charged(targets, dealt)
      PROVE  Charged(targets', dealt')
  <2>1. x.tdmg <= dealt[x.aptr]
    BY <1>2 DEF Charged
  <2>2. \A b \in Being : dealt[b] <= dealt[b]
    OBVIOUS
  <2>3. Charged(targets', dealt)
    BY <1>1, <1>2, <2>1, <2>2, ChargedStep
  <2> QED
    BY <2>3
<1> QED
  BY <1>1, <1>2 DEF TableStep

LEMMA EntryRight ==
  ASSUME NEW c, Table(c), NEW s \in Used(c)
  PROVE  /\ Right(Data(c, s), c.store[s].key) /\ c.store[s].key \in Key
         /\ Data(c, s) \in TargetData /\ Data(c, s).aptr \in Being
         /\ Data(c, s).tdmg \in Nat /\ Data(c, s).invuln \in BOOLEAN
<1>1. Right(Data(c, s), c.store[s].key) /\ Live(c, TargetData)
  BY DEF Table
<1>2. Data(c, s) \in TargetData
  BY <1>1 DEF Right
<1>3. c.store[s].key \in Key
  BY <1>1 DEF Live, Sound
<1> QED
  BY <1>1, <1>2, <1>3 DEF TargetData

\* An entry is told to be invulnerable.
LEMMA ToldTable ==
  ASSUME IInv, NEW a \in Key, ToldInvulnerable(a)
  PROVE  TableStep
<1> DEFINE s == Find(targets, a)
           t == Data(targets, s)
           x == [t EXCEPT !.invuln = TRUE]
<1>1. s # NoSlot /\ dealt' = dealt /\ targets' = [targets EXCEPT !.store[s].data = x]
  BY DEF ToldInvulnerable, Data
<1>2. Table(targets) /\ dealt \in [Being -> Nat]
  BY DEF IInv, RestInv
<1>3. s \in Used(targets)
  BY <1>1, <1>2, FindProperties DEF Table
<1> HIDE DEF s
<1>4. t \in TargetData /\ t.aptr[2] = targets.store[s].key
  BY <1>2, <1>3, EntryRight DEF Right
<1> HIDE DEF t
<1>5. x \in TargetData /\ x.aptr = t.aptr /\ x.tdmg = t.tdmg
  BY <1>4 DEF TargetData
<1> HIDE DEF x
<1>6. Right(x, targets.store[s].key)
  BY <1>4, <1>5 DEF Right
<1> QED
  BY <1>1, <1>2, <1>3, <1>5, <1>6, RewrittenStep DEF t

\* An entry is seen.
LEMMA SeenTable ==
  ASSUME IInv, NEW s \in Used(targets), dealt' = dealt,
         targets' = [targets EXCEPT !.store[s].data = [@ EXCEPT !.seen = 0]]
  PROVE  TableStep
<1> DEFINE t == Data(targets, s)
           x == [t EXCEPT !.seen = 0]
<1>1. targets' = [targets EXCEPT !.store[s].data = x]
  BY DEF Data
<1>2. Table(targets) /\ dealt \in [Being -> Nat] /\ 0 \in 0 .. MAX_TARGET_AGE + 1
  BY Bounds DEF IInv, RestInv
<1>3. t \in TargetData /\ t.aptr[2] = targets.store[s].key
  BY <1>2, EntryRight DEF Right
<1> HIDE DEF t
<1>4. x \in TargetData /\ x.aptr = t.aptr /\ x.tdmg = t.tdmg
  BY <1>2, <1>3 DEF TargetData
<1> HIDE DEF x
<1>5. Right(x, targets.store[s].key)
  BY <1>3, <1>4 DEF Right
<1> QED
  BY <1>1, <1>2, <1>4, <1>5, RewrittenStep DEF t

\* The iteration comes to an entry.
LEMMA CalculateTable ==
  ASSUME IInv, Calculate
  PROVE  TableStep
<1> DEFINE t == Data(targets, cursor)
           a == targets.store[cursor].key
           x == Read(a, t, there[a])
<1>1. /\ dealt' = dealt /\ targets' = Validated(targets, cursor)
      /\ Table(targets) /\ dealt \in [Being -> Nat]
  BY DEF Calculate, IInv, RestInv
<1>2. CASE targets' = targets
  BY <1>1, <1>2 DEF TableStep
<1>3. CASE targets' = RemoveKey(targets, a)
  <2>1. /\ Table(targets')
        /\ \A s \in Used(targets') : s \in Used(targets) /\ Data(targets', s) = Data(targets, s)
    BY <1>1, <1>3, RemovedRight
  <2> QED
    BY <1>1, <2>1 DEF TableStep, Charged
<1>4. CASE /\ cursor \in Used(targets)
           /\ targets' = [targets EXCEPT !.store[cursor].data = x]
  <2>1. t \in TargetData /\ t.aptr[2] = a
    BY <1>1, <1>4, EntryRight DEF Right
  <2>2. t \in RawData /\ t.aptr \in Being
    BY <2>1, BlankRaw DEF TargetData
  <2> HIDE DEF t
  <2>3. x \in TargetData /\ x.aptr = t.aptr /\ x.tdmg = t.tdmg
    BY <2>1, <2>2, ReadRight
  <2> HIDE DEF x
  <2>4. Right(x, targets.store[cursor].key)
    BY <2>1, <2>3 DEF Right
  <2> QED
    BY <1>1, <1>4, <2>3, <2>4, RewrittenStep DEF t
<1> QED
  BY <1>1, <1>2, <1>3, <1>4 DEF Validated

\* A frame begins.
LEMMA BeginTable ==
  ASSUME IInv, BeginFrame
  PROVE  TableStep
<1> DEFINE c == AllAged(targets)
<1>1. /\ dealt' = dealt /\ targets' = Selected(c)
      /\ Table(targets) /\ dealt \in [Being -> Nat]
  BY DEF BeginFrame, IInv, RestInv
<1>2. /\ Table(c) /\ Used(c) = Used(targets)
      /\ \A s \in Used(c) : Data(c, s) = Aged(Data(targets, s))
  BY <1>1, AllAgedRight
<1> HIDE DEF c
<1>3. ASSUME Charged(targets, dealt)
      PROVE  Charged(c, dealt)
  <2> SUFFICES ASSUME NEW s \in Used(c)
               PROVE  Data(c, s).tdmg <= dealt[Data(c, s).aptr]
    BY DEF Charged
  <2> DEFINE t == Data(targets, s)
             x == Aged(t)
  <2>1. t \in TargetData /\ t.tdmg <= dealt[t.aptr] /\ Data(c, s) = x
    BY <1>1, <1>2, <1>3, EntryRight DEF Charged
  <2> HIDE DEF t
  <2>2. x.aptr = t.aptr /\ x.tdmg = t.tdmg
    BY <2>1, AgedRight
  <2> HIDE DEF x
  <2> QED
    BY <2>1, <2>2
<1>4. CASE selected = NoKey \/ friendly
  BY <1>1, <1>2, <1>3, <1>4 DEF Selected, TableStep
<1>5. CASE ~(selected = NoKey \/ friendly)
  <2> DEFINE d == InsertAndEvict(c, selected, Blank)
             u == Data(d, Find(d, selected))
             dead == there[selected] = "dead"
             x == Chosen(u, Here(selected), dead)
  <2>1. targets' = [d EXCEPT !.store[Find(d, selected)].data = x]
    BY <1>1, <1>5 DEF Selected, Data, Chosen
  <2>2. selected \in Key /\ there[selected] # "gone" /\ WorldInv
    BY <1>5 DEF IInv, WorldInv
  <2>3. Here(selected) \in Being /\ Here(selected)[2] = selected /\ dead \in BOOLEAN
    BY <2>2, BeingHere
  <2> HIDE DEF dead
  <2>4. u \in RawData
    BY <1>2, <2>2, EnteredData
  <2> HIDE DEF u
  <2>5. x \in TargetData /\ x.aptr = Here(selected) /\ x.tdmg = u.tdmg
    BY <2>3, <2>4, ChosenRight
  <2> HIDE DEF x
  <2>6. Right(x, selected)
    BY <2>3, <2>5 DEF Right
  <2>7. /\ Table(targets')
        /\ \A s \in Used(targets') : \/ Data(targets', s) = x
                                     \/ s \in Used(c) /\ Data(targets', s) = Data(c, s)
    BY <1>2, <2>1, <2>2, <2>5, <2>6, EnteredRight
  <2>8. ASSUME UsedOnce, Charged(targets, dealt)
        PROVE  Charged(targets', dealt')
    <3>1. u.tdmg \in Nat /\ u.tdmg <= dealt[Here(selected)]
      BY <1>1, <1>2, <1>3, <2>2, <2>3, <2>8, EnteredCharge DEF u
    <3>2. x.tdmg <= dealt[x.aptr]
      BY <2>5, <3>1
    <3>3. \A b \in Being : dealt[b] <= dealt[b]
      BY <1>1
    <3>4. Charged(targets', dealt)
      BY <1>1, <1>2, <1>3, <2>7, <2>8, <3>2, <3>3, ChargedStep
    <3> QED
      BY <1>1, <3>4
  <2> QED
    BY <2>7, <2>8 DEF TableStep
<1> QED
  BY <1>4, <1>5

LEMMA SameTable ==
  ASSUME IInv, UNCHANGED <<targets, dealt>>
  PROVE  TableStep
BY DEF IInv, TableStep

LEMMA ResetTable ==
  ASSUME IInv, Reset
  PROVE  TableStep
<1>1. targets' = Clear(targets) /\ Live(targets, TargetData)
  BY DEF Reset, IInv, Table
<1>2. Live(targets', TargetData) /\ Used(targets') = {}
  BY <1>1, ClearLive
<1> QED
  BY <1>2 DEF TableStep, Table, Charged

\* The table takes every step.
LEMMA TableNext ==
  ASSUME IInv, [Next]_vars
  PROVE  TableStep
<1>1. ASSUME NEW a \in Key, Hit(a) \/ Resist(a) \/ ToldInvulnerable(a)
      PROVE  TableStep
  BY <1>1, HitTable, ResistTable, ToldTable
<1>2. CASE BeginFrame
  BY <1>2, BeginTable
<1>3. CASE Calculate
  BY <1>3, CalculateTable
<1>4. Live(targets, TargetData)
  BY DEF IInv, Table
<1>5. CASE PreferSelected
  <2>1. Selection \in Used(targets)
    BY <1>4, <1>5, FindProperties DEF PreferSelected, IsPreferred, Selection
  <2> QED
    BY <1>5, <2>1, SeenTable DEF PreferSelected, PreferDone
<1>6. CASE KeepPreferred
  <2> DEFINE s == Find(targets, dps.id)
  <2>1. CASE s = NoSlot
    BY <1>6, <2>1, SameTable DEF KeepPreferred, PreferDone
  <2>2. CASE s # NoSlot
    <3>1. s \in Used(targets)
      BY <1>4, <2>2, FindProperties
    <3>2. targets' = [targets EXCEPT !.store[s].data = [@ EXCEPT !.seen = 0]] /\ dealt' = dealt
      BY <1>6, <2>2 DEF KeepPreferred, PreferDone
    <3> HIDE DEF s
    <3> QED
      BY <3>1, <3>2, SeenTable
  <2> QED
    BY <2>1, <2>2
<1>7. CASE Reset
  BY <1>7, ResetTable
<1>8. CASE AllCalculated \/ HidePreferred \/ NothingPreferred \/ Report
  BY <1>8, SameTable DEF AllCalculated, HidePreferred, NothingPreferred, PreferDone, Report, meter
<1>9. CASE ToggleLock \/ AllRaid \/ UNCHANGED vars
  BY <1>9, SameTable DEF ToggleLock, AllRaid, AutolockChanged, meter, vars
<1>10. CASE \/ \E a \in Npc, on \in BOOLEAN : SetAutolock(a, on)
            \/ \E list \in DOMAIN autolock : FreeAutolock(list)
  BY <1>10, SameTable DEF SetAutolock, FreeAutolock, AutolockChanged, meter
<1>11. CASE \/ \E a \in Key, health \in Health : Becomes(a, health)
            \/ \E a \in Key \cup {NoKey}, f \in BOOLEAN : Select(a, f)
            \/ \E m \in Shard : ChangeMap(m)
  BY <1>11, SameTable DEF Becomes, Select, ChangeMap, meter
<1> QED
  BY <1>1, <1>2, <1>3, <1>5, <1>6, <1>7, <1>8, <1>9, <1>10, <1>11 DEF Next, Frame

\* No damage is taken back.
LEMMA DealtNext ==
  ASSUME IInv, [Next]_vars
  PROVE  dealt' \in [Being -> Nat] /\ \A b \in Being : dealt[b] <= dealt'[b]
<1>0. dealt \in [Being -> Nat]
  BY DEF IInv, RestInv
<1>1. ASSUME UNCHANGED dealt
      PROVE  dealt' \in [Being -> Nat] /\ \A b \in Being : dealt[b] <= dealt'[b]
  BY <1>0, <1>1
<1>2. CASE \E a \in Key : Hit(a)
  BY <1>2, HitTable
<1>3. CASE \E a \in Key : Resist(a) \/ ToldInvulnerable(a)
  BY <1>1, <1>3 DEF Resist, ToldInvulnerable
<1>4. CASE Frame
  BY <1>1, <1>4 DEF Frame, BeginFrame, Calculate, AllCalculated, PreferSelected, KeepPreferred,
     HidePreferred, NothingPreferred, PreferDone, Report
<1>5. CASE Reset \/ ToggleLock \/ AllRaid \/ UNCHANGED vars
  BY <1>1, <1>5 DEF Reset, ToggleLock, AllRaid, AutolockChanged, vars
<1>6. CASE \/ \E a \in Npc, on \in BOOLEAN : SetAutolock(a, on)
           \/ \E list \in DOMAIN autolock : FreeAutolock(list)
  BY <1>1, <1>6 DEF SetAutolock, FreeAutolock, AutolockChanged
<1>7. CASE \/ \E a \in Key, health \in Health : Becomes(a, health)
           \/ \E a \in Key \cup {NoKey}, f \in BOOLEAN : Select(a, f)
           \/ \E m \in Shard : ChangeMap(m)
  BY <1>1, <1>7 DEF Becomes, Select, ChangeMap
<1> QED
  BY <1>2, <1>3, <1>4, <1>5, <1>6, <1>7 DEF Next

\* What there is in the world is on this map.
LEMMA WorldNext ==
  ASSUME WorldInv, [Next]_vars
  PROVE  WorldInv'
<1>1. ASSUME UNCHANGED game
      PROVE  WorldInv'
  BY <1>1 DEF WorldInv, game
<1>2. ASSUME NEW a \in Key, Hit(a)
      PROVE  WorldInv'
  <2>1. PICK health \in {"hurt", "dead"} : there' = [there EXCEPT ![a] = health]
    BY <1>2 DEF Hit
  <2>2. there[a] # "gone" /\ UNCHANGED <<shard, selected, friendly>>
    BY <1>2 DEF Hit
  <2> QED
    BY <2>1, <2>2, CacheAssumption DEF WorldInv, Health
<1>3. CASE \E a \in Key : Resist(a) \/ ToldInvulnerable(a)
  BY <1>1, <1>3 DEF Resist, ToldInvulnerable
<1>4. CASE Frame
  BY <1>1, <1>4 DEF Frame, BeginFrame, Calculate, AllCalculated, PreferSelected, KeepPreferred,
     HidePreferred, NothingPreferred, PreferDone, Report
<1>5. CASE Reset \/ ToggleLock \/ AllRaid \/ UNCHANGED vars
  BY <1>1, <1>5 DEF Reset, ToggleLock, AllRaid, AutolockChanged, vars
<1>6. CASE \/ \E a \in Npc, on \in BOOLEAN : SetAutolock(a, on)
           \/ \E list \in DOMAIN autolock : FreeAutolock(list)
  BY <1>1, <1>6 DEF SetAutolock, FreeAutolock, AutolockChanged
<1>7. ASSUME NEW a \in Key, NEW health \in Health, Becomes(a, health)
      PROVE  WorldInv'
  BY <1>7, CacheAssumption DEF Becomes, WorldInv
<1>8. ASSUME NEW a \in Key \cup {NoKey}, NEW f \in BOOLEAN, Select(a, f)
      PROVE  WorldInv'
  BY <1>8 DEF Select, WorldInv
<1>9. ASSUME NEW m \in Shard, ChangeMap(m)
      PROVE  WorldInv'
  BY <1>9 DEF ChangeMap, WorldInv, Health
<1> QED
  BY <1>2, <1>3, <1>4, <1>5, <1>6, <1>7, <1>8, <1>9 DEF Next

-----------------------------------------------------------------------------
(***************************************************************************)
(* What is shown and reported.                                             *)
(***************************************************************************)

\* x is a copy of an entry of the table.
FromEntry(x) ==
  \E s \in Used(targets) :
    /\ x.id = targets.store[s].key /\ x.aptr = Data(targets, s).aptr
    /\ x.tdmg = Data(targets, s).tdmg

SameTarget(x, y) == x.id = y.id /\ x.aptr = y.aptr /\ x.tdmg = y.tdmg

\* The target that is shown goes, stays, or is copied from its entry.
DpsKept == dps' = NoTarget \/ (dps' \in Shown /\ dps.id # NoKey /\ SameTarget(dps', dps))

DpsStep == DpsKept \/ (dps' \in Shown /\ FromEntry(dps'))

LEMMA DpsParts ==
  ASSUME MeterInv
  PROVE  /\ dps.id # NoKey <=> dps # NoTarget
         /\ dps.id # NoKey => dps \in Shown /\ dps.aptr[2] = dps.id /\ dps.id \in Key
         /\ NoTarget.id = NoKey
<1>1. NoTarget.id = NoKey
  BY DEF NoTarget
<1>2. dps \in Shown => dps.id \in Key /\ dps.id # NoKey
  BY CacheAssumption DEF Shown
<1> QED
  BY <1>1, <1>2 DEF MeterInv

LEMMA Kept ==
  ASSUME MeterInv, UNCHANGED dps
  PROVE  DpsKept
BY DpsParts DEF DpsKept, SameTarget

LEMMA BeginDps ==
  ASSUME IInv, BeginFrame
  PROVE  DpsKept
<1> DEFINE i == Older(dps.time_sel, Retention)
<1>1. dps' = [dps EXCEPT !.time_sel = i] /\ MeterInv
  BY DEF BeginFrame, IInv
<1>2. CASE dps.id # NoKey
  <2>1. dps \in Shown
    BY <1>1, <1>2, DpsParts
  <2>2. dps.time_sel \in 0 .. Retention
    BY <2>1 DEF Shown
  <2>3. i \in 0 .. Retention
    BY <2>2, OlderType, Bounds
  <2> HIDE DEF i
  <2>4. dps' \in Shown
    BY <1>1, <2>1, <2>3 DEF Shown
  <2>5. SameTarget(dps', dps)
    BY <1>1, <2>1 DEF SameTarget, Shown
  <2> QED
    BY <1>2, <2>4, <2>5 DEF DpsKept
<1>3. CASE dps.id = NoKey
  <2> DEFINE z == NoTarget
             None == [locked : BOOLEAN, time_sel : Nat, id : {NoKey}, aptr : {NoBeing}, tdmg : Nat,
                      invuln : BOOLEAN]
  <2>1. dps = z
    BY <1>1, <1>3, DpsParts
  <2>2. z \in None /\ z.time_sel = Retention
    BY Bounds DEF NoTarget
  <2>3. i = Retention
    BY <2>1, <2>2, Bounds DEF Older
  <2> HIDE DEF z, i
  <2>4. [z EXCEPT !.time_sel = i] = z
    BY <2>2, <2>3
  <2> QED
    BY <1>1, <2>1, <2>4 DEF DpsKept, z
<1> QED
  BY <1>2, <1>3

LEMMA SelectedDps ==
  ASSUME IInv, PreferSelected
  PROVE  DpsStep
<1> DEFINE s == Selection
           t == Data(targets, s)
           k == LocksItself \/ (dps.locked /\ t.aptr = dps.aptr)
           n == IF t.aptr # dps.aptr THEN Retention ELSE 0
<1>1. /\ dps' = [locked |-> k, time_sel |-> n, id |-> current, aptr |-> t.aptr, tdmg |-> t.tdmg,
                 invuln |-> t.invuln]
      /\ s # NoSlot /\ s = Find(targets, current) /\ Table(targets)
  BY DEF PreferSelected, IsPreferred, Selection, IInv
<1>2. s \in Used(targets) /\ targets.store[s].key = current
  BY <1>1, FindProperties DEF Table
<1> HIDE DEF s
<1>3. current \in Key /\ t.aptr \in Being /\ t.tdmg \in Nat /\ t.invuln \in BOOLEAN
  BY <1>1, <1>2, EntryRight
<1>4. n \in 0 .. Retention /\ (dps.locked \in BOOLEAN => k \in BOOLEAN)
  BY Bounds
<1>5. dps.locked \in BOOLEAN
  <2>1. CASE dps \in Shown
    BY <2>1 DEF Shown
  <2>2. CASE dps = NoTarget
    BY <2>2 DEF NoTarget
  <2> QED
    BY <2>1, <2>2 DEF IInv, MeterInv
<1> HIDE DEF t, k, n
<1>6. dps' \in Shown /\ dps'.id = current /\ dps'.aptr = t.aptr /\ dps'.tdmg = t.tdmg
  BY <1>1, <1>3, <1>4, <1>5 DEF Shown
<1> QED
  BY <1>2, <1>6 DEF DpsStep, FromEntry, t

LEMMA KeptDps ==
  ASSUME IInv, KeepPreferred
  PROVE  DpsStep
<1> DEFINE s == Find(targets, dps.id)
           t == Data(targets, s)
<1>1. MeterInv /\ dps.id # NoKey /\ Table(targets)
  BY DEF KeepPreferred, IInv
<1>2. CASE s = NoSlot
  BY <1>1, <1>2, Kept DEF KeepPreferred, DpsStep
<1>3. CASE s # NoSlot
  <2>1. dps' = [dps EXCEPT !.aptr = t.aptr, !.tdmg = t.tdmg, !.invuln = t.invuln]
    BY <1>3 DEF KeepPreferred
  <2>2. s \in Used(targets) /\ targets.store[s].key = dps.id
    BY <1>1, <1>3, FindProperties DEF Table
  <2> HIDE DEF s
  <2>3. t.aptr \in Being /\ t.tdmg \in Nat /\ t.invuln \in BOOLEAN /\ dps \in Shown
    BY <1>1, <2>2, EntryRight, DpsParts
  <2> HIDE DEF t
  <2>4. dps' \in Shown /\ dps'.id = dps.id /\ dps'.aptr = t.aptr /\ dps'.tdmg = t.tdmg
    BY <2>1, <2>3 DEF Shown
  <2> QED
    BY <2>2, <2>4 DEF DpsStep, FromEntry, t
<1> QED
  BY <1>2, <1>3

LEMMA LockedDps ==
  ASSUME IInv, ToggleLock
  PROVE  DpsKept
<1> DEFINE k == ~dps.locked
<1>1. dps' = [dps EXCEPT !.locked = k] /\ dps.id # NoKey /\ dps \in Shown
  BY DpsParts DEF ToggleLock, IInv
<1>2. k \in BOOLEAN
  OBVIOUS
<1> HIDE DEF k
<1>3. dps' \in Shown /\ SameTarget(dps', dps)
  BY <1>1, <1>2 DEF Shown, SameTarget
<1> QED
  BY <1>1, <1>3 DEF DpsKept

LEMMA DpsNext ==
  ASSUME IInv, [Next]_vars
  PROVE  DpsStep
<1>0. MeterInv
  BY DEF IInv
<1>1. CASE BeginFrame
  BY <1>1, BeginDps DEF DpsStep
<1>2. CASE PreferSelected \/ KeepPreferred
  BY <1>2, SelectedDps, KeptDps
<1>3. CASE HidePreferred \/ Reset
  BY <1>3 DEF HidePreferred, Reset, DpsStep, DpsKept
<1>4. CASE ToggleLock
  BY <1>4, LockedDps DEF DpsStep
<1>5. CASE Calculate \/ AllCalculated \/ NothingPreferred \/ Report
  BY <1>0, <1>5, Kept DEF DpsStep, Calculate, AllCalculated, NothingPreferred, Report, meter
<1>6. CASE \E a \in Key : Hit(a) \/ Resist(a) \/ ToldInvulnerable(a)
  BY <1>0, <1>6, Kept DEF DpsStep, Hit, Resist, ToldInvulnerable
<1>7. CASE AllRaid \/ UNCHANGED vars
  BY <1>0, <1>7, Kept DEF DpsStep, AllRaid, AutolockChanged, meter, vars
<1>8. CASE \/ \E a \in Npc, on \in BOOLEAN : SetAutolock(a, on)
           \/ \E list \in DOMAIN autolock : FreeAutolock(list)
  BY <1>0, <1>8, Kept DEF DpsStep, SetAutolock, FreeAutolock, AutolockChanged, meter
<1>9. CASE \/ \E a \in Key, health \in Health : Becomes(a, health)
           \/ \E a \in Key \cup {NoKey}, f \in BOOLEAN : Select(a, f)
           \/ \E m \in Shard : ChangeMap(m)
  BY <1>0, <1>9, Kept DEF DpsStep, Becomes, Select, ChangeMap, meter
<1> QED
  BY <1>1, <1>2, <1>3, <1>4, <1>5, <1>6, <1>7, <1>8, <1>9 DEF Next, Frame

\* Every element of the report goes, stays, or is copied from an entry or from what
\* is shown.
SentStep(x, i) ==
  \/ x = Unsent \/ x = sent[i]
  \/ x \in SentPlayer /\ FromEntry(x)
  \/ x \in SentPlayer /\ dps.id # NoKey /\ SameTarget(x, dps)

LEMMA RecentStep ==
  ASSUME IInv, NEW n \in 0 .. MSG_TARGETS, NEW q \in [1 .. n -> Used(targets)],
         NEW i \in 1 .. MSG_TARGETS
  PROVE  SentStep(Recent(q)[i], i)
<1>1. q \in Seq(Used(targets)) /\ Len(q) = n
  <2>1. n \in Nat
    BY Bounds
  <2> QED
    BY <2>1, FunctionIsSequence
<1> DEFINE x == IF i > Len(q) THEN sent[i]
                ELSE ReportOf(targets.store[q[i]].key, Data(targets, q[i]))
<1>2. Recent(q)[i] = x
  BY DEF Recent
<1>3. CASE i > n
  BY <1>1, <1>2, <1>3 DEF SentStep
<1>4. CASE ~(i > n)
  <2> DEFINE s == q[i]
             k == targets.store[s].key
             t == Data(targets, s)
  <2>1. i \in 1 .. n
    BY <1>4, Bounds
  <2>2. s \in Used(targets) /\ x = ReportOf(k, t)
    BY <1>1, <1>4, <2>1
  <2> HIDE DEF s, x
  <2>3. k \in Key /\ t.aptr \in Being /\ t.tdmg \in Nat /\ t.invuln \in BOOLEAN
    BY <2>2, EntryRight DEF IInv
  <2>4. x.id = k /\ x.aptr = t.aptr /\ x.tdmg = t.tdmg
    BY <2>2 DEF ReportOf
  <2>5. x \in SentPlayer
    BY <2>2, <2>3 DEF SentPlayer, ReportOf
  <2> QED
    BY <1>2, <2>2, <2>4, <2>5 DEF SentStep, FromEntry
<1> QED
  BY <1>3, <1>4

LEMMA ReportedStep ==
  ASSUME IInv, NEW n \in 0 .. MSG_TARGETS, NEW q \in [1 .. n -> Used(targets)]
  PROVE  /\ Reported(q) \in [1 .. MSG_TARGETS -> UNION {{Reported(q)[i]} : i \in 1 .. MSG_TARGETS}]
         /\ \A i \in 1 .. MSG_TARGETS : SentStep(Reported(q)[i], i)
<1> DEFINE r == Recent(q)
           m == Max({Len(q), 1})
           x == ReportOf(dps.id, dps)
<1>1. /\ \A i \in 1 .. MSG_TARGETS : SentStep(r[i], i)
      /\ DOMAIN r = 1 .. MSG_TARGETS /\ r = [i \in DOMAIN r |-> r[i]]
  BY RecentStep DEF Recent
<1>2. Reported(q) = r \/ (dps.id # NoKey /\ Reported(q) = [r EXCEPT ![m] = x])
  BY DEF Reported
<1>3. ASSUME dps.id # NoKey, NEW i
      PROVE  SentStep(x, i)
  <2>1. dps \in Shown
    BY <1>3, DpsParts DEF IInv
  <2> QED
    BY <1>3, <2>1 DEF SentStep, SentPlayer, SameTarget, Shown, ReportOf
<1> HIDE DEF r, m, x
<1>4. /\ DOMAIN Reported(q) = 1 .. MSG_TARGETS
      /\ Reported(q) = [i \in 1 .. MSG_TARGETS |-> Reported(q)[i]]
      /\ \A i \in 1 .. MSG_TARGETS : Reported(q)[i] = r[i] \/ (dps.id # NoKey /\ Reported(q)[i] = x)
  BY <1>1, <1>2
<1>5. Reported(q) \in [1 .. MSG_TARGETS -> UNION {{Reported(q)[i]} : i \in 1 .. MSG_TARGETS}]
  BY <1>4
<1>6. \A i \in 1 .. MSG_TARGETS : SentStep(Reported(q)[i], i)
  BY <1>1, <1>3, <1>4
<1> QED
  BY <1>5, <1>6

AllSentStep ==
  /\ sent' = [i \in 1 .. MSG_TARGETS |-> sent'[i]]
  /\ \A i \in 1 .. MSG_TARGETS : SentStep(sent'[i], i)

LEMMA SentNext ==
  ASSUME IInv, [Next]_vars
  PROVE  AllSentStep
<1>0. sent = [i \in 1 .. MSG_TARGETS |-> sent[i]]
  BY DEF IInv, MeterInv
<1>1. UNCHANGED sent => AllSentStep
  BY <1>0 DEF SentStep, AllSentStep
<1>2. CASE Report
  <2> DEFINE n == Min({MSG_TARGETS, Len(targets.cache)})
  <2>1. PICK q \in [1 .. n -> Used(targets)] : sent' = Reported(q)
    BY <1>2 DEF Report
  <2>2. n \in 0 .. MSG_TARGETS
    <3>1. Len(targets.cache) \in Nat
      BY LiveParts DEF IInv, Table
    <3> QED
      BY <3>1, MinOf, Bounds
  <2> HIDE DEF n
  <2>3. \A i \in 1 .. MSG_TARGETS : SentStep(Reported(q)[i], i)
    BY <2>2, ReportedStep
  <2>4. Reported(q) \in [1 .. MSG_TARGETS -> UNION {{Reported(q)[i]} : i \in 1 .. MSG_TARGETS}]
    BY <2>2, ReportedStep
  <2>5. sent' = [i \in 1 .. MSG_TARGETS |-> sent'[i]]
    BY <2>1, <2>4
  <2> QED
    BY <2>1, <2>3, <2>5 DEF AllSentStep
<1>3. CASE Reset
  BY <1>3 DEF Reset, SentStep, AllSentStep
<1>4. CASE \/ BeginFrame \/ Calculate \/ AllCalculated \/ PreferSelected \/ KeepPreferred
           \/ HidePreferred \/ NothingPreferred
  BY <1>1, <1>4 DEF BeginFrame, Calculate, AllCalculated, PreferSelected, KeepPreferred,
     HidePreferred, NothingPreferred, PreferDone, meter
<1>5. CASE ToggleLock \/ AllRaid \/ UNCHANGED vars
  BY <1>1, <1>5 DEF ToggleLock, AllRaid, AutolockChanged, meter, vars
<1>6. CASE \E a \in Key : Hit(a) \/ Resist(a) \/ ToldInvulnerable(a)
  BY <1>1, <1>6 DEF Hit, Resist, ToldInvulnerable
<1>7. CASE \/ \E a \in Npc, on \in BOOLEAN : SetAutolock(a, on)
           \/ \E list \in DOMAIN autolock : FreeAutolock(list)
  BY <1>1, <1>7 DEF SetAutolock, FreeAutolock, AutolockChanged, meter
<1>8. CASE \/ \E a \in Key, health \in Health : Becomes(a, health)
           \/ \E a \in Key \cup {NoKey}, f \in BOOLEAN : Select(a, f)
           \/ \E m \in Shard : ChangeMap(m)
  BY <1>1, <1>8 DEF Becomes, Select, ChangeMap, meter
<1> QED
  BY <1>2, <1>3, <1>4, <1>5, <1>6, <1>7, <1>8 DEF Next, Frame

-----------------------------------------------------------------------------
LEMMA SelectionEntry ==
  ASSUME IInv, Selection # NoSlot
  PROVE  /\ Selection \in Used(targets) /\ current \in Key
         /\ targets.store[Selection].key = current /\ Data(targets, Selection).aptr \in Being
<1>1. current # NoKey /\ Selection = Find(targets, current) /\ Live(targets, TargetData)
  BY DEF Selection, IInv, Table
<1>2. Selection \in Used(targets) /\ targets.store[Selection].key = current
  BY <1>1, FindProperties
<1> QED
  BY <1>1, <1>2, EntryRight DEF IInv, MeterInv

LEMMA CheckedType ==
  ASSUME IInv
  PROVE  Checked \in Being \cup {NoBeing}
<1>1. MeterInv
  BY DEF IInv
<1> QED
  BY <1>1, SelectionEntry DEF Checked, NewlySelected, MeterInv

\* The other variables of the meter keep their types.
LEMMA CheckedNext ==
  ASSUME IInv, [Next]_vars
  PROVE  checked' \in Being \cup {NoBeing} /\ current' \in Key \cup {NoKey}
<1>0. /\ checked \in Being \cup {NoBeing} /\ current \in Key \cup {NoKey}
      /\ selected \in Key \cup {NoKey}
  BY DEF IInv, MeterInv, WorldInv
<1>1. CASE BeginFrame \/ Reset
  BY <1>0, <1>1 DEF BeginFrame, Reset
<1>2. CASE PreferSelected \/ KeepPreferred \/ HidePreferred \/ NothingPreferred
  BY <1>0, <1>2, CheckedType DEF PreferSelected, KeepPreferred, HidePreferred, NothingPreferred,
     PreferDone
<1>3. CASE Calculate \/ AllCalculated \/ Report
  BY <1>0, <1>3 DEF Calculate, AllCalculated, Report, meter
<1>4. CASE ToggleLock \/ AllRaid \/ UNCHANGED vars
  BY <1>0, <1>4 DEF ToggleLock, AllRaid, AutolockChanged, meter, frame, vars
<1>5. CASE \E a \in Key : Hit(a) \/ Resist(a) \/ ToldInvulnerable(a)
  BY <1>0, <1>5 DEF Hit, Resist, ToldInvulnerable, frame
<1>6. CASE \/ \E a \in Npc, on \in BOOLEAN : SetAutolock(a, on)
           \/ \E list \in DOMAIN autolock : FreeAutolock(list)
  BY <1>0, <1>6 DEF SetAutolock, FreeAutolock, AutolockChanged, meter, frame
<1>7. CASE \/ \E a \in Key, health \in Health : Becomes(a, health)
           \/ \E a \in Key \cup {NoKey}, f \in BOOLEAN : Select(a, f)
           \/ \E m \in Shard : ChangeMap(m)
  BY <1>0, <1>7 DEF Becomes, Select, ChangeMap, meter, frame
<1> QED
  BY <1>1, <1>2, <1>3, <1>4, <1>5, <1>6, <1>7 DEF Next, Frame

LEMMA MeterNext ==
  ASSUME IInv, [Next]_vars
  PROVE  MeterInv'
<1>1. dps' \in Shown \cup {NoTarget} /\ (dps'.id # NoKey => dps'.aptr[2] = dps'.id)
  <2>1. CASE dps' = NoTarget
    BY <2>1 DEF NoTarget
  <2>2. CASE dps' \in Shown /\ dps.id # NoKey /\ SameTarget(dps', dps)
    BY <2>2, DpsParts DEF SameTarget, IInv
  <2>3. CASE dps' \in Shown /\ FromEntry(dps')
    BY <2>3, EntryRight DEF FromEntry, Right, IInv
  <2> QED
    BY <2>1, <2>2, <2>3, DpsNext DEF DpsStep, DpsKept
<1>2. sent' \in [1 .. MSG_TARGETS -> SentPlayer \cup {Unsent}]
  BY SentNext DEF AllSentStep, SentStep, IInv, MeterInv
<1> QED
  BY <1>1, <1>2, CheckedNext DEF MeterInv

LEMMA NextType ==
  ASSUME NEW c, Table(c), NEW s
  PROVE  NextEntry(c, s) \in Slot \cup {NoSlot}
<1> DEFINE q == c.cache
           at == CHOOSE i \in DOMAIN q : q[i] = s
<1>1. q \in Seq(Slot) /\ Partition(q, c.tracker)
  BY LiveParts DEF Table
<1>2. CASE \E i \in DOMAIN q : q[i] = s /\ i < Len(q)
  <2>1. PICK i \in DOMAIN q : q[i] = s /\ i < Len(q)
    BY <1>2
  <2>2. at \in DOMAIN q /\ q[at] = s
    BY <2>1
  <2>3. NextEntry(c, s) = q[1 + at]
    BY <1>2 DEF NextEntry
  <2> HIDE DEF at, q
  <2>4. at = i
    BY <1>1, <2>1, <2>2 DEF Partition
  <2>5. 1 + at \in DOMAIN q
    BY <1>1, <2>1, <2>4, SequenceShape
  <2> QED
    BY <1>1, <2>3, <2>5, SequenceShape
<1>3. CASE ~\E i \in DOMAIN q : q[i] = s /\ i < Len(q)
  BY <1>3 DEF NextEntry
<1> QED
  BY <1>2, <1>3

LEMMA CursorNext ==
  ASSUME IInv, BeginFrame \/ Calculate
  PROVE  cursor' \in Slot \cup {NoSlot} /\ following' \in Slot \cup {NoSlot}
<1>1. Table(targets')
  BY BeginTable, CalculateTable DEF TableStep
<1>2. \A s : NextEntry(targets', s) \in Slot \cup {NoSlot}
  BY <1>1, NextType
<1>3. CASE BeginFrame
  <2> DEFINE q == targets'.cache
  <2>1. q \in Seq(Slot)
    BY <1>1, LiveParts DEF Table
  <2>2. cursor' = IF q = <<>> THEN NoSlot ELSE Head(q)
    BY <1>3 DEF BeginFrame, FirstEntry
  <2> HIDE DEF q
  <2>3. q # <<>> => Head(q) \in Slot
    BY <2>1
  <2>4. following' = NextEntry(targets', cursor')
    BY <1>3 DEF BeginFrame
  <2> QED
    BY <1>2, <2>2, <2>3, <2>4
<1>4. CASE Calculate
  BY <1>2, <1>4 DEF Calculate, IInv, RestInv
<1> QED
  BY <1>3, <1>4

\* The lists, the game's thread and the bound keep their types.
LEMMA RestNext ==
  ASSUME IInv, [Next]_vars
  PROVE  RestInv'
<1>0. /\ autolock \in [{"raid", "custom"} -> SUBSET Npc]
      /\ cursor \in Slot \cup {NoSlot} /\ following \in Slot \cup {NoSlot}
      /\ pc \in {"idle", "calc", "prefer", "report"} /\ changes \in 0 .. MaxChanges
  BY DEF IInv, RestInv
<1>1. dealt' \in [Being -> Nat]
  BY DealtNext
<1> DEFINE Kinds == /\ autolock' \in [{"raid", "custom"} -> SUBSET Npc]
                    /\ cursor' \in Slot \cup {NoSlot}
                    /\ following' \in Slot \cup {NoSlot}
                    /\ pc' \in {"idle", "calc", "prefer", "report"}
                    /\ changes' \in 0 .. MaxChanges
<1> SUFFICES Kinds
  BY <1>1 DEF RestInv
<1>2. Counted => changes' \in 0 .. MaxChanges
  BY <1>0, Bounds DEF Counted
<1>3. CASE BeginFrame \/ Calculate
  BY <1>0, <1>3, CursorNext DEF BeginFrame, Calculate
<1>4. CASE AllCalculated \/ PreferSelected \/ KeepPreferred \/ HidePreferred \/ NothingPreferred
           \/ Report
  BY <1>0, <1>4 DEF AllCalculated, PreferSelected, KeepPreferred, HidePreferred, NothingPreferred,
     PreferDone, Report
<1>5. CASE \E a \in Key : Hit(a) \/ Resist(a) \/ ToldInvulnerable(a)
  BY <1>0, <1>2, <1>5 DEF Hit, Resist, ToldInvulnerable, frame
<1>6. ASSUME NEW list \in {"raid", "custom"}, NEW agents \in SUBSET Npc,
             AutolockChanged(list, agents)
      PROVE  Kinds
  BY <1>0, <1>2, <1>6 DEF AutolockChanged, frame
<1>7. CASE AllRaid
  <2>1. autolock["raid"] \cup Raid \in SUBSET Npc
    BY <1>0, TargetsAssumption
  <2> QED
    BY <1>6, <1>7, <2>1 DEF AllRaid
<1>8. CASE \E a \in Npc, on \in BOOLEAN : SetAutolock(a, on)
  <2>1. PICK a \in Npc, on \in BOOLEAN : SetAutolock(a, on)
    BY <1>8
  <2> DEFINE list == IF a \in Raid THEN "raid" ELSE "custom"
             agents == IF on THEN autolock[list] \cup {a} ELSE autolock[list] \ {a}
  <2>2. AutolockChanged(list, agents)
    BY <2>1 DEF SetAutolock
  <2>3. list \in {"raid", "custom"}
    OBVIOUS
  <2> HIDE DEF list
  <2>4. autolock[list] \in SUBSET Npc
    BY <1>0, <2>3
  <2>5. agents \in SUBSET Npc
    BY <2>4
  <2> HIDE DEF agents
  <2> QED
    BY <1>6, <2>2, <2>3, <2>5
<1>9. CASE \E list \in DOMAIN autolock : FreeAutolock(list)
  <2>1. PICK list \in DOMAIN autolock : AutolockChanged(list, {})
    BY <1>9 DEF FreeAutolock
  <2>2. list \in {"raid", "custom"}
    BY <1>0, <2>1
  <2> QED
    BY <1>6, <2>1, <2>2
<1>10. CASE Reset \/ ToggleLock \/ UNCHANGED vars
  BY <1>0, <1>2, <1>10 DEF Reset, ToggleLock, frame, vars
<1>11. CASE \/ \E a \in Key, health \in Health : Becomes(a, health)
            \/ \E a \in Key \cup {NoKey}, f \in BOOLEAN : Select(a, f)
            \/ \E m \in Shard : ChangeMap(m)
  BY <1>0, <1>2, <1>11 DEF Becomes, Select, ChangeMap, frame
<1> QED
  BY <1>3, <1>4, <1>5, <1>7, <1>8, <1>9, <1>10, <1>11 DEF Next, Frame

-----------------------------------------------------------------------------
(***************************************************************************)
(* The theorems.                                                           *)
(***************************************************************************)

LEMMA InitInv == Init => IInv /\ NeverOverstated
<1> SUFFICES ASSUME Init
             PROVE  IInv /\ NeverOverstated
  OBVIOUS
<1>1. WorldInv
  BY DEF Init, WorldInv, Health
<1>2. targets = Created /\ Live(Created, TargetData) /\ Used(Created) = {}
  BY CreatedLive DEF Init, Created, Used
<1>3. Table(targets)
  BY <1>2 DEF Table
<1>4. MeterInv /\ dps.id = NoKey
  BY DEF Init, MeterInv, NoTarget
<1>5. RestInv
  BY Bounds, TargetsAssumption DEF Init, RestInv
<1>6. \A i \in DOMAIN sent : sent[i].id = NoKey
  BY DEF Init, Unsent
<1> QED
  BY <1>1, <1>2, <1>3, <1>4, <1>5, <1>6 DEF IInv, NeverOverstated

LEMMA IInvNext == IInv /\ [Next]_vars => IInv'
  BY TableNext, WorldNext, MeterNext, RestNext DEF IInv, TableStep

LEMMA InvTypes == IInv => TypeOK
<1> SUFFICES ASSUME IInv
             PROVE  TypeOK
  OBVIOUS
<1>1. targets \in CacheOf(TargetData)
  BY DEF IInv, Table, Live
<1> QED
  BY <1>1 DEF IInv, WorldInv, MeterInv, RestInv, Shown, SentPlayer, TypeOK

\* Every variable keeps its type for every size of the tables and every number of
\* agents and maps: what the report and the shown target hold are agents and beings that
\* there are (game_data.cpp:1344-1437).
THEOREM TargetsTypes == Spec => []TypeOK
<1> QED
  BY InitInv, IInvNext, InvTypes, PTL DEF Spec

\* Every slot of the table is in use once or free once, and every entry is found by
\* its own agent, for every capacity, whatever comes between the steps of a frame
\* and although the iteration removes what it visits (game_data.cpp:1344-1437).
THEOREM TargetsCorrect == Spec => []TargetsSound
<1>1. IInv => TargetsSound
  BY DEF IInv, Table, TargetsSound, Live
<1> QED
  BY <1>1, InitInv, IInvNext, PTL DEF Spec

\* What claims the damage of a being before a step claims it after.
LEMMA StillCharged ==
  ASSUME IInv, [Next]_vars, NEW x, NEW y, SameTarget(x, y), y.aptr \in Being, y.tdmg \in Nat,
         y.tdmg <= dealt[y.aptr]
  PROVE  x.tdmg <= dealt'[x.aptr]
<1>1. /\ dealt[y.aptr] \in Nat /\ dealt'[y.aptr] \in Nat
      /\ dealt[y.aptr] <= dealt'[y.aptr]
  BY DealtNext DEF IInv, RestInv
<1>2. x.tdmg = y.tdmg /\ x.aptr = y.aptr
  BY DEF SameTarget
<1>3. y.tdmg <= dealt'[y.aptr]
  BY <1>1
<1> QED
  BY <1>2, <1>3

LEMMA CopyCharged ==
  ASSUME IInv, [Next]_vars, Charged(targets, dealt), NEW x, FromEntry(x)
  PROVE  x.tdmg <= dealt'[x.aptr]
<1>1. PICK s \in Used(targets) : x.aptr = Data(targets, s).aptr /\ x.tdmg = Data(targets, s).tdmg
  BY DEF FromEntry
<1> DEFINE t == Data(targets, s)
<1>2. t.aptr \in Being /\ t.tdmg \in Nat /\ t.tdmg <= dealt[t.aptr]
  BY EntryRight DEF IInv, Charged
<1> HIDE DEF t
<1>3. /\ dealt[t.aptr] \in Nat /\ dealt'[t.aptr] \in Nat
      /\ dealt[t.aptr] <= dealt'[t.aptr]
  BY <1>2, DealtNext DEF IInv, RestInv
<1>4. t.tdmg <= dealt'[t.aptr]
  BY <1>2, <1>3
<1> QED
  BY <1>1, <1>4 DEF t

LEMMA OverstatedNext ==
  ASSUME UsedOnce, IInv, NeverOverstated, [Next]_vars
  PROVE  NeverOverstated'
<1>0. MeterInv /\ Charged(targets, dealt)
  BY DEF IInv, NeverOverstated, Charged
<1>1. Charged(targets', dealt')
  BY <1>0, TableNext DEF TableStep
<1>2. dps.id # NoKey => dps.aptr \in Being /\ dps.tdmg \in Nat /\ dps.tdmg <= dealt[dps.aptr]
  BY <1>0, DpsParts DEF NeverOverstated, Shown
<1>3. dps'.id # NoKey => dps'.tdmg <= dealt'[dps'.aptr]
  <2>1. CASE dps' = NoTarget
    BY <2>1 DEF NoTarget
  <2>2. CASE dps.id # NoKey /\ SameTarget(dps', dps)
    BY <1>2, <2>2, StillCharged
  <2>3. CASE FromEntry(dps')
    BY <1>0, <2>3, CopyCharged
  <2> QED
    BY <2>1, <2>2, <2>3, DpsNext DEF DpsStep, DpsKept
<1>4. sent' = [i \in 1 .. MSG_TARGETS |-> sent'[i]] /\ DOMAIN sent = 1 .. MSG_TARGETS
  BY <1>0, SentNext DEF AllSentStep, MeterInv
<1>5. ASSUME NEW i \in 1 .. MSG_TARGETS, sent'[i].id # NoKey
      PROVE  sent'[i].tdmg <= dealt'[sent'[i].aptr]
  <2>1. SentStep(sent'[i], i)
    BY SentNext DEF AllSentStep
  <2>2. CASE sent'[i] = Unsent
    BY <1>5, <2>2 DEF Unsent
  <2>3. CASE sent'[i] = sent[i]
    <3> DEFINE y == sent[i]
    <3>1. y \in SentPlayer \cup {Unsent} /\ y.id # NoKey /\ y.tdmg <= dealt[y.aptr]
      BY <1>0, <1>4, <1>5, <2>3 DEF MeterInv, NeverOverstated
    <3>2. sent'[i] = y
      BY <2>3
    <3> HIDE DEF y
    <3>3. y.aptr \in Being /\ y.tdmg \in Nat
      BY <3>1 DEF SentPlayer, Unsent
    <3>4. SameTarget(y, y)
      BY DEF SameTarget
    <3>5. y.tdmg <= dealt'[y.aptr]
      BY <3>1, <3>3, <3>4, StillCharged
    <3> QED
      BY <3>2, <3>5
  <2>4. CASE FromEntry(sent'[i])
    BY <1>0, <2>4, CopyCharged
  <2>5. CASE dps.id # NoKey /\ SameTarget(sent'[i], dps)
    BY <1>2, <2>5, StillCharged
  <2> QED
    BY <2>1, <2>2, <2>3, <2>4, <2>5 DEF SentStep
<1>6. DOMAIN sent' = 1 .. MSG_TARGETS
  BY <1>4
<1> QED
  BY <1>1, <1>3, <1>5, <1>6 DEF NeverOverstated, Charged

\* When no agent id is used on two maps, no target claims more damage than its being
\* took, in the table, on the screen and in the report, although entries are evicted,
\* calculated and removed while damage arrives (game_data.cpp:1250-1437).
THEOREM DamageCorrect == UsedOnce => (Spec => []NeverOverstated)
<1> SUFFICES ASSUME UsedOnce
             PROVE  Spec => []NeverOverstated
  OBVIOUS
<1>1. IInv /\ NeverOverstated /\ [Next]_vars => (IInv /\ NeverOverstated)'
  BY IInvNext, OverstatedNext
<1> QED
  BY <1>1, InitInv, PTL DEF Spec

LockStep ==
  dps.locked /\ dps' # NoTarget =>
    dps'.aptr = dps.aptr \/ (dps'.locked /\ Autolocked(dps'.id))

LEMMA LockNext ==
  ASSUME UsedOnce, IInv, [Next]_vars
  PROVE  LockStep
<1>0. MeterInv
  BY DEF IInv
<1>1. DpsKept => LockStep
  BY DEF DpsKept, LockStep, SameTarget
<1>2. CASE BeginFrame
  BY <1>1, <1>2, BeginDps
<1>3. CASE PreferSelected
  <2> DEFINE t == Data(targets, Selection)
             k == LocksItself \/ (dps.locked /\ t.aptr = dps.aptr)
             n == IF t.aptr # dps.aptr THEN Retention ELSE 0
  <2>1. dps' = [locked |-> k, time_sel |-> n, id |-> current, aptr |-> t.aptr, tdmg |-> t.tdmg,
                invuln |-> t.invuln]
    BY <1>3 DEF PreferSelected
  <2>2. LocksItself \/ ~dps.locked \/ t.aptr = dps.aptr
    BY <1>3 DEF PreferSelected, IsPreferred
  <2>3. LocksItself => Autolocked(current) /\ k
    BY DEF LocksItself
  <2> HIDE DEF t, k, n
  <2>4. dps'.aptr = t.aptr /\ dps'.locked = k /\ dps'.id = current
    BY <2>1
  <2>5. CASE ~dps.locked
    BY <2>5 DEF LockStep
  <2>6. CASE t.aptr = dps.aptr
    BY <2>4, <2>6 DEF LockStep
  <2>7. CASE LocksItself
    BY <2>3, <2>4, <2>7 DEF LockStep
  <2> QED
    BY <2>2, <2>5, <2>6, <2>7
<1>4. CASE KeepPreferred
  <2> DEFINE s == Find(targets, dps.id)
             t == Data(targets, s)
  <2>1. dps.id # NoKey /\ dps \in Shown /\ dps.aptr[2] = dps.id
    BY <1>0, <1>4, DpsParts DEF KeepPreferred
  <2>2. CASE s = NoSlot
    BY <1>0, <1>1, <1>4, <2>2, Kept DEF KeepPreferred
  <2>3. CASE s # NoSlot
    <3>1. dps' = [dps EXCEPT !.aptr = t.aptr, !.tdmg = t.tdmg, !.invuln = t.invuln]
      BY <1>4, <2>3 DEF KeepPreferred
    <3>2. s \in Used(targets) /\ targets.store[s].key = dps.id
      BY <2>3, FindProperties DEF IInv, Table
    <3> HIDE DEF s
    <3>3. t.aptr \in Being /\ t.aptr[2] = dps.id
      BY <3>2, EntryRight DEF IInv, Right
    <3>4. dps.aptr \in Being
      BY <2>1 DEF Shown
    <3>5. t.aptr = dps.aptr
      BY <2>1, <3>3, <3>4, OneBeing
    <3> HIDE DEF t
    <3>6. dps'.aptr = t.aptr
      BY <2>1, <3>1 DEF Shown
    <3> QED
      BY <3>5, <3>6 DEF LockStep
  <2> QED
    BY <2>2, <2>3
<1>5. CASE HidePreferred \/ Reset
  BY <1>1, <1>5 DEF HidePreferred, Reset, DpsKept
<1>6. CASE ToggleLock
  BY <1>1, <1>6, LockedDps
<1>7. UNCHANGED dps => LockStep
  BY <1>0, <1>1, Kept
<1>8. CASE Calculate \/ AllCalculated \/ NothingPreferred \/ Report
  BY <1>7, <1>8 DEF Calculate, AllCalculated, NothingPreferred, Report, meter
<1>9. CASE \E a \in Key : Hit(a) \/ Resist(a) \/ ToldInvulnerable(a)
  BY <1>7, <1>9 DEF Hit, Resist, ToldInvulnerable
<1>10. CASE AllRaid \/ UNCHANGED vars
  BY <1>7, <1>10 DEF AllRaid, AutolockChanged, meter, vars
<1>11. CASE \/ \E a \in Npc, on \in BOOLEAN : SetAutolock(a, on)
            \/ \E list \in DOMAIN autolock : FreeAutolock(list)
  BY <1>7, <1>11 DEF SetAutolock, FreeAutolock, AutolockChanged, meter
<1>12. CASE \/ \E a \in Key, health \in Health : Becomes(a, health)
            \/ \E a \in Key \cup {NoKey}, f \in BOOLEAN : Select(a, f)
            \/ \E m \in Shard : ChangeMap(m)
  BY <1>7, <1>12 DEF Becomes, Select, ChangeMap, meter
<1> QED
  BY <1>2, <1>3, <1>4, <1>5, <1>6, <1>8, <1>9, <1>10, <1>11, <1>12 DEF Next, Frame

\* When no agent id is used on two maps, only a reset hides a locked target and only
\* a target that locks by itself takes its place, locked in turn, whatever the player
\* selects and whatever becomes of its entry (validateDpsTarget).
THEOREM LockCorrect == UsedOnce => (Spec => LockHolds)
<1> SUFFICES ASSUME UsedOnce
             PROVE  Spec => LockHolds
  OBVIOUS
<1>1. IInv /\ [Next]_vars => [LockStep]_vars
  BY LockNext
<1> QED
  BY <1>1, InitInv, IInvNext, PTL DEF Spec, LockHolds, LockStep
=============================================================================
