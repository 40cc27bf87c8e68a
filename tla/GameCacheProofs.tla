--------------------------- MODULE GameCacheProofs ---------------------------
(***************************************************************************)
(* What the operations of meter/cache.hpp preserve, for every capacity.    *)
(***************************************************************************)
EXTENDS GameCache, SequenceTheorems, TLAPS

\* A table that is live and accounts for every slot.
Live(c, Data) == c \in CacheOf(Data) /\ c.init /\ Sound(c)

\* The store of a table.
StoreOf(Data) ==
  [Slot -> [key : Key \cup {NoKey}, idx : Slot \cup {-1}, data : Data \cup {NoData}]]

\* s is in the sequence q.
In(s, q) == \E i \in DOMAIN q : q[i] = s

\* What a used slot of d holds is what it holds in c.
SameData(c, d) == \A s \in Used(d) : s \in Used(c) /\ d.store[s].data = c.store[s].data

LEMMA SequenceShape ==
  ASSUME NEW S, NEW q \in Seq(S)
  PROVE  Len(q) \in Nat /\ DOMAIN q = 1 .. Len(q) /\ \A i \in DOMAIN q : q[i] \in S
  OBVIOUS

LEMMA FunctionIsSequence ==
  ASSUME NEW S, NEW n \in Nat, NEW f \in [1 .. n -> S]
  PROVE  f \in Seq(S) /\ Len(f) = n
  OBVIOUS

LEMMA InUse ==
  ASSUME NEW c, NEW s
  PROVE  s \in Used(c) <=> In(s, c.cache)
  BY DEF Used, In

-----------------------------------------------------------------------------
(***************************************************************************)
(* The sequences: the used slots and the stack.                            *)
(***************************************************************************)

\* HASH_DEL takes one slot out, keeps the others, and has none twice.
LEMMA UnlinkedShape ==
  ASSUME NEW q \in Seq(Slot), NEW k \in DOMAIN q,
         \A i, j \in DOMAIN q : q[i] = q[j] => i = j
  PROVE  LET u == Unlinked(q, q[k])
         IN  /\ u \in Seq(Slot) /\ Len(u) = Len(q) - 1
             /\ \A i, j \in DOMAIN u : u[i] = u[j] => i = j
             /\ \A s : In(s, u) <=> s # q[k] /\ In(s, q)
<1> DEFINE u == [i \in 1 .. Len(q) - 1 |-> IF i < k THEN q[i] ELSE q[i + 1]]
<1>1. (CHOOSE i \in DOMAIN q : q[i] = q[k]) = k
  OBVIOUS
<1>2. Unlinked(q, q[k]) = u
  BY <1>1 DEF Unlinked
<1>3. Len(q) \in Nat \ {0} /\ DOMAIN q = 1 .. Len(q) /\ k \in 1 .. Len(q)
      /\ \A i \in 1 .. Len(q) : q[i] \in Slot
  BY SequenceShape
<1>4. u \in [1 .. Len(q) - 1 -> Slot]
  BY <1>3
<1>5. \A i \in 1 .. Len(q) - 1 : u[i] = IF i < k THEN q[i] ELSE q[i + 1]
  OBVIOUS
<1> HIDE DEF u
<1>6. u \in Seq(Slot) /\ Len(u) = Len(q) - 1 /\ DOMAIN u = 1 .. Len(q) - 1
  <2>1. Len(q) - 1 \in Nat
    BY <1>3
  <2> QED
    BY <1>4, <2>1, FunctionIsSequence, SequenceShape
<1>7. \A i, j \in DOMAIN u : u[i] = u[j] => i = j
  BY <1>3, <1>5, <1>6
<1>8. \A i \in DOMAIN u : u[i] # q[k] /\ \E j \in DOMAIN q : u[i] = q[j]
  BY <1>3, <1>5, <1>6
<1>9. \A j \in DOMAIN q : q[j] # q[k] => \E i \in DOMAIN u : u[i] = q[j]
  <2> SUFFICES ASSUME NEW j \in DOMAIN q, q[j] # q[k]
               PROVE  \E i \in DOMAIN u : u[i] = q[j]
    OBVIOUS
  <2>1. CASE j < k
    BY <2>1, <1>3, <1>5, <1>6
  <2>2. CASE j > k
    <3>1. j - 1 \in DOMAIN u /\ u[j - 1] = q[j]
      BY <2>2, <1>3, <1>5, <1>6
    <3> QED
      BY <3>1
  <2> QED
    BY <2>1, <2>2, <1>3
<1> QED
  BY <1>2, <1>6, <1>7, <1>8, <1>9 DEF In

\* A slot that leaves the hash is pushed.
LEMMA FreedPartition ==
  ASSUME NEW q \in Seq(Slot), NEW p \in Seq(Slot), Partition(q, p), NEW k \in DOMAIN q
  PROVE  LET u == Unlinked(q, q[k])
             r == Append(p, q[k])
         IN  /\ u \in Seq(Slot) /\ r \in Seq(Slot) /\ Partition(u, r)
             /\ Len(u) = Len(q) - 1
             /\ \A s : In(s, u) <=> s # q[k] /\ In(s, q)
<1> DEFINE u == Unlinked(q, q[k])
           r == Append(p, q[k])
<1>1. /\ u \in Seq(Slot) /\ Len(u) = Len(q) - 1
      /\ \A i, j \in DOMAIN u : u[i] = u[j] => i = j
      /\ \A s : In(s, u) <=> s # q[k] /\ In(s, q)
  BY UnlinkedShape DEF Partition
<1>2. /\ Len(q) \in Nat /\ DOMAIN q = 1 .. Len(q)
      /\ Len(p) \in Nat /\ DOMAIN p = 1 .. Len(p) /\ q[k] \in Slot
      /\ max_size \in Nat /\ Len(q) + Len(p) = max_size
  BY SequenceShape, CacheAssumption DEF Partition
<1>3. /\ r \in Seq(Slot) /\ Len(r) = Len(p) + 1 /\ DOMAIN r = 1 .. Len(p) + 1
      /\ \A i \in 1 .. Len(p) : r[i] = p[i]
      /\ r[Len(p) + 1] = q[k]
  BY <1>2, AppendProperties, SequenceShape
<1> HIDE DEF u, r
<1>4. \A i, j \in DOMAIN r : r[i] = r[j] => i = j
  BY <1>2, <1>3 DEF Partition
<1>5. \A i \in DOMAIN u, j \in DOMAIN r : u[i] # r[j]
  <2>1. \A i \in DOMAIN u : u[i] # q[k] /\ In(u[i], q)
    BY <1>1 DEF In
  <2>2. \A s, j : In(s, q) /\ j \in DOMAIN p => s # p[j]
    BY DEF Partition, In
  <2> QED
    BY <1>2, <1>3, <2>1, <2>2
<1>6. Len(u) + Len(r) = max_size
  BY <1>1, <1>2, <1>3
<1> QED
  BY <1>1, <1>3, <1>4, <1>5, <1>6 DEF Partition, u, r

\* The top of the stack is added to the hash.
LEMMA AllocatedPartition ==
  ASSUME NEW q \in Seq(Slot), NEW p \in Seq(Slot), Partition(q, p), Len(q) < max_size
  PROVE  LET u == Append(q, Last(p))
             r == Front(p)
         IN  /\ u \in Seq(Slot) /\ r \in Seq(Slot) /\ Partition(u, r)
             /\ Last(p) \in Slot /\ ~In(Last(p), q)
             /\ \A s : In(s, u) <=> s = Last(p) \/ In(s, q)
<1> DEFINE u == Append(q, Last(p))
           r == Front(p)
           n == Len(p)
<1>1. /\ Len(q) \in Nat /\ DOMAIN q = 1 .. Len(q)
      /\ n \in Nat /\ DOMAIN p = 1 .. n /\ max_size \in Nat
      /\ Len(q) + n = max_size
  BY SequenceShape, CacheAssumption DEF Partition
<1>2. n > 0
  BY <1>1
<1>3. Last(p) = p[n] /\ n \in DOMAIN p
  BY <1>1, <1>2 DEF Last
<1>4. Last(p) \in Slot
  BY <1>3, SequenceShape
<1>5. /\ r \in Seq(Slot) /\ Len(r) = n - 1 /\ DOMAIN r = 1 .. n - 1
      /\ \A i \in 1 .. n - 1 : r[i] = p[i]
  <2>1. \A i \in 1 .. n - 1 : p[i] \in Slot
    BY <1>1, SequenceShape
  <2> QED
    BY <1>1, <1>2, <2>1, SubSeqProperties, SequenceShape DEF Front
<1>6. /\ u \in Seq(Slot) /\ Len(u) = Len(q) + 1 /\ DOMAIN u = 1 .. Len(q) + 1
      /\ \A i \in 1 .. Len(q) : u[i] = q[i]
      /\ u[Len(q) + 1] = Last(p)
  BY <1>1, <1>4, AppendProperties, SequenceShape
<1>7. ~In(Last(p), q)
  BY <1>3 DEF Partition, In
<1> HIDE DEF u, r, n
<1>8. \A s : In(s, u) <=> s = Last(p) \/ In(s, q)
  BY <1>1, <1>6 DEF In
<1>9. \A i, j \in DOMAIN u : u[i] = u[j] => i = j
  BY <1>1, <1>6, <1>7 DEF Partition, In
<1>10. \A i, j \in DOMAIN r : r[i] = r[j] => i = j
  BY <1>1, <1>5 DEF Partition
<1>11. \A i \in DOMAIN u, j \in DOMAIN r : u[i] # r[j]
  <2>1. \A i \in DOMAIN u : u[i] = Last(p) \/ In(u[i], q)
    BY <1>8 DEF In
  <2>2. \A s, j : In(s, q) /\ j \in DOMAIN p => s # p[j]
    BY DEF Partition, In
  <2>3. \A j \in DOMAIN r : j \in DOMAIN p /\ r[j] = p[j] /\ j # n
    BY <1>1, <1>5
  <2>4. \A j \in DOMAIN r : r[j] # Last(p)
    BY <1>3, <2>3 DEF Partition
  <2> QED
    BY <2>1, <2>2, <2>3, <2>4
<1>12. Len(u) + Len(r) = max_size
  <2>1. Len(u) = Len(q) + 1 /\ Len(r) = n - 1 /\ Len(q) + n = max_size
        /\ Len(q) \in Nat /\ n \in Nat
    BY <1>1, <1>5, <1>6
  <2> QED
    BY <2>1
<1> QED
  BY <1>4, <1>5, <1>6, <1>7, <1>8, <1>9, <1>10, <1>11, <1>12 DEF Partition, u, r

\* All used slots are pushed, in their order.
LEMMA ClearedPartition ==
  ASSUME NEW q \in Seq(Slot), NEW p \in Seq(Slot), Partition(q, p)
  PROVE  p \o q \in Seq(Slot) /\ Partition(<<>>, p \o q)
<1> DEFINE r == p \o q
<1>1. /\ Len(q) \in Nat /\ DOMAIN q = 1 .. Len(q)
      /\ Len(p) \in Nat /\ DOMAIN p = 1 .. Len(p) /\ max_size \in Nat
      /\ Len(q) + Len(p) = max_size
  BY SequenceShape, CacheAssumption DEF Partition
<1>2. /\ r \in Seq(Slot) /\ Len(r) = Len(p) + Len(q) /\ DOMAIN r = 1 .. Len(p) + Len(q)
      /\ \A i \in 1 .. Len(p) + Len(q) : r[i] = IF i <= Len(p) THEN p[i] ELSE q[i - Len(p)]
  BY <1>1, ConcatProperties, SequenceShape
<1> HIDE DEF r
<1>3. ASSUME NEW i \in DOMAIN r, NEW j \in DOMAIN r, r[i] = r[j]
      PROVE  i = j
  <2>1. \A k \in DOMAIN r : IF k \in DOMAIN p THEN r[k] = p[k]
                           ELSE k - Len(p) \in DOMAIN q /\ r[k] = q[k - Len(p)]
    BY <1>1, <1>2
  <2>2. CASE i \in DOMAIN p /\ j \in DOMAIN p
    BY <2>2, <1>1, <1>2, <1>3 DEF Partition
  <2>3. CASE i \notin DOMAIN p /\ j \notin DOMAIN p
    <3>1. i - Len(p) = j - Len(p)
      BY <2>3, <2>1, <1>3 DEF Partition
    <3> QED
      BY <3>1, <1>1, <1>2
  <2>4. CASE i \in DOMAIN p /\ j \notin DOMAIN p
    BY <2>4, <2>1, <1>1, <1>2, <1>3 DEF Partition
  <2>5. CASE i \notin DOMAIN p /\ j \in DOMAIN p
    BY <2>5, <2>1, <1>1, <1>2, <1>3 DEF Partition
  <2> QED
    BY <2>2, <2>3, <2>4, <2>5
<1>4. Len(<<>>) + Len(r) = max_size
  BY <1>1, <1>2
<1> QED
  BY <1>2, <1>3, <1>4 DEF Partition, r

-----------------------------------------------------------------------------
(***************************************************************************)
(* The table.                                                              *)
(***************************************************************************)

\* A new table has all slots on the stack.
LEMMA CreatedLive ==
  ASSUME NEW Data
  PROVE  Live(Created, Data) /\ Used(Created) = {}
<1> DEFINE stack == [i \in 1 .. max_size |-> i - 1]
<1>1. stack \in Seq(Slot) /\ Len(stack) = max_size
  <2>1. stack \in [1 .. max_size -> Slot]
    BY CacheAssumption DEF Slot
  <2> HIDE DEF stack
  <2> QED
    BY <2>1, CacheAssumption, FunctionIsSequence
<1>2. Zeroed \in [key : Key \cup {NoKey}, idx : Slot \cup {-1}, data : Data \cup {NoData}]
  BY DEF Zeroed
<1>3. Created \in CacheOf(Data) /\ Created.init
  BY <1>1, <1>2, CacheAssumption DEF Created, CacheOf
<1>4. Used(Created) = {}
  BY DEF Used, Created
<1>5. Partition(Created.cache, Created.tracker)
  BY <1>1, CacheAssumption DEF Partition, Created
<1> QED
  BY <1>3, <1>4, <1>5 DEF Live, Sound

\* What a live table is made of.
LEMMA LiveParts ==
  ASSUME NEW Data, NEW c, Live(c, Data)
  PROVE  /\ c.cache \in Seq(Slot) /\ c.tracker \in Seq(Slot) /\ c.init /\ c.limit \in Nat
         /\ c.store \in StoreOf(Data)
         /\ Partition(c.cache, c.tracker)
         /\ Used(c) \subseteq Slot
<1>1. c.cache \in Seq(Slot)
  BY DEF Live, CacheOf
<1> QED
  BY <1>1, InUse DEF Live, CacheOf, StoreOf, Sound, In

\* cache_delete of an entry of a live table.
LEMMA RemoveLive ==
  ASSUME NEW Data, NEW c, Live(c, Data), NEW s \in Used(c)
  PROVE  LET d == RemoveEntry(c, s)
         IN  /\ Live(d, Data) /\ SameData(c, d) /\ Used(d) = Used(c) \ {s}
             /\ Len(d.cache) = Len(c.cache) - 1 /\ d.cache = Unlinked(c.cache, s)
             /\ \A t \in Used(d) : d.store[t] = c.store[t]
<1> DEFINE d == RemoveEntry(c, s)
           u == Unlinked(c.cache, s)
           r == Append(c.tracker, s)
<1>1. PICK k \in DOMAIN c.cache : s = c.cache[k]
  BY DEF Used
<1>2. /\ c \in CacheOf(Data) /\ c.init /\ c.store \in StoreOf(Data)
      /\ s \in Slot /\ s # NoSlot /\ c.store[s].idx = s
  BY LiveParts, SlotAssumption DEF Live, Sound
<1>3. d = [c EXCEPT !.cache = u, !.tracker = r, !.store[s] = Zeroed]
  BY <1>2 DEF RemoveEntry, EntryFree, CacheOf
<1>4. /\ d.cache = u /\ d.tracker = r /\ d.init
      /\ d.store = [c.store EXCEPT ![s] = Zeroed]
  BY <1>2, <1>3 DEF CacheOf
<1>5. /\ u \in Seq(Slot) /\ r \in Seq(Slot) /\ Partition(u, r)
      /\ Len(u) = Len(c.cache) - 1
      /\ \A t : In(t, u) <=> t # s /\ In(t, c.cache)
  BY <1>1, LiveParts, FreedPartition
<1>6. Zeroed \in [key : Key \cup {NoKey}, idx : Slot \cup {-1}, data : Data \cup {NoData}]
  BY DEF Zeroed
<1>7. d.store \in StoreOf(Data)
  BY <1>2, <1>4, <1>6 DEF StoreOf
<1> HIDE DEF u, r
<1>8. d \in CacheOf(Data)
  BY <1>2, <1>3, <1>4, <1>5, <1>7 DEF CacheOf, StoreOf
<1> HIDE DEF d
<1>9. Used(d) = Used(c) \ {s}
  <2>1. \A t : t \in Used(d) <=> t # s /\ t \in Used(c)
    BY <1>4, <1>5, InUse
  <2> QED
    BY <2>1
<1>10. \A t \in Used(d) : t \in Used(c) /\ d.store[t] = c.store[t]
  BY <1>2, <1>4, <1>9, LiveParts DEF StoreOf
<1>11. Sound(d)
  <2>1. Partition(d.cache, d.tracker)
    BY <1>4, <1>5
  <2> QED
    BY <1>10, <2>1 DEF Live, Sound
<1> QED
  BY <1>4, <1>5, <1>8, <1>9, <1>10, <1>11 DEF Live, SameData, d, u

\* entry_alloc and HASH_ADD of a key that is not there, when a slot is free.
LEMMA AllocatedLive ==
  ASSUME NEW Data, NEW c, Live(c, Data), NEW k \in Key, NEW x \in Data,
         Len(c.cache) < max_size, \A s \in Used(c) : c.store[s].key # k
  PROVE  LET d == Allocated(c, k, x)
         IN  /\ Live(d, Data)
             /\ \A s \in Used(d) :
                  \/ s \in Used(c) /\ d.store[s] = c.store[s]
                  \/ d.store[s].data = x
             /\ \E n \in Used(d) :
                  /\ n \notin Used(c) /\ d.cache = Append(c.cache, n)
                  /\ Used(d) = Used(c) \cup {n}
                  /\ d.store[n].key = k /\ d.store[n].data = x
                  /\ \A s \in Used(c) : d.store[s] = c.store[s]
<1> DEFINE d == Allocated(c, k, x)
           n == Last(c.tracker)
           e == [key |-> k, idx |-> n, data |-> x]
           u == Append(c.cache, n)
           r == Front(c.tracker)
<1>1. c \in CacheOf(Data) /\ c.init /\ c.store \in StoreOf(Data)
  BY LiveParts DEF Live
<1>2. /\ u \in Seq(Slot) /\ r \in Seq(Slot) /\ Partition(u, r)
      /\ n \in Slot /\ n \notin Used(c)
      /\ \A s : In(s, u) <=> s = n \/ In(s, c.cache)
  BY LiveParts, AllocatedPartition, InUse
<1>3. d = [c EXCEPT !.tracker = r, !.cache = u, !.store[n] = e]
  BY DEF Allocated
<1>4. e \in [key : Key \cup {NoKey}, idx : Slot \cup {-1}, data : Data \cup {NoData}]
  BY <1>2
<1>5. e.key = k /\ e.idx = n /\ e.data = x
  OBVIOUS
<1> HIDE DEF n, e, u, r
<1>6. /\ d.cache = u /\ d.tracker = r /\ d.init
      /\ d.store = [c.store EXCEPT ![n] = e]
  BY <1>1, <1>3 DEF CacheOf
<1>7. d.store \in StoreOf(Data)
  BY <1>1, <1>4, <1>6 DEF StoreOf
<1>8. d \in CacheOf(Data)
  BY <1>1, <1>2, <1>3, <1>6, <1>7 DEF CacheOf, StoreOf
<1> HIDE DEF d
<1>9. \A s : s \in Used(d) <=> s \in Used(c) \/ s = n
  BY <1>2, <1>6, InUse
<1>10. \A s \in Used(c) : s \in Slot /\ d.store[s] = c.store[s]
  BY <1>1, <1>2, <1>6, LiveParts DEF StoreOf
<1>11. d.store[n] = e
  BY <1>1, <1>2, <1>6 DEF StoreOf
<1>12. Sound(d)
  <2>1. Partition(d.cache, d.tracker)
    BY <1>2, <1>6
  <2>2. \A s \in Used(d) : d.store[s].idx = s /\ d.store[s].key \in Key
    BY <1>5, <1>9, <1>10, <1>11 DEF Live, Sound
  <2>3. \A s, t \in Used(d) : d.store[s].key = d.store[t].key => s = t
    BY <1>5, <1>9, <1>10, <1>11 DEF Live, Sound
  <2> QED
    BY <2>1, <2>2, <2>3 DEF Sound
<1>13. Used(d) = Used(c) \cup {n}
  BY <1>9
<1> QED
  BY <1>2, <1>5, <1>6, <1>8, <1>9, <1>10, <1>11, <1>12, <1>13 DEF Live, d, u

\* cache_find returns an entry of the table that has the key, or NULL.
LEMMA FindProperties ==
  ASSUME NEW Data, NEW c, Live(c, Data), NEW k
  PROVE  IF Find(c, k) = NoSlot THEN \A s \in Used(c) : c.store[s].key # k
         ELSE Find(c, k) \in Used(c) /\ c.store[Find(c, k)].key = k
<1>1. \A s \in Used(c) : s # NoSlot
  BY LiveParts, SlotAssumption
<1> QED
  BY <1>1, LiveParts DEF Find

\* New contents of used entries.
LEMMA RewrittenLive ==
  ASSUME NEW Data, NEW c, Live(c, Data), NEW s \in Used(c), NEW x \in Data
  PROVE  LET d == [c EXCEPT !.store[s].data = x]
         IN  /\ Live(d, Data) /\ Used(d) = Used(c) /\ d.cache = c.cache
             /\ \A t \in Used(c) : /\ d.store[t].key = c.store[t].key
                                  /\ d.store[t].data = IF t = s THEN x ELSE c.store[t].data
<1> DEFINE d == [c EXCEPT !.store[s].data = x]
           e == [c.store[s] EXCEPT !.data = x]
<1>1. c \in CacheOf(Data) /\ c.store \in StoreOf(Data) /\ s \in Slot
  BY LiveParts DEF Live
<1>2. /\ e \in [key : Key \cup {NoKey}, idx : Slot \cup {-1}, data : Data \cup {NoData}]
      /\ e.key = c.store[s].key /\ e.idx = c.store[s].idx /\ e.data = x
  BY <1>1 DEF StoreOf
<1>3. d.store = [c.store EXCEPT ![s] = e] /\ d.cache = c.cache /\ d.tracker = c.tracker
      /\ d.init = c.init
  BY <1>1 DEF CacheOf
<1> HIDE DEF e
<1>4. d.store \in StoreOf(Data)
  BY <1>1, <1>2, <1>3 DEF StoreOf
<1>5. d \in CacheOf(Data)
  BY <1>1, <1>3, <1>4 DEF CacheOf, StoreOf
<1> HIDE DEF d
<1>6. Used(d) = Used(c)
  BY <1>3 DEF Used
<1>7. \A t \in Used(c) : /\ d.store[t].key = c.store[t].key /\ d.store[t].idx = c.store[t].idx
                       /\ d.store[t].data = IF t = s THEN x ELSE c.store[t].data
  BY <1>1, <1>2, <1>3, LiveParts DEF StoreOf
<1>8. Sound(d)
  BY <1>3, <1>6, <1>7 DEF Live, Sound
<1> QED
  BY <1>3, <1>5, <1>6, <1>7, <1>8 DEF Live, d

\* cache_insert with a value.
LEMMA InsertLive ==
  ASSUME NEW Data, NEW c, Live(c, Data), NEW k \in Key, NEW x \in Data
  PROVE  LET d == Insert(c, k, x)
         IN  /\ Live(d, Data)
             /\ \A s \in Used(d) :
                  \/ s \in Used(c) /\ d.store[s].data = c.store[s].data
                  \/ d.store[s].data = x
<1> DEFINE d == Insert(c, k, x)
<1>1. c.init
  BY LiveParts
<1>2. CASE Find(c, k) # NoSlot
  <2>1. Find(c, k) \in Used(c)
    BY <1>2, FindProperties
  <2>2. d = [c EXCEPT !.store[Find(c, k)].data = x]
    BY <1>1, <1>2 DEF Insert
  <2> QED
    BY <2>1, <2>2, RewrittenLive
<1>3. CASE Find(c, k) = NoSlot /\ Len(c.cache) >= max_size
  BY <1>1, <1>3 DEF Insert
<1>4. CASE Find(c, k) = NoSlot /\ ~(Len(c.cache) >= max_size)
  <2>1. \A s \in Used(c) : c.store[s].key # k
    BY <1>4, FindProperties
  <2>2. Len(c.cache) < max_size
    <3> DEFINE q == c.cache
    <3>1. q \in Seq(Slot) /\ ~(Len(q) >= max_size)
      BY <1>4, LiveParts
    <3> HIDE DEF q
    <3>2. Len(q) < max_size
      BY <3>1, CacheAssumption
    <3> QED
      BY <3>2 DEF q
  <2>3. d = Allocated(c, k, x)
    BY <1>1, <1>4 DEF Insert
  <2> QED
    BY <2>1, <2>2, <2>3, AllocatedLive
<1> QED
  BY <1>2, <1>3, <1>4

\* cache_clear.
LEMMA ClearLive ==
  ASSUME NEW Data, NEW c, Live(c, Data)
  PROVE  Live(Clear(c), Data) /\ Used(Clear(c)) = {}
<1> DEFINE d == Clear(c)
           r == c.tracker \o c.cache
<1>1. c \in CacheOf(Data) /\ c.init
  BY LiveParts DEF Live
<1>2. r \in Seq(Slot) /\ Partition(<<>>, r)
  BY LiveParts, ClearedPartition
<1>3. d = [c EXCEPT !.cache = <<>>, !.tracker = r, !.store = [s \in Slot |-> Zeroed]]
  BY <1>1 DEF Clear
<1> HIDE DEF r
<1>4. /\ d.cache = <<>> /\ d.tracker = r /\ d.init
      /\ d.store = [s \in Slot |-> Zeroed]
  BY <1>1, <1>3 DEF CacheOf
<1>5. Zeroed \in [key : Key \cup {NoKey}, idx : Slot \cup {-1}, data : Data \cup {NoData}]
  BY DEF Zeroed
<1>6. d \in CacheOf(Data)
  <2>1. d.store \in StoreOf(Data)
    BY <1>4, <1>5 DEF StoreOf
  <2>2. d.cache \in Seq(Slot)
    BY <1>4
  <2> QED
    BY <1>1, <1>2, <1>3, <1>4, <2>1, <2>2 DEF CacheOf, StoreOf
<1> HIDE DEF d
<1>7. Used(d) = {}
  BY <1>4 DEF Used
<1>8. Sound(d)
  <2>1. Partition(d.cache, d.tracker)
    BY <1>2, <1>4
  <2> QED
    BY <1>7, <2>1 DEF Sound
<1> QED
  BY <1>4, <1>6, <1>7, <1>8 DEF Live, d

\* Cache.resize changes the limit only.
LEMMA ResizeLive ==
  ASSUME NEW Data, NEW c, Live(c, Data), NEW n \in Nat
  PROVE  LET d == Resize(c, n)
         IN  Live(d, Data) /\ SameData(c, d) /\ Used(d) = Used(c)
<1> DEFINE d == Resize(c, n)
<1>1. c \in CacheOf(Data) /\ c.init
  BY LiveParts DEF Live
<1>2. PICK m \in Nat : d = [c EXCEPT !.limit = m]
  BY <1>1, CacheAssumption DEF Resize
<1>3. d \in CacheOf(Data) /\ d.init /\ d.cache = c.cache /\ d.tracker = c.tracker
      /\ d.store = c.store
  BY <1>1, <1>2 DEF CacheOf
<1> HIDE DEF d
<1>4. Used(d) = Used(c)
  BY <1>3 DEF Used
<1>5. Sound(d)
  BY <1>3, <1>4 DEF Live, Sound
<1> QED
  BY <1>3, <1>4, <1>5 DEF Live, SameData, d

\* The entries' data is in any larger set, too.
LEMMA MoreData ==
  ASSUME NEW Data, NEW More, NEW c, Live(c, Data)
  PROVE  Live(c, Data \cup More)
<1>1. c \in CacheOf(Data)
  BY DEF Live
<1>2. CacheOf(Data) \subseteq CacheOf(Data \cup More)
  <2> SUFFICES ASSUME NEW d \in CacheOf(Data)
               PROVE  d \in CacheOf(Data \cup More)
    OBVIOUS
  <2>1. d.store \in StoreOf(Data \cup More)
    BY DEF CacheOf, StoreOf
  <2> QED
    BY <2>1 DEF CacheOf, StoreOf
<1> QED
  BY <1>1, <1>2 DEF Live

\* A table whose slots all hold Data.
LEMMA Narrowed ==
  ASSUME NEW Data1, NEW Data2, NEW c, Live(c, Data1),
         \A t \in Slot : c.store[t].data \in Data2 \cup {NoData}
  PROVE  Live(c, Data2)
<1>1. c \in CacheOf(Data1) /\ c.store \in StoreOf(Data1)
  BY LiveParts DEF Live
<1>2. c.store \in StoreOf(Data2)
  <2>1. \A t \in Slot :
          c.store[t] \in [key : Key \cup {NoKey}, idx : Slot \cup {-1}, data : Data2 \cup {NoData}]
    BY <1>1 DEF StoreOf
  <2> QED
    BY <1>1, <2>1 DEF StoreOf
<1>3. c \in CacheOf(Data2)
  BY <1>1, <1>2 DEF CacheOf, StoreOf
<1> QED
  BY <1>3 DEF Live

\* An entry is rewritten, whatever it is given.
LEMMA AnyRewrittenLive ==
  ASSUME NEW Data, NEW c, Live(c, Data), NEW s \in Used(c), NEW x
  PROVE  \E More : Live([c EXCEPT !.store[s].data = x], More)
<1> DEFINE More == Data \cup {x}
<1>1. Live(c, More) /\ x \in More
  BY MoreData
<1> HIDE DEF More
<1>2. Live([c EXCEPT !.store[s].data = x], More)
  BY <1>1, RewrittenLive
<1> QED
  BY <1>2

\* All used entries are rewritten.
LEMMA AllRewrittenLive ==
  ASSUME NEW Data, NEW c, Live(c, Data), NEW f
  PROVE  \E More :
           Live([c EXCEPT !.store =
                   [s \in Slot |-> IF s \in Used(c) THEN [c.store[s] EXCEPT !.data = f[s]]
                                   ELSE c.store[s]]], More)
<1> DEFINE More == Data \cup {f[s] : s \in Slot}
           d == [c EXCEPT !.store =
                   [s \in Slot |-> IF s \in Used(c) THEN [c.store[s] EXCEPT !.data = f[s]]
                                   ELSE c.store[s]]]
<1>1. c \in CacheOf(Data) /\ c.init /\ c.store \in StoreOf(Data)
  BY LiveParts DEF Live
<1>2. /\ d.init = c.init /\ d.cache = c.cache /\ d.tracker = c.tracker
      /\ d.store = [s \in Slot |-> IF s \in Used(c) THEN [c.store[s] EXCEPT !.data = f[s]]
                                   ELSE c.store[s]]
  BY <1>1 DEF CacheOf
<1>3. \A s \in Slot :
        /\ d.store[s].key = c.store[s].key /\ d.store[s].idx = c.store[s].idx
        /\ d.store[s] \in [key : Key \cup {NoKey}, idx : Slot \cup {-1}, data : More \cup {NoData}]
  <2> SUFFICES ASSUME NEW s \in Slot
               PROVE  /\ d.store[s].key = c.store[s].key /\ d.store[s].idx = c.store[s].idx
                      /\ d.store[s] \in [key : Key \cup {NoKey}, idx : Slot \cup {-1},
                                         data : More \cup {NoData}]
    OBVIOUS
  <2>1. c.store[s] \in [key : Key \cup {NoKey}, idx : Slot \cup {-1}, data : Data \cup {NoData}]
    BY <1>1 DEF StoreOf
  <2>2. f[s] \in More /\ Data \subseteq More
    OBVIOUS
  <2> HIDE DEF More
  <2> QED
    BY <1>2, <2>1, <2>2
<1> HIDE DEF More
<1>4. d.store \in StoreOf(More)
  BY <1>2, <1>3 DEF StoreOf
<1>5. d \in CacheOf(More)
  BY <1>1, <1>2, <1>4 DEF CacheOf, StoreOf
<1> HIDE DEF d
<1>6. Used(d) = Used(c) /\ Used(c) \subseteq Slot
  BY <1>2, LiveParts DEF Used
<1>7. Sound(d)
  BY <1>2, <1>3, <1>6 DEF Live, Sound
<1>8. Live(d, More)
  BY <1>1, <1>2, <1>5, <1>7 DEF Live
<1> QED
  BY <1>8 DEF d

\* A slot that is unlinked and added again.
LEMMA RelinkedPartition ==
  ASSUME NEW q \in Seq(Slot), NEW p \in Seq(Slot), Partition(q, p), NEW k \in DOMAIN q
  PROVE  LET u == Append(Unlinked(q, q[k]), q[k])
         IN  u \in Seq(Slot) /\ Partition(u, p) /\ \A s : In(s, u) <=> In(s, q)
<1> DEFINE v == Unlinked(q, q[k])
           u == Append(v, q[k])
<1>1. /\ v \in Seq(Slot) /\ Len(v) = Len(q) - 1
      /\ \A i, j \in DOMAIN v : v[i] = v[j] => i = j
      /\ \A s : In(s, v) <=> s # q[k] /\ In(s, q)
  BY UnlinkedShape DEF Partition
<1>2. /\ Len(q) \in Nat /\ DOMAIN q = 1 .. Len(q) /\ q[k] \in Slot /\ In(q[k], q)
      /\ Len(v) \in Nat /\ DOMAIN v = 1 .. Len(v)
  BY <1>1, SequenceShape DEF In
<1> HIDE DEF v
<1>3. /\ u \in Seq(Slot) /\ Len(u) = Len(v) + 1 /\ DOMAIN u = 1 .. Len(v) + 1
      /\ \A i \in 1 .. Len(v) : u[i] = v[i]
      /\ u[Len(v) + 1] = q[k]
  BY <1>1, <1>2, AppendProperties, SequenceShape
<1> HIDE DEF u
<1>4. \A s : In(s, u) <=> In(s, q)
  <2>1. \A s : In(s, u) <=> s = q[k] \/ In(s, v)
    BY <1>2, <1>3 DEF In
  <2> QED
    BY <1>1, <1>2, <2>1
<1>5. \A i, j \in DOMAIN u : u[i] = u[j] => i = j
  <2>1. \A i \in 1 .. Len(v) : v[i] # q[k]
    BY <1>1, <1>2 DEF In
  <2> QED
    BY <1>1, <1>2, <1>3, <2>1
<1>6. \A i \in DOMAIN u, j \in DOMAIN p : u[i] # p[j]
  <2>1. \A i \in DOMAIN u : In(u[i], q)
    BY <1>4 DEF In
  <2> QED
    BY <2>1 DEF Partition, In
<1>7. Len(u) = Len(q)
  BY <1>1, <1>2, <1>3
<1> QED
  BY <1>3, <1>4, <1>5, <1>6, <1>7 DEF Partition, u, v

\* cache_find_and_front.
LEMMA NewestLive ==
  ASSUME NEW Data, NEW c, Live(c, Data), NEW s \in Used(c)
  PROVE  LET d == ToNewest(c, s)
         IN  /\ Live(d, Data) /\ Used(d) = Used(c) /\ d.store = c.store
             /\ d.cache = Append(Unlinked(c.cache, s), s)
<1> DEFINE d == ToNewest(c, s)
           u == Append(Unlinked(c.cache, s), s)
<1>1. PICK k \in DOMAIN c.cache : s = c.cache[k]
  BY DEF Used
<1>2. c \in CacheOf(Data) /\ c.init
  BY DEF Live
<1>3. u \in Seq(Slot) /\ Partition(u, c.tracker) /\ \A t : In(t, u) <=> In(t, c.cache)
  BY <1>1, LiveParts, RelinkedPartition
<1>4. d = [c EXCEPT !.cache = u]
  BY <1>2 DEF ToNewest, SeenLast, CacheOf
<1> HIDE DEF u
<1>5. /\ d \in CacheOf(Data) /\ d.init /\ d.cache = u /\ d.tracker = c.tracker
      /\ d.store = c.store
  BY <1>2, <1>3, <1>4 DEF CacheOf
<1> HIDE DEF d
<1>6. Used(d) = Used(c)
  <2>1. \A t : t \in Used(d) <=> t \in Used(c)
    BY <1>3, <1>5, InUse
  <2> QED
    BY <2>1
<1>7. Sound(d)
  BY <1>3, <1>5, <1>6 DEF Live, Sound
<1> QED
  BY <1>5, <1>6, <1>7 DEF Live, d, u

\* cache_insert_and_evict of a key that is not there: the new entry is added after
\* those that stay, and a full table loses the first.
LEMMA EvictedLive ==
  ASSUME NEW Data, NEW c, Live(c, Data), NEW k \in Key, NEW x \in Data,
         Find(c, k) = NoSlot
  PROVE  LET d == InsertAndEvict(c, k, x)
             full == Len(c.cache) >= max_size
         IN  /\ Live(d, Data)
             /\ full => Head(c.cache) \in Used(c) /\ Len(c.cache) = max_size
             /\ \E n \in Used(d) :
                  /\ d.store[n].key = k /\ d.store[n].data = x
                  /\ d.cache = Append(IF full THEN Unlinked(c.cache, Head(c.cache)) ELSE c.cache, n)
                  /\ Used(d) = (IF full THEN Used(c) \ {Head(c.cache)} ELSE Used(c)) \cup {n}
                  /\ n \notin (IF full THEN Used(c) \ {Head(c.cache)} ELSE Used(c))
                  /\ \A s \in Used(d) \ {n} : d.store[s] = c.store[s]
<1> DEFINE d == InsertAndEvict(c, k, x)
           full == Len(c.cache) >= max_size
           q == c.cache
           e == IF full THEN RemoveEntry(c, Head(c.cache)) ELSE c
<1>1. \A s \in Used(c) : c.store[s].key # k
  BY FindProperties
<1>2. /\ Live(e, Data) /\ Len(e.cache) < max_size
      /\ e.cache = IF full THEN Unlinked(c.cache, Head(c.cache)) ELSE c.cache
      /\ Used(e) = IF full THEN Used(c) \ {Head(c.cache)} ELSE Used(c)
      /\ full => Head(c.cache) \in Used(c) /\ Len(c.cache) = max_size
      /\ \A s \in Used(e) : e.store[s] = c.store[s]
  <2>1. q \in Seq(Slot) /\ Partition(q, c.tracker) /\ c.tracker \in Seq(Slot)
    BY LiveParts
  <2>2. CASE Len(q) >= max_size
    <3> HIDE DEF q
    <3>1. Len(q) \in Nat /\ Len(c.tracker) \in Nat /\ Len(q) + Len(c.tracker) = max_size
      BY <2>1, SequenceShape DEF Partition
    <3>2. Len(q) = max_size /\ Len(q) - 1 < max_size /\ 1 \in DOMAIN q /\ Head(q) = q[1]
      BY <2>1, <2>2, <3>1, CacheAssumption, SequenceShape
    <3>3. Head(c.cache) \in Used(c)
      BY <3>2 DEF Used, q
    <3>4. full /\ e = RemoveEntry(c, Head(c.cache))
      BY <2>2 DEF q
    <3> HIDE DEF e, full
    <3>5. /\ Live(e, Data) /\ Used(e) = Used(c) \ {Head(c.cache)} /\ Len(e.cache) = Len(q) - 1
          /\ e.cache = Unlinked(c.cache, Head(c.cache))
          /\ \A s \in Used(e) : e.store[s] = c.store[s]
      BY <3>3, <3>4, RemoveLive DEF q
    <3> QED
      BY <3>2, <3>3, <3>4, <3>5 DEF q
  <2>3. CASE ~(Len(q) >= max_size)
    <3> HIDE DEF q
    <3>1. Len(q) < max_size
      BY <2>1, <2>3, CacheAssumption
    <3>2. e = c /\ ~full
      BY <2>3 DEF q
    <3> HIDE DEF e, full
    <3> QED
      BY <3>1, <3>2 DEF q
  <2> QED
    BY <2>2, <2>3
<1>3. \A s \in Used(e) : e.store[s].key # k
  <2> HIDE DEF e
  <2>1. Used(e) \subseteq Used(c)
    BY <1>2
  <2> QED
    BY <1>1, <1>2, <2>1
<1>4. d = Allocated(e, k, x)
  BY LiveParts DEF InsertAndEvict
<1> HIDE DEF e, d, full
<1>5. PICK n \in Used(d) : /\ Live(d, Data) /\ d.cache = Append(e.cache, n)
                           /\ Used(d) = Used(e) \cup {n} /\ n \notin Used(e)
                           /\ d.store[n].key = k /\ d.store[n].data = x
                           /\ \A s \in Used(e) : d.store[s] = e.store[s]
  BY <1>2, <1>3, <1>4, AllocatedLive
<1>6. \A s \in Used(d) \ {n} : d.store[s] = c.store[s]
  BY <1>2, <1>5
<1> QED
  BY <1>2, <1>5, <1>6 DEF d, full

\* cache_insert_and_evict without a value.
LEMMA InsertAndEvictLive ==
  ASSUME NEW Data, NEW c, Live(c, Data), NEW k \in Key, NEW x \in Data
  PROVE  LET d == InsertAndEvict(c, k, x)
         IN  /\ Live(d, Data)
             /\ \E s \in Used(d) : d.store[s].key = k
<1> DEFINE d == InsertAndEvict(c, k, x)
<1>1. CASE Find(c, k) # NoSlot
  <2>1. Find(c, k) \in Used(c) /\ c.store[Find(c, k)].key = k
    BY <1>1, FindProperties
  <2>2. d = ToNewest(c, Find(c, k))
    BY <1>1, LiveParts DEF InsertAndEvict
  <2> HIDE DEF d
  <2>3. Live(d, Data) /\ Used(d) = Used(c) /\ d.store = c.store
    BY <2>1, <2>2, NewestLive
  <2> QED
    BY <2>1, <2>3 DEF d
<1>2. CASE Find(c, k) = NoSlot
  BY <1>2, EvictedLive
<1> QED
  BY <1>1, <1>2

-----------------------------------------------------------------------------
(***************************************************************************)
(* The order of the used slots.                                            *)
(***************************************************************************)

\* s was added to q before t.
Before(q, s, t) == \E i, j \in DOMAIN q : i < j /\ q[i] = s /\ q[j] = t

\* HASH_DEL keeps the order of what stays.
LEMMA UnlinkedOrder ==
  ASSUME NEW q \in Seq(Slot), NEW k \in DOMAIN q,
         \A i, j \in DOMAIN q : q[i] = q[j] => i = j,
         NEW s, NEW t, Before(Unlinked(q, q[k]), s, t)
  PROVE  Before(q, s, t)
<1> DEFINE u == [i \in 1 .. Len(q) - 1 |-> IF i < k THEN q[i] ELSE q[i + 1]]
<1>1. (CHOOSE i \in DOMAIN q : q[i] = q[k]) = k
  OBVIOUS
<1>2. Unlinked(q, q[k]) = u
  BY <1>1 DEF Unlinked
<1>3. Len(q) \in Nat /\ DOMAIN q = 1 .. Len(q) /\ k \in 1 .. Len(q)
  BY SequenceShape
<1>4. DOMAIN u = 1 .. Len(q) - 1
      /\ \A i \in 1 .. Len(q) - 1 : u[i] = IF i < k THEN q[i] ELSE q[i + 1]
  OBVIOUS
<1> HIDE DEF u
<1>5. PICK i \in DOMAIN u, j \in DOMAIN u : i < j /\ u[i] = s /\ u[j] = t
  BY <1>2 DEF Before
<1> DEFINE up(n) == IF n < k THEN n ELSE n + 1
<1>6. up(i) \in DOMAIN q /\ up(j) \in DOMAIN q /\ up(i) < up(j)
  BY <1>3, <1>4, <1>5
<1>7. q[up(i)] = s /\ q[up(j)] = t
  BY <1>4, <1>5
<1> QED
  BY <1>6, <1>7 DEF Before

\* What is added comes after what was there.
LEMMA AppendedOrder ==
  ASSUME NEW q \in Seq(Slot), NEW n \in Slot, NEW s, NEW t, Before(Append(q, n), s, t)
  PROVE  Before(q, s, t) \/ (In(s, q) /\ t = n)
<1> DEFINE u == Append(q, n)
<1>1. /\ Len(q) \in Nat /\ DOMAIN q = 1 .. Len(q) /\ DOMAIN u = 1 .. Len(q) + 1
      /\ \A i \in 1 .. Len(q) : u[i] = q[i]
      /\ u[Len(q) + 1] = n
  BY AppendProperties, SequenceShape
<1> HIDE DEF u
<1>2. PICK i \in DOMAIN u, j \in DOMAIN u : i < j /\ u[i] = s /\ u[j] = t
  BY DEF Before, u
<1>3. i \in DOMAIN q /\ q[i] = s
  BY <1>1, <1>2
<1>4. CASE j \in DOMAIN q
  BY <1>1, <1>2, <1>3, <1>4 DEF Before
<1>5. CASE j \notin DOMAIN q
  BY <1>1, <1>2, <1>3, <1>5 DEF In
<1> QED
  BY <1>4, <1>5
=============================================================================
