----------------------------- MODULE RelayProofs -----------------------------
(***************************************************************************)
(* The server's table of users accounts for every entry, its name hash is  *)
(* sound and the table behaves as UserDirectory, for every capacity, every *)
(* set of clients and names, and every length of the closest array.        *)
(*                                                                         *)
(* The loop over the closest array is a recursive function.  That such a   *)
(* function exists, and what holds after each of its turns, is proved from *)
(* the least turn it does not hold for.                                    *)
(***************************************************************************)
EXTENDS DamageRelay, SequenceTheorems, WellFoundedInduction, TLAPS

-----------------------------------------------------------------------------
(***************************************************************************)
(* Numbers.                                                                *)
(***************************************************************************)

\* The order of the natural numbers is well-founded.
LEMMA LeastNumber ==
  ASSUME NEW T, T \subseteq Nat, T # {}
  PROVE  \E m \in T : \A k \in T : m <= k
<1> DEFINE R == {ss \in Nat \X Nat : ss[1] < ss[2]}
<1>1. OpToRel(<, Nat) = R
  BY DEF OpToRel
<1>2. IsWellFoundedOn(R, Nat)
  BY <1>1, NatLessThanWellFounded
<1>3. \A k, m \in Nat : k < m => <<k, m>> \in R
  OBVIOUS
<1> HIDE DEF R
<1>4. PICK m \in T : \A k \in T : ~(<<k, m>> \in R)
  BY <1>2, WFMin
<1>5. \A k \in T : m <= k
  <2> SUFFICES ASSUME NEW k \in T
               PROVE  m <= k
    OBVIOUS
  <2>1. ~(k < m)
    BY <1>3, <1>4
  <2> QED
    BY <2>1
<1> QED
  BY <1>5

\* Induction: a set that has 0 and, with each number, the next one.
LEMMA UpTo ==
  ASSUME NEW n \in Nat, NEW G, 0 \in G, \A i \in 1 .. n : i - 1 \in G => i \in G
  PROVE  \A i \in 0 .. n : i \in G
<1> DEFINE T == {i \in 0 .. n : i \notin G}
<1>1. SUFFICES ASSUME T # {}
               PROVE  FALSE
  OBVIOUS
<1>2. T \subseteq Nat
  OBVIOUS
<1>3. PICK m \in T : \A k \in T : m <= k
  BY <1>1, <1>2, LeastNumber
<1>4. m \in 0 .. n /\ m # 0
  OBVIOUS
<1>5. m - 1 \in G
  BY <1>3, <1>4
<1> QED
  BY <1>4, <1>5

-----------------------------------------------------------------------------
(***************************************************************************)
(* Sequences.                                                              *)
(***************************************************************************)

\* s is in the sequence q.
In(s, q) == \E i \in DOMAIN q : q[i] = s

\* No element of q is twice in it.
Distinct(q) == \A i, j \in DOMAIN q : q[i] = q[j] => i = j

\* s was added to q before t.
Before(q, s, t) == \E i, j \in DOMAIN q : i < j /\ q[i] = s /\ q[j] = t

LEMMA SequenceShape ==
  ASSUME NEW S, NEW q \in Seq(S)
  PROVE  Len(q) \in Nat /\ DOMAIN q = 1 .. Len(q) /\ \A i \in DOMAIN q : q[i] \in S
  OBVIOUS

LEMMA FunctionIsSequence ==
  ASSUME NEW S, NEW n \in Nat, NEW f \in [1 .. n -> S]
  PROVE  f \in Seq(S) /\ Len(f) = n
  OBVIOUS

\* The sequences of bounded length.
LEMMA BoundedShape ==
  ASSUME NEW S, NEW n \in Nat, NEW q
  PROVE  q \in BoundedSeq(S, n) <=> q \in Seq(S) /\ Len(q) <= n
<1>1. q \in BoundedSeq(S, n) => q \in Seq(S) /\ Len(q) <= n
  BY DEF BoundedSeq, SeqOf
<1>2. q \in Seq(S) /\ Len(q) <= n => q \in BoundedSeq(S, n)
  BY DEF BoundedSeq, SeqOf
<1> QED
  BY <1>1, <1>2

\* ToSet is the set of what is in a sequence.
LEMMA InSet ==
  ASSUME NEW q, NEW s
  PROVE  s \in ToSet(q) <=> In(s, q)
  BY DEF ToSet, In

\* What HASH_DEL leaves, element by element.
LEMMA UnlinkedAt ==
  ASSUME NEW S, NEW q \in Seq(S), Distinct(q), NEW k \in DOMAIN q
  PROVE  LET u == Unlinked(q, q[k])
         IN  /\ u \in Seq(S) /\ Len(u) = Len(q) - 1 /\ DOMAIN u = 1 .. Len(q) - 1
             /\ \A i \in 1 .. Len(q) - 1 : u[i] = IF i < k THEN q[i] ELSE q[i + 1]
<1> DEFINE u == [i \in 1 .. Len(q) - 1 |-> IF i < k THEN q[i] ELSE q[i + 1]]
<1>1. (CHOOSE i \in DOMAIN q : q[i] = q[k]) = k
  BY DEF Distinct
<1>2. Unlinked(q, q[k]) = u
  BY <1>1 DEF Unlinked
<1>3. Len(q) \in Nat \ {0} /\ DOMAIN q = 1 .. Len(q) /\ k \in 1 .. Len(q)
      /\ \A i \in 1 .. Len(q) : q[i] \in S
  BY SequenceShape
<1>4. u \in [1 .. Len(q) - 1 -> S]
  BY <1>3
<1>5. \A i \in 1 .. Len(q) - 1 : u[i] = IF i < k THEN q[i] ELSE q[i + 1]
  OBVIOUS
<1> HIDE DEF u
<1>6. Len(q) - 1 \in Nat
  BY <1>3
<1>7. u \in Seq(S) /\ Len(u) = Len(q) - 1 /\ DOMAIN u = 1 .. Len(q) - 1
  BY <1>4, <1>6, FunctionIsSequence, SequenceShape
<1> QED
  BY <1>2, <1>5, <1>7

\* An element that is used becomes the last; nothing else changes its order.
LEMMA SeenLastAt ==
  ASSUME NEW S, NEW q \in Seq(S), Distinct(q), NEW k \in DOMAIN q
  PROVE  LET u == SeenLast(q, q[k])
         IN  /\ u \in Seq(S) /\ Len(u) = Len(q) /\ DOMAIN u = DOMAIN q
             /\ \A i \in DOMAIN q :
                  u[i] = IF i < k THEN q[i] ELSE IF i < Len(q) THEN q[i + 1] ELSE q[k]
<1> DEFINE v == Unlinked(q, q[k])
           u == SeenLast(q, q[k])
<1>1. /\ v \in Seq(S) /\ Len(v) = Len(q) - 1 /\ DOMAIN v = 1 .. Len(q) - 1
      /\ \A i \in 1 .. Len(q) - 1 : v[i] = IF i < k THEN q[i] ELSE q[i + 1]
  BY UnlinkedAt
<1>2. /\ Len(q) \in Nat \ {0} /\ DOMAIN q = 1 .. Len(q) /\ k \in 1 .. Len(q) /\ q[k] \in S
  BY SequenceShape
<1>3. u = Append(v, q[k])
  BY DEF SeenLast
<1> HIDE DEF u, v
<1>4. /\ u \in Seq(S) /\ Len(u) = Len(v) + 1 /\ DOMAIN u = 1 .. Len(v) + 1
      /\ \A i \in 1 .. Len(v) : u[i] = v[i]
      /\ u[Len(v) + 1] = q[k]
  BY <1>1, <1>2, <1>3, AppendProperties, SequenceShape
<1>5. Len(u) = Len(q) /\ DOMAIN u = DOMAIN q
  BY <1>1, <1>2, <1>4
<1>6. \A i \in DOMAIN q :
         u[i] = IF i < k THEN q[i] ELSE IF i < Len(q) THEN q[i + 1] ELSE q[k]
  BY <1>1, <1>2, <1>4
<1> QED
  BY <1>4, <1>5, <1>6 DEF u

\* The same as facts about what is in the sequence, and in which order.
LEMMA SeenLastShape ==
  ASSUME NEW S, NEW q \in Seq(S), Distinct(q), NEW s, In(s, q)
  PROVE  LET u == SeenLast(q, s)
         IN  /\ u \in Seq(S) /\ Len(u) = Len(q) /\ Distinct(u)
             /\ \A t : In(t, u) <=> In(t, q)
             /\ \A x, y : Before(u, x, y) => x # s /\ (Before(q, x, y) \/ y = s)
<1>1. PICK k \in DOMAIN q : q[k] = s
  BY DEF In
<1> DEFINE u == SeenLast(q, s)
<1>2. /\ u \in Seq(S) /\ Len(u) = Len(q) /\ DOMAIN u = DOMAIN q
      /\ \A i \in DOMAIN q :
           u[i] = IF i < k THEN q[i] ELSE IF i < Len(q) THEN q[i + 1] ELSE q[k]
  BY <1>1, SeenLastAt
<1>3. Len(q) \in Nat /\ DOMAIN q = 1 .. Len(q)
  BY SequenceShape
<1> HIDE DEF u
<1> DEFINE from(i) == IF i < k THEN i ELSE IF i < Len(q) THEN i + 1 ELSE k
           to(j) == IF j < k THEN j ELSE IF j = k THEN Len(q) ELSE j - 1
<1>4. \A i \in DOMAIN q : from(i) \in DOMAIN q /\ u[i] = q[from(i)]
  BY <1>2, <1>3
<1>5. \A j \in DOMAIN q : to(j) \in DOMAIN q /\ u[to(j)] = q[j]
  BY <1>2, <1>3
<1>6. \A i, j \in DOMAIN q : from(i) = from(j) => i = j
  BY <1>3
<1>7. Distinct(u)
  <2>1. \A i, j \in DOMAIN u : u[i] = u[j] => from(i) = from(j)
    BY <1>2, <1>4 DEF Distinct
  <2> HIDE DEF from
  <2> QED
    BY <1>2, <1>6, <2>1 DEF Distinct
<1>8. \A t : In(t, u) <=> In(t, q)
  <2> HIDE DEF from, to
  <2> QED
    BY <1>2, <1>4, <1>5 DEF In
<1>9. ASSUME NEW x, NEW y, Before(u, x, y)
      PROVE  x # s /\ (Before(q, x, y) \/ y = s)
  <2>1. PICK i \in DOMAIN q, j \in DOMAIN q : i < j /\ u[i] = x /\ u[j] = y
    BY <1>2, <1>9 DEF Before
  <2>2. i < Len(q) /\ from(i) # k /\ (j = Len(q) \/ from(i) < from(j)) /\ from(Len(q)) = k
    BY <1>3, <2>1
  <2>3. q[from(i)] = x /\ q[from(j)] = y /\ from(i) \in DOMAIN q /\ from(j) \in DOMAIN q
    BY <1>4, <2>1
  <2> HIDE DEF from
  <2>4. x # s
    BY <1>1, <2>2, <2>3 DEF Distinct
  <2> QED
    BY <1>1, <2>2, <2>3, <2>4 DEF Before
<1> QED
  BY <1>2, <1>7, <1>8, <1>9 DEF u

\* A new element comes after those that are there.
LEMMA AppendedShape ==
  ASSUME NEW S, NEW q \in Seq(S), Distinct(q), NEW s \in S, ~In(s, q)
  PROVE  LET u == Append(q, s)
         IN  /\ u \in Seq(S) /\ Len(u) = Len(q) + 1 /\ Distinct(u)
             /\ \A t : In(t, u) <=> t = s \/ In(t, q)
             /\ \A x, y : Before(u, x, y) => x # s /\ (Before(q, x, y) \/ y = s)
<1> DEFINE u == Append(q, s)
<1>1. /\ Len(q) \in Nat /\ DOMAIN q = 1 .. Len(q)
  BY SequenceShape
<1>2. /\ u \in Seq(S) /\ Len(u) = Len(q) + 1 /\ DOMAIN u = 1 .. Len(q) + 1
      /\ \A i \in 1 .. Len(q) : u[i] = q[i]
      /\ u[Len(q) + 1] = s
  BY <1>1, AppendProperties, SequenceShape
<1> HIDE DEF u
<1>3. Distinct(u)
  BY <1>1, <1>2 DEF Distinct, In
<1>4. \A t : In(t, u) <=> t = s \/ In(t, q)
  BY <1>1, <1>2 DEF In
<1>5. ASSUME NEW x, NEW y, Before(u, x, y)
      PROVE  x # s /\ (Before(q, x, y) \/ y = s)
  <2>1. PICK i \in DOMAIN u, j \in DOMAIN u : i < j /\ u[i] = x /\ u[j] = y
    BY <1>5 DEF Before
  <2>2. i \in DOMAIN q /\ q[i] = x /\ (j = Len(q) + 1 \/ (j \in DOMAIN q /\ q[j] = y))
    BY <1>1, <1>2, <2>1
  <2> QED
    BY <1>2, <2>1, <2>2 DEF Before, In
<1> QED
  BY <1>2, <1>3, <1>4, <1>5 DEF u

\* The head leaves; the others keep their order.
LEMMA TailShape ==
  ASSUME NEW S, NEW q \in Seq(S), Distinct(q), Len(q) > 0
  PROVE  LET u == Tail(q)
         IN  /\ u \in Seq(S) /\ Len(u) = Len(q) - 1 /\ Distinct(u)
             /\ Head(q) \in S /\ In(Head(q), q)
             /\ \A t : In(t, u) <=> t # Head(q) /\ In(t, q)
             /\ \A x, y : Before(u, x, y) => Before(q, x, y)
<1> DEFINE u == Tail(q)
<1>1. Len(q) \in Nat \ {0} /\ DOMAIN q = 1 .. Len(q) /\ Head(q) = q[1] /\ 1 \in DOMAIN q
  BY SequenceShape
<1>2. /\ u \in Seq(S) /\ Len(u) = Len(q) - 1 /\ DOMAIN u = 1 .. Len(q) - 1
      /\ \A i \in 1 .. Len(q) - 1 : u[i] = q[i + 1]
  BY <1>1, HeadTailProperties, SequenceShape
<1> HIDE DEF u
<1>3. \A i \in DOMAIN u : i + 1 \in DOMAIN q /\ u[i] = q[i + 1]
  BY <1>1, <1>2
<1>4. Distinct(u)
  BY <1>1, <1>2, <1>3 DEF Distinct
<1>5. \A t : In(t, u) <=> t # Head(q) /\ In(t, q)
  <2>1. \A i \in DOMAIN u : u[i] # q[1]
    BY <1>1, <1>2, <1>3 DEF Distinct
  <2>2. \A j \in DOMAIN q : j # 1 => j - 1 \in DOMAIN u /\ u[j - 1] = q[j]
    BY <1>1, <1>2
  <2> QED
    BY <1>1, <1>3, <2>1, <2>2 DEF In
<1>6. ASSUME NEW x, NEW y, Before(u, x, y)
      PROVE  Before(q, x, y)
  <2>1. PICK i \in DOMAIN u, j \in DOMAIN u : i < j /\ u[i] = x /\ u[j] = y
    BY <1>6 DEF Before
  <2>2. i + 1 < j + 1
    BY <1>2, <2>1
  <2> QED
    BY <1>3, <2>1, <2>2 DEF Before
<1>7. Head(q) \in S /\ In(Head(q), q)
  BY <1>1, SequenceShape DEF In
<1> QED
  BY <1>2, <1>4, <1>5, <1>6, <1>7 DEF u

\* The last element leaves.
LEMMA FrontShape ==
  ASSUME NEW S, NEW q \in Seq(S), Distinct(q), Len(q) > 0
  PROVE  LET u == Front(q)
         IN  /\ u \in Seq(S) /\ Len(u) = Len(q) - 1 /\ Distinct(u)
             /\ Last(q) \in S /\ In(Last(q), q)
             /\ \A t : In(t, u) <=> t # Last(q) /\ In(t, q)
<1> DEFINE u == Front(q)
           n == Len(q)
<1>1. n \in Nat \ {0} /\ DOMAIN q = 1 .. n /\ Last(q) = q[n] /\ n \in DOMAIN q
  BY SequenceShape DEF Last
<1>2. /\ u \in Seq(S) /\ Len(u) = n - 1 /\ DOMAIN u = 1 .. n - 1
      /\ \A i \in 1 .. n - 1 : u[i] = q[i]
  <2>1. \A i \in 1 .. n - 1 : q[i] \in S
    BY <1>1, SequenceShape
  <2> QED
    BY <1>1, <2>1, SubSeqProperties, SequenceShape DEF Front
<1> HIDE DEF u, n
<1>3. \A i \in DOMAIN u : i \in DOMAIN q /\ u[i] = q[i] /\ i # n
  BY <1>1, <1>2
<1>4. \A j \in DOMAIN q : j # n => j \in DOMAIN u
  BY <1>1, <1>2
<1>5. Distinct(u)
  BY <1>3 DEF Distinct
<1>6. \A t : In(t, u) <=> t # Last(q) /\ In(t, q)
  BY <1>1, <1>3, <1>4 DEF In, Distinct
<1>7. Last(q) \in S /\ In(Last(q), q)
  BY <1>1, SequenceShape DEF In
<1> QED
  BY <1>2, <1>5, <1>6, <1>7 DEF u, n

-----------------------------------------------------------------------------
(***************************************************************************)
(* The inductive invariant.                                                *)
(***************************************************************************)

Table ==
  [store : [Slot -> Entry], cache : Seq(Slot), tracker : Seq(Slot), lookup : SUBSET Slot]

Used(l) == ToSet(l.cache)

\* Every slot is in use, once, or on the stack, once.
Partition(q, p) ==
  /\ Distinct(q)
  /\ Distinct(p)
  /\ \A s : ~(In(s, q) /\ In(s, p))
  /\ \A s \in Slot : In(s, q) \/ In(s, p)
  /\ Len(q) + Len(p) = MAX_CACHE_SIZE

\* The entries: a used one knows its index and its endpoint, and has it for
\* itself; one that is not used is cleared.
Live(l) ==
  /\ l \in Table
  /\ Partition(l.cache, l.tracker)
  /\ \A s \in Used(l) : l.store[s].idx = s /\ l.store[s].key \in Endpoint
  /\ \A s \in Slot \ Used(l) : l.store[s] = Zeroed
  /\ \A s, t \in Used(l) : l.store[s].key = l.store[t].key => s = t

\* The name hash: only used entries are in it, under different names.  An entry
\* outside S that ever claimed a name claimed the one it has.
Named(l, S) ==
  /\ l.lookup \subseteq Used(l)
  /\ \A s \in l.lookup : l.store[s].he \in Name
  /\ \A s, t \in l.lookup : l.store[s].he = l.store[t].he => s = t
  /\ \A s \in Slot \ S : l.store[s].he \in {NoName, l.store[s].name}

\* Nobody outside S that claimed the name of an entry of the name hash was seen
\* after it.
Latest(l, S) ==
  \A s, t : Before(l.cache, s, t) /\ s \in l.lookup /\ t \notin S =>
              l.store[s].he # l.store[t].he

\* The table between two operations, but for entries S that are about to claim
\* their names.
Good(l, S) == Live(l) /\ Named(l, S) /\ Latest(l, S)

\* The store with another entry in s; an entry that claims n; one with a report.
At(f, s, e) == [f EXCEPT ![s] = e]

Claims(e, n) == [e EXCEPT !.he = n]

Reports(e, r) == [e EXCEPT !.age = 0, !.report = r]

\* The entry of k in slot s before it is known by a name.
Fresh(s, k) == [Zeroed EXCEPT !.idx = s, !.key = k]

\* The inductive invariant.
IInv == Good(lru, {}) /\ answer \in Answer

-----------------------------------------------------------------------------
(***************************************************************************)
(* The slots.                                                              *)
(***************************************************************************)

LEMMA InUse ==
  ASSUME NEW l, NEW s
  PROVE  s \in Used(l) <=> In(s, l.cache)
  BY InSet DEF Used

LEMMA AtShape ==
  ASSUME NEW f \in [Slot -> Entry], NEW s \in Slot, NEW e \in Entry
  PROVE  /\ At(f, s, e) \in [Slot -> Entry]
         /\ \A t \in Slot : At(f, s, e)[t] = IF t = s THEN e ELSE f[t]
  BY DEF At

LEMMA ZeroedType == Zeroed \in Entry
  BY CacheAssumption DEF Zeroed, Entry

\* What a live table is made of.
LEMMA LiveParts ==
  ASSUME NEW l, Live(l)
  PROVE  /\ l \in Table
         /\ l.store \in [Slot -> Entry] /\ l.cache \in Seq(Slot) /\ l.tracker \in Seq(Slot)
         /\ l.lookup \subseteq Slot
         /\ Distinct(l.cache) /\ Partition(l.cache, l.tracker)
         /\ Used(l) \subseteq Slot
<1>1. /\ l \in Table
      /\ l.store \in [Slot -> Entry] /\ l.cache \in Seq(Slot) /\ l.tracker \in Seq(Slot)
      /\ l.lookup \subseteq Slot
  BY DEF Live, Table
<1>2. Used(l) \subseteq Slot
  BY <1>1, SequenceShape DEF Used, ToSet
<1> QED
  BY <1>1, <1>2 DEF Live, Partition

\* lru_create: every slot is on the stack.
LEMMA CreatedGood == Good(Created, {})
<1> DEFINE stack == [i \in 1 .. MAX_CACHE_SIZE |-> MAX_CACHE_SIZE - i]
<1>1. stack \in [1 .. MAX_CACHE_SIZE -> Slot] /\ MAX_CACHE_SIZE \in Nat
  BY CacheAssumption DEF Slot
<1>2. \A i \in 1 .. MAX_CACHE_SIZE : stack[i] = MAX_CACHE_SIZE - i
  OBVIOUS
<1>3. /\ Created.store = [s \in Slot |-> Zeroed] /\ Created.cache = <<>>
      /\ Created.tracker = stack /\ Created.lookup = {}
      /\ Created = [store |-> [s \in Slot |-> Zeroed], cache |-> <<>>,
                    tracker |-> stack, lookup |-> {}]
  BY DEF Created
<1> HIDE DEF stack
<1>4. stack \in Seq(Slot) /\ Len(stack) = MAX_CACHE_SIZE /\ DOMAIN stack = 1 .. MAX_CACHE_SIZE
  BY <1>1, FunctionIsSequence, SequenceShape
<1>5. Created \in Table
  <2>1. [s \in Slot |-> Zeroed] \in [Slot -> Entry] /\ <<>> \in Seq(Slot)
    BY ZeroedType
  <2> QED
    BY <1>3, <1>4, <2>1 DEF Table
<1>6. \A s : ~In(s, Created.cache)
  BY <1>3 DEF In
<1>7. Used(Created) = {}
  BY <1>6, InUse
<1>8. Distinct(stack)
  BY <1>2, <1>4, CacheAssumption DEF Distinct
<1>9. \A s \in Slot : In(s, stack)
  <2> SUFFICES ASSUME NEW s \in Slot
               PROVE  In(s, stack)
    OBVIOUS
  <2>1. MAX_CACHE_SIZE - s \in DOMAIN stack /\ stack[MAX_CACHE_SIZE - s] = s
    BY <1>1, <1>2, <1>4 DEF Slot
  <2> QED
    BY <2>1 DEF In
<1>10. Partition(Created.cache, Created.tracker)
  <2>1. Len(Created.cache) + Len(Created.tracker) = MAX_CACHE_SIZE
    BY <1>3, <1>4, <1>1
  <2>2. Distinct(Created.cache)
    BY <1>3 DEF Distinct
  <2> QED
    BY <1>3, <1>6, <1>8, <1>9, <2>1, <2>2 DEF Partition
<1>11. \A s \in Slot : Created.store[s] = Zeroed
  BY <1>3
<1>12. Live(Created)
  BY <1>5, <1>7, <1>10, <1>11 DEF Live
<1>13. Named(Created, {})
  BY <1>3, <1>11 DEF Named, Zeroed
<1>14. Latest(Created, {})
  BY <1>3 DEF Latest
<1> QED
  BY <1>12, <1>13, <1>14 DEF Good

\* Who is found under an endpoint has it.
LEMMA SlotOfKnown ==
  ASSUME NEW l, NEW k, Known(l, k)
  PROVE  SlotOf(l, k) \in Used(l) /\ l.store[SlotOf(l, k)].key = k
  BY DEF Known, SlotOf, Used

\* Who has an endpoint is found under it.
LEMMA SlotOfUnique ==
  ASSUME NEW l, Live(l), NEW s \in Used(l)
  PROVE  Known(l, l.store[s].key) /\ SlotOf(l, l.store[s].key) = s
<1>1. Known(l, l.store[s].key)
  BY DEF Known, Used
<1> QED
  BY <1>1, SlotOfKnown DEF Live

\* A user that is seen: its slot is moved to the end.
LEMMA ToBackLive ==
  ASSUME NEW l, Live(l), NEW s \in Used(l)
  PROVE  LET d == ToBack(l, s)
         IN  /\ Live(d) /\ Used(d) = Used(l)
             /\ d.store = l.store /\ d.lookup = l.lookup /\ d.cache = SeenLast(l.cache, s)
             /\ d.tracker = l.tracker
             /\ \A x, y : Before(d.cache, x, y) => x # s /\ (Before(l.cache, x, y) \/ y = s)
<1> DEFINE d == ToBack(l, s)
           q == SeenLast(l.cache, s)
<1>1. /\ q \in Seq(Slot) /\ Len(q) = Len(l.cache) /\ Distinct(q)
      /\ \A t : In(t, q) <=> In(t, l.cache)
      /\ \A x, y : Before(q, x, y) => x # s /\ (Before(l.cache, x, y) \/ y = s)
  BY LiveParts, InUse, SeenLastShape
<1>2. d = [l EXCEPT !.cache = q]
  BY LiveParts DEF ToBack, Table
<1> HIDE DEF q
<1>3. /\ d \in Table /\ d.cache = q /\ d.store = l.store /\ d.lookup = l.lookup
      /\ d.tracker = l.tracker
  BY <1>1, <1>2, LiveParts DEF Table
<1> HIDE DEF d
<1>4. Used(d) = Used(l)
  <2>1. \A t : t \in Used(d) <=> t \in Used(l)
    BY <1>1, <1>3, InUse
  <2> QED
    BY <2>1
<1>5. Partition(d.cache, d.tracker)
  BY <1>1, <1>3, LiveParts DEF Partition
<1>6. Live(d)
  BY <1>3, <1>4, <1>5 DEF Live
<1> QED
  BY <1>1, <1>3, <1>4, <1>6 DEF d, q

\* cache_insert of a full table: the first slot is cleared and goes to the stack.
LEMMA EvictedGood ==
  ASSUME NEW l, Good(l, {}), Len(l.cache) >= MAX_CACHE_SIZE
  PROVE  LET d == EvictOldest(l)
             s == Head(l.cache)
         IN  /\ Good(d, {}) /\ s \in Used(l) /\ Used(d) = Used(l) \ {s}
             /\ d.store = At(l.store, s, Zeroed)
             /\ d.cache = Tail(l.cache) /\ d.lookup = l.lookup \ {s}
             /\ Len(d.cache) < MAX_CACHE_SIZE
<1> DEFINE d == EvictOldest(l)
           s == Head(l.cache)
           q == Tail(l.cache)
           p == Append(l.tracker, s)
           named == Registered(l, l.store[s].he) \cap {s}
           n == Len(l.cache)
           m == Len(l.tracker)
<1>1. Live(l) /\ Named(l, {}) /\ Latest(l, {})
  BY DEF Good
<1>2. n \in Nat /\ m \in Nat /\ n + m = MAX_CACHE_SIZE /\ MAX_CACHE_SIZE \in Nat \ {0}
      /\ n >= MAX_CACHE_SIZE
  BY <1>1, LiveParts, SequenceShape, CacheAssumption DEF Partition
<1> HIDE DEF n, m
<1>3. n = MAX_CACHE_SIZE /\ n > 0
  BY <1>2
<1>4. /\ q \in Seq(Slot) /\ Len(q) = n - 1 /\ Distinct(q)
      /\ s \in Slot /\ In(s, l.cache)
      /\ \A t : In(t, q) <=> t # s /\ In(t, l.cache)
      /\ \A x, y : Before(q, x, y) => Before(l.cache, x, y)
  BY <1>1, <1>3, LiveParts, TailShape DEF n
<1>5. ~In(s, l.tracker)
  BY <1>1, <1>4, LiveParts DEF Partition
<1>6. /\ p \in Seq(Slot) /\ Len(p) = m + 1 /\ Distinct(p)
      /\ \A t : In(t, p) <=> t = s \/ In(t, l.tracker)
  <2>1. Distinct(l.tracker) /\ l.tracker \in Seq(Slot)
    BY <1>1, LiveParts DEF Partition
  <2> HIDE DEF s
  <2> QED
    BY <1>4, <1>5, <2>1, AppendedShape DEF m
<1>7. s \in Used(l) /\ l.store[s].idx = s
  BY <1>1, <1>4, InUse DEF Live
<1>8. l.lookup \ named = l.lookup \ {s}
  BY DEF Registered
<1>9. d = [l EXCEPT !.lookup = l.lookup \ {s}, !.cache = q, !.tracker = p,
                    !.store = [l.store EXCEPT ![s] = Zeroed]]
  <2> DEFINE e == [l EXCEPT !.lookup = @ \ named, !.cache = Tail(@)]
  <2>1. d = EntryFree(e, s)
    BY DEF EvictOldest
  <2>2. e = [l EXCEPT !.lookup = l.lookup \ {s}, !.cache = q]
    BY <1>1, <1>8, LiveParts DEF Table
  <2> HIDE DEF q, p, s, named, e
  <2>3. e.tracker = l.tracker /\ e.store = l.store
    BY <1>1, <2>2, LiveParts DEF Table
  <2>4. d = [e EXCEPT !.tracker = p, !.store[s] = Zeroed]
    BY <1>1, <1>7, <2>1, <2>2, <2>3, LiveParts DEF EntryFree, Table, p
  <2> QED
    BY <1>1, <2>2, <2>3, <2>4, LiveParts DEF Table
<1> HIDE DEF q, p, s, named
<1>10. /\ d \in Table /\ d.cache = q /\ d.tracker = p /\ d.lookup = l.lookup \ {s}
       /\ d.store = At(l.store, s, Zeroed)
  <2> DEFINE f == At(l.store, s, Zeroed)
             k == l.lookup \ {s}
  <2>1. f \in [Slot -> Entry] /\ k \subseteq Slot
    BY <1>1, <1>4, LiveParts, ZeroedType, AtShape
  <2> HIDE DEF f, k
  <2>2. d = [l EXCEPT !.lookup = k, !.cache = q, !.tracker = p, !.store = f] /\ l \in Table
    BY <1>1, <1>9, LiveParts DEF f, k, At
  <2>4. d = [store |-> f, cache |-> q, tracker |-> p, lookup |-> k]
    BY <2>2 DEF Table
  <2>3. d \in Table /\ d.store = f /\ d.cache = q /\ d.tracker = p /\ d.lookup = k
    BY <1>1, <1>4, <1>6, <2>1, <2>4, LiveParts DEF Table
  <2> QED
    BY <2>3 DEF f, k
<1> HIDE DEF d
<1>11. \A t : t \in Used(d) <=> t # s /\ t \in Used(l)
  BY <1>4, <1>10, InUse
<1>12. Used(d) = Used(l) \ {s}
  BY <1>11
<1>13. \A t \in Slot : d.store[t] = IF t = s THEN Zeroed ELSE l.store[t]
  BY <1>1, <1>4, <1>10, LiveParts, ZeroedType, AtShape
<1>14. Partition(d.cache, d.tracker)
  <2>1. Len(q) + Len(p) = MAX_CACHE_SIZE
    BY <1>2, <1>4, <1>6
  <2>2. /\ \A t : ~(In(t, l.cache) /\ In(t, l.tracker))
        /\ \A t \in Slot : In(t, l.cache) \/ In(t, l.tracker)
    BY <1>1, LiveParts DEF Partition
  <2> QED
    BY <1>4, <1>6, <1>10, <2>1, <2>2 DEF Partition
<1>15. Live(d)
  BY <1>1, <1>10, <1>12, <1>13, <1>14, LiveParts DEF Live
<1>16. Named(d, {})
  BY <1>1, <1>10, <1>12, <1>13, LiveParts DEF Named, Zeroed
<1>17. Latest(d, {})
  <2> SUFFICES ASSUME NEW x, NEW y, Before(d.cache, x, y), x \in d.lookup
               PROVE  d.store[x].he # d.store[y].he
    BY DEF Latest
  <2>1. x # s /\ x \in l.lookup /\ x \in Slot /\ Before(l.cache, x, y)
    BY <1>1, <1>4, <1>10, LiveParts
  <2>2. In(y, d.cache)
    BY DEF Before, In
  <2>3. y # s /\ y \in Slot
    BY <1>1, <1>11, <2>2, InUse, LiveParts
  <2> QED
    BY <1>1, <1>13, <2>1, <2>3 DEF Latest
<1>18. Len(d.cache) < MAX_CACHE_SIZE
  BY <1>2, <1>3, <1>4, <1>10
<1> QED
  BY <1>7, <1>10, <1>12, <1>15, <1>16, <1>17, <1>18 DEF Good, d, q, p, s

\* entry_alloc: the top of the stack is used by k.
LEMMA AddedGood ==
  ASSUME NEW l, Good(l, {}), Len(l.cache) < MAX_CACHE_SIZE, NEW k \in Endpoint, ~Known(l, k)
  PROVE  LET s == Last(l.tracker)
             d == EntryAlloc(l, k)
         IN  /\ Good(d, {}) /\ s \in Slot /\ s \notin Used(l) /\ Used(d) = Used(l) \cup {s}
             /\ d.store = At(l.store, s, Fresh(s, k))
             /\ d.cache = Append(l.cache, s) /\ d.lookup = l.lookup
             /\ \A x, y : Before(d.cache, x, y) => x # s
<1> DEFINE s == Last(l.tracker)
           e == Fresh(s, k)
           d == EntryAlloc(l, k)
           q == Append(l.cache, s)
           p == Front(l.tracker)
           n == Len(l.cache)
           m == Len(l.tracker)
<1>1. Live(l) /\ Named(l, {}) /\ Latest(l, {})
  BY DEF Good
<1>2. n \in Nat /\ m \in Nat /\ n + m = MAX_CACHE_SIZE /\ MAX_CACHE_SIZE \in Nat \ {0}
      /\ n < MAX_CACHE_SIZE
  BY <1>1, LiveParts, SequenceShape, CacheAssumption DEF Partition
<1> HIDE DEF n, m
<1>3. m > 0 /\ Distinct(l.tracker) /\ l.tracker \in Seq(Slot)
  <2>1. m > 0
    BY <1>2
  <2> QED
    BY <1>1, <2>1, LiveParts DEF Partition
<1>4. /\ p \in Seq(Slot) /\ Len(p) = m - 1 /\ Distinct(p)
      /\ s \in Slot /\ In(s, l.tracker)
      /\ \A t : In(t, p) <=> t # s /\ In(t, l.tracker)
  BY <1>3, FrontShape DEF m
<1>5. ~In(s, l.cache) /\ s \notin Used(l)
  BY <1>1, <1>4, LiveParts, InUse DEF Partition
<1>6. l.store[s] = Zeroed
  BY <1>1, <1>4, <1>5 DEF Live
<1>7. /\ d = [l EXCEPT !.tracker = p, !.cache = q, !.store = [l.store EXCEPT ![s] = e]]
  BY <1>1, <1>4, <1>6, LiveParts DEF Table, EntryAlloc, Fresh
<1>8. e \in Entry /\ e.idx = s /\ e.key = k /\ e.he = NoName
  BY <1>4, ZeroedType DEF Entry, Zeroed, Fresh
<1> HIDE DEF e, p, s
<1>9. /\ q \in Seq(Slot) /\ Len(q) = n + 1 /\ Distinct(q)
      /\ \A t : In(t, q) <=> t = s \/ In(t, l.cache)
      /\ \A x, y : Before(q, x, y) => x # s /\ (Before(l.cache, x, y) \/ y = s)
  BY <1>1, <1>4, <1>5, LiveParts, AppendedShape DEF n
<1> HIDE DEF q, d
<1>10. /\ d \in Table /\ d.cache = q /\ d.tracker = p /\ d.lookup = l.lookup
       /\ d.store = At(l.store, s, e)
  <2> DEFINE f == At(l.store, s, e)
  <2>1. f \in [Slot -> Entry]
    BY <1>1, <1>4, <1>8, LiveParts, AtShape
  <2> HIDE DEF f
  <2>2. d = [l EXCEPT !.tracker = p, !.cache = q, !.store = f] /\ l \in Table
    BY <1>1, <1>7, LiveParts DEF f, At
  <2>4. d = [store |-> f, cache |-> q, tracker |-> p, lookup |-> l.lookup]
    BY <2>2 DEF Table
  <2>3. d \in Table /\ d.store = f /\ d.cache = q /\ d.tracker = p /\ d.lookup = l.lookup
    BY <1>1, <1>4, <1>9, <2>1, <2>4, LiveParts DEF Table
  <2> QED
    BY <2>3 DEF f
<1>11. \A t : t \in Used(d) <=> t = s \/ t \in Used(l)
  BY <1>9, <1>10, InUse
<1>12. Used(d) = Used(l) \cup {s}
  BY <1>11
<1>13. \A t \in Slot : d.store[t] = IF t = s THEN e ELSE l.store[t]
  BY <1>1, <1>4, <1>8, <1>10, LiveParts, AtShape
<1>14. Partition(d.cache, d.tracker)
  <2>1. Len(q) + Len(p) = MAX_CACHE_SIZE
    BY <1>2, <1>4, <1>9
  <2>2. /\ \A t : ~(In(t, l.cache) /\ In(t, l.tracker))
        /\ \A t \in Slot : In(t, l.cache) \/ In(t, l.tracker)
    BY <1>1, LiveParts DEF Partition
  <2> QED
    BY <1>4, <1>9, <1>10, <2>1, <2>2 DEF Partition
<1>15. \A t \in Used(l) : l.store[t].key # k
  BY DEF Known, Used
<1>16. Live(d)
  <2>1. \A t \in Used(d) : d.store[t].idx = t /\ d.store[t].key \in Endpoint
    BY <1>1, <1>8, <1>11, <1>13, <1>4, LiveParts DEF Live
  <2>2. \A t \in Slot \ Used(d) : d.store[t] = Zeroed
    BY <1>1, <1>11, <1>13 DEF Live
  <2>3. \A t, v \in Used(d) : d.store[t].key = d.store[v].key => t = v
    BY <1>1, <1>4, <1>8, <1>11, <1>13, <1>15, LiveParts DEF Live
  <2> QED
    BY <1>10, <1>14, <2>1, <2>2, <2>3 DEF Live
<1>17. Named(d, {})
  BY <1>1, <1>5, <1>8, <1>10, <1>12, <1>13, LiveParts DEF Named
<1>18. Latest(d, {})
  <2> SUFFICES ASSUME NEW x, NEW y, Before(d.cache, x, y), x \in d.lookup
               PROVE  d.store[x].he # d.store[y].he
    BY DEF Latest
  <2>1. x # s /\ x \in l.lookup /\ x \in Slot /\ (Before(l.cache, x, y) \/ y = s)
    BY <1>1, <1>9, <1>10, LiveParts
  <2>2. l.store[x].he \in Name /\ d.store[x].he = l.store[x].he
    BY <1>1, <1>13, <2>1 DEF Named
  <2>3. CASE y = s
    BY <1>4, <1>8, <1>13, <2>2, <2>3, CacheAssumption
  <2>4. CASE y # s
    <3>1. Before(l.cache, x, y)
      BY <2>1, <2>4
    <3>2. y \in Slot
      BY <1>1, <3>1, LiveParts, SequenceShape DEF Before
    <3> QED
      BY <1>1, <1>13, <2>1, <2>2, <2>4, <3>1, <3>2 DEF Latest
  <2> QED
    BY <2>3, <2>4
<1>19. \A x, y : Before(d.cache, x, y) => x # s
  BY <1>9, <1>10
<1> QED
  BY <1>4, <1>5, <1>10, <1>12, <1>16, <1>17, <1>18, <1>19 DEF Good, d, e, q, p, s

\* A full table makes room; who is not in it does not come in by that.
LEMMA PrunedGood ==
  ASSUME NEW l, Good(l, {}), NEW k \in Endpoint, ~Known(l, k)
  PROVE  LET a == Pruned(l)
         IN  Good(a, {}) /\ Len(a.cache) < MAX_CACHE_SIZE /\ ~Known(a, k)
<1> DEFINE full == Len(l.cache) >= MAX_CACHE_SIZE
           a == Pruned(l)
<1>1. CASE full
  <2>1. a = EvictOldest(l)
    BY <1>1 DEF Pruned
  <2>2. /\ Good(a, {}) /\ Used(a) = Used(l) \ {Head(l.cache)}
        /\ a.store = At(l.store, Head(l.cache), Zeroed)
        /\ Len(a.cache) < MAX_CACHE_SIZE /\ Head(l.cache) \in Used(l)
    BY <1>1, <2>1, EvictedGood
  <2> HIDE DEF a
  <2>3. \A t \in Used(a) : t \in Used(l) /\ a.store[t] = l.store[t]
    <3>1. /\ l.store \in [Slot -> Entry] /\ Used(l) \subseteq Slot
          /\ Head(l.cache) \in Slot
      BY <2>2, LiveParts DEF Good
    <3> QED
      BY <2>2, <3>1, ZeroedType, AtShape
  <2> QED
    BY <2>2, <2>3 DEF Known, Used, a
<1>2. CASE ~full
  <2>1. a = l
    BY <1>2 DEF Pruned
  <2>2. Len(l.cache) < MAX_CACHE_SIZE
    <3> DEFINE n == Len(l.cache)
    <3>1. n \in Nat /\ ~(n >= MAX_CACHE_SIZE) /\ MAX_CACHE_SIZE \in Nat
      BY <1>2, LiveParts, SequenceShape, CacheAssumption DEF Good
    <3> HIDE DEF n
    <3>2. n < MAX_CACHE_SIZE
      BY <3>1
    <3> QED
      BY <3>2 DEF n
  <2> HIDE DEF a
  <2> QED
    BY <2>1, <2>2 DEF a
<1> QED
  BY <1>1, <1>2

\* cache_insert of a new endpoint.
LEMMA AllocatedGood ==
  ASSUME NEW l, Good(l, {}), NEW k \in Endpoint, ~Known(l, k)
  PROVE  LET a == Pruned(l)
             d == Allocated(l, k)
         IN  \E s \in Slot :
               /\ Good(d, {}) /\ s \notin Used(a) /\ Used(d) = Used(a) \cup {s}
               /\ d.store = At(a.store, s, Fresh(s, k))
               /\ d.cache = Append(a.cache, s) /\ d.lookup = a.lookup
               /\ SlotOf(d, k) = s /\ d.store[s].key = k /\ d.store[s].name = NoName
               /\ \A x, y : Before(d.cache, x, y) => x # s
<1> DEFINE a == Pruned(l)
           d == Allocated(l, k)
           s == Last(a.tracker)
           e == Fresh(s, k)
<1>1. Good(a, {}) /\ Len(a.cache) < MAX_CACHE_SIZE /\ ~Known(a, k)
  BY PrunedGood
<1>2. d = EntryAlloc(a, k)
  BY DEF Allocated
<1> HIDE DEF a
<1>3. /\ Good(d, {}) /\ s \in Slot /\ s \notin Used(a) /\ Used(d) = Used(a) \cup {s}
      /\ d.store = At(a.store, s, e)
      /\ d.cache = Append(a.cache, s) /\ d.lookup = a.lookup
      /\ \A x, y : Before(d.cache, x, y) => x # s
  BY <1>1, <1>2, AddedGood
<1> HIDE DEF d
<1>4. e.key = k /\ e.name = NoName /\ e \in Entry
  BY <1>3, ZeroedType DEF Zeroed, Fresh, Entry
<1> HIDE DEF e
<1>5. d.store[s] = e
  <2>1. a.store \in [Slot -> Entry]
    BY <1>1, LiveParts DEF Good
  <2> QED
    BY <1>3, <1>4, <2>1, AtShape
<1>6. SlotOf(d, k) = s
  BY <1>3, <1>4, <1>5, SlotOfUnique DEF Good
<1> HIDE DEF s
<1>7. /\ s \in Slot
      /\ Good(d, {}) /\ s \notin Used(a) /\ Used(d) = Used(a) \cup {s}
      /\ d.store = At(a.store, s, Fresh(s, k))
      /\ d.cache = Append(a.cache, s) /\ d.lookup = a.lookup
      /\ SlotOf(d, k) = s /\ d.store[s].key = k /\ d.store[s].name = NoName
      /\ \A x, y : Before(d.cache, x, y) => x # s
  BY <1>3, <1>4, <1>5, <1>6 DEF e
<1> QED
  BY <1>7 DEF a, d

\* cache_update_lookup: s claims its name.
LEMMA ClaimedGood ==
  ASSUME NEW l, NEW s \in Used(l), Good(l, {s}), NEW n \in Name, l.store[s].name = n,
         NEW k, l.store[s].key = k
  PROVE  LET d == CacheUpdateLookup(l, k, n)
         IN  /\ Good(d, {}) /\ Used(d) = Used(l) /\ SlotOf(d, k) = s /\ d.store[s].key = k
             /\ d.store = At(l.store, s, Claims(l.store[s], n))
             /\ d.cache = SeenLast(l.cache, s)
             /\ d.lookup = (l.lookup \ {t \in l.lookup : l.store[t].he = n}) \cup {s}
             /\ \A x, y : Before(d.cache, x, y) => x # s
<1> DEFINE d == CacheUpdateLookup(l, k, n)
           a == ToBack(l, s)
           own == Registered(a, a.store[s].he) \cap {s}
           kept == a.lookup \ own
           taken == {t \in kept : a.store[t].he = n}
           reg == (l.lookup \ {t \in l.lookup : l.store[t].he = n}) \cup {s}
<1>1. Live(l) /\ Named(l, {s}) /\ Latest(l, {s}) /\ s \in Slot
  BY LiveParts DEF Good
<1>2. Known(l, k) /\ SlotOf(l, k) = s
  BY <1>1, SlotOfUnique
<1>3. /\ Live(a) /\ Used(a) = Used(l) /\ a.store = l.store /\ a.lookup = l.lookup
      /\ a.cache = SeenLast(l.cache, s)
      /\ \A x, y : Before(a.cache, x, y) => x # s /\ (Before(l.cache, x, y) \/ y = s)
  BY <1>1, ToBackLive
<1>4. CacheFind(l, k) = a
  BY <1>2 DEF CacheFind
<1>5. SlotOf(a, k) = s
  <2> HIDE DEF a
  <2> QED
    BY <1>3, SlotOfUnique
<1>6. n # NoName
  BY CacheAssumption
<1>7. d = [a EXCEPT !.lookup = (kept \ taken) \cup {s}, !.store[s].he = n]
  <2> HIDE DEF a
  <2> QED
    BY <1>4, <1>5, <1>6 DEF CacheUpdateLookup
<1>8. (kept \ taken) \cup {s} = reg
  <2> HIDE DEF a
  <2> QED
    BY <1>3 DEF Registered
<1> HIDE DEF a, own, kept, taken, reg
<1>9. /\ d \in Table /\ d.store = At(l.store, s, Claims(l.store[s], n)) /\ d.cache = a.cache
      /\ d.tracker = a.tracker /\ d.lookup = reg
  <2> DEFINE f == At(l.store, s, Claims(l.store[s], n))
  <2>0. l.store \in [Slot -> Entry] /\ l.store[s] \in Entry /\ a.store = l.store
    BY <1>1, <1>3, LiveParts
  <2>1. f \in [Slot -> Entry]
    <3>1. Claims(l.store[s], n) \in Entry
      BY <2>0 DEF Entry, Claims
    <3> QED
      BY <1>1, <2>0, <3>1, AtShape
  <2>2. d = [a EXCEPT !.lookup = reg, !.store = f] /\ a \in Table
    <3>1. f = [a.store EXCEPT ![s].he = n]
      BY <1>1, <2>0 DEF At, Claims
    <3> QED
      BY <1>1, <1>3, <1>7, <1>8, <3>1, LiveParts
  <2>3. reg \in SUBSET Slot
    BY <1>1, LiveParts DEF reg
  <2> HIDE DEF f
  <2>4. /\ d \in Table /\ d.store = f /\ d.cache = a.cache /\ d.tracker = a.tracker
        /\ d.lookup = reg
    BY <2>1, <2>2, <2>3 DEF Table
  <2> QED
    BY <2>4 DEF f
<1> HIDE DEF d
<1>10. /\ \A t \in Slot \ {s} : d.store[t] = l.store[t]
       /\ d.store[s] = Claims(l.store[s], n)
  <2>1. l.store[s] \in Entry
    BY <1>1, LiveParts
  <2>2. Claims(l.store[s], n) \in Entry
    BY <2>1 DEF Claims, Entry
  <2> QED
    BY <1>1, <1>9, <2>2, LiveParts, AtShape
<1>11. \A t \in Slot : /\ d.store[t].idx = l.store[t].idx /\ d.store[t].key = l.store[t].key
                       /\ d.store[t].name = l.store[t].name
                       /\ d.store[t].he = IF t = s THEN n ELSE l.store[t].he
  <2>1. l.store[s] \in Entry
    BY <1>1, LiveParts
  <2> QED
    BY <1>1, <1>10, <2>1 DEF Entry, Claims
<1>12. Used(d) = Used(l)
  BY <1>3, <1>9 DEF Used
<1>13. Live(d)
  <2>1. \A t \in Slot \ Used(d) : d.store[t] = Zeroed
    BY <1>1, <1>10, <1>12 DEF Live
  <2>2. Partition(d.cache, d.tracker)
    BY <1>3, <1>9 DEF Live
  <2>3. Used(l) \subseteq Slot
    BY <1>1, LiveParts
  <2> QED
    BY <1>1, <1>9, <1>11, <1>12, <2>1, <2>2, <2>3 DEF Live
<1>14. Named(d, {})
  <2>1. \A t \in d.lookup : t \in Slot /\ (t = s \/ (t \in l.lookup /\ t # s /\ l.store[t].he # n))
    BY <1>1, <1>9, LiveParts DEF reg
  <2>2. d.lookup \subseteq Used(d)
    BY <1>1, <1>12, <2>1 DEF Named
  <2>3. \A t \in Slot : d.store[t].he \in {NoName, d.store[t].name}
    BY <1>1, <1>11 DEF Named
  <2> QED
    BY <1>1, <1>11, <2>1, <2>2, <2>3 DEF Named
<1>15. Latest(d, {})
  <2> SUFFICES ASSUME NEW x, NEW y, Before(d.cache, x, y), x \in d.lookup
               PROVE  d.store[x].he # d.store[y].he
    BY DEF Latest
  <2>1. x # s /\ (Before(l.cache, x, y) \/ y = s)
    BY <1>3, <1>9
  <2>2. x \in l.lookup /\ x \in Slot /\ l.store[x].he # n
    BY <1>1, <1>9, <2>1, LiveParts DEF reg
  <2>3. CASE y = s
    BY <1>1, <1>11, <2>1, <2>2, <2>3
  <2>4. CASE y # s
    <3>1. Before(l.cache, x, y)
      BY <2>1, <2>4
    <3>2. y \in Slot
      BY <1>1, <3>1, LiveParts, SequenceShape DEF Before
    <3> QED
      BY <1>1, <1>11, <2>1, <2>2, <2>4, <3>1, <3>2 DEF Latest
  <2> QED
    BY <2>3, <2>4
<1>16. SlotOf(d, k) = s /\ d.store[s].key = k
  BY <1>1, <1>11, <1>12, <1>13, SlotOfUnique
<1>17. \A x, y : Before(d.cache, x, y) => x # s
  BY <1>3, <1>9
<1> QED
  BY <1>3, <1>9, <1>12, <1>13, <1>14, <1>15, <1>16, <1>17 DEF Good, d, reg

\* A table whose entries changed, but for their indexes, endpoints and claims.
LEMMA RewrittenGood ==
  ASSUME NEW l, Good(l, {}), NEW f \in [Slot -> Entry], NEW S,
         \A t \in Slot : /\ f[t].idx = l.store[t].idx /\ f[t].key = l.store[t].key
                         /\ f[t].he = l.store[t].he,
         \A t \in Slot \ Used(l) : f[t] = l.store[t],
         \A t \in Slot \ S : f[t].name = l.store[t].name \/ f[t].he = NoName
  PROVE  LET d == [l EXCEPT !.store = f]
         IN  /\ Good(d, S) /\ d.store = f /\ d.cache = l.cache /\ d.lookup = l.lookup
             /\ Used(d) = Used(l)
<1> DEFINE d == [l EXCEPT !.store = f]
<1>1. Live(l) /\ Named(l, {}) /\ Latest(l, {}) /\ Used(l) \subseteq Slot /\ l.lookup \subseteq Slot
  BY LiveParts DEF Good
<1>2. l \in Table
  BY <1>1, LiveParts
<1>3. /\ d \in Table /\ d.store = f /\ d.cache = l.cache /\ d.tracker = l.tracker
      /\ d.lookup = l.lookup
  BY <1>2 DEF Table
<1> HIDE DEF d
<1>4. Used(d) = Used(l)
  BY <1>3 DEF Used
<1>5. Live(d)
  BY <1>1, <1>3, <1>4 DEF Live
<1>6. Named(d, S)
  BY <1>1, <1>3, <1>4 DEF Named
<1>7. Latest(d, S)
  <2> SUFFICES ASSUME NEW x, NEW y, Before(l.cache, x, y), x \in l.lookup
               PROVE  f[x].he # f[y].he
    BY <1>3 DEF Latest
  <2>1. y \in Slot /\ x \in Slot
    BY <1>1, LiveParts, SequenceShape DEF Before
  <2> QED
    BY <1>1, <2>1 DEF Latest
<1> QED
  BY <1>3, <1>4, <1>5, <1>6, <1>7 DEF Good, d

-----------------------------------------------------------------------------
(***************************************************************************)
(* The operations of the table.                                            *)
(***************************************************************************)

\* What cache_insert returns the entry of.
Arrived(l, k) == IF Known(l, k) THEN CacheFind(l, k) ELSE Allocated(l, k)

\* It is the one seen last; it does not claim its name again yet.
LEMMA ArrivedGood ==
  ASSUME NEW l, Good(l, {}), NEW k \in Endpoint
  PROVE  LET a == Arrived(l, k)
             s == SlotOf(a, k)
         IN  /\ Good(a, {s}) /\ Named(a, {})
             /\ Known(a, k) /\ s \in Used(a) /\ a.store[s].key = k
<1> DEFINE a == Arrived(l, k)
           s == SlotOf(a, k)
<1>1. Live(l) /\ Named(l, {}) /\ Latest(l, {})
  BY DEF Good
<1>2. CASE Known(l, k)
  <2> DEFINE t == SlotOf(l, k)
  <2>1. t \in Used(l) /\ l.store[t].key = k
    BY <1>2, SlotOfKnown
  <2>2. a = ToBack(l, t)
    BY <1>2 DEF Arrived, CacheFind
  <2> HIDE DEF a, t
  <2>3. /\ Live(a) /\ Used(a) = Used(l) /\ a.store = l.store /\ a.lookup = l.lookup
        /\ \A x, y : Before(a.cache, x, y) => x # t /\ (Before(l.cache, x, y) \/ y = t)
    BY <1>1, <2>1, <2>2, ToBackLive
  <2>4. Known(a, k) /\ s = t /\ s \in Used(a) /\ a.store[s].key = k
    BY <2>1, <2>3, SlotOfUnique
  <2>5. Named(a, {}) /\ Named(a, {s})
    BY <1>1, <2>3 DEF Named
  <2>6. Latest(a, {s})
    BY <1>1, <2>3, <2>4 DEF Latest
  <2> QED
    BY <2>3, <2>4, <2>5, <2>6 DEF Good, a
<1>3. CASE ~Known(l, k)
  <2>1. a = Allocated(l, k)
    BY <1>3 DEF Arrived
  <2>2. PICK t \in Slot : Good(a, {}) /\ t \in Used(a) /\ SlotOf(a, k) = t /\ a.store[t].key = k
    BY <1>3, <2>1, AllocatedGood
  <2> HIDE DEF a
  <2>3. Known(a, k)
    BY <2>2 DEF Known, Used
  <2>4. Named(a, {}) /\ Named(a, {s}) /\ Live(a)
    BY <2>2 DEF Good, Named
  <2>5. Latest(a, {s})
    BY <2>2 DEF Good, Latest
  <2> QED
    BY <2>2, <2>3, <2>4, <2>5 DEF Good, a
<1> QED
  BY <1>2, <1>3

\* lru_insert_user.
LEMMA InsertedGood ==
  ASSUME NEW l, Good(l, {}), NEW k \in Endpoint
  PROVE  LET d == InsertUser(l, k)
             s == SlotOf(d, k)
         IN  /\ Good(d, {}) /\ Known(d, k) /\ s \in Used(d) /\ d.store[s].key = k
<1> DEFINE a == Arrived(l, k)
           s == SlotOf(a, k)
           n == a.store[s].name
           d == InsertUser(l, k)
<1>1. /\ Good(a, {s}) /\ Named(a, {}) /\ Known(a, k) /\ s \in Used(a) /\ a.store[s].key = k
  BY ArrivedGood
<1>2. d = CacheUpdateLookup(a, k, n)
  BY DEF InsertUser, Arrived
<1> HIDE DEF a, d, n
<1>3. Live(a) /\ Latest(a, {s}) /\ s \in Slot
  BY <1>1, LiveParts DEF Good
<1>4. CASE n = NoName
  <2>1. d = a
    BY <1>2, <1>4 DEF CacheUpdateLookup
  <2>2. a.store[s].he = NoName
    BY <1>1, <1>3, <1>4 DEF Named, n
  <2>3. Latest(a, {})
    <3> SUFFICES ASSUME NEW x, NEW y, Before(a.cache, x, y), x \in a.lookup
                 PROVE  a.store[x].he # a.store[y].he
      BY DEF Latest
    <3>1. CASE y = s
      BY <1>1, <2>2, <3>1, CacheAssumption DEF Named
    <3>2. CASE y # s
      BY <1>3, <3>2 DEF Latest
    <3> QED
      BY <3>1, <3>2
  <2> QED
    BY <1>1, <1>3, <2>1, <2>3 DEF Good, d
<1>5. CASE n # NoName
  <2>1. n \in Name
    BY <1>3, <1>5, LiveParts DEF n, Entry
  <2>2. a.store[s].name = n
    BY DEF n
  <2>3. /\ Good(d, {}) /\ Used(d) = Used(a) /\ SlotOf(d, k) = s /\ d.store[s].key = k
    BY <1>1, <1>2, <2>1, <2>2, ClaimedGood
  <2>4. Known(d, k)
    BY <1>1, <2>3 DEF Known, Used
  <2> QED
    BY <1>1, <2>3, <2>4 DEF d
<1> QED
  BY <1>4, <1>5

\* The table with another user in s.
Put(l, s, e) == [l EXCEPT !.store[s] = e]

\* Only the user of s changed, with or without its name.
LEMMA UserRewritten ==
  ASSUME NEW l, Good(l, {}), NEW s \in Used(l), NEW e \in Entry, NEW k, l.store[s].key = k,
         e.idx = l.store[s].idx, e.key = k, e.he = l.store[s].he
  PROVE  LET d == Put(l, s, e)
         IN  /\ Good(d, {s}) /\ d.store = At(l.store, s, e)
             /\ d.cache = l.cache /\ d.lookup = l.lookup /\ Used(d) = Used(l)
             /\ d.store[s] = e /\ SlotOf(d, k) = s
             /\ (e.name = l.store[s].name \/ e.he = NoName => Good(d, {}))
<1> DEFINE f == At(l.store, s, e)
           d == Put(l, s, e)
<1>1. /\ l \in Table /\ l.store \in [Slot -> Entry] /\ s \in Slot
  BY LiveParts DEF Good
<1>2. d = [l EXCEPT !.store = f]
  BY <1>1 DEF Table, Put, At
<1>3. /\ f \in [Slot -> Entry]
      /\ \A t \in Slot : f[t] = IF t = s THEN e ELSE l.store[t]
  BY <1>1, AtShape
<1>4. \A t \in Slot : f[t] = IF t = s THEN e ELSE l.store[t]
  BY <1>3
<1> HIDE DEF f, d
<1>5. \A t \in Slot : /\ f[t].idx = l.store[t].idx /\ f[t].key = l.store[t].key
                      /\ f[t].he = l.store[t].he
  BY <1>4
<1>6. \A t \in Slot \ Used(l) : f[t] = l.store[t]
  BY <1>4
<1>7. \A t \in Slot \ {s} : f[t].name = l.store[t].name \/ f[t].he = NoName
  BY <1>4
<1>8. /\ Good(d, {s}) /\ d.store = f /\ d.cache = l.cache /\ d.lookup = l.lookup
      /\ Used(d) = Used(l)
  BY <1>2, <1>3, <1>5, <1>6, <1>7, RewrittenGood
<1>9. ASSUME e.name = l.store[s].name \/ e.he = NoName
      PROVE  Good(d, {})
  <2>1. \A t \in Slot \ {} : f[t].name = l.store[t].name \/ f[t].he = NoName
    BY <1>4, <1>9
  <2> QED
    BY <1>2, <1>3, <1>5, <1>6, <2>1, RewrittenGood
<1>10. d.store[s] = e
  BY <1>1, <1>4, <1>8
<1>11. SlotOf(d, k) = s
  BY <1>8, <1>10, SlotOfUnique DEF Good
<1> QED
  BY <1>8, <1>9, <1>10, <1>11 DEF d, f

\* The damage message is stored.
LEMMA StoredGood ==
  ASSUME NEW l, Good(l, {}), NEW k \in Endpoint, Known(l, k), NEW r \in Report
  PROVE  LET d == Stored(l, k, r)
             s == SlotOf(l, k)
         IN  /\ Good(d, {}) /\ Known(d, k) /\ SlotOf(d, k) = s
             /\ d.store = At(l.store, s, Reports(l.store[s], r))
             /\ d.cache = l.cache /\ d.lookup = l.lookup
<1> DEFINE d == Stored(l, k, r)
           s == SlotOf(l, k)
           e == Reports(l.store[s], r)
<1>1. s \in Used(l) /\ l.store[s].key = k
  BY SlotOfKnown
<1>2. l \in Table /\ s \in Slot /\ l.store[s] \in Entry /\ l.store \in [Slot -> Entry]
  BY <1>1, LiveParts DEF Good
<1> HIDE DEF s
<1>3. e \in Entry /\ e.idx = l.store[s].idx /\ e.key = k /\ e.he = l.store[s].he
      /\ e.name = l.store[s].name
  <2>1. 0 \in 0 .. DAMAGE_PERIOD
    BY CacheAssumption
  <2> QED
    BY <1>1, <1>2, <2>1 DEF Entry, Reports, s
<1>4. d = Put(l, s, e)
  BY <1>2 DEF Stored, s, Table, Put, Reports
<1> HIDE DEF e, d
<1>6. /\ Good(d, {}) /\ d.store = At(l.store, s, e)
      /\ d.cache = l.cache /\ d.lookup = l.lookup /\ Used(d) = Used(l)
      /\ d.store[s] = e /\ SlotOf(d, k) = s
  <2> DEFINE p == Put(l, s, e)
  <2>1. /\ Good(p, {s}) /\ p.store = At(l.store, s, e)
        /\ p.cache = l.cache /\ p.lookup = l.lookup /\ Used(p) = Used(l)
        /\ p.store[s] = e /\ SlotOf(p, k) = s
        /\ (e.name = l.store[s].name \/ e.he = NoName => Good(p, {}))
    BY <1>1, <1>3, UserRewritten
  <2> QED
    BY <1>3, <1>4, <2>1
<1>7. Known(d, k)
  BY <1>1, <1>3, <1>6 DEF Known, Used
<1> QED
  BY <1>6, <1>7 DEF d, s, e

\* lru_update_name.
LEMMA RenamedGood ==
  ASSUME NEW l, Good(l, {}), NEW k \in Endpoint, Known(l, k), NEW n \in Name \cup {NoName}
  PROVE  Good(UpdateName(l, k, n), {})
<1> DEFINE s == SlotOf(l, k)
           e == [l.store[s] EXCEPT !.name = n]
           b == [l EXCEPT !.store[s].name = n]
<1>1. s \in Used(l) /\ l.store[s].key = k
  BY SlotOfKnown
<1>2. l \in Table /\ s \in Slot /\ l.store[s] \in Entry /\ l.store \in [Slot -> Entry]
  BY <1>1, LiveParts DEF Good
<1>3. CASE n = NoName \/ l.store[s].name = n
  BY <1>3 DEF UpdateName
<1>4. CASE ~(n = NoName \/ l.store[s].name = n)
  <2>1. UpdateName(l, k, n) = CacheUpdateLookup(b, k, n)
    BY <1>4 DEF UpdateName
  <2> HIDE DEF s
  <2>2. e \in Entry /\ e.idx = l.store[s].idx /\ e.key = k /\ e.he = l.store[s].he /\ e.name = n
    BY <1>1, <1>2 DEF Entry
  <2>3. b = Put(l, s, e)
    BY <1>2 DEF Table, Put
  <2> HIDE DEF e, b
  <2>4. Good(b, {s}) /\ Used(b) = Used(l) /\ b.store[s] = e
    BY <1>1, <2>2, <2>3, UserRewritten
  <2>5. b.store[s].key = k /\ b.store[s].name = n /\ n \in Name /\ s \in Used(b)
    BY <1>1, <1>4, <2>2, <2>4
  <2> QED
    BY <2>1, <2>4, <2>5, ClaimedGood
<1> QED
  BY <1>3, <1>4

\* context_update_account.
LEMMA AccountGood ==
  ASSUME NEW l, Good(l, {}), NEW k \in Endpoint, Known(l, k), NEW c \in Name \cup {NoName}
  PROVE  Good(UpdateAccount(l, k, c), {})
<1> DEFINE s == SlotOf(l, k)
           u == l.store[s]
           e == [u EXCEPT !.name = IF @ = NoName THEN u.charName ELSE @, !.charName = c]
           d == UpdateAccount(l, k, c)
<1>1. s \in Used(l) /\ l.store[s].key = k
  BY SlotOfKnown
<1>2. l \in Table /\ s \in Slot /\ u \in Entry /\ l.store \in [Slot -> Entry]
      /\ u.he \in {NoName, u.name}
  BY <1>1, LiveParts DEF Good, Named
<1>3. d = Put(l, s, e)
  BY DEF UpdateAccount, Put
<1> HIDE DEF s, u
<1>4. e \in Entry /\ e.idx = u.idx /\ e.key = u.key /\ e.he = u.he
      /\ (e.name = u.name \/ e.he = NoName)
  BY <1>2 DEF Entry
<1> HIDE DEF e, d
<1>5. Good(d, {})
  <2>1. e \in Entry /\ e.idx = l.store[s].idx /\ e.key = k /\ e.he = l.store[s].he
        /\ (e.name = l.store[s].name \/ e.he = NoName)
    BY <1>1, <1>4 DEF u
  <2>2. Good(Put(l, s, e), {})
    BY <1>1, <2>1, UserRewritten
  <2> QED
    BY <1>3, <2>2
<1> QED
  BY <1>5 DEF d

\* Time passes.
LEMMA TickGood ==
  ASSUME NEW l, Good(l, {})
  PROVE  LET f == [s \in Slot |-> [l.store[s] EXCEPT !.age = IF @ < DAMAGE_PERIOD THEN @ + 1 ELSE @]]
         IN  Good([l EXCEPT !.store = f], {})
<1> DEFINE f == [s \in Slot |-> [l.store[s] EXCEPT !.age = IF @ < DAMAGE_PERIOD THEN @ + 1 ELSE @]]
<1>1. l.store \in [Slot -> Entry] /\ \A s \in Slot \ Used(l) : l.store[s] = Zeroed
  BY LiveParts DEF Good, Live
<1>2. \A s \in Slot : f[s] = [l.store[s] EXCEPT !.age = IF @ < DAMAGE_PERIOD THEN @ + 1 ELSE @]
  OBVIOUS
<1>3. \A s \in Slot : f[s] \in Entry
  BY <1>1, <1>2, CacheAssumption DEF Entry
<1>4. f \in [Slot -> Entry]
  BY <1>3
<1> HIDE DEF f
<1>5. \A s \in Slot : /\ f[s].idx = l.store[s].idx /\ f[s].key = l.store[s].key
                      /\ f[s].he = l.store[s].he /\ f[s].name = l.store[s].name
  <2> SUFFICES ASSUME NEW s \in Slot
               PROVE  /\ f[s].idx = l.store[s].idx /\ f[s].key = l.store[s].key
                      /\ f[s].he = l.store[s].he /\ f[s].name = l.store[s].name
    OBVIOUS
  <2> DEFINE old == l.store[s]
             age == IF old.age < DAMAGE_PERIOD THEN old.age + 1 ELSE old.age
  <2>1. f[s] = [old EXCEPT !.age = age] /\ old \in Entry
    BY <1>1, <1>2
  <2> HIDE DEF old, age
  <2>2. f[s].idx = old.idx /\ f[s].key = old.key /\ f[s].he = old.he /\ f[s].name = old.name
    BY <2>1 DEF Entry
  <2> QED
    BY <2>2 DEF old
<1>6. \A s \in Slot \ Used(l) : f[s] = l.store[s]
  BY <1>1, <1>2, CacheAssumption DEF Zeroed
<1>7. Good([l EXCEPT !.store = f], {})
  BY <1>4, <1>5, <1>6, RewrittenGood
<1> QED
  BY <1>7 DEF f

\* lru_find_user: who is found was seen.
LEMMA FoundGood ==
  ASSUME NEW l, Good(l, {}), NEW s \in l.lookup
  PROVE  Good(ToBack(l, s), {})
<1>1. Live(l) /\ Named(l, {}) /\ Latest(l, {}) /\ s \in Used(l)
  BY DEF Good, Named
<1> DEFINE d == ToBack(l, s)
<1>2. /\ Live(d) /\ Used(d) = Used(l) /\ d.store = l.store /\ d.lookup = l.lookup
      /\ \A x, y : Before(d.cache, x, y) => x # s /\ (Before(l.cache, x, y) \/ y = s)
  BY <1>1, ToBackLive
<1> HIDE DEF d
<1>3. Named(d, {})
  BY <1>1, <1>2 DEF Named
<1>4. Latest(d, {})
  BY <1>1, <1>2 DEF Latest, Named
<1> QED
  BY <1>2, <1>3, <1>4 DEF Good, d

-----------------------------------------------------------------------------
(***************************************************************************)
(* The loop over the names that are asked for.                             *)
(***************************************************************************)

\* The function of the loop exists: it does for no name, and an initial part of
\* it extends by one turn.
LEMMA SearchExists ==
  ASSUME NEW l, NEW names \in Seq(Name)
  PROVE  \E f : f = [i \in 0 .. Len(names) |->
           IF i = 0 THEN [table |-> l, closest |-> <<>>] ELSE Searched(f[i - 1], names[i])]
<1> DEFINE base == [table |-> l, closest |-> <<>>]
           Is(f, m) == f = [i \in 0 .. m |-> IF i = 0 THEN base ELSE Searched(f[i - 1], names[i])]
           n == Len(names)
           G == {m \in 0 .. n : \E f : Is(f, m)}
<1>1. n \in Nat
  BY SequenceShape
<1>2. 0 \in G
  <2> DEFINE f == [i \in 0 .. 0 |-> base]
  <2>1. f = [i \in 0 .. 0 |-> IF i = 0 THEN base ELSE Searched(f[i - 1], names[i])]
    OBVIOUS
  <2> HIDE DEF base
  <2>2. Is(f, 0)
    BY <2>1
  <2> HIDE DEF f
  <2>3. \E g : Is(g, 0)
    BY <2>2
  <2>4. 0 \in 0 .. n
    BY <1>1
  <2> HIDE DEF Is
  <2> QED
    BY <2>3, <2>4
<1>3. ASSUME NEW m \in 1 .. n, m - 1 \in G
      PROVE  m \in G
  <2>1. PICK f : Is(f, m - 1)
    BY <1>3
  <2> HIDE DEF base
  <2> DEFINE g == [i \in 0 .. m |-> IF i = 0 THEN base ELSE Searched(f[i - 1], names[i])]
  <2>2. \A i \in 0 .. m - 1 : g[i] = f[i]
    BY <2>1, <1>1
  <2>3. g = [i \in 0 .. m |-> IF i = 0 THEN base ELSE Searched(g[i - 1], names[i])]
    BY <2>2, <1>1
  <2> HIDE DEF g
  <2>4. Is(g, m)
    BY <2>3
  <2> QED
    BY <2>4, <1>1
<1> HIDE DEF G
<1>4. n \in G
  BY <1>1, <1>2, <1>3, UpTo
<1> QED
  BY <1>4 DEF G

LEMMA SearchShape ==
  ASSUME NEW l, NEW names \in Seq(Name)
  PROVE  /\ Search(l, names)[0] = [table |-> l, closest |-> <<>>]
         /\ \A i \in 1 .. Len(names) :
              Search(l, names)[i] = Searched(Search(l, names)[i - 1], names[i])
<1> DEFINE f == Search(l, names)
<1>1. f = [i \in 0 .. Len(names) |->
             IF i = 0 THEN [table |-> l, closest |-> <<>>] ELSE Searched(f[i - 1], names[i])]
  BY SearchExists DEF Search
<1>2. Len(names) \in Nat
  BY SequenceShape
<1> HIDE DEF f
<1>3. \A i \in 0 .. Len(names) :
        f[i] = IF i = 0 THEN [table |-> l, closest |-> <<>>] ELSE Searched(f[i - 1], names[i])
  BY <1>1
<1> QED
  BY <1>2, <1>3 DEF f

\* One turn of the loop keeps the table good, and adds at most one player.
LEMMA SearchedGood ==
  ASSUME NEW r, NEW m \in Nat, Good(r.table, {}), r.closest \in Seq(Player), Len(r.closest) <= m,
         NEW n \in Name
  PROVE  LET q == Searched(r, n)
         IN  Good(q.table, {}) /\ q.closest \in Seq(Player) /\ Len(q.closest) <= m + 1
<1> DEFINE l == r.table
           q == Searched(r, n)
           s == CHOOSE x \in Registered(l, n) : TRUE
           u == l.store[s]
           e == [name |-> u.name, report |-> u.report]
<1>0. Len(r.closest) \in Nat
  BY SequenceShape
<1>1. CASE Registered(l, n) = {}
  <2>1. q = r
    BY <1>1 DEF Searched
  <2> QED
    BY <1>0, <2>1
<1>2. CASE Registered(l, n) # {}
  <2>1. s \in l.lookup /\ s \in Slot
    BY <1>2, LiveParts DEF Registered, Good
  <2>2. u \in Entry
    BY <2>1, LiveParts DEF Good
  <2>3. e \in Player
    BY <2>2 DEF Entry, Player
  <2>4. q = [table |-> ToBack(l, s), closest |-> Append(r.closest, e)]
    BY <1>2 DEF Searched, FindUser
  <2> HIDE DEF e, u, s, q
  <2>5. q.table = ToBack(l, s) /\ q.closest = Append(r.closest, e)
    BY <2>4
  <2>6. Good(ToBack(l, s), {})
    BY <2>1, FoundGood
  <2>7. Append(r.closest, e) \in Seq(Player) /\ Len(Append(r.closest, e)) = Len(r.closest) + 1
    BY <2>3, AppendProperties
  <2> QED
    BY <1>0, <2>5, <2>6, <2>7 DEF q
<1> QED
  BY <1>1, <1>2

\* So does the loop, turn by turn.
LEMMA SearchGood ==
  ASSUME NEW l, Good(l, {}), NEW names \in Seq(Name)
  PROVE  \A i \in 0 .. Len(names) :
           LET r == Search(l, names)[i]
           IN  Good(r.table, {}) /\ r.closest \in Seq(Player) /\ Len(r.closest) <= i
<1> DEFINE f == Search(l, names)
           n == Len(names)
           Holds(i) == /\ Good(f[i].table, {}) /\ f[i].closest \in Seq(Player)
                       /\ Len(f[i].closest) <= i
           G == {i \in 0 .. n : Holds(i)}
<1>1. n \in Nat /\ \A i \in 1 .. n : names[i] \in Name
  BY SequenceShape
<1>2. f[0] = [table |-> l, closest |-> <<>>] /\ \A i \in 1 .. n : f[i] = Searched(f[i - 1], names[i])
  BY SearchShape
<1> HIDE DEF f, n
<1>3. Holds(0)
  BY <1>2
<1>4. ASSUME NEW i \in 1 .. n, Holds(i - 1)
      PROVE  Holds(i)
  <2>1. i - 1 \in Nat /\ (i - 1) + 1 = i
    BY <1>1
  <2>2. Good(f[i].table, {}) /\ f[i].closest \in Seq(Player) /\ Len(f[i].closest) <= (i - 1) + 1
    BY <1>1, <1>2, <1>4, <2>1, SearchedGood
  <2> QED
    BY <2>1, <2>2
<1> HIDE DEF Holds
<1>5. 0 \in G /\ \A i \in 1 .. n : i - 1 \in G => i \in G
  BY <1>1, <1>3, <1>4
<1> HIDE DEF G
<1>6. \A i \in 0 .. n : i \in G
  BY <1>1, <1>5, UpTo
<1>7. \A i \in 0 .. n : Holds(i)
  BY <1>6 DEF G
<1> QED
  BY <1>7 DEF Holds, f, n

\* The names before the first empty one.
LEMMA AskedShape ==
  ASSUME NEW closest \in Request
  PROVE  Asked(closest) \in Seq(Name) /\ Len(Asked(closest)) <= MSG_CLOSEST_PLAYERS
<1> DEFINE n == MSG_CLOSEST_PLAYERS
           I == {i \in 1 .. Len(closest) : closest[i] = NoName}
           end == IF I # {} THEN Min(I) ELSE 0
<1>1. /\ n \in Nat /\ closest \in Seq(Name \cup {NoName}) /\ Len(closest) = n
      /\ \A i \in 1 .. n : closest[i] \in Name \cup {NoName}
  <2>1. closest \in [1 .. n -> Name \cup {NoName}] /\ n \in Nat
    BY RelayAssumption DEF Request, TupleOf
  <2> QED
    BY <2>1, FunctionIsSequence
<1>2. Asked(closest) = IF end = 0 THEN closest ELSE SubSeq(closest, 1, end - 1)
  BY DEF Asked, SelectInSeq
<1> HIDE DEF n
<1>3. CASE I = {}
  <2>1. Asked(closest) = closest
    BY <1>2, <1>3
  <2>2. \A i \in 1 .. n : closest[i] \in Name
    BY <1>1, <1>3
  <2> QED
    BY <1>1, <2>1, <2>2 DEF n
<1>4. CASE I # {}
  <2>1. I \subseteq Nat /\ I \subseteq 1 .. n /\ \A i \in 1 .. n : i \notin I => closest[i] \in Name
    BY <1>1
  <2>2. end = Min(I)
    BY <1>4
  <2>3. closest \in Seq(Name \cup {NoName}) /\ n \in Nat /\ Len(closest) = n
    BY <1>1
  <2>4. Asked(closest) = IF end = 0 THEN closest ELSE SubSeq(closest, 1, end - 1)
    BY <1>2
  <2> HIDE DEF I, end
  <2>5. \E m \in I : \A i \in I : m <= i
    BY <1>4, <2>1, LeastNumber
  <2>6. end \in I /\ \A i \in I : end <= i
    BY <2>2, <2>5 DEF Min
  <2>7. end \in 1 .. n /\ \A i \in 1 .. n : i < end => i \notin I
    BY <2>1, <2>3, <2>6
  <2>8. \A i \in 1 .. end - 1 : closest[i] \in Name
    BY <2>1, <2>3, <2>7
  <2>9. /\ SubSeq(closest, 1, end - 1) \in Seq(Name)
        /\ Len(SubSeq(closest, 1, end - 1)) = end - 1
    BY <2>3, <2>7, <2>8, SubSeqProperties
  <2>10. end # 0 /\ end - 1 <= n
    BY <2>3, <2>7
  <2> QED
    BY <2>4, <2>9, <2>10 DEF n
<1> QED
  BY <1>3, <1>4

-----------------------------------------------------------------------------
(***************************************************************************)
(* The steps.                                                              *)
(***************************************************************************)

LEMMA NoAnswerType == NoAnswer \in Answer
<1>1. <<>> \in Seq(Player) /\ Len(<<>>) <= MSG_CLOSEST_PLAYERS /\ MSG_CLOSEST_PLAYERS \in Nat
  BY RelayAssumption
<1>2. <<>> \in BoundedSeq(Player, MSG_CLOSEST_PLAYERS)
  BY <1>1, BoundedShape
<1> QED
  BY <1>2 DEF NoAnswer, Answer

LEMMA InitGood == Init => IInv
  BY CreatedGood, NoAnswerType DEF Init, IInv

\* msg_client_damage_utf8 of a client that may report.
LEMMA DamageGood ==
  ASSUME IInv, NEW k \in Endpoint, NEW shard \in Shard, NEW n \in Name \cup {NoName},
         NEW report \in Report, NEW closest \in Request, Damage(k, shard, n, report, closest)
  PROVE  IInv'
<1> DEFINE a == InsertUser(lru, k)
           b == Stored(a, k, report)
           l == UpdateName(b, k, n)
           names == Asked(closest)
           f == Search(l, names)
           m == Len(names)
           done == f[m]
<1>1. lru' = done.table
  BY DEF Damage
<1>2. answer' = IF done.closest = <<>> THEN NoAnswer ELSE [to |-> k, closest |-> done.closest]
  BY DEF Damage
<1>3. names \in Seq(Name) /\ m <= MSG_CLOSEST_PLAYERS /\ m \in Nat
  BY AskedShape, SequenceShape
<1>4. Good(a, {}) /\ Known(a, k)
  BY InsertedGood DEF IInv
<1> HIDE DEF a
<1>5. Good(b, {}) /\ Known(b, k)
  BY <1>4, StoredGood
<1> HIDE DEF b
<1>6. Good(l, {})
  BY <1>5, RenamedGood
<1> HIDE DEF l, names
<1>7. \A i \in 0 .. m : Good(f[i].table, {}) /\ f[i].closest \in Seq(Player) /\ Len(f[i].closest) <= i
  BY <1>3, <1>6, SearchGood
<1> HIDE DEF f, m
<1>8. Good(done.table, {}) /\ done.closest \in Seq(Player) /\ Len(done.closest) <= m
  BY <1>3, <1>7
<1> HIDE DEF done
<1>9. done.closest \in BoundedSeq(Player, MSG_CLOSEST_PLAYERS)
  <2>1. Len(done.closest) <= MSG_CLOSEST_PLAYERS
    <3> DEFINE j == Len(done.closest)
    <3>1. j \in Nat /\ j <= m /\ MSG_CLOSEST_PLAYERS \in Nat
      BY <1>8, SequenceShape, RelayAssumption
    <3> HIDE DEF j
    <3>2. j <= MSG_CLOSEST_PLAYERS
      BY <1>3, <3>1
    <3> QED
      BY <3>2 DEF j
  <2> QED
    BY <1>8, <2>1, BoundedShape, RelayAssumption
<1>10. [to |-> k, closest |-> done.closest] \in Answer
  BY <1>9 DEF Answer
<1> QED
  BY <1>1, <1>2, <1>8, <1>10, NoAnswerType DEF IInv

LEMMA NextGood == IInv /\ [Next]_vars => IInv'
<1> SUFFICES ASSUME IInv, [Next]_vars
             PROVE  IInv'
  OBVIOUS
<1>1. Good(lru, {})
  BY DEF IInv
<1>2. ASSUME NEW k \in Endpoint, NEW shard \in Shard, DamageLimited(k, shard)
      PROVE  IInv'
  <2>1. Good(InsertUser(lru, k), {})
    BY <1>1, InsertedGood
  <2> QED
    BY <1>2, <2>1, NoAnswerType DEF DamageLimited, IInv
<1>3. ASSUME NEW k \in Endpoint, NEW shard \in Shard, NEW n \in Name \cup {NoName},
             NEW report \in Report, NEW closest \in Request, Damage(k, shard, n, report, closest)
      PROVE  IInv'
  BY <1>3, DamageGood
<1>4. ASSUME NEW k \in Endpoint, NEW account \in BOOLEAN, NEW charName \in Name \cup {NoName},
             Begin(k, account, charName)
      PROVE  IInv'
  <2> DEFINE l == InsertUser(lru, k)
  <2>1. Good(l, {}) /\ Known(l, k)
    BY <1>1, InsertedGood
  <2>2. lru' = (IF account THEN UpdateAccount(l, k, charName) ELSE l) /\ answer' = NoAnswer
    BY <1>4 DEF Begin
  <2> HIDE DEF l
  <2>3. Good(UpdateAccount(l, k, charName), {})
    BY <2>1, AccountGood
  <2> QED
    BY <2>1, <2>2, <2>3, NoAnswerType DEF IInv
<1>5. ASSUME NEW k \in Endpoint, Piece(k)
      PROVE  IInv'
  <2>1. Good(InsertUser(lru, k), {})
    BY <1>1, InsertedGood
  <2> QED
    BY <1>5, <2>1, NoAnswerType DEF Piece, IInv
<1>6. CASE Tick
  <2> DEFINE f == [s \in Slot |-> [lru.store[s] EXCEPT !.age = IF @ < DAMAGE_PERIOD THEN @ + 1 ELSE @]]
  <2>1. Good([lru EXCEPT !.store = f], {})
    BY <1>1, TickGood
  <2>2. lru' = [lru EXCEPT !.store = f]
    BY <1>6 DEF Tick
  <2> QED
    BY <1>6, <2>1, <2>2, NoAnswerType DEF Tick, IInv
<1>7. CASE UNCHANGED vars
  BY <1>7 DEF vars, IInv
<1> QED
  BY <1>2, <1>3, <1>4, <1>5, <1>6, <1>7 DEF Next

LEMMA Invariance == Spec => []IInv
  BY InitGood, NextGood, PTL DEF Spec

-----------------------------------------------------------------------------
(***************************************************************************)
(* What the invariant says of the table.                                   *)
(***************************************************************************)

\* The variables keep their types.
THEOREM RelayTypes == Spec => []TypeOK
<1>1. IInv => TypeOK
  <2> SUFFICES ASSUME IInv
               PROVE  TypeOK
    OBVIOUS
  <2> DEFINE n == Len(lru.cache)
             m == Len(lru.tracker)
  <2>1. /\ lru \in Table /\ lru.cache \in Seq(Slot) /\ lru.tracker \in Seq(Slot)
        /\ Partition(lru.cache, lru.tracker)
    BY LiveParts DEF IInv, Good
  <2>2. n \in Nat /\ m \in Nat /\ n + m = MAX_CACHE_SIZE /\ MAX_CACHE_SIZE \in Nat
    BY <2>1, SequenceShape, CacheAssumption DEF Partition
  <2> HIDE DEF n, m
  <2>3. n <= MAX_CACHE_SIZE /\ m <= MAX_CACHE_SIZE
    BY <2>2
  <2>4. /\ lru.cache \in BoundedSeq(Slot, MAX_CACHE_SIZE)
        /\ lru.tracker \in BoundedSeq(Slot, MAX_CACHE_SIZE)
    BY <2>1, <2>2, <2>3, BoundedShape DEF n, m
  <2>5. lru \in Lru
    BY <2>1, <2>4 DEF Table, Lru
  <2> QED
    BY <2>5 DEF TypeOK, IInv
<1> QED
  BY <1>1, Invariance, PTL

\* Of every capacity, the table never loses an entry nor uses one twice.
THEOREM SlotsCorrect == Spec => []SlotsAccounted
<1>1. IInv => SlotsAccounted
  <2> SUFFICES ASSUME IInv
               PROVE  SlotsAccounted
    OBVIOUS
  <2> DEFINE q == lru.cache
             p == lru.tracker
             all == q \o p
  <2>1. /\ Live(lru) /\ q \in Seq(Slot) /\ p \in Seq(Slot) /\ Partition(q, p)
        /\ Used(lru) \subseteq Slot
    BY LiveParts DEF IInv, Good
  <2> HIDE DEF q, p
  <2>2. /\ all \in Seq(Slot) /\ Len(all) = Len(q) + Len(p)
        /\ \A i \in 1 .. Len(q) + Len(p) : all[i] = IF i <= Len(q) THEN q[i] ELSE p[i - Len(q)]
    BY <2>1, ConcatProperties
  <2>3. /\ Len(q) \in Nat /\ DOMAIN q = 1 .. Len(q) /\ Len(p) \in Nat /\ DOMAIN p = 1 .. Len(p)
        /\ DOMAIN all = 1 .. Len(q) + Len(p) /\ \A i \in DOMAIN all : all[i] \in Slot
    BY <2>1, <2>2, SequenceShape
  <2> HIDE DEF all
  <2>4. \A s : In(s, q) => In(s, all)
    <3>1. \A i \in DOMAIN q : i \in DOMAIN all /\ all[i] = q[i]
      BY <2>2, <2>3
    <3> QED
      BY <3>1 DEF In
  <2>5. \A s : In(s, p) => In(s, all)
    <3>1. \A i \in DOMAIN p : i + Len(q) \in DOMAIN all /\ all[i + Len(q)] = p[i]
      BY <2>2, <2>3
    <3> QED
      BY <3>1 DEF In
  <2>6. \A s : s \in Slot <=> In(s, all)
    <3>1. \A s : In(s, all) => s \in Slot
      BY <2>3 DEF In
    <3> QED
      BY <2>1, <2>4, <2>5, <3>1 DEF Partition
  <2>7. \A s : s \in ToSet(all) <=> s \in Slot
    BY <2>6, InSet
  <2>8. ToSet(all) = Slot
    BY <2>7
  <2>9. Len(all) = MAX_CACHE_SIZE
    BY <2>1, <2>2 DEF Partition
  <2>10. \A s, t \in ToSet(lru.cache) : lru.store[s].key = lru.store[t].key => s = t
    BY <2>1 DEF Live, Used
  <2>11. \A s \in Slot : lru.store[s].idx = IF s \in ToSet(lru.cache) THEN s ELSE -1
    BY <2>1 DEF Live, Used, Zeroed
  <2> QED
    BY <2>8, <2>9, <2>10, <2>11 DEF SlotsAccounted, all, q, p
<1> QED
  BY <1>1, Invariance, PTL

\* Who is found by a name is in the table and has that name.
THEOREM LookupCorrect == Spec => []LookupSound
<1>1. IInv => LookupSound
  <2> SUFFICES ASSUME IInv, NEW s \in lru.lookup
               PROVE  /\ s \in ToSet(lru.cache)
                      /\ lru.store[s].he = lru.store[s].name
                      /\ Registered(lru, lru.store[s].he) = {s}
    BY DEF LookupSound
  <2>1. Named(lru, {}) /\ s \in Slot
    BY LiveParts DEF IInv, Good
  <2>2. s \in ToSet(lru.cache) /\ lru.store[s].he = lru.store[s].name
    BY <2>1, CacheAssumption DEF Named, Used
  <2>3. \A t : t \in Registered(lru, lru.store[s].he) <=> t = s
    BY <2>1 DEF Named, Registered
  <2>4. Registered(lru, lru.store[s].he) = {s}
    BY <2>3
  <2> QED
    BY <2>2, <2>4
<1> QED
  BY <1>1, Invariance, PTL

\* Who is found by a name is the one seen last among those that claimed it.
THEOREM LatestCorrect == Spec => []LatestOwnsName
<1>1. IInv => LatestOwnsName
  <2> SUFFICES ASSUME IInv, NEW i \in DOMAIN lru.cache, NEW j \in DOMAIN lru.cache,
                      lru.cache[i] \in lru.lookup,
                      lru.store[lru.cache[j]].he = lru.store[lru.cache[i]].he
               PROVE  j <= i
    BY DEF LatestOwnsName
  <2>1. Latest(lru, {}) /\ i \in Nat /\ j \in Nat
    BY LiveParts, SequenceShape DEF IInv, Good
  <2>2. ~(i < j)
    BY <2>1 DEF Latest, Before
  <2> QED
    BY <2>1, <2>2
<1> QED
  BY <1>1, Invariance, PTL

-----------------------------------------------------------------------------
(***************************************************************************)
(* The table as a directory: the order of the users.                       *)
(***************************************************************************)

\* The endpoints of the slots of q.
Keyed(f, q) == [i \in DOMAIN q |-> f[q[i]].key]

\* What is last in q stays there.
LEMMA LastSeen ==
  ASSUME NEW S, NEW q \in Seq(S), Distinct(q), NEW s, In(s, q),
         \A x, y : Before(q, x, y) => x # s
  PROVE  SeenLast(q, s) = q
<1> DEFINE u == SeenLast(q, s)
<1>1. PICK k \in DOMAIN q : q[k] = s
  BY DEF In
<1>2. Len(q) \in Nat /\ DOMAIN q = 1 .. Len(q) /\ k \in 1 .. Len(q) /\ Len(q) \in DOMAIN q
  BY SequenceShape
<1>3. ~(k < Len(q))
  BY <1>1, <1>2 DEF Before
<1>4. k = Len(q)
  BY <1>2, <1>3
<1>5. /\ u \in Seq(S) /\ Len(u) = Len(q)
      /\ \A i \in DOMAIN q :
           u[i] = IF i < k THEN q[i] ELSE IF i < Len(q) THEN q[i + 1] ELSE q[k]
  BY <1>1, SeenLastAt
<1> HIDE DEF u
<1>6. \A i \in 1 .. Len(u) : u[i] = q[i]
  BY <1>2, <1>4, <1>5
<1>7. u = q
  BY <1>5, <1>6, SeqEqual
<1> QED
  BY <1>7 DEF u

LEMMA KeyedShape ==
  ASSUME NEW f \in [Slot -> Entry], NEW q \in Seq(Slot)
  PROVE  /\ Keyed(f, q) \in Seq(Endpoint \cup {NoEndpoint})
         /\ Len(Keyed(f, q)) = Len(q) /\ DOMAIN Keyed(f, q) = DOMAIN q
         /\ \A i \in DOMAIN q : Keyed(f, q)[i] = f[q[i]].key
<1> DEFINE v == Keyed(f, q)
<1>1. Len(q) \in Nat /\ DOMAIN q = 1 .. Len(q) /\ \A i \in DOMAIN q : q[i] \in Slot
  BY SequenceShape
<1>2. \A i \in DOMAIN q : f[q[i]].key \in Endpoint \cup {NoEndpoint}
  BY <1>1 DEF Entry
<1>3. v = [i \in 1 .. Len(q) |-> f[q[i]].key]
  BY <1>1 DEF Keyed
<1> HIDE DEF v
<1>4. v \in [1 .. Len(q) -> Endpoint \cup {NoEndpoint}]
  BY <1>1, <1>2, <1>3
<1>5. v \in Seq(Endpoint \cup {NoEndpoint}) /\ Len(v) = Len(q)
  BY <1>1, <1>4, FunctionIsSequence
<1> QED
  BY <1>1, <1>3, <1>5 DEF v

\* A slot that is used is an endpoint that is seen.
LEMMA KeyedSeenLast ==
  ASSUME NEW f \in [Slot -> Entry], NEW q \in Seq(Slot), Distinct(q), NEW s, In(s, q),
         \A x, y : In(x, q) /\ In(y, q) /\ f[x].key = f[y].key => x = y
  PROVE  Keyed(f, SeenLast(q, s)) = SeenLast(Keyed(f, q), f[s].key)
<1> DEFINE E == Endpoint \cup {NoEndpoint}
           u == SeenLast(q, s)
           v == Keyed(f, q)
           w == SeenLast(v, f[s].key)
           x == Keyed(f, u)
<1>1. PICK k \in DOMAIN q : q[k] = s
  BY DEF In
<1>2. Len(q) \in Nat /\ DOMAIN q = 1 .. Len(q) /\ \A i \in DOMAIN q : q[i] \in Slot
  BY SequenceShape
<1>3. /\ v \in Seq(E) /\ Len(v) = Len(q) /\ DOMAIN v = DOMAIN q
      /\ \A i \in DOMAIN q : v[i] = f[q[i]].key
  BY KeyedShape
<1>4. /\ u \in Seq(Slot) /\ Len(u) = Len(q) /\ DOMAIN u = DOMAIN q
      /\ \A i \in DOMAIN q :
           u[i] = IF i < k THEN q[i] ELSE IF i < Len(q) THEN q[i + 1] ELSE q[k]
  BY <1>1, SeenLastAt
<1> HIDE DEF u, v
<1>5. Distinct(v)
  BY <1>3 DEF Distinct, In
<1>6. v[k] = f[s].key
  BY <1>1, <1>3
<1>7. /\ w \in Seq(E) /\ Len(w) = Len(v) /\ DOMAIN w = DOMAIN v
      /\ \A i \in DOMAIN v :
           w[i] = IF i < k THEN v[i] ELSE IF i < Len(v) THEN v[i + 1] ELSE v[k]
  <2> HIDE DEF E
  <2>1. k \in DOMAIN v
    BY <1>3
  <2>2. LET z == SeenLast(v, v[k])
        IN  /\ z \in Seq(E) /\ Len(z) = Len(v) /\ DOMAIN z = DOMAIN v
            /\ \A i \in DOMAIN v :
                 z[i] = IF i < k THEN v[i] ELSE IF i < Len(v) THEN v[i + 1] ELSE v[k]
    BY <1>3, <1>5, <2>1, SeenLastAt
  <2> QED
    BY <1>6, <2>2
<1>8. /\ x \in Seq(E) /\ Len(x) = Len(u) /\ DOMAIN x = DOMAIN u
      /\ \A i \in DOMAIN u : x[i] = f[u[i]].key
  BY <1>4, KeyedShape
<1> HIDE DEF x, w, E
<1>9. \A i \in 1 .. Len(q) : x[i] = w[i]
  <2> SUFFICES ASSUME NEW i \in 1 .. Len(q)
               PROVE  x[i] = w[i]
    OBVIOUS
  <2>1. i \in DOMAIN q /\ k \in 1 .. Len(q) /\ (i < Len(q) => i + 1 \in DOMAIN q)
    BY <1>2
  <2>2. CASE i < k
    BY <1>3, <1>4, <1>7, <1>8, <2>1, <2>2
  <2>3. CASE ~(i < k) /\ i < Len(q)
    BY <1>3, <1>4, <1>7, <1>8, <2>1, <2>3
  <2>4. CASE ~(i < k) /\ ~(i < Len(q))
    BY <1>3, <1>4, <1>7, <1>8, <2>1, <2>4
  <2> QED
    BY <2>2, <2>3, <2>4
<1>10. x = w
  <2>1. Len(x) = Len(w) /\ Len(x) = Len(q)
    BY <1>3, <1>4, <1>7, <1>8
  <2> QED
    BY <1>7, <1>8, <1>9, <2>1, SeqEqual
<1> QED
  BY <1>10 DEF x, u, v, w

\* A slot that is added is an endpoint that is new.
LEMMA KeyedAppend ==
  ASSUME NEW f \in [Slot -> Entry], NEW q \in Seq(Slot), NEW s \in Slot
  PROVE  Keyed(f, Append(q, s)) = Append(Keyed(f, q), f[s].key)
<1> DEFINE E == Endpoint \cup {NoEndpoint}
           u == Append(q, s)
           v == Keyed(f, q)
           w == Append(v, f[s].key)
           x == Keyed(f, u)
<1>1. Len(q) \in Nat /\ DOMAIN q = 1 .. Len(q)
  BY SequenceShape
<1>2. /\ v \in Seq(E) /\ Len(v) = Len(q) /\ DOMAIN v = DOMAIN q
      /\ \A i \in DOMAIN q : v[i] = f[q[i]].key
  BY KeyedShape
<1>3. /\ u \in Seq(Slot) /\ Len(u) = Len(q) + 1 /\ DOMAIN u = 1 .. Len(q) + 1
      /\ \A i \in 1 .. Len(q) : u[i] = q[i]
      /\ u[Len(q) + 1] = s
  BY AppendProperties, SequenceShape
<1>4. f[s].key \in E
  BY DEF Entry
<1> HIDE DEF E, u, v
<1>5. /\ w \in Seq(E) /\ Len(w) = Len(v) + 1
      /\ \A i \in 1 .. Len(v) : w[i] = v[i]
      /\ w[Len(v) + 1] = f[s].key
  BY <1>2, <1>4, AppendProperties
<1>6. /\ x \in Seq(E) /\ Len(x) = Len(u) /\ DOMAIN x = DOMAIN u
      /\ \A i \in DOMAIN u : x[i] = f[u[i]].key
  BY <1>3, KeyedShape DEF E
<1> HIDE DEF x, w
<1>7. \A i \in 1 .. Len(q) + 1 : x[i] = w[i]
  <2> SUFFICES ASSUME NEW i \in 1 .. Len(q) + 1
               PROVE  x[i] = w[i]
    OBVIOUS
  <2>1. CASE i = Len(q) + 1
    BY <1>2, <1>3, <1>5, <1>6, <2>1
  <2>2. CASE i # Len(q) + 1
    <3>1. i \in 1 .. Len(q)
      BY <1>1, <2>2
    <3> QED
      BY <1>1, <1>2, <1>3, <1>5, <1>6, <3>1
  <2> QED
    BY <2>1, <2>2
<1>8. x = w
  <2>1. Len(x) = Len(w) /\ Len(x) = Len(q) + 1
    BY <1>2, <1>3, <1>5, <1>6
  <2> QED
    BY <1>5, <1>6, <1>7, <2>1, SeqEqual
<1> QED
  BY <1>8 DEF x, u, v, w

\* The first slot is the endpoint that was not seen for longest.
LEMMA KeyedTail ==
  ASSUME NEW f \in [Slot -> Entry], NEW q \in Seq(Slot), Len(q) > 0
  PROVE  /\ Keyed(f, Tail(q)) = Tail(Keyed(f, q))
         /\ Head(Keyed(f, q)) = f[Head(q)].key
<1> DEFINE E == Endpoint \cup {NoEndpoint}
           u == Tail(q)
           v == Keyed(f, q)
           w == Tail(v)
           x == Keyed(f, u)
<1>1. Len(q) \in Nat \ {0} /\ DOMAIN q = 1 .. Len(q) /\ 1 \in DOMAIN q /\ q # <<>>
  BY SequenceShape
<1>2. /\ v \in Seq(E) /\ Len(v) = Len(q) /\ DOMAIN v = DOMAIN q
      /\ \A i \in DOMAIN q : v[i] = f[q[i]].key
  BY KeyedShape
<1>3. /\ u \in Seq(Slot) /\ Len(u) = Len(q) - 1 /\ DOMAIN u = 1 .. Len(q) - 1
      /\ \A i \in 1 .. Len(q) - 1 : u[i] = q[i + 1]
  BY <1>1, HeadTailProperties, SequenceShape
<1> HIDE DEF E, u, v
<1>4. v # <<>>
  BY <1>1, <1>2
<1>5. /\ w \in Seq(E) /\ Len(w) = Len(v) - 1
      /\ \A i \in 1 .. Len(v) - 1 : w[i] = v[i + 1]
  BY <1>2, <1>4, HeadTailProperties
<1>6. /\ x \in Seq(E) /\ Len(x) = Len(u) /\ DOMAIN x = DOMAIN u
      /\ \A i \in DOMAIN u : x[i] = f[u[i]].key
  BY <1>3, KeyedShape DEF E
<1> HIDE DEF x, w
<1>7. \A i \in 1 .. Len(q) - 1 : x[i] = w[i]
  <2> SUFFICES ASSUME NEW i \in 1 .. Len(q) - 1
               PROVE  x[i] = w[i]
    OBVIOUS
  <2>1. i + 1 \in DOMAIN q /\ i \in DOMAIN u
    BY <1>1, <1>3
  <2> QED
    BY <1>1, <1>2, <1>3, <1>5, <1>6, <2>1
<1>8. x = w
  <2>1. Len(x) = Len(w) /\ Len(x) = Len(q) - 1
    BY <1>2, <1>3, <1>5, <1>6
  <2> QED
    BY <1>5, <1>6, <1>7, <2>1, SeqEqual
<1>9. Head(v) = v[1] /\ Head(q) = q[1]
  BY <1>1, <1>2, <1>4, HeadTailProperties
<1> QED
  BY <1>1, <1>2, <1>8, <1>9 DEF x, u, v, w

\* Only the endpoints count.
LEMMA KeyedSame ==
  ASSUME NEW f \in [Slot -> Entry], NEW g \in [Slot -> Entry], NEW q \in Seq(Slot),
         \A s : In(s, q) => f[s].key = g[s].key
  PROVE  Keyed(f, q) = Keyed(g, q)
<1>1. \A i \in DOMAIN q : f[q[i]].key = g[q[i]].key
  BY DEF In
<1> QED
  BY <1>1 DEF Keyed

-----------------------------------------------------------------------------
(***************************************************************************)
(* The table as a directory: what is remembered, and who owns what.        *)
(***************************************************************************)

\* f is a function.
IsMap(f) == f = [x \in DOMAIN f |-> f[x]]

LEMMA SameMap ==
  ASSUME NEW f, NEW g, IsMap(f), IsMap(g), DOMAIN f = DOMAIN g, \A x \in DOMAIN f : f[x] = g[x]
  PROVE  f = g
  BY DEF IsMap

LEMMA WithoutShape ==
  ASSUME NEW f, NEW S
  PROVE  LET g == Directory!Without(f, S)
         IN  IsMap(g) /\ DOMAIN g = DOMAIN f \ S /\ \A z \in DOMAIN g : g[z] = f[z]
  BY DEF Directory!Without, IsMap

\* The map from endpoints to users.
LEMMA UserShape ==
  ASSUME NEW l, Live(l)
  PROVE  /\ IsMap(UserOf(l))
         /\ DOMAIN UserOf(l) = {l.store[s].key : s \in Used(l)}
         /\ \A s \in Used(l) : UserOf(l)[l.store[s].key] = Memory(l.store[s])
         /\ \A k : k \in DOMAIN UserOf(l) <=> Known(l, k)
<1>1. IsMap(UserOf(l)) /\ DOMAIN UserOf(l) = {l.store[s].key : s \in Used(l)}
  BY DEF UserOf, IsMap, Used
<1>2. \A s \in Used(l) : UserOf(l)[l.store[s].key] = Memory(l.store[SlotOf(l, l.store[s].key)])
  BY DEF UserOf, Used
<1>3. \A s \in Used(l) : SlotOf(l, l.store[s].key) = s
  BY SlotOfUnique
<1>4. \A k : k \in DOMAIN UserOf(l) <=> Known(l, k)
  BY <1>1 DEF Known, Used
<1> QED
  BY <1>1, <1>2, <1>3, <1>4

\* The map from names to their owners.
LEMMA OwnerShape ==
  ASSUME NEW l, NEW S, Named(l, S)
  PROVE  /\ IsMap(OwnerOf(l))
         /\ DOMAIN OwnerOf(l) = {l.store[s].he : s \in l.lookup}
         /\ \A s \in l.lookup : OwnerOf(l)[l.store[s].he] = l.store[s].key
         /\ \A s \in l.lookup : Registered(l, l.store[s].he) = {s}
<1>1. IsMap(OwnerOf(l)) /\ DOMAIN OwnerOf(l) = {l.store[s].he : s \in l.lookup}
  BY DEF OwnerOf, IsMap
<1>2. \A s \in l.lookup : Registered(l, l.store[s].he) = {s}
  BY DEF Registered, Named
<1> DEFINE who(n) == CHOOSE t \in Registered(l, n) : TRUE
<1>3. \A s \in l.lookup : who(l.store[s].he) = s
  BY <1>2
<1>4. \A s \in l.lookup : OwnerOf(l)[l.store[s].he] = l.store[who(l.store[s].he)].key
  BY DEF OwnerOf
<1> HIDE DEF who
<1>5. \A s \in l.lookup : OwnerOf(l)[l.store[s].he] = l.store[s].key
  BY <1>3, <1>4
<1> QED
  BY <1>1, <1>2, <1>5

LEMMA RecentIsKeyed ==
  ASSUME NEW l
  PROVE  RecentOf(l) = Keyed(l.store, l.cache)
  BY DEF RecentOf, Keyed

\* The order of the slots does not matter to the users.
LEMMA SameUsers ==
  ASSUME NEW l, NEW d, d.store = l.store, Used(d) = Used(l)
  PROVE  UserOf(d) = UserOf(l)
  BY DEF UserOf, SlotOf, Used

\* A user that is seen moves to the end of the order.
LEMMA ToBackMeans ==
  ASSUME NEW l, Live(l), NEW s \in Used(l)
  PROVE  LET d == ToBack(l, s)
         IN  /\ RecentOf(d) = SeenLast(RecentOf(l), l.store[s].key)
             /\ UserOf(d) = UserOf(l) /\ OwnerOf(d) = OwnerOf(l)
<1> DEFINE d == ToBack(l, s)
<1>1. /\ Used(d) = Used(l) /\ d.store = l.store /\ d.lookup = l.lookup
      /\ d.cache = SeenLast(l.cache, s)
  BY ToBackLive
<1> HIDE DEF d
<1>2. UserOf(d) = UserOf(l)
  BY <1>1, SameUsers
<1>3. OwnerOf(d) = OwnerOf(l)
  BY <1>1 DEF OwnerOf, Registered
<1>4. RecentOf(d) = Keyed(l.store, SeenLast(l.cache, s))
  BY <1>1, RecentIsKeyed
<1>5. /\ l.store \in [Slot -> Entry] /\ l.cache \in Seq(Slot) /\ Distinct(l.cache)
      /\ In(s, l.cache)
      /\ \A x, y : In(x, l.cache) /\ In(y, l.cache) /\ l.store[x].key = l.store[y].key => x = y
  BY LiveParts, InUse DEF Live
<1>6. Keyed(l.store, SeenLast(l.cache, s)) = SeenLast(Keyed(l.store, l.cache), l.store[s].key)
  BY <1>5, KeyedSeenLast
<1> QED
  BY <1>2, <1>3, <1>4, <1>6, RecentIsKeyed DEF d

\* The owners without the names of k.
NotOf(own, k) == [n \in {x \in DOMAIN own : own[x] # k} |-> own[n]]

LEMMA NotOfShape ==
  ASSUME NEW own, NEW k
  PROVE  LET g == NotOf(own, k)
         IN  /\ IsMap(g) /\ DOMAIN g = {x \in DOMAIN own : own[x] # k}
             /\ \A z \in DOMAIN g : g[z] = own[z]
  BY DEF NotOf, IsMap

\* Eviction forgets the user that was not seen for longest, and its name.
LEMMA EvictedMeans ==
  ASSUME NEW l, Good(l, {}), Len(l.cache) >= MAX_CACHE_SIZE
  PROVE  LET d == EvictOldest(l)
             k == Head(RecentOf(l))
         IN  /\ RecentOf(d) = Tail(RecentOf(l))
             /\ UserOf(d) = Directory!Without(UserOf(l), {k})
             /\ OwnerOf(d) = NotOf(OwnerOf(l), k)
<1> DEFINE d == EvictOldest(l)
           s == Head(l.cache)
           k == l.store[s].key
<1>1. /\ Live(l) /\ Named(l, {}) /\ l.store \in [Slot -> Entry] /\ l.cache \in Seq(Slot)
      /\ Distinct(l.cache) /\ Used(l) \subseteq Slot
  BY LiveParts DEF Good
<1>2. /\ Live(d) /\ Named(d, {}) /\ s \in Used(l) /\ Used(d) = Used(l) \ {s}
      /\ d.store = At(l.store, s, Zeroed)
      /\ d.cache = Tail(l.cache) /\ d.lookup = l.lookup \ {s}
  BY EvictedGood DEF Good
<1>3. Len(l.cache) > 0
  <2> DEFINE n == Len(l.cache)
  <2>1. n \in Nat /\ n >= MAX_CACHE_SIZE /\ MAX_CACHE_SIZE \in Nat \ {0}
    BY <1>1, SequenceShape, CacheAssumption
  <2> HIDE DEF n
  <2>2. n > 0
    BY <2>1
  <2> QED
    BY <2>2 DEF n
<1>4. d.store \in [Slot -> Entry] /\ \A t \in Slot : t # s => d.store[t] = l.store[t]
  BY <1>1, <1>2, ZeroedType, AtShape
<1>5. \A t : In(t, Tail(l.cache)) => t # s /\ t \in Slot
  BY <1>1, <1>3, TailShape, InUse
<1>6. Tail(l.cache) \in Seq(Slot)
  BY <1>1, <1>3, TailShape
<1> HIDE DEF d, s
<1>7. RecentOf(d) = Tail(RecentOf(l)) /\ Head(RecentOf(l)) = k
  <2>1. Keyed(d.store, Tail(l.cache)) = Keyed(l.store, Tail(l.cache))
    BY <1>1, <1>4, <1>5, <1>6, KeyedSame
  <2>2. /\ Keyed(l.store, Tail(l.cache)) = Tail(Keyed(l.store, l.cache))
        /\ Head(Keyed(l.store, l.cache)) = k
    BY <1>1, <1>3, KeyedTail DEF s
  <2> QED
    BY <1>2, <2>1, <2>2, RecentIsKeyed
<1>8. \A t \in Used(d) : t \in Used(l) /\ t \in Slot /\ t # s /\ d.store[t] = l.store[t]
  BY <1>1, <1>2, <1>4
<1>9. \A t, v \in Used(l) : l.store[t].key = l.store[v].key => t = v
  BY <1>1 DEF Live
<1>10. UserOf(d) = Directory!Without(UserOf(l), {k})
  <2> DEFINE f == UserOf(d)
             u == UserOf(l)
             g == Directory!Without(u, {k})
  <2>1. /\ IsMap(f) /\ DOMAIN f = {d.store[t].key : t \in Used(d)}
        /\ \A t \in Used(d) : f[d.store[t].key] = Memory(d.store[t])
    BY <1>2, UserShape
  <2>2. /\ DOMAIN u = {l.store[t].key : t \in Used(l)}
        /\ \A t \in Used(l) : u[l.store[t].key] = Memory(l.store[t])
    BY <1>1, UserShape
  <2>3. IsMap(g) /\ DOMAIN g = DOMAIN u \ {k} /\ \A z \in DOMAIN g : g[z] = u[z]
    BY WithoutShape
  <2> HIDE DEF f, u, g
  <2>4. \A z : z \in DOMAIN f <=> z \in DOMAIN g
    BY <1>2, <1>8, <1>9, <2>1, <2>2, <2>3
  <2>5. \A z \in DOMAIN f : f[z] = g[z]
    <3> SUFFICES ASSUME NEW z \in DOMAIN f
                 PROVE  f[z] = g[z]
      OBVIOUS
    <3>1. PICK t \in Used(d) : z = d.store[t].key
      BY <2>1
    <3>2. f[z] = Memory(l.store[t]) /\ u[z] = Memory(l.store[t])
      BY <1>8, <2>1, <2>2, <3>1
    <3> QED
      BY <2>3, <2>4, <3>2
  <2>6. DOMAIN f = DOMAIN g
    BY <2>1, <2>3, <2>4
  <2> QED
    BY <2>1, <2>3, <2>5, <2>6, SameMap DEF f, g, u
<1>11. OwnerOf(d) = NotOf(OwnerOf(l), k)
  <2> DEFINE f == OwnerOf(d)
             u == OwnerOf(l)
             g == NotOf(u, k)
  <2>1. /\ IsMap(f) /\ DOMAIN f = {d.store[t].he : t \in d.lookup}
        /\ \A t \in d.lookup : f[d.store[t].he] = d.store[t].key
    BY <1>2, OwnerShape
  <2>2. /\ DOMAIN u = {l.store[t].he : t \in l.lookup}
        /\ \A t \in l.lookup : u[l.store[t].he] = l.store[t].key
    BY <1>1, OwnerShape
  <2>3. /\ IsMap(g) /\ DOMAIN g = {x \in DOMAIN u : u[x] # k}
        /\ \A z \in DOMAIN g : g[z] = u[z]
    BY NotOfShape
  <2>4. /\ \A t \in d.lookup : t \in l.lookup /\ t # s /\ d.store[t] = l.store[t]
        /\ \A t \in l.lookup : t \in Used(l)
    BY <1>1, <1>2, <1>4 DEF Named
  <2> HIDE DEF f, u, g
  <2>5. \A t \in d.lookup : l.store[t].key # k
    BY <1>2, <1>9, <2>4
  <2>6. \A z \in DOMAIN f : z \in DOMAIN g /\ f[z] = g[z]
    BY <2>1, <2>2, <2>3, <2>4, <2>5
  <2>7. \A z \in DOMAIN g : z \in DOMAIN f
    BY <1>2, <2>1, <2>2, <2>3, <2>4
  <2>8. DOMAIN f = DOMAIN g
    BY <2>1, <2>3, <2>6, <2>7
  <2> QED
    BY <2>1, <2>3, <2>6, <2>8, SameMap DEF f, g, u
<1> QED
  BY <1>7, <1>10, <1>11 DEF d

\* A new user is the last of the order, remembered as a stranger, and owns no name.
LEMMA AddedMeans ==
  ASSUME NEW l, Good(l, {}), Len(l.cache) < MAX_CACHE_SIZE, NEW k \in Endpoint, ~Known(l, k)
  PROVE  LET d == EntryAlloc(l, k)
         IN  /\ RecentOf(d) = Append(RecentOf(l), k)
             /\ UserOf(d) = Directory!With(UserOf(l), k, Directory!Stranger)
             /\ OwnerOf(d) = OwnerOf(l)
<1> DEFINE d == EntryAlloc(l, k)
           s == Last(l.tracker)
           e == Fresh(s, k)
<1>1. /\ Live(l) /\ Named(l, {}) /\ l.store \in [Slot -> Entry] /\ l.cache \in Seq(Slot)
      /\ Used(l) \subseteq Slot
  BY LiveParts DEF Good
<1>2. /\ Live(d) /\ Named(d, {}) /\ s \in Slot /\ s \notin Used(l) /\ Used(d) = Used(l) \cup {s}
      /\ d.store = At(l.store, s, e)
      /\ d.cache = Append(l.cache, s) /\ d.lookup = l.lookup
  BY AddedGood DEF Good
<1> HIDE DEF d, s
<1>3. e \in Entry /\ e.key = k /\ Memory(e) = Directory!Stranger
  BY <1>2, ZeroedType DEF Entry, Zeroed, Fresh, Memory, Directory!Stranger
<1> HIDE DEF e
<1>4. /\ d.store \in [Slot -> Entry] /\ d.store[s] = e
      /\ \A t \in Used(l) : t \in Slot /\ t # s /\ d.store[t] = l.store[t]
  BY <1>1, <1>2, <1>3, AtShape
<1>5. RecentOf(d) = Append(RecentOf(l), k)
  <2>1. \A t : In(t, l.cache) => d.store[t].key = l.store[t].key
    BY <1>4, InUse
  <2>2. Keyed(d.store, l.cache) = Keyed(l.store, l.cache)
    BY <1>1, <1>4, <2>1, KeyedSame
  <2>3. Keyed(d.store, Append(l.cache, s)) = Append(Keyed(d.store, l.cache), k)
    BY <1>1, <1>2, <1>3, <1>4, KeyedAppend
  <2> QED
    BY <1>2, <2>2, <2>3, RecentIsKeyed
<1>6. UserOf(d) = Directory!With(UserOf(l), k, Directory!Stranger)
  <2> DEFINE f == UserOf(d)
             u == UserOf(l)
             y == Directory!Stranger
             g == Directory!With(u, k, y)
  <2>1. /\ IsMap(f) /\ DOMAIN f = {d.store[t].key : t \in Used(d)}
        /\ \A t \in Used(d) : f[d.store[t].key] = Memory(d.store[t])
    BY <1>2, UserShape
  <2>2. /\ DOMAIN u = {l.store[t].key : t \in Used(l)}
        /\ \A t \in Used(l) : u[l.store[t].key] = Memory(l.store[t])
    BY <1>1, UserShape
  <2>3. /\ IsMap(g) /\ DOMAIN g = DOMAIN u \cup {k}
        /\ \A z \in DOMAIN g : g[z] = IF z = k THEN y ELSE u[z]
    <3> HIDE DEF u, y
    <3> QED
      BY DEF Directory!With, IsMap
  <2>4. Memory(e) = y
    BY <1>3
  <2> HIDE DEF f, u, g, y
  <2>5. \A t \in Used(l) : l.store[t].key # k
    BY DEF Known, Used
  <2>6. \A z : z \in DOMAIN f <=> z \in DOMAIN g
    BY <1>2, <1>3, <1>4, <2>1, <2>2, <2>3
  <2>7. \A z \in DOMAIN f : f[z] = g[z]
    <3> SUFFICES ASSUME NEW t \in Used(d)
                 PROVE  f[d.store[t].key] = g[d.store[t].key]
      BY <2>1
    <3>1. CASE t = s
      BY <1>2, <1>3, <1>4, <2>1, <2>3, <2>4, <3>1
    <3>2. CASE t # s
      <4>1. t \in Used(l) /\ d.store[t] = l.store[t]
        BY <1>2, <1>4, <3>2
      <4> QED
        BY <2>1, <2>2, <2>3, <2>5, <4>1
    <3> QED
      BY <3>1, <3>2
  <2>8. DOMAIN f = DOMAIN g
    BY <2>1, <2>3, <2>6
  <2> QED
    BY <2>1, <2>3, <2>7, <2>8, SameMap DEF f, g, u, y
<1>7. OwnerOf(d) = OwnerOf(l)
  <2> DEFINE f == OwnerOf(d)
             u == OwnerOf(l)
  <2>1. /\ IsMap(f) /\ DOMAIN f = {d.store[t].he : t \in d.lookup}
        /\ \A t \in d.lookup : f[d.store[t].he] = d.store[t].key
    BY <1>2, OwnerShape
  <2>2. /\ IsMap(u) /\ DOMAIN u = {l.store[t].he : t \in l.lookup}
        /\ \A t \in l.lookup : u[l.store[t].he] = l.store[t].key
    BY <1>1, OwnerShape
  <2>3. d.lookup = l.lookup /\ \A t \in l.lookup : d.store[t] = l.store[t]
    BY <1>1, <1>2, <1>4 DEF Named
  <2> HIDE DEF f, u
  <2>4. DOMAIN f = DOMAIN u /\ \A z \in DOMAIN f : f[z] = u[z]
    BY <2>1, <2>2, <2>3
  <2> QED
    BY <2>1, <2>2, <2>4, SameMap DEF f, u
<1> QED
  BY <1>5, <1>6, <1>7 DEF d

\* A claim: who owned the name before owns it no more, and k owns no other.
LEMMA ClaimedMeans ==
  ASSUME NEW l, NEW s \in Used(l), Good(l, {s}), NEW n \in Name, l.store[s].name = n,
         NEW k, l.store[s].key = k
  PROVE  LET d == CacheUpdateLookup(l, k, n)
         IN  /\ RecentOf(d) = SeenLast(RecentOf(l), k)
             /\ UserOf(d) = UserOf(l)
             /\ OwnerOf(d) = Directory!Claimed(OwnerOf(l), k, n)
<1> DEFINE d == CacheUpdateLookup(l, k, n)
           e == Claims(l.store[s], n)
<1>1. /\ Live(l) /\ Named(l, {s}) /\ l.store \in [Slot -> Entry] /\ l.cache \in Seq(Slot)
      /\ Used(l) \subseteq Slot /\ s \in Slot /\ l.store[s] \in Entry
  BY LiveParts DEF Good
<1>2. /\ Live(d) /\ Named(d, {}) /\ Used(d) = Used(l)
      /\ d.store = At(l.store, s, e) /\ d.cache = SeenLast(l.cache, s)
      /\ d.lookup = (l.lookup \ {t \in l.lookup : l.store[t].he = n}) \cup {s}
  BY ClaimedGood DEF Good
<1> HIDE DEF d
<1>3. /\ e \in Entry /\ e.key = k /\ e.he = n /\ Memory(e) = Memory(l.store[s])
  BY <1>1 DEF Entry, Claims, Memory
<1> HIDE DEF e
<1>4. /\ d.store \in [Slot -> Entry]
      /\ \A t \in Slot : d.store[t] = IF t = s THEN e ELSE l.store[t]
  <2>1. At(l.store, s, e) \in [Slot -> Entry]
    BY <1>1, <1>3, AtShape
  <2>2. \A t \in Slot : At(l.store, s, e)[t] = IF t = s THEN e ELSE l.store[t]
    BY <1>1, <1>3, AtShape
  <2> QED
    BY <1>2, <2>1, <2>2
<1>5. \A t \in Slot : /\ d.store[t].key = l.store[t].key
                      /\ Memory(d.store[t]) = Memory(l.store[t])
                      /\ d.store[t].he = IF t = s THEN n ELSE l.store[t].he
  BY <1>3, <1>4
<1>6. RecentOf(d) = SeenLast(RecentOf(l), k)
  <2>1. /\ Distinct(l.cache) /\ In(s, l.cache)
        /\ \A x, y : In(x, l.cache) /\ In(y, l.cache) /\ l.store[x].key = l.store[y].key => x = y
    BY <1>1, LiveParts, InUse DEF Live
  <2>2. Keyed(l.store, SeenLast(l.cache, s)) = SeenLast(Keyed(l.store, l.cache), k)
    BY <1>1, <2>1, KeyedSeenLast
  <2>3. d.cache \in Seq(Slot) /\ \A t : In(t, d.cache) => t \in Slot
    BY <1>1, <1>2, LiveParts, InUse
  <2>4. Keyed(d.store, d.cache) = Keyed(l.store, d.cache)
    BY <1>1, <1>4, <1>5, <2>3, KeyedSame
  <2> QED
    BY <1>2, <2>2, <2>4, RecentIsKeyed
<1>7. UserOf(d) = UserOf(l)
  <2> DEFINE f == UserOf(d)
             u == UserOf(l)
  <2>1. /\ IsMap(f) /\ DOMAIN f = {d.store[t].key : t \in Used(d)}
        /\ \A t \in Used(d) : f[d.store[t].key] = Memory(d.store[t])
    BY <1>2, UserShape
  <2>2. /\ IsMap(u) /\ DOMAIN u = {l.store[t].key : t \in Used(l)}
        /\ \A t \in Used(l) : u[l.store[t].key] = Memory(l.store[t])
    BY <1>1, UserShape
  <2> HIDE DEF f, u
  <2>3. DOMAIN f = DOMAIN u /\ \A z \in DOMAIN f : f[z] = u[z]
    BY <1>1, <1>2, <1>5, <2>1, <2>2
  <2> QED
    BY <2>1, <2>2, <2>3, SameMap DEF f, u
<1>8. OwnerOf(d) = Directory!Claimed(OwnerOf(l), k, n)
  <2> DEFINE f == OwnerOf(d)
             u == OwnerOf(l)
             S == Directory!OwnedBy(u, k)
             h == Directory!Without(u, S)
             g == Directory!With(h, n, k)
  <2>1. /\ IsMap(f) /\ DOMAIN f = {d.store[t].he : t \in d.lookup}
        /\ \A t \in d.lookup : f[d.store[t].he] = d.store[t].key
    BY <1>2, OwnerShape
  <2>2. /\ DOMAIN u = {l.store[t].he : t \in l.lookup}
        /\ \A t \in l.lookup : u[l.store[t].he] = l.store[t].key
    BY <1>1, OwnerShape
  <2>3. S = {x \in DOMAIN u : u[x] = k}
    BY DEF Directory!OwnedBy
  <2>4. DOMAIN h = DOMAIN u \ S /\ \A z \in DOMAIN h : h[z] = u[z]
    <3> HIDE DEF u, S
    <3> QED
      BY WithoutShape
  <2>5. /\ IsMap(g) /\ DOMAIN g = DOMAIN h \cup {n}
        /\ \A z \in DOMAIN g : g[z] = IF z = n THEN k ELSE h[z]
    <3> HIDE DEF h
    <3> QED
      BY DEF Directory!With, IsMap
  <2>6. g = Directory!Claimed(u, k, n)
    <3>1. n # NoName
      BY CacheAssumption
    <3> QED
      BY <3>1 DEF Directory!Claimed
  <2> HIDE DEF f, u, S, h, g
  <2>7. /\ \A t \in l.lookup : t \in Used(l) /\ t \in Slot
        /\ \A t \in l.lookup : l.store[t].key = k => t = s
    BY <1>1 DEF Named, Live
  <2>8. \A t : t \in d.lookup <=> t = s \/ (t \in l.lookup /\ t # s /\ l.store[t].he # n)
    BY <1>2
  <2>9. \A z \in DOMAIN f : z \in DOMAIN g /\ f[z] = g[z]
    <3> SUFFICES ASSUME NEW t \in d.lookup
                 PROVE  d.store[t].he \in DOMAIN g /\ f[d.store[t].he] = g[d.store[t].he]
      BY <2>1
    <3>1. CASE t = s
      BY <1>1, <1>5, <2>1, <2>5, <3>1
    <3>2. CASE t # s
      <4>1. t \in l.lookup /\ l.store[t].he # n /\ l.store[t].key # k
        BY <2>7, <2>8, <3>2
      <4>2. d.store[t].he = l.store[t].he /\ d.store[t].key = l.store[t].key
        BY <1>5, <2>7, <3>2, <4>1
      <4>3. l.store[t].he \in DOMAIN h /\ h[l.store[t].he] = l.store[t].key
        BY <2>2, <2>3, <2>4, <4>1
      <4> QED
        BY <2>1, <2>5, <4>1, <4>2, <4>3
    <3> QED
      BY <3>1, <3>2
  <2>10. \A z \in DOMAIN g : z \in DOMAIN f
    <3> SUFFICES ASSUME NEW z \in DOMAIN g
                 PROVE  z \in DOMAIN f
      OBVIOUS
    <3>1. CASE z = n
      BY <1>1, <1>5, <2>1, <2>8, <3>1
    <3>2. CASE z # n
      <4>1. PICK t \in l.lookup : z = l.store[t].he /\ u[z] # k
        BY <2>2, <2>3, <2>4, <2>5, <3>2
      <4>2. l.store[t].key # k /\ t # s
        BY <1>1, <2>2, <4>1
      <4> QED
        BY <1>5, <2>1, <2>7, <2>8, <3>2, <4>1, <4>2
    <3> QED
      BY <3>1, <3>2
  <2>11. DOMAIN f = DOMAIN g
    BY <2>1, <2>5, <2>9, <2>10
  <2>12. f = g
    BY <2>1, <2>5, <2>9, <2>11, SameMap
  <2> QED
    BY <2>6, <2>12 DEF f, u
<1> QED
  BY <1>6, <1>7, <1>8 DEF d

\* Another user in s, with the endpoint and the claim of the one before.
LEMMA PutMeans ==
  ASSUME NEW l, Good(l, {}), NEW s \in Used(l), NEW e \in Entry, NEW k, l.store[s].key = k,
         e.idx = l.store[s].idx, e.key = k, e.he = l.store[s].he
  PROVE  LET d == Put(l, s, e)
         IN  /\ RecentOf(d) = RecentOf(l)
             /\ UserOf(d) = Directory!With(UserOf(l), k, Memory(e))
             /\ OwnerOf(d) = OwnerOf(l)
<1> DEFINE d == Put(l, s, e)
<1>1. /\ Live(l) /\ Named(l, {}) /\ l.store \in [Slot -> Entry] /\ l.cache \in Seq(Slot)
      /\ Used(l) \subseteq Slot /\ s \in Slot
  BY LiveParts DEF Good
<1>2. /\ Live(d) /\ Named(d, {s}) /\ d.store = At(l.store, s, e)
      /\ d.cache = l.cache /\ d.lookup = l.lookup /\ Used(d) = Used(l)
  BY UserRewritten DEF Good
<1> HIDE DEF d
<1>3. /\ d.store \in [Slot -> Entry]
      /\ \A t \in Slot : d.store[t] = IF t = s THEN e ELSE l.store[t]
  <2>1. d.store \in [Slot -> Entry]
    BY <1>1, <1>2, AtShape
  <2>2. \A t \in Slot : At(l.store, s, e)[t] = IF t = s THEN e ELSE l.store[t]
    BY <1>1, AtShape
  <2> QED
    BY <1>2, <2>1, <2>2
<1>4. \A t \in Slot : d.store[t].key = l.store[t].key /\ d.store[t].he = l.store[t].he
  BY <1>3
<1>5. RecentOf(d) = RecentOf(l)
  <2>1. \A t : In(t, l.cache) => l.store[t].key = d.store[t].key
    BY <1>1, <1>4, InUse
  <2>2. Keyed(l.store, l.cache) = Keyed(d.store, l.cache)
    BY <1>1, <1>3, <2>1, KeyedSame
  <2> QED
    BY <1>2, <2>2, RecentIsKeyed
<1>6. UserOf(d) = Directory!With(UserOf(l), k, Memory(e))
  <2> DEFINE f == UserOf(d)
             u == UserOf(l)
             y == Memory(e)
             g == Directory!With(u, k, y)
  <2>1. /\ IsMap(f) /\ DOMAIN f = {d.store[t].key : t \in Used(d)}
        /\ \A t \in Used(d) : f[d.store[t].key] = Memory(d.store[t])
    BY <1>2, UserShape
  <2>2. /\ DOMAIN u = {l.store[t].key : t \in Used(l)}
        /\ \A t \in Used(l) : u[l.store[t].key] = Memory(l.store[t])
    BY <1>1, UserShape
  <2>3. /\ IsMap(g) /\ DOMAIN g = DOMAIN u \cup {k}
        /\ \A z \in DOMAIN g : g[z] = IF z = k THEN y ELSE u[z]
    <3> HIDE DEF u, y
    <3> QED
      BY DEF Directory!With, IsMap
  <2>4. \A t \in Used(l) : t # s => l.store[t].key # k
    BY <1>1 DEF Live
  <2>5. d.store[s] = e /\ d.store[s].key = k
    BY <1>1, <1>3
  <2> HIDE DEF f, u, g
  <2>6. DOMAIN f = DOMAIN g
    BY <1>1, <1>2, <1>4, <2>1, <2>2, <2>3
  <2>7. \A z \in DOMAIN f : f[z] = g[z]
    <3> SUFFICES ASSUME NEW t \in Used(d)
                 PROVE  f[d.store[t].key] = g[d.store[t].key]
      BY <2>1
    <3>1. CASE t = s
      BY <2>1, <2>3, <2>5, <3>1
    <3>2. CASE t # s
      <4>1. t \in Used(l) /\ d.store[t] = l.store[t] /\ l.store[t].key # k
        BY <1>1, <1>2, <1>3, <2>4, <3>2
      <4> QED
        BY <2>1, <2>2, <2>3, <4>1
    <3> QED
      BY <3>1, <3>2
  <2> QED
    BY <2>1, <2>3, <2>6, <2>7, SameMap DEF f, u, g
<1>7. OwnerOf(d) = OwnerOf(l)
  <2> DEFINE f == OwnerOf(d)
             u == OwnerOf(l)
  <2>1. /\ IsMap(f) /\ DOMAIN f = {d.store[t].he : t \in d.lookup}
        /\ \A t \in d.lookup : f[d.store[t].he] = d.store[t].key
    BY <1>2, OwnerShape
  <2>2. /\ IsMap(u) /\ DOMAIN u = {l.store[t].he : t \in l.lookup}
        /\ \A t \in l.lookup : u[l.store[t].he] = l.store[t].key
    BY <1>1, OwnerShape
  <2>3. \A t \in l.lookup : t \in Slot
    BY <1>1 DEF Named
  <2> HIDE DEF f, u
  <2>4. DOMAIN f = DOMAIN u /\ \A z \in DOMAIN f : f[z] = u[z]
    BY <1>2, <1>4, <2>1, <2>2, <2>3
  <2> QED
    BY <2>1, <2>2, <2>4, SameMap DEF f, u
<1> QED
  BY <1>5, <1>6, <1>7 DEF d

-----------------------------------------------------------------------------
(***************************************************************************)
(* The table as a directory: a message arrives.                            *)
(***************************************************************************)

\* Who was seen last is where it is if it is seen again.
LEMMA StaysLast ==
  ASSUME NEW l, Live(l), NEW s \in Used(l), \A x, y : Before(l.cache, x, y) => x # s
  PROVE  SeenLast(RecentOf(l), l.store[s].key) = RecentOf(l)
<1>1. /\ l.store \in [Slot -> Entry] /\ l.cache \in Seq(Slot) /\ Distinct(l.cache)
      /\ In(s, l.cache)
      /\ \A x, y : In(x, l.cache) /\ In(y, l.cache) /\ l.store[x].key = l.store[y].key => x = y
  BY LiveParts, InUse DEF Live
<1>2. Keyed(l.store, SeenLast(l.cache, s)) = SeenLast(Keyed(l.store, l.cache), l.store[s].key)
  BY <1>1, KeyedSeenLast
<1>3. SeenLast(l.cache, s) = l.cache
  BY <1>1, LastSeen
<1> QED
  BY <1>2, <1>3, RecentIsKeyed

\* The directory has its own copy of Recency.
LEMMA SameSeenLast ==
  ASSUME NEW q, NEW s
  PROVE  Directory!SeenLast(q, s) = SeenLast(q, s)
  BY DEF Directory!SeenLast, Directory!Unlinked, SeenLast, Unlinked

\* The owners but for the one that is forgotten when k is heard of.
Kept(k) ==
  [m \in {x \in DOMAIN OwnerOf(lru) : OwnerOf(lru)[x] \notin Directory!Forgotten(k)} |->
     OwnerOf(lru)[m]]

\* The directory once k has an entry.
Entered(a, k) ==
  /\ RecentOf(a) = Directory!Order(k)
  /\ UserOf(a) = Directory!Users(k, Directory!Remembered(k))
  /\ OwnerOf(a) = Kept(k)

LEMMA KnownEntered ==
  ASSUME Good(lru, {}), NEW k \in Endpoint, Known(lru, k)
  PROVE  LET a == Arrived(lru, k)
         IN  Entered(a, k) /\ \A x, y : Before(a.cache, x, y) => x # SlotOf(a, k)
<1> DEFINE a == Arrived(lru, k)
           s == SlotOf(lru, k)
           u == UserOf(lru)
           o == OwnerOf(lru)
<1>1. Live(lru) /\ Named(lru, {}) /\ s \in Used(lru) /\ lru.store[s].key = k
  BY SlotOfKnown DEF Good
<1>2. a = ToBack(lru, s)
  BY DEF Arrived, CacheFind
<1> HIDE DEF a, s
<1>3. /\ RecentOf(a) = SeenLast(RecentOf(lru), k) /\ UserOf(a) = u /\ OwnerOf(a) = o
  BY <1>1, <1>2, ToBackMeans
<1>4. /\ Live(a) /\ Used(a) = Used(lru) /\ a.store = lru.store
      /\ \A x, y : Before(a.cache, x, y) => x # s
  BY <1>1, <1>2, ToBackLive
<1>5. SlotOf(a, k) = s
  BY <1>1, <1>4, SlotOfUnique
<1>6. k \in DOMAIN u /\ IsMap(u) /\ IsMap(o)
  BY <1>1, UserShape, OwnerShape
<1>7. RecentOf(a) = Directory!Order(k)
  BY <1>3, <1>6, SameSeenLast DEF Directory!Order
<1>8. Directory!Forgotten(k) = {} /\ Directory!Remembered(k) = u[k]
  BY <1>6 DEF Directory!Forgotten, Directory!Remembered
<1>9. Kept(k) = o
  BY <1>6, <1>8 DEF Kept, IsMap
<1>10. Directory!Users(k, Directory!Remembered(k)) = u
  <2> DEFINE w == Directory!Without(u, {})
             g == Directory!With(w, k, u[k])
  <2>1. Directory!Users(k, Directory!Remembered(k)) = g
    BY <1>8 DEF Directory!Users
  <2> HIDE DEF u
  <2>2. IsMap(w) /\ DOMAIN w = DOMAIN u /\ \A z \in DOMAIN u : w[z] = u[z]
    BY DEF Directory!Without, IsMap
  <2> HIDE DEF w
  <2>3. IsMap(g) /\ DOMAIN g = DOMAIN u /\ \A z \in DOMAIN u : g[z] = u[z]
    BY <1>6, <2>2 DEF Directory!With, IsMap
  <2> HIDE DEF g
  <2>4. g = u
    BY <1>6, <2>3, SameMap
  <2> QED
    BY <2>1, <2>4
<1> QED
  BY <1>3, <1>4, <1>5, <1>7, <1>9, <1>10 DEF Entered, a

LEMMA NewEntered ==
  ASSUME Good(lru, {}), NEW k \in Endpoint, ~Known(lru, k)
  PROVE  LET a == Arrived(lru, k)
         IN  Entered(a, k) /\ \A x, y : Before(a.cache, x, y) => x # SlotOf(a, k)
<1> DEFINE p == Pruned(lru)
           a == Arrived(lru, k)
           r == RecentOf(lru)
           u == UserOf(lru)
           o == OwnerOf(lru)
           F == Directory!Forgotten(k)
           y == Directory!Stranger
<1>1. Live(lru) /\ Named(lru, {})
  BY DEF Good
<1>2. a = Allocated(lru, k) /\ a = EntryAlloc(p, k)
  BY DEF Arrived, Allocated
<1>3. \A x, z : Before(a.cache, x, z) => x # SlotOf(a, k)
  <2> HIDE DEF a
  <2> DEFINE b == Allocated(lru, k)
  <2>1. PICK s \in Slot : SlotOf(b, k) = s /\ \A x, z : Before(b.cache, x, z) => x # s
    BY AllocatedGood
  <2> HIDE DEF b
  <2>2. \A x, z : Before(b.cache, x, z) => x # SlotOf(b, k)
    BY <2>1
  <2>3. a = b
    BY <1>2 DEF b
  <2> QED
    BY <2>2, <2>3
<1>4. /\ RecentOf(a) = Append(RecentOf(p), k)
      /\ UserOf(a) = Directory!With(UserOf(p), k, y)
      /\ OwnerOf(a) = OwnerOf(p)
  <2>1. Good(p, {}) /\ Len(p.cache) < MAX_CACHE_SIZE /\ ~Known(p, k)
    BY PrunedGood
  <2> HIDE DEF p, a
  <2> QED
    BY <1>2, <2>1, AddedMeans
<1>5. k \notin DOMAIN u /\ IsMap(o)
  BY <1>1, UserShape, OwnerShape
<1>6. Len(r) = Len(lru.cache)
  BY <1>1, LiveParts, KeyedShape, RecentIsKeyed
<1>7. Directory!Remembered(k) = y
  BY <1>5 DEF Directory!Remembered
<1>8. F = IF Len(r) < MAX_CACHE_SIZE THEN {} ELSE {Head(r)}
  BY <1>5 DEF Directory!Forgotten
<1>9. Directory!Order(k) = Append(IF F = {} THEN r ELSE Tail(r), k)
  BY <1>5 DEF Directory!Order
<1>10. Directory!Users(k, y) = Directory!With(Directory!Without(u, F), k, y)
  BY DEF Directory!Users
<1>11. Kept(k) = [m \in {x \in DOMAIN o : o[x] \notin F} |-> o[m]]
  BY DEF Kept
<1> HIDE DEF a, r, u, o, F, y
<1>12. RecentOf(p) = (IF F = {} THEN r ELSE Tail(r)) /\ UserOf(p) = Directory!Without(u, F)
       /\ OwnerOf(p) = Kept(k)
  <2> DEFINE n == Len(lru.cache)
  <2>1. n \in Nat /\ MAX_CACHE_SIZE \in Nat
    BY <1>1, LiveParts, SequenceShape, CacheAssumption
  <2>2. p = IF n >= MAX_CACHE_SIZE THEN EvictOldest(lru) ELSE lru
    BY DEF Pruned
  <2>3. Len(r) = n
    BY <1>6
  <2>4. n >= MAX_CACHE_SIZE =>
          /\ RecentOf(EvictOldest(lru)) = Tail(r)
          /\ UserOf(EvictOldest(lru)) = Directory!Without(u, {Head(r)})
          /\ OwnerOf(EvictOldest(lru)) = NotOf(o, Head(r))
    BY EvictedMeans DEF r, u, o
  <2> HIDE DEF p, n
  <2>5. CASE n >= MAX_CACHE_SIZE
    <3>1. ~(Len(r) < MAX_CACHE_SIZE)
      BY <2>1, <2>3, <2>5
    <3>2. F = {Head(r)} /\ F # {}
      BY <1>8, <3>1
    <3>3. NotOf(o, Head(r)) = Kept(k)
      BY <1>11, <3>2 DEF NotOf
    <3> QED
      BY <2>2, <2>4, <2>5, <3>2, <3>3
  <2>6. CASE ~(n >= MAX_CACHE_SIZE)
    <3>1. Len(r) < MAX_CACHE_SIZE
      BY <2>1, <2>3, <2>6
    <3>2. F = {} /\ p = lru
      BY <1>8, <2>2, <2>6, <3>1
    <3>3. Kept(k) = o
      BY <1>5, <1>11, <3>2 DEF IsMap
    <3>4. UserOf(lru) = Directory!Without(u, F)
      <4>1. IsMap(u)
        BY <1>1, UserShape DEF u
      <4>2. /\ IsMap(Directory!Without(u, F)) /\ DOMAIN Directory!Without(u, F) = DOMAIN u \ F
            /\ \A z \in DOMAIN Directory!Without(u, F) : Directory!Without(u, F)[z] = u[z]
        BY WithoutShape
      <4>3. u = Directory!Without(u, F)
        BY <3>2, <4>1, <4>2, SameMap
      <4> QED
        BY <4>3 DEF u
    <3> QED
      BY <3>2, <3>3, <3>4 DEF r, o
  <2> QED
    BY <2>5, <2>6
<1> HIDE DEF p
<1>13. Entered(a, k)
  BY <1>4, <1>7, <1>9, <1>10, <1>12 DEF Entered
<1> QED
  BY <1>3, <1>13 DEF a

\* A message of k: the directory's order, memory and owners once it was heard.
LEMMA HeardMeans ==
  ASSUME Good(lru, {}), NEW k \in Endpoint
  PROVE  LET d == InsertUser(lru, k)
             s == SlotOf(d, k)
         IN  /\ RecentOf(d) = Directory!Order(k)
             /\ UserOf(d) = Directory!Users(k, Directory!Remembered(k))
             /\ OwnerOf(d) = Directory!Owners(k, Directory!Remembered(k).name)
             /\ Memory(d.store[s]) = Directory!Remembered(k)
             /\ \A x, y : Before(d.cache, x, y) => x # s
<1> DEFINE a == Arrived(lru, k)
           s == SlotOf(a, k)
           old == Directory!Remembered(k)
           n == a.store[s].name
           d == InsertUser(lru, k)
<1>1. /\ Good(a, {s}) /\ Named(a, {}) /\ Known(a, k) /\ s \in Used(a) /\ a.store[s].key = k
  BY ArrivedGood
<1>2. Entered(a, k) /\ \A x, y : Before(a.cache, x, y) => x # s
  BY KnownEntered, NewEntered
<1>3. d = CacheUpdateLookup(a, k, n)
  BY DEF InsertUser, Arrived
<1>4. Good(d, {}) /\ Known(d, k)
  BY InsertedGood
<1> HIDE DEF a, d
<1>5. Live(a) /\ s \in Slot /\ a.store[s] \in Entry
  BY <1>1, LiveParts DEF Good
<1>6. Memory(a.store[s]) = old
  <2>1. UserOf(a)[k] = Memory(a.store[s])
    BY <1>1, <1>5, UserShape
  <2> DEFINE w == Directory!Without(UserOf(lru), Directory!Forgotten(k))
  <2>2. UserOf(a) = Directory!With(w, k, old)
    BY <1>2 DEF Entered, Directory!Users
  <2> HIDE DEF w, old
  <2>3. Directory!With(w, k, old)[k] = old
    BY DEF Directory!With
  <2> QED
    BY <2>1, <2>2, <2>3
<1>7. old.name = n
  <2> HIDE DEF old
  <2> QED
    BY <1>6 DEF Memory
<1>8. Directory!Owners(k, n) = Directory!Claimed(Kept(k), k, n)
  BY DEF Directory!Owners, Kept
<1> HIDE DEF old, n, s
<1>9. CASE n = NoName
  <2>1. d = a
    BY <1>3, <1>9 DEF CacheUpdateLookup
  <2>2. Directory!Claimed(Kept(k), k, n) = Kept(k)
    BY <1>9 DEF Directory!Claimed
  <2>3. /\ RecentOf(d) = Directory!Order(k) /\ UserOf(d) = Directory!Users(k, old)
        /\ OwnerOf(d) = Directory!Owners(k, old.name)
    BY <1>2, <1>7, <1>8, <2>1, <2>2 DEF Entered, old
  <2>4. SlotOf(d, k) = s
    BY <2>1 DEF s
  <2> QED
    BY <1>2, <1>6, <2>1, <2>3, <2>4 DEF d, old
<1>10. CASE n # NoName
  <2>1. n \in Name /\ a.store[s].name = n
    BY <1>5, <1>10 DEF n, Entry
  <2>2. /\ RecentOf(d) = SeenLast(RecentOf(a), k)
        /\ UserOf(d) = UserOf(a)
        /\ OwnerOf(d) = Directory!Claimed(OwnerOf(a), k, n)
    BY <1>1, <1>3, <2>1, ClaimedMeans
  <2>3. /\ SlotOf(d, k) = s /\ d.store[s].key = k /\ Used(d) = Used(a)
        /\ \A x, y : Before(d.cache, x, y) => x # s
    BY <1>1, <1>3, <2>1, ClaimedGood
  <2>4. SeenLast(RecentOf(a), k) = RecentOf(a)
    BY <1>1, <1>2, <1>5, StaysLast
  <2>5. /\ RecentOf(d) = Directory!Order(k) /\ UserOf(d) = Directory!Users(k, old)
        /\ OwnerOf(d) = Directory!Owners(k, old.name)
    BY <1>2, <1>7, <1>8, <2>2, <2>4 DEF Entered, old
  <2>6. Memory(d.store[s]) = old
    <3>1. UserOf(d)[k] = Memory(d.store[s]) /\ UserOf(a)[k] = Memory(a.store[s])
      BY <1>1, <1>4, <1>5, <2>3, UserShape DEF Good
    <3> QED
      BY <1>6, <2>2, <3>1
  <2> QED
    BY <2>3, <2>5, <2>6 DEF d, old
<1> QED
  BY <1>9, <1>10

-----------------------------------------------------------------------------
(***************************************************************************)
(* The table as a directory: what a message says.                          *)
(***************************************************************************)

\* Who is remembered twice is remembered as the second time.
LEMMA WithTwice ==
  ASSUME NEW f, NEW x, NEW y, NEW z
  PROVE  Directory!With(Directory!With(f, x, y), x, z) = Directory!With(f, x, z)
<1> DEFINE g == Directory!With(f, x, y)
           a == Directory!With(g, x, z)
           b == Directory!With(f, x, z)
<1>1. DOMAIN g = DOMAIN f \cup {x} /\ \A v \in DOMAIN f : v # x => g[v] = f[v]
  BY DEF Directory!With
<1> HIDE DEF g
<1>2. /\ IsMap(a) /\ DOMAIN a = DOMAIN g \cup {x}
      /\ \A v \in DOMAIN a : a[v] = IF v = x THEN z ELSE g[v]
  BY DEF Directory!With, IsMap
<1>3. /\ IsMap(b) /\ DOMAIN b = DOMAIN f \cup {x}
      /\ \A v \in DOMAIN b : b[v] = IF v = x THEN z ELSE f[v]
  BY DEF Directory!With, IsMap
<1> HIDE DEF a, b
<1>4. DOMAIN a = DOMAIN b
  BY <1>1, <1>2, <1>3
<1>5. \A v \in DOMAIN a : a[v] = b[v]
  BY <1>1, <1>2, <1>3, <1>4
<1>6. a = b
  BY <1>2, <1>3, <1>4, <1>5, SameMap
<1> QED
  BY <1>6 DEF a, b, g

\* Remembering what is remembered changes nothing.
LEMMA WithSame ==
  ASSUME NEW f, IsMap(f), NEW x \in DOMAIN f
  PROVE  Directory!With(f, x, f[x]) = f
<1> DEFINE g == Directory!With(f, x, f[x])
<1>1. IsMap(g) /\ DOMAIN g = DOMAIN f /\ \A v \in DOMAIN g : g[v] = f[v]
  BY DEF Directory!With, IsMap
<1> HIDE DEF g
<1>2. g = f
  BY <1>1, SameMap
<1> QED
  BY <1>2 DEF g

\* Claiming what is owned changes nothing.
LEMMA ClaimTwice ==
  ASSUME NEW own, NEW k, NEW n
  PROVE  Directory!Claimed(Directory!Claimed(own, k, n), k, n) = Directory!Claimed(own, k, n)
<1>1. CASE n = NoName
  BY <1>1 DEF Directory!Claimed
<1>2. CASE n # NoName
  <2> DEFINE S == Directory!OwnedBy(own, k)
             h == Directory!Without(own, S)
             g == Directory!With(h, n, k)
             T == Directory!OwnedBy(g, k)
             w == Directory!Without(g, T)
             a == Directory!With(w, n, k)
  <2>1. Directory!Claimed(own, k, n) = g
    BY <1>2 DEF Directory!Claimed
  <2>2. S = {x \in DOMAIN own : own[x] = k}
    BY DEF Directory!OwnedBy
  <2>3. DOMAIN h = DOMAIN own \ S /\ \A z \in DOMAIN h : h[z] = own[z]
    <3> HIDE DEF S
    <3> QED
      BY DEF Directory!Without
  <2> HIDE DEF S, h
  <2>4. /\ IsMap(g) /\ DOMAIN g = DOMAIN h \cup {n}
        /\ \A z \in DOMAIN g : g[z] = IF z = n THEN k ELSE h[z]
    BY DEF Directory!With, IsMap
  <2> HIDE DEF g
  <2>5. T = {n}
    <3>1. T = {x \in DOMAIN g : g[x] = k}
      BY DEF Directory!OwnedBy
    <3>2. \A z \in DOMAIN h : h[z] # k
      BY <2>2, <2>3
    <3> HIDE DEF T
    <3> QED
      BY <2>4, <3>1, <3>2
  <2> HIDE DEF T
  <2>6. DOMAIN w = DOMAIN g \ {n} /\ \A z \in DOMAIN w : w[z] = g[z]
    BY <2>5 DEF Directory!Without
  <2> HIDE DEF w
  <2>7. /\ IsMap(a) /\ DOMAIN a = DOMAIN w \cup {n}
        /\ \A z \in DOMAIN a : a[z] = IF z = n THEN k ELSE w[z]
    BY DEF Directory!With, IsMap
  <2>8. Directory!Claimed(g, k, n) = a
    BY <1>2 DEF Directory!Claimed, a, w, T
  <2> HIDE DEF a
  <2>9. DOMAIN a = DOMAIN g /\ \A z \in DOMAIN a : a[z] = g[z]
    BY <2>4, <2>6, <2>7
  <2>10. a = g
    BY <2>4, <2>7, <2>9, SameMap
  <2> QED
    BY <2>1, <2>8, <2>10
<1> QED
  BY <1>1, <1>2

\* What is remembered of a user: after its account, after its report, by another name.
Accounted(m, c) ==
  [m EXCEPT !.name = IF @ = NoName THEN m.charName ELSE @, !.charName = c]

Told(m, n, r) == [m EXCEPT !.name = n, !.age = 0, !.report = r]

\* context_update_account changes what is remembered of k.
LEMMA AccountMeans ==
  ASSUME NEW l, Good(l, {}), NEW k \in Endpoint, Known(l, k), NEW c \in Name \cup {NoName}
  PROVE  LET d == UpdateAccount(l, k, c)
             m == Memory(l.store[SlotOf(l, k)])
         IN  /\ RecentOf(d) = RecentOf(l) /\ OwnerOf(d) = OwnerOf(l)
             /\ UserOf(d) = Directory!With(UserOf(l), k, Accounted(m, c))
<1> DEFINE s == SlotOf(l, k)
           u == l.store[s]
           e == [u EXCEPT !.name = IF @ = NoName THEN u.charName ELSE @, !.charName = c]
           d == UpdateAccount(l, k, c)
           m == Memory(u)
<1>1. s \in Used(l) /\ u.key = k
  BY SlotOfKnown
<1>2. u \in Entry
  BY <1>1, LiveParts DEF Good
<1>3. d = Put(l, s, e)
  BY DEF UpdateAccount, Put
<1> HIDE DEF s, d
<1>4. e \in Entry /\ e.idx = u.idx /\ e.key = k /\ e.he = u.he
  <2> HIDE DEF u
  <2> QED
    BY <1>1, <1>2 DEF Entry
<1>5. Memory(e) = Accounted(m, c)
  <2> DEFINE name == IF u.name = NoName THEN u.charName ELSE u.name
  <2> HIDE DEF u
  <2>1. e.name = name /\ e.charName = c /\ e.age = u.age /\ e.report = u.report
    BY <1>2 DEF Entry
  <2>2. /\ m = [name |-> u.name, charName |-> u.charName, age |-> u.age, report |-> u.report]
        /\ Accounted(m, c) = [m EXCEPT !.name = name, !.charName = c]
    BY DEF Memory, Accounted
  <2> HIDE DEF name, m
  <2>3. Accounted(m, c) = [name |-> name, charName |-> c, age |-> u.age, report |-> u.report]
    BY <2>2
  <2> HIDE DEF e
  <2> QED
    BY <2>1, <2>3 DEF Memory
<1> HIDE DEF e, m
<1>6. e.idx = l.store[s].idx /\ e.he = l.store[s].he /\ l.store[s].key = k
  BY <1>1, <1>4
<1> HIDE DEF u
<1>7. /\ RecentOf(Put(l, s, e)) = RecentOf(l)
      /\ UserOf(Put(l, s, e)) = Directory!With(UserOf(l), k, Memory(e))
      /\ OwnerOf(Put(l, s, e)) = OwnerOf(l)
  BY <1>1, <1>4, <1>6, PutMeans
<1>8. /\ RecentOf(d) = RecentOf(l) /\ OwnerOf(d) = OwnerOf(l)
      /\ UserOf(d) = Directory!With(UserOf(l), k, Accounted(m, c))
  BY <1>3, <1>5, <1>7
<1> QED
  BY <1>8 DEF d, m, u, s

\* The report of k is remembered.
LEMMA StoredMeans ==
  ASSUME NEW l, Good(l, {}), NEW k \in Endpoint, Known(l, k), NEW r \in Report
  PROVE  LET d == Stored(l, k, r)
             e == Reports(l.store[SlotOf(l, k)], r)
         IN  /\ RecentOf(d) = RecentOf(l) /\ OwnerOf(d) = OwnerOf(l)
             /\ UserOf(d) = Directory!With(UserOf(l), k, Memory(e))
             /\ d.store[SlotOf(l, k)] = e /\ e \in Entry
<1> DEFINE d == Stored(l, k, r)
           s == SlotOf(l, k)
           e == Reports(l.store[s], r)
<1>1. s \in Used(l) /\ l.store[s].key = k
  BY SlotOfKnown
<1>2. l \in Table /\ s \in Slot /\ l.store[s] \in Entry /\ l.store \in [Slot -> Entry]
  BY <1>1, LiveParts DEF Good
<1>3. d.store = At(l.store, s, e)
  BY StoredGood
<1> HIDE DEF s
<1>4. e \in Entry /\ e.idx = l.store[s].idx /\ e.key = k /\ e.he = l.store[s].he
  <2>1. 0 \in 0 .. DAMAGE_PERIOD
    BY CacheAssumption
  <2> QED
    BY <1>1, <1>2, <2>1 DEF Entry, Reports
<1>5. d = Put(l, s, e)
  BY <1>2 DEF Stored, s, Table, Put, Reports
<1> HIDE DEF e
<1>6. /\ RecentOf(Put(l, s, e)) = RecentOf(l)
      /\ UserOf(Put(l, s, e)) = Directory!With(UserOf(l), k, Memory(e))
      /\ OwnerOf(Put(l, s, e)) = OwnerOf(l)
  BY <1>1, <1>4, PutMeans
<1>7. d.store[s] = e
  BY <1>2, <1>3, <1>4, AtShape
<1>8. /\ RecentOf(d) = RecentOf(l) /\ OwnerOf(d) = OwnerOf(l)
      /\ UserOf(d) = Directory!With(UserOf(l), k, Memory(e))
  <2> HIDE DEF d
  <2> QED
    BY <1>5, <1>6
<1> QED
  BY <1>4, <1>7, <1>8 DEF d, e, s
\* The entry e by another name.
Renamed(e, n) == [e EXCEPT !.name = n]

\* lru_update_name of a user that was just heard.
LEMMA RenamedMeans ==
  ASSUME NEW l, Good(l, {}), NEW k \in Endpoint, Known(l, k), NEW n \in Name \cup {NoName},
         \A x, y : Before(l.cache, x, y) => x # SlotOf(l, k),
         Directory!Claimed(OwnerOf(l), k, l.store[SlotOf(l, k)].name) = OwnerOf(l),
         NEW name, name = IF n = NoName THEN l.store[SlotOf(l, k)].name ELSE n
  PROVE  LET d == UpdateName(l, k, n)
             e == l.store[SlotOf(l, k)]
         IN  /\ RecentOf(d) = RecentOf(l)
             /\ UserOf(d) = Directory!With(UserOf(l), k, Memory(Renamed(e, name)))
             /\ OwnerOf(d) = Directory!Claimed(OwnerOf(l), k, name)
<1> DEFINE s == SlotOf(l, k)
           e == l.store[s]
           f == Renamed(e, name)
           d == UpdateName(l, k, n)
<1>1. s \in Used(l) /\ e.key = k
  BY SlotOfKnown
<1>2. l \in Table /\ s \in Slot /\ e \in Entry /\ l.store \in [Slot -> Entry] /\ Live(l)
  BY <1>1, LiveParts DEF Good
<1>3. CASE n = NoName \/ e.name = n
  <2>1. d = l /\ name = e.name
    BY <1>3 DEF UpdateName
  <2> HIDE DEF e
  <2>2. f = e
    BY <1>2, <2>1 DEF Renamed, Entry
  <2> HIDE DEF f, d
  <2>3. UserOf(l)[k] = Memory(e) /\ k \in DOMAIN UserOf(l) /\ IsMap(UserOf(l))
    BY <1>1, <1>2, UserShape DEF e
  <2>4. UserOf(l) = Directory!With(UserOf(l), k, Memory(f))
    <3>1. UserOf(l) = Directory!With(UserOf(l), k, UserOf(l)[k])
      BY <2>3, WithSame
    <3> QED
      BY <2>2, <2>3, <3>1
  <2>5. OwnerOf(l) = Directory!Claimed(OwnerOf(l), k, name)
    BY <2>1 DEF e, s
  <2> QED
    BY <2>1, <2>4, <2>5 DEF d, f, e, s
<1>4. CASE ~(n = NoName \/ e.name = n)
  <2> DEFINE b == Put(l, s, f)
  <2>1. name = n /\ n \in Name
    BY <1>4
  <2>2. d = CacheUpdateLookup(b, k, n)
    <3>1. b = [l EXCEPT !.store[s].name = n]
      BY <1>2, <2>1 DEF Table, Put, Renamed
    <3> QED
      BY <1>4, <3>1 DEF UpdateName
  <2> HIDE DEF e
  <2>3. f \in Entry /\ f.idx = e.idx /\ f.key = k /\ f.he = e.he /\ f.name = n
    BY <1>1, <1>2, <2>1 DEF Entry, Renamed
  <2> HIDE DEF s, f
  <2>4. f.idx = l.store[s].idx /\ f.he = l.store[s].he /\ l.store[s].key = k
    BY <1>1, <2>3 DEF e
  <2>5. /\ Good(b, {s}) /\ Used(b) = Used(l) /\ b.store[s] = f /\ b.cache = l.cache
        /\ SlotOf(b, k) = s
    BY <1>1, <2>3, <2>4, UserRewritten
  <2>6. /\ RecentOf(b) = RecentOf(l)
        /\ UserOf(b) = Directory!With(UserOf(l), k, Memory(f))
        /\ OwnerOf(b) = OwnerOf(l)
    BY <1>1, <2>3, <2>4, PutMeans
  <2> HIDE DEF b, d
  <2>7. s \in Used(b) /\ b.store[s].name = n /\ b.store[s].key = k /\ Live(b)
    BY <1>1, <2>3, <2>5 DEF Good
  <2>8. /\ RecentOf(d) = SeenLast(RecentOf(b), k) /\ UserOf(d) = UserOf(b)
        /\ OwnerOf(d) = Directory!Claimed(OwnerOf(b), k, n)
    BY <2>1, <2>2, <2>5, <2>7, ClaimedMeans
  <2>9. SeenLast(RecentOf(b), k) = RecentOf(b)
    <3>1. \A x, y : Before(b.cache, x, y) => x # s
      BY <2>5 DEF s
    <3> QED
      BY <2>7, <3>1, StaysLast
  <2>10. /\ RecentOf(d) = RecentOf(l)
         /\ UserOf(d) = Directory!With(UserOf(l), k, Memory(f))
         /\ OwnerOf(d) = Directory!Claimed(OwnerOf(l), k, name)
    BY <2>1, <2>6, <2>8, <2>9
  <2> QED
    BY <2>10 DEF d, f, e, s
<1> QED
  BY <1>3, <1>4

-----------------------------------------------------------------------------
(***************************************************************************)
(* The table as a directory: the loop over the names.                      *)
(***************************************************************************)

\* A turn of the loop as the directory has it.
View(r) == [order |-> RecentOf(r.table), closest |-> r.closest]

\* One turn: who is found is the owner, with its last report.
LEMMA SearchedMeans ==
  ASSUME NEW r, Good(r.table, {}), NEW n \in Name
  PROVE  LET q == Searched(r, n)
             l == r.table
         IN  /\ Directory!Answered(View(r), OwnerOf(l), UserOf(l), n) = View(q)
             /\ UserOf(q.table) = UserOf(l) /\ OwnerOf(q.table) = OwnerOf(l)
<1> DEFINE l == r.table
           q == Searched(r, n)
           own == OwnerOf(l)
           now == UserOf(l)
           s == CHOOSE x \in Registered(l, n) : TRUE
           u == l.store[s]
           e == [name |-> u.name, report |-> u.report]
           c == Directory!Answered(View(r), own, now, n)
<1>1. Live(l) /\ Named(l, {}) /\ l.lookup \subseteq Slot
  BY LiveParts DEF Good
<1>2. DOMAIN own = {l.store[t].he : t \in l.lookup}
  BY <1>1, OwnerShape
<1>3. CASE Registered(l, n) = {}
  <2>1. q = r
    BY <1>3 DEF Searched
  <2>2. n \notin DOMAIN own
    BY <1>2, <1>3 DEF Registered
  <2>3. c = View(r)
    BY <2>2 DEF Directory!Answered
  <2> QED
    BY <2>1, <2>3
<1>4. CASE Registered(l, n) # {}
  <2>1. s \in Registered(l, n)
    BY <1>4
  <2>2. q = [table |-> ToBack(l, s), closest |-> Append(r.closest, e)]
    BY <1>4 DEF Searched, FindUser
  <2> HIDE DEF s
  <2>3. s \in l.lookup /\ u.he = n /\ s \in Used(l) /\ s \in Slot
    BY <1>1, <2>1 DEF Registered, Named
  <2>4. u.name = n
    BY <1>1, <2>3, CacheAssumption DEF Named
  <2>5. n \in DOMAIN own /\ own[n] = u.key
    BY <1>1, <2>3, OwnerShape
  <2>6. now[u.key] = Memory(u)
    BY <1>1, <2>3, UserShape
  <2>7. now[own[n]].report = u.report
    BY <2>5, <2>6 DEF Memory
  <2>8. /\ RecentOf(ToBack(l, s)) = SeenLast(RecentOf(l), u.key)
        /\ UserOf(ToBack(l, s)) = now /\ OwnerOf(ToBack(l, s)) = own
    BY <1>1, <2>3, ToBackMeans
  <2>9. c = [order |-> Directory!SeenLast(RecentOf(l), own[n]),
             closest |-> Append(r.closest, [name |-> n, report |-> now[own[n]].report])]
    <3> HIDE DEF own, now
    <3> QED
      BY <2>5 DEF Directory!Answered, View
  <2>10. Directory!SeenLast(RecentOf(l), own[n]) = SeenLast(RecentOf(l), u.key)
    BY <2>5, SameSeenLast
  <2>11. e = [name |-> n, report |-> now[own[n]].report]
    BY <2>4, <2>7
  <2> HIDE DEF e, own, now, u, c, q
  <2>12. q.table = ToBack(l, s) /\ q.closest = Append(r.closest, e)
    BY <2>2
  <2>13. c = View(q)
    BY <2>8, <2>9, <2>10, <2>11, <2>12 DEF View
  <2> QED
    BY <2>8, <2>12, <2>13 DEF c, q, own, now
<1> QED
  BY <1>3, <1>4

\* The turns change neither what is remembered nor who owns what.
LEMMA SearchKeeps ==
  ASSUME NEW l, Good(l, {}), NEW names \in Seq(Name)
  PROVE  \A i \in 0 .. Len(names) : LET t == Search(l, names)[i].table
                                    IN  UserOf(t) = UserOf(l) /\ OwnerOf(t) = OwnerOf(l)
<1> DEFINE f == Search(l, names)
           n == Len(names)
           Holds(i) == UserOf(f[i].table) = UserOf(l) /\ OwnerOf(f[i].table) = OwnerOf(l)
           G == {i \in 0 .. n : Holds(i)}
<1>1. n \in Nat /\ \A i \in 1 .. n : names[i] \in Name
  BY SequenceShape
<1>2. f[0] = [table |-> l, closest |-> <<>>] /\ \A i \in 1 .. n : f[i] = Searched(f[i - 1], names[i])
  BY SearchShape
<1>3. \A i \in 0 .. n : Good(f[i].table, {})
  BY SearchGood
<1> HIDE DEF f, n
<1>4. Holds(0)
  BY <1>2
<1>5. ASSUME NEW i \in 1 .. n, Holds(i - 1)
      PROVE  Holds(i)
  <2>1. i - 1 \in 0 .. n
    BY <1>1
  <2>2. Good(f[i - 1].table, {}) /\ names[i] \in Name /\ f[i] = Searched(f[i - 1], names[i])
    BY <1>1, <1>2, <1>3, <2>1
  <2>3. UserOf(f[i].table) = UserOf(f[i - 1].table) /\ OwnerOf(f[i].table) = OwnerOf(f[i - 1].table)
    BY <2>2, SearchedMeans
  <2> QED
    BY <1>5, <2>3
<1> HIDE DEF Holds
<1>6. 0 \in G /\ \A i \in 1 .. n : i - 1 \in G => i \in G
  BY <1>1, <1>4, <1>5
<1> HIDE DEF G
<1>7. \A i \in 0 .. n : i \in G
  BY <1>1, <1>6, UpTo
<1>8. \A i \in 0 .. n : Holds(i)
  BY <1>7 DEF G
<1> QED
  BY <1>8 DEF Holds, f, n

\* The turns of the loop are the answers of the directory: they satisfy its equation,
\* and no other function does.
LEMMA AnswersMeans ==
  ASSUME NEW l, Good(l, {}), NEW names \in Seq(Name)
  PROVE  \A i \in 0 .. Len(names) :
           Directory!Answers(RecentOf(l), OwnerOf(l), UserOf(l), names)[i] = View(Search(l, names)[i])
<1> DEFINE f == Search(l, names)
           n == Len(names)
           own == OwnerOf(l)
           now == UserOf(l)
           base == [order |-> RecentOf(l), closest |-> <<>>]
           Is(x) == x = [i \in 0 .. n |->
                           IF i = 0 THEN base ELSE Directory!Answered(x[i - 1], own, now, names[i])]
           g == [i \in 0 .. n |-> View(f[i])]
           h == Directory!Answers(RecentOf(l), own, now, names)
           G == {i \in 0 .. n : h[i] = g[i]}
<1>1. n \in Nat /\ \A i \in 1 .. n : names[i] \in Name
  BY SequenceShape
<1>2. f[0] = [table |-> l, closest |-> <<>>] /\ \A i \in 1 .. n : f[i] = Searched(f[i - 1], names[i])
  BY SearchShape
<1>3. \A i \in 0 .. n : Good(f[i].table, {})
  BY SearchGood
<1>4. \A i \in 0 .. n : UserOf(f[i].table) = now /\ OwnerOf(f[i].table) = own
  BY SearchKeeps
<1>5. h = CHOOSE x : Is(x)
  BY DEF Directory!Answers
<1> HIDE DEF f, n, own, now, h
<1>6. \A i \in 1 .. n : View(f[i]) = Directory!Answered(View(f[i - 1]), own, now, names[i])
  <2> SUFFICES ASSUME NEW i \in 1 .. n
               PROVE  View(f[i]) = Directory!Answered(View(f[i - 1]), own, now, names[i])
    OBVIOUS
  <2>1. i - 1 \in 0 .. n
    BY <1>1
  <2>2. /\ Good(f[i - 1].table, {}) /\ names[i] \in Name /\ f[i] = Searched(f[i - 1], names[i])
        /\ UserOf(f[i - 1].table) = now /\ OwnerOf(f[i - 1].table) = own
    BY <1>1, <1>2, <1>3, <1>4, <2>1
  <2>3. Directory!Answered(View(f[i - 1]), OwnerOf(f[i - 1].table), UserOf(f[i - 1].table), names[i])
          = View(Searched(f[i - 1], names[i]))
    BY <2>2, SearchedMeans
  <2> QED
    BY <2>2, <2>3
<1>7. View(f[0]) = base
  BY <1>2 DEF View
<1>8. Is(g)
  <2> HIDE DEF base
  <2>1. \A i \in 1 .. n : i - 1 \in 0 .. n /\ g[i - 1] = View(f[i - 1])
    BY <1>1
  <2>2. g = [i \in 0 .. n |->
               IF i = 0 THEN base ELSE Directory!Answered(g[i - 1], own, now, names[i])]
    BY <1>1, <1>6, <1>7, <2>1
  <2> HIDE DEF g
  <2> QED
    BY <2>2
<1>9. Is(h)
  <2> HIDE DEF Is, g
  <2> QED
    BY <1>5, <1>8
<1> HIDE DEF base
<1>10. h[0] = base /\ \A i \in 1 .. n : h[i] = Directory!Answered(h[i - 1], own, now, names[i])
  <2>1. \A i \in 0 .. n :
          h[i] = IF i = 0 THEN base ELSE Directory!Answered(h[i - 1], own, now, names[i])
    BY <1>9
  <2> QED
    BY <1>1, <2>1
<1>11. \A i \in 0 .. n : g[i] = View(f[i])
  OBVIOUS
<1> HIDE DEF g, Is
<1>12. 0 \in G
  BY <1>1, <1>7, <1>10, <1>11
<1>13. ASSUME NEW i \in 1 .. n, i - 1 \in G
       PROVE  i \in G
  <2>1. i - 1 \in 0 .. n /\ i \in 0 .. n /\ h[i - 1] = View(f[i - 1])
    BY <1>1, <1>11, <1>13
  <2> QED
    BY <1>6, <1>10, <1>11, <2>1
<1> HIDE DEF G
<1>14. \A i \in 0 .. n : i \in G
  BY <1>1, <1>12, <1>13, UpTo
<1>15. \A i \in 0 .. n : h[i] = View(f[i])
  BY <1>11, <1>14 DEF G
<1> QED
  BY <1>15 DEF h, f, n, own, now

-----------------------------------------------------------------------------
(***************************************************************************)
(* The table as a directory: the steps.                                    *)
(***************************************************************************)

\* The view of the next table is the next view.
LEMMA NextView ==
  /\ RecentOf(lru)' = RecentOf(lru') /\ UserOf(lru)' = UserOf(lru') /\ OwnerOf(lru)' = OwnerOf(lru')
<1>1. RecentOf(lru)' = RecentOf(lru')
  BY DEF RecentOf
<1>2. UserOf(lru)' = UserOf(lru')
  BY DEF UserOf, SlotOf, Memory
<1>3. OwnerOf(lru)' = OwnerOf(lru')
  BY DEF OwnerOf, Registered
<1> QED
  BY <1>1, <1>2, <1>3

\* A message that changes no more than who was seen.
LEMMA InsertMeans ==
  ASSUME Good(lru, {}), NEW k \in Endpoint, lru' = InsertUser(lru, k), answer' = NoAnswer
  PROVE  Directory!Hear(k)
<1> DEFINE old == Directory!Remembered(k)
<1>1. /\ RecentOf(lru') = Directory!Order(k)
      /\ UserOf(lru') = Directory!Users(k, old)
      /\ OwnerOf(lru') = Directory!Owners(k, old.name)
  BY HeardMeans
<1>2. answer' = Directory!NoAnswer
  BY DEF NoAnswer, Directory!NoAnswer
<1>3. /\ RecentOf(lru)' = Directory!Order(k)
      /\ UserOf(lru)' = Directory!Users(k, old)
      /\ OwnerOf(lru)' = Directory!Owners(k, old.name)
  BY <1>1, NextView
<1> QED
  BY <1>2, <1>3, Zenon DEF Directory!Hear

\* A message that also has an account.
LEMMA BeginMeans ==
  ASSUME Good(lru, {}), NEW k \in Endpoint, NEW c \in Name \cup {NoName},
         lru' = UpdateAccount(InsertUser(lru, k), k, c), answer' = NoAnswer
  PROVE  Directory!Hear(k)
<1> DEFINE old == Directory!Remembered(k)
           d == InsertUser(lru, k)
           s == SlotOf(d, k)
           w == Directory!Without(UserOf(lru), Directory!Forgotten(k))
           new == Accounted(old, c)
<1>1. /\ RecentOf(d) = Directory!Order(k)
      /\ UserOf(d) = Directory!With(w, k, old)
      /\ OwnerOf(d) = Directory!Owners(k, old.name)
      /\ Memory(d.store[s]) = old
  BY HeardMeans DEF Directory!Users
<1>2. Good(d, {}) /\ Known(d, k)
  BY InsertedGood
<1> HIDE DEF d, old, w
<1>3. /\ RecentOf(lru') = RecentOf(d) /\ OwnerOf(lru') = OwnerOf(d)
      /\ UserOf(lru') = Directory!With(UserOf(d), k, Accounted(Memory(d.store[s]), c))
  BY <1>2, AccountMeans DEF d
<1> HIDE DEF s, new
<1>4. UserOf(lru') = Directory!With(Directory!With(w, k, old), k, new)
  BY <1>1, <1>3 DEF new
<1>5. UserOf(lru') = Directory!With(w, k, new)
  BY <1>4, WithTwice
<1>6. /\ RecentOf(lru)' = Directory!Order(k)
      /\ UserOf(lru)' = Directory!Users(k, new)
      /\ OwnerOf(lru)' = Directory!Owners(k, old.name)
      /\ answer' = Directory!NoAnswer
  BY <1>1, <1>3, <1>5, NextView DEF w, Directory!Users, NoAnswer, Directory!NoAnswer
<1>7. new \in {[old EXCEPT !.name = IF @ = NoName THEN old.charName ELSE @,
                          !.charName = x] : x \in Name \cup {NoName}}
  BY Zenon DEF new, Accounted
<1> QED
  BY <1>6, <1>7, Zenon DEF Directory!Hear, old

LEMMA ToldShape ==
  ASSUME NEW m, NEW a, NEW c, NEW t, NEW p, NEW n, NEW r,
         m = [name |-> a, charName |-> c, age |-> t, report |-> p]
  PROVE  Told(m, n, r) = [name |-> n, charName |-> m.charName, age |-> 0, report |-> r]
<1> DEFINE x == [m EXCEPT !.name = n]
           y == [x EXCEPT !.age = 0]
           z == [y EXCEPT !.report = r]
<1>1. Told(m, n, r) = z
  BY Zenon DEF Told
<1>2. x = [name |-> n, charName |-> c, age |-> t, report |-> p]
  OBVIOUS
<1> HIDE DEF x
<1>3. y = [name |-> n, charName |-> c, age |-> 0, report |-> p]
  BY <1>2
<1> HIDE DEF y
<1>4. z = [name |-> n, charName |-> c, age |-> 0, report |-> r]
  BY <1>3
<1>5. m.charName = c
  OBVIOUS
<1> HIDE DEF z
<1> QED
  BY <1>1, <1>4, <1>5

\* A report under the name n, with the names it asks for.
LEMMA TellMeans ==
  ASSUME Good(lru, {}), NEW k \in Endpoint, NEW n \in Name \cup {NoName}, NEW r \in Report,
         NEW names \in Seq(Name), NEW done, ~TooOften(InsertUser(lru, k), k),
         done = Search(UpdateName(Stored(InsertUser(lru, k), k, r), k, n), names)[Len(names)],
         lru' = done.table,
         answer' = IF done.closest = <<>> THEN NoAnswer ELSE [to |-> k, closest |-> done.closest]
  PROVE  Directory!Tell(k, n, r, names)
<1> DEFINE old == Directory!Remembered(k)
           d == InsertUser(lru, k)
           s == SlotOf(d, k)
           e == Reports(d.store[s], r)
           b == Stored(d, k, r)
           l == UpdateName(b, k, n)
           w == Directory!Without(UserOf(lru), Directory!Forgotten(k))
           name == IF n = NoName THEN old.name ELSE n
           f == Renamed(e, name)
           new == Told(old, name, r)
           own == Directory!Claimed(Directory!Owners(k, old.name), k, name)
           now == Directory!Users(k, new)
           all == Directory!Answers(Directory!Order(k), own, now, names)[Len(names)]
<1>1. /\ RecentOf(d) = Directory!Order(k)
      /\ UserOf(d) = Directory!With(w, k, old)
      /\ OwnerOf(d) = Directory!Owners(k, old.name)
      /\ Memory(d.store[s]) = old
      /\ \A x, y : Before(d.cache, x, y) => x # s
  BY HeardMeans DEF Directory!Users
<1>2. Good(d, {}) /\ Known(d, k) /\ s \in Slot /\ d.store[s] \in Entry
  BY InsertedGood, LiveParts DEF Good
<1>3. Directory!Owners(k, old.name) = Directory!Claimed(Kept(k), k, old.name)
  BY DEF Directory!Owners, Kept
<1>4. ~(d.store[s].age < DAMAGE_PERIOD)
  BY DEF TooOften
<1>5. done = Search(l, names)[Len(names)]
  OBVIOUS
<1> HIDE DEF d, old, w
<1>6. /\ Good(b, {}) /\ Known(b, k) /\ SlotOf(b, k) = s /\ b.cache = d.cache
  BY <1>2, StoredGood
<1>7. /\ RecentOf(b) = RecentOf(d) /\ OwnerOf(b) = OwnerOf(d)
      /\ UserOf(b) = Directory!With(UserOf(d), k, Memory(e))
      /\ b.store[s] = e /\ e \in Entry
  BY <1>2, StoredMeans
<1> HIDE DEF b, s
<1>8. /\ old = [name |-> d.store[s].name, charName |-> d.store[s].charName,
                age |-> d.store[s].age, report |-> d.store[s].report]
      /\ old.age = DAMAGE_PERIOD
  <2>1. d.store[s].age \in 0 .. DAMAGE_PERIOD
    BY <1>2 DEF Entry
  <2>2. d.store[s].age = DAMAGE_PERIOD
    BY <1>4, <2>1, CacheAssumption
  <2> QED
    BY <1>1, <2>2 DEF Memory
<1>9. e.name = old.name /\ e.charName = old.charName /\ e.age = 0 /\ e.report = r
  BY <1>2, <1>8 DEF Reports, Entry
<1> HIDE DEF e
<1>10. /\ RecentOf(l) = RecentOf(b)
       /\ UserOf(l) = Directory!With(UserOf(b), k, Memory(f))
       /\ OwnerOf(l) = Directory!Claimed(OwnerOf(b), k, name)
  <2>1. \A x, y : Before(b.cache, x, y) => x # SlotOf(b, k)
    BY <1>1, <1>6
  <2>2. /\ b.store[SlotOf(b, k)] = e
        /\ name = IF n = NoName THEN b.store[SlotOf(b, k)].name ELSE n
    BY <1>6, <1>7, <1>9
  <2>3. Directory!Claimed(OwnerOf(b), k, b.store[SlotOf(b, k)].name) = OwnerOf(b)
    BY <1>1, <1>3, <1>7, <1>9, <2>2, ClaimTwice
  <2> HIDE DEF name
  <2> QED
    BY <1>6, <2>1, <2>2, <2>3, RenamedMeans
<1>11. Good(l, {})
  BY <1>6, RenamedGood
<1> HIDE DEF l, name
<1>12. Memory(f) = new
  <2>1. /\ f.name = name /\ f.charName = old.charName /\ f.age = 0 /\ f.report = r
    BY <1>7, <1>9 DEF Renamed, Entry
  <2> HIDE DEF f
  <2>2. new = [name |-> name, charName |-> old.charName, age |-> 0, report |-> r]
    BY <1>8, ToldShape DEF new
  <2> QED
    BY <2>1, <2>2 DEF Memory
<1> HIDE DEF f, new
<1>13. UserOf(l) = now
  <2>1. UserOf(b) = Directory!With(w, k, Memory(e))
    BY <1>1, <1>7, WithTwice
  <2>2. UserOf(l) = Directory!With(w, k, new)
    BY <1>10, <1>12, <2>1, WithTwice
  <2> QED
    BY <2>2 DEF w, Directory!Users
<1>14. OwnerOf(l) = own
  BY <1>1, <1>7, <1>10
<1>15. RecentOf(l) = Directory!Order(k)
  BY <1>1, <1>7, <1>10
<1> HIDE DEF own, now
<1>16. all = View(done)
  <2>1. Len(names) \in 0 .. Len(names)
    BY SequenceShape
  <2>2. Directory!Answers(RecentOf(l), OwnerOf(l), UserOf(l), names)[Len(names)] = View(done)
    BY <1>5, <1>11, <2>1, AnswersMeans
  <2> QED
    BY <1>13, <1>14, <1>15, <2>2
<1>17. UserOf(done.table) = now /\ OwnerOf(done.table) = own
  <2>1. Len(names) \in 0 .. Len(names)
    BY SequenceShape
  <2>2. UserOf(done.table) = UserOf(l) /\ OwnerOf(done.table) = OwnerOf(l)
    BY <1>5, <1>11, <2>1, SearchKeeps
  <2> QED
    BY <1>13, <1>14, <2>2
<1> HIDE DEF all
<1>18. /\ RecentOf(lru)' = all.order /\ UserOf(lru)' = now /\ OwnerOf(lru)' = own
       /\ answer' = IF all.closest = <<>> THEN Directory!NoAnswer
                    ELSE [to |-> k, closest |-> all.closest]
  <2>1. all.order = RecentOf(done.table) /\ all.closest = done.closest
    BY <1>16 DEF View
  <2> QED
    BY <1>17, <2>1, NextView DEF NoAnswer, Directory!NoAnswer
<1> QED
  BY <1>8, <1>18, Zenon DEF Directory!Tell, all, now, own, new, name, old, Told

\* Time passes.
LEMMA TickMeans ==
  ASSUME Good(lru, {}), Tick
  PROVE  Directory!Tick
<1> DEFINE Older(m) == [m EXCEPT !.age = IF @ < DAMAGE_PERIOD THEN @ + 1 ELSE @]
           f == [s \in Slot |-> [lru.store[s] EXCEPT !.age = IF @ < DAMAGE_PERIOD THEN @ + 1 ELSE @]]
           d == [lru EXCEPT !.store = f]
           u == UserOf(lru)
           g == [k \in DOMAIN u |-> Older(u[k])]
<1>1. lru' = d /\ answer' = NoAnswer
  BY DEF Tick
<1>2. Good(d, {})
  BY TickGood
<1>3. /\ Live(lru) /\ Named(lru, {}) /\ Live(d) /\ Named(d, {})
      /\ lru.store \in [Slot -> Entry] /\ Used(lru) \subseteq Slot /\ lru.lookup \subseteq Slot
  BY <1>2, LiveParts DEF Good
<1>4. \A s \in Slot : /\ f[s].key = lru.store[s].key /\ f[s].he = lru.store[s].he
                      /\ Memory(f[s]) = Older(Memory(lru.store[s]))
  <2> SUFFICES ASSUME NEW s \in Slot
               PROVE  /\ f[s].key = lru.store[s].key /\ f[s].he = lru.store[s].he
                      /\ Memory(f[s]) = Older(Memory(lru.store[s]))
    OBVIOUS
  <2> DEFINE v == lru.store[s]
             a == IF v.age < DAMAGE_PERIOD THEN v.age + 1 ELSE v.age
  <2>1. v \in Entry /\ f[s] = [v EXCEPT !.age = a]
    BY <1>3
  <2> HIDE DEF f, v, a
  <2>2. /\ f[s].key = v.key /\ f[s].he = v.he /\ f[s].name = v.name
        /\ f[s].charName = v.charName /\ f[s].age = a /\ f[s].report = v.report
    BY <2>1 DEF Entry
  <2>3. Older(Memory(v)) = [name |-> v.name, charName |-> v.charName, age |-> a, report |-> v.report]
    BY DEF Memory, a
  <2> QED
    BY <2>2, <2>3 DEF Memory, v
<1>5. /\ d.store = f /\ d.cache = lru.cache /\ d.lookup = lru.lookup
      /\ Used(d) = Used(lru)
  <2>1. lru \in Table
    BY <1>3, LiveParts
  <2> HIDE DEF f
  <2>2. d.store = f /\ d.cache = lru.cache /\ d.lookup = lru.lookup
    BY <2>1 DEF Table
  <2> QED
    BY <2>2 DEF Used
<1> HIDE DEF f, Older, d
<1>6. RecentOf(d) = RecentOf(lru)
  <2>1. \A i \in DOMAIN lru.cache : lru.cache[i] \in Slot
    BY <1>3, LiveParts, SequenceShape
  <2> QED
    BY <1>4, <1>5, <2>1 DEF RecentOf
<1>7. UserOf(d) = g
  <2> DEFINE h == UserOf(d)
  <2>1. /\ IsMap(h) /\ DOMAIN h = {d.store[s].key : s \in Used(d)}
        /\ \A s \in Used(d) : h[d.store[s].key] = Memory(d.store[s])
    BY <1>3, UserShape
  <2>2. /\ DOMAIN u = {lru.store[s].key : s \in Used(lru)}
        /\ \A s \in Used(lru) : u[lru.store[s].key] = Memory(lru.store[s])
    BY <1>3, UserShape
  <2> HIDE DEF u
  <2>3. IsMap(g) /\ DOMAIN g = DOMAIN u /\ \A k \in DOMAIN u : g[k] = Older(u[k])
    BY DEF IsMap
  <2> HIDE DEF h, g
  <2>4. DOMAIN h = DOMAIN g
    BY <1>3, <1>4, <1>5, <2>1, <2>2, <2>3
  <2>5. \A k \in DOMAIN h : h[k] = g[k]
    <3> SUFFICES ASSUME NEW s \in Used(lru)
                 PROVE  h[f[s].key] = g[f[s].key]
      BY <1>5, <2>1
    <3>1. f[s].key = lru.store[s].key /\ Memory(f[s]) = Older(Memory(lru.store[s]))
      BY <1>3, <1>4
    <3>2. h[f[s].key] = Memory(f[s]) /\ g[lru.store[s].key] = Older(Memory(lru.store[s]))
      BY <1>5, <2>1, <2>2, <2>3
    <3> QED
      BY <3>1, <3>2
  <2> QED
    BY <2>1, <2>3, <2>4, <2>5, SameMap DEF h
<1>8. OwnerOf(d) = OwnerOf(lru)
  <2> DEFINE h == OwnerOf(d)
             o == OwnerOf(lru)
  <2>1. /\ IsMap(h) /\ DOMAIN h = {d.store[s].he : s \in d.lookup}
        /\ \A s \in d.lookup : h[d.store[s].he] = d.store[s].key
    BY <1>3, OwnerShape
  <2>2. /\ IsMap(o) /\ DOMAIN o = {lru.store[s].he : s \in lru.lookup}
        /\ \A s \in lru.lookup : o[lru.store[s].he] = lru.store[s].key
    BY <1>3, OwnerShape
  <2> HIDE DEF h, o
  <2>3. DOMAIN h = DOMAIN o /\ \A z \in DOMAIN h : h[z] = o[z]
    BY <1>3, <1>4, <1>5, <2>1, <2>2
  <2> QED
    BY <2>1, <2>2, <2>3, SameMap DEF h, o
<1>9. /\ RecentOf(lru)' = RecentOf(lru) /\ OwnerOf(lru)' = OwnerOf(lru) /\ UserOf(lru)' = g
  BY <1>1, <1>6, <1>7, <1>8, NextView
<1> QED
  BY <1>1, <1>9, Zenon DEF Directory!Tick, NoAnswer, Directory!NoAnswer, g, u, Older

\* The initial state, a step and a stutter of the table are ones of the directory.
LEMMA InitMeans == Init => Directory!Init
<1> SUFFICES ASSUME Init
             PROVE  Directory!Init
  OBVIOUS
<1>1. lru = Created /\ lru.cache = <<>> /\ lru.lookup = {} /\ answer = NoAnswer
  BY DEF Init, Created
<1>2. RecentOf(lru) = <<>>
  BY <1>1 DEF RecentOf
<1>3. UserOf(lru) = <<>>
  BY <1>1 DEF UserOf, ToSet
<1>4. OwnerOf(lru) = <<>>
  BY <1>1 DEF OwnerOf
<1> QED
  BY <1>1, <1>2, <1>3, <1>4 DEF Directory!Init, NoAnswer, Directory!NoAnswer

LEMMA StepMeans == IInv /\ [Next]_vars => [Directory!Next]_(Directory!vars)
<1> SUFFICES ASSUME Good(lru, {}), [Next]_vars
             PROVE  [Directory!Next]_(Directory!vars)
  BY DEF IInv
<1>1. ASSUME NEW k \in Endpoint, NEW shard \in Shard, DamageLimited(k, shard)
      PROVE  Directory!Hear(k)
  BY <1>1, InsertMeans DEF DamageLimited
<1>2. ASSUME NEW k \in Endpoint, NEW shard \in Shard, NEW n \in Name \cup {NoName},
             NEW report \in Report, NEW closest \in Request,
             Damage(k, shard, n, report, closest)
      PROVE  Directory!Tell(k, n, report, Asked(closest))
  <2> DEFINE names == Asked(closest)
             done == Search(UpdateName(Stored(InsertUser(lru, k), k, report), k, n), names)[Len(names)]
  <2>1. names \in Seq(Name)
    BY AskedShape
  <2>2. /\ ~TooOften(InsertUser(lru, k), k) /\ lru' = done.table
        /\ answer' = IF done.closest = <<>> THEN NoAnswer ELSE [to |-> k, closest |-> done.closest]
    BY <1>2 DEF Damage
  <2> QED
    BY <2>1, <2>2, TellMeans
<1>3. ASSUME NEW k \in Endpoint, NEW account \in BOOLEAN, NEW charName \in Name \cup {NoName},
             Begin(k, account, charName)
      PROVE  Directory!Hear(k)
  <2>1. CASE account
    BY <1>3, <2>1, BeginMeans DEF Begin
  <2>2. CASE ~account
    BY <1>3, <2>2, InsertMeans DEF Begin
  <2> QED
    BY <2>1, <2>2
<1>4. ASSUME NEW k \in Endpoint, Piece(k)
      PROVE  Directory!Hear(k)
  BY <1>4, InsertMeans DEF Piece
<1>5. ASSUME Tick
      PROVE  Directory!Tick
  BY <1>5, TickMeans
<1>6. ASSUME UNCHANGED vars
      PROVE  UNCHANGED Directory!vars
  <2>1. lru' = lru /\ answer' = answer
    BY <1>6 DEF vars
  <2>2. RecentOf(lru)' = RecentOf(lru) /\ UserOf(lru)' = UserOf(lru) /\ OwnerOf(lru)' = OwnerOf(lru)
    BY <2>1, NextView
  <2> QED
    BY <2>1, <2>2 DEF Directory!vars
<1>7. \A closest \in Request : Asked(closest) \in BoundedSeq(Name, MSG_CLOSEST_PLAYERS)
  BY AskedShape, BoundedShape, RelayAssumption
<1>8. CASE UNCHANGED vars
  BY <1>6, <1>8
<1>9. CASE Next
  <2>1. (\E k \in Endpoint : Directory!Hear(k)) => Directory!Next
    BY DEF Directory!Next
  <2>2. Directory!BoundedSeq(Name, MSG_CLOSEST_PLAYERS) = BoundedSeq(Name, MSG_CLOSEST_PLAYERS)
    BY DEF Directory!BoundedSeq, Directory!SeqOf, BoundedSeq, SeqOf
  <2>3. (\E k \in Endpoint, n \in Name \cup {NoName}, report \in Report,
            names \in BoundedSeq(Name, MSG_CLOSEST_PLAYERS) : Directory!Tell(k, n, report, names))
          => Directory!Next
    BY <2>2 DEF Directory!Next
  <2>4. Directory!Tick => Directory!Next
    BY DEF Directory!Next
  <2> QED
    BY <1>1, <1>2, <1>3, <1>4, <1>5, <1>7, <1>9, <2>1, <2>3, <2>4, Zenon DEF Next
<1> QED
  BY <1>8, <1>9

\* The table of slots, stacks and hashes (cache_insert, cache_find,
\* cache_update_lookup, lru_find_user and the handlers of server/entry.c that call
\* them) does what the directory of users promises: every step of it is a step of
\* the directory, or changes nothing the directory has.
THEOREM RelayImplementsDirectory == Spec => ImplementsDirectory
<1>1. Init => Directory!Init
  BY InitMeans
<1>2. IInv /\ [Next]_vars => [Directory!Next]_(Directory!vars)
  BY StepMeans
<1>3. Spec => []IInv
  BY Invariance
<1> QED
  BY <1>1, <1>2, <1>3, PTL DEF Spec, ImplementsDirectory, Directory!Spec
=============================================================================
