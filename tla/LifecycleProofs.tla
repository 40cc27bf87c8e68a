--------------------------- MODULE LifecycleProofs ---------------------------
(***************************************************************************)
(* The start-up and the shutdown: the types, nothing is used before it was *)
(* made, and what was destroyed before a pass began is used by it only if  *)
(* it was made again.                                                      *)
(***************************************************************************)
EXTENDS Lifecycle, TLAPS

\* The walk along the keys, during and after the callback.
Walking ==
  {<<"tables", "walk", "state", "tables", "names">>, <<"walk", "state", "tables", "names">>}

\* What is left of a pass, at any of its points.
Plan == Walking \cup
  {<<>>, <<"keys", "state", "tables", "names">>, <<"state", "tables", "names">>,
   <<"tables", "names">>, <<"names">>, <<"tables">>, <<"tables", "socket">>,
   <<"tables", "socket", "socket">>, <<"socket", "socket">>, <<"socket">>}

\* Where a thread may be: at a test, at the use of what passed one, or with nothing to do.
Place ==
  [at : {"none", "out", "test", "use", "ended"}, todo : Plan, gone : SUBSET Shared]

WellPlaced(p) ==
  /\ p \in Place
  /\ p.at \in {"test", "use"} <=> p.todo # <<>>
  /\ p.at = "use" => UsedBy(Head(p.todo)) \in Shared
  /\ p.at = "test" => Head(p.todo) # "walk"

\* The steps of the shutdown after that which destroys a thing.
Later(r) ==
  CASE r = "socket" -> {"hooks", "tables", "names", "keys", "end", "done", "died"}
    [] r = "tables" -> {"names", "keys", "end", "done", "died"}
    [] r = "names" -> {"keys", "end", "done", "died"}
    [] r = "keys" -> {"end", "done", "died"}

\* A flag is only set of what was made; what is freed is being destroyed, or was, and
\* then its flag is cleared.
Ordered ==
  \A r \in Shared :
    /\ flag[r] => memory[r] # "none"
    /\ memory[r] = "freed" => fini = r \/ (fini \in Later(r) /\ ~flag[r])

\* What a thread uses, or will use without another test.
Held(p) ==
  (IF p.at = "use" THEN {UsedBy(Head(p.todo))} ELSE {})
    \cup (IF p.todo \in Walking THEN {"keys"} ELSE {})

\* It was made, and was made again if it had been destroyed when the pass began; the
\* shutdown does not come back to what it has destroyed.
Sound(p) ==
  /\ \A r \in p.gone : fini \in Later(r)
  /\ \A r \in Held(p) : memory[r] # "none" /\ (r \in p.gone => memory[r] # "freed")

Types ==
  /\ state \in Range(InitState)
  /\ init \in {"prepare", "link", "keys", "names", "hooks", "tables", "network", "ready", "done"}
  /\ fini \in {"begin", "socket", "hooks", "tables", "names", "keys", "end", "done", "died"}
  /\ hooked \subseteq Range(Detour)
  /\ memory \in [Shared -> {"none", "raw", "live", "freed"}] /\ flag \in [Shared -> BOOLEAN]
  /\ thread \in [Thread -> Place] /\ \A t \in Thread : WellPlaced(thread[t])
  /\ late \in BOOLEAN

\* The inductive invariant.
IInv == Types /\ Ordered /\ \A t \in Thread : Sound(thread[t])

-----------------------------------------------------------------------------
LEMMA Ranges ==
  /\ Range(InitState) =
       {"NotInitialized", "Initializing", "Initialized", "Error", "ShuttingDown", "Shutdown"}
  /\ Range(Detour) = {"gameThread", "areaLog", "combatLog"}
<1>1. DOMAIN InitState = 1 .. 6 /\ DOMAIN Detour = 1 .. 3
  BY DEF InitState, Detour
<1> QED
  BY <1>1 DEF Range, InitState, Detour

\* What follows in a plan is a plan, and so is what a test that fails leaves.
LEMMA PlanSteps ==
  ASSUME NEW p \in Plan, p # <<>>
  PROVE  /\ Tail(p) \in Plan /\ Head(p) \in Task /\ \A t : Skipped(t, p) \in Plan
         /\ Tail(p) \in Walking => p \in Walking
         /\ \A t : Skipped(t, p) \in Walking => p \in Walking
         /\ Tail(p) # <<>> /\ Head(Tail(p)) = "walk" => Tail(p) \in Walking
         /\ \A t : Skipped(t, p) # <<>> /\ Head(Skipped(t, p)) = "walk" => Skipped(t, p) \in Walking
<1>1. CASE p = <<"tables", "walk", "state", "tables", "names">>
  BY <1>1 DEF Plan, Walking, Task, Shared, Skipped
<1>2. CASE p = <<"walk", "state", "tables", "names">>
  BY <1>2 DEF Plan, Walking, Task, Shared, Skipped
<1>3. CASE p = <<"keys", "state", "tables", "names">>
  BY <1>3 DEF Plan, Walking, Task, Shared, Skipped
<1>4. CASE p = <<"state", "tables", "names">>
  BY <1>4 DEF Plan, Walking, Task, Shared, Skipped
<1>5. CASE p = <<"tables", "names">>
  BY <1>5 DEF Plan, Walking, Task, Shared, Skipped
<1>6. CASE p = <<"names">>
  BY <1>6 DEF Plan, Walking, Task, Shared, Skipped
<1>7. CASE p = <<"tables">>
  BY <1>7 DEF Plan, Walking, Task, Shared, Skipped
<1>8. CASE p = <<"tables", "socket">>
  BY <1>8 DEF Plan, Walking, Task, Shared, Skipped
<1>9. CASE p = <<"tables", "socket", "socket">>
  BY <1>9 DEF Plan, Walking, Task, Shared, Skipped
<1>10. CASE p = <<"socket", "socket">>
  BY <1>10 DEF Plan, Walking, Task, Shared, Skipped
<1>11. CASE p = <<"socket">>
  BY <1>11 DEF Plan, Walking, Task, Shared, Skipped
<1> QED
  BY <1>1, <1>2, <1>3, <1>4, <1>5, <1>6, <1>7, <1>8, <1>9, <1>10, <1>11 DEF Plan, Walking

LEMMA PlanType == Plan \subseteq Seq(Task)
<1> SUFFICES ASSUME NEW p \in Plan PROVE p \in Seq(Task)
  OBVIOUS
<1>0. CASE p = <<>>
  BY <1>0
<1>1. CASE p = <<"tables", "walk", "state", "tables", "names">>
  BY <1>1 DEF Task, Shared
<1>2. CASE p = <<"walk", "state", "tables", "names">>
  BY <1>2 DEF Task, Shared
<1>3. CASE p = <<"keys", "state", "tables", "names">>
  BY <1>3 DEF Task, Shared
<1>4. CASE p = <<"state", "tables", "names">>
  BY <1>4 DEF Task, Shared
<1>5. CASE p = <<"tables", "names">>
  BY <1>5 DEF Task, Shared
<1>6. CASE p = <<"names">>
  BY <1>6 DEF Task, Shared
<1>7. CASE p = <<"tables">>
  BY <1>7 DEF Task, Shared
<1>8. CASE p = <<"tables", "socket">>
  BY <1>8 DEF Task, Shared
<1>9. CASE p = <<"tables", "socket", "socket">>
  BY <1>9 DEF Task, Shared
<1>10. CASE p = <<"socket", "socket">>
  BY <1>10 DEF Task, Shared
<1>11. CASE p = <<"socket">>
  BY <1>11 DEF Task, Shared
<1> QED
  BY <1>0, <1>1, <1>2, <1>3, <1>4, <1>5, <1>6, <1>7, <1>8, <1>9, <1>10, <1>11 DEF Plan, Walking

LEMMA TypesGiveTypeOK == Types => TypeOK
<1> SUFFICES ASSUME Types PROVE TypeOK
  OBVIOUS
<1>1. thread \in [Thread -> Pass]
  <2>1. Place \subseteq Pass
    BY PlanType DEF Place, Pass
  <2> QED
    BY <2>1 DEF Types
<1> QED
  BY <1>1 DEF Types, TypeOK, WellPlaced

\* A thread that is out of the meter holds nothing.
LEMMA RestingSound ==
  ASSUME NEW a \in {"none", "out", "ended"}
  PROVE  /\ Resting(a) \in Place /\ WellPlaced(Resting(a))
         /\ Sound(Resting(a)) /\ Sound(Resting(a))'
<1>1. /\ Resting(a).at = a /\ Resting(a).todo = <<>> /\ Resting(a).gone = {}
      /\ Resting(a) \in Place
  BY DEF Resting, Place, Plan
<1>2. <<>> \notin Walking
  BY DEF Walking
<1>3. Held(Resting(a)) = {}
  BY <1>1, <1>2 DEF Held
<1> QED
  BY <1>1, <1>3 DEF WellPlaced, Sound

-----------------------------------------------------------------------------
LEMMA InitInv == Init => IInv
<1> SUFFICES ASSUME Init PROVE IInv
  OBVIOUS
<1>1. /\ DOMAIN thread = Thread /\ thread = [t \in Thread |-> thread[t]]
      /\ \A t \in Thread : thread[t] \in {Resting("none"), Resting("out")}
  BY DEF Init
<1>2. \A t \in Thread : WellPlaced(thread[t]) /\ thread[t] \in Place /\ Sound(thread[t])
  BY <1>1, RestingSound
<1>3. Types
  BY <1>1, <1>2, Ranges DEF Init, Types
<1>4. Ordered
  BY DEF Init, Ordered
<1> QED
  BY <1>2, <1>3, <1>4 DEF IInv

\* What a thread holds is one of the shared things.
LEMMA HeldShared ==
  ASSUME NEW p, WellPlaced(p)
  PROVE  Held(p) \subseteq Shared /\ p.gone \subseteq Shared
BY DEF WellPlaced, Held, Shared, Place

\* A step of the start-up or the shutdown that leaves the threads alone.
LEMMA SharedMoves ==
  ASSUME IInv, UNCHANGED thread,
         \A r \in Shared :
           /\ memory'[r] = "none" => memory[r] = "none"
           /\ memory'[r] = "freed" => memory[r] = "freed" \/ fini = r
           /\ fini \in Later(r) => fini' \in Later(r) /\ fini # r
  PROVE  \A t \in Thread : Sound(thread[t])'
<1> SUFFICES ASSUME NEW t \in Thread PROVE Sound(thread[t])'
  OBVIOUS
<1>1. Held(thread[t]) \subseteq Shared /\ thread[t].gone \subseteq Shared /\ Sound(thread[t])
  BY HeldShared DEF IInv, Types
<1>2. Held(thread[t])' = Held(thread[t])
  BY DEF Held
<1> QED
  BY <1>1, <1>2 DEF Sound

\* No step of the shutdown is after itself.
LEMMA LaterSteps ==
  /\ \A r \in Shared : r \notin Later(r) /\ "begin" \notin Later(r)
  /\ \A r \in Shared : AfterFini(r) \in Later(r)
  /\ \A r, q \in Shared : r \in Later(q) => AfterFini(r) \in Later(q)
  /\ \A r, q \in Shared : AfterFini(r) = q => r \notin Later(q)
  /\ \A r \in Shared : "hooks" \in Later(r) => "tables" \in Later(r)
  /\ \A r \in Shared : "end" \in Later(r) => "done" \in Later(r)
  /\ \A r \in Shared : "keys" \in Later(r) => "died" \in Later(r)
  /\ \A r \in Shared : r \notin {"begin", "hooks", "end", "done", "died"}
  /\ "hooks" \notin Later("tables")
BY DEF Shared, Later, AfterFini

\* A step of the start-up.
LEMMA StartSteps ==
  ASSUME IInv, NextInit
  PROVE  IInv'
<1> USE Ranges DEF IInv, Types
<1>1. CASE Prepare
  <2>1. Types'
    BY <1>1 DEF Prepare, Shared
  <2>2. Ordered'
    BY <1>1, LaterSteps DEF Prepare, Ordered, Shared
  <2>3. \A t \in Thread : Sound(thread[t])'
    BY <1>1, LaterSteps, SharedMoves DEF Prepare
  <2> QED
    BY <2>1, <2>2, <2>3
<1>2. CASE LinkKeys
  <2>1. Types'
    BY <1>2 DEF LinkKeys, Shared
  <2>2. Ordered'
    BY <1>2, LaterSteps DEF LinkKeys, Ordered, Shared
  <2>3. \A t \in Thread : Sound(thread[t])'
    BY <1>2, LaterSteps, SharedMoves DEF LinkKeys
  <2> QED
    BY <2>1, <2>2, <2>3
<1>3. CASE KeysRegistered
  <2>1. Types'
    BY <1>3 DEF KeysRegistered, Shared
  <2>2. Ordered'
    BY <1>3, LaterSteps DEF KeysRegistered, Ordered, Shared
  <2>3. \A t \in Thread : Sound(thread[t])'
    BY <1>3, LaterSteps, SharedMoves DEF KeysRegistered
  <2> QED
    BY <2>1, <2>2, <2>3
<1>4. CASE CreateNames
  <2>1. Types'
    BY <1>4 DEF CreateNames, Shared
  <2>2. Ordered'
    BY <1>4, LaterSteps DEF CreateNames, Ordered, Shared
  <2>3. \A t \in Thread : Sound(thread[t])'
    BY <1>4, LaterSteps, SharedMoves DEF CreateNames
  <2> QED
    BY <2>1, <2>2, <2>3
<1>5. CASE Fail
  <2>1. Types'
    BY <1>5 DEF Fail, Shared
  <2>2. Ordered'
    BY <1>5, LaterSteps DEF Fail, Ordered, Shared
  <2>3. \A t \in Thread : Sound(thread[t])'
    BY <1>5, LaterSteps, SharedMoves DEF Fail
  <2> QED
    BY <2>1, <2>2, <2>3
<1>6. CASE Detoured
  <2>1. Types'
    <3>1. \A i \in DOMAIN Detour : Detour[i] \in Range(Detour)
      BY DEF Range
    <3> QED
      BY <1>6, <3>1 DEF Detoured
  <2>2. Ordered' /\ \A t \in Thread : Sound(thread[t])'
    BY <1>6, LaterSteps, SharedMoves DEF Detoured, Ordered
  <2> QED
    BY <2>1, <2>2
<1>7. CASE CreateTables
  <2>1. Types'
    BY <1>7 DEF CreateTables, Shared
  <2>2. Ordered'
    BY <1>7, LaterSteps DEF CreateTables, Ordered, Shared
  <2>3. \A t \in Thread : Sound(thread[t])'
    BY <1>7, LaterSteps, SharedMoves DEF CreateTables
  <2> QED
    BY <2>1, <2>2, <2>3
<1>8. CASE StartNetwork /\ UNCHANGED <<memory, flag, thread>>
  <2>1. Types' /\ Ordered'
    BY <1>8 DEF StartNetwork, Ordered
  <2>2. \A t \in Thread : Sound(thread[t])'
    BY <1>8, LaterSteps, SharedMoves DEF StartNetwork
  <2> QED
    BY <2>1, <2>2
<1>9. CASE StartNetwork /\ ~UNCHANGED <<memory, flag, thread>>
  <2>1. /\ init = "network" /\ init' = "ready" /\ UNCHANGED <<state, fini, hooked, late>>
        /\ memory' = [memory EXCEPT !["socket"] = "live"]
        /\ flag' = [flag EXCEPT !["socket"] = TRUE]
        /\ thread' = [t \in Thread |-> IF t \in {"send", "recv"} THEN Resting("out")
                                       ELSE thread[t]]
    BY <1>9 DEF StartNetwork
  <2>2. Types' /\ Ordered'
    BY <2>1, RestingSound, LaterSteps DEF Ordered, Shared
  <2>3. \A t \in Thread : Sound(thread[t])'
    <3> SUFFICES ASSUME NEW t \in Thread PROVE Sound(thread[t])'
      OBVIOUS
    <3>1. CASE t \in {"send", "recv"}
      <4>1. thread'[t] = Resting("out") /\ Sound(Resting("out"))'
        BY <2>1, <3>1, RestingSound
      <4> QED
        BY <4>1 DEF Sound, Held
    <3>2. CASE t \notin {"send", "recv"}
      <4>1. thread'[t] = thread[t] /\ Sound(thread[t])
        BY <2>1, <3>2
      <4>2. Held(thread[t]) \subseteq Shared /\ thread[t].gone \subseteq Shared
        BY HeldShared
      <4> QED
        BY <2>1, <4>1, <4>2 DEF Sound, Held
    <3> QED
      BY <3>1, <3>2
  <2> QED
    BY <2>2, <2>3
<1>10. CASE Ready
  <2>1. Types'
    BY <1>10 DEF Ready, Shared
  <2>2. Ordered'
    BY <1>10, LaterSteps DEF Ready, Ordered, Shared
  <2>3. \A t \in Thread : Sound(thread[t])'
    BY <1>10, LaterSteps, SharedMoves DEF Ready
  <2> QED
    BY <2>1, <2>2, <2>3
<1> QED
  BY <1>1, <1>2, <1>3, <1>4, <1>5, <1>6, <1>7, <1>8, <1>9, <1>10 DEF NextInit

\* A step of the shutdown.
LEMMA StopSteps ==
  ASSUME IInv, NextFini
  PROVE  IInv'
<1> USE Ranges DEF IInv, Types
<1>1. CASE BeginFini
  <2>1. Types'
    BY <1>1 DEF BeginFini, Shared
  <2>2. Ordered'
    BY <1>1, LaterSteps DEF BeginFini, Ordered, Shared
  <2>3. \A t \in Thread : Sound(thread[t])'
    BY <1>1, LaterSteps, SharedMoves DEF BeginFini
  <2> QED
    BY <2>1, <2>2, <2>3
<1>2. CASE HookFini
  <2>1. Types'
    BY <1>2 DEF HookFini, Shared
  <2>2. Ordered'
    BY <1>2, LaterSteps DEF HookFini, Ordered, Shared
  <2>3. \A t \in Thread : Sound(thread[t])'
    BY <1>2, LaterSteps, SharedMoves DEF HookFini
  <2> QED
    BY <2>1, <2>2, <2>3
<1>3. CASE DieInFini
  <2>1. Types'
    BY <1>3 DEF DieInFini, Shared
  <2>2. Ordered'
    BY <1>3, LaterSteps DEF DieInFini, Ordered, Shared
  <2>3. \A t \in Thread : Sound(thread[t])'
    BY <1>3, LaterSteps, SharedMoves DEF DieInFini
  <2> QED
    BY <2>1, <2>2, <2>3
<1>4. CASE EndFini
  <2>1. Types'
    BY <1>4 DEF EndFini, Shared
  <2>2. Ordered'
    BY <1>4, LaterSteps DEF EndFini, Ordered, Shared
  <2>3. \A t \in Thread : Sound(thread[t])'
    BY <1>4, LaterSteps, SharedMoves DEF EndFini
  <2> QED
    BY <2>1, <2>2, <2>3
<1>5. ASSUME NEW r \in Shared, Free(r)
      PROVE  IInv'
  <2>1. Types' /\ Ordered'
    BY <1>5, LaterSteps DEF Free, Ordered
  <2>2. \A t \in Thread : Sound(thread[t])'
    BY <1>5, LaterSteps, SharedMoves DEF Free
  <2> QED
    BY <2>1, <2>2
<1>6. ASSUME NEW r \in Shared, ClearFlag(r)
      PROVE  IInv'
  <2>1. Types'
    BY <1>6 DEF ClearFlag, AfterFini, Shared
  <2>2. Ordered'
    BY <1>6, LaterSteps DEF ClearFlag, Ordered
  <2>3. \A t \in Thread : Sound(thread[t])'
    BY <1>6, LaterSteps, SharedMoves DEF ClearFlag
  <2> QED
    BY <2>1, <2>2, <2>3
<1> QED
  BY <1>1, <1>2, <1>3, <1>4, <1>5, <1>6 DEF NextFini

\* A step of a thread that only moves it.
LEMMA ThreadMoves ==
  ASSUME IInv, UNCHANGED life, NEW t \in Thread, NEW p,
         thread' = [thread EXCEPT ![t] = p], WellPlaced(p), Sound(p)
  PROVE  IInv'
<1> USE DEF IInv, Types, life
<1>1. Types' /\ Ordered'
  BY DEF Ordered, WellPlaced
<1>2. ASSUME NEW u \in Thread PROVE Sound(thread[u])'
  <2>1. Sound(thread'[u])
    BY DEF WellPlaced
  <2> QED
    BY <2>1 DEF Sound, Held
<1> QED
  BY <1>1, <1>2

\* A thread goes on with what an operation leaves, which holds no more than before.
LEMMA ContinuePlaced ==
  ASSUME IInv, UNCHANGED life, NEW t \in Thread, NEW todo \in Plan, Continue(t, todo),
         todo \in Walking => "keys" \in Held(thread[t]),
         todo # <<>> /\ Head(todo) = "walk" => todo \in Walking
  PROVE  IInv'
<1>1. CASE todo = <<>>
  BY <1>1, RestingSound, ThreadMoves DEF Continue
<1>2. CASE todo # <<>>
  <2> DEFINE p == [thread[t] EXCEPT !.at = Entrance(Head(todo)), !.todo = todo]
  <2>1. thread[t] \in Place /\ Sound(thread[t])
    BY DEF IInv, Types
  <2>2. /\ p.at = Entrance(Head(todo)) /\ p.todo = todo /\ p.gone = thread[t].gone
        /\ p \in Place
    BY <2>1 DEF Place, Entrance
  <2>3. thread' = [thread EXCEPT ![t] = p]
    BY <1>2 DEF Continue
  <2> HIDE DEF p
  <2>4. WellPlaced(p)
    BY <1>2, <2>2 DEF WellPlaced, Entrance, UsedBy, Shared
  <2>5. Held(p) \subseteq Held(thread[t])
    <3>1. p.at = "use" => Head(p.todo) = "walk" /\ UsedBy(Head(p.todo)) = "keys"
      BY <2>2 DEF Entrance, UsedBy
    <3>2. Held(p) # {} => todo \in Walking /\ Held(p) = {"keys"}
      BY <1>2, <2>2, <3>1 DEF Held
    <3> QED
      BY <3>2
  <2>6. Sound(p)
    BY <2>1, <2>2, <2>5 DEF Sound
  <2> QED
    BY <2>3, <2>4, <2>6, ThreadMoves
<1> QED
  BY <1>1, <1>2

\* A pass begins with a test.
LEMMA EnterSteps ==
  ASSUME IInv, NEW t \in Thread, NEW todo \in Plan \ Walking, Enter(t, todo), todo # <<>>,
         Head(todo) # "walk"
  PROVE  IInv'
<1> DEFINE p == [at |-> "test", todo |-> todo, gone |-> Gone(t)]
<1>1. p.at = "test" /\ p.todo = todo /\ p.gone = Gone(t)
  OBVIOUS
<1>2. /\ Gone(t) \subseteq Shared
      /\ \A r \in Gone(t) : memory[r] = "freed" /\ fini # r
  <2>1. Reach(t) \subseteq Shared
    BY DEF Reach, Thread, Shared
  <2> QED
    BY <2>1 DEF Gone
<1>3. WellPlaced(p) /\ Held(p) = {}
  BY <1>1, <1>2 DEF WellPlaced, Place, Held
<1>4. Sound(p)
  BY <1>1, <1>2, <1>3 DEF Sound, IInv, Ordered
<1> QED
  BY <1>3, <1>4, ThreadMoves DEF Enter

LEMMA TestSteps ==
  ASSUME IInv, NEW t \in Thread, Test(t)
  PROVE  IInv'
<1> DEFINE todo == thread[t].todo
           r == Head(todo)
<1>1. /\ WellPlaced(thread[t]) /\ thread[t] \in Place /\ todo \in Plan /\ todo # <<>>
      /\ r # "walk" /\ Sound(thread[t]) /\ UNCHANGED life
  BY DEF IInv, Types, Test, WellPlaced, Place
<1>2. todo \in Walking => "keys" \in Held(thread[t])
  BY DEF Held
<1>3. CASE ~Passes(r)
  <2>1. Continue(t, Skipped(t, todo))
    BY <1>3 DEF Test
  <2> QED
    BY <1>1, <1>2, <2>1, PlanSteps, ContinuePlaced
<1>4. CASE Passes(r) /\ r = "state"
  <2>1. Continue(t, Tail(todo))
    BY <1>4 DEF Test
  <2> QED
    BY <1>1, <1>2, <2>1, PlanSteps, ContinuePlaced
<1>5. CASE Passes(r) /\ r # "state"
  <2> DEFINE p == [thread[t] EXCEPT !.at = "use"]
  <2>1. thread' = [thread EXCEPT ![t] = p]
    BY <1>5 DEF Test
  <2>2. p.at = "use" /\ p.todo = todo /\ p.gone = thread[t].gone /\ p \in Place
    BY <1>1 DEF Place
  <2>3. flag[r] /\ r \in Shared /\ UsedBy(r) = r
    BY <1>1, <1>5, PlanSteps DEF Passes, Task, UsedBy
  <2> HIDE DEF p
  <2>4. WellPlaced(p)
    BY <1>1, <2>2, <2>3 DEF WellPlaced
  <2>5. Held(p) = Held(thread[t]) \cup {r}
    BY <2>2, <2>3, <1>1 DEF Held, Test
  <2>6. memory[r] # "none" /\ (r \in p.gone => memory[r] # "freed")
    BY <1>1, <2>2, <2>3, LaterSteps DEF IInv, Ordered, Sound
  <2>7. Sound(p)
    BY <1>1, <2>2, <2>5, <2>6 DEF Sound
  <2> QED
    BY <1>1, <2>1, <2>4, <2>7, ThreadMoves
<1> QED
  BY <1>3, <1>4, <1>5

LEMMA UseSteps ==
  ASSUME IInv, NEW t \in Thread, Use(t)
  PROVE  IInv'
<1>1. thread[t].todo \in Plan /\ thread[t].todo # <<>>
  BY DEF IInv, Types, Use, WellPlaced, Place
<1>2. thread[t].todo \in Walking => "keys" \in Held(thread[t])
  BY DEF Held
<1> QED
  BY <1>1, <1>2, PlanSteps, ContinuePlaced DEF Use

LEMMA RoundSteps ==
  ASSUME IInv, Round
  PROVE  IInv'
<1>1. \A todo \in {<<"state", "tables", "names">>, <<"tables">>, <<"tables", "socket">>,
          <<"keys", "state", "tables", "names">>, <<"tables", "socket", "socket">>, <<"socket">>} :
        todo \in Plan \ Walking /\ todo # <<>> /\ Head(todo) # "walk"
  BY DEF Plan, Walking
<1>2. {"game", "render", "send", "recv"} = Thread
  BY DEF Thread
<1>3. CASE GameFrame
  BY <1>1, <1>2, <1>3, EnterSteps DEF GameFrame
<1>4. CASE CombatHook
  BY <1>1, <1>2, <1>4, EnterSteps DEF CombatHook
<1>5. CASE Draw
  BY <1>1, <1>2, <1>5, EnterSteps DEF Draw
<1>6. CASE SendRound
  BY <1>1, <1>2, <1>6, EnterSteps DEF SendRound
<1>7. CASE RecvRound
  BY <1>1, <1>2, <1>7, EnterSteps DEF RecvRound
<1>8. CASE Press
  <2> DEFINE rest == <<"tables", "walk", "state", "tables", "names">>
  <2>1. Continue("render", rest) /\ UNCHANGED life
    BY <1>8 DEF Press
  <2>2. "keys" \in Held(thread["render"])
    BY <1>8 DEF Press, Held, UsedBy
  <2>3. rest \in Plan /\ rest \in Walking
    BY DEF Plan, Walking
  <2> HIDE DEF rest
  <2> QED
    BY <1>2, <2>1, <2>2, <2>3, ContinuePlaced
<1>9. CASE Received
  <2>1. Continue("recv", <<"tables", "socket">>) /\ UNCHANGED life
    BY <1>9 DEF Received
  <2> QED
    BY <1>1, <1>2, <2>1, ContinuePlaced
<1> QED
  BY <1>3, <1>4, <1>5, <1>6, <1>7, <1>8, <1>9 DEF Round

LEMMA NextInv == IInv /\ [Next]_vars => IInv'
<1> SUFFICES ASSUME IInv, [Next]_vars PROVE IInv'
  OBVIOUS
<1>1. CASE NextInit \/ NextFini
  BY <1>1, StartSteps, StopSteps
<1>2. CASE Round
  BY <1>2, RoundSteps
<1>3. ASSUME NEW t \in {"send", "recv"}, Stop(t)
      PROVE  IInv'
  <2>1. t \in Thread
    BY DEF Thread
  <2> QED
    BY <1>3, <2>1, RestingSound, ThreadMoves DEF Stop, EndThread
<1>4. ASSUME NEW t \in Thread, Inside(t)
      PROVE  IInv'
  BY <1>4, TestSteps, UseSteps DEF Inside
<1>5. CASE UNCHANGED vars
  <2>1. Types' /\ Ordered'
    BY <1>5 DEF vars, IInv, Types, Ordered
  <2>2. \A t \in Thread : Sound(thread[t])'
    BY <1>5, LaterSteps, SharedMoves DEF vars, IInv, Types
  <2> QED
    BY <2>1, <2>2 DEF IInv
<1> QED
  BY <1>1, <1>2, <1>3, <1>4, <1>5 DEF Next

\* What is in use is held.
LEMMA UsingHeld ==
  ASSUME IInv, NEW t \in Thread, NEW r \in Shared, Using(t, r)
  PROVE  memory[r] # "none" /\ (r \in thread[t].gone => memory[r] # "freed")
<1>1. r \in Held(thread[t])
  BY DEF Using, Held
<1> QED
  BY <1>1 DEF IInv, Sound

LEMMA Invariant == Spec => []IInv
  BY InitInv, NextInv, PTL DEF Spec

-----------------------------------------------------------------------------
\* The variables keep their types; a thread has something left to do if and only if it
\* is at a test or a use (bgdm_init, bgdm_fini and the detours of osx.bund).
THEOREM LifecycleTypes == Spec => []TypeOK
<1>1. IInv => TypeOK
  BY TypesGiveTypeOK DEF IInv
<1> QED
  BY <1>1, Invariant, PTL

\* No thread uses the keys, the tables, the names or the socket before they are made,
\* however the start-up, the shutdown, the hooks and the drawing interleave: no flag is
\* set before its memory is.
THEOREM NothingTooEarly == Spec => []NeverTooEarly
<1>1. IInv => NeverTooEarly
  BY UsingHeld DEF NeverTooEarly
<1> QED
  BY <1>1, Invariant, PTL

\* A pass uses nothing that the shutdown had destroyed when it began, unless it was made
\* again: the drawing tests no state before the keys, the combat hooks test none at all,
\* and a start-up that ends after the shutdown lets every thread in again (bgdm_fini
\* waits for nobody and clears the flag of all it frees).
THEOREM UsedLateOnlyInside == Spec => []OnlyCaughtInside
<1>1. IInv => OnlyCaughtInside
  BY UsingHeld DEF OnlyCaughtInside
<1> QED
  BY <1>1, Invariant, PTL

=============================================================================
