------------------------------ MODULE Lifecycle ------------------------------
(***************************************************************************)
(* The start-up and the shutdown of the meter's bundle (osx.bund), and the *)
(* threads that run meanwhile.  bgdm_init runs on a background queue and   *)
(* bgdm_fini in a destructor, whenever the game ends; both move            *)
(* g_init_state, and nobody waits for anybody.  The other threads are the  *)
(* game's, which enters the meter through its hooks, the drawing thread,   *)
(* and the two network threads that bgdm_init starts.                      *)
(*                                                                         *)
(* What the threads share is memory that the start-up makes and the        *)
(* shutdown frees: the list of key bindings, the tables of targets and     *)
(* players, the decoded names, and the socket.  Each has a flag its        *)
(* operations test first; the shutdown frees the memory and then clears    *)
(* the flag.  What a thread does with memory it should not use is not      *)
(* followed any further.                                                   *)
(***************************************************************************)
EXTENDS Integers, Sequences, SequencesExt

\* BGDMInitState, in the order of the enumeration.
InitState ==
  <<"NotInitialized", "Initializing", "Initialized", "Error", "ShuttingDown", "Shutdown">>

Shared == {"keys", "tables", "names", "socket"}
Thread == {"game", "render", "send", "recv"}
Detour == <<"gameThread", "areaLog", "combatLog">>

VARIABLES
  state,    \* g_init_state
  init,     \* the next step of bgdm_init
  fini,     \* the next step of bgdm_fini
  hooked,   \* the functions of the game that are detoured
  memory,   \* of each shared thing: "none", "raw" (not written yet), "live" or "freed"
  flag,     \* of each: first, __init, g_init, g_is_init
  thread,   \* of each thread: where it is
  late      \* a ghost: the game ended before bgdm_init did

vars == <<state, init, fini, hooked, memory, flag, thread, late>>
life == <<state, init, fini, hooked, memory, flag, late>>

\* What a pass may have to do: test the state, use a shared thing, or walk on along the
\* list of keys.
Task == Shared \cup {"state", "walk"}

\* at: "none" before the thread exists and "ended" after it, "out" of the meter, about
\* to "test" or to "use" the first thing of todo.  A ghost, gone: of what the thread can
\* come to, what the shutdown had destroyed when the pass began.
Pass == [at : {"none", "out", "test", "use", "ended"}, todo : Seq(Task), gone : SUBSET Shared]
Resting(a) == [at |-> a, todo |-> <<>>, gone |-> {}]

Init ==
  /\ state = "NotInitialized" /\ init = "prepare" /\ fini = "begin"
  /\ hooked = {}
  /\ memory = [r \in Shared |-> "none"] /\ flag = [r \in Shared |-> FALSE]
  /\ thread = [t \in Thread |-> Resting(IF t \in {"send", "recv"} THEN "none" ELSE "out")]
  /\ late = FALSE
------------------------------------------------------------------------------
(***************************************************************************)
(* bgdm_init.                                                              *)
(***************************************************************************)
\* The state is set first, whatever it is.
Prepare ==
  /\ init = "prepare" /\ init' = "link"
  /\ state' = "Initializing"
  /\ UNCHANGED <<fini, hooked, memory, flag, thread, late>>

\* config_init registers the keys.  The first node is in the list before it is written,
\* and so is each of the others.
LinkKeys ==
  /\ init = "link" /\ init' = "keys"
  /\ memory' = [memory EXCEPT !["keys"] = "raw"] /\ flag' = [flag EXCEPT !["keys"] = TRUE]
  /\ UNCHANGED <<state, fini, hooked, thread, late>>

\* They are all written; a shutdown that cleared the list meanwhile may have left some of
\* them to begin another one.
KeysRegistered ==
  /\ init = "keys" /\ init' = "names"
  /\ \/ /\ memory["keys"] = "raw"
        /\ memory' = [memory EXCEPT !["keys"] = "live"] /\ UNCHANGED flag
     \/ /\ memory["keys"] = "freed" /\ ~flag["keys"]
        /\ memory' = [memory EXCEPT !["keys"] = "live"]
        /\ flag' = [flag EXCEPT !["keys"] = TRUE]
     \/ memory["keys"] = "freed" /\ UNCHANGED <<memory, flag>>
  /\ UNCHANGED <<state, fini, hooked, thread, late>>

\* lru_create, with localtext_init before it and autolock_init after it.
CreateNames ==
  /\ init = "names" /\ init' = "hooks"
  /\ memory' = [memory EXCEPT !["names"] = "live"] /\ flag' = [flag EXCEPT !["names"] = TRUE]
  /\ UNCHANGED <<state, fini, hooked, thread, late>>

\* hookInit or scanOffsets fails, or a detour, or game_init.
Fail ==
  /\ init \in {"hooks", "tables"} /\ init' = "done"
  /\ state' = "Error"
  /\ UNCHANGED <<fini, hooked, memory, flag, thread, late>>

\* The next of the three detours.
Detoured ==
  /\ init = "hooks"
  /\ \E i \in DOMAIN Detour :
       /\ Detour[i] \notin hooked /\ \A j \in 1 .. i - 1 : Detour[j] \in hooked
       /\ hooked' = hooked \cup {Detour[i]}
       /\ init' = IF i = Len(Detour) THEN "tables" ELSE init
  /\ UNCHANGED <<state, fini, memory, flag, thread, late>>

\* game_init.
CreateTables ==
  /\ init = "tables" /\ init' = "network"
  /\ memory' = [memory EXCEPT !["tables"] = "live"] /\ flag' = [flag EXCEPT !["tables"] = TRUE]
  /\ UNCHANGED <<state, fini, hooked, thread, late>>

\* bgdm_network_init: without a port or a socket there are no network threads, and
\* nothing fails.
StartNetwork ==
  /\ init = "network" /\ init' = "ready"
  /\ \/ UNCHANGED <<memory, flag, thread>>
     \/ /\ memory' = [memory EXCEPT !["socket"] = "live"]
        /\ flag' = [flag EXCEPT !["socket"] = TRUE]
        /\ thread' = [t \in Thread |-> IF t \in {"send", "recv"} THEN Resting("out") ELSE thread[t]]
  /\ UNCHANGED <<state, fini, hooked, late>>

\* The state is set last, whatever it is by now.
Ready ==
  /\ init = "ready" /\ init' = "done"
  /\ state' = "Initialized"
  /\ UNCHANGED <<fini, hooked, memory, flag, thread, late>>
------------------------------------------------------------------------------
(***************************************************************************)
(* bgdm_fini.                                                              *)
(***************************************************************************)
BeginFini ==
  /\ fini = "begin" /\ fini' = "socket"
  /\ state' = "ShuttingDown"
  /\ late' = (init # "done")
  /\ UNCHANGED <<init, hooked, memory, flag, thread>>

\* What bgdm_fini frees, in its order; hookFini comes between.
AfterFini(r) ==
  CASE r = "socket" -> "hooks" [] r = "tables" -> "names" [] r = "names" -> "keys"
    [] r = "keys" -> "end"

\* network_destroy, game_fini, lru_destroy and config_fini first free: the socket if there
\* is one, the tables if they are initialised, the names, the keys.
Free(r) ==
  /\ fini = r
  /\ r = "tables" => flag[r]
  /\ memory[r] \in {"raw", "live"}
  /\ memory' = [memory EXCEPT ![r] = "freed"]
  /\ UNCHANGED <<state, init, fini, hooked, flag, thread, late>>

\* Mutant: config_fini frees the keys and keeps the head of their list.
ClearNoKeys(r) ==
  /\ fini = r /\ memory[r] \in {"none", "freed"} /\ (r = "keys" => memory[r] # "none")
  /\ fini' = AfterFini(r)
  /\ flag' = [flag EXCEPT ![r] = (r = "keys" /\ @)]
  /\ UNCHANGED <<state, init, hooked, memory, thread, late>>

\* They then clear the flag.
ClearFlag(r) ==
  /\ fini = r /\ memory[r] \in {"none", "freed"} /\ (r = "keys" => memory[r] # "none")
  /\ fini' = AfterFini(r)
  /\ flag' = [flag EXCEPT ![r] = FALSE]
  /\ UNCHANGED <<state, init, hooked, memory, thread, late>>

\* config_fini when no key was registered follows a null pointer: the process dies.
DieInFini ==
  /\ fini = "keys" /\ memory["keys"] = "none"
  /\ fini' = "died"
  /\ UNCHANGED <<state, init, hooked, memory, flag, thread, late>>

\* hookFini forgets its page size: on OSX the detours stay.
HookFini ==
  /\ fini = "hooks" /\ fini' = "tables"
  /\ UNCHANGED <<state, init, hooked, memory, flag, thread, late>>

\* The last state.
EndFini ==
  /\ fini = "end" /\ fini' = "done"
  /\ state' = "Shutdown"
  /\ UNCHANGED <<init, hooked, memory, flag, thread, late>>
------------------------------------------------------------------------------
(***************************************************************************)
(* The threads.                                                            *)
(***************************************************************************)
\* What a thread can come to.
Reach(t) ==
  CASE t = "game" -> {"tables", "names"}
    [] t = "render" -> {"keys", "tables", "names"}
    [] t \in {"send", "recv"} -> {"tables", "socket"}

Gone(t) == {r \in Reach(t) : memory[r] = "freed" /\ fini # r}

Enter(t, todo) ==
  /\ thread[t].at = "out"
  /\ thread' = [thread EXCEPT ![t] = [at |-> "test", todo |-> todo, gone |-> Gone(t)]]
  /\ UNCHANGED life

\* The test of g_init_state with which a frame or a network pass begins.
MayWork == state = "Initialized"

\* gameThread_detour: game_update, which tests the state again, and lru_resolve.
GameFrame == "gameThread" \in hooked /\ MayWork /\ Enter("game", <<"state", "tables", "names">>)

\* areaLog_detour and combatLog_detour test nothing; the entry they do not get, because
\* there is no table, is an access violation they catch.
CombatHook == hooked \cap {"areaLog", "combatLog"} # {} /\ Enter("game", <<"tables">>)

\* ImGui_Render: the keys, whatever the state is, and the panels if it is right.
Draw == Enter("render", <<"keys", "state", "tables", "names">>)

\* A round of the send thread: the players are read and sent, unless there is no
\* character, and a request for an update if one is due.
SendRound ==
  /\ MayWork
  /\ \E todo \in {<<"tables", "socket">>, <<"tables", "socket", "socket">>, <<"socket">>} :
       Enter("send", todo)

\* A round of the receive thread.
RecvRound == MayWork /\ Enter("recv", <<"socket">>)

\* Mutant: the last state is not among those that end the thread.
MustEndBefore == state \in {"Error", "ShuttingDown"}

\* The states that end a network thread, which it tests every half second.
MustEnd == state \in {"Error", "Shutdown", "ShuttingDown"}

EndThread(t) ==
  /\ thread[t].at = "out" /\ MustEnd
  /\ thread' = [thread EXCEPT ![t] = Resting("ended")]
  /\ UNCHANGED life

\* Mutant: a pass with nothing left to do does not end.
ContinueEmpty(t, todo) == thread' = [thread EXCEPT ![t].at = "test", ![t].todo = todo]

\* An operation begins with a test; the walk goes on without one.
Entrance(r) == IF r = "walk" THEN "use" ELSE "test"

\* The rest of a pass, or its end.
Continue(t, todo) ==
  thread' = [thread EXCEPT ![t] =
    IF todo = <<>> THEN Resting("out") ELSE [@ EXCEPT !.at = Entrance(Head(todo)), !.todo = todo]]

\* Mutant: what is there is used without a look at its flag.
PassesAnyway(r) == r = "state" => state = "Initialized"

\* The test with which an operation begins.
Passes(r) == IF r = "state" THEN state = "Initialized" ELSE flag[r]

\* What a test that fails leaves to do: it skips one operation, but that of the state
\* in a drawing skips all the panels.
Skipped(t, todo) ==
  IF Head(todo) # "state" THEN Tail(todo)
  ELSE IF t = "game" THEN Tail(Tail(todo)) ELSE <<>>

Test(t) ==
  LET todo == thread[t].todo
      r == Head(todo)
  IN  /\ thread[t].at = "test"
      /\ IF ~Passes(r) THEN Continue(t, Skipped(t, todo))
         ELSE IF r = "state" THEN Continue(t, Tail(todo))
         ELSE thread' = [thread EXCEPT ![t].at = "use"]
      /\ UNCHANGED life

\* The operation.
Use(t) ==
  /\ thread[t].at = "use"
  /\ Continue(t, Tail(thread[t].todo))
  /\ UNCHANGED life

\* updateKeyboard finds the key of dpsReset pressed: its callback clears the two tables,
\* and the walk goes on from the node it is at.
Press ==
  /\ thread["render"].at = "use" /\ Head(thread["render"].todo) = "keys"
  /\ Continue("render", <<"tables", "walk", "state", "tables", "names">>)
  /\ UNCHANGED life

\* A datagram was received: it is handled, and the next one is asked for.
Received ==
  /\ thread["recv"].at = "use" /\ thread["recv"].todo = <<"socket">> /\ memory["socket"] = "live"
  /\ Continue("recv", <<"tables", "socket">>)
  /\ UNCHANGED life

Alive == fini # "died"

NextInit ==
  /\ Alive
  /\ \/ Prepare \/ LinkKeys \/ KeysRegistered \/ CreateNames
     \/ Fail \/ Detoured \/ CreateTables \/ StartNetwork \/ Ready
NextFini ==
  \/ BeginFini \/ HookFini \/ DieInFini \/ EndFini
  \/ \E r \in Shared : Free(r) \/ ClearFlag(r)
Round == Alive /\ (GameFrame \/ CombatHook \/ Draw \/ SendRound \/ RecvRound \/ Press \/ Received)
Inside(t) == Alive /\ (Test(t) \/ Use(t))
Stop(t) == Alive /\ EndThread(t)

Next ==
  \/ NextInit \/ NextFini \/ Round
  \/ \E t \in {"send", "recv"} : Stop(t)
  \/ \E t \in Thread : Inside(t)

Spec == Init /\ [][Next]_vars

\* Every thread that is inside the meter goes on, bgdm_init and a bgdm_fini that began
\* come to their end, and the network threads wake up; the game need not end.
FairSpec ==
  /\ Spec
  /\ WF_vars(NextInit) /\ WF_vars(NextFini /\ ~BeginFini)
  /\ \A t \in Thread : WF_vars(Inside(t))
  /\ \A t \in {"send", "recv"} : WF_vars(Stop(t))
------------------------------------------------------------------------------
\* Type invariant.
TypeOK ==
  /\ state \in Range(InitState)
  /\ init \in {"prepare", "link", "keys", "names", "hooks", "tables", "network", "ready", "done"}
  /\ fini \in {"begin", "socket", "hooks", "tables", "names", "keys", "end", "done", "died"}
  /\ hooked \subseteq Range(Detour)
  /\ memory \in [Shared -> {"none", "raw", "live", "freed"}] /\ flag \in [Shared -> BOOLEAN]
  /\ thread \in [Thread -> Pass]
  /\ \A t \in Thread : thread[t].at \in {"test", "use"} <=> thread[t].todo # <<>>
  /\ late \in BOOLEAN

\* Who walks uses the keys.
UsedBy(task) == IF task = "walk" THEN "keys" ELSE task

\* The thing a thread is using.
Using(t, r) == thread[t].at = "use" /\ UsedBy(Head(thread[t].todo)) = r

\* Nothing is used before it is made: not by the combat hooks and the keys either, which
\* test no state and come while the tables are not there yet, or never will be.
NeverTooEarly == \A t \in Thread, r \in Shared : Using(t, r) => memory[r] # "none"

\* The shutdown waits for nobody, and a thread may use what was just freed; but only in a
\* pass that began before the shutdown was through with it.  A later pass, be it of a
\* combat hook, of a drawing, or in a process whose start-up ends after its shutdown,
\* may enter the meter, and uses of what was destroyed only what was made again.
OnlyCaughtInside ==
  \A t \in Thread, r \in Shared :
    Using(t, r) /\ r \in thread[t].gone => memory[r] # "freed"

\* Once the meter was shut down its network threads end, unless the game ended during
\* the start-up, which then overwrites the state the threads are waiting for.
EventuallyStopped ==
  fini # "begin" /\ ~late ~> \A t \in {"send", "recv"} : thread[t].at \in {"none", "ended"}
=============================================================================
