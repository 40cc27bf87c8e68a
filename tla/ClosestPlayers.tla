--------------------------- MODULE ClosestPlayers ---------------------------
(***************************************************************************)
(* The players around the player whose numbers the meter shows             *)
(* (meter/game_data.cpp): readClosestPlayers refreshes the table in every  *)
(* frame of the game's thread, the send thread asks the server about the   *)
(* nearest, the receive thread enters the answer, the render thread        *)
(* changes the limit and resets.                                           *)
(*                                                                         *)
(* The locks do nothing (see GameCache), so the other threads come between *)
(* the steps of a frame: an iteration of the first loop, the resize, one   *)
(* player of the game's array, one removal at the end.  The send thread    *)
(* sorts pointers to the entries before it copies the names from them, and *)
(* the receive thread keeps one to the entry it found until it wrote to    *)
(* it.                                                                     *)
(***************************************************************************)
EXTENDS GameCache, FiniteSetsExt

CONSTANTS
  Name,                 \* the players
  Nobody,               \* no player has this agent id now
  Resident,             \* the player of each agent id, as long as ids are not given anew
  Renumbers,            \* whether an agent id may go to another player (a new map)
  Distance,             \* the values of CalcDistance
  NoReport,             \* dps.is_connected is false
  Connected,            \* the players the server knows
  MSG_CLOSEST_PLAYERS,  \* 9
  MaxAnswers,           \* bound: answers on their way
  MaxChanges            \* bound: changes of the game, the limit, resets and faults

ASSUME PlayersAssumption ==
  /\ Distance \subseteq Nat /\ Distance # {}
  /\ Nobody \notin Name /\ NoReport \notin Name
  /\ Resident \in [Key -> Name]
  /\ Renumbers \in BOOLEAN
  /\ Connected \subseteq Name
  /\ MSG_CLOSEST_PLAYERS \in Nat \ {0} /\ MaxAnswers \in Nat /\ MaxChanges \in Nat

VARIABLES
  world,        \* the game's array: who has an agent id, and how far he is
  closest,      \* gameContext->closestPlayers
  max_players,  \* g_state.max_players
  pc,           \* where the game's thread is in readClosestPlayers
  todo,         \* the players of the array this frame has yet to look at
  seen,         \* the array as this or the last frame read it
  exact,        \* it began with distances that agree with that array
  calm,         \* nothing disturbed this or the last frame
  sorted,       \* the entries the send thread is about to ask about
  answers,      \* the answers of the server on their way
  answer,       \* the names the receive thread has yet to enter
  player,       \* the entry it found for the first of them
  changes       \* counts what MaxChanges bounds

frameVars == <<closest, pc, todo, seen, exact, calm>>
netVars == <<sorted, answers, answer, player>>
vars == <<world, max_players, frameVars, netVars, changes>>

\* An entry's Player: c (who), distance, markedForDeletion and dps (whose report).
PlayerData == [who : Name, distance : Distance, marked : BOOLEAN, dps : Name \cup {NoReport}]

\* One element of the array.
Person == [who : Name \cup {Nobody}, distance : Distance]

Present(w) == {a \in Key : w[a].who # Nobody}

TypeOK ==
  /\ world \in [Key -> Person] /\ seen \in [Key -> Person]
  /\ closest \in CacheOf(PlayerData) /\ closest.init
  /\ \A s \in Used(closest) : closest.store[s].data \in PlayerData
  /\ max_players \in 0 .. max_size
  /\ pc \in {"idle", "shrink", "resize", "mark", "scan", "sweep"}
  /\ todo \subseteq Present(seen)
  /\ exact \in BOOLEAN /\ calm \in BOOLEAN
  /\ sorted \in Seq(Slot)
  /\ \A q \in answers : q \in Seq(Name)
  /\ answer \in Seq(Name)
  /\ player \in Slot \cup {NoSlot}
  /\ changes \in 0 .. MaxChanges
-----------------------------------------------------------------------------
DistanceOf(c, s) == c.store[s].data.distance

\* The lambda that looks for the farthest entry starts from 0.0 and NULL and keeps
\* the first of equals.
IsFarthest(c, i) ==
  /\ DistanceOf(c, c.cache[i]) > 0
  /\ \A j \in DOMAIN c.cache :
       /\ DistanceOf(c, c.cache[j]) <= DistanceOf(c, c.cache[i])
       /\ j < i => DistanceOf(c, c.cache[j]) < DistanceOf(c, c.cache[i])

Farthest(c) ==
  IF \E i \in DOMAIN c.cache : IsFarthest(c, i)
    THEN c.cache[CHOOSE i \in DOMAIN c.cache : IsFarthest(c, i)] ELSE NoSlot

FarthestDistance(c) == IF Farthest(c) = NoSlot THEN 0 ELSE DistanceOf(c, Farthest(c))

MarkAll(c) ==
  [c EXCEPT !.store = [s \in Slot |-> IF s \in Used(c) THEN [@[s] EXCEPT !.data.marked = TRUE]
                                      ELSE @[s]]]

Fresh(p) == [who |-> p.who, distance |-> p.distance, marked |-> FALSE, dps |-> NoReport]

\* Mutant: the whole player is copied, his report with it.
RefreshedAnew(c, s, p) == [c EXCEPT !.store[s].data = Fresh(p)]

\* A player who has an entry: his character is copied, his distance is not.
Refreshed(c, s, p) ==
  [c EXCEPT !.store[s].data = [@ EXCEPT !.who = p.who, !.marked = FALSE]]

\* Mutant: the oldest entry is replaced.
ReplacingOldest(c, a, p) ==
  IF p.distance >= FarthestDistance(c) THEN c
  ELSE Insert(RemoveEntry(c, Head(c.cache)), a, Fresh(p))

\* A player without an entry, at the limit: a nearer one replaces the farthest.
Replacing(c, a, p) ==
  IF p.distance >= FarthestDistance(c) THEN c
  ELSE Insert(RemoveEntry(c, Farthest(c)), a, Fresh(p))

\* One player of the array.
Admitted(c, a, p) ==
  IF Find(c, a) # NoSlot THEN Refreshed(c, Find(c, a), p)
  ELSE IF AtLimit(c) THEN Replacing(c, a, p)
  ELSE Insert(c, a, Fresh(p))

Marked(c) == {i \in DOMAIN c.cache : c.store[c.cache[i]].data.marked}
-----------------------------------------------------------------------------
Init ==
  /\ world = [a \in Key |-> [who |-> Nobody, distance |-> CHOOSE d \in Distance : TRUE]]
  /\ seen = world
  /\ closest = Created
  /\ max_players = max_size
  /\ pc = "idle" /\ todo = {} /\ exact = FALSE /\ calm = FALSE
  /\ sorted = <<>> /\ answers = {} /\ answer = <<>> /\ player = NoSlot
  /\ changes = 0

\* readClosestPlayers is called.
BeginFrame ==
  /\ pc = "idle"
  /\ pc' = "shrink" /\ seen' = world /\ calm' = TRUE
  /\ UNCHANGED <<world, max_players, closest, todo, exact, netVars, changes>>

\* The table is larger than the limit: the farthest goes.
Shrink ==
  /\ pc = "shrink" /\ max_players < Size(closest)
  /\ closest' = RemoveEntry(closest, Farthest(closest))
  /\ UNCHANGED <<world, max_players, pc, todo, seen, exact, calm, netVars, changes>>

Shrunk ==
  /\ pc = "shrink" /\ max_players >= Size(closest)
  /\ pc' = "resize"
  /\ UNCHANGED <<world, max_players, closest, todo, seen, exact, calm, netVars, changes>>

\* The limit is read again.
ResizeTable ==
  /\ pc = "resize"
  /\ closest' = Resize(closest, max_players)
  /\ pc' = "mark"
  /\ UNCHANGED <<world, max_players, todo, seen, exact, calm, netVars, changes>>

\* All are marked for deletion; the limit is read for the last time.
MarkPlayers ==
  /\ pc = "mark"
  /\ closest' = MarkAll(closest)
  /\ pc' = "scan" /\ todo' = IF max_players > 0 THEN Present(seen) ELSE {}
  /\ exact' = \A s \in Used(closest) :
                 LET p == seen[closest.store[s].key]
                 IN  p.who # Nobody => p.distance = DistanceOf(closest, s)
  /\ UNCHANGED <<world, max_players, seen, calm, netVars, changes>>

\* The next player of the array; todo holds those that pass the filters.
ScanPlayer(a) ==
  /\ pc = "scan" /\ a \in todo
  /\ closest' = Admitted(closest, a, seen[a])
  /\ todo' = todo \ {a}
  /\ UNCHANGED <<world, max_players, pc, seen, exact, calm, netVars, changes>>

\* Reading a player raises an access violation: the function returns false.
ScanFaults ==
  /\ pc = "scan" /\ todo # {} /\ changes < MaxChanges
  /\ pc' = "idle" /\ todo' = {} /\ calm' = FALSE /\ changes' = changes + 1
  /\ UNCHANGED <<world, max_players, closest, seen, exact, netVars>>

Scanned ==
  /\ pc = "scan" /\ todo = {}
  /\ pc' = "sweep"
  /\ UNCHANGED <<world, max_players, closest, todo, seen, exact, calm, netVars, changes>>

\* The first entry that is still marked goes.
Sweep ==
  /\ pc = "sweep"
  /\ \E i \in Marked(closest) :
       /\ \A j \in Marked(closest) : i <= j
       /\ closest' = RemoveEntry(closest, closest.cache[i])
  /\ UNCHANGED <<world, max_players, pc, todo, seen, exact, calm, netVars, changes>>

EndFrame ==
  /\ pc = "sweep" /\ Marked(closest) = {}
  /\ pc' = "idle"
  /\ UNCHANGED <<world, max_players, closest, todo, seen, exact, calm, netVars, changes>>

Frame ==
  \/ BeginFrame \/ Shrink \/ Shrunk \/ ResizeTable \/ MarkPlayers
  \/ \E a \in Key : ScanPlayer(a)
  \/ Scanned \/ Sweep \/ EndFrame
-----------------------------------------------------------------------------
\* The nearest players as qsort may order them, equals in any order.
Nearest(c) ==
  {q \in [1 .. Len(c.cache) -> Used(c)] :
     /\ \A i, j \in DOMAIN q : q[i] = q[j] => i = j
     /\ \A i, j \in DOMAIN q : i < j => DistanceOf(c, q[i]) <= DistanceOf(c, q[j])}

\* Those among them the server is asked about.
First(q) ==
  [i \in 1 .. (IF Len(q) < MSG_CLOSEST_PLAYERS THEN Len(q) ELSE MSG_CLOSEST_PLAYERS) |-> q[i]]

\* The names the request holds; an entry that was freed has none.
Asked(c, q) ==
  [i \in DOMAIN q |-> IF q[i] \in Used(c) THEN c.store[q[i]].data.who ELSE Nobody]

\* The names among them that the server knows, in their order.
Known(names) ==
  LET after[i \in 0 .. Len(names)] ==
        IF i = 0 THEN <<>>
        ELSE IF names[i] \in Connected THEN Append(after[i - 1], names[i]) ELSE after[i - 1]
  IN  after[Len(names)]

\* msgClientDamageUTF8_read sorts the entries,
Sort ==
  /\ sorted = <<>> /\ closest.cache # <<>> /\ Cardinality(answers) < MaxAnswers
  /\ \E q \in Nearest(closest) : sorted' = First(q)
  /\ UNCHANGED <<world, max_players, frameVars, answers, answer, player, changes>>

\* and copies the names that are in them by then.  The server answers about those it
\* knows, in this order.
Ask ==
  /\ sorted # <<>> /\ sorted' = <<>>
  /\ LET found == Known(Asked(closest, sorted))
     IN  answers' = IF found = <<>> THEN answers ELSE answers \cup {found}
  /\ UNCHANGED <<world, max_players, frameVars, answer, player, changes>>

Lose(m) ==
  /\ m \in answers
  /\ answers' = answers \ {m}
  /\ UNCHANGED <<world, max_players, frameVars, sorted, answer, player, changes>>

\* msgServerDamageUTF8_handler is called.
Receive(m) ==
  /\ m \in answers /\ answer = <<>>
  /\ answers' = answers \ {m} /\ answer' = m
  /\ UNCHANGED <<world, max_players, frameVars, sorted, player, changes>>

\* The entries of the table that have a name.
Named(c, n) == {i \in DOMAIN c.cache : c.store[c.cache[i]].data.who = n}

\* The last entry with the name is taken.
FindNamed ==
  /\ answer # <<>> /\ player = NoSlot
  /\ \E i \in Named(closest, Head(answer)) :
       /\ \A j \in Named(closest, Head(answer)) : j <= i
       /\ player' = closest.cache[i]
  /\ UNCHANGED <<world, max_players, frameVars, sorted, answers, answer, changes>>

\* There is none: the handler returns, whatever else is in the answer.
NobodyNamed ==
  /\ answer # <<>> /\ player = NoSlot
  /\ Named(closest, Head(answer)) = {}
  /\ answer' = <<>>
  /\ UNCHANGED <<world, max_players, frameVars, sorted, answers, player, changes>>

\* The report is written where the name was found; what is written to an entry
\* that was freed since is cleared before it is used again.
WriteReport ==
  /\ player # NoSlot
  /\ closest' = IF player \in Used(closest)
                  THEN [closest EXCEPT !.store[player].data = [@ EXCEPT !.dps = Head(answer)]]
                  ELSE closest
  /\ answer' = Tail(answer) /\ player' = NoSlot
  /\ UNCHANGED <<world, max_players, pc, todo, seen, exact, calm, sorted, answers, changes>>

Handle == FindNamed \/ NobodyNamed \/ WriteReport
-----------------------------------------------------------------------------
Counted == changes < MaxChanges /\ changes' = changes + 1

\* A player comes near, or is let through by the filters.
Arrive(a, n, d) ==
  /\ pc = "idle" /\ world[a].who = Nobody /\ Counted
  /\ Renumbers \/ n = Resident[a]
  /\ \A b \in Key : world[b].who # n
  /\ world' = [world EXCEPT ![a] = [who |-> n, distance |-> d]]
  /\ UNCHANGED <<max_players, frameVars, netVars>>

Leave(a) ==
  /\ pc = "idle" /\ world[a].who # Nobody /\ Counted
  /\ world' = [world EXCEPT ![a].who = Nobody]
  /\ UNCHANGED <<max_players, frameVars, netVars>>

Move(a, d) ==
  /\ pc = "idle" /\ world[a].who # Nobody /\ d # world[a].distance /\ Counted
  /\ world' = [world EXCEPT ![a].distance = d]
  /\ UNCHANGED <<max_players, frameVars, netVars>>

\* The slider of the options panel.
SetMaxPlayers(n) ==
  /\ n # max_players /\ Counted
  /\ max_players' = n
  /\ UNCHANGED <<world, frameVars, netVars>>

\* dpsReset, from the keyboard.
Reset ==
  /\ Counted
  /\ closest' = Clear(closest) /\ calm' = FALSE
  /\ UNCHANGED <<world, max_players, pc, todo, seen, exact, netVars>>

Next ==
  \/ Frame \/ ScanFaults
  \/ Sort \/ Ask \/ \E m \in answers : Lose(m) \/ Receive(m)
  \/ Handle
  \/ \E a \in Key, n \in Name, d \in Distance : Arrive(a, n, d)
  \/ \E a \in Key : Leave(a)
  \/ \E a \in Key, d \in Distance : Move(a, d)
  \/ \E n \in 0 .. max_size : SetMaxPlayers(n)
  \/ Reset

Spec == Init /\ [][Next]_vars

(***************************************************************************)
(* The game renders frames, the send thread sends, the receive thread      *)
(* handles what it received; of answers to a question that is asked again  *)
(* and again one arrives.                                                  *)
(***************************************************************************)
FairSpec ==
  /\ Spec /\ WF_vars(Frame) /\ WF_vars(Sort \/ Ask) /\ WF_vars(Handle)
  /\ SF_vars(\E m \in answers : Receive(m))
-----------------------------------------------------------------------------
\* No slot of the table is lost, listed twice or used for two agents, whatever comes
\* between the steps of a frame (entry_alloc, entry_free, HASH_DEL).
TableSound == Sound(closest)

\* Who is shown is there, and nobody who was left out is nearer.
NoneNearer ==
  \A s \in Used(closest) :
    LET p == seen[closest.store[s].key]
    IN  /\ p.who # Nobody
        /\ \A a \in Present(seen) :
             Find(closest, a) = NoSlot => p.distance <= seen[a].distance

\* At the end of a frame that nothing disturbed and that began with distances that
\* were right, the players shown are the closest (game_data.cpp:329-346, 359-363).  Of
\* any frame it would not hold: a player who came nearer is compared, in the scan, with
\* distances of the others that the frame has not read yet.
ClosestIfExact == pc = "idle" /\ calm /\ exact => NoneNearer

\* When nothing changes any more, as many players are shown as the limit allows
\* and the game has, although players who left keep their entries during a scan.
EventuallyFull ==
  <>[](pc = "idle" =>
         Size(closest) = Min({max_players, Cardinality(Present(world))}))

\* The entries that every way to sort them puts among those the server is asked for.
SurelyAsked(c) ==
  {s \in Used(c) :
     Cardinality({t \in Used(c) : DistanceOf(c, t) <= DistanceOf(c, s)}) <= MSG_CLOSEST_PLAYERS}

\* When nothing changes any more, the nearest players the server knows show their own
\* report, although an answer is dropped from the first name that is not listed any
\* more, and may have been written to an entry that changed hands.
EventuallyReported ==
  <>[](\A s \in SurelyAsked(closest) :
         closest.store[s].data.who \in Connected =>
           closest.store[s].data.dps = closest.store[s].data.who)
=============================================================================
