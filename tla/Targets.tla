------------------------------- MODULE Targets -------------------------------
(***************************************************************************)
(* What the player fights, and which of it the meter shows                 *)
(* (meter/game_data.cpp): the hooks of the combat logs enter hits, a frame *)
(* of the game's thread reads the selection, validates and calculates the  *)
(* targets, prefers one and reports them; the keyboard and the panels      *)
(* reset, lock and change the lists of what locks by itself.               *)
(*                                                                         *)
(* As the locks do nothing (see GameCache), everything else comes between  *)
(* the steps of a frame, and between the entries of the iteration that     *)
(* calculates.  A unit of time is the distance of two frames: each frame   *)
(* has a time of its own.  Every hit does a damage of 1.                   *)
(***************************************************************************)
EXTENDS GameCache, FiniteSetsExt

CONSTANTS
  Shard,           \* maps
  UsedOn,          \* the maps each agent id is used on
  Npc,             \* the agents that have an npc_id
  Raid,            \* those among g_raid_bosses
  MAX_TARGET_AGE, RESET_TIMER, Retention,   \* in frames
  MSG_TARGETS,     \* how many targets are reported
  MaxHits,         \* bound: hits
  MaxChanges       \* bound: changes of the game and of the player's mind

ASSUME TargetsAssumption ==
  /\ UsedOn \in [Key -> SUBSET Shard]
  /\ Npc \subseteq Key /\ Raid \subseteq Npc
  /\ {MAX_TARGET_AGE, RESET_TIMER, MaxHits, MaxChanges} \subseteq Nat
  /\ {Retention, MSG_TARGETS} \subseteq Nat \ {0}

VARIABLES
  shard,     \* currentShardId
  there,     \* the health of each agent of this map
  selected,  \* the agent selected in the game
  friendly,  \* that agent is friendly to the player
  targets,   \* gameContext->targets
  current,   \* gameContext->currentTarget
  dps,       \* gameContext->currentDpsTarget
  checked,   \* last_autolock_aptr
  autolock,  \* g_autolock_raid and g_autolock_custom
  sent,      \* controlledPlayer.dps.targets
  pc,        \* where the game's thread is in game_update
  cursor,    \* the entry the iteration comes to next
  following, \* the one it has noted to come after that
  dealt,     \* history: the damage done to each being
  changes    \* counts what MaxChanges bounds

game == <<shard, there, selected, friendly>>
meter == <<targets, dps, checked, sent>>
frame == <<current, pc, cursor, following>>
vars == <<game, meter, frame, autolock, dealt, changes>>

(***************************************************************************)
(* An agent id belongs to one being on each map.  The being stands for     *)
(* both pointers to it, aptr and wmptr; its map for shard_id, which is     *)
(* written whenever aptr is.                                               *)
(***************************************************************************)
Being == {b \in Shard \X Key : b[1] \in UsedOn[b[2]]}
NoBeing == <<NoKey, NoKey>>
Here(a) == <<shard, a>>
Health == {"gone", "full", "hurt", "dead"}

\* An entry's DPSTarget, without its rates and durations.  num_hits is tdmg; the times
\* are ages: seen of time_update, hit of time_hit.
TargetData ==
  [aptr : Being, wmptr : Being, invuln : BOOLEAN, isDead : BOOLEAN, tdmg : Nat,
   seen : 0 .. MAX_TARGET_AGE + 1, hit : 0 .. RESET_TIMER + 1]

Blank ==
  [aptr |-> NoBeing, wmptr |-> NoBeing, invuln |-> FALSE, isDead |-> FALSE, tdmg |-> 0,
   seen |-> 0, hit |-> 0]

\* currentDpsTarget without a target, and an element of the report without one;
\* time_sel is an age that counts up to Retention, as which the time 0 counts.
NoTarget ==
  [locked |-> FALSE, time_sel |-> Retention, id |-> NoKey, aptr |-> NoBeing, tdmg |-> 0,
   invuln |-> FALSE]
Unsent == [id |-> NoKey, aptr |-> NoBeing, tdmg |-> 0, invuln |-> FALSE]

TypeOK ==
  /\ shard \in Shard /\ there \in [Key -> Health] /\ friendly \in BOOLEAN
  /\ selected \in Key \cup {NoKey} /\ current \in Key \cup {NoKey}
  /\ targets \in CacheOf(TargetData)
  /\ dps \in [locked : BOOLEAN, time_sel : 0 .. Retention, id : Key, aptr : Being,
              tdmg : Nat, invuln : BOOLEAN] \cup {NoTarget}
  /\ checked \in Being \cup {NoBeing}
  /\ autolock \in [{"raid", "custom"} -> SUBSET Npc]
  /\ sent \in [1 .. MSG_TARGETS -> [id : Key, aptr : Being, tdmg : Nat, invuln : BOOLEAN] \cup {Unsent}]
  /\ pc \in {"idle", "calc", "prefer", "report"}
  /\ {cursor, following} \subseteq Slot \cup {NoSlot}
  /\ dealt \in [Being -> Nat] /\ changes \in 0 .. MaxChanges
-----------------------------------------------------------------------------
Data(c, s) == c.store[s].data
Older(age, most) == IF age < most THEN age + 1 ELSE age

Aged(t) == [t EXCEPT !.seen = Older(@, MAX_TARGET_AGE + 1), !.hit = Older(@, RESET_TIMER + 1)]

AllAged(c) ==
  [c EXCEPT !.store =
     [s \in Slot |-> IF s \in Used(c) THEN [c.store[s] EXCEPT !.data = Aged(c.store[s].data)]
                     ELSE c.store[s]]]

\* Mutant: wmptr is left to the selection.
ReadNoWmAgent(a, t, health) == [t EXCEPT !.isDead = (health = "dead"), !.seen = 0]

\* Agent_readTarget: wmptr is only looked up once.
Read(a, t, health) ==
  [t EXCEPT !.isDead = (health = "dead"), !.seen = 0,
            !.wmptr = IF @ = NoBeing THEN t.aptr ELSE @]

\* Mutant: a full table gives the oldest entry to the next agent as it is.
EnteredReusing(a) ==
  IF Find(targets, a) = NoSlot /\ Len(targets.cache) >= max_size
    THEN LET s == Head(targets.cache) IN ToNewest([targets EXCEPT !.store[s].key = a], s)
    ELSE InsertAndEvict(targets, a, Blank)

\* The entry for an agent the game's hooks or the selection come to.
Entered(a) == InsertAndEvict(targets, a, Blank)

\* validateAndCalcTargets: another map, another being under this id, not seen for long.
Outdated(a, t) ==
  \/ t.aptr[1] # shard
  \/ there[a] = "gone" \/ t.wmptr # Here(a)
  \/ t.seen > MAX_TARGET_AGE

\* Mutant: the reset at full health comes before the tests of a valid target.
ValidatedLoose(c, s) ==
  IF s \notin Used(c) THEN c
  ELSE LET a == c.store[s].key
           t == Read(a, Data(c, s), there[a])
       IN  IF Data(c, s).tdmg = 0 \/ Data(c, s).isDead THEN c
           ELSE IF Outdated(a, Data(c, s)) \/ (there[a] = "full" /\ t.hit > RESET_TIMER)
             THEN RemoveKey(c, a)
           ELSE [c EXCEPT !.store[s].data = t]

\* One entry of the iteration; an entry that was freed meanwhile is all zero, and
\* nothing has the agent id 0.
Validated(c, s) ==
  IF s \notin Used(c) THEN c
  ELSE LET a == c.store[s].key
           t == Read(a, Data(c, s), there[a])
       IN  IF Outdated(a, Data(c, s)) THEN RemoveKey(c, a)
           ELSE IF Data(c, s).tdmg = 0 \/ Data(c, s).isDead THEN c
           ELSE IF there[a] = "full" /\ t.hit > RESET_TIMER THEN RemoveKey(c, a)
           ELSE [c EXCEPT !.store[s].data = t]

\* The entry added after s; none after one that was freed.
NextEntry(c, s) ==
  IF \E i \in DOMAIN c.cache : c.cache[i] = s /\ i < Len(c.cache)
    THEN c.cache[1 + CHOOSE i \in DOMAIN c.cache : c.cache[i] = s] ELSE NoSlot

FirstEntry(c) == IF c.cache = <<>> THEN NoSlot ELSE Head(c.cache)
-----------------------------------------------------------------------------
Init ==
  /\ shard \in Shard /\ there \in [Key -> {"gone", "full"}]
  /\ \A a \in Key : shard \notin UsedOn[a] => there[a] = "gone"
  /\ selected = NoKey /\ friendly = FALSE
  /\ targets = Created /\ dps = NoTarget /\ checked = NoBeing
  /\ \E agents \in {{}, Raid} : autolock = [raid |-> agents, custom |-> {}]
  /\ sent = [i \in 1 .. MSG_TARGETS |-> Unsent]
  /\ current = NoKey /\ pc = "idle" /\ cursor = NoSlot /\ following = NoSlot
  /\ dealt = [b \in Being |-> 0] /\ changes = 0

\* Damage out in the combat log; the being is hurt by it, or dies.
Hit(a) ==
  /\ there[a] \in {"full", "hurt"} /\ MapThenSumSet(LAMBDA b : dealt[b], Being) < MaxHits
  /\ \E health \in {"hurt", "dead"} :
       LET c == Entered(a)
           s == Find(c, a)
           t == [Data(c, s) EXCEPT !.aptr = Here(a), !.invuln = FALSE, !.tdmg = @ + 1, !.hit = 0]
       IN  /\ there' = [there EXCEPT ![a] = health]
           /\ targets' = [c EXCEPT !.store[s].data = Read(a, t, health)]
  /\ dealt' = [dealt EXCEPT ![Here(a)] = @ + 1]
  /\ UNCHANGED <<shard, selected, friendly, dps, checked, sent, frame, autolock, changes>>

Counted == changes < MaxChanges /\ changes' = changes + 1

\* An attack without damage on what is invulnerable (combatLogResultProcess).
Resist(a) ==
  /\ there[a] \in {"full", "hurt"} /\ Counted
  /\ LET c == Entered(a)
         s == Find(c, a)
         t == [Data(c, s) EXCEPT !.aptr = Here(a), !.invuln = TRUE]
     IN  targets' = [c EXCEPT !.store[s].data = Read(a, t, there[a])]
  /\ UNCHANGED <<game, dps, checked, sent, frame, autolock, dealt>>

\* Another player's report says so (msgServerDamageUTF8_handler).
ToldInvulnerable(a) ==
  /\ Find(targets, a) # NoSlot /\ Counted
  /\ targets' = [targets EXCEPT !.store[Find(targets, a)].data = [@ EXCEPT !.invuln = TRUE]]
  /\ UNCHANGED <<game, dps, checked, sent, frame, autolock, dealt>>
-----------------------------------------------------------------------------
\* A frame begins: AgentSelect_read enters what is selected, whatever the entry for
\* its agent id held; of a friendly agent only the id is kept.
Selected(c) ==
  IF selected = NoKey \/ friendly THEN c
  ELSE LET d == InsertAndEvict(c, selected, Blank)
       IN  [d EXCEPT !.store[Find(d, selected)].data =
              [@ EXCEPT !.aptr = Here(selected), !.wmptr = Here(selected), !.seen = 0,
                        !.isDead = (there[selected] = "dead")]]

BeginFrame ==
  /\ pc = "idle"
  /\ targets' = Selected(AllAged(targets))
  /\ dps' = [dps EXCEPT !.time_sel = Older(@, Retention)]
  /\ current' = selected
  /\ pc' = "calc"
  /\ cursor' = FirstEntry(targets') /\ following' = NextEntry(targets', cursor')
  /\ UNCHANGED <<game, checked, sent, autolock, dealt, changes>>

\* HASH_ITER notes the entry that follows before it comes to one.
Calculate ==
  /\ pc = "calc" /\ cursor # NoSlot
  /\ targets' = Validated(targets, cursor)
  /\ cursor' = following /\ following' = NextEntry(targets', following)
  /\ UNCHANGED <<game, dps, checked, sent, current, pc, autolock, dealt, changes>>

AllCalculated ==
  /\ pc = "calc" /\ cursor = NoSlot
  /\ pc' = "prefer"
  /\ UNCHANGED <<game, meter, current, cursor, following, autolock, dealt, changes>>

Autolocked(a) == \E list \in DOMAIN autolock : a \in autolock[list]

\* validateDpsTarget: the entry of what is selected, whether this is the first frame
\* that sees it selected, and whether it locks by itself.
Selection == IF current = NoKey THEN NoSlot ELSE Find(targets, current)
NewlySelected ==
  Selection # NoSlot /\ current \in Npc /\ Data(targets, Selection).aptr # checked
LocksItself == NewlySelected /\ Autolocked(current)

\* Mutant: a lock only holds against what does not lock by itself or is no NPC.
IsPreferredAnyNpc ==
  Selection # NoSlot /\ (current \in Npc \/ ~dps.locked \/ Data(targets, Selection).aptr = dps.aptr)

IsPreferred ==
  Selection # NoSlot /\ (LocksItself \/ ~dps.locked \/ Data(targets, Selection).aptr = dps.aptr)

Checked == IF NewlySelected THEN Data(targets, Selection).aptr ELSE checked

PreferDone ==
  /\ pc' = "report"
  /\ UNCHANGED <<game, sent, current, cursor, following, autolock, dealt, changes>>

\* A target that is swapped starts from a cleared record, time_sel with it.
PreferSelected ==
  LET s == Selection
      swap == Data(targets, s).aptr # dps.aptr
  IN  /\ pc = "prefer" /\ IsPreferred
      /\ dps' = [locked |-> LocksItself \/ (dps.locked /\ ~swap),
                 time_sel |-> IF swap THEN Retention ELSE 0,
                 id |-> current, aptr |-> Data(targets, s).aptr, tdmg |-> Data(targets, s).tdmg,
                 invuln |-> Data(targets, s).invuln]
      /\ targets' = [targets EXCEPT !.store[s].data = [@ EXCEPT !.seen = 0]]
      /\ checked' = Checked
      /\ PreferDone

Lingers == dps.locked \/ dps.time_sel < Retention

\* Mutant: what is updated counts as selected.
KeepPreferredSelected ==
  LET s == Find(targets, dps.id)
  IN  /\ pc = "prefer" /\ ~IsPreferred /\ dps.id # NoKey /\ Lingers
      /\ IF s = NoSlot THEN UNCHANGED <<targets, dps>>
         ELSE /\ dps' = [dps EXCEPT !.aptr = Data(targets, s).aptr, !.tdmg = Data(targets, s).tdmg,
                                    !.invuln = Data(targets, s).invuln, !.time_sel = 0]
              /\ targets' = [targets EXCEPT !.store[s].data = [@ EXCEPT !.seen = 0]]
      /\ checked' = Checked
      /\ PreferDone

\* The last target is shown on, from its entry or, when that is gone, as it was.
KeepPreferred ==
  LET s == Find(targets, dps.id)
  IN  /\ pc = "prefer" /\ ~IsPreferred /\ dps.id # NoKey /\ Lingers
      /\ IF s = NoSlot THEN UNCHANGED <<targets, dps>>
         ELSE /\ dps' = [dps EXCEPT !.aptr = Data(targets, s).aptr, !.tdmg = Data(targets, s).tdmg,
                                    !.invuln = Data(targets, s).invuln]
              /\ targets' = [targets EXCEPT !.store[s].data = [@ EXCEPT !.seen = 0]]
      /\ checked' = Checked
      /\ PreferDone

HidePreferred ==
  /\ pc = "prefer" /\ ~IsPreferred /\ dps.id # NoKey /\ ~Lingers
  /\ dps' = NoTarget /\ checked' = NoBeing
  /\ UNCHANGED targets /\ PreferDone

NothingPreferred ==
  /\ pc = "prefer" /\ ~IsPreferred /\ dps.id = NoKey
  /\ checked' = Checked
  /\ UNCHANGED <<targets, dps>> /\ PreferDone

\* What is reported of the target t.
ReportOf(a, t) == [id |-> a, aptr |-> t.aptr, tdmg |-> t.tdmg, invuln |-> t.invuln]

\* The first elements of the report are recent targets, the others are what they were.
Recent(q) ==
  [i \in 1 .. MSG_TARGETS |->
     IF i > Len(q) THEN sent[i]
     ELSE ReportOf(targets.store[q[i]].key, Data(targets, q[i]))]

\* Mutant: the preferred target is reported if it happens to be among them.
ReportedRecent(q) == Recent(q)

\* The last of them makes room for the preferred target if that is not among them.
Reported(q) ==
  IF dps.id = NoKey \/ \E i \in DOMAIN q : Recent(q)[i].id = dps.id THEN Recent(q)
  ELSE [Recent(q) EXCEPT ![Max({Len(q), 1})] = ReportOf(dps.id, dps)]

\* setupGroupDpsData: TargetTimeCompare compares a time with itself, so the targets
\* come in any order.
Report ==
  /\ pc = "report" /\ pc' = "idle"
  /\ \E q \in [1 .. Min({MSG_TARGETS, Len(targets.cache)}) -> Used(targets)] :
       /\ \A i, j \in DOMAIN q : q[i] = q[j] => i = j
       /\ sent' = Reported(q)
  /\ UNCHANGED <<game, targets, dps, checked, current, cursor, following, autolock, dealt, changes>>

Frame ==
  \/ BeginFrame \/ Calculate \/ AllCalculated
  \/ PreferSelected \/ KeepPreferred \/ HidePreferred \/ NothingPreferred
  \/ Report
-----------------------------------------------------------------------------
\* dpsReset; last_autolock_aptr is a local of validateDpsTarget and stays.
Reset ==
  /\ Counted
  /\ targets' = Clear(targets) /\ dps' = NoTarget /\ current' = NoKey
  /\ sent' = [i \in 1 .. MSG_TARGETS |-> Unsent]
  /\ UNCHANGED <<game, checked, pc, cursor, following, autolock, dealt>>

\* dpsLockTarget.
ToggleLock ==
  /\ dps.id # NoKey /\ Counted
  /\ dps' = [dps EXCEPT !.locked = ~@]
  /\ UNCHANGED <<game, targets, checked, sent, frame, autolock, dealt>>

AutolockChanged(list, agents) ==
  /\ autolock' = [autolock EXCEPT ![list] = agents] /\ autolock' # autolock /\ Counted
  /\ UNCHANGED <<game, meter, frame, dealt>>

\* autolock_set: a raid boss is in the list of raid bosses, whatever the other holds.
SetAutolock(a, on) ==
  LET list == IF a \in Raid THEN "raid" ELSE "custom"
  IN  AutolockChanged(list, IF on THEN autolock[list] \cup {a} ELSE autolock[list] \ {a})

\* autolock_allraid, autolock_freeraid and autolock_freecustom.
AllRaid == AutolockChanged("raid", autolock["raid"] \cup Raid)
FreeAutolock(list) == AutolockChanged(list, {})

\* The game: beings come and go and heal, the player selects one, friendly or not, or
\* changes the map.
Becomes(a, health) ==
  /\ shard \in UsedOn[a] /\ health # there[a] /\ Counted
  /\ \/ there[a] = "gone" /\ health = "full"
     \/ there[a] # "gone" /\ health = "gone"
     \/ there[a] = "hurt" /\ health = "full"
  /\ there' = [there EXCEPT ![a] = health]
  /\ IF selected = a /\ health = "gone" THEN selected' = NoKey /\ friendly' = FALSE
     ELSE UNCHANGED <<selected, friendly>>
  /\ UNCHANGED <<shard, meter, frame, autolock, dealt>>

Select(a, isFriendly) ==
  /\ <<a, isFriendly>> # <<selected, friendly>> /\ Counted
  /\ IF a = NoKey THEN ~isFriendly ELSE there[a] # "gone"
  /\ selected' = a /\ friendly' = isFriendly
  /\ UNCHANGED <<shard, there, meter, frame, autolock, dealt>>

ChangeMap(m) ==
  /\ m # shard /\ Counted
  /\ shard' = m /\ there' = [a \in Key |-> "gone"] /\ selected' = NoKey /\ friendly' = FALSE
  /\ UNCHANGED <<meter, frame, autolock, dealt>>

Next ==
  \/ Frame
  \/ \E a \in Key : Hit(a) \/ Resist(a) \/ ToldInvulnerable(a)
  \/ Reset \/ ToggleLock
  \/ \E a \in Npc, on \in BOOLEAN : SetAutolock(a, on)
  \/ AllRaid \/ \E list \in DOMAIN autolock : FreeAutolock(list)
  \/ \E a \in Key, health \in Health : Becomes(a, health)
  \/ \E a \in Key \cup {NoKey}, isFriendly \in BOOLEAN : Select(a, isFriendly)
  \/ \E m \in Shard : ChangeMap(m)

Spec == Init /\ [][Next]_vars

\* The game renders frames.
FairSpec == Spec /\ WF_vars(Frame)
-----------------------------------------------------------------------------
\* No slot of the table is lost, listed twice or used for two agents, although other
\* threads come between the steps of a frame and an iteration removes what it visits
\* (validateAndCalcTargets, dpsReset, insert_and_evict).
TargetsSound == Sound(targets)

\* No being is charged with more damage than it took, neither in the table nor in
\* what is shown or reported: nothing is left over from a being that went, an entry
\* that was evicted, or a total that was reset (combatLogProcess, AgentSelect_read).
NeverOverstated ==
  /\ \A s \in Used(targets) : Data(targets, s).tdmg <= dealt[Data(targets, s).aptr]
  /\ dps.id # NoKey => dps.tdmg <= dealt[dps.aptr]
  /\ \A i \in DOMAIN sent : sent[i].id # NoKey => sent[i].tdmg <= dealt[sent[i].aptr]

\* While a target is locked, only a reset hides it and only a target that locks by
\* itself takes its place, locked in turn (validateDpsTarget).
LockHolds ==
  [][dps.locked /\ dps' # NoTarget =>
       dps'.aptr = dps.aptr \/ (dps'.locked /\ Autolocked(dps'.id))]_vars

\* When the player has selected and locked nothing any more, the last target
\* disappears after the retention time (validateDpsTarget).
EventuallyHidden ==
  <>[](~dps.locked /\ selected = NoKey) => <>[](dps = NoTarget)

\* Of beings that went, or stayed behind on another map, no entry remains, although
\* the calculation passes by what was never hit or is dead (validateAndCalcTargets).
EventuallyCurrent ==
  <>[](\A s \in Used(targets) :
         Data(targets, s).aptr[1] = shard /\ there[targets.store[s].key] # "gone")

\* When nothing changes any more, the first element of the report with the preferred
\* target's id, which is where setupGroupDpsData finds the player's own damage, holds
\* what the panel shows, whatever was left in the report and however the targets
\* were sorted (buildRecentTargetsArray).
EventuallyReported ==
  <>[](dps.id # NoKey =>
         \E i \in DOMAIN sent :
           /\ sent[i] = ReportOf(dps.id, dps)
           /\ \A j \in 1 .. i - 1 : sent[j].id # dps.id)
=============================================================================
