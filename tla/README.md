# A formal model of BGDM

BGDM is a damage meter for the game Guild Wars 2. A *meter* is loaded into the
game, reads the game's memory, draws panels over the game's picture, and talks
over UDP to a *server*, which tells the players of a group about each other's
numbers and hands out new builds of the meter. This directory holds TLA+
modules of the parts of the program whose correctness depends on orders of
events, on failures, or on long sequences of legal calls, the TLC
configurations that check them, and proofs for TLAPS.

Paths below are relative to `src/`.

## 1. The system

### Components

| component | code | state | operations |
|---|---|---|---|
| server loop | `server/entry.c` `main` | one receive buffer | receive a datagram, dispatch it by type and length; one thread |
| self-update, server side | `server/entry.c` | `g_dll`, `g_dll_cn` (bytes, signature, version, file time), `m_lock`, the update fields of `User` | `meter_load`, `meter_has_changed`, `msg_client_update_begin*`, `msg_client_update_piece` |
| self-update, meter side | `meter/updater.c`, `meter/entry.c` | the statics of `updater.c`, the meter's file | `updater_handle_msg_begin`, `updater_handle_msg_piece`, `updater_update` |
| users | `server/lru_cache.c`, `server/context.c` | a store of 10000 entries, a stack of free ones, a hash by endpoint, a hash by name | insert, evict, find by name, update name, update account |
| damage relay | `server/entry.c` | the last report in each `User` | `msg_client_damage_utf8` |
| user database | `server/entry.c` | the SQLite table `[Users]` | `db_update_user` |
| name cache | `meter/lru_cache.cpp` | decoded names, names to be decoded | `lru_find` (several threads), `lru_resolve` (game thread), the game's answer `cbDecodeText` |
| generic cache | `meter/cache.hpp` | a store of entries, a stack of free ones, a uthash of the used ones in the order they were added | insert, insert and evict, find, remove, iterate, resize, clear |
| closest players | `meter/game_data.cpp` | a generic cache of players, its limit | `readClosestPlayers`, `msgClientDamageUTF8_read`, `msgServerDamageUTF8_handler`, `dpsReset` |
| targets | `meter/game_data.cpp` | a generic cache of targets, the preferred target, the report | `combatLogProcess`, `combatLogResultProcess`, `game_update`, `dpsReset`, `dpsLockTarget` |
| auto-lock | `meter/autolock.c` | two sets of NPC ids | set, get, all raid bosses, free |
| bundle | `osx.bund/entry_osx.m`, `osx.bund/imgui_osx.cpp`, `core/input.c` | `g_init_state`, the list of keys | `bgdm_init`, `bgdm_fini`, detours of the game's functions, a send and a receive thread, `ImGui_Render` with `updateKeyboard` |
| hooks | `hook/hook2.c` | the detoured functions | `hookInit`, `hookDetour`, `hookFini` |
| Windows meter | `meter/dps.c` | the predecessor of the targets | read, draw |
| the rest | `meter/imgui_bgdm.cpp`, `meter/localdb.c`, `offsets/`, `osx.menuapp/`, `core/` | | drawing, tables of names, scan for offsets, menu, logging |

`sqlite3/`, `imgui/`, `glfw3/`, `glm/`, `gl3w/`, `uthash/`, `minIni/`,
`simpleini/`, `mach_*`, `jrswizzle/`, `task_vaccine/` and `insert_dylib/` are
vendored.

### How they interact

* Meter and server exchange single datagrams; each side is one thread for this
  purpose (the server's loop, the meter's render thread), so there is no
  interleaving within a handler. Everything hard about the update is in the
  path between them, in the files the operator replaces under the running
  server, and in what the server keeps per user between two datagrams.
* Every handler of the server first looks its user up in the table, which may
  evict another user, whose update state and last report are then forgotten.
* Inside the meter for OSX, detours in the game's threads, the game's main
  thread, the render thread, and the two network threads share the caches, the
  list of key bindings, the socket and `g_init_state`. The mutexes that are meant to guard the caches are
  never initialised; section 3 says what that means.
* The send thread reads the closest players and the recent targets that the
  game's thread collects; the receive thread writes the answer of the server
  into the entries of the closest players.

### What is hard

For each component: what makes it correct, and what could go wrong.

* **Self-update.** The meter installs a whole, current, properly signed build of
  its own kind. Hazards: pieces lost, duplicated, late; builds and signatures
  replaced in the middle of a download; the server restarted, or the user
  evicted, in the middle of a download; paths that drop fragmented datagrams;
  sizes at the edge between two kinds of datagrams; a lock held after a failure.
* **Users and relay.** No entry is lost or used twice, a lookup by name returns
  the user that goes by it, the table forgets who was seen least recently.
  Hazards: the name's node lives in the entry it finds; two endpoints claim one
  name; eviction in the middle of all this.
* **Database.** One row per account. Hazards: rows older than account names,
  which are found by an address that several accounts share.
* **Name cache.** A pointer to a name stays good while it is kept; a name that is
  looked up is decoded some time. Hazards: found entries evicted and reused,
  requests pushed while the list is iterated or cleared.
* **Generic cache, closest players.** No entry is lost or used twice, the players
  shown are the closest, each shows his own report. Hazards: other threads
  between the steps of a frame, a limit moved below what the table holds, a
  pointer kept across a removal, distances out of date.
* **Targets.** No target shows more damage than it took, what is gone
  disappears, what is shown is reported, a lock holds. Hazards: entries evicted,
  reset, left over from another map; a preferred target that outlives its
  entry; selecting, locking, losing and resetting in any order.
* **Bundle, hooks.** Nothing is used before it was made, what was freed is used by
  nobody who comes later, the threads end. Hazards: a shutdown that waits for
  nobody, hooks that stay, keys whose callbacks test nothing.

`PROJECT.json` lists each hazard with its line.

## 2. Plan

In order of importance; 1 to 10 are done.

1. `UpdateNetwork`, `UpdateServer`, `Updater`, composed by `UpdateProtocol`:
   the self-update. Instances in `MCUpdate`.
2. `UpdateProofs`: type correctness and the safety invariants of the self-update.
3. `UserCache` (operators), `DamageRelay` (state machine), `UserDirectory`
   (abstract specification, implemented by `DamageRelay`). Instance in `MCRelay`.
   `RelayProofs`: the invariants of the table, and the refinement step by step.
4. `UserDb`, `UserDbProofs`: the database. Instance in `MCUserDb`.
5. `GameCache` (operators of `cache.hpp`), `GameCacheProofs` (what they preserve).
   `Recency` holds the two operators on sequences that uthash's order needs in
   `GameCache`, `UserCache` and `UserDirectory`.
6. `NameCache`, `NamesProofs`: the decoded names. Instance in `MCNames`.
7. `ClosestPlayers`, `PlayersProofs`. Instance in `MCPlayers`.
8. `Targets`, `TargetsProofs`, with auto-lock. Instance in `MCTargets`.
9. `Lifecycle`, `LifecycleProofs`: start-up and shutdown against the threads.
   Instance in `MCLifecycle`.
10. A theorem for every safety property that a run checks (section 6).

Left:

11. The meter's file and configuration with a crash between and within the
    writes (`meter/entry.c:256`, `meter/updater.c:304`), and failing statements
    of the database.
12. The combat record of a player (`CombatData`).
13. Proofs about what does not depend on the bounds of a run but is no property of
    one yet: that an undisturbed frame of `ClosestPlayers` leaves a full table
    when there are enough players, and that `NeverOverstated` still bounds the damage
    by that of all beings of an agent id when ids are used again.

## 3. The modules

### UpdateNetwork

`net` is the set of datagrams in flight, at most `MaxInFlight`; a datagram that
does not fit is lost, which loss allows anyway. The four record sets are the
structures of `core/message.h` that the protocol uses. A build is identified
with its CRC (`Version`). `bytes` of a piece names the build the copied bytes
come from, `room` which of the two structures carries them: neither is a field
of the message the receiver looks at, apart from the bytes themselves.

### UpdateServer

| TLA+ | code |
|---|---|
| `disk[d].data`, `disk[d].sig` | `bgdm.dll` / `cn/bgdm.dll` and the `.sig` next to it |
| `dll[d]` | `g_dll`, `g_dll_cn`: `data` and `sig` name the builds in `bytes_data` and `bytes_sig`; `time` is the build whose file time is stored; `age` is `now - last_check`, saturated |
| `user[c]` | `msg_update_retry`, `msg_update_max_size`, `last_msg_update_seq`, `now - last_msg_update_begin`, `ver_str` |
| `locked`, `hung` | `m_lock` held after a return; the thread waits for it |
| `BeginRefused`, `BeginServed`, `BeginUnserved` | `msg_client_update_begin_utf8` and `msg_client_update_begin`, split by outcome; `Kept`, `Reloaded`, `LoadFailed`, `LoadBlocked` are the outcomes of the check for new files |
| `PieceDropped`, `PieceServed`, `PieceReduced`, `PieceReset` | `msg_client_update_piece`, split by outcome |
| `PublishBuild`, `PublishSignature`, `Unpublish` | the operator, who copies a build and then its signature; a file may be missing in between |
| `Restart`, `Evict` | a new process; the user's entry reused for another |

`m_lock` is zero-initialised. That is an unlocked mutex where `Makefile` builds
the server with glibc, and an unlocked spin lock in the branch for Windows;
the model describes these. (The Darwin branch of the `Makefile` also builds;
there a mutex that was never initialised is refused by `pthread_mutex_lock`
and locks nothing, so the thread does not wait.)

Two things in the code are left out of the guards because they are never true:
the rate limit of pieces (`last_msg_update_piece` is never set) and
`context_insert_user` returning 0.

### Updater

`up[c]` holds the statics of `updater.c`, with the bytes of `g_update_data`
abstracted to the set of builds they were copied from: pieces are accepted at
`g_update_offset` only, so the buffer has no gaps, and it is one build if all of
its bytes are of one build and it is as long. `crypto_verify` and `crc32` are
external and ideal. `Poll`, `VerifyFailed`, `Install`, `RequestPiece` are the
exits of `updater_update`; a frame in which none is enabled does nothing.
`AfterPing` includes the reset that a begin reply with a length of 0 means to the
meter (`updater.c:146-152`); this server never sends one, because it only announces
what it could read.

### UpdateProtocol

The composition: a received datagram goes to the side it is addressed to, loss
and duplication are in `net`, `Tick` advances all ages. Sequence numbers are 64
random bits, of which no copy is left anywhere when they are drawn: `FreshSequence`
takes the least unused one, which is as good as any since numbers are only
compared for equality. `Stale` says whether a datagram may outlive a tick (a
poll period); without it, `Tick` waits for the path to be empty.

### UserCache, DamageRelay, UserDirectory

`lru` is the C structure: `store` with its slots, `cache` the order in which
uthash keeps the used ones, `tracker` the stack of free ones, `lookup` the slots
whose node is in the name hash, and `he` in the entry the key of that node.
`UserCache` has one operator per C function; `DamageRelay` calls them in the
order the handlers do, with one action per handler. What a client reports is a
single value `report`; `age` is `now - last_msg_damage`. Names are names that
`trim` leaves alone.

`UserDirectory` says what this amounts to: a bounded set of users in the order
they were seen, each name owned by whoever claimed it last. `DamageRelay`
implements it under the mapping `Directory`: slots become endpoints, nodes of
the name hash become owners.

### UserDb

`users` is the table. An `UpdateUser` is the whole of `db_update_user`: the
search by account, the search by address for a row without an account, then the
UPDATE or the INSERT. The order in which a SELECT lists rows is free. The name
that is written is `User.utf8_name`.

### GameCache

One operator per member function of `Cache`, from one state of the struct to the
next. A pointer to an entry is its slot. `cache` holds the slots in use in the
order uthash keeps them, which is the order of iteration and of eviction;
`tracker` is the stack of free slots.

The struct has a mutex, as have `lru_cache.cpp` and `CombatData`, but nothing ever
calls `pthread_mutex_init`: the structs are zeroed by `calloc` or `memset`, or are
globals without an initialiser. On Darwin, where this meter runs, `pthread_mutex_lock`
refuses a zeroed mutex (its signature is wrong) and returns an error that is not
looked at, so the critical sections exclude nobody. (This is also why an operation
called inside `iter_lock` does not wait for itself.) `ClosestPlayers` and `Targets`
therefore let all other threads come between the steps of a frame. A single
operation of the table is one step all the same: what two threads do to the
same uthash at the same instant is undefined, and the models say nothing of it.

### ClosestPlayers

| TLA+ | code |
|---|---|
| `closest` | `gameContext->closestPlayers`; `who`, `distance`, `marked`, `dps` are fields of `Player` |
| `world` | the game's array of characters, after the filters |
| `BeginFrame` ... `EndFrame` | `readClosestPlayers`: the loop that shrinks, the resize, the mark, one player of the array, the removal of those still marked; the limit is read anew in each of the first three |
| `sorted`, `Sort`, `Ask` | `msgClientDamageUTF8_read`: the entries it keeps pointers to, sorted (`game_data.cpp:2467-2474`), and the names that are in them when it copies them (`2475`) |
| `Receive`, `FindNamed`, `NobodyNamed`, `WriteReport` | the server's answer in `msgServerDamageUTF8_handler` |
| `SetMaxPlayers`, `Reset` | the options panel, `dpsReset` |
| `seen`, `exact`, `calm` | ghosts: the array as this frame read it, whether it began with right distances, whether anything disturbed it |

A player who has an entry is refreshed without his distance
(`game_data.cpp:348`), so a frame compares newcomers with distances of the frame
in which the others entered. `ClosestIfExact` therefore has the premise `exact`:
it is what the code achieves, and the premise is a remark about the code: the
property assumes the hazard at `game_data.cpp:348` away.

### Targets

| TLA+ | code |
|---|---|
| `targets` | `gameContext->targets`; an entry's fields are those of `DPSTarget`, times written as ages |
| `current`, `dps`, `checked`, `sent` | `currentTarget`, `currentDpsTarget`, `last_autolock_aptr`, `controlledPlayer.dps.targets` |
| `Hit`, `Resist`, `ToldInvulnerable` | `combatLogProcess`, `combatLogResultProcess`, the part of `msgServerDamageUTF8_handler` about targets |
| `BeginFrame`, `Calculate`, `AllCalculated` | `AgentSelect_read`, `validateAndCalcTargets` entry by entry |
| `PreferSelected`, `KeepPreferred`, `HidePreferred`, `NothingPreferred` | `validateDpsTarget`, split by outcome |
| `Report` | `buildRecentTargetsArray` and the preferred target in `setupGroupDpsData` |
| `Reset`, `ToggleLock`, `SetAutolock`, `AllRaid`, `FreeAutolock` | the keyboard and the panels |
| `cursor`, `following` | `HASH_ITER`: the entry it comes to next, and the one it noted to come after that |
| `friendly` | the selected agent is friendly: `AgentSelect_read` then keeps its id and enters nothing (`game_data.cpp:1257-1301`) |
| `Becomes`, `Select`, `ChangeMap` | the game |
| `dealt` | a history: the damage done to each being |

Remarks about the code that the model follows: the comparison by which the
recent targets are sorted compares a time with itself (`game_data.cpp:1592`), so
`Report` takes them in any order; of a report of `MSG_TARGETS`, the elements after the
recent targets are what the last report left there; an agent id that is used again for another being keeps the
entry and with it the damage of the first if a hit or the selection
rewrites the pointers before the entry is validated (`1278`). The run gives
each id one map, so `NeverOverstated` is not claimed for such an id.
Durations are not modelled. The comment at `game_data.cpp:1383` says that time out of combat or
invulnerable is not calculated; the calculation is indeed left out, and the next one
adds the whole pause (`1392`). Whether the comment speaks of the calculation or of the
time cannot be told from the code, so nothing is claimed.

### NameCache

The table is that of `lru_cache.cpp`, an elder twin of `cache.hpp`, with the operators
of `GameCache`; the name of a key is written as the key. `LookUp` and `Decode` are the
sections between lock and unlock. `ReadName` is the use of a found entry after
unlock (`lru_cache.cpp:259`), `Search` and `Push` what `lru_find` does to
`g_unresolved` without the lock; `BeginResolve`, `Resolve` and `ClearQueue` the loop and
the clearing in `lru_resolve`, `WriteName` the copy of the text after the entry was
inserted. The game may answer with an empty name (`LoseName`). When `Push` makes
the array move, the loop's pointer is into the old memory: `utarray_next` then stops or
starts again at the first element, depending on which of the two lies higher, and both are in
the model; what is read of freed memory is not. `lru_resolve` asks the game nothing
for keys of `CLASS_TYPE_CHAR` (`lru_cache.cpp:342-359`), but no caller of `lru_find` has one.

`since`, a ghost, holds the other names used since a user's pointer was returned.
`PointerValid` is how long such a pointer may be kept.

### Lifecycle

| TLA+ | code |
|---|---|
| `state` | `g_init_state` |
| `init`, `fini` | the next step of `bgdm_init`, which runs on a background queue, and of `bgdm_fini`, which runs in a destructor |
| `memory`, `flag` | what the start-up makes and the shutdown frees, and the flag its operations test first: the list of keys (`first` of `core/input.c`), the tables of targets and players (`init` of their caches), the names (`g_is_init`), the socket |
| `thread[t]` | where a pass is: at a test or a use, and what is left to do (`todo`) |
| `GameFrame`, `CombatHook` | `gameThread_detour`; `areaLog_detour` and `combatLog_detour` |
| `Draw`, `Press` | `ImGui_Render` from `updateKeyboard` on; the key of `keybCallback_dpsReset`, whose callback clears both tables |
| `SendRound`, `RecvRound`, `Received` | the two network threads; a round of the send thread sends a report and, if one is due, a request for an update |
| `gone`, `late` | ghosts: what was destroyed when the pass began; the game ended before `bgdm_init` did |

The test and the use of a thing are two steps, so that the shutdown comes between
them. `ImGui_Render` polls the keys before it tests the state
(`imgui_osx.cpp:442`, `451`), whatever the state is: the drawing thread enters the list of keys,
and through a callback the tables, during the start-up, after one that failed
and after the shutdown; all that protects it is that each operation tests its own flag. The walk
along the list (`walk`) goes on without a test. `registerKey` links a node before it writes
it (`LinkKeys`, `KeysRegistered`), and `clearKeys` follows the first node without a test: if no
key was registered yet the process dies there (`DieInFini`). Of the other callbacks none
reaches what is shared here. The lists of the auto-lock, which `bgdm_fini` also frees, and
`ImGui_Main` are left out.

`hookFini` does nothing on OSX but forget the page size (`hook2.c:321`), so
the detours stay; those of the combat logs test no state. When there is no table
they get no entry, and the access violation is caught around them
(`__TRY`/`__EXCEPT`), which `Skipped` shows as a skipped operation.

The shutdown waits for nobody. A thread that passed its test uses what is freed right
afterwards: this the code does not prevent, and no property denies it.
`OnlyCaughtInside` says how far it goes: once the shutdown is through with a thing, no
*later* pass uses it in its freed state, of whichever thread, in whichever state, also
if the game ended during the start-up and the last `g_init_state` is
`Initialized` (`entry_osx.m:834`). In that case the network threads never end, and
`EventuallyStopped` has the premise `~late` for this reason.

## 4. The runs

Bounds of the update runs: two to four builds, one of them two pieces long (the
shortest build that has a first and a last piece), sizes 6/4/2 or 16/7/5 in
the proportion of 8192/1023/548, periods of one tick, two datagrams in flight
(a request or reply and a late one; a meter has at most one request outstanding
per period). `MaxSequence` leaves a fresh number in every state
(`ProtocolAssumption`). The retry limit is 0 or 2 instead of 10: only
reaching and passing it matters.

| run | instance | shows |
|---|---|---|
| `network` | duplication, reordering, datagrams of any age, new builds | `PieceFitsDatagram`, `InstalledIsRelease` |
| `server` | a NonTOS meter, two releases of each build; builds published and removed, restart, eviction, other users that make the server load | `TypeOK`, `ServedVersionIsCrc`, `InstalledIsRelease` |
| `orderly` | no datagram outlives a poll period; meters restart, builds are published, other users make the server load them | `DownloadIsCoherent` |
| `progress` | a path that drops every full-size piece, one build of the size that is neither reduced nor small | `EventuallyUpToDate` |
| `relay` | 3 clients, 2 names, 2 reports, table of 2 | `TypeOK`, `LookupSound`, `SlotsAccounted`, `LatestOwnsName`, `ImplementsDirectory` |
| `rows` | 3 accounts, 2 addresses, 2 names, all tables of the past of at most 2 rows (`OldRows`), growing to 4 (`MaxRows`) | `AccountsUnique`, `AccountKept` |
| `players` | 3 players at 3 distances, table of 2, reports of 2, one answer on its way, 3 changes | `TypeOK`, `TableSound`, `ClosestIfExact`, `EventuallyFull`, `EventuallyReported` |
| `targets` | 3 agents, 2 of them raid bosses, 2 maps, table of 2, report of 2, one hit, 2 changes | `TypeOK`, `TargetsSound`, `NeverOverstated`, `LockHolds`, `EventuallyHidden`, `EventuallyCurrent`, `EventuallyReported` |
| `names` | 3 names, table of 2, the game's thread and a drawing thread | `TypeOK`, `NamesSound`, `PointerValid`, `EventuallyDecoded` |
| `lifecycle` | the whole module, which has no constants | `TypeOK`, `NeverTooEarly`, `OnlyCaughtInside`, `EventuallyStopped` |

The tables are smaller than the number of clients, players, agents or names, so
that each eviction and reuse of a slot happens, also in the middle of what others
do. A report holds as many targets, and a question as many players, as the table: what is
cut off when it holds more is not exercised, but their order, and elements that a
shorter report leaves as they were, are. A *change* (`MaxChanges`) is something the game or the player does: players
come, go and move, the limit is moved, a target is selected, locked, healed, left
behind. Two or three, in any order and between any steps of the threads, disturb a
frame and then what it left behind. Ages count up to just past the
threshold they are compared with. In the relay and the database, endpoints,
names and so on are symmetric; runs of liveness use no symmetry.

Runs that end in a violation show where the code does not do what it says; each
is a finding in `PROJECT.json` with the words it contradicts.

| run | property | what happens |
|---|---|---|
| `lock` | `ServerResponsive` | a file is missing when `meter_load` runs; it returns with `m_lock` held; the next load waits for ever |
| `stuck` | `DownloadEnds` | another user's begin request loads a new build; pieces of the old one are dropped in silence; a meter in a download does not poll |

`DownloadEnds` also fails, for the same reason as in `stuck`, when the server
restarts during the download of a NonTOS meter: it forgot `ver_str`, looks the
pieces up in `g_dll`, and the meter sends no begin request that would tell it
better. `InstalledIsRelease` holds whatever else goes wrong
(section 6): the verification at the end of a download makes up for it.

Three more things in the update are in the model, and limit what is claimed of it:

* a begin reply that is late is taken for a ping reply or not depending on its
  version only, and overwrites `g_update_version` in the middle of a download
  (`updater.c:167`): `DownloadIsCoherent` is claimed for paths on which nothing
  outlives a poll period;
* a size of exactly 1023 is neither reduced further nor sent in the small
  datagram (`server/entry.c:744`, `801`). The size of a full piece never halves to it,
  but that of the last piece of a build may, after a reset in which the user's size
  is forgotten. `EventuallyUpToDate` therefore says that the meter ends up with the build or
  the server comes back to this size for ever, and a build of `progress` has it;
* a signature that is copied to the server after its build was loaded is not
  loaded, since only the time of the build is looked at (`server/entry.c:194`).

Deadlock is checked in all runs but `lifecycle`, where the meter may really come
to its end.

## 5. Fairness

The self-update (`EventuallyUpToDate`, `DownloadEnds`):

* weak fairness of `Tick`: time passes;
* weak fairness of `Frame(c)`: the game renders frames, and every frame calls
  `updater_update`;
* weak fairness of the reload of an updated meter: the loader restarts the meter
  when `updater_update` returns true;
* strong fairness of the delivery of each kind of message to each side: of a
  datagram that is sent again and again a copy arrives. This is what retrying
  is good for, and the least that makes it so; the path may still lose any
  finite number, and in `progress` it drops every full-size piece;
* weak fairness of `PublishSignature`: the operator finishes what he began.

Nothing is assumed of faults, duplication, restarts or eviction.

`ClosestPlayers`: weak fairness of the frame's steps (the game renders), of `Sort` and `Ask`
(the send thread's loop) and of `Handle` (the receive thread finishes a datagram);
strong fairness of `Receive`, as above. `Targets`: weak fairness of the frame's
steps. Their liveness properties have the form `<>[]`: they say what the meter
shows when the game has come to rest, which the bounds make it do; nothing is
assumed of the game.

`NameCache`: weak fairness of each user's steps and of those of `lru_resolve` and
`cbDecodeText`; strong fairness of a look-up, a search and a push of another thread
*outside* `lru_resolve` (`phase = "out"`): the threads share no clock, so it cannot go on
for ever that each request falls into the moment before the list is cleared;
strong fairness of `Decode(k)`: the game answers a name it is asked for again and
again. Without the second, a name is lost for ever in the model, and with bad
luck in the code.

`Lifecycle`: `bgdm_init` and a `bgdm_fini` that began go on, a thread inside the meter
goes on, the network threads wake up from their half second. The game need not
end.

## 6. Proofs

Every safety property that a passing run checks is the property of a theorem, for
every value of the constants that satisfies the named assumptions. Three
theorems have a further hypothesis, stated in the theorem and explained below:
`DownloadCorrect` (`Orderly`), `DamageCorrect` and `LockCorrect` (`UsedOnce`).

### The self-update (`UpdateProofs`)

For every set of clients, builds, sizes and periods (`NetworkAssumption`,
`ServerAssumption`, `UpdaterAssumption`, `ProtocolAssumption`):

* `TypeCorrect`: `Spec => []TypeOK`. Types alone are not inductive: a request for
  the next piece has the size `g_update_size - g_update_offset`, a natural number
  only because the offset never passes the size (`OffsetInSize`, in `TypeInv`),
  and `Reload` needs that no meter ever installed a corrupt file, so the two
  invariants are proved together (`Inv`).
* `ReleaseCorrect`: `Spec => []InstalledIsRelease`. Verification says that the
  buffer is the build `g_update_version` names. That this is a build for *this*
  meter needs the chain back to the server (`ReleaseInv`): what the server
  loads, its version and what lies on its disk are always builds released at
  that path; a begin reply carries the version of the build that the very
  request it answers selected, since this request stored the version string; so
  each begin reply in flight, and each `g_update_version`, is of a build for
  that meter, in whatever order replies arrive.
* `PieceCorrect`: `Spec => []PieceFitsDatagram`, with an invariant about the sizes the
  server keeps (`SizeInv`): a request that passes
  the early return (`BadPiece`) lies within the build and asks for at most
  `UPDATE_SIZE` bytes, so the size of the user, which may come from it or from
  before, settles on the small one, with the small buffer, or on one between
  the floor and a full piece, with the large buffer.
* `ServedCorrect`: `Spec => []ServedVersionIsCrc`. A load that stops half-way may have
  the new bytes with the old version, and the server does announce and hand them out. But then
  the build has no signature, and `m_lock`, which the load left held, keeps it so until
  the server is restarted: `meter_load` frees both signatures before it reads the first file, and
  writes the version right after the signature. Nothing else separates version and bytes.
* `DownloadCorrect`: `Orderly => (Spec => []DownloadIsCoherent)`. Every part of
  `Orderly` is needed. A reply that outlives a tick (`Stale`) is taken for that of a
  ping and overwrites `g_update_version` in a download; a file that is missing
  (`unpublish`) leaves the bytes of one build under the version of another; after a
  restart or an eviction the server has forgotten when it answered, and answers a
  meter twice in one tick, with different builds if it loaded between (it checks a
  file once in a period, but `meter_load` for the one build reads both). TLC finds a
  counterexample when any one of the four is allowed. `OrderlyInv` says what
  remains: the server answers a meter at most once in a tick, the answers in
  flight to a meter agree with each other and with the download it is in, and
  pieces carry bytes of the build they name. Builds may still be replaced, also
  under a download. The run `orderly` has these parameters.
* `ResponsiveUnlessMissing`: when no file is ever missing, the server thread never
  waits for a lock. It is the other half of the run `lock`: the missing file is not
  just one way to the hang, but the only one.

### The users of the relay (`RelayProofs`)

`RelayTypes`, `SlotsCorrect`, `LookupCorrect` and `LatestCorrect` come from one
inductive invariant, `Good(lru, {})`. `Live`: the slots of the used and the free list
are all slots, once each, and endpoints have one entry each. `Named`: the
name hash holds used entries only, under different names, each under the name it
claimed. `Latest`: of the entries that claimed a name, the one in the hash is the
last seen. Inside a handler an entry is moved to the end of the order before it
claims its name, and the invariant fails for it; the second parameter of `Good`
is the set of entries exempt for that reason.

`RelayImplementsDirectory`: `Spec => ImplementsDirectory`. For each C function a
lemma `...Means` gives its meaning on the directory: an entry found is a user moved to
the end of the order, an allocation on a full table the loss of the first user
with the name he owned, a name claimed a name taken from its owner. The handlers
compose them. The loop over the asked names is a recursive function in both modules;
the two agree because the recursion equation has one solution only.

### The tables of the meter

`GameCacheProofs` proves, for every capacity and whatever the entries hold, what
each operation of `cache.hpp` makes of a table that is `Live` (it has its type, is
initialised, and `Sound`: every slot is in use once or free once, an entry in use
knows its index, no key has two entries): it is live again, and the lemmas say
which slots are in use, in which order, with which contents. The argument is about
the two sequences: a slot that leaves one is appended to the other
(`FreedPartition`, `AllocatedPartition`, `ClearedPartition`, `RelinkedPartition`).
`UnlinkedOrder` and `AppendedOrder` say that `HASH_DEL` and `HASH_ADD` keep the order of the
rest. The modules below rest on these lemmas.

`PlayersProofs`:

* `TableCorrect`: `Spec => []TableSound`, and `PlayersTypes`: `Spec => []TypeOK`.
* `ClosestCorrect`: `Spec => []ClosestIfExact`, for any number of players and any
  limit. `ScanInv` is the invariant of the loop over the game's array: players who
  were looked at and are listed have lost their mark, those who were looked at and
  are missing are not nearer than anybody listed, and somebody is missing only when the table
  is full. The last is needed because a free place lets anybody in, also one who
  is farther than somebody who was left out before. A limit of 0 marks everybody and
  lets the scan look at nobody. `PlayersAssumption` says that there is a distance at all,
  which the initial state needs.

`TargetsProofs`:

* `TargetsCorrect` and `TargetsTypes` need, of each entry, that it is `Right`: the being
  it names has the entry's id.
* `DamageCorrect`: `UsedOnce => (Spec => []NeverOverstated)`, through `Charged`: no entry
  claims more than its being took, and neither does what is shown or sent, which was copied
  from an entry. `LockCorrect`: `UsedOnce => (Spec => LockHolds)`. `UsedOnce` says that no id
  is used on two maps. Without it TLC finds both violated: an entry of an id that
  is used again keeps the damage of the first being, and its lock (`game_data.cpp:1278`, a
  hazard in `PROJECT.json`). The run gives each id one map for the same reason.

`NamesProofs`:

* `NamesCorrect`: `Spec => []NamesSound`, from `Live`, the entry under
  way (`TableInv`) and the loop (`LoopInv`). `NamesTypes` adds the array of names that
  wait (`QueueInv`): the loop's index is within it however often it grows meanwhile.
* `PointersCorrect`: `Spec => []PointerValid`. The property is not
  inductive: it says nothing of the order in which entries are evicted. `Good` adds
  that all entries that come after the pointer's own in the order of use are of
  names used since the pointer was returned. The entry that is evicted is the
  first of a full table, so if it is the pointer's, the max_size - 1 others and the
  new one are all of such names; they are different, so there are at least
  max_size of them (`ManyKeys`, by the pigeonhole principle).

### Start-up and shutdown (`LifecycleProofs`)

`LifecycleTypes`, `NothingTooEarly` and `UsedLateOnlyInside`. The state protects
nothing here, since keys and combat hooks do not test it and a late start-up overwrites it; the
argument is about the flags. A flag is set only of what was made, and what is freed is
being destroyed, or was, and then its flag is cleared (`Ordered`). What a thread uses, or will
use without another test as it walks along the keys (`Held`), was made, and was made
again if it had been destroyed when the pass began (`Sound`): the test it passed found
the flag set, and the shutdown does not come back. `Plan` lists what may be left of a pass.

### The database (`UserDbProofs`)

`AccountsCorrect` (`Spec => []AccountsUnique`) and `RowsCorrect` (`Spec => AccountKept`), for
every set of accounts, addresses and names and tables of any length. `AccountsUnique` with
the type of the table is inductive: an UPDATE writes an account over its own row, or
over a row without one only when the account has none.

### Loops, and what stays with TLC

Loops are recursive functions on the naturals (`Answers`, `Search`, `Known`). The library's
theorems of induction take an operator as a parameter and cannot be used here; that such a
function exists, and what it returns, is proved by a least counterexample instead, the
well-foundedness of `<` being a theorem about sets.

Liveness under fairness is only model-checked: `EventuallyUpToDate`, `EventuallyFull`,
`EventuallyReported`, `EventuallyHidden`, `EventuallyCurrent`, `EventuallyDecoded`,
`EventuallyStopped`. So are the two runs that end in a violation. What is false without
its hypothesis (`Orderly`, `UsedOnce`, no missing file) is claimed with it only.

## 7. Not modelled

* The bytes of messages, apart from the fields above; sizes and offsets are
  unbounded naturals, since requests of the meter are bounded by the length of
  a build.
* `network_send` failing: it is a lost datagram.
* Wide-character messages: Windows only.
* The version in the configuration (`meter/entry.c:125-129`, `255-257`): after a
  restart the meter's version is that of its file.
* SQLite, sockets, file system and cryptography are external.
* Two threads inside one operation of a table at the same instant, which the
  locks do not prevent (section 3, GameCache).
* Of the game data: the reading of the game's memory, buffs, the combat record of
  a player, the lists of hits and their intervals, durations, texts.
* `lru_delete`, which nothing calls; failures of `calloc`; a file that cannot be read
  after it was opened (`core/unix/file.c:64`): a file is there whole or not at all.
* `meter/dps.c`, the Windows predecessor of the targets, and `hook/fnchooks.c`, for
  Windows: the present build uses neither.
* Drawing, tables of names, the menu and the scanner, for the reasons given in
  `PROJECT.json`: they keep no state that an order of events could spoil.
* Vendored code (`sqlite3`, `imgui`, `glfw3`, `glm`, `gl3w`, `uthash`, `mach_*` and so on), which
  is most of the lines of the repository. Of uthash, the order it keeps and
  what `HASH_DEL` does to it are modelled, as the program uses them.
