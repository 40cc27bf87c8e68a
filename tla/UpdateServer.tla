---------------------------- MODULE UpdateServer ----------------------------
(***************************************************************************)
(* The server's side of the self-update protocol (server/entry.c): the two *)
(* meter builds it keeps in memory, how it loads and reloads them, and the *)
(* handlers of MSG_TYPE_CLIENT_UPDATE_BEGIN_UTF8 and                       *)
(* MSG_TYPE_CLIENT_UPDATE_PIECE.                                           *)
(*                                                                         *)
(* The server is one thread, so a handler is one step.  A timestamp that   *)
(* the code only compares with a period is an age that saturates at it.    *)
(***************************************************************************)
EXTENDS UpdateNetwork

CONSTANTS
  BEGIN_PERIOD,  \* MSG_FREQ_CLIENT_UPDATE_BEGIN (30 s), in ticks
  METER_PERIOD,  \* FREQ_METER_CHECK (10 s), in ticks
  MAX_RETRIES,   \* MSG_MAX_RETRIES (10)
  NonTOS,        \* the clients whose version string contains "NonTOS"
  Release,       \* Release[d]: the builds published at the path of d
  Faults         \* what the environment of the server does in this instance

Dll == {"g_dll", "g_dll_cn"}

ServerFault == {"publish", "unpublish", "restart", "evict", "others"}

ASSUME ServerAssumption ==
  /\ BEGIN_PERIOD \in Nat \ {0}
  /\ METER_PERIOD \in Nat \ {0}
  /\ MAX_RETRIES \in Nat
  /\ NonTOS \subseteq Client
  /\ Release \in [Dll -> SUBSET Version]
  /\ Faults \subseteq ServerFault

VARIABLES
  disk,      \* disk[d]: the build and the signature file at the path of d
  dll,       \* dll[d]: the UpdateData of d
  user,      \* user[c]: the update fields of the User record of c
  locked,    \* m_lock of meter_load is held
  hung,      \* the server thread waits for m_lock for ever
  published  \* published[d]: every build that was ever at the path of d

serverVars == <<disk, dll, user, locked, hung, published>>
-----------------------------------------------------------------------------
\* A User record as lru_insert_user makes it: zeroed.  last_msg_update_begin = 0
\* never limits, which is what a saturated age says.
NewUser == [retry |-> 0, maxSize |-> 0, seq |-> 0, age |-> BEGIN_PERIOD, ver |-> "none"]

UserRecord ==
  [retry : 0 .. MAX_RETRIES, maxSize : Nat, seq : Sequence, age : 0 .. BEGIN_PERIOD,
   ver : {"none", "TOS", "NonTOS"}]

UpdateData ==
  [data : AnyVersion, sig : AnyVersion, version : AnyVersion,
   time : AnyVersion, age : 0 .. METER_PERIOD]

DiskFiles == [data : AnyVersion, sig : AnyVersion]

\* The version string a client sends (updater_get_version_str).
VerStr(c) == IF c \in NonTOS THEN "NonTOS" ELSE "TOS"

\* The build a user is given, chosen by its version string.
DllOf(u) == IF u.ver = "NonTOS" THEN "g_dll_cn" ELSE "g_dll"

Length(v) == IF v = NoVersion THEN 0 ELSE FileSize[v]

AtMost(a, b) == IF a <= b THEN a ELSE b
-----------------------------------------------------------------------------
\* free_update_data: the bytes go, the version and the file time stay.
Freed(u) == [u EXCEPT !.data = NoVersion, !.sig = NoVersion]

ReadOk(d) == disk[d].data # NoVersion /\ disk[d].sig # NoVersion

\* read_update_data: the build, then its signature, then the CRC and the time.
\* A missing signature leaves the new bytes with the old version.  A missing or
\* empty file has no bytes and the length 0; a file that is there and cannot be
\* read, of which file_read reports the length all the same, does not occur here.
ReadUpdate(u, d) ==
  IF ReadOk(d)
  THEN [u EXCEPT !.data = disk[d].data, !.sig = disk[d].sig,
                 !.version = disk[d].data, !.time = disk[d].data]
  ELSE [u EXCEPT !.data = disk[d].data]

LoadOk == \A d \in Dll : ReadOk(d)

\* meter_load: both builds are freed; g_dll_cn is read only if g_dll was.
Loaded(from) ==
  [d \in Dll |->
     IF d = "g_dll" \/ ReadOk("g_dll") THEN ReadUpdate(Freed(from[d]), d)
                                       ELSE Freed(from[d])]

\* meter_has_changed, at most once per period: compares and stores the time of
\* the build's file.
Unchecked(d) == dll[d].age < METER_PERIOD
HasChanged(d) == ~ Unchecked(d) /\ disk[d].data # dll[d].time
Checked(d) ==
  IF Unchecked(d) THEN dll
  ELSE [dll EXCEPT ![d] = [@ EXCEPT !.age = 0, !.time = disk[d].data]]

\* bytes_data == 0 || meter_has_changed(now, dll), and the state it leaves.
MustLoad(d) == dll[d].data = NoVersion \/ HasChanged(d)
AfterCheck(d) == IF dll[d].data = NoVersion THEN dll ELSE Checked(d)
-----------------------------------------------------------------------------
ServerInit ==
  /\ disk \in [Dll -> {[data |-> v, sig |-> v] : v \in Version}]
  /\ \A d \in Dll : disk[d].data \in Release[d]
  /\ dll = [d \in Dll |->
              [data |-> disk[d].data, sig |-> disk[d].sig, version |-> disk[d].data,
               time |-> disk[d].data, age |-> METER_PERIOD]]
  /\ user = [c \in Client |-> NewUser]
  /\ locked = FALSE
  /\ hung = FALSE
  /\ published = [d \in Dll |-> {disk[d].data}]
-----------------------------------------------------------------------------
\* Greeted when the version string is not stored.
GreetedMute(m) == user[m.client]

\* The user record once the begin request of m.client stored its version string.
Greeted(m) == [user[m.client] EXCEPT !.ver = VerStr(m.client)]

TooSoon(u) == u.age < BEGIN_PERIOD

BeginAnswer(m, u) ==
  [type |-> "begin_reply", client |-> m.client, version |-> u.version,
   size |-> Length(u.data), signed |-> u.sig, seq |-> m.seq]

\* msg_client_update_begin_utf8 for a client that has no version, or asks too often.
BeginRefused(m, rest) ==
  /\ m.type = "begin_request"
  /\ ~ hung
  /\ \/ /\ m.version = NoVersion
        /\ UNCHANGED user
     \/ /\ m.version # NoVersion
        /\ TooSoon(Greeted(m))
        /\ user' = [user EXCEPT ![m.client] = Greeted(m)]
  /\ net' = rest
  /\ UNCHANGED <<disk, dll, locked, hung, published>>

\* The part of msg_client_update_begin that precedes the choice of a build.
BeginAdmitted(m) ==
  /\ m.type = "begin_request"
  /\ ~ hung
  /\ m.version # NoVersion
  /\ ~ TooSoon(Greeted(m))
  /\ user' = [user EXCEPT ![m.client] =
                [Greeted(m) EXCEPT !.retry = 0, !.seq = m.seq, !.age = 0]]
  /\ UNCHANGED <<disk, published>>

\* The build in memory is current.
Kept(d) ==
  /\ ~ MustLoad(d)
  /\ dll' = AfterCheck(d)
  /\ UNCHANGED <<locked, hung>>

\* meter_load succeeds.
Reloaded(d) ==
  /\ MustLoad(d)
  /\ ~ locked
  /\ LoadOk
  /\ dll' = Loaded(AfterCheck(d))
  /\ UNCHANGED <<locked, hung>>

\* LoadFailed that releases m_lock and keeps what was read so far.
LoadFailedUnlocks(d) ==
  /\ MustLoad(d)
  /\ ~ locked
  /\ ~ LoadOk
  /\ dll' = Loaded(AfterCheck(d))
  /\ UNCHANGED <<locked, hung>>

\* meter_load fails: it returns without releasing m_lock.
LoadFailed(d) ==
  /\ MustLoad(d)
  /\ ~ locked
  /\ ~ LoadOk
  /\ dll' = Loaded(AfterCheck(d))
  /\ locked' = TRUE
  /\ UNCHANGED hung

\* meter_load waits for the lock that its own thread never released.
LoadBlocked(d) ==
  /\ MustLoad(d)
  /\ locked
  /\ dll' = AfterCheck(d)
  /\ hung' = TRUE
  /\ UNCHANGED locked

\* The reply announces the build in memory, and also serves as a ping.
BeginServed(m, rest) ==
  LET d == DllOf(Greeted(m))
  IN  /\ BeginAdmitted(m)
      /\ Kept(d) \/ Reloaded(d)
      /\ net' = Carrying(rest, {BeginAnswer(m, dll'[d])})

BeginUnserved(m, rest) ==
  LET d == DllOf(Greeted(m))
  IN  /\ BeginAdmitted(m)
      /\ LoadFailed(d) \/ LoadBlocked(d)
      /\ net' = rest
-----------------------------------------------------------------------------
\* The early return of msg_client_update_piece.
BadPiece(m) ==
  LET u == dll[DllOf(user[m.client])]
  IN  \/ m.size < 1
      \/ m.size > UPDATE_SIZE
      \/ m.version # u.version
      \/ m.offset + m.size > Length(u.data)

\* max_size and retry once the request is counted.
Counted(m) ==
  LET u == user[m.client]
  IN  [u EXCEPT !.maxSize = IF @ = 0 THEN m.size ELSE @,
                !.retry = IF u.seq = m.seq THEN @ + 1 ELSE 0,
                !.seq = m.seq]

\* The halvings of size the loop of msg_client_update_piece tries; 13 of them
\* take 8192 to 1.
Halvings(size) ==
  {size \div (2 ^ k) : k \in 0 .. 13} \ (0 .. FRAG_FLOOR)

\* Reduces without the halving of size in the loop.
ReducesOnce(m, u) == u.maxSize > FRAG_FLOOR /\ u.maxSize = m.size

\* The loop finds max_size among them and halves it instead of a reset.
Reduces(m, u) == u.maxSize > FRAG_FLOOR /\ u.maxSize \in Halvings(m.size)

\* Below FRAG_FLOOR the small datagram is used and max_size settles at NO_FRAG.
Settled(u) == [u EXCEPT !.maxSize = IF @ < FRAG_FLOOR THEN NO_FRAG ELSE @]

\* PieceAnswer without the min of max_size and the size asked for.
PieceAnswerUncapped(m, u) ==
  [type |-> "piece_reply", client |-> m.client, version |-> m.version,
   offset |-> m.offset, size |-> m.size, seq |-> m.seq,
   bytes |-> dll[DllOf(u)].data,
   room |-> IF u.maxSize = NO_FRAG THEN NO_FRAG ELSE UPDATE_SIZE]

PieceAnswer(m, u) ==
  [type |-> "piece_reply", client |-> m.client, version |-> m.version,
   offset |-> m.offset, size |-> AtMost(u.maxSize, m.size), seq |-> m.seq,
   bytes |-> dll[DllOf(u)].data,
   room |-> IF u.maxSize = NO_FRAG THEN NO_FRAG ELSE UPDATE_SIZE]

PieceReceived(m) ==
  /\ m.type = "piece_request"
  /\ ~ hung
  /\ UNCHANGED <<disk, dll, locked, hung, published>>

\* A request that does not match the build in memory is dropped in silence.
PieceDropped(m, rest) ==
  /\ PieceReceived(m)
  /\ BadPiece(m)
  /\ net' = rest
  /\ UNCHANGED user

PieceServed(m, rest) ==
  LET u == Settled(Counted(m))
  IN  /\ PieceReceived(m)
      /\ ~ BadPiece(m)
      /\ Counted(m).retry <= MAX_RETRIES
      /\ user' = [user EXCEPT ![m.client] = u]
      /\ net' = Carrying(rest, {PieceAnswer(m, u)})

\* Too many retries: try with a smaller size.
PieceReduced(m, rest) ==
  LET n == Counted(m)
      u == Settled([n EXCEPT !.maxSize = @ \div 2, !.retry = 0])
  IN  /\ PieceReceived(m)
      /\ ~ BadPiece(m)
      /\ n.retry > MAX_RETRIES
      /\ Reduces(m, n)
      /\ user' = [user EXCEPT ![m.client] = u]
      /\ net' = Carrying(rest, {PieceAnswer(m, u)})

\* PieceReset that forgets msg_update_retry.
PieceResetKeeping(m, rest) ==
  LET n == Counted(m)
  IN  /\ PieceReceived(m)
      /\ ~ BadPiece(m)
      /\ n.retry > MAX_RETRIES
      /\ ~ Reduces(m, n)
      /\ user' = [user EXCEPT ![m.client] = [n EXCEPT !.maxSize = 0]]
      /\ net' = rest

\* Too many retries and no smaller size: the counters are reset, nothing is sent.
PieceReset(m, rest) ==
  LET n == Counted(m)
  IN  /\ PieceReceived(m)
      /\ ~ BadPiece(m)
      /\ n.retry > MAX_RETRIES
      /\ ~ Reduces(m, n)
      /\ user' = [user EXCEPT ![m.client] = [n EXCEPT !.retry = 0, !.maxSize = 0]]
      /\ net' = rest

ServerHandles(m, rest) ==
  \/ BeginRefused(m, rest) \/ BeginServed(m, rest) \/ BeginUnserved(m, rest)
  \/ PieceDropped(m, rest) \/ PieceServed(m, rest)
  \/ PieceReduced(m, rest) \/ PieceReset(m, rest)
-----------------------------------------------------------------------------
\* The operator copies a new build to the server, then its signature.  The
\* file times of two builds differ.
PublishBuild(d, v) ==
  /\ "publish" \in Faults
  /\ v \in Release[d] \ published[d]
  /\ disk' = [disk EXCEPT ![d].data = v]
  /\ published' = [published EXCEPT ![d] = @ \cup {v}]
  /\ UNCHANGED <<net, dll, user, locked, hung>>

PublishSignature(d) ==
  /\ disk[d].data # NoVersion
  /\ disk[d].sig # disk[d].data
  /\ disk' = [disk EXCEPT ![d].sig = disk[d].data]
  /\ UNCHANGED <<net, dll, user, locked, hung, published>>

\* One of the two files is missing or still empty while it is being replaced.
Unpublish(d) ==
  /\ "unpublish" \in Faults
  /\ \/ disk' = [disk EXCEPT ![d].data = NoVersion]
     \/ disk' = [disk EXCEPT ![d].sig = NoVersion]
  /\ UNCHANGED <<net, dll, user, locked, hung, published>>

\* The process is started again: main loads the builds, or exits.
Restart ==
  /\ "restart" \in Faults
  /\ LoadOk
  /\ dll' = [d \in Dll |->
               [data |-> disk[d].data, sig |-> disk[d].sig, version |-> disk[d].data,
                time |-> disk[d].data, age |-> METER_PERIOD]]
  /\ user' = [c \in Client |-> NewUser]
  /\ locked' = FALSE
  /\ hung' = FALSE
  /\ UNCHANGED <<net, disk, published>>

\* The user is the least recently seen one of a full cache when another comes.
Evict(c) ==
  /\ "evict" \in Faults
  /\ user' = [user EXCEPT ![c] = NewUser]
  /\ UNCHANGED <<net, disk, dll, locked, hung, published>>

\* A begin request of a client that is not in Client, whose reply and User record
\* do not matter here.
OtherBegin(d) ==
  /\ "others" \in Faults
  /\ ~ hung
  /\ Kept(d) \/ Reloaded(d) \/ LoadFailed(d) \/ LoadBlocked(d)
  /\ UNCHANGED <<net, disk, user, published>>

ServerEnvironment ==
  \/ \E d \in Dll : (\E v \in Version : PublishBuild(d, v))
                      \/ PublishSignature(d) \/ Unpublish(d) \/ OtherBegin(d)
  \/ Restart
  \/ \E c \in Client : Evict(c)

\* One tick of the clock for the ages the server keeps.
ServerTick ==
  /\ user' = [c \in Client |-> [user[c] EXCEPT !.age = AtMost(@ + 1, BEGIN_PERIOD)]]
  /\ dll' = [d \in Dll |-> [dll[d] EXCEPT !.age = AtMost(@ + 1, METER_PERIOD)]]
  /\ UNCHANGED <<disk, locked, hung, published>>
-----------------------------------------------------------------------------
ServerTypeOK ==
  /\ disk \in [Dll -> DiskFiles]
  /\ dll \in [Dll -> UpdateData]
  /\ user \in [Client -> UserRecord]
  /\ locked \in BOOLEAN
  /\ hung \in BOOLEAN
  /\ published \in [Dll -> SUBSET Version]
=============================================================================
