--------------------------- MODULE UpdateProtocol ---------------------------
(***************************************************************************)
(* The self-update protocol: UpdateServer and one Updater per client,      *)
(* joined by the UDP path of UpdateNetwork.                                *)
(*                                                                         *)
(* A meter polls the server for its version.  When the server's differs, a *)
(* download starts; the meter asks for one piece at a time, and asks again *)
(* until the piece arrives.  The server has no session: it answers what a  *)
(* request names, counts how often the same piece is asked for, and makes  *)
(* its datagrams smaller when that is too often.                           *)
(***************************************************************************)
EXTENDS UpdateServer, Updater

ASSUME ProtocolAssumption ==
  /\ MaxSequence >= MaxInFlight + 2 * Cardinality(Client)
  /\ \A v \in Release["g_dll"] : v \notin Release["g_dll_cn"]

vars == <<net, disk, dll, user, locked, hung, published, up, installed>>
-----------------------------------------------------------------------------
\* crypto_random: a 64-bit number no copy of which is left anywhere.  Numbers
\* are only compared for equality, so the smallest unused one stands for all.
FreshSequence ==
  LET used == {m.seq : m \in net} \cup {up[c].seq : c \in Client}
                \cup {user[c].seq : c \in Client}
      free == Sequence \ used
  IN  {s \in free : \A t \in free : s <= t}

\* The build a client's meter is updated to.
DllOfClient(c) == IF c \in NonTOS THEN "g_dll_cn" ELSE "g_dll"

Init ==
  /\ net = {}
  /\ ServerInit
  /\ installed \in [Client -> Version]
  /\ \A c \in Client : installed[c] \in Release[DllOfClient(c)]
  /\ up = [c \in Client |-> Started(installed[c])]

ServerReceives(m, rest) == ServerHandles(m, rest) /\ UNCHANGED updaterVars

UpdaterReceives(m, rest) ==
  /\ \E s \in FreshSequence : UpdaterHandles(m, rest, s)
  /\ UNCHANGED serverVars

\* The part of updater_update that follows the receive loop in every frame.
Frame(c) ==
  /\ \/ \E s \in FreshSequence : Poll(c, s)
     \/ VerifyFailed(c)
     \/ Install(c)
     \/ RequestPiece(c)
  /\ UNCHANGED serverVars

Lose(m) ==
  /\ net' = net \ {m}
  /\ UNCHANGED <<serverVars, updaterVars>>

Tick ==
  /\ Stale \/ net = {}
  /\ ServerTick
  /\ UpdaterTick
  /\ UNCHANGED net

Next ==
  \/ \E m \in net : \E rest \in AfterReceive(m) :
       ServerReceives(m, rest) \/ UpdaterReceives(m, rest)
  \/ \E m \in net : Lose(m)
  \/ \E c \in Client : Frame(c)
  \/ \E c \in Client : Reload(c) /\ UNCHANGED serverVars
  \/ ServerEnvironment /\ UNCHANGED updaterVars
  \/ Tick

Spec == Init /\ [][Next]_vars

\* The clock runs, every meter renders frames, the game reloads an updated
\* meter, and of a datagram that is sent again and again a copy arrives.
Fairness ==
  /\ WF_vars(Tick)
  /\ \A c \in Client :
       /\ WF_vars(Frame(c))
       /\ WF_vars(Reload(c) /\ installed[c] # up[c].current /\ UNCHANGED serverVars)
       /\ \A type \in {"begin_request", "piece_request"} :
            SF_vars(\E m \in InFlight(type, c) : ServerReceives(m, net \ {m}))
       /\ \A type \in {"begin_reply", "piece_reply"} :
            SF_vars(\E m \in InFlight(type, c) : UpdaterReceives(m, net \ {m}))
  /\ \A d \in Dll : WF_vars(PublishSignature(d) /\ UNCHANGED updaterVars)

FairSpec == Spec /\ Fairness
-----------------------------------------------------------------------------
\* The variables keep their types; in particular a user's retry counter never
\* passes MSG_MAX_RETRIES between two messages.
TypeOK ==
  /\ net \subseteq Datagram
  /\ ServerTypeOK
  /\ UpdaterTypeOK

\* Whatever mix of sizes, retries and reductions led to it, a piece the server
\* sends is not empty, fits the data_buffer of the datagram it is copied into,
\* and was copied from inside the build in memory.
PieceFitsDatagram ==
  \A m \in net : m.type = "piece_reply" =>
    /\ m.size \in 1 .. m.room
    /\ m.offset + m.size <= Length(m.bytes)

\* The version the server announces for a build, and compares requests with, is
\* the CRC of the bytes it serves; or a meter_load failed, which it never gets
\* over, and then the build with the other version has no signature: new bytes
\* under the old version are announced, but never with what would install them.
ServedVersionIsCrc ==
  \A d \in Dll :
    \/ dll[d].data # NoVersion /\ dll[d].version = dll[d].data
    \/ locked /\ dll[d].sig = NoVersion

\* Lost, late and duplicated datagrams, builds replaced in the middle of a
\* download, a restarted server: what a meter installs is one whole build that
\* was released for it, never a mixture and never the other kind of build.
InstalledIsRelease ==
  \A c \in Client : installed[c] \in Release[DllOfClient(c)]

\* While a download runs the meter asks for the build it was started with: the
\* bytes it has and the length it expects are those of the version it names.
DownloadIsCoherent ==
  \A c \in Client : up[c].updating =>
    /\ up[c].version # up[c].current
    /\ up[c].bytes \subseteq {up[c].version}
    /\ up[c].size = Length(up[c].version)

\* A meter whose user allows updates ends up with the server's build, even if
\* the path loses datagrams at will and never lets a full-size piece through:
\* the retries make the server fall back to the unfragmented datagram.  Only one
\* size can keep it from that, and does so for ever: FRAG_FLOOR, which
\* msg_client_update_piece neither reduces (> 1023) nor sends in the small
\* datagram (< 1023).
EventuallyUpToDate ==
  \A c \in AutoUpdate :
    \/ <>[](installed[c] = disk[DllOfClient(c)].data)
    \/ []<>(user[c].maxSize = FRAG_FLOOR)

\* A download that was started ends: installed, or given up.
DownloadEnds ==
  \A c \in Client : up[c].updating ~> ~ up[c].updating

\* The server thread never waits for a lock that nobody will release.
ServerResponsive == ~ hung
=============================================================================
