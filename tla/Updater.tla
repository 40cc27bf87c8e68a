------------------------------- MODULE Updater -------------------------------
(***************************************************************************)
(* The meter's side of the self-update protocol (meter/updater.c), and the *)
(* part of meter_present (meter/entry.c) that drives it: every frame first *)
(* receives what has arrived, then runs updater_update.  All of it runs in *)
(* the render thread, so a handler is one step.                            *)
(*                                                                         *)
(* The bytes of the download buffer are abstracted to the set of builds    *)
(* they were copied from: pieces are accepted in order and without gaps,   *)
(* so with the offset this says whether the buffer holds one whole build.  *)
(* The cryptographic primitives are external: a CRC matches only the build *)
(* it was taken of, a signature verifies only the build it was made for.   *)
(***************************************************************************)
EXTENDS UpdateNetwork

CONSTANTS
  POLL_PERIOD,   \* MSG_FREQ_CLIENT_UPDATE_BEGIN (30 s), in ticks
  PIECE_PERIOD,  \* MSG_FREQ_CLIENT_UPDATE_PIECE (0.5 s), in ticks
  Corrupt,       \* an installed file that is no build
  AutoUpdate,    \* the clients with g_state.autoUpdate_disable = 0
  Stale,         \* TRUE iff a datagram may stay in flight longer than a tick
  Reloads        \* TRUE iff the game may restart the meter at any time

ASSUME UpdaterAssumption ==
  /\ POLL_PERIOD \in Nat \ {0}
  /\ PIECE_PERIOD \in Nat \ {0}
  /\ Corrupt \notin Version \cup {NoVersion}
  /\ AutoUpdate \subseteq Client
  /\ Stale \in BOOLEAN
  /\ Reloads \in BOOLEAN

VARIABLES
  up,         \* up[c]: the statics of updater.c in client c
  installed   \* installed[c]: the build in the meter's DLL file

updaterVars == <<up, installed>>
-----------------------------------------------------------------------------
UpdaterState ==
  [updating : BOOLEAN,              \* g_is_updating
   offset : Nat,                    \* g_update_offset
   size : Nat,                      \* g_update_size
   version : AnyVersion,            \* g_update_version
   seq : Sequence,                  \* g_update_sequence
   signed : AnyVersion,             \* g_update_sig
   bytes : SUBSET Version,          \* g_update_data[0 .. offset - 1]
   current : AnyVersion,            \* g_current_version
   pollAge : 0 .. POLL_PERIOD,      \* now - last_check
   pieceAge : 0 .. PIECE_PERIOD]    \* now - last_piece

\* The statics after updater_create of a meter that runs build v.
Started(v) ==
  [updating |-> FALSE, offset |-> 0, size |-> 0, version |-> NoVersion,
   seq |-> 0, signed |-> NoVersion, bytes |-> {}, current |-> v,
   pollAge |-> POLL_PERIOD, pieceAge |-> PIECE_PERIOD]

Smaller(a, b) == IF a <= b THEN a ELSE b
-----------------------------------------------------------------------------
\* IsPing without the test that the announced version already runs.
IsPingButCurrent(c, m) == m.seq # up[c].seq \/ c \notin AutoUpdate

\* The begin reply is taken for a ping: another sequence, the version that is
\* already running, or updates are disabled.
IsPing(c, m) ==
  \/ m.seq # up[c].seq
  \/ m.version = up[c].current
  \/ c \notin AutoUpdate

\* The statics after a begin reply that starts no download: a length of 0 is a
\* reset signal (which this server never sends), of a ping the server's version
\* is stored.
AfterPing(u, m) ==
  IF m.size = 0 THEN [u EXCEPT !.updating = FALSE, !.offset = 0]
                ELSE [u EXCEPT !.version = m.version]

\* updater_handle_msg_begin, no download.
PingReceived(m, rest) ==
  LET c == m.client
  IN  /\ m.type = "begin_reply"
      /\ m.size # 0 => IsPing(c, m)
      /\ up' = [up EXCEPT ![c] = AfterPing(@, m)]
      /\ net' = rest
      /\ UNCHANGED installed

\* updater_handle_msg_begin: a download starts, or starts again.
DownloadStarted(m, rest) ==
  LET c == m.client
  IN  /\ m.type = "begin_reply"
      /\ m.size # 0
      /\ ~ IsPing(c, m)
      /\ up' = [up EXCEPT ![c] =
                  [@ EXCEPT !.updating = TRUE, !.offset = 0, !.size = m.size,
                            !.version = m.version, !.signed = m.signed,
                            !.bytes = {}]]
      /\ net' = rest
      /\ UNCHANGED installed

\* What updater_handle_msg_piece requires of a piece.
Expected(m) ==
  LET u == up[m.client]
  IN  /\ u.updating
      /\ m.seq = u.seq
      /\ m.version = u.version
      /\ m.offset = u.offset
      /\ u.offset + m.size <= u.size

\* updater_handle_msg_piece: the piece is appended, the next one gets a new
\* sequence number s.
PieceAccepted(m, rest, s) ==
  LET c == m.client
      u == up[c]
  IN  /\ m.type = "piece_reply"
      /\ Expected(m)
      /\ up' = [up EXCEPT ![c] =
                  [u EXCEPT !.offset = u.offset + m.size, !.seq = s,
                            !.bytes = u.bytes \cup {m.bytes}]]
      /\ net' = rest
      /\ UNCHANGED installed

PieceIgnored(m, rest) ==
  /\ m.type = "piece_reply"
  /\ ~ Expected(m)
  /\ net' = rest
  /\ UNCHANGED updaterVars

UpdaterHandles(m, rest, s) ==
  \/ PingReceived(m, rest) \/ DownloadStarted(m, rest)
  \/ PieceAccepted(m, rest, s) \/ PieceIgnored(m, rest)
-----------------------------------------------------------------------------
\* updater_update, no download: ask the server for its version, under the new
\* sequence number s.
Poll(c, s) ==
  /\ ~ up[c].updating
  /\ up[c].pollAge = POLL_PERIOD
  /\ up' = [up EXCEPT ![c] = [@ EXCEPT !.pollAge = 0, !.seq = s]]
  /\ net' = Carrying(net, {[type |-> "begin_request", client |-> c,
                            version |-> up[c].current, seq |-> s]})
  /\ UNCHANGED installed

Complete(c) == up[c].updating /\ up[c].size > 0 /\ up[c].offset = up[c].size

\* What the buffer holds, once complete.
Downloaded(c) ==
  IF \E v \in Version : up[c].bytes = {v} /\ up[c].size = FileSize[v]
  THEN CHOOSE v \in Version : up[c].bytes = {v}
  ELSE Corrupt

\* Verified when only the length is looked at.
VerifiedLength(c) == up[c].offset = up[c].size

\* The CRC is the announced version and the signature is of these bytes.
Verified(c) == Downloaded(c) = up[c].version /\ Downloaded(c) = up[c].signed

\* updater_update, verification fails: the download is given up.
VerifyFailed(c) ==
  /\ Complete(c)
  /\ ~ Verified(c)
  /\ up' = [up EXCEPT ![c] = [@ EXCEPT !.updating = FALSE, !.offset = 0]]
  /\ UNCHANGED <<net, installed>>

\* updater_update writes the DLL and meter_present saves its version in the
\* configuration.  A failed write is tried again in the next frame.
Install(c) ==
  /\ Complete(c)
  /\ Verified(c)
  /\ installed' = [installed EXCEPT ![c] = Downloaded(c)]
  /\ up' = [up EXCEPT ![c] = [@ EXCEPT !.updating = FALSE, !.offset = 0]]
  /\ UNCHANGED net

\* updater_update, download under way: ask for the next piece.
RequestPiece(c) ==
  /\ up[c].updating
  /\ ~ Complete(c)
  /\ up[c].pieceAge = PIECE_PERIOD
  /\ up' = [up EXCEPT ![c].pieceAge = 0]
  /\ net' = Carrying(net, {[type |-> "piece_request", client |-> c,
                            version |-> up[c].version, offset |-> up[c].offset,
                            size |-> Smaller(up[c].size - up[c].offset, UPDATE_SIZE),
                            seq |-> up[c].seq]})
  /\ UNCHANGED installed

\* updater_create takes the CRC of the installed DLL, unless it cannot read it.
CurrentVersion(c) == {installed[c]} \cup (IF Reloads THEN {NoVersion} ELSE {})

\* The game starts the meter again: at any time, or because updater_update
\* reported an update.
Reload(c) ==
  /\ Reloads \/ installed[c] # up[c].current
  /\ \E v \in CurrentVersion(c) : up' = [up EXCEPT ![c] = Started(v)]
  /\ UNCHANGED <<net, installed>>

UpdaterTick ==
  /\ up' = [c \in Client |->
              [up[c] EXCEPT !.pollAge = Smaller(@ + 1, POLL_PERIOD),
                            !.pieceAge = Smaller(@ + 1, PIECE_PERIOD)]]
  /\ UNCHANGED installed
-----------------------------------------------------------------------------
UpdaterTypeOK ==
  /\ up \in [Client -> UpdaterState]
  /\ installed \in [Client -> AnyVersion \cup {Corrupt}]
=============================================================================
