--------------------------- MODULE UpdateNetwork ---------------------------
(***************************************************************************)
(* The datagrams of the self-update protocol (core/message.h) and the UDP  *)
(* path that carries them between the meter and the server.                *)
(*                                                                         *)
(* The path is external code.  It loses datagrams at will, delivers them   *)
(* in any order, and, when Duplicates holds, more than once.  A file is    *)
(* identified with its CRC, which is what the code calls its version: two  *)
(* published files never have the same CRC.                                *)
(***************************************************************************)
EXTENDS Integers, FiniteSets

CONSTANTS
  Client,        \* the meters, one UDP endpoint each
  Version,       \* the CRCs of the meter builds that are ever published
  NoVersion,     \* 0 or NULL where a version is expected
  FileSize,      \* FileSize[v] is the length of build v
  MaxSequence,   \* sequence numbers are drawn from 0 .. MaxSequence
  MaxInFlight,   \* datagrams the path holds; what exceeds it is dropped
  UPDATE_SIZE,   \* MSG_UPDATE_SIZE (8192)
  FRAG_FLOOR,    \* the literal 1023 of msg_client_update_piece
  NO_FRAG,       \* MSG_UPDATE_SIZE_NO_FRAG (548)
  Duplicates,    \* TRUE iff the path may deliver a datagram twice
  Blackhole      \* TRUE iff the path drops every full-size piece datagram

ASSUME NetworkAssumption ==
  /\ NoVersion \notin Version
  /\ FileSize \in [Version -> Nat \ {0}]
  /\ MaxSequence \in Nat
  /\ MaxInFlight \in Nat \ {0}
  /\ UPDATE_SIZE \in Nat /\ FRAG_FLOOR \in Nat /\ NO_FRAG \in Nat \ {0}
  /\ NO_FRAG < FRAG_FLOOR /\ FRAG_FLOOR < UPDATE_SIZE
  /\ Duplicates \in BOOLEAN
  /\ Blackhole \in BOOLEAN

VARIABLE net     \* the datagrams in flight
-----------------------------------------------------------------------------
Sequence == 0 .. MaxSequence

AnyVersion == Version \cup {NoVersion}

\* MsgClientUpdateBeginUTF8: the meter announces its version.
BeginRequest ==
  [type : {"begin_request"}, client : Client, version : AnyVersion, seq : Sequence]

\* MsgClientUpdatePiece: the meter asks for the next bytes of a build.
PieceRequest ==
  [type : {"piece_request"}, client : Client, version : AnyVersion,
   offset : Nat, size : Nat, seq : Sequence]

\* MsgServerUpdateBegin: the server's version, its length and its signature;
\* signed names the build the signature was made for.
BeginReply ==
  [type : {"begin_reply"}, client : Client, version : AnyVersion,
   size : Nat, signed : AnyVersion, seq : Sequence]

\* MsgServerUpdatePiece and MsgServerUpdatePieceNoFrag: bytes names the build
\* the copied bytes come from, room is the capacity of data_buffer.
PieceReply ==
  [type : {"piece_reply"}, client : Client, version : AnyVersion, offset : Nat,
   size : Nat, bytes : Version, room : {UPDATE_SIZE, NO_FRAG}, seq : Sequence]

Datagram == BeginRequest \cup PieceRequest \cup BeginReply \cup PieceReply

\* What may be left in flight once m is received.
AfterReceive(m) == {net \ {m}} \cup (IF Duplicates THEN {net} ELSE {})

\* Datagrams a path with a small MTU lets through.
Passes(m) == Blackhole => ~ (m.type = "piece_reply" /\ m.room = UPDATE_SIZE)

\* rest with the datagrams of sent added, as far as they fit.
Carrying(rest, sent) ==
  LET all == rest \cup {m \in sent : Passes(m)}
  IN  IF Cardinality(all) <= MaxInFlight THEN all ELSE rest

InFlight(type, c) == {m \in net : m.type = type /\ m.client = c}
=============================================================================
