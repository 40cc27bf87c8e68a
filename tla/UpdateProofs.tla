--------------------------- MODULE UpdateProofs ---------------------------
(***************************************************************************)
(* What holds of the self-update protocol for every number of meters,      *)
(* every set of builds and every behaviour of the path between them.       *)
(***************************************************************************)
EXTENDS UpdateProtocol, TLAPS

-----------------------------------------------------------------------------
\* A datagram is received from those in flight.
LEMMA Received ==
  ASSUME NEW m, NEW rest \in AfterReceive(m)
  PROVE  rest \subseteq net
BY DEF AfterReceive

\* Sending adds nothing to the path but what is sent.
LEMMA Sent ==
  ASSUME NEW rest, NEW x
  PROVE  Carrying(rest, {x}) \subseteq rest \cup {x}
BY DEF Carrying

LEMMA SentType ==
  ASSUME NEW S, NEW rest \in SUBSET S, NEW x \in S
  PROVE  Carrying(rest, {x}) \subseteq S
BY DEF Carrying

\* The two minima are minima.
LEMMA Minimum ==
  ASSUME NEW a \in Nat, NEW b \in Nat
  PROVE  /\ AtMost(a, b) \in Nat /\ AtMost(a, b) <= a /\ AtMost(a, b) <= b
         /\ Smaller(a, b) \in Nat /\ Smaller(a, b) <= a /\ Smaller(a, b) <= b
         /\ AtMost(a, b) \in {a, b}
BY DEF AtMost, Smaller

\* An age that saturates stays in its range.
LEMMA Saturates ==
  ASSUME NEW p \in Nat \ {0}, NEW a \in 0 .. p
  PROVE  /\ AtMost(a + 1, p) \in 0 .. p
         /\ Smaller(a + 1, p) \in 0 .. p
BY DEF AtMost, Smaller

\* A build in memory has the length of a published build, or none.
LEMMA LengthType ==
  ASSUME NEW v \in AnyVersion
  PROVE  /\ Length(v) \in Nat
         /\ Length(v) > 0 => v \in Version
BY NetworkAssumption DEF Length, AnyVersion
-----------------------------------------------------------------------------
\* The record a new user gets is a user record.
LEMMA NewUserType == NewUser \in UserRecord
BY NetworkAssumption, ServerAssumption DEF NewUser, UserRecord, Sequence

\* meter_load leaves both builds well formed, wherever it stops.
LEMMA LoadedType ==
  ASSUME NEW from \in [Dll -> UpdateData], disk \in [Dll -> DiskFiles]
  PROVE  Loaded(from) \in [Dll -> UpdateData]
<1> SUFFICES ASSUME NEW d \in Dll
             PROVE  /\ ReadUpdate(Freed(from[d]), d) \in UpdateData
                    /\ Freed(from[d]) \in UpdateData
  BY DEF Loaded
<1>1. Freed(from[d]) \in UpdateData
  BY DEF Freed, UpdateData, AnyVersion
<1>2. ReadUpdate(Freed(from[d]), d) \in UpdateData
  BY <1>1 DEF ReadUpdate, UpdateData, DiskFiles
<1> QED
  BY <1>1, <1>2

\* So does the check of the file time that precedes it.
LEMMA AfterCheckType ==
  ASSUME NEW d \in Dll, dll \in [Dll -> UpdateData], disk \in [Dll -> DiskFiles]
  PROVE  AfterCheck(d) \in [Dll -> UpdateData]
<1> DEFINE new == [dll[d] EXCEPT !.age = 0, !.time = disk[d].data]
<1>1. 0 \in 0 .. METER_PERIOD
  BY ServerAssumption
<1>2. new \in UpdateData
  BY <1>1 DEF UpdateData, DiskFiles
<1>3. Checked(d) \in {dll, [dll EXCEPT ![d] = new]}
  BY DEF Checked
<1> HIDE DEF new
<1> QED
  BY <1>2, <1>3 DEF AfterCheck

\* Both in one: what a begin request leaves of the builds in memory.
LEMMA LoadStepType ==
  ASSUME NEW d \in Dll, dll \in [Dll -> UpdateData], disk \in [Dll -> DiskFiles],
         locked \in BOOLEAN, hung \in BOOLEAN,
         Kept(d) \/ Reloaded(d) \/ LoadFailed(d) \/ LoadBlocked(d)
  PROVE  /\ dll' \in [Dll -> UpdateData]
         /\ locked' \in BOOLEAN
         /\ hung' \in BOOLEAN
BY AfterCheckType, LoadedType DEF Kept, Reloaded, LoadFailed, LoadBlocked

-----------------------------------------------------------------------------
\* The fields of a datagram, by its type.
LEMMA DatagramFields ==
  ASSUME NEW m \in Datagram
  PROVE  /\ m.client \in Client
         /\ m.seq \in Sequence
         /\ m.version \in AnyVersion
         /\ m.type \in {"begin_request", "piece_request", "begin_reply", "piece_reply"}
         /\ m.type = "piece_request" => m.offset \in Nat /\ m.size \in Nat
         /\ m.type = "begin_reply" => m.size \in Nat /\ m.signed \in AnyVersion
         /\ m.type = "piece_reply" =>
              /\ m.offset \in Nat /\ m.size \in Nat
              /\ m.bytes \in Version /\ m.room \in {UPDATE_SIZE, NO_FRAG}
BY DEF Datagram, BeginRequest, PieceRequest, BeginReply, PieceReply

\* Zero is a retry count and an age.
LEMMA Zeroes == 0 \in 0 .. MAX_RETRIES /\ 0 \in 0 .. BEGIN_PERIOD /\ BEGIN_PERIOD \in Nat
BY ServerAssumption

\* The record a begin request leaves of its user.
LEMMA BegunType ==
  ASSUME TypeOK, NEW m \in net, BeginAdmitted(m)
  PROVE  user' \in [Client -> UserRecord]
<1>1. m.client \in Client /\ m.seq \in Sequence
  BY DatagramFields DEF TypeOK
<1>2. Greeted(m) \in UserRecord
  BY <1>1 DEF Greeted, VerStr, TypeOK, ServerTypeOK, UserRecord
<1>3. [Greeted(m) EXCEPT !.retry = 0, !.seq = m.seq, !.age = 0] \in UserRecord
  BY <1>1, <1>2, Zeroes DEF UserRecord
<1> QED
  BY <1>1, <1>3 DEF BeginAdmitted, TypeOK, ServerTypeOK

\* A user record in the middle of msg_client_update_piece.
CountedRecord ==
  [retry : Nat, maxSize : Nat, seq : Sequence, age : 0 .. BEGIN_PERIOD,
   ver : {"none", "TOS", "NonTOS"}]

\* Counting a request keeps the record well formed but for the retry counter,
\* which may be one too high.
LEMMA CountedType ==
  ASSUME TypeOK, NEW m \in net, m.type = "piece_request"
  PROVE  /\ Counted(m) \in CountedRecord
         /\ Counted(m).ver = user[m.client].ver
         /\ Counted(m).retry <= MAX_RETRIES => Counted(m) \in UserRecord
<1>1. m.client \in Client /\ m.seq \in Sequence /\ m.size \in Nat
  BY DatagramFields DEF TypeOK
<1>2. user[m.client] \in UserRecord
  BY <1>1 DEF TypeOK, ServerTypeOK
<1>3. MAX_RETRIES \in Nat
  BY ServerAssumption
<1>4. PICK z \in Nat, r \in Nat :
        Counted(m) = [user[m.client] EXCEPT !.maxSize = z, !.retry = r, !.seq = m.seq]
  <2>1. user[m.client].retry \in Nat /\ user[m.client].maxSize \in Nat
    BY <1>2, <1>3 DEF UserRecord
  <2>2. (IF user[m.client].maxSize = 0 THEN m.size ELSE user[m.client].maxSize) \in Nat
    BY <2>1, <1>1
  <2>3. (IF user[m.client].seq = m.seq THEN user[m.client].retry + 1 ELSE 0) \in Nat
    BY <2>1
  <2> QED
    BY <2>2, <2>3 DEF Counted
<1>5. user[m.client] \in CountedRecord
  BY <1>2, <1>3 DEF UserRecord, CountedRecord
<1>6. Counted(m) \in CountedRecord
  BY <1>1, <1>4, <1>5 DEF CountedRecord
<1>7. Counted(m).ver = user[m.client].ver /\ Counted(m).retry = r
  BY <1>2, <1>4 DEF UserRecord
<1>8. ASSUME Counted(m).retry <= MAX_RETRIES
      PROVE  Counted(m) \in UserRecord
  <2>1. r \in 0 .. MAX_RETRIES
    BY <1>3, <1>7, <1>8
  <2> QED
    BY <1>1, <1>2, <1>4, <2>1 DEF UserRecord
<1> QED
  BY <1>6, <1>7, <1>8

\* So does settling on a size.
LEMMA SettledType ==
  ASSUME NEW u \in UserRecord
  PROVE  Settled(u) \in UserRecord
BY NetworkAssumption DEF Settled, UserRecord

LEMMA SettledVer ==
  ASSUME NEW u \in UserRecord
  PROVE  Settled(u).ver = u.ver
BY DEF Settled, UserRecord

\* And halving the size, with the counter cleared.
LEMMA HalvedType ==
  ASSUME TypeOK, NEW m \in net, m.type = "piece_request"
  PROVE  LET h == [Counted(m) EXCEPT !.maxSize = @ \div 2, !.retry = 0]
         IN  h \in UserRecord /\ h.ver = user[m.client].ver
<1>1. Counted(m) \in CountedRecord /\ Counted(m).ver = user[m.client].ver
  BY CountedType
<1>2. Counted(m).maxSize \div 2 \in Nat
  BY <1>1 DEF CountedRecord
<1> QED
  BY <1>1, <1>2, Zeroes DEF CountedRecord, UserRecord

\* What a piece is answered with.
LEMMA PieceAnswerType ==
  ASSUME TypeOK, NEW m \in net, m.type = "piece_request", ~ BadPiece(m),
         NEW u \in UserRecord, u.ver = user[m.client].ver
  PROVE  PieceAnswer(m, u) \in PieceReply
<1> DEFINE b == dll[DllOf(u)].data
<1>1. /\ m.client \in Client /\ m.seq \in Sequence /\ m.version \in AnyVersion
      /\ m.size \in Nat /\ m.offset \in Nat
  BY DatagramFields DEF TypeOK
<1>2. b \in AnyVersion
  <2>1. DllOf(u) \in Dll
    BY DEF DllOf, Dll
  <2> QED
    BY <2>1 DEF TypeOK, ServerTypeOK, UpdateData
<1>3. m.size >= 1 /\ m.offset + m.size <= Length(b)
  BY <1>1, <1>2, LengthType DEF BadPiece, DllOf
<1>4. b \in Version
  BY <1>1, <1>2, <1>3, LengthType
<1>5. AtMost(u.maxSize, m.size) \in Nat
  BY <1>1, Minimum DEF UserRecord
<1> QED
  BY <1>1, <1>4, <1>5 DEF PieceAnswer, PieceReply

\* What a begin request is answered with.
LEMMA BeginAnswerType ==
  ASSUME TypeOK, NEW m \in net, NEW u \in UpdateData
  PROVE  BeginAnswer(m, u) \in BeginReply
BY DatagramFields, LengthType DEF BeginAnswer, BeginReply, TypeOK, UpdateData
-----------------------------------------------------------------------------
\* A handler of the server keeps the types.
LEMMA ServerReceivesType ==
  ASSUME TypeOK, NEW m \in net, NEW rest \in SUBSET net, ServerReceives(m, rest)
  PROVE  TypeOK'
<1> USE DEF ServerTypeOK
<1>1. UpdaterTypeOK'
  BY DEF TypeOK, UpdaterTypeOK, ServerReceives, updaterVars
<1>2. m.client \in Client
  BY DatagramFields DEF TypeOK
<1>3. rest \subseteq Datagram
  BY DEF TypeOK
<1>4. CASE BeginRefused(m, rest)
  <2>1. Greeted(m) \in UserRecord
    BY <1>2 DEF Greeted, VerStr, TypeOK, UserRecord
  <2> QED
    BY <1>1, <1>2, <1>3, <1>4, <2>1 DEF BeginRefused, TypeOK
<1>5. CASE BeginServed(m, rest)
  <2> DEFINE d == DllOf(Greeted(m))
  <2>1. d \in Dll
    BY DEF DllOf, Dll
  <2>2. user' \in [Client -> UserRecord] /\ UNCHANGED <<disk, published>>
    BY <1>5, BegunType DEF BeginServed, BeginAdmitted
  <2>3. dll' \in [Dll -> UpdateData] /\ locked' \in BOOLEAN /\ hung' \in BOOLEAN
    BY <1>5, <2>1, LoadStepType DEF BeginServed, TypeOK
  <2>4. BeginAnswer(m, dll'[d]) \in Datagram
    BY <2>1, <2>3, BeginAnswerType DEF Datagram
  <2>5. net' = Carrying(rest, {BeginAnswer(m, dll'[d])})
    BY <1>5 DEF BeginServed
  <2>6. net' \subseteq Datagram
    BY <1>3, <2>4, <2>5, SentType
  <2> QED
    BY <1>1, <2>2, <2>3, <2>6 DEF TypeOK
<1>6. CASE BeginUnserved(m, rest)
  <2> DEFINE d == DllOf(Greeted(m))
  <2>1. d \in Dll
    BY DEF DllOf, Dll
  <2>2. user' \in [Client -> UserRecord] /\ UNCHANGED <<disk, published>>
    BY <1>6, BegunType DEF BeginUnserved, BeginAdmitted
  <2>3. dll' \in [Dll -> UpdateData] /\ locked' \in BOOLEAN /\ hung' \in BOOLEAN
    BY <1>6, <2>1, LoadStepType DEF BeginUnserved, TypeOK
  <2> QED
    BY <1>1, <1>3, <1>6, <2>2, <2>3 DEF BeginUnserved, TypeOK
<1>7. CASE PieceDropped(m, rest)
  BY <1>1, <1>3, <1>7 DEF PieceDropped, PieceReceived, TypeOK
<1>8. CASE PieceServed(m, rest)
  <2> DEFINE u == Settled(Counted(m))
  <2>1. Counted(m) \in UserRecord /\ Counted(m).ver = user[m.client].ver
    BY <1>8, CountedType DEF PieceServed, PieceReceived
  <2>2. u \in UserRecord /\ u.ver = user[m.client].ver
    BY <2>1, SettledType, SettledVer
  <2>3. PieceAnswer(m, u) \in Datagram
    BY <1>8, <2>2, PieceAnswerType DEF PieceServed, PieceReceived, Datagram
  <2>4. net' = Carrying(rest, {PieceAnswer(m, u)})
    BY <1>8 DEF PieceServed
  <2>5. net' \subseteq Datagram
    BY <1>3, <2>3, <2>4, SentType
  <2> QED
    BY <1>1, <1>2, <1>8, <2>2, <2>5 DEF PieceServed, PieceReceived, TypeOK
<1>9. CASE PieceReduced(m, rest)
  <2> DEFINE h == [Counted(m) EXCEPT !.maxSize = @ \div 2, !.retry = 0]
             u == Settled(h)
  <2>1. h \in UserRecord /\ h.ver = user[m.client].ver
    BY <1>9, HalvedType DEF PieceReduced, PieceReceived
  <2>2. u \in UserRecord /\ u.ver = user[m.client].ver
    BY <2>1, SettledType, SettledVer
  <2>3. PieceAnswer(m, u) \in Datagram
    BY <1>9, <2>2, PieceAnswerType DEF PieceReduced, PieceReceived, Datagram
  <2>4. net' = Carrying(rest, {PieceAnswer(m, u)})
    BY <1>9 DEF PieceReduced
  <2>5. net' \subseteq Datagram
    BY <1>3, <2>3, <2>4, SentType
  <2> QED
    BY <1>1, <1>2, <1>9, <2>2, <2>5 DEF PieceReduced, PieceReceived, TypeOK
<1>10. CASE PieceReset(m, rest)
  <2>1. [Counted(m) EXCEPT !.retry = 0, !.maxSize = 0] \in UserRecord
    BY <1>10, CountedType, Zeroes DEF PieceReset, PieceReceived, UserRecord, CountedRecord
  <2> QED
    BY <1>1, <1>2, <1>3, <1>10, <2>1 DEF PieceReset, PieceReceived, TypeOK
<1> QED
  BY <1>4, <1>5, <1>6, <1>7, <1>8, <1>9, <1>10 DEF ServerReceives, ServerHandles
-----------------------------------------------------------------------------
\* The meter never has more bytes than it has room for: what it asks for next
\* is never a negative length.  TypeOK is inductive only together with this.
OffsetInSize == \A c \in Client : up[c].offset <= up[c].size

TypeInv == TypeOK /\ OffsetInSize

\* The numbers that are drawn are sequence numbers.
LEMMA FreshIsSequence == FreshSequence \subseteq Sequence
BY DEF FreshSequence

\* A handler of the meter keeps the types.
LEMMA UpdaterReceivesType ==
  ASSUME TypeInv, NEW m \in net, NEW rest \in SUBSET net, UpdaterReceives(m, rest)
  PROVE  TypeInv'
<1> DEFINE c == m.client
           u == up[c]
<1> USE DEF UpdaterTypeOK
<1>1. c \in Client /\ m \in Datagram /\ rest \subseteq Datagram
  BY DatagramFields DEF TypeInv, TypeOK
<1>2. u \in UpdaterState /\ u.offset <= u.size
  BY <1>1 DEF TypeInv, TypeOK, OffsetInSize
<1>3. ServerTypeOK'
  BY DEF TypeInv, TypeOK, ServerTypeOK, UpdaterReceives, serverVars
<1>4. PICK s \in Sequence : UpdaterHandles(m, rest, s)
  BY FreshIsSequence DEF UpdaterReceives
<1>5. net' = rest /\ UNCHANGED installed
  BY <1>4 DEF UpdaterHandles, PingReceived, DownloadStarted, PieceAccepted, PieceIgnored, updaterVars
<1>6. SUFFICES /\ up' \in [Client -> UpdaterState]
               /\ OffsetInSize'
  BY <1>1, <1>3, <1>5 DEF TypeInv, TypeOK
<1>7. CASE PingReceived(m, rest)
  <2>1. m.version \in AnyVersion
    BY <1>1, DatagramFields
  <2>2. AfterPing(u, m) \in UpdaterState /\ AfterPing(u, m).offset <= AfterPing(u, m).size
    <3> DEFINE n == [u EXCEPT !.updating = FALSE, !.offset = 0]
               k == [u EXCEPT !.version = m.version]
    <3>1. n \in UpdaterState /\ n.offset = 0 /\ n.size = u.size /\ u.size \in Nat
      BY <1>2 DEF UpdaterState
    <3>2. n.offset <= n.size
      BY <3>1
    <3>3. k \in UpdaterState /\ k.offset = u.offset /\ k.size = u.size
      BY <1>2, <2>1 DEF UpdaterState
    <3>4. k.offset <= k.size
      BY <1>2, <3>3
    <3>5. AfterPing(u, m) \in {n, k}
      BY DEF AfterPing
    <3> HIDE DEF n, k
    <3> QED
      BY <3>1, <3>2, <3>3, <3>4, <3>5
  <2>3. up' = [up EXCEPT ![c] = AfterPing(u, m)]
    BY <1>7 DEF PingReceived
  <2> QED
    BY <1>1, <2>2, <2>3 DEF TypeInv, TypeOK, OffsetInSize
<1>8. CASE DownloadStarted(m, rest)
  <2> DEFINE n == [u EXCEPT !.updating = TRUE, !.offset = 0, !.size = m.size,
                            !.version = m.version, !.signed = m.signed, !.bytes = {}]
  <2>1. m.version \in AnyVersion /\ m.size \in Nat /\ m.signed \in AnyVersion
    BY <1>1, <1>8, DatagramFields DEF DownloadStarted
  <2>2. n \in UpdaterState
    BY <1>2, <2>1 DEF UpdaterState
  <2>3. n.offset = 0 /\ n.size = m.size
    BY <1>2 DEF UpdaterState
  <2>4. up' = [up EXCEPT ![c] = n]
    BY <1>8 DEF DownloadStarted
  <2> HIDE DEF n
  <2> QED
    BY <1>1, <2>1, <2>2, <2>3, <2>4 DEF TypeInv, TypeOK, OffsetInSize
<1>9. CASE PieceAccepted(m, rest, s)
  <2> DEFINE n == [u EXCEPT !.offset = u.offset + m.size, !.seq = s,
                            !.bytes = u.bytes \cup {m.bytes}]
  <2>1. m.size \in Nat /\ m.bytes \in Version
    BY <1>1, <1>9, DatagramFields DEF PieceAccepted
  <2>2. u.offset + m.size <= u.size
    BY <1>9 DEF PieceAccepted, Expected
  <2>3. u.offset + m.size \in Nat /\ u.bytes \cup {m.bytes} \in SUBSET Version
    BY <1>2, <2>1 DEF UpdaterState
  <2>4. n \in UpdaterState
    BY <1>2, <2>3 DEF UpdaterState
  <2>5. n.offset = u.offset + m.size /\ n.size = u.size
    BY <1>2 DEF UpdaterState
  <2>6. up' = [up EXCEPT ![c] = n]
    BY <1>9 DEF PieceAccepted
  <2> HIDE DEF n
  <2> QED
    BY <1>1, <2>2, <2>4, <2>5, <2>6 DEF TypeInv, TypeOK, OffsetInSize
<1>10. CASE PieceIgnored(m, rest)
  BY <1>10 DEF PieceIgnored, updaterVars, TypeInv, TypeOK, OffsetInSize
<1> QED
  BY <1>4, <1>7, <1>8, <1>9, <1>10 DEF UpdaterHandles

\* A frame of the meter keeps the types.
LEMMA FrameType ==
  ASSUME TypeInv, NEW c \in Client, Frame(c)
  PROVE  TypeInv'
<1> DEFINE u == up[c]
<1> USE DEF UpdaterTypeOK
<1>1. u \in UpdaterState /\ u.offset <= u.size /\ net \subseteq Datagram
  BY DEF TypeInv, TypeOK, OffsetInSize
<1>2. ServerTypeOK'
  BY DEF TypeInv, TypeOK, ServerTypeOK, Frame, serverVars
<1> DEFINE TypesOfMeter == /\ net' \subseteq Datagram
                   /\ up' \in [Client -> UpdaterState]
                   /\ OffsetInSize'
                   /\ installed' \in [Client -> AnyVersion \cup {Corrupt}]
<1>3. SUFFICES TypesOfMeter
  BY <1>2 DEF TypeInv, TypeOK
<1>4. ASSUME NEW s \in FreshSequence, Poll(c, s)
      PROVE  TypesOfMeter
  <2> DEFINE n == [u EXCEPT !.pollAge = 0, !.seq = s]
             x == [type |-> "begin_request", client |-> c, version |-> u.current, seq |-> s]
  <2>1. s \in Sequence /\ 0 \in 0 .. POLL_PERIOD
    BY FreshIsSequence, UpdaterAssumption
  <2>2. n \in UpdaterState /\ n.offset <= n.size
    BY <1>1, <2>1 DEF UpdaterState
  <2>3. x \in Datagram
    BY <1>1, <2>1 DEF UpdaterState, Datagram, BeginRequest
  <2>4. net' = Carrying(net, {x}) /\ up' = [up EXCEPT ![c] = n] /\ UNCHANGED installed
    BY <1>4 DEF Poll
  <2> HIDE DEF n, x
  <2>5. net' \subseteq Datagram
    BY <1>1, <2>3, <2>4, SentType
  <2> QED
    BY <2>2, <2>4, <2>5 DEF TypeInv, TypeOK, OffsetInSize
<1>5. ASSUME VerifyFailed(c) \/ Install(c)
      PROVE  TypesOfMeter
  <2> DEFINE n == [u EXCEPT !.updating = FALSE, !.offset = 0]
  <2>1. n \in UpdaterState
    BY <1>1 DEF UpdaterState
  <2>2. n.offset = 0 /\ n.size = u.size /\ u.size \in Nat
    BY <1>1 DEF UpdaterState
  <2>3. Downloaded(c) \in AnyVersion \cup {Corrupt}
    BY DEF Downloaded, AnyVersion
  <2>4. up' = [up EXCEPT ![c] = n] /\ net' = net
    BY <1>5 DEF VerifyFailed, Install
  <2>5. installed' \in [Client -> AnyVersion \cup {Corrupt}]
    BY <1>5, <2>3 DEF VerifyFailed, Install, TypeInv, TypeOK
  <2>6. n.offset <= n.size
    BY <2>2
  <2> HIDE DEF n
  <2>7. up' \in [Client -> UpdaterState]
    BY <2>1, <2>4 DEF TypeInv, TypeOK
  <2>8. OffsetInSize'
    BY <2>4, <2>6 DEF TypeInv, TypeOK, OffsetInSize
  <2> QED
    BY <1>1, <2>4, <2>5, <2>7, <2>8
<1>6. ASSUME RequestPiece(c)
      PROVE  TypesOfMeter
  <2> DEFINE n == [u EXCEPT !.pieceAge = 0]
             z == Smaller(u.size - u.offset, UPDATE_SIZE)
             x == [type |-> "piece_request", client |-> c, version |-> u.version,
                   offset |-> u.offset, size |-> z, seq |-> u.seq]
  <2>1. n \in UpdaterState /\ n.offset <= n.size
    <3>1. 0 \in 0 .. PIECE_PERIOD
      BY UpdaterAssumption
    <3> QED
      BY <1>1, <3>1 DEF UpdaterState
  <2>2. z \in Nat
    BY <1>1, NetworkAssumption DEF UpdaterState, Smaller
  <2>3. x \in Datagram
    <3> HIDE DEF z
    <3> QED
      BY <1>1, <2>2 DEF UpdaterState, Datagram, PieceRequest
  <2>4. net' = Carrying(net, {x}) /\ up' = [up EXCEPT ![c] = n] /\ UNCHANGED installed
    BY <1>6 DEF RequestPiece
  <2> HIDE DEF n, x
  <2>5. net' \subseteq Datagram
    BY <1>1, <2>3, <2>4, SentType
  <2> QED
    BY <2>1, <2>4, <2>5 DEF TypeInv, TypeOK, OffsetInSize
<1> QED
  BY <1>4, <1>5, <1>6 DEF Frame

\* The statics of a meter that was just started.
LEMMA StartedType ==
  ASSUME NEW v \in AnyVersion
  PROVE  /\ Started(v) \in UpdaterState
         /\ Started(v).offset = 0 /\ Started(v).size = 0
         /\ Started(v).version = NoVersion
BY NetworkAssumption, UpdaterAssumption DEF Started, UpdaterState, AnyVersion, Sequence

\* A restart of the meter keeps the types, also over a corrupt file.
LEMMA ReloadType ==
  ASSUME TypeInv, NEW c \in Client, Reload(c), UNCHANGED serverVars,
         installed[c] # Corrupt
  PROVE  TypeInv'
<1>1. CurrentVersion(c) \subseteq AnyVersion
  BY DEF CurrentVersion, TypeInv, TypeOK, UpdaterTypeOK, AnyVersion
<1>2. PICK v \in AnyVersion : up' = [up EXCEPT ![c] = Started(v)]
  BY <1>1 DEF Reload
<1>3. up' \in [Client -> UpdaterState] /\ OffsetInSize'
  BY <1>2, StartedType DEF TypeInv, TypeOK, UpdaterTypeOK, OffsetInSize
<1>4. net' = net /\ installed' = installed
  BY DEF Reload
<1> QED
  BY <1>3, <1>4 DEF TypeInv, TypeOK, UpdaterTypeOK, ServerTypeOK, serverVars

\* What happens to the server's files, its process and its cache keeps the types.
LEMMA EnvironmentType ==
  ASSUME TypeInv, ServerEnvironment, UNCHANGED updaterVars
  PROVE  TypeInv'
<1> USE DEF ServerTypeOK
<1>1. UpdaterTypeOK' /\ OffsetInSize'
  BY DEF TypeInv, TypeOK, UpdaterTypeOK, OffsetInSize, updaterVars
<1>2. SUFFICES net' \subseteq Datagram /\ ServerTypeOK'
  BY <1>1 DEF TypeInv, TypeOK
<1>3. ASSUME NEW d \in Dll, NEW v \in Version, PublishBuild(d, v)
      PROVE  net' \subseteq Datagram /\ ServerTypeOK'
  BY <1>3 DEF PublishBuild, TypeInv, TypeOK, DiskFiles, AnyVersion
<1>4. ASSUME NEW d \in Dll, PublishSignature(d)
      PROVE  net' \subseteq Datagram /\ ServerTypeOK'
  BY <1>4 DEF PublishSignature, TypeInv, TypeOK, DiskFiles
<1>5. ASSUME NEW d \in Dll, Unpublish(d)
      PROVE  net' \subseteq Datagram /\ ServerTypeOK'
  BY <1>5 DEF Unpublish, TypeInv, TypeOK, DiskFiles, AnyVersion
<1>6. ASSUME NEW d \in Dll, OtherBegin(d)
      PROVE  net' \subseteq Datagram /\ ServerTypeOK'
  BY <1>6, LoadStepType DEF OtherBegin, TypeInv, TypeOK
<1>7. CASE Restart
  <2>1. METER_PERIOD \in 0 .. METER_PERIOD
    BY ServerAssumption
  <2> QED
    BY <1>7, <2>1, NewUserType DEF Restart, TypeInv, TypeOK, DiskFiles, UpdateData
<1>8. ASSUME NEW c \in Client, Evict(c)
      PROVE  net' \subseteq Datagram /\ ServerTypeOK'
  BY <1>8, NewUserType DEF Evict, TypeInv, TypeOK
<1> QED
  BY <1>3, <1>4, <1>5, <1>6, <1>7, <1>8 DEF ServerEnvironment

\* The clock keeps the types.
LEMMA TickType ==
  ASSUME TypeInv, Tick
  PROVE  TypeInv'
<1>1. \A c \in Client : user[c] \in UserRecord
  BY DEF TypeInv, TypeOK, ServerTypeOK
<1>2. \A c \in Client : AtMost(user[c].age + 1, BEGIN_PERIOD) \in 0 .. BEGIN_PERIOD
  BY <1>1, Saturates, ServerAssumption DEF UserRecord
<1>3. user' \in [Client -> UserRecord]
  BY <1>1, <1>2 DEF Tick, ServerTick, UserRecord
<1>4. \A d \in Dll : dll[d] \in UpdateData
  BY DEF TypeInv, TypeOK, ServerTypeOK
<1>5. \A d \in Dll : AtMost(dll[d].age + 1, METER_PERIOD) \in 0 .. METER_PERIOD
  BY <1>4, Saturates, ServerAssumption DEF UpdateData
<1>6. dll' \in [Dll -> UpdateData]
  BY <1>4, <1>5 DEF Tick, ServerTick, UpdateData
<1>7. \A c \in Client : up[c] \in UpdaterState /\ up[c].offset <= up[c].size
  BY DEF TypeInv, TypeOK, UpdaterTypeOK, OffsetInSize
<1>8. \A c \in Client : /\ Smaller(up[c].pollAge + 1, POLL_PERIOD) \in 0 .. POLL_PERIOD
                        /\ Smaller(up[c].pieceAge + 1, PIECE_PERIOD) \in 0 .. PIECE_PERIOD
  BY <1>7, Saturates, UpdaterAssumption DEF UpdaterState
<1>9. \A c \in Client : /\ up'[c] \in UpdaterState
                        /\ up'[c].offset = up[c].offset /\ up'[c].size = up[c].size
  BY <1>7, <1>8 DEF Tick, UpdaterTick, UpdaterState
<1>10. up' \in [Client -> UpdaterState] /\ OffsetInSize'
  BY <1>7, <1>9 DEF Tick, UpdaterTick, OffsetInSize
<1> QED
  BY <1>3, <1>6, <1>10 DEF Tick, ServerTick, UpdaterTick, TypeInv, TypeOK, ServerTypeOK, UpdaterTypeOK
-----------------------------------------------------------------------------
\* Versions that a client whose builds are at d may be told of.
Genuine(d) == Release[d] \cup {NoVersion}

\* Every version the protocol carries towards a client is that of a build
\* released for it; what else it carries, the bytes above all, may be anything.
ReleaseInv ==
  /\ \A d \in Dll : disk[d].data \in Genuine(d) /\ dll[d].version \in Genuine(d)
  /\ \A m \in net : m.type = "begin_reply" => m.version \in Genuine(DllOfClient(m.client))
  /\ \A c \in Client : up[c].version \in Genuine(DllOfClient(c))
  /\ InstalledIsRelease

Inv == TypeInv /\ ReleaseInv

\* No released build is a corrupt file.
LEMMA ReleaseIsVersion ==
  ASSUME NEW d \in Dll
  PROVE  Release[d] \subseteq Version /\ Corrupt \notin Release[d]
BY ServerAssumption, UpdaterAssumption

\* Loading never gives a build the version of another.
LEMMA LoadStepRelease ==
  ASSUME TypeOK, ReleaseInv, NEW d \in Dll,
         Kept(d) \/ Reloaded(d) \/ LoadFailed(d) \/ LoadBlocked(d)
  PROVE  \A e \in Dll : dll'[e].version \in Genuine(e)
<1>1. \A e \in Dll : AfterCheck(d)[e].version = dll[e].version
  BY DEF AfterCheck, Checked, TypeOK, ServerTypeOK, UpdateData
<1>2. AfterCheck(d) \in [Dll -> UpdateData] /\ disk \in [Dll -> DiskFiles]
  BY AfterCheckType DEF TypeOK, ServerTypeOK
<1>3. \A e \in Dll : Loaded(AfterCheck(d))[e].version \in {AfterCheck(d)[e].version, disk[e].data}
  BY <1>2 DEF Loaded, ReadUpdate, Freed, UpdateData
<1> QED
  BY <1>1, <1>3 DEF Kept, Reloaded, LoadFailed, LoadBlocked, ReleaseInv

\* A handler of the server announces released builds only.
LEMMA ServerReceivesRelease ==
  ASSUME Inv, NEW m \in net, NEW rest \in SUBSET net, ServerReceives(m, rest)
  PROVE  ReleaseInv'
<1>1. m.client \in Client /\ m \in Datagram
  BY DatagramFields DEF Inv, TypeInv, TypeOK
<1>2. UNCHANGED <<disk, up, installed>>
  BY DEF ServerReceives, ServerHandles, BeginRefused, BeginServed, BeginUnserved, BeginAdmitted,
         PieceDropped, PieceServed, PieceReduced, PieceReset, PieceReceived, updaterVars
<1>3. SUFFICES /\ \A d \in Dll : dll'[d].version \in Genuine(d)
               /\ \A x \in net' :
                    \/ x \in net
                    \/ x.type = "piece_reply"
                    \/ (x.client = m.client /\ x.version \in Genuine(DllOfClient(m.client)))
  BY <1>2 DEF Inv, ReleaseInv, InstalledIsRelease, Genuine, DllOfClient
<1>4. CASE BeginServed(m, rest)
  <2> DEFINE d == DllOf(Greeted(m))
  <2>1. Greeted(m).ver = VerStr(m.client)
    BY <1>1 DEF Greeted, Inv, TypeInv, TypeOK, ServerTypeOK, UserRecord
  <2>2. d \in Dll /\ d = DllOfClient(m.client)
    BY <2>1 DEF DllOf, DllOfClient, VerStr, Dll
  <2>3. \A e \in Dll : dll'[e].version \in Genuine(e)
    BY <1>4, <2>2, LoadStepRelease DEF BeginServed, Inv, TypeInv
  <2>4. BeginAnswer(m, dll'[d]).client = m.client /\ BeginAnswer(m, dll'[d]).version = dll'[d].version
    BY DEF BeginAnswer
  <2>5. net' \subseteq rest \cup {BeginAnswer(m, dll'[d])}
    BY <1>4, Sent DEF BeginServed
  <2> QED
    BY <2>2, <2>3, <2>4, <2>5
<1>5. CASE BeginUnserved(m, rest)
  <2> DEFINE d == DllOf(Greeted(m))
  <2>1. d \in Dll
    BY DEF DllOf, Dll
  <2>2. \A e \in Dll : dll'[e].version \in Genuine(e)
    BY <1>5, <2>1, LoadStepRelease DEF BeginUnserved, Inv, TypeInv
  <2> QED
    BY <1>5, <2>2 DEF BeginUnserved
<1>6. CASE PieceServed(m, rest)
  <2> DEFINE x == PieceAnswer(m, Settled(Counted(m)))
  <2>1. x.type = "piece_reply"
    BY DEF PieceAnswer
  <2>2. net' \subseteq rest \cup {x}
    BY <1>6, Sent DEF PieceServed
  <2> QED
    BY <1>6, <2>1, <2>2 DEF PieceServed, PieceReceived, Inv, ReleaseInv
<1>7. CASE PieceReduced(m, rest)
  <2> DEFINE x == PieceAnswer(m, Settled([Counted(m) EXCEPT !.maxSize = @ \div 2, !.retry = 0]))
  <2>1. x.type = "piece_reply"
    BY DEF PieceAnswer
  <2>2. net' \subseteq rest \cup {x}
    BY <1>7, Sent DEF PieceReduced
  <2> QED
    BY <1>7, <2>1, <2>2 DEF PieceReduced, PieceReceived, Inv, ReleaseInv
<1>8. CASE BeginRefused(m, rest) \/ PieceDropped(m, rest) \/ PieceReset(m, rest)
  BY <1>8 DEF BeginRefused, PieceDropped, PieceReset, PieceReceived, Inv, ReleaseInv
<1> QED
  BY <1>4, <1>5, <1>6, <1>7, <1>8 DEF ServerReceives, ServerHandles

\* The updater learns of released builds only, whatever arrives and when.
LEMMA UpdaterReceivesRelease ==
  ASSUME Inv, NEW m \in net, NEW rest \in SUBSET net, NEW s,
         UpdaterHandles(m, rest, s), UNCHANGED serverVars
  PROVE  ReleaseInv'
<1> DEFINE c == m.client
<1>1. c \in Client /\ m \in Datagram
  BY DatagramFields DEF Inv, TypeInv, TypeOK
<1>2. UNCHANGED <<disk, dll, installed>> /\ net' \subseteq net
  BY DEF UpdaterHandles, PingReceived, DownloadStarted, PieceAccepted, PieceIgnored,
         serverVars, updaterVars
<1>3. SUFFICES \A e \in Client : up'[e].version \in Genuine(DllOfClient(e))
  BY <1>2 DEF Inv, ReleaseInv, InstalledIsRelease, Genuine, DllOfClient
<1>4. up[c] \in UpdaterState /\ up \in [Client -> UpdaterState]
  BY <1>1 DEF Inv, TypeInv, TypeOK, UpdaterTypeOK
<1>5. \A e \in Client : up[e].version \in Genuine(DllOfClient(e))
  BY DEF Inv, ReleaseInv
<1>6. CASE PingReceived(m, rest) \/ DownloadStarted(m, rest)
  <2>1. m.version \in Genuine(DllOfClient(c))
    BY <1>1, <1>6 DEF PingReceived, DownloadStarted, Inv, ReleaseInv
  <2>2. up'[c].version \in {m.version, up[c].version}
    <3>1. AfterPing(up[c], m).version \in {m.version, up[c].version}
      BY <1>4 DEF AfterPing, UpdaterState
    <3> QED
      BY <1>1, <1>4, <1>6, <3>1 DEF PingReceived, DownloadStarted, UpdaterState
  <2>3. \A e \in Client \ {c} : up'[e] = up[e]
    BY <1>4, <1>6 DEF PingReceived, DownloadStarted
  <2> QED
    BY <1>5, <2>1, <2>2, <2>3
<1>7. CASE PieceAccepted(m, rest, s)
  <2>1. \A e \in Client : up'[e].version = up[e].version
    BY <1>4, <1>7 DEF PieceAccepted, UpdaterState
  <2> QED
    BY <1>5, <2>1
<1>8. CASE PieceIgnored(m, rest)
  BY <1>5, <1>8 DEF PieceIgnored, updaterVars
<1> QED
  BY <1>6, <1>7, <1>8 DEF UpdaterHandles

\* Whatever a meter verifies and installs was released for it: the verified
\* bytes are those of the announced version.
LEMMA FrameRelease ==
  ASSUME Inv, NEW c \in Client, Frame(c)
  PROVE  ReleaseInv'
<1>1. up \in [Client -> UpdaterState] /\ installed \in [Client -> AnyVersion \cup {Corrupt}]
  BY DEF Inv, TypeInv, TypeOK, UpdaterTypeOK
<1>2. \A e \in Client : up'[e].version = up[e].version
  <2>1. ASSUME NEW s, Poll(c, s)
        PROVE  \A e \in Client : up'[e].version = up[e].version
    <3> DEFINE n == [up[c] EXCEPT !.pollAge = 0, !.seq = s]
    <3>1. n.version = up[c].version
      BY <1>1 DEF UpdaterState
    <3>2. up' = [up EXCEPT ![c] = n]
      BY <2>1 DEF Poll
    <3> HIDE DEF n
    <3> QED
      BY <1>1, <3>1, <3>2
  <2>2. CASE VerifyFailed(c) \/ Install(c)
    <3> DEFINE n == [up[c] EXCEPT !.updating = FALSE, !.offset = 0]
    <3>1. n.version = up[c].version
      BY <1>1 DEF UpdaterState
    <3>2. up' = [up EXCEPT ![c] = n]
      BY <2>2 DEF VerifyFailed, Install
    <3> HIDE DEF n
    <3> QED
      BY <1>1, <3>1, <3>2
  <2>3. CASE RequestPiece(c)
    <3>1. up' = [up EXCEPT ![c].pieceAge = 0]
      BY <2>3 DEF RequestPiece
    <3> QED
      BY <1>1, <3>1 DEF UpdaterState
  <2> QED
    BY <2>1, <2>2, <2>3 DEF Frame
<1>3. \A x \in net' : x \in net \/ x.type # "begin_reply"
  <2>1. ASSUME NEW s, Poll(c, s)
        PROVE  \A x \in net' : x \in net \/ x.type # "begin_reply"
    <3> DEFINE x == [type |-> "begin_request", client |-> c, version |-> up[c].current, seq |-> s]
    <3>1. net' \subseteq net \cup {x}
      BY <2>1, Sent DEF Poll
    <3> QED
      BY <3>1
  <2>2. CASE RequestPiece(c)
    <3> DEFINE y == [type |-> "piece_request", client |-> c, version |-> up[c].version,
                     offset |-> up[c].offset,
                     size |-> Smaller(up[c].size - up[c].offset, UPDATE_SIZE), seq |-> up[c].seq]
    <3>1. y.type = "piece_request"
      OBVIOUS
    <3>2. net' = Carrying(net, {y})
      BY <2>2 DEF RequestPiece
    <3> HIDE DEF y
    <3> QED
      BY <3>1, <3>2, Sent
  <2>3. CASE VerifyFailed(c) \/ Install(c)
    BY <2>3 DEF VerifyFailed, Install
  <2> QED
    BY <2>1, <2>2, <2>3 DEF Frame
<1>4. \A e \in Client : installed'[e] \in Release[DllOfClient(e)]
  <2>1. CASE Install(c)
    <3>1. Downloaded(c) \in Version \cup {Corrupt}
      BY DEF Downloaded
    <3>2. Downloaded(c) = up[c].version /\ up[c].version \in Release[DllOfClient(c)] \cup {NoVersion}
      BY <2>1 DEF Install, Verified, Inv, ReleaseInv, Genuine
    <3>3. Downloaded(c) # NoVersion
      BY <3>1, NetworkAssumption, UpdaterAssumption
    <3> QED
      BY <1>1, <2>1, <3>2, <3>3 DEF Install, Inv, ReleaseInv, InstalledIsRelease
  <2>2. CASE UNCHANGED installed
    BY <2>2 DEF Inv, ReleaseInv, InstalledIsRelease
  <2> QED
    BY <2>1, <2>2 DEF Frame, Poll, VerifyFailed, RequestPiece
<1> QED
  BY <1>2, <1>3, <1>4 DEF Frame, serverVars, Inv, ReleaseInv, InstalledIsRelease, Genuine, DllOfClient

\* Publishing, restarting and forgetting users keep released builds apart.
LEMMA EnvironmentRelease ==
  ASSUME Inv, ServerEnvironment, UNCHANGED updaterVars
  PROVE  ReleaseInv'
<1>1. UNCHANGED <<net, up, installed>>
  BY DEF ServerEnvironment, PublishBuild, PublishSignature, Unpublish, OtherBegin, Restart,
         Evict, updaterVars
<1>2. SUFFICES \A d \in Dll : disk'[d].data \in Genuine(d) /\ dll'[d].version \in Genuine(d)
  BY <1>1 DEF Inv, ReleaseInv, InstalledIsRelease, Genuine, DllOfClient
<1>3. \A d \in Dll : disk[d].data \in Genuine(d) /\ dll[d].version \in Genuine(d)
  BY DEF Inv, ReleaseInv
<1>4. disk \in [Dll -> DiskFiles]
  BY DEF Inv, TypeInv, TypeOK, ServerTypeOK
<1>5. ASSUME NEW d \in Dll, NEW v \in Version, PublishBuild(d, v)
      PROVE  \A e \in Dll : disk'[e].data \in Genuine(e) /\ dll'[e].version \in Genuine(e)
  BY <1>3, <1>4, <1>5 DEF PublishBuild, Genuine, DiskFiles
<1>6. ASSUME NEW d \in Dll, PublishSignature(d) \/ Unpublish(d)
      PROVE  \A e \in Dll : disk'[e].data \in Genuine(e) /\ dll'[e].version \in Genuine(e)
  BY <1>3, <1>4, <1>6 DEF PublishSignature, Unpublish, Genuine, DiskFiles
<1>7. ASSUME NEW d \in Dll, OtherBegin(d)
      PROVE  \A e \in Dll : disk'[e].data \in Genuine(e) /\ dll'[e].version \in Genuine(e)
  BY <1>3, <1>7, LoadStepRelease DEF OtherBegin, Inv, TypeInv
<1>8. CASE Restart
  BY <1>3, <1>8 DEF Restart
<1>9. ASSUME NEW c \in Client, Evict(c)
      PROVE  \A e \in Dll : disk'[e].data \in Genuine(e) /\ dll'[e].version \in Genuine(e)
  BY <1>3, <1>9 DEF Evict
<1> QED
  BY <1>5, <1>6, <1>7, <1>8, <1>9 DEF ServerEnvironment
-----------------------------------------------------------------------------
\* The invariant holds at the start.
LEMMA InitInv ==
  ASSUME Init
  PROVE  Inv
<1>1. net \subseteq Datagram
  BY DEF Init
<1>2. \A c \in Client : installed[c] \in AnyVersion
  BY DEF Init, AnyVersion
<1>3. UpdaterTypeOK /\ OffsetInSize
  BY <1>2, StartedType DEF Init, UpdaterTypeOK, OffsetInSize, AnyVersion
<1>4. disk \in [Dll -> DiskFiles]
  BY DEF Init, ServerInit, DiskFiles, AnyVersion
<1>5. dll \in [Dll -> UpdateData]
  <2>1. METER_PERIOD \in 0 .. METER_PERIOD
    BY ServerAssumption
  <2> QED
    BY <1>4, <2>1 DEF Init, ServerInit, DiskFiles, UpdateData
<1>6. published \in [Dll -> SUBSET Version]
  BY DEF Init, ServerInit
<1>7. ServerTypeOK
  BY <1>4, <1>5, <1>6, NewUserType DEF Init, ServerInit, ServerTypeOK
<1>8. ReleaseInv
  <2>1. \A d \in Dll : disk[d].data \in Genuine(d) /\ dll[d].version \in Genuine(d)
    BY DEF Init, ServerInit, Genuine
  <2>2. \A c \in Client : up[c].version \in Genuine(DllOfClient(c))
    BY <1>2, StartedType DEF Init, Genuine
  <2> QED
    BY <2>1, <2>2 DEF Init, ReleaseInv, InstalledIsRelease
<1> QED
  BY <1>1, <1>3, <1>7, <1>8 DEF Inv, TypeInv, TypeOK

\* Every step keeps the invariant.
LEMMA NextInv ==
  ASSUME Inv, [Next]_vars
  PROVE  Inv'
<1>1. ASSUME NEW m \in net, NEW rest \in AfterReceive(m), ServerReceives(m, rest)
      PROVE  Inv'
  <2>1. rest \in SUBSET net
    BY Received
  <2>2. TypeOK' /\ ReleaseInv'
    BY <1>1, <2>1, ServerReceivesType, ServerReceivesRelease DEF Inv, TypeInv
  <2>3. OffsetInSize'
    BY <1>1 DEF ServerReceives, updaterVars, OffsetInSize, Inv, TypeInv
  <2> QED
    BY <2>2, <2>3 DEF Inv, TypeInv
<1>2. ASSUME NEW m \in net, NEW rest \in AfterReceive(m), UpdaterReceives(m, rest)
      PROVE  Inv'
  <2>1. rest \in SUBSET net
    BY Received
  <2>2. PICK s \in FreshSequence : UpdaterHandles(m, rest, s)
    BY <1>2 DEF UpdaterReceives
  <2>3. UNCHANGED serverVars
    BY <1>2 DEF UpdaterReceives
  <2> QED
    BY <1>2, <2>1, <2>2, <2>3, UpdaterReceivesType, UpdaterReceivesRelease DEF Inv
<1>3. ASSUME NEW m \in net, Lose(m)
      PROVE  Inv'
  BY <1>3 DEF Lose, serverVars, updaterVars, Inv, TypeInv, TypeOK, ServerTypeOK, UpdaterTypeOK,
              OffsetInSize, ReleaseInv, InstalledIsRelease, Genuine, DllOfClient
<1>4. ASSUME NEW c \in Client, Frame(c)
      PROVE  Inv'
  BY <1>4, FrameType, FrameRelease DEF Inv
<1>5. ASSUME NEW c \in Client, Reload(c), UNCHANGED serverVars
      PROVE  Inv'
  <2>1. installed[c] # Corrupt
    BY ServerAssumption, UpdaterAssumption DEF Inv, ReleaseInv, InstalledIsRelease, DllOfClient, Dll
  <2>2. TypeInv'
    BY <1>5, <2>1, ReloadType DEF Inv
  <2>3. CurrentVersion(c) \subseteq AnyVersion
    BY <2>1 DEF CurrentVersion, Inv, TypeInv, TypeOK, UpdaterTypeOK, AnyVersion
  <2>4. PICK v \in AnyVersion : up' = [up EXCEPT ![c] = Started(v)]
    BY <1>5, <2>3 DEF Reload
  <2>5. \A e \in Client : up'[e].version \in {up[e].version, NoVersion}
    BY <2>4, StartedType DEF Inv, TypeInv, TypeOK, UpdaterTypeOK
  <2>6. net' = net /\ UNCHANGED <<disk, dll, installed>>
    BY <1>5 DEF Reload, serverVars
  <2>7. ReleaseInv'
    BY <2>5, <2>6 DEF Inv, ReleaseInv, InstalledIsRelease, Genuine, DllOfClient
  <2> QED
    BY <2>2, <2>7 DEF Inv
<1>6. CASE ServerEnvironment /\ UNCHANGED updaterVars
  BY <1>6, EnvironmentType, EnvironmentRelease DEF Inv
<1>7. CASE Tick
  <2>1. \A c \in Client : up'[c].version = up[c].version
    BY <1>7 DEF Tick, UpdaterTick, Inv, TypeInv, TypeOK, UpdaterTypeOK, UpdaterState
  <2>2. \A d \in Dll : dll'[d].version = dll[d].version
    BY <1>7 DEF Tick, ServerTick, Inv, TypeInv, TypeOK, ServerTypeOK, UpdateData
  <2>3. UNCHANGED <<net, disk, installed>>
    BY <1>7 DEF Tick, ServerTick, UpdaterTick
  <2>4. ReleaseInv'
    BY <2>1, <2>2, <2>3 DEF Inv, ReleaseInv, InstalledIsRelease, Genuine, DllOfClient
  <2> QED
    BY <1>7, <2>4, TickType DEF Inv
<1>8. CASE UNCHANGED vars
  BY <1>8 DEF vars, Inv, TypeInv, TypeOK, ServerTypeOK, UpdaterTypeOK, OffsetInSize, ReleaseInv,
              InstalledIsRelease, Genuine, DllOfClient
<1> QED
  BY <1>1, <1>2, <1>3, <1>4, <1>5, <1>6, <1>7, <1>8 DEF Next

\* Types hold of every instance: whatever is lost, duplicated or reordered, the
\* retry counter of msg_client_update_piece stays within MSG_MAX_RETRIES.
THEOREM TypeCorrect == Spec => []TypeOK
<1>1. Init => Inv
  BY InitInv
<1>2. Inv /\ [Next]_vars => Inv'
  BY NextInv
<1>3. Inv => TypeOK
  BY DEF Inv, TypeInv
<1> QED
  BY <1>1, <1>2, <1>3, PTL DEF Spec

\* A meter never installs anything but a whole build that was released for it,
\* for any number of clients and builds, any sizes, and any interleaving of the
\* protocol with replaced files, restarts, evictions and network faults.
THEOREM ReleaseCorrect == Spec => []InstalledIsRelease
<1>1. Init => Inv
  BY InitInv
<1>2. Inv /\ [Next]_vars => Inv'
  BY NextInv
<1>3. Inv => InstalledIsRelease
  BY DEF Inv, ReleaseInv
<1> QED
  BY <1>1, <1>2, <1>3, PTL DEF Spec

-----------------------------------------------------------------------------
(***************************************************************************)
(* msg_client_update_piece: the size it settles on for a user, and the     *)
(* pieces it sends, for any sequence of requests.                          *)
(***************************************************************************)

\* What the size of a user may be once a piece is served.
ServedSize == {NO_FRAG} \cup FRAG_FLOOR .. UPDATE_SIZE

\* Between two messages msg_update_max_size is unset, the unfragmented size, or
\* at least the floor.
SizeSettled == \A c \in Client : user[c].maxSize \in {0} \cup ServedSize

\* A stored size bounds the pieces.
SizeInv == SizeSettled /\ PieceFitsDatagram

\* The order of the three sizes.
LEMMA SizeOrder ==
  /\ NO_FRAG \in Nat /\ FRAG_FLOOR \in Nat /\ UPDATE_SIZE \in Nat
  /\ 1 <= NO_FRAG /\ NO_FRAG < FRAG_FLOOR /\ FRAG_FLOOR < UPDATE_SIZE
BY NetworkAssumption

\* A size that is not zero and not too large settles on one that can be served.
LEMMA SettledSize ==
  ASSUME NEW u \in CountedRecord, u.maxSize <= UPDATE_SIZE
  PROVE  Settled(u).maxSize \in ServedSize
<1>1. u.maxSize \in Nat
  BY DEF CountedRecord
<1>2. Settled(u).maxSize = IF u.maxSize < FRAG_FLOOR THEN NO_FRAG ELSE u.maxSize
  BY DEF Settled, CountedRecord
<1> QED
  BY <1>1, <1>2, SizeOrder DEF ServedSize

\* A request that passes the early return leaves its user a size to settle on.
LEMMA CountedSize ==
  ASSUME TypeOK, SizeSettled, NEW m \in net, m.type = "piece_request", ~ BadPiece(m)
  PROVE  Counted(m).maxSize \in 1 .. UPDATE_SIZE
<1>1. m.client \in Client /\ m.size \in Nat
  BY DatagramFields DEF TypeOK
<1>2. user[m.client] \in UserRecord
  BY <1>1 DEF TypeOK, ServerTypeOK
<1>3. m.size \in 1 .. UPDATE_SIZE
  BY <1>1, SizeOrder DEF BadPiece
<1>4. user[m.client].maxSize \in {0} \cup 1 .. UPDATE_SIZE
  BY <1>1, SizeOrder DEF SizeSettled, ServedSize
<1>5. Counted(m).maxSize = IF user[m.client].maxSize = 0 THEN m.size ELSE user[m.client].maxSize
  BY <1>2 DEF Counted, UserRecord
<1> QED
  BY <1>3, <1>4, <1>5

\* The answer to a request of a user whose size is settled is a piece that fits.
LEMMA AnswerFits ==
  ASSUME TypeOK, NEW m \in net, m.type = "piece_request", ~ BadPiece(m),
         NEW u \in UserRecord, u.ver = user[m.client].ver, u.maxSize \in ServedSize
  PROVE  LET x == PieceAnswer(m, u)
         IN  x.size \in 1 .. x.room /\ x.offset + x.size <= Length(x.bytes)
<1> DEFINE b == dll[DllOf(u)].data
           z == AtMost(u.maxSize, m.size)
<1>1. m.client \in Client /\ m.size \in Nat /\ m.offset \in Nat
  BY DatagramFields DEF TypeOK
<1>2. b \in AnyVersion
  <2>1. DllOf(u) \in Dll
    BY DEF DllOf, Dll
  <2> QED
    BY <2>1 DEF TypeOK, ServerTypeOK, UpdateData
<1>3. m.size \in 1 .. UPDATE_SIZE /\ m.offset + m.size <= Length(b)
  BY <1>1, <1>2, SizeOrder, LengthType DEF BadPiece, DllOf
<1>4. z \in 1 .. (IF u.maxSize = NO_FRAG THEN NO_FRAG ELSE UPDATE_SIZE) /\ z <= m.size
  BY <1>3, SizeOrder DEF AtMost, ServedSize
<1>5. Length(b) \in Nat
  BY <1>2, LengthType
<1>6. m.offset + z <= Length(b)
  <2>1. z \in Nat
    BY <1>4, SizeOrder
  <2> HIDE DEF z, b
  <2> QED
    BY <1>1, <1>3, <1>4, <1>5, <2>1
<1> QED
  BY <1>4, <1>6 DEF PieceAnswer
-----------------------------------------------------------------------------
\* A handler of the server keeps the sizes.
LEMMA ServerReceivesSizes ==
  ASSUME TypeOK, SizeInv, NEW m \in net, NEW rest \in SUBSET net, ServerReceives(m, rest)
  PROVE  SizeInv'
<1>1. m.client \in Client
  BY DatagramFields DEF TypeOK
<1>2. user \in [Client -> UserRecord]
  BY DEF TypeOK, ServerTypeOK
<1>3. \A c \in Client : user[c].maxSize \in {0} \cup ServedSize
  BY DEF SizeInv, SizeSettled, ServedSize
<1>4. \A x \in net : x.type = "piece_reply" =>
        x.size \in 1 .. x.room /\ x.offset + x.size <= Length(x.bytes)
  BY DEF SizeInv, PieceFitsDatagram
<1>5. ASSUME \A c \in Client : user'[c].maxSize \in {0} \cup ServedSize,
             \A x \in net' : x.type = "piece_reply" =>
               x.size \in 1 .. x.room /\ x.offset + x.size <= Length(x.bytes)
      PROVE  SizeInv'
  BY <1>5 DEF SizeInv, SizeSettled, PieceFitsDatagram, ServedSize
<1>6. CASE BeginRefused(m, rest)
  <2>1. Greeted(m).maxSize = user[m.client].maxSize
    BY <1>1, <1>2 DEF Greeted, UserRecord
  <2>2. \A c \in Client : user'[c].maxSize = user[c].maxSize
    BY <1>1, <1>2, <1>6, <2>1 DEF BeginRefused
  <2> QED
    BY <1>3, <1>4, <1>5, <1>6, <2>2 DEF BeginRefused
<1>7. CASE BeginServed(m, rest) \/ BeginUnserved(m, rest)
  <2> DEFINE n == [Greeted(m) EXCEPT !.retry = 0, !.seq = m.seq, !.age = 0]
  <2>1. n.maxSize = user[m.client].maxSize
    BY <1>1, <1>2 DEF Greeted, UserRecord
  <2>2. user' = [user EXCEPT ![m.client] = n]
    BY <1>7 DEF BeginServed, BeginUnserved, BeginAdmitted
  <2>3. \A c \in Client : user'[c].maxSize = user[c].maxSize
    <3> HIDE DEF n
    <3> QED
      BY <1>1, <1>2, <2>1, <2>2
  <2>4. \A x \in net' : x \in net \/ x.type = "begin_reply"
    <3> DEFINE d == DllOf(Greeted(m))
               y == BeginAnswer(m, dll'[d])
    <3>1. y.type = "begin_reply"
      BY DEF BeginAnswer
    <3>2. net' = Carrying(rest, {y}) \/ net' = rest
      BY <1>7 DEF BeginServed, BeginUnserved
    <3> HIDE DEF y
    <3>3. Carrying(rest, {y}) \subseteq rest \cup {y}
      BY Sent
    <3> QED
      BY <3>1, <3>2, <3>3
  <2> QED
    BY <1>3, <1>4, <1>5, <2>3, <2>4
<1>8. ASSUME NEW n \in UserRecord, n.ver = user[m.client].ver, n.maxSize \in ServedSize,
             m.type = "piece_request", ~ BadPiece(m),
             user' = [user EXCEPT ![m.client] = n],
             net' = Carrying(rest, {PieceAnswer(m, n)})
      PROVE  SizeInv'
  <2>1. \A c \in Client : user'[c].maxSize \in {0} \cup ServedSize
    BY <1>1, <1>2, <1>3, <1>8
  <2>2. LET x == PieceAnswer(m, n)
        IN  x.size \in 1 .. x.room /\ x.offset + x.size <= Length(x.bytes)
    BY <1>8, AnswerFits
  <2>3. net' \subseteq net \cup {PieceAnswer(m, n)}
    BY <1>8, Sent
  <2> QED
    BY <1>4, <1>5, <2>1, <2>2, <2>3
<1>9. CASE PieceServed(m, rest)
  <2> DEFINE n == Settled(Counted(m))
  <2>1. m.type = "piece_request" /\ ~ BadPiece(m)
    BY <1>9 DEF PieceServed, PieceReceived
  <2>2. Counted(m) \in UserRecord /\ Counted(m).ver = user[m.client].ver /\ Counted(m) \in CountedRecord
    BY <1>9, <2>1, CountedType DEF PieceServed
  <2>3. n \in UserRecord /\ n.ver = user[m.client].ver
    BY <2>2, SettledType, SettledVer
  <2>4. n.maxSize \in ServedSize
    BY <2>1, <2>2, CountedSize, SettledSize DEF SizeInv
  <2>5. user' = [user EXCEPT ![m.client] = n] /\ net' = Carrying(rest, {PieceAnswer(m, n)})
    BY <1>9 DEF PieceServed
  <2> HIDE DEF n
  <2> QED
    BY <1>8, <2>1, <2>3, <2>4, <2>5
<1>10. CASE PieceReduced(m, rest)
  <2> DEFINE h == [Counted(m) EXCEPT !.maxSize = @ \div 2, !.retry = 0]
             n == Settled(h)
  <2>1. m.type = "piece_request" /\ ~ BadPiece(m)
    BY <1>10 DEF PieceReduced, PieceReceived
  <2>2. h \in UserRecord /\ h.ver = user[m.client].ver
    BY <2>1, HalvedType
  <2>3. n \in UserRecord /\ n.ver = user[m.client].ver
    BY <2>2, SettledType, SettledVer
  <2>4. n.maxSize \in ServedSize
    <3>1. Counted(m) \in CountedRecord /\ Counted(m).maxSize \in 1 .. UPDATE_SIZE
      BY <2>1, CountedType, CountedSize DEF SizeInv
    <3>2. h.maxSize = Counted(m).maxSize \div 2
      BY <3>1 DEF CountedRecord
    <3>3. h.maxSize <= UPDATE_SIZE
      BY <3>1, <3>2, SizeOrder
    <3>4. h \in CountedRecord
      BY <2>2, ServerAssumption DEF UserRecord, CountedRecord
    <3> QED
      BY <3>3, <3>4, SettledSize
  <2>5. user' = [user EXCEPT ![m.client] = n] /\ net' = Carrying(rest, {PieceAnswer(m, n)})
    BY <1>10 DEF PieceReduced
  <2> HIDE DEF n
  <2> QED
    BY <1>8, <2>1, <2>3, <2>4, <2>5
<1>11. CASE PieceReset(m, rest)
  <2> DEFINE n == [Counted(m) EXCEPT !.retry = 0, !.maxSize = 0]
  <2>1. n.maxSize = 0
    BY <1>11, CountedType DEF PieceReset, PieceReceived, CountedRecord
  <2>2. user' = [user EXCEPT ![m.client] = n] /\ net' = rest
    BY <1>11 DEF PieceReset
  <2> HIDE DEF n
  <2> QED
    BY <1>1, <1>2, <1>3, <1>4, <1>5, <2>1, <2>2
<1>12. CASE PieceDropped(m, rest)
  BY <1>3, <1>4, <1>5, <1>12 DEF PieceDropped
<1> QED
  BY <1>6, <1>7, <1>9, <1>10, <1>11, <1>12 DEF ServerReceives, ServerHandles
-----------------------------------------------------------------------------
\* Nothing but the server's handlers touches a size or sends a piece.
LEMMA NextSizes ==
  ASSUME TypeOK, SizeInv, [Next]_vars
  PROVE  SizeInv'
<1>1. ASSUME NEW m \in net, NEW rest \in AfterReceive(m), ServerReceives(m, rest)
      PROVE  SizeInv'
  BY <1>1, Received, ServerReceivesSizes
<1>2. ASSUME \A c \in Client : user'[c].maxSize \in {0, user[c].maxSize},
             \A x \in net' : x \in net \/ x.type # "piece_reply"
      PROVE  SizeInv'
  BY <1>2 DEF SizeInv, SizeSettled, PieceFitsDatagram, ServedSize
<1>3. ASSUME NEW m \in net, NEW rest \in AfterReceive(m), UpdaterReceives(m, rest)
      PROVE  SizeInv'
  <2>1. UNCHANGED user /\ net' = rest
    BY <1>3 DEF UpdaterReceives, UpdaterHandles, PingReceived, DownloadStarted, PieceAccepted,
                PieceIgnored, serverVars
  <2> QED
    BY <1>2, <1>3, <2>1, Received
<1>4. ASSUME NEW c \in Client, Frame(c)
      PROVE  SizeInv'
  <2>1. UNCHANGED user
    BY <1>4 DEF Frame, serverVars
  <2>2. ASSUME NEW s, Poll(c, s)
        PROVE  \A x \in net' : x \in net \/ x.type # "piece_reply"
    <3> DEFINE y == [type |-> "begin_request", client |-> c, version |-> up[c].current, seq |-> s]
    <3>1. y.type = "begin_request"
      OBVIOUS
    <3>2. net' = Carrying(net, {y})
      BY <2>2 DEF Poll
    <3> HIDE DEF y
    <3> QED
      BY <3>1, <3>2, Sent
  <2>3. ASSUME RequestPiece(c)
        PROVE  \A x \in net' : x \in net \/ x.type # "piece_reply"
    <3> DEFINE y == [type |-> "piece_request", client |-> c, version |-> up[c].version,
                     offset |-> up[c].offset,
                     size |-> Smaller(up[c].size - up[c].offset, UPDATE_SIZE), seq |-> up[c].seq]
    <3>1. y.type = "piece_request"
      OBVIOUS
    <3>2. net' = Carrying(net, {y})
      BY <2>3 DEF RequestPiece
    <3> HIDE DEF y
    <3> QED
      BY <3>1, <3>2, Sent
  <2>4. CASE VerifyFailed(c) \/ Install(c)
    BY <1>2, <2>1, <2>4 DEF VerifyFailed, Install
  <2> QED
    BY <1>2, <1>4, <2>1, <2>2, <2>3, <2>4 DEF Frame
<1>5. CASE ServerEnvironment /\ UNCHANGED updaterVars
  <2>1. user \in [Client -> UserRecord]
    BY DEF TypeOK, ServerTypeOK
  <2>2. UNCHANGED net
    BY <1>5 DEF ServerEnvironment, PublishBuild, PublishSignature, Unpublish, OtherBegin, Restart, Evict
  <2>3. \A c \in Client : user'[c] \in {NewUser, user[c]}
    BY <1>5, <2>1 DEF ServerEnvironment, PublishBuild, PublishSignature, Unpublish, OtherBegin,
                      Restart, Evict
  <2>4. NewUser.maxSize = 0
    BY DEF NewUser
  <2> QED
    BY <1>2, <2>2, <2>3, <2>4
<1>6. CASE Tick
  <2>1. \A c \in Client : user'[c].maxSize = user[c].maxSize
    BY <1>6 DEF Tick, ServerTick, TypeOK, ServerTypeOK, UserRecord
  <2> QED
    BY <1>2, <1>6, <2>1 DEF Tick
<1>7. ASSUME UNCHANGED user, net' \subseteq net
      PROVE  SizeInv'
  BY <1>2, <1>7
<1>8. ASSUME NEW m \in net, Lose(m)
      PROVE  SizeInv'
  BY <1>7, <1>8 DEF Lose, serverVars
<1>9. ASSUME NEW c \in Client, Reload(c), UNCHANGED serverVars
      PROVE  SizeInv'
  BY <1>7, <1>9 DEF Reload, serverVars
<1>10. CASE UNCHANGED vars
  BY <1>7, <1>10 DEF vars
<1> QED
  BY <1>1, <1>3, <1>4, <1>5, <1>6, <1>8, <1>9, <1>10 DEF Next

\* Whatever the requests, their order and their copies: a piece that the server
\* sends is not empty, fits its datagram and lies inside the build in memory.
THEOREM PieceCorrect == Spec => []PieceFitsDatagram
<1>1. Init => SizeInv
  BY SizeOrder DEF Init, ServerInit, NewUser, SizeInv, SizeSettled, PieceFitsDatagram
<1>2. TypeOK /\ SizeInv /\ [Next]_vars => SizeInv'
  BY NextSizes
<1>3. SizeInv => PieceFitsDatagram
  BY DEF SizeInv
<1> QED
  BY <1>1, <1>2, <1>3, TypeCorrect, PTL DEF Spec

-----------------------------------------------------------------------------
(***************************************************************************)
(* meter_load and the check of the file time: the version of a build.      *)
(***************************************************************************)

\* A build in memory that its version belongs to.
Announced(u) == u.data # NoVersion /\ u.version = u.data

\* The check that precedes a load changes the age and the time only.
LEMMA CheckedAnnounced ==
  ASSUME TypeOK, NEW d \in Dll, NEW e \in Dll
  PROVE  /\ AfterCheck(d)[e].data = dll[e].data /\ AfterCheck(d)[e].version = dll[e].version
         /\ AfterCheck(d)[e].sig = dll[e].sig
<1>1. dll \in [Dll -> UpdateData]
  BY DEF TypeOK, ServerTypeOK
<1> QED
  BY <1>1 DEF AfterCheck, Checked, UpdateData

\* When both files of both builds can be read, both builds are announced as they are.
LEMMA LoadedAnnounced ==
  ASSUME TypeOK, NEW from \in [Dll -> UpdateData], LoadOk, NEW d \in Dll
  PROVE  Announced(Loaded(from)[d])
<1>1. ReadOk("g_dll") /\ ReadOk(d)
  BY DEF LoadOk, Dll
<1>2. Loaded(from)[d] = ReadUpdate(Freed(from[d]), d)
  BY <1>1 DEF Loaded
<1>3. Freed(from[d]) \in UpdateData
  BY DEF Freed, UpdateData, AnyVersion
<1> QED
  BY <1>1, <1>2, <1>3 DEF ReadUpdate, ReadOk, Announced, UpdateData

\* Else a build that is not announced as it is has no signature.
LEMMA LoadedUnsigned ==
  ASSUME TypeOK, NEW from \in [Dll -> UpdateData], NEW d \in Dll
  PROVE  Announced(Loaded(from)[d]) \/ Loaded(from)[d].sig = NoVersion
<1>1. Freed(from[d]) \in UpdateData /\ Freed(from[d]).sig = NoVersion
  BY DEF Freed, UpdateData, AnyVersion
<1>2. CASE Loaded(from)[d] = Freed(from[d])
  BY <1>1, <1>2
<1>3. CASE Loaded(from)[d] = ReadUpdate(Freed(from[d]), d)
  BY <1>1, <1>3 DEF ReadUpdate, ReadOk, Announced, UpdateData
<1> QED
  BY <1>2, <1>3 DEF Loaded

\* A begin request keeps them so, or leaves the lock held.
LEMMA LoadStepAnnounced ==
  ASSUME TypeOK, ServedVersionIsCrc, NEW d \in Dll, UNCHANGED disk,
         Kept(d) \/ Reloaded(d) \/ LoadFailed(d) \/ LoadBlocked(d)
  PROVE  ServedVersionIsCrc'
<1>1. dll \in [Dll -> UpdateData] /\ disk \in [Dll -> DiskFiles]
  BY DEF TypeOK, ServerTypeOK
<1>2. CASE Kept(d)
  BY <1>2, CheckedAnnounced DEF Kept, ServedVersionIsCrc
<1>3. CASE Reloaded(d)
  <2>1. AfterCheck(d) \in [Dll -> UpdateData]
    BY <1>1, AfterCheckType
  <2>2. \A e \in Dll : Announced(dll'[e])
    BY <1>3, <2>1, LoadedAnnounced DEF Reloaded
  <2> QED
    BY <2>2 DEF ServedVersionIsCrc, Announced
<1>4. CASE LoadFailed(d)
  <2>1. AfterCheck(d) \in [Dll -> UpdateData]
    BY <1>1, AfterCheckType
  <2>2. \A e \in Dll : Announced(dll'[e]) \/ dll'[e].sig = NoVersion
    BY <1>4, <2>1, LoadedUnsigned DEF LoadFailed
  <2> QED
    BY <1>4, <2>2 DEF LoadFailed, ServedVersionIsCrc, Announced
<1>5. CASE LoadBlocked(d)
  BY <1>5, CheckedAnnounced DEF LoadBlocked, ServedVersionIsCrc
<1> QED
  BY <1>2, <1>3, <1>4, <1>5

LEMMA NextAnnounced ==
  ASSUME TypeOK, ServedVersionIsCrc, [Next]_vars
  PROVE  ServedVersionIsCrc'
<1>1. ASSUME UNCHANGED <<dll, locked>>
      PROVE  ServedVersionIsCrc'
  BY <1>1 DEF ServedVersionIsCrc
<1>2. ASSUME NEW m \in net, NEW rest, ServerReceives(m, rest)
      PROVE  ServedVersionIsCrc'
  <2>1. CASE BeginServed(m, rest) \/ BeginUnserved(m, rest)
    <3>1. DllOf(Greeted(m)) \in Dll
      BY DEF DllOf, Dll
    <3> QED
      BY <2>1, <3>1, LoadStepAnnounced DEF BeginServed, BeginUnserved, BeginAdmitted
  <2>2. CASE BeginRefused(m, rest)
    BY <2>2, <1>1 DEF BeginRefused
  <2>3. CASE PieceReceived(m)
    BY <2>3, <1>1 DEF PieceReceived
  <2> QED
    BY <1>2, <2>1, <2>2, <2>3 DEF ServerReceives, ServerHandles, PieceDropped, PieceServed,
                                  PieceReduced, PieceReset
<1>3. ASSUME UNCHANGED serverVars
      PROVE  ServedVersionIsCrc'
  BY <1>1, <1>3 DEF serverVars
<1>4. CASE ServerEnvironment
  <2>1. ASSUME NEW d \in Dll, OtherBegin(d)
        PROVE  ServedVersionIsCrc'
    BY <2>1, LoadStepAnnounced DEF OtherBegin
  <2>2. CASE Restart
    BY <2>2 DEF Restart, LoadOk, ReadOk, ServedVersionIsCrc
  <2>3. ASSUME NEW d \in Dll, (\E v \in Version : PublishBuild(d, v)) \/ PublishSignature(d) \/ Unpublish(d)
        PROVE  ServedVersionIsCrc'
    BY <2>3, <1>1 DEF PublishBuild, PublishSignature, Unpublish
  <2>4. ASSUME NEW c \in Client, Evict(c)
        PROVE  ServedVersionIsCrc'
    BY <2>4, <1>1 DEF Evict
  <2> QED
    BY <1>4, <2>1, <2>2, <2>3, <2>4 DEF ServerEnvironment
<1>5. CASE Tick
  <2>1. dll \in [Dll -> UpdateData]
    BY DEF TypeOK, ServerTypeOK
  <2>2. \A d \in Dll : /\ dll'[d].data = dll[d].data /\ dll'[d].version = dll[d].version
                       /\ dll'[d].sig = dll[d].sig
    BY <1>5, <2>1 DEF Tick, ServerTick, UpdateData
  <2> QED
    BY <1>5, <2>2 DEF Tick, ServerTick, ServedVersionIsCrc
<1>6. ASSUME NEW m \in net, Lose(m)
      PROVE  ServedVersionIsCrc'
  BY <1>3, <1>6 DEF Lose
<1>7. ASSUME NEW c \in Client, Frame(c) \/ UNCHANGED serverVars
      PROVE  ServedVersionIsCrc'
  BY <1>3, <1>7 DEF Frame
<1>8. ASSUME NEW m, NEW rest, UpdaterReceives(m, rest)
      PROVE  ServedVersionIsCrc'
  BY <1>3, <1>8 DEF UpdaterReceives
<1>9. CASE UNCHANGED vars
  BY <1>1, <1>9 DEF vars
<1> QED
  BY <1>2, <1>4, <1>5, <1>6, <1>7, <1>8, <1>9 DEF Next

\* The version that the server announces and compares requests with is that of the bytes
\* it serves, however builds and signatures are replaced, unpublished or looked at
\* between; a load that stops half-way leaves the lock held and a build with another
\* version unsigned.
THEOREM ServedCorrect == Spec => []ServedVersionIsCrc
<1>1. Init => ServedVersionIsCrc
  BY NetworkAssumption DEF Init, ServerInit, ServedVersionIsCrc
<1>2. TypeOK /\ ServedVersionIsCrc /\ [Next]_vars => ServedVersionIsCrc'
  BY NextAnnounced
<1> QED
  BY <1>1, <1>2, TypeCorrect, PTL DEF Spec
-----------------------------------------------------------------------------
(***************************************************************************)
(* A download on an orderly path: every datagram arrives in the tick it    *)
(* was sent in, or never, maybe twice, and in any order; builds are        *)
(* replaced whole, and the server neither restarts nor forgets a user.     *)
(***************************************************************************)

Orderly == ~ Stale /\ Faults \cap {"unpublish", "restart", "evict"} = {}

Greets(m) == m.type = "begin_request"
Answers(m) == m.type = "begin_reply"

\* The server answers a meter at most once in a tick, so that a download under way
\* can only be answered again with the answer that started it.
OrderlyInv ==
  /\ ~ locked /\ LoadOk
  /\ \A m \in net : Answers(m) => m.size = Length(m.version) /\ TooSoon(user[m.client])
  /\ \A m, n \in net : Answers(m) /\ Answers(n) /\ m.client = n.client => m.version = n.version
  /\ \A m \in net : m.type = "piece_reply" => m.bytes = m.version
  /\ \A m \in net : up[m.client].updating =>
       /\ Greets(m) => TooSoon(user[m.client])
       /\ Answers(m) => m.version = up[m.client].version
  /\ DownloadIsCoherent

\* What leaves the ages and the downloads alone, and sends no answer and no piece,
\* keeps the invariant; a poll comes from a meter that downloads nothing.
LEMMA OrderlyKept ==
  ASSUME TypeOK, OrderlyInv, ~ locked', LoadOk',
         \A m \in net' : \/ m \in net
                         \/ m.type = "piece_request"
                         \/ Greets(m) /\ m.client \in Client /\ ~ up'[m.client].updating,
         \A c \in Client : user'[c].age = user[c].age,
         \A c \in Client : up'[c].updating =>
           /\ up[c].updating /\ up'[c].version = up[c].version /\ up'[c].current = up[c].current
           /\ up'[c].bytes \subseteq up[c].bytes \cup {up[c].version} /\ up'[c].size = up[c].size
  PROVE  OrderlyInv'
<1> USE DEF TooSoon, Answers, Greets
<1>1. \A m \in net : m.client \in Client
  BY DatagramFields DEF TypeOK
<1>2. DownloadIsCoherent'
  BY DEF OrderlyInv, DownloadIsCoherent
<1>3. \A m \in net' : Answers(m) =>
        m \in net /\ m.client \in Client /\ m.size = Length(m.version) /\ TooSoon(user'[m.client])
  BY <1>1 DEF OrderlyInv
<1>4. \A m, n \in net' :
        Answers(m) /\ Answers(n) /\ m.client = n.client => m.version = n.version
  BY <1>3 DEF OrderlyInv
<1>5. \A m \in net' : m.type = "piece_reply" => m.bytes = m.version
  BY DEF OrderlyInv
<1>6. ASSUME NEW m \in net', up'[m.client].updating
      PROVE  /\ Greets(m) => TooSoon(user'[m.client])
             /\ Answers(m) => m.version = up'[m.client].version
  BY <1>1, <1>6 DEF OrderlyInv
<1> QED
  BY <1>2, <1>3, <1>4, <1>5, <1>6 DEF OrderlyInv

\* The ages of the users of the server.
LEMMA Ages ==
  ASSUME TypeOK, NEW m \in net
  PROVE  /\ m.client \in Client
         /\ user \in [Client -> UserRecord]
         /\ Greeted(m).age = user[m.client].age
         /\ Counted(m).age = user[m.client].age
<1>1. m.client \in Client /\ user \in [Client -> UserRecord]
  BY DatagramFields DEF TypeOK, ServerTypeOK
<1> QED
  BY <1>1 DEF Greeted, Counted, UserRecord

\* An answer of the server is the first of its tick, and true.
LEMMA AnswerOrderly ==
  ASSUME TypeOK, OrderlyInv, ServedVersionIsCrc', NEW m \in net, NEW rest \in SUBSET net,
         BeginServed(m, rest), UNCHANGED up
  PROVE  OrderlyInv'
<1> DEFINE c == m.client
           d == DllOf(Greeted(m))
           x == BeginAnswer(m, dll'[d])
           n == [Greeted(m) EXCEPT !.retry = 0, !.seq = m.seq, !.age = 0]
<1>1. /\ c \in Client /\ user \in [Client -> UserRecord] /\ d \in Dll
      /\ \A y \in net : y.client \in Client
  BY Ages, DatagramFields DEF DllOf, Dll, TypeOK
<1>2. Greets(m) /\ ~ TooSoon(user[c])
  BY Ages DEF BeginServed, BeginAdmitted, TooSoon, Greets
<1>3. ~ locked' /\ LoadOk'
  BY DEF BeginServed, BeginAdmitted, Kept, Reloaded, OrderlyInv, LoadOk, ReadOk
<1>4. /\ Answers(x) /\ x.client = c /\ x.version = dll'[d].version /\ x.size = Length(x.version)
      /\ ~ Greets(x)
  BY <1>1, <1>3 DEF BeginAnswer, ServedVersionIsCrc, Answers, Greets
<1>5. user' = [user EXCEPT ![c] = n] /\ n.age = 0
  <2>1. user' = [user EXCEPT ![c] = n]
    BY DEF BeginServed, BeginAdmitted
  <2>2. Greeted(m) \in UserRecord
    BY <1>1 DEF Greeted, VerStr, UserRecord
  <2>3. n.age = 0
    BY <2>2 DEF UserRecord
  <2> QED
    BY <2>1, <2>3
<1>6. TooSoon(user'[c]) /\ \A e \in Client : e # c => user'[e] = user[e]
  <2> HIDE DEF n
  <2>1. user'[c] = n /\ \A e \in Client : e # c => user'[e] = user[e]
    BY <1>1, <1>5
  <2> QED
    BY <1>5, <2>1, ServerAssumption DEF TooSoon
<1>7. net' \subseteq rest \cup {x}
  BY Sent DEF BeginServed
<1> HIDE DEF c, d, x, n
\* Nobody is answered yet, and nobody downloads.
<1>8. \A y \in net : y.client = c => ~ Answers(y)
  BY <1>2 DEF OrderlyInv
<1>9. ~ up[c].updating
  BY <1>2 DEF OrderlyInv, c
<1>10. \A y \in net' : y = x \/ (y \in net /\ (Answers(y) => y.client # c))
  BY <1>7, <1>8
<1>11. DownloadIsCoherent'
  BY DEF OrderlyInv, DownloadIsCoherent
<1>12. \A y \in net' : Answers(y) => y.size = Length(y.version) /\ TooSoon(user'[y.client])
  BY <1>1, <1>4, <1>6, <1>10 DEF OrderlyInv
<1>13. \A y, z \in net' : Answers(y) /\ Answers(z) /\ y.client = z.client => y.version = z.version
  BY <1>4, <1>10 DEF OrderlyInv
<1>14. \A y \in net' : y.type = "piece_reply" => y.bytes = y.version
  BY <1>4, <1>10 DEF OrderlyInv, Answers
<1>15. ASSUME NEW y \in net', up'[y.client].updating
       PROVE  /\ Greets(y) => TooSoon(user'[y.client])
              /\ Answers(y) => y.version = up'[y.client].version
  <2>1. y \in net /\ y.client # c
    BY <1>4, <1>9, <1>10, <1>15
  <2> QED
    BY <1>1, <1>6, <1>15, <2>1 DEF OrderlyInv
<1> QED
  BY <1>3, <1>11, <1>12, <1>13, <1>14, <1>15 DEF OrderlyInv

\* The pieces of a build that is announced as it is are its own.
LEMMA PieceOrderly ==
  ASSUME TypeOK, ServedVersionIsCrc, OrderlyInv, NEW m \in net, NEW rest \in SUBSET net,
         NEW u \in UserRecord, u.ver = user[m.client].ver, u.age = user[m.client].age,
         PieceReceived(m), ~ BadPiece(m), user' = [user EXCEPT ![m.client] = u],
         net' = Carrying(rest, {PieceAnswer(m, u)}), UNCHANGED up
  PROVE  OrderlyInv'
<1> DEFINE x == PieceAnswer(m, u)
<1>1. /\ m.client \in Client /\ user \in [Client -> UserRecord]
      /\ \A y \in net : y.client \in Client
  BY Ages, DatagramFields DEF TypeOK
<1>2. \A e \in Client : user'[e].age = user[e].age
  BY <1>1
<1>3. x.type = "piece_reply" /\ x.bytes = x.version
  <2>1. DllOf(u) \in Dll /\ DllOf(u) = DllOf(user[m.client])
    BY DEF DllOf, Dll
  <2>2. x.version = dll[DllOf(u)].version
    BY <2>1 DEF BadPiece, PieceAnswer
  <2>3. dll[DllOf(u)].version = dll[DllOf(u)].data
    BY <2>1 DEF ServedVersionIsCrc, OrderlyInv
  <2> QED
    BY <2>2, <2>3 DEF PieceAnswer
<1>4. net' \subseteq rest \cup {x}
  BY Sent
<1>5. ~ locked' /\ LoadOk'
  BY DEF PieceReceived, OrderlyInv, LoadOk, ReadOk
<1> HIDE DEF x
<1> USE DEF TooSoon, Answers, Greets
<1>6. \A y \in net' : y \in net \/ y = x
  BY <1>4
<1>7. \A y \in net' : Answers(y) => y.size = Length(y.version) /\ TooSoon(user'[y.client])
  BY <1>1, <1>2, <1>3, <1>6 DEF OrderlyInv
<1>8. \A y, z \in net' : Answers(y) /\ Answers(z) /\ y.client = z.client => y.version = z.version
  BY <1>3, <1>6 DEF OrderlyInv
<1>9. \A y \in net' : y.type = "piece_reply" => y.bytes = y.version
  BY <1>3, <1>6 DEF OrderlyInv
<1>10. \A y \in net' : up'[y.client].updating =>
         /\ Greets(y) => TooSoon(user'[y.client])
         /\ Answers(y) => y.version = up'[y.client].version
  BY <1>1, <1>2, <1>3, <1>6 DEF OrderlyInv
<1>11. DownloadIsCoherent'
  BY DEF OrderlyInv, DownloadIsCoherent
<1> QED
  BY <1>5, <1>7, <1>8, <1>9, <1>10, <1>11 DEF OrderlyInv

\* A handler of the server.
LEMMA ServerOrderly ==
  ASSUME TypeOK, ServedVersionIsCrc, ServedVersionIsCrc', OrderlyInv,
         NEW m \in net, NEW rest \in SUBSET net, ServerReceives(m, rest)
  PROVE  OrderlyInv'
<1>1. UNCHANGED up /\ m.client \in Client /\ user \in [Client -> UserRecord]
  BY Ages DEF ServerReceives, updaterVars
<1>2. ASSUME net' = rest, UNCHANGED <<disk, locked>>,
             \A e \in Client : user'[e].age = user[e].age
      PROVE  OrderlyInv'
  <2>1. ~ locked' /\ LoadOk'
    BY <1>2 DEF OrderlyInv, LoadOk, ReadOk
  <2> QED
    BY <1>1, <1>2, <2>1, OrderlyKept
<1>3. CASE BeginRefused(m, rest)
  <2>1. \A e \in Client : user'[e].age = user[e].age
    BY <1>1, <1>3, Ages DEF BeginRefused
  <2> QED
    BY <1>2, <1>3, <2>1 DEF BeginRefused
<1>4. CASE BeginServed(m, rest)
  BY <1>1, <1>4, AnswerOrderly
<1>5. CASE BeginUnserved(m, rest)
  BY <1>5 DEF BeginUnserved, LoadFailed, LoadBlocked, OrderlyInv
<1>6. CASE PieceDropped(m, rest)
  BY <1>2, <1>6 DEF PieceDropped, PieceReceived
<1>7. CASE PieceServed(m, rest)
  <2> DEFINE n == Settled(Counted(m))
  <2>1. PieceReceived(m) /\ ~ BadPiece(m) /\ m.type = "piece_request"
    BY <1>7 DEF PieceServed, PieceReceived
  <2>2. Counted(m) \in UserRecord /\ Counted(m).ver = user[m.client].ver
    BY <1>7, <2>1, CountedType DEF PieceServed
  <2>3. n \in UserRecord /\ n.ver = user[m.client].ver
    BY <2>2, SettledType, SettledVer
  <2>4. n.age = user[m.client].age
    BY <2>2, Ages DEF Settled, UserRecord
  <2>5. user' = [user EXCEPT ![m.client] = n] /\ net' = Carrying(rest, {PieceAnswer(m, n)})
    BY <1>7 DEF PieceServed
  <2> HIDE DEF n
  <2> QED
    BY <1>1, <2>1, <2>3, <2>4, <2>5, PieceOrderly
<1>8. CASE PieceReduced(m, rest)
  <2> DEFINE h == [Counted(m) EXCEPT !.maxSize = @ \div 2, !.retry = 0]
             n == Settled(h)
  <2>1. PieceReceived(m) /\ ~ BadPiece(m) /\ m.type = "piece_request"
    BY <1>8 DEF PieceReduced, PieceReceived
  <2>2. h \in UserRecord /\ h.ver = user[m.client].ver
    BY <2>1, HalvedType
  <2>3. h.age = user[m.client].age
    BY <2>1, CountedType, Ages DEF CountedRecord
  <2> HIDE DEF h
  <2>4. n \in UserRecord /\ n.ver = user[m.client].ver
    BY <2>2, SettledType, SettledVer
  <2>5. n.age = user[m.client].age
    BY <2>2, <2>3 DEF Settled, UserRecord
  <2>6. user' = [user EXCEPT ![m.client] = n] /\ net' = Carrying(rest, {PieceAnswer(m, n)})
    BY <1>8 DEF PieceReduced, h
  <2> HIDE DEF n
  <2> QED
    BY <1>1, <2>1, <2>4, <2>5, <2>6, PieceOrderly
<1>9. CASE PieceReset(m, rest)
  <2> DEFINE n == [Counted(m) EXCEPT !.retry = 0, !.maxSize = 0]
  <2>1. n.age = user[m.client].age
    BY <1>9, CountedType, Ages DEF PieceReset, PieceReceived, CountedRecord
  <2>2. user' = [user EXCEPT ![m.client] = n]
    BY <1>9 DEF PieceReset
  <2> HIDE DEF n
  <2>3. \A e \in Client : user'[e].age = user[e].age
    BY <1>1, <2>1, <2>2
  <2> QED
    BY <1>2, <1>9, <2>3 DEF PieceReset, PieceReceived
<1> QED
  BY <1>3, <1>4, <1>5, <1>6, <1>7, <1>8, <1>9 DEF ServerReceives, ServerHandles

\* A download starts with the only answer there is.
LEMMA StartOrderly ==
  ASSUME TypeOK, OrderlyInv, NEW m \in net, NEW rest \in SUBSET net, DownloadStarted(m, rest),
         UNCHANGED serverVars
  PROVE  OrderlyInv'
<1> DEFINE c == m.client
           n == [up[c] EXCEPT !.updating = TRUE, !.offset = 0, !.size = m.size,
                              !.version = m.version, !.signed = m.signed, !.bytes = {}]
<1>1. /\ c \in Client /\ up \in [Client -> UpdaterState] /\ \A y \in net : y.client \in Client
      /\ user' = user
  BY DatagramFields DEF TypeOK, UpdaterTypeOK, serverVars
<1>2. n.updating /\ n.version = m.version /\ n.bytes = {} /\ n.size = m.size /\ n.current = up[c].current
  BY <1>1 DEF UpdaterState
<1>3. up' = [up EXCEPT ![c] = n] /\ net' = rest
  BY DEF DownloadStarted
<1> HIDE DEF n
<1>4. up'[c] = n /\ \A e \in Client : e # c => up'[e] = up[e]
  BY <1>1, <1>3
<1>5. Answers(m) /\ m.version # up[c].current
  BY DEF DownloadStarted, IsPing, Answers
<1>6. m.size = Length(m.version) /\ TooSoon(user[c])
  BY <1>5 DEF OrderlyInv
<1>7. \A y \in net : Answers(y) /\ y.client = c => y.version = m.version
  BY <1>5 DEF OrderlyInv
<1>8. ~ locked' /\ LoadOk'
  BY DEF OrderlyInv, serverVars, LoadOk, ReadOk
<1> HIDE DEF c
<1>9. \A y \in net' : up'[y.client].updating =>
        /\ Greets(y) => TooSoon(user'[y.client])
        /\ Answers(y) => y.version = up'[y.client].version
  BY <1>1, <1>2, <1>3, <1>4, <1>6, <1>7 DEF OrderlyInv
<1>10. DownloadIsCoherent'
  <2> SUFFICES ASSUME NEW e \in Client, up'[e].updating
               PROVE  /\ up'[e].version # up'[e].current
                      /\ up'[e].bytes \subseteq {up'[e].version}
                      /\ up'[e].size = Length(up'[e].version)
    BY DEF DownloadIsCoherent
  <2>1. CASE e = c
    BY <1>2, <1>4, <1>5, <1>6, <2>1
  <2>2. CASE e # c
    BY <1>4, <2>2 DEF OrderlyInv, DownloadIsCoherent
  <2> QED
    BY <2>1, <2>2
<1> QED
  BY <1>1, <1>3, <1>8, <1>9, <1>10 DEF OrderlyInv

\* One meter's step, by what it leaves of its download.
Continues(old, new) ==
  new.updating =>
    /\ old.updating /\ new.version = old.version /\ new.current = old.current
    /\ new.bytes \subseteq old.bytes \cup {old.version} /\ new.size = old.size

LEMMA MeterOrderly ==
  ASSUME TypeOK, OrderlyInv, UNCHANGED serverVars, NEW c \in Client, NEW n,
         up' = [up EXCEPT ![c] = n], Continues(up[c], n),
         \A m \in net' : \/ m \in net
                         \/ m.type = "piece_request"
                         \/ Greets(m) /\ m.client = c /\ ~ n.updating
  PROVE  OrderlyInv'
<1>1. up \in [Client -> UpdaterState]
  BY DEF TypeOK, UpdaterTypeOK
<1>2. up'[c] = n /\ \A e \in Client : e # c => up'[e] = up[e]
  BY <1>1
<1>3. ~ locked' /\ LoadOk' /\ user' = user
  BY DEF OrderlyInv, serverVars, LoadOk, ReadOk
<1>4. \A e \in Client : Continues(up[e], up'[e])
  BY <1>2 DEF Continues
<1> QED
  BY <1>2, <1>3, <1>4, OrderlyKept DEF Continues

\* A handler of the meter.
LEMMA UpdaterOrderly ==
  ASSUME TypeOK, OrderlyInv, NEW m \in net, NEW rest \in SUBSET net, UpdaterReceives(m, rest)
  PROVE  OrderlyInv'
<1> DEFINE c == m.client
           u == up[c]
<1>1. c \in Client /\ u \in UpdaterState
  BY DatagramFields DEF TypeOK, UpdaterTypeOK
<1>2. PICK s : UpdaterHandles(m, rest, s)
  BY DEF UpdaterReceives
<1>3. UNCHANGED serverVars
  BY DEF UpdaterReceives
<1>4. CASE PingReceived(m, rest)
  <2> DEFINE n == AfterPing(u, m)
  <2>1. u.updating => m.version = u.version
    BY <1>4 DEF PingReceived, OrderlyInv, Answers
  <2>2. Continues(u, n)
    BY <1>1, <2>1 DEF Continues, UpdaterState, AfterPing
  <2>3. up' = [up EXCEPT ![c] = n] /\ net' = rest
    BY <1>4 DEF PingReceived
  <2> HIDE DEF n
  <2> QED
    BY <1>1, <1>3, <2>2, <2>3, MeterOrderly
<1>5. CASE DownloadStarted(m, rest)
  BY <1>3, <1>5, StartOrderly
<1>6. CASE PieceAccepted(m, rest, s)
  <2> DEFINE n == [u EXCEPT !.offset = u.offset + m.size, !.seq = s,
                            !.bytes = u.bytes \cup {m.bytes}]
  <2>1. m.bytes = u.version
    BY <1>6 DEF PieceAccepted, Expected, OrderlyInv
  <2>2. Continues(u, n)
    BY <1>1, <2>1 DEF Continues, UpdaterState
  <2>3. up' = [up EXCEPT ![c] = n] /\ net' = rest
    BY <1>6 DEF PieceAccepted
  <2> HIDE DEF n
  <2> QED
    BY <1>1, <1>3, <2>2, <2>3, MeterOrderly
<1>7. CASE PieceIgnored(m, rest)
  <2>1. up' = [up EXCEPT ![c] = u] /\ net' = rest
    BY <1>7 DEF PieceIgnored, updaterVars, TypeOK, UpdaterTypeOK
  <2>2. Continues(u, u)
    BY DEF Continues
  <2> QED
    BY <1>1, <1>3, <2>1, <2>2, MeterOrderly
<1> QED
  BY <1>2, <1>4, <1>5, <1>6, <1>7 DEF UpdaterHandles

\* The rest of a frame, and the start of a meter.
LEMMA FrameOrderly ==
  ASSUME TypeOK, OrderlyInv, NEW c \in Client, Frame(c) \/ (Reload(c) /\ UNCHANGED serverVars)
  PROVE  OrderlyInv'
<1> DEFINE u == up[c]
<1>1. u \in UpdaterState /\ UNCHANGED serverVars
  BY DEF TypeOK, UpdaterTypeOK, Frame
<1>2. ASSUME NEW s, Poll(c, s)
      PROVE  OrderlyInv'
  <2> DEFINE x == [type |-> "begin_request", client |-> c, version |-> up[c].current, seq |-> s]
             n == [u EXCEPT !.pollAge = 0, !.seq = s]
  <2>1. ~ n.updating
    BY <1>1, <1>2 DEF Poll, UpdaterState
  <2>2. up' = [up EXCEPT ![c] = n] /\ net' = Carrying(net, {x})
    BY <1>2 DEF Poll
  <2>3. Greets(x) /\ x.client = c
    BY DEF Greets
  <2> HIDE DEF x, n
  <2>4. \A m \in net' : m \in net \/ m = x
    BY <2>2, Sent
  <2> QED
    BY <1>1, <2>1, <2>2, <2>3, <2>4, MeterOrderly DEF Continues
<1>3. CASE RequestPiece(c)
  <2> DEFINE x == [type |-> "piece_request", client |-> c, version |-> up[c].version,
                   offset |-> up[c].offset,
                   size |-> Smaller(up[c].size - up[c].offset, UPDATE_SIZE), seq |-> up[c].seq]
             n == [u EXCEPT !.pieceAge = 0]
  <2>1. Continues(u, n)
    BY <1>1 DEF Continues, UpdaterState
  <2>2. up' = [up EXCEPT ![c] = n] /\ net' = Carrying(net, {x})
    BY <1>3 DEF RequestPiece
  <2>3. x.type = "piece_request"
    OBVIOUS
  <2> HIDE DEF x, n
  <2>4. \A m \in net' : m \in net \/ m = x
    BY <2>2, Sent
  <2> QED
    BY <1>1, <2>1, <2>2, <2>3, <2>4, MeterOrderly
<1>4. CASE VerifyFailed(c) \/ Install(c)
  <2> DEFINE n == [u EXCEPT !.updating = FALSE, !.offset = 0]
  <2>1. ~ n.updating
    BY <1>1 DEF UpdaterState
  <2>2. up' = [up EXCEPT ![c] = n] /\ UNCHANGED net
    BY <1>4 DEF VerifyFailed, Install
  <2> HIDE DEF n
  <2> QED
    BY <1>1, <2>1, <2>2, MeterOrderly DEF Continues
<1>5. CASE Reload(c)
  <2>1. PICK v : up' = [up EXCEPT ![c] = Started(v)]
    BY <1>5 DEF Reload
  <2>2. ~ Started(v).updating /\ UNCHANGED net
    BY <1>5 DEF Started, Reload
  <2> DEFINE n == Started(v)
  <2> HIDE DEF n
  <2>3. ~ n.updating /\ up' = [up EXCEPT ![c] = n]
    BY <2>1, <2>2 DEF n
  <2> QED
    BY <1>1, <2>2, <2>3, MeterOrderly DEF Continues
<1> QED
  BY <1>2, <1>3, <1>4, <1>5 DEF Frame

\* What the operator and the other meters do.
LEMMA EnvironmentOrderly ==
  ASSUME Orderly, TypeOK, OrderlyInv, ServerEnvironment, UNCHANGED updaterVars
  PROVE  OrderlyInv'
<1>1. /\ disk \in [Dll -> DiskFiles] /\ \A d \in Dll : ReadOk(d)
      /\ UNCHANGED up
  BY DEF TypeOK, ServerTypeOK, OrderlyInv, LoadOk, updaterVars
<1>2. ASSUME UNCHANGED <<net, user>>, ~ locked', LoadOk'
      PROVE  OrderlyInv'
  BY <1>1, <1>2, OrderlyKept
<1>3. ASSUME NEW d \in Dll, NEW v \in Version, PublishBuild(d, v)
      PROVE  OrderlyInv'
  <2>1. LoadOk'
    BY <1>1, <1>3, NetworkAssumption DEF PublishBuild, DiskFiles, LoadOk, ReadOk
  <2> QED
    BY <1>2, <1>3, <2>1 DEF PublishBuild, OrderlyInv
<1>4. ASSUME NEW d \in Dll, PublishSignature(d)
      PROVE  OrderlyInv'
  <2>1. LoadOk'
    BY <1>1, <1>4 DEF PublishSignature, DiskFiles, LoadOk, ReadOk
  <2> QED
    BY <1>2, <1>4, <2>1 DEF PublishSignature, OrderlyInv
<1>5. ASSUME NEW d \in Dll, OtherBegin(d)
      PROVE  OrderlyInv'
  <2>1. ~ locked' /\ LoadOk'
    BY <1>5 DEF OtherBegin, Kept, Reloaded, LoadFailed, LoadBlocked, OrderlyInv, LoadOk, ReadOk
  <2> QED
    BY <1>2, <1>5, <2>1 DEF OtherBegin
<1> QED
  BY <1>3, <1>4, <1>5 DEF ServerEnvironment, Unpublish, Restart, Evict, Orderly

\* The clock ticks when nothing is on its way any more.
LEMMA TickOrderly ==
  ASSUME Orderly, TypeOK, OrderlyInv, Tick
  PROVE  OrderlyInv'
<1>1. net = {} /\ net' = {} /\ ~ locked' /\ LoadOk'
  BY DEF Orderly, Tick, ServerTick, OrderlyInv, LoadOk, ReadOk
<1>2. up \in [Client -> UpdaterState]
  BY DEF TypeOK, UpdaterTypeOK
<1>3. \A c \in Client : /\ up'[c].updating = up[c].updating /\ up'[c].version = up[c].version
                        /\ up'[c].current = up[c].current /\ up'[c].bytes = up[c].bytes
                        /\ up'[c].size = up[c].size
  BY <1>2 DEF Tick, UpdaterTick, UpdaterState
<1>4. DownloadIsCoherent'
  BY <1>3 DEF OrderlyInv, DownloadIsCoherent
<1> QED
  BY <1>1, <1>4 DEF OrderlyInv

LEMMA NextOrderly ==
  ASSUME Orderly, TypeOK, ServedVersionIsCrc, ServedVersionIsCrc', OrderlyInv, [Next]_vars
  PROVE  OrderlyInv'
<1>1. ASSUME NEW m \in net, NEW rest \in AfterReceive(m),
             ServerReceives(m, rest) \/ UpdaterReceives(m, rest)
      PROVE  OrderlyInv'
  BY <1>1, Received, ServerOrderly, UpdaterOrderly
<1>2. ASSUME UNCHANGED <<serverVars, updaterVars>>, net' \subseteq net
      PROVE  OrderlyInv'
  <2>1. ~ locked' /\ LoadOk' /\ UNCHANGED <<user, up>>
    BY <1>2 DEF OrderlyInv, LoadOk, ReadOk, serverVars, updaterVars
  <2> QED
    BY <1>2, <2>1, OrderlyKept
<1>3. ASSUME NEW m \in net, Lose(m)
      PROVE  OrderlyInv'
  BY <1>2, <1>3 DEF Lose
<1>4. CASE UNCHANGED vars
  BY <1>2, <1>4 DEF vars, serverVars, updaterVars
<1> QED
  BY <1>1, <1>3, <1>4, FrameOrderly, EnvironmentOrderly, TickOrderly DEF Next

\* On an orderly path a meter that downloads asks for the build its download was started
\* with, whatever is published meanwhile, duplicated, lost or asked by others, and
\* however often the game starts the meter again (updater.c:131-238).
THEOREM DownloadCorrect == Orderly => (Spec => []DownloadIsCoherent)
<1>1. Init => OrderlyInv
  <2> SUFFICES ASSUME Init PROVE OrderlyInv
    OBVIOUS
  <2>1. LoadOk
    BY NetworkAssumption DEF Init, ServerInit, LoadOk, ReadOk
  <2>2. \A c \in Client : ~ up[c].updating
    BY DEF Init, Started
  <2> QED
    BY <2>1, <2>2 DEF Init, ServerInit, OrderlyInv, DownloadIsCoherent
<1>2. Orderly /\ TypeOK /\ ServedVersionIsCrc /\ ServedVersionIsCrc' /\ OrderlyInv /\ [Next]_vars
        => OrderlyInv'
  BY NextOrderly
<1>3. OrderlyInv => DownloadIsCoherent
  BY DEF OrderlyInv
<1>4. ASSUME Orderly
      PROVE  Spec => []DownloadIsCoherent
  <2>1. TypeOK /\ ServedVersionIsCrc /\ ServedVersionIsCrc' /\ OrderlyInv /\ [Next]_vars
          => OrderlyInv'
    BY <1>2, <1>4
  <2> QED
    BY <1>1, <1>3, <2>1, TypeCorrect, ServedCorrect, PTL DEF Spec
<1> QED
  BY <1>4
-----------------------------------------------------------------------------
(***************************************************************************)
(* The lock of meter_load.                                                 *)
(***************************************************************************)

\* No load failed yet, and the next will not.
LoadsSucceed == ~ locked /\ ~ hung /\ LoadOk

LEMMA LoadsStep ==
  ASSUME "unpublish" \notin Faults, TypeOK, LoadsSucceed, [Next]_vars
  PROVE  LoadsSucceed'
<1> USE DEF LoadsSucceed
<1>1. disk \in [Dll -> DiskFiles] /\ \A d \in Dll : ReadOk(d)
  BY DEF TypeOK, ServerTypeOK, LoadOk
<1>2. ASSUME UNCHANGED <<disk, locked, hung>>
      PROVE  LoadsSucceed'
  BY <1>2 DEF LoadOk, ReadOk
<1>3. ASSUME NEW m, NEW rest, ServerReceives(m, rest)
      PROVE  LoadsSucceed'
  <2>1. CASE BeginServed(m, rest)
    BY <1>2, <2>1 DEF BeginServed, BeginAdmitted, Kept, Reloaded
  <2>2. CASE BeginUnserved(m, rest)
    BY <2>2 DEF BeginUnserved, LoadFailed, LoadBlocked
  <2>3. CASE BeginRefused(m, rest)
    BY <1>2, <2>3 DEF BeginRefused
  <2>4. CASE PieceReceived(m)
    BY <1>2, <2>4 DEF PieceReceived
  <2> QED
    BY <1>3, <2>1, <2>2, <2>3, <2>4 DEF ServerReceives, ServerHandles, PieceDropped, PieceServed,
                                        PieceReduced, PieceReset
<1>4. CASE ServerEnvironment
  <2>1. ASSUME NEW d \in Dll, NEW v \in Version, PublishBuild(d, v)
        PROVE  LoadsSucceed'
    BY <1>1, <2>1, NetworkAssumption DEF PublishBuild, DiskFiles, LoadOk, ReadOk
  <2>2. ASSUME NEW d \in Dll, PublishSignature(d)
        PROVE  LoadsSucceed'
    BY <1>1, <2>2 DEF PublishSignature, DiskFiles, LoadOk, ReadOk
  <2>3. ASSUME NEW d \in Dll, OtherBegin(d)
        PROVE  LoadsSucceed'
    BY <1>2, <2>3 DEF OtherBegin, Kept, Reloaded, LoadFailed, LoadBlocked
  <2>4. CASE Restart
    BY <2>4 DEF Restart, LoadOk, ReadOk
  <2>5. ASSUME NEW c \in Client, Evict(c)
        PROVE  LoadsSucceed'
    BY <1>2, <2>5 DEF Evict
  <2> QED
    BY <1>4, <2>1, <2>2, <2>3, <2>4, <2>5 DEF ServerEnvironment, Unpublish
<1>5. ASSUME UNCHANGED serverVars
      PROVE  LoadsSucceed'
  BY <1>2, <1>5 DEF serverVars
<1>6. CASE Tick
  BY <1>2, <1>6 DEF Tick, ServerTick
<1>7. CASE UNCHANGED vars
  BY <1>2, <1>7 DEF vars
<1> QED
  BY <1>3, <1>4, <1>5, <1>6, <1>7 DEF Next, UpdaterReceives, Frame, Lose

\* A file that is missing when meter_load runs is the only thing that can hang the server:
\* as long as builds and signatures are replaced in place, no load fails, the lock is
\* released each time, and the server thread never waits for it (server/entry.c:142-175).
THEOREM ResponsiveUnlessMissing == "unpublish" \notin Faults => (Spec => []ServerResponsive)
<1>1. Init => LoadsSucceed
  BY NetworkAssumption DEF Init, ServerInit, LoadsSucceed, LoadOk, ReadOk
<1>2. LoadsSucceed => ServerResponsive
  BY DEF LoadsSucceed, ServerResponsive
<1>3. ASSUME "unpublish" \notin Faults
      PROVE  Spec => []ServerResponsive
  <2>1. TypeOK /\ LoadsSucceed /\ [Next]_vars => LoadsSucceed'
    BY <1>3, LoadsStep
  <2> QED
    BY <1>1, <1>2, <2>1, TypeCorrect, PTL DEF Spec
<1> QED
  BY <1>3
=============================================================================
