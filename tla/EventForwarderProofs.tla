------------------------- MODULE EventForwarderProofs -------------------------
(***************************************************************************)
(* What holds of EventForwarder for every number of messages, connections  *)
(* and congestions, frames of every shape, records of every size, and      *)
(* whichever bits of the network events the thread looks at.               *)
(***************************************************************************)
EXTENDS EventForwarder, TLAPS, FiniteSetTheorems, SequenceTheorems, WellFoundedInduction

-----------------------------------------------------------------------------
(* The inductive invariant                                                 *)

(* The block that is being sent and how far the context says it is.        *)
PhaseInv ==
  /\ phase = "sending_length" => block = 1
  /\ phase = "sending_fragment" => block > 1
  /\ phase = "completed" => block = Len(FrameEnds) /\ size = 0

(* A call of the socket is made in one state of run only.                  *)
CallInv ==
  /\ call \in {"configure", "handshake", "poll_handshake"} => state = "Connecting"
  /\ call \in {"close_notify", "poll_close"} => state = "Stopping"
  /\ call = "poll_close" => want = "write"

(* The session through the life of a connection.                           *)
SessionInv ==
  /\ session # "stale"
  /\ state = "Connecting" /\ call = "idle" => ~connected
  /\ state = "Connecting" /\ call \in {"idle", "configure"} => session = "none"
  /\ state = "Connecting" /\ call \in {"handshake", "poll_handshake"} =>
       connected /\ session = "own"
  /\ call = "configure" => connected
  /\ state \in {"Connected", "WaitingMessage", "Sending"} =>
       connected /\ session = "own" /\ over /\ opened > 0

(* The message that is held is the one popped last.                        *)
HeldInv ==
  /\ message # NULL => message = popped
  /\ state = "WaitingMessage" => message = NULL

(* The record that was not taken whole is what is offered next.            *)
RecordInv ==
  record # <<>> =>
    /\ state \in {"Sending", "Disconnected"} /\ message # NULL
    /\ record = SubSeq(Buffer, 1, RecordSize(size))

(* The last byte of connection c, if any, is byte p of message m's frame.  *)
EndsWith(c, m, p) == stream[c] # <<>> /\ stream[c][Len(stream[c])] = <<m, p>>

(* The present connection took the frame up to where the context is, and   *)
(* no later connection anything.                                           *)
PositionInv ==
  /\ \A c \in Connections : c > opened => stream[c] = <<>>
  /\ state = "Connected" => stream[opened] = <<>>
  /\ state \in {"WaitingMessage", "Sending"} =>
       IF message = NULL THEN stream[opened] = <<>> \/ EndsWith(opened, popped, FrameSize)
       ELSE IF sent = 0 THEN stream[opened] = <<>> \/ EndsWith(opened, message - 1, FrameSize)
       ELSE EndsWith(opened, message, sent)

DeliveryInv == StreamIsFrames /\ PoppedIsSentOrHeld /\ NothingOvertakes

ForwarderInv ==
  /\ TypeOK /\ PhaseInv /\ CallInv /\ SessionInv /\ HeldInv
  /\ RecordInv /\ PositionInv /\ DeliveryInv
-----------------------------------------------------------------------------
(* Types                                                                   *)

(***************************************************************************)
(* The blocks of a frame end inside of it, and a frame is not empty.       *)
(***************************************************************************)
LEMMA FrameBounds ==
  /\ FrameSize \in Nat \ {0}
  /\ \A b \in 1 .. Len(FrameEnds) :
       /\ FrameEnds[b] \in 1 .. FrameSize
       /\ b > 1 => b - 1 \in 1 .. Len(FrameEnds) /\ FrameEnds[b - 1] <= FrameEnds[b]
  /\ 1 \in 1 .. Len(FrameEnds) /\ 2 \in 1 .. Len(FrameEnds)
  /\ Len(FrameEnds) \in 1 .. Len(FrameEnds)
<1>1. /\ Len(FrameEnds) \in Nat /\ Len(FrameEnds) >= 2
      /\ \A b \in 1 .. Len(FrameEnds) : FrameEnds[b] \in Nat
  BY ForwarderAssumption
<1>2. \A b \in 1 .. Len(FrameEnds) : FrameEnds[1] <= FrameEnds[b] /\ FrameEnds[b] <= FrameSize
  BY <1>1, ForwarderAssumption DEF FrameSize
<1>3. FrameSize \in Nat
  BY <1>1 DEF FrameSize
<1>4. QED
  BY <1>1, <1>2, <1>3, ForwarderAssumption

(***************************************************************************)
(* The bytes a call of send offers are bytes of the frame, and so are the  *)
(* ones that make its record.                                              *)
(***************************************************************************)
LEMMA BufferOffers ==
  ASSUME ContextOK, message # NULL
  PROVE  /\ Buffer \in Seq(Byte) /\ Len(Buffer) = size
         /\ \A k \in 1 .. size : Buffer[k] = <<message, sent + k>>
<1>1. sent \in Nat /\ size \in Nat /\ message \in Messages
  BY DEF ContextOK
<1>2. Buffer = [k \in 1 .. size |-> <<message, sent + k>>]
  <2>1. (sent + size) - (sent + 1) + 1 = size
    BY <1>1
  <2>2. \A k \in 1 .. size : (sent + 1) + k - 1 = sent + k
    BY <1>1
  <2>3. QED
    BY <2>1, <2>2 DEF Buffer, Bytes
<1>3. \A k \in 1 .. size : <<message, sent + k>> \in Byte
  <2>1. sent + size <= FrameSize
    BY FrameBounds DEF ContextOK
  <2>2. QED
    BY <1>1, <2>1, FrameBounds DEF Byte
<1>4. Buffer \in Seq(Byte)
  <2>1. Buffer \in [1 .. size -> Byte]
    BY <1>2, <1>3, Zenon
  <2>2. QED
    BY <1>1, <2>1, SeqDef
<1>5. Len(Buffer) = size
  BY <1>1, <1>2
<1>6. QED
  BY <1>2, <1>4, <1>5

LEMMA RecordOffers ==
  ASSUME ContextOK, message # NULL
  PROVE  LET n == RecordSize(size)
             r == SubSeq(Buffer, 1, n)
         IN  /\ n \in 0 .. size /\ n <= MaxRecord
             /\ size > 0 => n > 0
             /\ r \in Seq(Byte) /\ Len(r) = n
             /\ \A k \in 1 .. n : r[k] = <<message, sent + k>>
<1>1. size \in Nat /\ MaxRecord \in Nat \ {0}
  BY SocketAssumption DEF ContextOK
<1>2. RecordSize(size) \in 0 .. size /\ RecordSize(size) <= MaxRecord /\ (size > 0 => RecordSize(size) > 0)
  BY <1>1 DEF RecordSize
<1>3. QED
  BY <1>1, <1>2, BufferOffers

(***************************************************************************)
(* A step of the socket that offers nothing to the connection.             *)
(***************************************************************************)
Connects == ConnectGoesOn \/ HandshakeSucceeds \/ ConnectReturnsFalse \/ AllocFails
ShutsDown == ShutdownGoesOn \/ ShutdownReturns
Quiet == Connects \/ Close \/ ShutsDown \/ Network

LEMMA QuietCalls ==
  ASSUME CallOK, Quiet
  PROVE  CallOK'
<1> USE DEF CallOK, Return, calling
<1>1. CASE ConnectGoesOn
  BY <1>1, Zenon DEF ConnectGoesOn, TcpConnects, NewDescriptor, Configure, HandshakeGoesOn,
                     HandshakeWaits, PollReady
<1>2. CASE HandshakeSucceeds \/ AllocFails
  BY <1>2, Zenon DEF HandshakeSucceeds, AllocFails
<1>3. CASE ConnectReturnsFalse
  BY <1>3, Zenon DEF ConnectReturnsFalse, TcpConnectFails, SetBlockingModeFails, ConfigureFails,
                     NewDescriptor, HandshakeError, HandshakeTimeout, socket
<1>4. CASE Close
  BY <1>4, Zenon DEF Close
<1>5. CASE ShutsDown
  BY <1>5, Zenon DEF ShutsDown, ShutdownGoesOn, ShutdownReturns, ShutdownBegins, NotifyWaits,
                     PollReady, ShutdownClosed, Notified, ShutdownUnnoticed, socket
<1>6. CASE Network
  BY <1>6, Zenon DEF Network, PeerAnswers, PeerCloses, Congest, Drain, Elapse
<1>7. QED
  BY <1>1, <1>2, <1>3, <1>4, <1>5, <1>6 DEF Quiet, Connects

LEMMA QuietSession ==
  ASSUME NEW B, TlsOK(B), Quiet
  PROVE  TlsOK(B)' /\ record' \in {record, <<>>}
<1> USE SocketAssumption DEF TlsOK, tls, Clear, ClearContext
<1>1. CASE ConnectGoesOn
  BY <1>1 DEF ConnectGoesOn, TcpConnects, NewDescriptor, Configure, HandshakeGoesOn,
              HandshakeWaits, PollReady
<1>2. CASE HandshakeSucceeds \/ AllocFails
  <2>1. over' \in BOOLEAN
    BY <1>2, Zenon DEF HandshakeSucceeds, AllocFails
  <2>2. UNCHANGED <<session, record>>
    BY <1>2, Zenon DEF HandshakeSucceeds, AllocFails
  <2>3. QED
    BY <2>1, <2>2
<1>3. CASE ConnectReturnsFalse
  <2>1. UNCHANGED <<over, record>> /\ session' \in {session, "none", "own", "stale"}
    BY <1>3 DEF ConnectReturnsFalse, TcpConnectFails, SetBlockingModeFails, ConfigureFails,
                NewDescriptor, HandshakeError, HandshakeTimeout, socket
  <2>2. QED
    BY <2>1
<1>4. CASE Close
  <2>1. over' \in BOOLEAN
    BY <1>4, Zenon DEF Close
  <2>2. session' = "none" /\ record' = <<>>
    BY <1>4, Zenon DEF Close
  <2>3. QED
    BY <2>1, <2>2
<1>5. CASE ShutsDown
  <2>1. over' \in BOOLEAN
    BY <1>5, Zenon DEF ShutsDown, ShutdownGoesOn, ShutdownReturns, ShutdownBegins, NotifyWaits,
                       PollReady, ShutdownClosed, Notified, ShutdownUnnoticed, socket
  <2>2. session' \in {session, "none"} /\ record' \in {record, <<>>}
    BY <1>5, Zenon DEF ShutsDown, ShutdownGoesOn, ShutdownReturns, ShutdownBegins, NotifyWaits,
                       PollReady, ShutdownClosed, Notified, ShutdownUnnoticed, socket
  <2>3. record' \in Seq(B) /\ Len(record') <= MaxRecord
    <3>1. <<>> \in Seq(B) /\ Len(<<>>) <= MaxRecord
      OBVIOUS
    <3>2. QED
      BY <2>2, <3>1, Zenon
  <2>4. QED
    BY <2>1, <2>2, <2>3, Zenon
<1>6. CASE Network
  BY <1>6 DEF Network, PeerAnswers, PeerCloses, Congest, Drain, Elapse
<1>7. QED
  BY <1>1, <1>2, <1>3, <1>4, <1>5, <1>6 DEF Quiet, Connects

LEMMA QuietNetwork ==
  ASSUME NetworkOK, Quiet
  PROVE  NetworkOK'
<1> USE SocketAssumption DEF network, handshaking, CloseDescriptor, CloseSocket
<1>1. /\ connected' \in BOOLEAN /\ arrived' \in BOOLEAN
      /\ peerClosed' \in BOOLEAN /\ writable' \in BOOLEAN
  <2> USE DEF NetworkOK
  <2>1. CASE ConnectGoesOn
    BY <2>1, Zenon DEF ConnectGoesOn, TcpConnects, NewDescriptor, Configure, HandshakeGoesOn,
                       HandshakeWaits, PollReady
  <2>2. CASE HandshakeSucceeds \/ AllocFails
    BY <2>2, Zenon DEF HandshakeSucceeds, AllocFails
  <2>3. CASE ConnectReturnsFalse
    BY <2>3, Zenon DEF ConnectReturnsFalse, TcpConnectFails, SetBlockingModeFails, ConfigureFails,
                       NewDescriptor, HandshakeError, HandshakeTimeout, socket
  <2>4. CASE Close
    BY <2>4, Zenon DEF Close
  <2>5. CASE ShutsDown
    BY <2>5, Zenon DEF ShutsDown, ShutdownGoesOn, ShutdownReturns, ShutdownBegins, NotifyWaits,
                       PollReady, ShutdownClosed, Notified, ShutdownUnnoticed, socket
  <2>6. CASE Network
    BY <2>6, Zenon DEF Network, PeerAnswers, PeerCloses, Congest, Drain, Elapse
  <2>7. QED
    BY <2>1, <2>2, <2>3, <2>4, <2>5, <2>6 DEF Quiet, Connects
<1>2. flights' \in 0 .. Flights
  <2> USE DEF NetworkOK
  <2>1. CASE ConnectGoesOn
    BY <2>1 DEF ConnectGoesOn, TcpConnects, NewDescriptor, Configure, HandshakeGoesOn,
                HandshakeWaits, PollReady
  <2>2. CASE HandshakeSucceeds \/ AllocFails
    BY <2>2 DEF HandshakeSucceeds, AllocFails
  <2>3. CASE ConnectReturnsFalse
    BY <2>3 DEF ConnectReturnsFalse, TcpConnectFails, SetBlockingModeFails, ConfigureFails,
                NewDescriptor, HandshakeError, HandshakeTimeout, socket
  <2>4. CASE Close
    BY <2>4 DEF Close
  <2>5. CASE ShutsDown
    BY <2>5 DEF ShutsDown, ShutdownGoesOn, ShutdownReturns, ShutdownBegins, NotifyWaits,
                PollReady, ShutdownClosed, Notified, ShutdownUnnoticed, socket
  <2>6. CASE Network
    BY <2>6 DEF Network, PeerAnswers, PeerCloses, Congest, Drain, Elapse
  <2>7. QED
    BY <2>1, <2>2, <2>3, <2>4, <2>5, <2>6 DEF Quiet, Connects
<1>3. congestions' \in 0 .. MaxCongestions
  <2>1. congestions' = congestions \/ (congestions < MaxCongestions /\ congestions' = congestions + 1)
    BY Zenon DEF Quiet, Connects, ConnectGoesOn, TcpConnects, NewDescriptor, Configure,
       HandshakeGoesOn, HandshakeWaits, PollReady, HandshakeSucceeds, AllocFails,
       ConnectReturnsFalse, TcpConnectFails, SetBlockingModeFails, ConfigureFails, HandshakeError,
       HandshakeTimeout, Close, ShutsDown, ShutdownGoesOn, ShutdownReturns, ShutdownBegins,
       NotifyWaits, ShutdownClosed, Notified, ShutdownUnnoticed, socket,
       Network, PeerAnswers, PeerCloses, Congest, Drain, Elapse
  <2>2. QED
    BY <2>1 DEF NetworkOK
<1>4. QED
  BY <1>1, <1>2, <1>3 DEF NetworkOK

LEMMA QuietSent ==
  ASSUME opened \in Nat, Quiet
  PROVE  /\ stream' = stream
         /\ opened' = opened \/ (opened < MaxConnections /\ opened' = opened + 1)
<1> USE DEF sentData
<1>1. CASE ConnectGoesOn
  BY <1>1 DEF ConnectGoesOn, TcpConnects, NewDescriptor, Configure, HandshakeGoesOn,
              HandshakeWaits, PollReady
<1>2. CASE HandshakeSucceeds \/ AllocFails
  BY <1>2, SocketAssumption DEF HandshakeSucceeds, AllocFails, HandshakeEnds
<1>3. CASE ConnectReturnsFalse
  BY <1>3 DEF ConnectReturnsFalse, TcpConnectFails, SetBlockingModeFails, ConfigureFails,
              NewDescriptor, HandshakeError, HandshakeTimeout, socket
<1>4. CASE Close
  BY <1>4 DEF Close
<1>5. CASE ShutsDown
  BY <1>5 DEF ShutsDown, ShutdownGoesOn, ShutdownReturns, ShutdownBegins, NotifyWaits,
              PollReady, ShutdownClosed, Notified, ShutdownUnnoticed, socket
<1>6. CASE Network
  BY <1>6 DEF Network, PeerAnswers, PeerCloses, Congest, Drain, Elapse
<1>7. QED
  BY <1>1, <1>2, <1>3, <1>4, <1>5, <1>6 DEF Quiet, Connects

-----------------------------------------------------------------------------
(* The context                                                             *)

LEMMA BlockEntered ==
  ASSUME NEW b \in 1 .. Len(FrameEnds), EnterBlock(b)
  PROVE  /\ block' = b
         /\ sent' = IF b = 1 THEN 0 ELSE FrameEnds[b - 1]
         /\ sent' \in 0 .. FrameSize /\ size' \in 0 .. FrameSize
         /\ sent' + size' = FrameEnds[b]
<1>1. CASE b = 1
  BY <1>1, FrameBounds DEF EnterBlock
<1>2. CASE b # 1
  <2>1. b > 1
    BY <1>2, FrameBounds
  <2>2. FrameEnds[b] \in 1 .. FrameSize /\ FrameEnds[b - 1] \in 1 .. FrameSize
        /\ FrameEnds[b - 1] <= FrameEnds[b]
    BY <2>1, FrameBounds
  <2>3. QED
    BY <1>2, <2>2, FrameBounds DEF EnterBlock
<1>3. QED
  BY <1>1, <1>2

(***************************************************************************)
(* A message is sent from its first byte on when it is popped and when     *)
(* there is a new connection.                                              *)
(***************************************************************************)
LEMMA RestartRewinds ==
  ASSUME ContextOK, Restart, message' \in Messages \union {NULL}
  PROVE  ContextOK' /\ PhaseInv' /\ sent' = 0
<1>1. block' = 1 /\ sent' = 0 /\ size' \in 0 .. FrameSize /\ sent' + size' = FrameEnds[1]
  BY BlockEntered, FrameBounds DEF Restart
<1>2. phase' = "sending_length"
  BY DEF Restart
<1>3. QED
  BY <1>1, <1>2, FrameBounds DEF ContextOK, PhaseInv

(***************************************************************************)
(* When a block is done the context goes on where it ended, and a message  *)
(* is released where its frame ends.                                       *)
(***************************************************************************)
LEMMA AdvanceKeepsPlace ==
  ASSUME ContextOK, PhaseInv, Advance
  PROVE  /\ ContextOK' /\ PhaseInv'
         /\ sent' = sent + size
         /\ \/ message' = message
            \/ message' = NULL /\ sent = FrameSize /\ size = 0
<1> USE FrameBounds
<1>1. CASE phase = "sending_length" /\ phase' = "sending_fragment" /\ EnterBlock(2)
           /\ UNCHANGED message
  <2>1. /\ block' = 2 /\ sent' = FrameEnds[1]
        /\ sent' \in 0 .. FrameSize /\ size' \in 0 .. FrameSize
        /\ sent' + size' = FrameEnds[2]
    BY <1>1, BlockEntered
  <2>2. block = 1
    BY <1>1 DEF PhaseInv
  <2>3. QED
    BY <1>1, <2>1, <2>2 DEF ContextOK, PhaseInv
<1>2. CASE phase = "sending_fragment" /\ block < Len(FrameEnds) /\ EnterBlock(block + 1)
           /\ UNCHANGED <<message, phase>>
  <2>1. block > 1 /\ block + 1 \in 1 .. Len(FrameEnds) /\ block + 1 # 1 /\ (block + 1) - 1 = block
    BY <1>2 DEF ContextOK, PhaseInv
  <2>2. /\ block' = block + 1 /\ sent' = FrameEnds[block]
        /\ sent' \in 0 .. FrameSize /\ size' \in 0 .. FrameSize
        /\ sent' + size' = FrameEnds[block + 1]
    BY <1>2, <2>1, BlockEntered
  <2>3. QED
    BY <1>2, <2>1, <2>2 DEF ContextOK, PhaseInv
<1>3. CASE phase = "sending_fragment" /\ block = Len(FrameEnds) /\ phase' = "completed"
           /\ sent' = FrameEnds[block] /\ size' = 0 /\ UNCHANGED <<message, block>>
  BY <1>3 DEF ContextOK, PhaseInv
<1>4. CASE phase = "completed" /\ message' = NULL /\ sent' = FrameEnds[block] /\ size' = 0
           /\ UNCHANGED <<phase, block>>
  <2>1. block = Len(FrameEnds) /\ size = 0 /\ sent = FrameSize
    BY <1>4 DEF ContextOK, PhaseInv, FrameSize
  <2>2. QED
    BY <1>4, <2>1 DEF ContextOK, PhaseInv
<1>5. QED
  BY <1>1, <1>2, <1>3, <1>4 DEF Advance

(***************************************************************************)
(* After a call of send the context is behind the bytes that were taken.   *)
(***************************************************************************)
LEMMA SendOkMoves ==
  ASSUME ContextOK, PhaseInv, message # NULL, SendOk
  PROVE  /\ ContextOK' /\ PhaseInv'
         /\ sent' = sent + RecordSize(size)
         /\ message' = message
         /\ size > 0
<1>1. size > 0 /\ RecordSize(size) \in 0 .. size
  BY RecordOffers DEF SendOk
<1>2. CASE RecordSize(size) = size /\ Advance
  BY <1>1, <1>2, AdvanceKeepsPlace
<1>3. CASE /\ RecordSize(size) # size
           /\ sent' = sent + RecordSize(size)
           /\ size' = FrameEnds[block] - (sent + RecordSize(size))
           /\ UNCHANGED <<message, phase, block>>
  <2>1. /\ sent \in Nat /\ size \in Nat /\ sent + size = FrameEnds[block]
        /\ FrameEnds[block] \in 1 .. FrameSize /\ FrameSize \in Nat
    BY FrameBounds DEF ContextOK
  <2>2. sent' \in 0 .. FrameSize /\ size' \in 0 .. FrameSize /\ sent' + size' = FrameEnds[block]
    BY <1>1, <1>3, <2>1
  <2>3. phase # "completed"
    BY <1>1 DEF PhaseInv
  <2>4. QED
    BY <1>1, <1>3, <2>2, <2>3 DEF ContextOK, PhaseInv
<1>4. QED
  BY <1>2, <1>3 DEF SendOk, BlockDone, Progress

-----------------------------------------------------------------------------
(* What a step of the forwarder does                                       *)

(***************************************************************************)
(* The socket: a step offers something to the connection only when there   *)
(* is a message to send.                                                   *)
(***************************************************************************)
LEMMA SocketSteps ==
  ASSUME [Next]_vars
  PROVE  \/ Quiet \/ UNCHANGED socket
         \/ state = "Sending" /\ message # NULL /\ (SendOk \/ SendRetry)
<1>1. CASE Connecting \/ ConnectOk \/ ConnectFail \/ ConnectThrows
  BY <1>1 DEF Connecting, ConnectOk, ConnectFail, ConnectThrows, Quiet, Connects
<1>2. CASE Connected \/ PopMessage \/ PopNull \/ WaitNetwork \/ SendingDone
  BY <1>2 DEF Connected, PopMessage, PopNull, WaitNetwork, SendingDone
<1>3. CASE Disconnected
  BY <1>3 DEF Disconnected, Quiet
<1>4. CASE HandleEvents
  BY <1>4 DEF HandleEvents, Send, SendNothing, SendError, WriteError
<1>5. CASE Stopping
  BY <1>5 DEF Stopping, Quiet, ShutsDown
<1>6. CASE Push \/ Stop
  BY <1>6 DEF Push, Stop
<1>7. CASE NetworkActs
  BY <1>7 DEF NetworkActs, Quiet
<1>8. CASE UNCHANGED vars
  BY <1>8 DEF vars
<1>9. QED
  BY <1>1, <1>2, <1>3, <1>4, <1>5, <1>6, <1>7, <1>8 DEF Next, Run

(***************************************************************************)
(* The bytes that the connection takes: the record that was kept, or else  *)
(* the first bytes of what is offered.                                     *)
(***************************************************************************)
Taken == IF record # <<>> THEN record ELSE SubSeq(Buffer, 1, RecordSize(Len(Buffer)))

LEMMA TakenIsRecord ==
  ASSUME ContextOK, RecordInv, message # NULL
  PROVE  LET n == RecordSize(size)
         IN  /\ Taken \in Seq(Byte) /\ Len(Taken) = n
             /\ \A k \in 1 .. n : Taken[k] = <<message, sent + k>>
<1>1. Taken = SubSeq(Buffer, 1, RecordSize(size))
  BY BufferOffers DEF Taken, RecordInv
<1>2. QED
  BY <1>1, RecordOffers

(***************************************************************************)
(* The context: what it holds changes only when the step sends, starts     *)
(* anew or pops.                                                           *)
(***************************************************************************)
LEMMA ContextSteps ==
  ASSUME TypeOK, PhaseInv, [Next]_vars
  PROVE  ContextOK' /\ PhaseInv'
<1> USE DEF TypeOK
<1>1. CASE Connected
  <2>1. CASE message # NULL
    <3>1. Restart /\ message' \in Messages \union {NULL}
      BY <1>1, <2>1 DEF Connected, OnReconnect, ContextOK
    <3>2. QED
      BY <3>1, RestartRewinds
  <2>2. CASE message = NULL
    BY <1>1, <2>2 DEF Connected, context, ContextOK, PhaseInv
  <2>3. QED
    BY <2>1, <2>2
<1>2. CASE PopMessage
  <2>1. Restart
    BY <1>2 DEF PopMessage
  <2>2. message' \in Messages
    BY <1>2, ForwarderAssumption DEF PopMessage, QueueOK, Messages
  <2>3. QED
    BY <2>1, <2>2, RestartRewinds
<1>3. CASE HandleEvents /\ SendOk
  BY <1>3, SendOkMoves DEF HandleEvents
<1>4. CASE HandleEvents /\ SendNothing
  BY <1>4, AdvanceKeepsPlace DEF SendNothing
<1>5. CASE UNCHANGED context
  BY <1>5 DEF context, ContextOK, PhaseInv
<1>6. QED
  BY <1>1, <1>2, <1>3, <1>4, <1>5
  DEF Next, Run, Connecting, ConnectOk, ConnectFail, ConnectThrows, Disconnected, PopNull,
      WaitNetwork, HandleEvents, Send, SendRetry, SendError, SendingDone, Stopping, Push, Stop,
      NetworkActs, vars

(***************************************************************************)
(* What the connection has taken grows only by the record, on the present  *)
(* connection.                                                             *)
(***************************************************************************)
LEMMA SendOkTakes ==
  ASSUME SendOk
  PROVE  /\ stream' = [stream EXCEPT ![opened] = @ \o Taken]
         /\ record' = <<>>
         /\ UNCHANGED <<calling, connected, session, over, network, opened, announced, state>>
         /\ UNCHANGED <<flights, arrived>>
BY DEF SendOk, WriteOk, Taken, network, calling, handshaking

LEMMA SendRetryKeeps ==
  ASSUME SendRetry
  PROVE  /\ record' = Taken /\ size > 0
         /\ UNCHANGED <<calling, connected, session, over, network, sentData, state, context>>
         /\ UNCHANGED <<flights, arrived>>
BY DEF SendRetry, WriteRetry, Taken, network, calling, handshaking, sentData

LEMMA SocketFrame ==
  ASSUME SocketTypeOK(Byte), UNCHANGED socket
  PROVE  SocketTypeOK(Byte)'
<1>1. CallOK'
  BY Zenon DEF SocketTypeOK, CallOK, socket, calling
<1>2. TlsOK(Byte)'
  <2>1. UNCHANGED session /\ UNCHANGED over /\ UNCHANGED record
    BY Zenon DEF socket, tls
  <2>2. QED
    BY <2>1, Zenon DEF SocketTypeOK, TlsOK
<1>3. NetworkOK'
  BY Zenon DEF SocketTypeOK, NetworkOK, socket, network, handshaking
<1>4. SentDataOK(Byte)'
  BY Zenon DEF SocketTypeOK, SentDataOK, socket, sentData
<1>5. QED
  BY <1>1, <1>2, <1>3, <1>4 DEF SocketTypeOK

LEMMA QuietAnnounces ==
  ASSUME announced \in BOOLEAN, Quiet
  PROVE  announced' \in BOOLEAN
BY Zenon DEF Quiet, Connects, ConnectGoesOn, TcpConnects, NewDescriptor, Configure,
   HandshakeGoesOn, HandshakeWaits, PollReady, HandshakeSucceeds, AllocFails,
   ConnectReturnsFalse, TcpConnectFails, SetBlockingModeFails, ConfigureFails, HandshakeError,
   HandshakeTimeout, Close, ShutsDown, ShutdownGoesOn, ShutdownReturns, ShutdownBegins,
   NotifyWaits, ShutdownClosed, Notified, ShutdownUnnoticed, socket, sentData,
   Network, PeerAnswers, PeerCloses, Congest, Drain, Elapse

LEMMA SocketTypes ==
  ASSUME TypeOK, RecordInv, [Next]_vars
  PROVE  SocketTypeOK(Byte)'
<1> USE DEF TypeOK
<1>1. CASE Quiet
  <2>1. CallOK' /\ TlsOK(Byte)' /\ NetworkOK'
    BY <1>1, QuietCalls, QuietSession, QuietNetwork DEF SocketTypeOK
  <2>2. stream' = stream /\ opened' \in 0 .. MaxConnections
    BY <1>1, QuietSent, SocketAssumption DEF SocketTypeOK, SentDataOK
  <2>3. announced' \in BOOLEAN
    BY <1>1, QuietAnnounces DEF SocketTypeOK, SentDataOK
  <2>4. QED
    BY <2>1, <2>2, <2>3, Zenon DEF SocketTypeOK, SentDataOK
<1>2. CASE UNCHANGED socket
  BY <1>2, SocketFrame
<1>3. CASE message # NULL /\ (SendOk \/ SendRetry)
  <2>1. UNCHANGED <<calling, connected, session, over, network, opened, announced>>
        /\ UNCHANGED <<flights, arrived>>
    BY <1>3, SendOkTakes, SendRetryKeeps DEF sentData
  <2>2. CallOK'
    BY <2>1, Zenon DEF SocketTypeOK, CallOK, calling
  <2>3. NetworkOK'
    BY <2>1, Zenon DEF SocketTypeOK, NetworkOK, network
  <2>4. Taken \in Seq(Byte) /\ Len(Taken) <= MaxRecord
    BY <1>3, TakenIsRecord, RecordOffers
  <2>5. record' \in Seq(Byte) /\ Len(record') <= MaxRecord
    <3>1. <<>> \in Seq(Byte) /\ Len(<<>>) <= MaxRecord
      BY SocketAssumption
    <3>2. record' = <<>> \/ record' = Taken
      BY <1>3, SendOkTakes, SendRetryKeeps
    <3>3. QED
      BY <2>4, <3>1, <3>2, Zenon
  <2>6. TlsOK(Byte)'
    BY <2>1, <2>5, Zenon DEF SocketTypeOK, TlsOK
  <2>7. stream' \in [Connections -> Seq(Byte)]
    <3>1. CASE SendOk
      <4>1. \A c \in Connections : stream[c] \o Taken \in Seq(Byte)
        BY <2>4 DEF SocketTypeOK, SentDataOK
      <4>2. QED
        BY <3>1, <4>1, SendOkTakes DEF SocketTypeOK, SentDataOK
    <3>2. CASE SendRetry
      BY <3>2, SendRetryKeeps DEF SocketTypeOK, SentDataOK, sentData
    <3>3. QED
      BY <1>3, <3>1, <3>2
  <2>8. SentDataOK(Byte)'
    BY <2>1, <2>7, Zenon DEF SocketTypeOK, SentDataOK
  <2>9. QED
    BY <2>2, <2>3, <2>6, <2>8 DEF SocketTypeOK
<1>4. QED
  BY <1>1, <1>2, <1>3, SocketSteps

LEMMA RunTypes ==
  ASSUME TypeOK, [Next]_vars
  PROVE  RunOK' /\ QueueOK'
<1>1. state' \in {"Connecting", "Connected", "Disconnected", "WaitingMessage",
                  "Sending", "Stopping", "Stopped", "Terminated"}
  BY DEF TypeOK, RunOK, Next, Run, Connecting, ConnectOk, ConnectFail, ConnectThrows, Connected,
         Disconnected, PopMessage, PopNull, AfterNull, WaitNetwork, HandleEvents, Send, SendOk,
         SendNothing, SendRetry, SendError, SendingDone, Stopping, Push, Stop, NetworkActs, vars
<1>2. events' \in {NULL} \union SUBSET (FD_WRITE \union FD_CLOSE)
  <2>1. events' \in {events, NULL, Recorded}
    BY DEF Next, Run, Connecting, ConnectOk, ConnectFail, ConnectThrows, Connected,
           Disconnected, PopMessage, PopNull, WaitNetwork, HandleEvents, SendingDone, Stopping,
           Push, Stop, NetworkActs, vars
  <2>2. Recorded \in SUBSET (FD_WRITE \union FD_CLOSE)
    BY Zenon DEF Recorded
  <2>3. QED
    BY <2>1, <2>2, Zenon DEF TypeOK, RunOK
<1>3. stopSignal' \in BOOLEAN
  BY Zenon DEF TypeOK, QueueOK, Next, Run, Connecting, ConnectOk, ConnectFail, ConnectThrows,
     Connected, Disconnected, PopMessage, PopNull, WaitNetwork, HandleEvents, SendingDone,
     Stopping, Push, Stop, NetworkActs, vars, queue
<1>4. pushed' \in 0 .. MaxMessages /\ popped' \in 0 .. pushed'
  <2>1. \/ UNCHANGED <<pushed, popped>>
        \/ pushed < MaxMessages /\ pushed' = pushed + 1 /\ popped' = popped
        \/ popped < pushed /\ pushed' = pushed /\ popped' = popped + 1
    BY DEF Next, Run, Connecting, ConnectOk, ConnectFail, ConnectThrows, Connected,
           Disconnected, PopMessage, PopNull, WaitNetwork, HandleEvents, SendingDone, Stopping,
           Push, Stop, NetworkActs, vars, queue
  <2>2. pushed \in 0 .. MaxMessages /\ popped \in 0 .. pushed /\ MaxMessages \in Nat
    BY ForwarderAssumption DEF TypeOK, QueueOK
  <2>3. QED
    BY <2>1, <2>2
<1>5. QED
  BY <1>1, <1>2, <1>3, <1>4 DEF RunOK, QueueOK

-----------------------------------------------------------------------------
(* The calls of the socket and its session                                 *)

(***************************************************************************)
(* A descriptor and its session through connect: what each step finds and  *)
(* leaves.                                                                 *)
(***************************************************************************)
LEMMA ConnectProceeds ==
  ASSUME ConnectGoesOn
  PROVE  /\ \/ /\ call = "idle" /\ ~connected /\ connected' /\ call' = "configure"
               /\ session' = (IF session = "none" THEN "none" ELSE "stale")
            \/ /\ call = "configure" /\ call' = "handshake" /\ UNCHANGED connected
               /\ session' = (IF session = "none" THEN "own" ELSE session)
            \/ /\ call \in {"handshake", "poll_handshake"}
               /\ call' \in {"handshake", "poll_handshake"}
               /\ UNCHANGED <<connected, session>>
         /\ UNCHANGED record
<1> USE DEF tls
<1>1. CASE TcpConnects
  BY <1>1, Zenon DEF TcpConnects, NewDescriptor
<1>2. CASE Configure
  BY <1>2 DEF Configure
<1>3. CASE HandshakeGoesOn \/ HandshakeWaits
  BY <1>3 DEF HandshakeGoesOn, HandshakeWaits
<1>4. CASE PollReady("poll_handshake", "handshake")
  BY <1>4 DEF PollReady
<1>5. QED
  BY <1>1, <1>2, <1>3, <1>4 DEF ConnectGoesOn

LEMMA ConnectGivesUp ==
  ASSUME ConnectReturnsFalse \/ AllocFails
  PROVE  /\ call' = "idle"
         /\ \/ session' = session
            \/ call = "idle" /\ session' = (IF session = "none" THEN "none" ELSE "stale")
            \/ call = "configure" /\ session' = (IF session = "none" THEN "own" ELSE session)
         /\ UNCHANGED record
<1> USE DEF tls, Return
<1>1. CASE TcpConnectFails
  BY <1>1 DEF TcpConnectFails, socket, calling
<1>2. CASE SetBlockingModeFails
  BY <1>2 DEF SetBlockingModeFails, NewDescriptor
<1>3. CASE ConfigureFails
  BY <1>3 DEF ConfigureFails
<1>4. CASE HandshakeError \/ HandshakeTimeout
  BY <1>4 DEF HandshakeError, HandshakeTimeout
<1>5. CASE AllocFails
  BY <1>5 DEF AllocFails
<1>6. QED
  BY <1>1, <1>2, <1>3, <1>4, <1>5 DEF ConnectReturnsFalse

LEMMA HandshakeResults ==
  ASSUME HandshakeSucceeds
  PROVE  /\ call = "handshake" /\ call' = "idle" /\ over'
         /\ opened' = opened + 1
         /\ UNCHANGED <<connected, session, record, stream>>
BY Zenon DEF HandshakeSucceeds, HandshakeEnds, Return

LEMMA ShutdownProceeds ==
  ASSUME ShutdownGoesOn
  PROVE  /\ call \in {"idle", "close_notify", "poll_close"}
         /\ call' \in {"close_notify", "poll_close"}
         /\ call' = "poll_close" => want' = "write"
         /\ UNCHANGED <<connected, session, record>>
<1> USE DEF tls
<1>1. CASE ShutdownBegins
  BY <1>1 DEF ShutdownBegins
<1>2. CASE NotifyWaits
  BY <1>2 DEF NotifyWaits
<1>3. CASE PollReady("poll_close", "close_notify")
  BY <1>3 DEF PollReady
<1>4. QED
  BY <1>1, <1>2, <1>3 DEF ShutdownGoesOn

LEMMA ShutdownResults ==
  ASSUME ShutdownReturns
  PROVE  /\ call' = "idle"
         /\ session' \in {session, "none"} /\ record' \in {record, <<>>}
<1> USE DEF ClearContext, Clear, Return
<1>1. CASE ShutdownClosed
  BY <1>1, Zenon DEF ShutdownClosed, socket, calling, tls
<1>2. CASE Notified
  BY <1>2, Zenon DEF Notified
<1>3. CASE ShutdownUnnoticed
  BY <1>3, Zenon DEF ShutdownUnnoticed
<1>4. QED
  BY <1>1, <1>2, <1>3 DEF ShutdownReturns

LEMMA CloseResults ==
  ASSUME Close
  PROVE  /\ ~connected' /\ session' = "none" /\ record' = <<>>
         /\ UNCHANGED <<calling, opened, stream>>
BY Zenon DEF Close, ClearContext, Clear, CloseSocket, CloseDescriptor, sentData

LEMMA NetworkLeaves ==
  ASSUME Network
  PROVE  UNCHANGED <<call, want, connected, session, over, record, opened, stream, announced>>
BY DEF Network, PeerAnswers, PeerCloses, Congest, Drain, Elapse, calling, tls, sentData

FlowInv == CallInv /\ SessionInv

LEMMA StepsKeepFlow ==
  ASSUME TypeOK, FlowInv, [Next]_vars
  PROVE  FlowInv'
<1>1. call \in {"idle", "configure", "handshake", "poll_handshake", "close_notify", "poll_close"}
      /\ opened \in Nat
  BY SocketAssumption DEF TypeOK, SocketTypeOK, CallOK, SentDataOK
<1> USE <1>1 DEF FlowInv, CallInv, SessionInv
<1>2. CASE Connecting
  <2>1. state = "Connecting" /\ state' = "Connecting" /\ ConnectGoesOn
    BY <1>2 DEF Connecting
  <2>2. QED
    BY <2>1, ConnectProceeds
<1>3. CASE ConnectOk
  <2>1. state = "Connecting" /\ state' = "Connected" /\ HandshakeSucceeds
    BY <1>3 DEF ConnectOk
  <2>2. QED
    BY <2>1, HandshakeResults
<1>4. CASE ConnectFail \/ ConnectThrows
  <2>1. state = "Connecting" /\ state' \in {"Disconnected", "Terminated"}
        /\ (ConnectReturnsFalse \/ AllocFails)
    BY <1>4 DEF ConnectFail, ConnectThrows
  <2>2. QED
    BY <2>1, ConnectGivesUp
<1>5. CASE Disconnected
  <2>1. state = "Disconnected" /\ state' \in {"Stopping", "Connecting"} /\ Close
    BY <1>5 DEF Disconnected
  <2>2. QED
    BY <2>1, CloseResults DEF calling
<1>6. CASE Connected \/ PopMessage \/ PopNull \/ WaitNetwork \/ SendingDone \/ Push \/ Stop
  <2>1. UNCHANGED <<call, want, connected, session, over, opened>>
    BY <1>6 DEF Connected, PopMessage, PopNull, WaitNetwork, SendingDone, Push, Stop,
                socket, calling, tls, sentData
  <2>2. \/ state' = state
        \/ state = "Connected" /\ state' \in {"Sending", "WaitingMessage"}
        \/ state = "WaitingMessage" /\ state' \in {"Sending", "Stopping"}
        \/ state = "Sending" /\ state' = "WaitingMessage"
    BY <1>6 DEF Connected, PopMessage, PopNull, AfterNull, WaitNetwork, SendingDone, Push, Stop
  <2>3. QED
    BY <2>1, <2>2
<1>7. CASE HandleEvents
  <2>1. UNCHANGED <<call, want, connected, session, over, opened>>
    BY <1>7, SendOkTakes, SendRetryKeeps
    DEF HandleEvents, Send, SendNothing, SendError, WriteError, socket, calling, tls, sentData
  <2>2. state = "Sending" /\ state' \in {"Sending", "Disconnected"}
    BY <1>7 DEF HandleEvents, Send, SendOk, SendNothing, SendRetry, SendError
  <2>3. QED
    BY <2>1, <2>2
<1>8. CASE Stopping
  <2>1. CASE ShutdownGoesOn /\ state' = state /\ state = "Stopping"
    BY <2>1, ShutdownProceeds
  <2>2. CASE ShutdownReturns /\ state' = "Stopped" /\ state = "Stopping"
    BY <2>2, ShutdownResults
  <2>3. QED
    BY <1>8, <2>1, <2>2 DEF Stopping
<1>9. CASE NetworkActs
  <2>1. state' = state /\ Network
    BY <1>9 DEF NetworkActs
  <2>2. QED
    BY <2>1, NetworkLeaves
<1>10. CASE UNCHANGED vars
  BY <1>10 DEF vars, socket, calling, tls, sentData
<1>11. QED
  BY <1>2, <1>3, <1>4, <1>5, <1>6, <1>7, <1>8, <1>9, <1>10 DEF Next, Run

-----------------------------------------------------------------------------
(* The message that is held and the record that was not taken              *)

LEMMA StepsKeepHeld ==
  ASSUME TypeOK, PhaseInv, HeldInv, [Next]_vars
  PROVE  HeldInv'
<1> USE DEF HeldInv
<1>1. CASE Connected
  BY <1>1 DEF Connected, queue, context
<1>2. CASE PopMessage
  BY <1>2 DEF PopMessage
<1>3. CASE HandleEvents
  <2>1. message' \in {message, NULL} /\ popped' = popped /\ state' \in {"Sending", "Disconnected"}
    <3>1. popped' = popped /\ message # NULL /\ state = "Sending"
      BY <1>3 DEF HandleEvents, queue
    <3>2. CASE SendOk
      BY <3>1, <3>2, SendOkMoves DEF TypeOK, SendOk
    <3>3. CASE SendNothing
      BY <3>1, <3>3, AdvanceKeepsPlace DEF TypeOK, SendNothing
    <3>4. CASE UNCHANGED context
      BY <1>3, <3>1, <3>4
      DEF HandleEvents, Send, SendOk, SendNothing, SendRetry, SendError, context
    <3>5. QED
      BY <1>3, <3>2, <3>3, <3>4 DEF HandleEvents, Send, SendRetry, SendError, context
  <2>2. QED
    BY <2>1
<1>4. CASE UNCHANGED <<message, popped>> /\ (state' = "WaitingMessage" => message = NULL)
  BY <1>4
<1>5. QED
  BY <1>1, <1>2, <1>3, <1>4
  DEF Next, Run, Connecting, ConnectOk, ConnectFail, ConnectThrows, Disconnected, PopNull,
      AfterNull, WaitNetwork, SendingDone, Stopping, Push, Stop, NetworkActs, vars, queue, context

LEMMA StepsKeepRecord ==
  ASSUME TypeOK, PhaseInv, HeldInv, RecordInv, [Next]_vars
  PROVE  RecordInv'
<1>1. CASE record' = <<>>
  BY <1>1 DEF RecordInv
<1>2. CASE SendRetry /\ state = "Sending" /\ message # NULL
  <2>1. record' = SubSeq(Buffer, 1, RecordSize(size))
    BY <1>2, SendRetryKeeps, BufferOffers DEF Taken, TypeOK, RecordInv
  <2>2. UNCHANGED <<message, sent, size, state>>
    BY <1>2 DEF SendRetry, context
  <2>3. SubSeq(Buffer, 1, RecordSize(size))' = SubSeq(Buffer, 1, RecordSize(size))
    BY <2>2 DEF Buffer, Bytes, RecordSize
  <2>4. QED
    BY <1>2, <2>1, <2>2, <2>3 DEF RecordInv
<1>3. CASE /\ UNCHANGED <<record, message, sent, size>>
           /\ state \in {"Sending", "Disconnected"} => state' \in {"Sending", "Disconnected"}
  <2>1. SubSeq(Buffer, 1, RecordSize(size))' = SubSeq(Buffer, 1, RecordSize(size))
    BY <1>3 DEF Buffer, Bytes, RecordSize
  <2>2. QED
    BY <1>3, <2>1 DEF RecordInv
<1>4. ASSUME record # <<>> PROVE size > 0
  <2>1. record = SubSeq(Buffer, 1, RecordSize(size)) /\ message # NULL
    BY <1>4 DEF RecordInv
  <2>2. Len(record) = RecordSize(size) /\ RecordSize(size) \in 0 .. size /\ record \in Seq(Byte)
    BY <2>1, RecordOffers DEF TypeOK
  <2>3. size \in Nat
    BY DEF TypeOK, ContextOK
  <2>4. QED
    BY <1>4, <2>2, <2>3
<1>5. record # <<>> => state \in {"Sending", "Disconnected"} /\ message # NULL
  BY DEF RecordInv
<1>6. CASE Connecting \/ ConnectOk \/ ConnectFail \/ ConnectThrows
  <2>1. state = "Connecting" /\ record' = record
    BY <1>6, ConnectProceeds, HandshakeResults, ConnectGivesUp
    DEF Connecting, ConnectOk, ConnectFail, ConnectThrows
  <2>2. QED
    BY <1>1, <1>5, <2>1
<1>7. CASE Connected \/ PopMessage \/ PopNull \/ SendingDone
  <2>1. record' = record /\ (state \in {"Connected", "WaitingMessage"} \/ message = NULL)
    BY <1>7 DEF Connected, PopMessage, PopNull, SendingDone, socket, tls
  <2>2. QED
    BY <1>1, <1>5, <2>1
<1>8. CASE Disconnected
  BY <1>1, <1>8, CloseResults DEF Disconnected
<1>9. CASE HandleEvents
  <2>1. CASE SendOk
    BY <1>1, <2>1, SendOkTakes
  <2>2. CASE SendNothing
    BY <1>1, <1>4, <2>2 DEF SendNothing, socket, tls
  <2>3. CASE SendRetry
    BY <1>2, <1>9, <2>3 DEF HandleEvents
  <2>4. CASE UNCHANGED context /\ UNCHANGED socket
    BY <1>3, <1>9, <2>4 DEF HandleEvents, Send, SendOk, SendNothing, SendRetry, SendError,
                            context, socket, tls
  <2>5. QED
    BY <1>9, <2>1, <2>2, <2>3, <2>4 DEF HandleEvents, Send, SendError, WriteError
<1>10. CASE Stopping
  <2>1. state = "Stopping" /\ record' \in {record, <<>>}
    BY <1>10, ShutdownProceeds, ShutdownResults DEF Stopping
  <2>2. QED
    BY <1>1, <1>5, <2>1
<1>11. CASE NetworkActs
  BY <1>3, <1>11, NetworkLeaves DEF NetworkActs, context
<1>12. CASE WaitNetwork \/ Push \/ Stop \/ UNCHANGED vars
  BY <1>3, <1>12 DEF WaitNetwork, Push, Stop, vars, socket, tls, context
<1>13. QED
  BY <1>6, <1>7, <1>8, <1>9, <1>10, <1>11, <1>12 DEF Next, Run

-----------------------------------------------------------------------------
(* What the connections have taken                                         *)

(***************************************************************************)
(* A call of send that is taken appends the next bytes of the frame to the *)
(* present connection.                                                     *)
(***************************************************************************)
LEMMA StreamAfterSend ==
  ASSUME TypeOK, SessionInv, RecordInv, state = "Sending", message # NULL, SendOk
  PROVE  LET n == RecordSize(size)
             l == Len(stream[opened])
         IN  /\ n \in Nat /\ n > 0 /\ l \in Nat /\ opened \in Connections
             /\ \A c \in Connections \ {opened} : stream'[c] = stream[c]
             /\ stream'[opened] \in Seq(Byte) /\ Len(stream'[opened]) = l + n
             /\ \A i \in 1 .. l : stream'[opened][i] = stream[opened][i]
             /\ \A k \in 1 .. n : stream'[opened][l + k] = <<message, sent + k>>
<1> DEFINE n == RecordSize(size)
           l == Len(stream[opened])
<1>1. n \in Nat /\ n > 0
  BY RecordOffers DEF TypeOK, ContextOK, SendOk
<1>2. opened \in Connections
  BY SocketAssumption DEF TypeOK, SocketTypeOK, SentDataOK, SessionInv, Connections
<1>3. stream \in [Connections -> Seq(Byte)]
  BY DEF TypeOK, SocketTypeOK, SentDataOK
<1>4. stream[opened] \in Seq(Byte) /\ l \in Nat
  BY <1>2, <1>3
<1>5. Taken \in Seq(Byte) /\ Len(Taken) = n /\ \A k \in 1 .. n : Taken[k] = <<message, sent + k>>
  BY TakenIsRecord DEF TypeOK
<1>6. stream' = [stream EXCEPT ![opened] = @ \o Taken]
  BY SendOkTakes
<1>7. stream'[opened] = stream[opened] \o Taken
  BY <1>2, <1>3, <1>6
<1>8. \A c \in Connections \ {opened} : stream'[c] = stream[c]
  BY <1>3, <1>6
<1> HIDE DEF n, l
<1>9. stream'[opened] \in Seq(Byte) /\ Len(stream'[opened]) = l + n
  <2>1. /\ stream[opened] \o Taken \in Seq(Byte)
        /\ Len(stream[opened] \o Taken) = Len(stream[opened]) + Len(Taken)
    BY <1>4, <1>5, ConcatProperties
  <2>2. QED
    BY <1>5, <1>7, <2>1 DEF l
<1>10. \A i \in 1 .. l : stream'[opened][i] = stream[opened][i]
  BY <1>1, <1>4, <1>5, <1>7 DEF l
<1>11. ASSUME NEW k \in 1 .. n
       PROVE  stream'[opened][l + k] = <<message, sent + k>>
  <2>1. l + k \in 1 .. l + n /\ l + k > l /\ (l + k) - l = k
    BY <1>1, <1>4
  <2>2. stream'[opened][l + k] = Taken[k]
    BY <1>1, <1>4, <1>5, <1>7, <2>1 DEF l
  <2>3. QED
    BY <1>5, <2>2
<1>12. QED
  BY <1>1, <1>2, <1>4, <1>8, <1>9, <1>10, <1>11 DEF n, l

LEMMA StreamSteps ==
  ASSUME TypeOK, [Next]_vars
  PROVE  \/ UNCHANGED stream
         \/ state = "Sending" /\ message # NULL /\ SendOk
<1>1. opened \in Nat
  BY SocketAssumption DEF TypeOK, SocketTypeOK, SentDataOK
<1>2. QED
  BY <1>1, SocketSteps, QuietSent, SendRetryKeeps DEF socket, sentData

LEMMA StepsKeepPosition ==
  ASSUME TypeOK, PhaseInv, SessionInv, HeldInv, RecordInv, PositionInv, [Next]_vars
  PROVE  PositionInv'
<1>1. /\ opened \in 0 .. MaxConnections /\ MaxConnections \in Nat
      /\ sent \in Nat /\ size \in Nat /\ popped \in Nat
  BY SocketAssumption, ForwarderAssumption, FrameBounds
  DEF TypeOK, SocketTypeOK, SentDataOK, ContextOK, QueueOK
<1> USE <1>1 DEF PositionInv, EndsWith
<1>2. CASE ConnectOk
  <2>1. state' = "Connected" /\ opened' = opened + 1 /\ stream' = stream
    BY <1>2, HandshakeResults DEF ConnectOk
  <2>2. opened' \in Connections
    BY <1>2, <2>1, QuietSent DEF ConnectOk, Quiet, Connects, Connections
  <2>3. QED
    BY <2>1, <2>2 DEF Connections
<1>3. CASE Connecting \/ ConnectFail \/ ConnectThrows \/ Disconnected \/ Stopping
  <2>1. state' \notin {"Connected", "WaitingMessage", "Sending"}
    BY <1>3 DEF Connecting, ConnectFail, ConnectThrows, Disconnected, Stopping
  <2>2. stream' = stream /\ (opened' = opened \/ opened' = opened + 1)
    BY <1>3, QuietSent
    DEF Connecting, ConnectFail, ConnectThrows, Disconnected, Stopping, Quiet, Connects, ShutsDown
  <2>3. QED
    BY <2>1, <2>2 DEF Connections
<1>4. CASE Connected
  <2>1. UNCHANGED <<stream, opened, popped>> /\ state = "Connected"
        /\ state' \in {"Sending", "WaitingMessage"}
    BY <1>4 DEF Connected, socket, sentData, queue
  <2>2. CASE message # NULL
    <3>1. sent' = 0 /\ message' = message
      BY <1>4, <2>2, RestartRewinds DEF Connected, OnReconnect, TypeOK, ContextOK
    <3>2. QED
      BY <2>1, <2>2, <3>1
  <2>3. CASE message = NULL
    <3>1. message' = NULL
      BY <1>4, <2>3 DEF Connected, context
    <3>2. QED
      BY <2>1, <3>1
  <2>4. QED
    BY <2>2, <2>3
<1>5. CASE PopMessage
  <2>1. UNCHANGED <<stream, opened>> /\ state = "WaitingMessage" /\ state' = "Sending"
        /\ message' = popped + 1
    BY <1>5 DEF PopMessage, socket, sentData
  <2>2. message = NULL
    BY <2>1 DEF HeldInv
  <2>3. message' \in Messages
    BY <1>5, ForwarderAssumption DEF PopMessage, TypeOK, QueueOK, Messages
  <2>4. message' # NULL /\ message' - 1 = popped
    BY <2>1, <2>3, ForwarderAssumption DEF Messages
  <2>5. sent' = 0
    BY <1>5, <2>3, RestartRewinds DEF PopMessage, TypeOK
  <2>6. QED
    BY <2>1, <2>2, <2>4, <2>5
<1>6. CASE HandleEvents
  <2>1. state = "Sending" /\ message # NULL /\ popped' = popped
    BY <1>6 DEF HandleEvents, queue
  <2>2. CASE SendOk
    <3>1. /\ opened' = opened /\ state' = "Sending" /\ message' = message
          /\ sent' = sent + RecordSize(size)
      BY <2>1, <2>2, SendOkTakes, SendOkMoves DEF TypeOK
    <3>2. /\ RecordSize(size) \in Nat /\ RecordSize(size) > 0
          /\ Len(stream[opened]) \in Nat /\ opened \in Connections
          /\ \A c \in Connections \ {opened} : stream'[c] = stream[c]
          /\ stream'[opened] \in Seq(Byte)
          /\ Len(stream'[opened]) = Len(stream[opened]) + RecordSize(size)
      BY <2>1, <2>2, StreamAfterSend
    <3>3. stream'[opened][Len(stream'[opened])] = <<message, sent + RecordSize(size)>>
      <4>1. RecordSize(size) \in 1 .. RecordSize(size)
        BY <3>2
      <4>2. stream'[opened][Len(stream[opened]) + RecordSize(size)]
              = <<message, sent + RecordSize(size)>>
        BY <2>1, <2>2, <4>1, StreamAfterSend
      <4>3. QED
        BY <3>2, <4>2
    <3>4. stream'[opened] # <<>>
      BY <3>2
    <3>5. EndsWith(opened, message, sent)'
      BY <3>1, <3>3, <3>4
    <3>6. \A c \in Connections : c > opened' => stream'[c] = <<>>
      BY <3>1, <3>2
    <3>7. sent' > 0 /\ message' # NULL
      BY <2>1, <3>1, <3>2
    <3>8. QED
      BY <3>1, <3>5, <3>6, <3>7
  <2>3. CASE SendNothing
    <3>1. UNCHANGED <<stream, opened, state>> /\ size = 0 /\ Advance
      BY <2>3 DEF SendNothing, socket, sentData
    <3>2. sent' = sent /\ (message' = message \/ (message' = NULL /\ sent = FrameSize))
      BY <3>1, AdvanceKeepsPlace DEF TypeOK
    <3>3. message = popped
      BY <2>1 DEF HeldInv
    <3>4. QED
      BY <2>1, <3>1, <3>2, <3>3, FrameBounds
  <2>4. CASE UNCHANGED <<stream, opened>> /\ UNCHANGED context
    <3>1. UNCHANGED <<message, sent>> /\ state' \in {"Sending", "Disconnected"}
      BY <1>6, <2>4 DEF HandleEvents, Send, SendOk, SendNothing, SendRetry, SendError, context
    <3>2. QED
      BY <2>1, <2>4, <3>1
  <2>5. QED
    BY <1>6, <2>2, <2>3, <2>4, SendRetryKeeps
    DEF HandleEvents, Send, SendRetry, SendError, WriteError, socket, sentData
<1>7. CASE SendingDone
  BY <1>7 DEF SendingDone, socket, sentData, context, queue
<1>8. CASE PopNull
  BY <1>8 DEF PopNull, AfterNull, socket, sentData
<1>9. CASE NetworkActs
  BY <1>9, NetworkLeaves DEF NetworkActs, context, queue
<1>10. CASE WaitNetwork \/ Push \/ Stop \/ UNCHANGED vars
  BY <1>10 DEF WaitNetwork, Push, Stop, vars, socket, sentData, context, queue
<1>11. QED
  BY <1>2, <1>3, <1>4, <1>5, <1>6, <1>7, <1>8, <1>9, <1>10 DEF Next, Run

LEMMA StepsKeepFrames ==
  ASSUME TypeOK, SessionInv, RecordInv, PositionInv, StreamIsFrames, [Next]_vars
  PROVE  StreamIsFrames'
<1>1. CASE UNCHANGED stream
  BY <1>1 DEF StreamIsFrames
<1>2. CASE state = "Sending" /\ message # NULL /\ SendOk
  <2> DEFINE n == RecordSize(size)
             l == Len(stream[opened])
  <2>1. /\ n \in Nat /\ n > 0 /\ l \in Nat /\ opened \in Connections
        /\ \A c \in Connections \ {opened} : stream'[c] = stream[c]
        /\ Len(stream'[opened]) = l + n
        /\ \A i \in 1 .. l : stream'[opened][i] = stream[opened][i]
        /\ \A k \in 1 .. n : stream'[opened][l + k] = <<message, sent + k>>
    BY <1>2, StreamAfterSend
  <2> HIDE DEF n
  <2>2. sent \in Nat /\ stream[opened] \in Seq(Byte)
    BY <2>1, FrameBounds DEF TypeOK, ContextOK, SocketTypeOK, SentDataOK
  <2> SUFFICES ASSUME NEW c \in Connections, NEW i \in 1 .. Len(stream'[c])
               PROVE  LET m == stream'[c][i][1]
                          p == stream'[c][i][2]
                      IN  \/ p = 1 /\ i = 1
                          \/ p = 1 /\ i > 1 /\ stream'[c][i - 1] = <<m - 1, FrameSize>>
                          \/ p > 1 /\ i > 1 /\ stream'[c][i - 1] = <<m, p - 1>>
    BY DEF StreamIsFrames
  <2>3. CASE c # opened
    BY <2>1, <2>3 DEF StreamIsFrames
  <2>4. CASE c = opened /\ i <= l
    <3>1. i \in 1 .. l /\ (i > 1 => i - 1 \in 1 .. l)
      BY <2>1, <2>4
    <3>2. stream'[c][i] = stream[c][i] /\ (i > 1 => stream'[c][i - 1] = stream[c][i - 1])
      BY <2>1, <2>4, <3>1
    <3>3. QED
      BY <2>4, <3>1, <3>2 DEF StreamIsFrames
  <2>5. CASE c = opened /\ i > l + 1
    <3> DEFINE k == i - l
    <3>1. k \in 2 .. n /\ i = l + k
      <4>1. i \in 1 .. l + n
        BY <2>1, <2>5
      <4> HIDE DEF l
      <4>2. QED
        BY <2>1, <2>5, <4>1
    <3> HIDE DEF k
    <3>2. k \in 1 .. n /\ k - 1 \in 1 .. n /\ i - 1 = l + (k - 1) /\ i > 1
      BY <2>1, <3>1
    <3>3. stream'[c][i] = <<message, sent + k>> /\ stream'[c][i - 1] = <<message, sent + (k - 1)>>
      BY <2>1, <2>5, <3>1, <3>2
    <3>4. sent + k > 1 /\ (sent + k) - 1 = sent + (k - 1)
      BY <2>2, <3>1
    <3>5. QED
      BY <3>2, <3>3, <3>4
  <2>6. CASE c = opened /\ i = l + 1
    <3>1. stream'[c][i] = <<message, sent + 1>>
      <4>1. 1 \in 1 .. n
        BY <2>1
      <4>2. QED
        BY <2>1, <2>6, <4>1
    <3>2. CASE l = 0
      <4>1. stream[opened] = <<>>
        BY <2>2, <3>2
      <4>2. sent = 0
        BY <1>2, <4>1 DEF PositionInv, EndsWith
      <4>3. QED
        BY <2>6, <3>1, <3>2, <4>2
    <3>3. CASE l > 0
      <4>1. i > 1 /\ i - 1 = l /\ l \in 1 .. l
        BY <2>1, <2>6, <3>3
      <4>2. stream'[c][i - 1] = stream[opened][l]
        BY <2>1, <2>6, <4>1
      <4>3. stream[opened] # <<>>
        BY <3>3
      <4>4. stream[opened][l] = IF sent = 0 THEN <<message - 1, FrameSize>> ELSE <<message, sent>>
        BY <1>2, <4>3 DEF PositionInv, EndsWith
      <4>5. CASE sent = 0
        BY <3>1, <4>1, <4>2, <4>4, <4>5
      <4>6. CASE sent # 0
        <5>1. sent + 1 > 1 /\ (sent + 1) - 1 = sent
          BY <2>2, <4>6
        <5>2. QED
          BY <3>1, <4>1, <4>2, <4>4, <4>6, <5>1
      <4>7. QED
        BY <4>5, <4>6
    <3>4. QED
      BY <2>1, <3>2, <3>3
  <2>7. QED
    BY <2>1, <2>3, <2>4, <2>5, <2>6
<1>3. QED
  BY <1>1, <1>2, StreamSteps

(***************************************************************************)
(* A message that was sent whole stays so: streams only grow.              *)
(***************************************************************************)
LEMMA StaysSent ==
  ASSUME TypeOK, SessionInv, RecordInv, [Next]_vars, NEW m, SentWhole(m)
  PROVE  SentWhole(m)'
<1>1. CASE UNCHANGED stream
  BY <1>1 DEF SentWhole, WholeOn
<1>2. CASE state = "Sending" /\ message # NULL /\ SendOk
  <2>1. PICK c \in Connections : WholeOn(m, c)
    BY DEF SentWhole
  <2> PICK i \in 1 .. Len(stream[c]) : stream[c][i] = <<m, FrameSize>>
    BY <2>1 DEF WholeOn
  <2>2. i \in 1 .. Len(stream'[c]) /\ stream'[c][i] = <<m, FrameSize>>
    <3>1. CASE c # opened
      BY <1>2, <2>1, <3>1, StreamAfterSend
    <3>2. CASE c = opened
      <4>1. Len(stream[c]) \in Nat /\ RecordSize(size) \in Nat
            /\ Len(stream'[c]) = Len(stream[c]) + RecordSize(size)
            /\ stream'[c][i] = stream[c][i]
        BY <1>2, <2>1, <3>2, StreamAfterSend
      <4>2. QED
        BY <2>1, <4>1
    <3>3. QED
      BY <3>1, <3>2
  <2>3. QED
    BY <2>2 DEF SentWhole, WholeOn
<1>3. QED
  BY <1>1, <1>2, StreamSteps

LEMMA StepsKeepPopped ==
  ASSUME TypeOK, PhaseInv, SessionInv, HeldInv, RecordInv, PositionInv,
         PoppedIsSentOrHeld, [Next]_vars
  PROVE  PoppedIsSentOrHeld'
<1>1. popped \in Nat
  BY ForwarderAssumption DEF TypeOK, QueueOK
<1>2. ASSUME message # NULL, message' = NULL
      PROVE  SentWhole(message)
  <2>1. HandleEvents /\ state = "Sending"
    <3>1. CASE PopMessage
      <4>1. message' \in Messages
        BY <3>1, ForwarderAssumption DEF PopMessage, TypeOK, QueueOK, Messages
      <4>2. QED
        BY <1>2, <4>1, ForwarderAssumption DEF Messages
    <3>2. CASE ~PopMessage
      BY <1>2, <3>2
      DEF Next, Run, Connecting, ConnectOk, ConnectFail, ConnectThrows, Connected, Disconnected,
          PopNull, WaitNetwork, HandleEvents, SendingDone, Stopping, Push, Stop, NetworkActs,
          vars, context
    <3>3. QED
      BY <3>1, <3>2
  <2>2. SendNothing
    BY <1>2, <2>1, SendOkMoves
    DEF HandleEvents, Send, SendRetry, SendError, context, TypeOK
  <2>3. sent = FrameSize
    BY <1>2, <2>2, AdvanceKeepsPlace DEF SendNothing, TypeOK
  <2>4. EndsWith(opened, message, FrameSize)
    BY <1>2, <2>1, <2>3, FrameBounds DEF PositionInv
  <2>5. opened \in Connections /\ stream[opened] \in Seq(Byte)
    BY <2>1, SocketAssumption DEF SessionInv, TypeOK, SocketTypeOK, SentDataOK, Connections
  <2>6. Len(stream[opened]) \in 1 .. Len(stream[opened])
    BY <2>4, <2>5 DEF EndsWith
  <2>7. QED
    BY <2>4, <2>5, <2>6 DEF EndsWith, SentWhole, WholeOn
<1>3. \/ popped' = popped /\ message' \in {message, NULL}
      \/ message = NULL /\ popped' = popped + 1 /\ message' = popped'
  <2>1. CASE PopMessage
    BY <2>1 DEF PopMessage, HeldInv
  <2>2. CASE HandleEvents
    <3>1. popped' = popped /\ message # NULL
      BY <2>2 DEF HandleEvents, queue
    <3>2. message' \in {message, NULL}
      BY <2>2, <3>1, SendOkMoves, AdvanceKeepsPlace
      DEF HandleEvents, Send, SendNothing, SendRetry, SendError, context, TypeOK
    <3>3. QED
      BY <3>1, <3>2
  <2>3. CASE ~PopMessage /\ ~HandleEvents
    BY <2>3
    DEF Next, Run, Connecting, ConnectOk, ConnectFail, ConnectThrows, Connected, Disconnected,
        PopNull, WaitNetwork, SendingDone, Stopping, Push, Stop, NetworkActs, vars, context, queue
  <2>4. QED
    BY <2>1, <2>2, <2>3
<1>4. SUFFICES ASSUME NEW m \in 1 .. popped'
               PROVE  m = message' \/ SentWhole(m)'
  BY DEF PoppedIsSentOrHeld
<1>5. CASE m \in 1 .. popped
  <2>1. CASE m = message
    <3>1. message # NULL
      BY <1>5, <2>1, ForwarderAssumption DEF TypeOK, QueueOK
    <3>2. CASE message' = NULL
      <4>1. SentWhole(m)
        BY <1>2, <2>1, <3>1, <3>2
      <4>2. QED
        BY <4>1, StaysSent
    <3>3. QED
      BY <1>3, <2>1, <3>1, <3>2
  <2>2. CASE SentWhole(m)
    BY <2>2, StaysSent
  <2>3. QED
    BY <1>5, <2>1, <2>2 DEF PoppedIsSentOrHeld
<1>6. CASE m \notin 1 .. popped
  BY <1>1, <1>3, <1>6
<1>7. QED
  BY <1>5, <1>6

LEMMA StepsKeepOrder ==
  ASSUME TypeOK, SessionInv, HeldInv, RecordInv, PoppedIsSentOrHeld, NothingOvertakes,
         [Next]_vars
  PROVE  NothingOvertakes'
<1>1. CASE UNCHANGED stream
  BY <1>1 DEF NothingOvertakes, SentWhole, WholeOn
<1>2. CASE state = "Sending" /\ message # NULL /\ SendOk
  <2> DEFINE n == RecordSize(size)
             l == Len(stream[opened])
  <2>1. /\ n \in Nat /\ n > 0 /\ l \in Nat /\ opened \in Connections
        /\ \A c \in Connections \ {opened} : stream'[c] = stream[c]
        /\ Len(stream'[opened]) = l + n
        /\ \A i \in 1 .. l : stream'[opened][i] = stream[opened][i]
        /\ \A k \in 1 .. n : stream'[opened][l + k] = <<message, sent + k>>
    BY <1>2, StreamAfterSend
  <2> HIDE DEF n, l
  <2> SUFFICES ASSUME NEW c \in Connections, NEW i \in 1 .. Len(stream'[c]),
                      NEW m \in 1 .. (stream'[c][i][1] - 1)
               PROVE  SentWhole(m)'
    BY DEF NothingOvertakes
  <2>2. CASE c # opened
    BY <2>1, <2>2, StaysSent DEF NothingOvertakes
  <2>3. CASE c = opened /\ i <= l
    <3>1. i \in 1 .. Len(stream[c]) /\ stream'[c][i] = stream[c][i]
      BY <2>1, <2>3 DEF l
    <3>2. SentWhole(m)
      BY <3>1 DEF NothingOvertakes
    <3>3. QED
      BY <3>2, StaysSent
  <2>4. CASE c = opened /\ i > l
    <3>1. i - l \in 1 .. n /\ i = l + (i - l)
      BY <2>1, <2>4
    <3>2. stream'[c][i] = <<message, sent + (i - l)>>
      BY <2>1, <2>4, <3>1
    <3>3. m \in 1 .. message - 1 /\ message = popped /\ popped \in Nat
      BY <1>2, <3>2, ForwarderAssumption DEF HeldInv, TypeOK, QueueOK
    <3>4. m \in 1 .. popped /\ m # message
      BY <3>3
    <3>5. SentWhole(m)
      BY <3>4 DEF PoppedIsSentOrHeld
    <3>6. QED
      BY <3>5, StaysSent
  <2>5. QED
    BY <2>1, <2>2, <2>3, <2>4
<1>3. QED
  BY <1>1, <1>2, StreamSteps

-----------------------------------------------------------------------------
(* The theorems                                                            *)

LEMMA InitTypes ==
  ASSUME Init
  PROVE  TypeOK
<1> USE ForwarderAssumption, SocketAssumption
<1>1. RunOK
  BY Zenon DEF Init, RunOK
<1>2. ContextOK
  <2>1. message = NULL /\ phase = "sending_length" /\ block = 1 /\ sent = FrameEnds[1] /\ size = 0
    BY DEF Init
  <2>2. QED
    BY <2>1, FrameBounds DEF ContextOK
<1>3. CallOK
  BY Zenon DEF Init, SocketInit, CallOK
<1>4. TlsOK(Byte)
  <2>1. over \in BOOLEAN
    BY Zenon DEF Init, SocketInit
  <2>2. session = "none" /\ record = <<>>
    BY Zenon DEF Init, SocketInit
  <2>3. QED
    BY <2>1, <2>2 DEF TlsOK
<1>5. NetworkOK
  <2>1. /\ connected \in BOOLEAN /\ arrived \in BOOLEAN
        /\ peerClosed \in BOOLEAN /\ writable \in BOOLEAN
    BY Zenon DEF Init, SocketInit
  <2>2. flights = 0 /\ congestions = 0
    BY Zenon DEF Init, SocketInit
  <2>3. QED
    BY <2>1, <2>2 DEF NetworkOK
<1>6. SentDataOK(Byte)
  <2>1. announced \in BOOLEAN
    BY Zenon DEF Init, SocketInit
  <2>2. opened = 0 /\ stream = [c \in Connections |-> <<>>]
    BY Zenon DEF Init, SocketInit
  <2>3. QED
    BY <2>1, <2>2 DEF SentDataOK
<1>7. QueueOK
  <2>1. stopSignal \in BOOLEAN
    BY Zenon DEF Init
  <2>2. pushed = 0 /\ popped = 0
    BY Zenon DEF Init
  <2>3. QED
    BY <2>1, <2>2 DEF QueueOK
<1>8. QED
  BY <1>1, <1>2, <1>3, <1>4, <1>5, <1>6, <1>7 DEF TypeOK, SocketTypeOK

(***************************************************************************)
(* The invariant of the forwarder: the context, the call and the session   *)
(* of its socket, the message that is held, the record that was not taken  *)
(* and the bytes each connection took fit together in every state.         *)
(***************************************************************************)
THEOREM ForwarderInvariant == Spec => []ForwarderInv
<1>1. Init => ForwarderInv
  <2> SUFFICES ASSUME Init PROVE ForwarderInv
    OBVIOUS
  <2>1. TypeOK
    BY InitTypes
  <2>2. /\ state = "Connecting" /\ message = NULL /\ phase = "sending_length" /\ block = 1
        /\ call = "idle" /\ session = "none" /\ record = <<>> /\ ~connected
        /\ opened = 0 /\ popped = 0 /\ stream = [c \in Connections |-> <<>>]
    BY Zenon DEF Init, SocketInit
  <2>3. PhaseInv /\ CallInv /\ SessionInv /\ HeldInv /\ RecordInv
    BY <2>2 DEF PhaseInv, CallInv, SessionInv, HeldInv, RecordInv
  <2>4. PositionInv
    BY <2>2 DEF PositionInv
  <2>5. StreamIsFrames /\ PoppedIsSentOrHeld /\ NothingOvertakes
    BY <2>2 DEF StreamIsFrames, PoppedIsSentOrHeld, NothingOvertakes
  <2>6. QED
    BY <2>1, <2>3, <2>4, <2>5 DEF ForwarderInv, DeliveryInv
<1>2. ForwarderInv /\ [Next]_vars => ForwarderInv'
  <2> SUFFICES ASSUME ForwarderInv, [Next]_vars PROVE ForwarderInv'
    OBVIOUS
  <2> USE DEF ForwarderInv, DeliveryInv
  <2>1. ContextOK' /\ PhaseInv'
    BY ContextSteps
  <2>2. TypeOK'
    BY <2>1, RunTypes, SocketTypes DEF TypeOK
  <2>3. CallInv' /\ SessionInv'
    BY StepsKeepFlow DEF FlowInv
  <2>4. HeldInv' /\ RecordInv' /\ PositionInv'
    BY StepsKeepHeld, StepsKeepRecord, StepsKeepPosition
  <2>5. DeliveryInv'
    BY StepsKeepFrames, StepsKeepPopped, StepsKeepOrder
  <2>6. QED
    BY <2>1, <2>2, <2>3, <2>4, <2>5
<1>3. QED
  BY <1>1, <1>2, PTL DEF Spec

(***************************************************************************)
(* Every state is well typed: what is left of the block and how far the    *)
(* context is in the frame always add up to the end of the block, and a    *)
(* record is never longer than the library makes it.                       *)
(***************************************************************************)
THEOREM ForwarderTypes == Spec => []TypeOK
BY ForwarderInvariant, PTL DEF ForwarderInv

(***************************************************************************)
(* What a connection carries is a sequence of whole frames, however the    *)
(* calls of send cut them up, are retried or fail, and whenever the        *)
(* connection ends.                                                        *)
(***************************************************************************)
THEOREM ConnectionsCarryFrames == Spec => []StreamIsFrames
BY ForwarderInvariant, PTL DEF ForwarderInv, DeliveryInv

(***************************************************************************)
(* A popped message is held until its last byte was taken: a broken        *)
(* connection loses nothing that the socket had not taken.                 *)
(***************************************************************************)
THEOREM PoppedMessagesAreKept == Spec => []PoppedIsSentOrHeld
BY ForwarderInvariant, PTL DEF ForwarderInv, DeliveryInv

(***************************************************************************)
(* A frame starts on a connection only when every earlier message was sent *)
(* whole, on this connection or on an earlier one.                         *)
(***************************************************************************)
THEOREM MessagesStayInOrder == Spec => []NothingOvertakes
BY ForwarderInvariant, PTL DEF ForwarderInv, DeliveryInv

(***************************************************************************)
(* Nothing is made up: what a connection took is of messages that were     *)
(* popped.                                                                 *)
(***************************************************************************)
SentIsPopped ==
  \A c \in Connections : \A i \in 1 .. Len(stream[c]) : stream[c][i][1] \in 1 .. popped

LEMMA PoppedOnlyGrows ==
  ASSUME TypeOK, [Next]_vars
  PROVE  popped \in Nat /\ popped' \in {popped, popped + 1}
<1>1. popped \in Nat
  BY ForwarderAssumption DEF TypeOK, QueueOK
<1>2. CASE PopMessage
  BY <1>1, <1>2 DEF PopMessage
<1>3. CASE ~PopMessage
  BY <1>1, <1>3
  DEF Next, Run, Connecting, ConnectOk, ConnectFail, ConnectThrows, Connected, Disconnected,
      PopNull, WaitNetwork, HandleEvents, SendingDone, Stopping, Push, Stop, NetworkActs,
      vars, queue
<1>4. QED
  BY <1>2, <1>3

THEOREM OnlyPoppedIsSent == Spec => []SentIsPopped
<1>1. Init => SentIsPopped
  BY DEF Init, SocketInit, SentIsPopped
<1>2. ForwarderInv /\ SentIsPopped /\ [Next]_vars => SentIsPopped'
  <2> SUFFICES ASSUME ForwarderInv, SentIsPopped, [Next]_vars,
                      NEW c \in Connections, NEW i \in 1 .. Len(stream'[c])
               PROVE  stream'[c][i][1] \in 1 .. popped'
    BY DEF SentIsPopped
  <2>1. popped \in Nat /\ popped' \in {popped, popped + 1}
    BY PoppedOnlyGrows DEF ForwarderInv
  <2>2. CASE i \in 1 .. Len(stream[c]) /\ stream'[c][i] = stream[c][i]
    BY <2>1, <2>2 DEF SentIsPopped
  <2>3. CASE UNCHANGED stream
    BY <2>2, <2>3
  <2>4. CASE state = "Sending" /\ message # NULL /\ SendOk
    <3> DEFINE n == RecordSize(size)
               l == Len(stream[opened])
    <3>1. /\ n \in Nat /\ l \in Nat
          /\ c # opened => stream'[c] = stream[c]
          /\ Len(stream'[opened]) = l + n
          /\ \A j \in 1 .. l : stream'[opened][j] = stream[opened][j]
          /\ \A k \in 1 .. n : stream'[opened][l + k] = <<message, sent + k>>
      BY <2>4, StreamAfterSend DEF ForwarderInv
    <3> HIDE DEF n
    <3>2. CASE c # opened \/ i <= l
      BY <2>2, <3>1, <3>2
    <3>3. CASE c = opened /\ i > l
      <4>1. i - l \in 1 .. n /\ i = l + (i - l)
        BY <3>1, <3>3
      <4>2. stream'[c][i] = <<message, sent + (i - l)>>
        BY <3>1, <3>3, <4>1
      <4>3. message = popped /\ message \in Messages
        BY <2>4 DEF ForwarderInv, HeldInv, TypeOK, ContextOK
      <4>4. QED
        BY <2>1, <4>2, <4>3 DEF Messages
    <3>4. QED
      BY <3>1, <3>2, <3>3
  <2>5. QED
    BY <2>3, <2>4, StreamSteps DEF ForwarderInv
<1>3. QED
  BY <1>1, <1>2, ForwarderInvariant, PTL DEF Spec

(***************************************************************************)
(* While the forwarder sends, the session is one that was set up for this  *)
(* connection, and a record that was kept holds the very bytes that are    *)
(* offered again: the library is never called with other ones.             *)
(***************************************************************************)
THEOREM SessionsAreOwn == Spec => []SessionIsOwn
<1>1. ForwarderInv => SessionIsOwn
  <2> SUFFICES ASSUME ForwarderInv PROVE SessionIsOwn
    OBVIOUS
  <2>1. record # <<>> => \E i \in 0 .. size : record = SubSeq(Buffer, 1, i)
    BY RecordOffers DEF ForwarderInv, TypeOK, RecordInv
  <2>2. QED
    BY <2>1 DEF ForwarderInv, SessionInv, SessionIsOwn
<1>2. QED
  BY <1>1, ForwarderInvariant, PTL

(***************************************************************************)
(* A thread that stops with a connection tells the peer, unless the peer   *)
(* was first or did not take anything until the time limit passed.         *)
(***************************************************************************)
THEOREM EndsAreAnnounced == Spec => EndIsAnnounced
<1> DEFINE Announces == (state = "Stopping" /\ connected /\ state' = "Stopped") =>
                          announced' \/ peerClosed \/ (elapsed /\ ~writable)
<1>1. ForwarderInv /\ [Next]_vars => [Announces]_vars
  <2> SUFFICES ASSUME ForwarderInv, Next, state = "Stopping", connected, state' = "Stopped"
               PROVE  announced' \/ peerClosed \/ (elapsed /\ ~writable)
    OBVIOUS
  <2>1. Stopping /\ ShutdownReturns
    BY DEF Next, Run, Connecting, ConnectOk, ConnectFail, ConnectThrows, Connected,
           Disconnected, PopMessage, PopNull, WaitNetwork, HandleEvents, SendingDone, Stopping,
           Push, Stop, NetworkActs
  <2>2. CASE Notified
    BY <2>2, Zenon DEF Notified
  <2>3. CASE ShutdownUnnoticed
    BY <2>3, Zenon
    DEF ShutdownUnnoticed, GivesUp, Ready, PollTimesOut, ForwarderInv, CallInv
  <2>4. QED
    BY <2>1, <2>2, <2>3 DEF ShutdownReturns, ShutdownClosed
<1>2. QED
  BY <1>1, ForwarderInvariant, PTL DEF Spec, EndIsAnnounced

-----------------------------------------------------------------------------
(* The receiver                                                            *)

LEMMA LeastNumber ==
  ASSUME NEW T \in SUBSET Nat, T # {}
  PROVE  \E n \in T : \A m \in T : n <= m
<1> DEFINE below == {1 .. n : n \in T}
<1>1. below \subseteq FiniteSubsetsOf(Nat) /\ below # {}
  <2>1. ASSUME NEW n \in T PROVE 1 .. n \in SUBSET Nat /\ IsFiniteSet(1 .. n)
    <3>1. 1 \in Int /\ n \in Int
      OBVIOUS
    <3>2. QED
      BY <3>1, FS_Interval
  <2>2. QED
    BY <2>1, Zenon DEF FiniteSubsetsOf
<1>2. IsWellFoundedOn(StrictSubsetOrdering(Nat), FiniteSubsetsOf(Nat))
  BY FS_StrictSubsetOrderingWellFounded, Zenon
<1> HIDE DEF below
<1>3. PICK x \in below : \A y \in below : ~ (<<y, x>> \in StrictSubsetOrdering(Nat))
  BY <1>1, <1>2, WFMin, Zenon
<1>4. PICK n \in T : x = 1 .. n
  BY <1>3 DEF below
<1>5. ASSUME NEW m \in T, m < n PROVE FALSE
  <2>1. 1 .. m \in below
    BY DEF below
  <2>2. /\ 1 .. m \subseteq 1 .. n /\ n \in 1 .. n /\ n \notin 1 .. m
        /\ 1 .. m \in SUBSET Nat /\ 1 .. n \in SUBSET Nat
    BY <1>5
  <2>3. <<1 .. m, 1 .. n>> \in StrictSubsetOrdering(Nat)
    BY <2>2, Zenon DEF StrictSubsetOrdering
  <2>4. QED
    BY <1>3, <1>4, <2>1, <2>3
<1>6. QED
  BY <1>4, <1>5

LEMMA IntervalInduction ==
  ASSUME NEW N \in Nat, NEW S, 0 \in S, \A i \in 1 .. N : i - 1 \in S => i \in S
  PROVE  0 .. N \subseteq S
<1> DEFINE T == {i \in 0 .. N : i \notin S}
<1> SUFFICES ASSUME T # {} PROVE FALSE
  OBVIOUS
<1>0. T \in SUBSET Nat
  OBVIOUS
<1>1. PICK n \in T : \A m \in T : n <= m
  <2> HIDE DEF T
  <2>1. QED
    BY <1>0, LeastNumber
<1>2. n \in 1 .. N /\ n - 1 \notin T /\ n - 1 \in 0 .. N
  BY <1>1
<1>3. QED
  BY <1>1, <1>2

(***************************************************************************)
(* The recursions by which the receiver reads have one solution.           *)
(***************************************************************************)
LEMMA ReadingIsUnique ==
  ASSUME NEW ms, NEW w, Len(w) \in Nat, NEW G, G[0] = ms,
         \A i \in 1 .. Len(w) : G[i] = ReadByte(G[i - 1], w, i)
  PROVE  ReadFrom(ms, w) = G[Len(w)]
<1> DEFINE N == Len(w)
<1>0. N \in Nat /\ G[0] = ms /\ \A i \in 1 .. N : G[i] = ReadByte(G[i - 1], w, i)
  OBVIOUS
<1> HIDE DEF N
<1> DEFINE Rec(g) == g = [i \in 0 .. N |-> IF i = 0 THEN ms ELSE ReadByte(g[i - 1], w, i)]
           H == [i \in 0 .. N |-> G[i]]
<1>1. Rec(H)
  <2>1. ASSUME NEW i \in 0 .. N
        PROVE  H[i] = IF i = 0 THEN ms ELSE ReadByte(H[i - 1], w, i)
    <3>1. CASE i = 0
      BY <1>0, <3>1
    <3>2. CASE i # 0
      <4>1. i \in 1 .. N /\ i - 1 \in 0 .. N
        BY <1>0, <3>2
      <4>2. H[i] = G[i] /\ H[i - 1] = G[i - 1]
        BY <4>1
      <4>3. QED
        BY <1>0, <3>2, <4>1, <4>2, Zenon
    <3>3. QED
      BY <3>1, <3>2
  <2>2. H = [i \in 0 .. N |-> H[i]]
    OBVIOUS
  <2> HIDE DEF H
  <2>3. QED
    BY <2>1, <2>2, Zenon
<1>2. ASSUME NEW g, Rec(g) PROVE g = H
  <2> DEFINE T == {i \in 0 .. N : g[i] = G[i]}
  <2>1. \A i \in 0 .. N : g[i] = IF i = 0 THEN ms ELSE ReadByte(g[i - 1], w, i)
    BY <1>2, Zenon
  <2>2. 0 \in T
    <3>1. 0 \in 0 .. N
      BY <1>0
    <3>2. QED
      BY <1>0, <2>1, <3>1, Zenon
  <2>3. ASSUME NEW i \in 1 .. N, i - 1 \in T PROVE i \in T
    <3>1. i \in 0 .. N /\ i # 0
      BY <1>0
    <3>2. QED
      BY <1>0, <2>1, <2>3, <3>1, Zenon
  <2>4. 0 .. N \subseteq T
    <3> HIDE DEF T
    <3>1. QED
      BY <1>0, <2>2, <2>3, IntervalInduction
  <2>5. g = [i \in 0 .. N |-> g[i]]
    BY <1>2
  <2>6. QED
    BY <2>4, <2>5, Zenon
<1>3. H[N] = G[N]
  BY <1>0
<1> HIDE DEF H, Rec
<1>4. (CHOOSE g : Rec(g)) = H
  BY <1>1, <1>2, Zenon
<1>5. ReadFrom(ms, w) = (CHOOSE g : Rec(g))[N]
  BY Zenon DEF ReadFrom, Rec, N
<1>6. QED
  BY <1>3, <1>4, <1>5, Zenon DEF N

LEMMA ReceivingIsUnique ==
  ASSUME NEW G, G[0] = <<>>,
         \A c \in Connections : G[c] = ReadFrom(G[c - 1], stream[c])
  PROVE  Received = G[MaxConnections]
<1> DEFINE N == MaxConnections
<1>0. N \in Nat /\ G[0] = <<>> /\ \A c \in 1 .. N : G[c] = ReadFrom(G[c - 1], stream[c])
  BY SocketAssumption DEF Connections
<1> HIDE DEF N
<1> DEFINE Rec(g) == g = [c \in 0 .. N |-> IF c = 0 THEN <<>> ELSE ReadFrom(g[c - 1], stream[c])]
           H == [c \in 0 .. N |-> G[c]]
<1>1. Rec(H)
  <2>1. ASSUME NEW c \in 0 .. N
        PROVE  H[c] = IF c = 0 THEN <<>> ELSE ReadFrom(H[c - 1], stream[c])
    <3>1. CASE c = 0
      BY <1>0, <3>1
    <3>2. CASE c # 0
      <4>1. c \in 1 .. N /\ c - 1 \in 0 .. N
        BY <1>0, <3>2
      <4>2. H[c] = G[c] /\ H[c - 1] = G[c - 1]
        BY <4>1
      <4>3. QED
        BY <1>0, <3>2, <4>1, <4>2, Zenon
    <3>3. QED
      BY <3>1, <3>2
  <2>2. H = [c \in 0 .. N |-> H[c]]
    OBVIOUS
  <2> HIDE DEF H
  <2>3. QED
    BY <2>1, <2>2, Zenon
<1>2. ASSUME NEW g, Rec(g) PROVE g = H
  <2> DEFINE T == {c \in 0 .. N : g[c] = G[c]}
  <2>1. \A c \in 0 .. N : g[c] = IF c = 0 THEN <<>> ELSE ReadFrom(g[c - 1], stream[c])
    BY <1>2, Zenon
  <2>2. 0 \in T
    <3>1. 0 \in 0 .. N
      BY <1>0
    <3>2. QED
      BY <1>0, <2>1, <3>1, Zenon
  <2>3. ASSUME NEW c \in 1 .. N, c - 1 \in T PROVE c \in T
    <3>1. c \in 0 .. N /\ c # 0
      BY <1>0
    <3>2. QED
      BY <1>0, <2>1, <2>3, <3>1, Zenon
  <2>4. 0 .. N \subseteq T
    <3> HIDE DEF T
    <3>1. QED
      BY <1>0, <2>2, <2>3, IntervalInduction
  <2>5. g = [c \in 0 .. N |-> g[c]]
    BY <1>2
  <2>6. QED
    BY <2>4, <2>5, Zenon
<1>3. H[N] = G[N]
  BY <1>0
<1> HIDE DEF H, Rec
<1>4. (CHOOSE g : Rec(g)) = H
  BY <1>1, <1>2, Zenon
<1>5. Received = (CHOOSE g : Rec(g))[N]
  BY Zenon DEF Received, Rec, N
<1>6. QED
  BY <1>3, <1>4, <1>5, Zenon DEF N

(***************************************************************************)
(* A bounded set of numbers that has, with each number, the smaller ones   *)
(* is an initial segment.                                                  *)
(***************************************************************************)
LEMMA InitialSegment ==
  ASSUME NEW b \in Nat, NEW R, R \subseteq 1 .. b, \A m \in R : 1 .. m - 1 \subseteq R
  PROVE  \E d \in 0 .. b : R = 1 .. d
<1> DEFINE T == {n \in Nat : n + 1 \notin R}
<1>1. T \in SUBSET Nat /\ b \in T
  BY b + 1 \notin 1 .. b
<1>2. PICK d \in T : \A m \in T : d <= m
  <2> HIDE DEF T
  <2>1. QED
    BY <1>1, LeastNumber
<1>3. d \in 0 .. b /\ d + 1 \notin R
  BY <1>1, <1>2
<1>4. ASSUME NEW m \in 1 .. d PROVE m \in R
  <2>1. m - 1 \in Nat /\ ~ (d <= m - 1) /\ (m - 1) + 1 = m
    BY <1>3
  <2>2. QED
    BY <1>2, <2>1
<1>5. ASSUME NEW m \in R PROVE m \in 1 .. d
  <2>1. m \in 1 .. b /\ (m > d + 1 => d + 1 \in 1 .. m - 1)
    BY <1>3
  <2>2. ~ (m > d + 1) /\ m # d + 1
    BY <1>3, <2>1
  <2>3. QED
    BY <1>3, <2>1, <2>2
<1>6. QED
  BY <1>3, <1>4, <1>5

LEMMA SegmentsDiffer ==
  ASSUME NEW a \in Nat, NEW b \in Nat, 1 .. a = 1 .. b
  PROVE  a = b
<1>1. a \in 1 .. a \/ a = 0
  OBVIOUS
<1>2. b \in 1 .. b \/ b = 0
  OBVIOUS
<1>3. a <= b /\ b <= a
  BY <1>1, <1>2
<1>4. QED
  BY <1>3

(* The messages 1 to d, as the receiver reads them. *)
Upto(d) == [i \in 1 .. d |-> i]

LEMMA ReadOne ==
  ASSUME NEW d \in Nat
  PROVE  /\ Upto(d) \in Seq(Nat) /\ Len(Upto(d)) = d
         /\ \A m : Contains(Upto(d), m) <=> m \in 1 .. d
         /\ Append(Upto(d), d + 1) = Upto(d + 1)
<1>1. Upto(d) \in Seq(Nat) /\ Len(Upto(d)) = d /\ \A i \in 1 .. d : Upto(d)[i] = i
  <2>1. Upto(d) \in [1 .. d -> Nat]
    BY DEF Upto
  <2>2. Upto(d) \in Seq(Nat)
    BY <2>1, SeqDef
  <2>3. QED
    BY <2>1, <2>2, LenProperties DEF Upto
<1>2. \A m : Contains(Upto(d), m) <=> m \in 1 .. d
  BY <1>1 DEF Contains
<1>3. Append(Upto(d), d + 1) = Upto(d + 1)
  <2> DEFINE s == Append(Upto(d), d + 1)
  <2>1. s \in Seq(Nat) /\ Len(s) = d + 1 /\ s[d + 1] = d + 1 /\ \A i \in 1 .. d : s[i] = i
    BY <1>1, AppendProperties
  <2> HIDE DEF s
  <2>2. s = [i \in 1 .. d + 1 |-> s[i]]
    BY <2>1, LenProperties
  <2>3. \A i \in 1 .. d + 1 : s[i] = i
    BY <2>1
  <2>4. QED
    BY <2>2, <2>3, Zenon DEF Upto, s
<1>4. QED
  BY <1>1, <1>2, <1>3

(***************************************************************************)
(* When a connection took frames, a frame is whole where its last byte is. *)
(***************************************************************************)
Framed(w) ==
  \A i \in 1 .. Len(w) :
    w[i][2] > 1 => i > 1 /\ w[i - 1] = <<w[i][1], w[i][2] - 1>>

LEMMA WholeIsLastByte ==
  ASSUME NEW w \in Seq(Byte), Framed(w), NEW i \in 1 .. Len(w)
  PROVE  Whole(w, i) <=> w[i][2] = FrameSize
<1> DEFINE F == FrameSize
           m == w[i][1]
<1>1. F \in Nat \ {0}
  BY FrameBounds
<1>2. w[i] = <<m, w[i][2]>>
  <2>1. w[i] \in Byte
    BY ElementOfSeq
  <2>2. QED
    BY <2>1 DEF Byte
<1> HIDE DEF F
<1>3. ASSUME Whole(w, i) PROVE w[i][2] = F
  <2>1. F \in 1 .. F /\ i - F + F = i
    BY <1>1, LenProperties
  <2>2. w[i - F + F] = <<m, F>>
    BY <1>3, <2>1 DEF Whole, F
  <2>3. QED
    BY <2>1, <2>2
<1>4. ASSUME w[i][2] = F PROVE Whole(w, i)
  <2> DEFINE T == {k \in 0 .. F - 1 : k < i /\ w[i - k] = <<m, F - k>>}
  <2>1. 0 \in T
    BY <1>1, <1>2, <1>4
  <2>2. ASSUME NEW k \in 1 .. F - 1, k - 1 \in T PROVE k \in T
    <3> DEFINE j == i - (k - 1)
               q == F - (k - 1)
    <3>1. /\ j \in 1 .. Len(w) /\ w[j] = <<m, q>> /\ q > 1
          /\ j - 1 = i - k /\ q - 1 = F - k
      BY <1>1, <2>2
    <3> HIDE DEF j, q
    <3>2. j > 1 /\ w[j - 1] = <<m, q - 1>>
      BY <3>1 DEF Framed
    <3>3. k \in 0 .. F - 1 /\ k < i
      BY <1>1, <3>1, <3>2
    <3>4. QED
      BY <3>1, <3>2, <3>3
  <2>3. 0 .. F - 1 \subseteq T
    <3> HIDE DEF T
    <3>1. F - 1 \in Nat
      BY <1>1
    <3>2. QED
      BY <2>1, <2>2, <3>1, IntervalInduction
  <2>4. i >= F
    BY <1>1, <2>3, F - 1 \in T
  <2>5. ASSUME NEW p \in 1 .. F PROVE w[i - F + p] = <<m, p>>
    <3>1. F - p \in 0 .. F - 1 /\ i - (F - p) = i - F + p /\ F - (F - p) = p
      BY <1>1, LenProperties
    <3>2. F - p \in T
      BY <2>3, <3>1, Zenon
    <3>3. QED
      BY <3>1, <3>2
  <2>6. QED
    BY <2>4, <2>5 DEF Whole, F
<1>5. QED
  BY <1>3, <1>4 DEF F

(***************************************************************************)
(* When k messages were read, and a connection took a byte of a message    *)
(* only behind all earlier ones, then what is read of it are the next      *)
(* messages in their order.                                                *)
(***************************************************************************)
WholeIn(w, i) == {m \in Messages : \E j \in 1 .. i : w[j] = <<m, FrameSize>>}

LEMMA ReadsOn ==
  ASSUME NEW w \in Seq(Byte), Framed(w), NEW k \in 0 .. MaxMessages,
         \A i \in 1 .. Len(w) : 1 .. w[i][1] - 1 \subseteq 1 .. k \union WholeIn(w, i - 1)
  PROVE  \E d \in 0 .. MaxMessages :
           /\ ReadFrom(Upto(k), w) = Upto(d)
           /\ 1 .. k \union WholeIn(w, Len(w)) = 1 .. d
<1> DEFINE N == Len(w)
           R(i) == 1 .. k \union WholeIn(w, i)
           D(i) == CHOOSE d \in 0 .. MaxMessages : R(i) = 1 .. d
           G == [i \in 0 .. N |-> Upto(D(i))]
<1>1. /\ N \in Nat /\ MaxMessages \in Nat /\ k \in Nat /\ k <= MaxMessages
      /\ \A i \in 1 .. N : /\ w[i] = <<w[i][1], w[i][2]>> /\ w[i][1] \in Messages
                           /\ i - 1 \in 0 .. N
                           /\ Whole(w, i) <=> w[i] = <<w[i][1], FrameSize>>
                           /\ 1 .. w[i][1] - 1 \subseteq R(i - 1)
  <2>1. N \in Nat /\ MaxMessages \in Nat /\ k \in Nat /\ k <= MaxMessages
    BY LenProperties, ForwarderAssumption
  <2>2. ASSUME NEW i \in 1 .. N
        PROVE  /\ w[i] = <<w[i][1], w[i][2]>> /\ w[i][1] \in Messages
               /\ Whole(w, i) <=> w[i] = <<w[i][1], FrameSize>>
    <3>1. w[i] \in Byte
      BY ElementOfSeq
    <3>2. w[i] = <<w[i][1], w[i][2]>> /\ w[i][1] \in Messages
      BY <3>1 DEF Byte
    <3>3. Whole(w, i) <=> w[i][2] = FrameSize
      BY WholeIsLastByte
    <3>4. QED
      BY <3>2, <3>3
  <2>3. QED
    BY <2>1, <2>2
<1>2. ASSUME NEW i \in 0 .. N
      PROVE  D(i) \in 0 .. MaxMessages /\ R(i) = 1 .. D(i)
  <2>1. R(i) \subseteq 1 .. MaxMessages
    BY <1>1 DEF WholeIn, Messages
  <2>2. ASSUME NEW m \in R(i) PROVE 1 .. m - 1 \subseteq R(i)
    <3>1. CASE m \in 1 .. k
      BY <1>1, <3>1
    <3>2. CASE m \in WholeIn(w, i)
      <4>1. PICK j \in 1 .. i : w[j] = <<m, FrameSize>>
        BY <3>2 DEF WholeIn
      <4>2. 1 .. m - 1 \subseteq R(j - 1)
        <5>1. j \in 1 .. N /\ w[j][1] = m
          BY <1>1, <4>1
        <5> HIDE DEF R
        <5>2. QED
          BY <1>1, <5>1
      <4>3. WholeIn(w, j - 1) \subseteq WholeIn(w, i)
        <5>1. 1 .. j - 1 \subseteq 1 .. i
          BY <1>1
        <5>2. QED
          BY <5>1, Zenon DEF WholeIn
      <4>4. QED
        BY <4>2, <4>3
    <3>3. QED
      BY <3>1, <3>2
  <2> HIDE DEF R
  <2>3. \E d \in 0 .. MaxMessages : R(i) = 1 .. d
    BY <1>1, <2>1, <2>2, InitialSegment
  <2>4. QED
    BY <2>3, Zenon
<1>3. WholeIn(w, 0) = {} /\ D(0) = k
  <2>1. WholeIn(w, 0) = {}
    BY DEF WholeIn
  <2>2. 0 \in 0 .. N
    BY <1>1
  <2>3. D(0) \in 0 .. MaxMessages /\ R(0) = 1 .. D(0)
    BY <1>2, <2>2
  <2>4. 1 .. k = 1 .. D(0)
    BY <2>1, <2>3
  <2> HIDE DEF D
  <2>5. QED
    BY <1>1, <2>1, <2>3, <2>4, SegmentsDiffer
<1>4. ASSUME NEW i \in 1 .. N
      PROVE  Upto(D(i)) = ReadByte(Upto(D(i - 1)), w, i)
  <2> DEFINE m == w[i][1]
             a == D(i - 1)
             b == D(i)
  <2>1. /\ a \in Nat /\ b \in Nat /\ a <= MaxMessages /\ R(i - 1) = 1 .. a /\ R(i) = 1 .. b
        /\ m \in Messages /\ 1 .. m - 1 \subseteq 1 .. a
    <3>1. i \in 0 .. N /\ i - 1 \in 0 .. N
      BY <1>1
    <3> HIDE DEF D, R
    <3>2. /\ a \in 0 .. MaxMessages /\ R(i - 1) = 1 .. a
          /\ b \in 0 .. MaxMessages /\ R(i) = 1 .. b
      BY <1>2, <3>1
    <3>3. m \in Messages /\ 1 .. m - 1 \subseteq R(i - 1)
      BY <1>1
    <3>4. QED
      BY <1>1, <3>2, <3>3
  <2>2. WholeIn(w, i) = WholeIn(w, i - 1) \union (IF w[i] = <<m, FrameSize>> THEN {m} ELSE {})
    <3>1. 1 .. i = 1 .. i - 1 \union {i}
      OBVIOUS
    <3>2. \A x : w[i] = <<x, FrameSize>> <=> x = m /\ w[i] = <<m, FrameSize>>
      BY <1>1
    <3>3. QED
      BY <2>1, <3>1, <3>2 DEF WholeIn
  <2>3. 1 .. b = 1 .. a \union (IF Whole(w, i) THEN {m} ELSE {})
    BY <1>1, <2>1, <2>2
  <2> HIDE DEF D, m, R
  <2> HIDE DEF a, b
  <2>0. Contains(Upto(a), m) <=> m \in 1 .. a
    BY <2>1, ReadOne, Zenon
  <2>4. CASE ~Whole(w, i) \/ m <= a
    <3>1. 1 .. b = 1 .. a
      BY <2>1, <2>3, <2>4 DEF Messages
    <3>2. a = b
      BY <2>1, <3>1, SegmentsDiffer
    <3>3. ~Whole(w, i) \/ Contains(Upto(a), m)
      BY <2>0, <2>1, <2>4 DEF Messages
    <3>4. QED
      BY <3>2, <3>3, Zenon DEF ReadByte, a, b, m
  <2>5. CASE Whole(w, i) /\ m > a
    <3>1. m = a + 1 /\ m \in Nat
      <4>1. m \in Nat /\ m > 0 /\ (m - 1 \in 1 .. m - 1 \/ m = 1)
        BY <2>1 DEF Messages
      <4>2. QED
        BY <2>1, <2>5, <4>1
    <3>2. 1 .. b = 1 .. a + 1
      <4>1. 1 .. b = 1 .. a \union {a + 1}
        BY <2>3, <2>5, <3>1, Zenon
      <4>2. 1 .. a \union {a + 1} = 1 .. a + 1
        BY <2>1
      <4>3. QED
        BY <4>1, <4>2, Zenon
    <3>3. b = a + 1
      BY <2>1, <3>2, SegmentsDiffer
    <3>4. ~Contains(Upto(a), m) /\ Append(Upto(a), m) = Upto(b)
      <4>1. Append(Upto(a), m) = Upto(b)
        BY <2>1, <3>1, <3>3, ReadOne, Zenon
      <4>2. QED
        BY <2>0, <2>1, <2>5, <4>1
    <3>5. QED
      BY <2>5, <3>4, Zenon DEF ReadByte, a, b, m
  <2>6. QED
    BY <2>1, <2>4, <2>5 DEF Messages
<1>5. ReadFrom(Upto(k), w) = Upto(D(N))
  <2>1. G[0] = Upto(k) /\ G[N] = Upto(D(N))
    BY <1>1, <1>3
  <2>2. ASSUME NEW i \in 1 .. N PROVE G[i] = ReadByte(G[i - 1], w, i)
    <3>1. i \in 0 .. N /\ i - 1 \in 0 .. N
      BY <1>1
    <3>2. G[i] = Upto(D(i)) /\ G[i - 1] = Upto(D(i - 1))
      BY <3>1
    <3>3. QED
      BY <1>4, <3>2, Zenon
  <2> HIDE DEF G, D
  <2>3. ReadFrom(Upto(k), w) = G[Len(w)]
    BY <1>1, <2>1, <2>2, ReadingIsUnique, Zenon
  <2>4. QED
    BY <2>1, <2>3, Zenon
<1>6. N \in 0 .. N
  BY <1>1
<1>7. QED
  BY <1>2, <1>5, <1>6, Zenon

(***************************************************************************)
(* A connection takes a byte of a message only behind the whole of every   *)
(* earlier message, on the same connection or an earlier one.              *)
(***************************************************************************)
EarlierFirst ==
  \A c \in Connections : \A i \in 1 .. Len(stream[c]) :
    \A m \in 1 .. stream[c][i][1] - 1 :
      \/ \E b \in 1 .. c - 1 : WholeOn(m, b)
      \/ \E j \in 1 .. i - 1 : stream[c][j] = <<m, FrameSize>>

(***************************************************************************)
(* So the receiver reads the messages in their order, without a gap, up to *)
(* the last one that was taken whole.                                      *)
(***************************************************************************)
WholeAreRead ==
  \E d \in 0 .. MaxMessages :
    Received = Upto(d) /\ \A m \in Messages : SentWhole(m) <=> m <= d

LEMMA ReadInOrder == TypeOK /\ StreamIsFrames /\ EarlierFirst => WholeAreRead
<1> SUFFICES ASSUME TypeOK, StreamIsFrames, EarlierFirst PROVE WholeAreRead
  OBVIOUS
<1> DEFINE N == MaxConnections
           R(c) == {m \in Messages : \E b \in 1 .. c : WholeOn(m, b)}
           D(c) == CHOOSE d \in 0 .. MaxMessages : R(c) = 1 .. d
           G == [c \in 0 .. N |-> Upto(D(c))]
<1>1. /\ N \in Nat /\ MaxMessages \in Nat /\ Connections = 1 .. N
      /\ \A c \in 1 .. N : stream[c] \in Seq(Byte)
  BY SocketAssumption, ForwarderAssumption
  DEF TypeOK, SocketTypeOK, SentDataOK, Connections
<1>2. ASSUME NEW c \in 0 .. N
      PROVE  D(c) \in 0 .. MaxMessages /\ R(c) = 1 .. D(c)
  <2>1. R(c) \subseteq 1 .. MaxMessages
    BY DEF Messages
  <2>2. ASSUME NEW m \in R(c) PROVE 1 .. m - 1 \subseteq R(c)
    <3> SUFFICES ASSUME NEW x \in 1 .. m - 1 PROVE x \in R(c)
      OBVIOUS
    <3>0. PICK b \in 1 .. c : WholeOn(m, b)
      OBVIOUS
    <3>1. PICK i \in 1 .. Len(stream[b]) : stream[b][i] = <<m, FrameSize>>
      BY <3>0 DEF WholeOn
    <3>2. b \in Connections /\ stream[b][i][1] = m /\ x \in Messages /\ stream[b] \in Seq(Byte)
      BY <1>1, <3>1 DEF Messages
    <3>3. CASE \E a \in 1 .. b - 1 : WholeOn(x, a)
      <4>1. 1 .. b - 1 \subseteq 1 .. c
        BY <1>1
      <4>2. QED
        BY <3>2, <3>3, <4>1
    <3>4. CASE \E j \in 1 .. i - 1 : stream[b][j] = <<x, FrameSize>>
      <4>1. 1 .. i - 1 \subseteq 1 .. Len(stream[b])
        BY <3>2, LenProperties
      <4>2. WholeOn(x, b)
        BY <3>4, <4>1 DEF WholeOn
      <4>3. QED
        BY <3>1, <3>2, <4>2
    <3>5. QED
      BY <3>2, <3>3, <3>4 DEF EarlierFirst
  <2> HIDE DEF R
  <2>3. \E d \in 0 .. MaxMessages : R(c) = 1 .. d
    BY <1>1, <2>1, <2>2, InitialSegment
  <2>4. QED
    BY <2>3, Zenon
<1>3. D(0) = 0
  <2>1. R(0) = {} /\ 0 \in 0 .. N
    BY <1>1
  <2>2. D(0) \in 0 .. MaxMessages /\ R(0) = 1 .. D(0)
    BY <1>2, <2>1
  <2> HIDE DEF D, R
  <2>3. D(0) = 0 \/ 1 \in 1 .. D(0)
    BY <1>1, <2>2
  <2>4. QED
    BY <2>1, <2>2, <2>3
<1>4. ASSUME NEW c \in 1 .. N
      PROVE  Upto(D(c)) = ReadFrom(Upto(D(c - 1)), stream[c])
  <2> DEFINE w == stream[c]
             k == D(c - 1)
  <2>1. /\ c \in Connections /\ c - 1 \in 0 .. N /\ c \in 0 .. N /\ w \in Seq(Byte)
        /\ Len(w) \in Nat
    BY <1>1, LenProperties
  <2>2. k \in 0 .. MaxMessages /\ R(c - 1) = 1 .. k /\ D(c) \in 0 .. MaxMessages /\ R(c) = 1 .. D(c)
    BY <1>2, <2>1
  <2>3. Framed(w)
    <3> SUFFICES ASSUME NEW i \in 1 .. Len(w), w[i][2] > 1
                 PROVE  i > 1 /\ w[i - 1] = <<w[i][1], w[i][2] - 1>>
      BY Zenon DEF Framed
    <3>1. w[i] \in Byte
      BY <2>1, ElementOfSeq
    <3>2. w[i][2] # 1
      BY <3>1, FrameBounds DEF Byte
    <3>3. QED
      BY <2>1, <3>2 DEF StreamIsFrames
  <2>4. ASSUME NEW i \in 1 .. Len(w)
        PROVE  1 .. w[i][1] - 1 \subseteq 1 .. k \union WholeIn(w, i - 1)
    <3> SUFFICES ASSUME NEW x \in 1 .. w[i][1] - 1
                 PROVE  x \in R(c - 1) \union WholeIn(w, i - 1)
      BY <2>2
    <3>1. w[i] \in Byte
      BY <2>1, ElementOfSeq
    <3>2. x \in Messages
      BY <1>1, <3>1 DEF Byte, Messages
    <3>3. \/ \E b \in 1 .. c - 1 : WholeOn(x, b)
          \/ \E j \in 1 .. i - 1 : w[j] = <<x, FrameSize>>
      BY <2>1 DEF EarlierFirst
    <3>4. QED
      BY <3>2, <3>3 DEF WholeIn
  <2>5. R(c) = R(c - 1) \union WholeIn(w, Len(w))
    <3>1. 1 .. c = 1 .. c - 1 \union {c}
      BY <1>1
    <3>2. QED
      BY <3>1 DEF WholeOn, WholeIn
  <2> HIDE DEF D, R, w, k
  <2>6. PICK d \in 0 .. MaxMessages :
          ReadFrom(Upto(k), w) = Upto(d) /\ 1 .. k \union WholeIn(w, Len(w)) = 1 .. d
    BY <2>1, <2>2, <2>3, <2>4, ReadsOn
  <2>7. 1 .. D(c) = 1 .. d
    BY <2>2, <2>5, <2>6
  <2>8. D(c) = d
    BY <1>1, <2>2, <2>7, SegmentsDiffer
  <2>9. QED
    BY <2>6, <2>8 DEF k, w
<1>5. Received = Upto(D(N))
  <2>0. Upto(0) = <<>>
    BY ReadOne, EmptySeq
  <2>1. G[0] = <<>> /\ G[N] = Upto(D(N))
    <3>1. 0 \in 0 .. N /\ N \in 0 .. N
      BY <1>1
    <3> HIDE DEF D
    <3>2. QED
      BY <1>3, <2>0, <3>1
  <2>2. ASSUME NEW c \in 1 .. N PROVE G[c] = ReadFrom(G[c - 1], stream[c])
    <3>1. c \in 0 .. N /\ c - 1 \in 0 .. N
      BY <1>1
    <3>2. G[c] = Upto(D(c)) /\ G[c - 1] = Upto(D(c - 1))
      BY <3>1
    <3>3. QED
      BY <1>4, <3>2, Zenon
  <2> HIDE DEF G, D
  <2>3. Received = G[N]
    BY <1>1, <2>1, <2>2, ReceivingIsUnique, Zenon
  <2>4. QED
    BY <2>1, <2>3, Zenon
<1>6. ASSUME NEW m \in Messages PROVE SentWhole(m) <=> m <= D(N)
  <2>1. N \in 0 .. N
    BY <1>1
  <2>2. D(N) \in 0 .. MaxMessages /\ R(N) = 1 .. D(N)
    BY <1>2, <2>1
  <2>3. SentWhole(m) <=> m \in R(N)
    BY <1>1 DEF SentWhole
  <2> HIDE DEF D, R
  <2>4. m \in 1 .. D(N) <=> m <= D(N)
    BY <1>1, <2>2 DEF Messages
  <2>5. QED
    BY <2>2, <2>3, <2>4
<1>7. D(N) \in 0 .. MaxMessages
  <2>1. N \in 0 .. N
    BY <1>1
  <2> HIDE DEF D
  <2>2. QED
    BY <1>2, <2>1
<1>8. QED
  <2> HIDE DEF D
  <2>1. QED
    BY <1>5, <1>6, <1>7 DEF WholeAreRead

LEMMA StepsKeepEarlierFirst ==
  ASSUME TypeOK, SessionInv, HeldInv, RecordInv, PositionInv, PoppedIsSentOrHeld,
         EarlierFirst, [Next]_vars
  PROVE  EarlierFirst'
<1>1. CASE UNCHANGED stream
  BY <1>1 DEF EarlierFirst, WholeOn
<1>2. CASE state = "Sending" /\ message # NULL /\ SendOk
  <2> DEFINE n == RecordSize(size)
             l == Len(stream[opened])
  <2>1. /\ n \in Nat /\ n > 0 /\ l \in Nat /\ opened \in Connections
        /\ \A c \in Connections \ {opened} : stream'[c] = stream[c]
        /\ Len(stream'[opened]) = l + n
        /\ \A i \in 1 .. l : stream'[opened][i] = stream[opened][i]
        /\ \A k \in 1 .. n : stream'[opened][l + k] = <<message, sent + k>>
    BY <1>2, StreamAfterSend
  <2> HIDE DEF n
  <2>2. ASSUME NEW b \in Connections, NEW m, WholeOn(m, b) PROVE WholeOn(m, b)'
    <3>1. PICK i \in 1 .. Len(stream[b]) : stream[b][i] = <<m, FrameSize>>
      BY <2>2 DEF WholeOn
    <3>2. i \in 1 .. Len(stream'[b]) /\ stream'[b][i] = <<m, FrameSize>>
      BY <2>1, <3>1
    <3>3. QED
      BY <3>2 DEF WholeOn
  <2> SUFFICES ASSUME NEW c \in Connections, NEW i \in 1 .. Len(stream'[c]),
                      NEW m \in 1 .. stream'[c][i][1] - 1
               PROVE  \/ \E b \in 1 .. c - 1 : WholeOn(m, b)'
                      \/ \E j \in 1 .. i - 1 : stream'[c][j] = <<m, FrameSize>>
    BY DEF EarlierFirst
  <2>3. c \in Nat /\ \A b \in 1 .. c - 1 : b \in Connections
    BY SocketAssumption DEF Connections
  <2>4. CASE c # opened \/ i <= l
    <3>1. i \in 1 .. Len(stream[c]) /\ stream'[c][i] = stream[c][i]
      BY <2>1, <2>4
    <3>2. CASE \E b \in 1 .. c - 1 : WholeOn(m, b)
      BY <2>2, <2>3, <3>2
    <3>3. CASE \E j \in 1 .. i - 1 : stream[c][j] = <<m, FrameSize>>
      <4>1. PICK j \in 1 .. i - 1 : stream[c][j] = <<m, FrameSize>>
        BY <3>3
      <4>2. stream'[c][j] = stream[c][j]
        <5>1. CASE c # opened
          BY <2>1, <5>1
        <5>2. CASE c = opened /\ i <= l
          <6>1. j \in 1 .. l
            BY <2>1, <4>1, <5>2
          <6>2. QED
            BY <2>1, <5>2, <6>1
        <5>3. QED
          BY <2>4, <5>1, <5>2
      <4>3. QED
        BY <4>1, <4>2
    <3>4. QED
      BY <3>1, <3>2, <3>3 DEF EarlierFirst
  <2>5. CASE c = opened /\ i > l
    <3>1. i - l \in 1 .. n /\ i = l + (i - l)
      <4>1. i \in 1 .. l + n
        BY <2>1, <2>5
      <4> HIDE DEF l
      <4>2. QED
        BY <2>1, <2>5, <4>1
    <3>2. stream'[c][i] = <<message, sent + (i - l)>>
      BY <2>1, <2>5, <3>1
    <3>3. m \in 1 .. message - 1 /\ message = popped /\ popped \in Nat
      BY <1>2, <3>2, ForwarderAssumption DEF HeldInv, TypeOK, QueueOK
    <3>4. m \in 1 .. popped /\ m # message
      BY <3>3
    <3>5. PICK b \in Connections : WholeOn(m, b)
      BY <3>4 DEF PoppedIsSentOrHeld, SentWhole
    <3>6. CASE b = opened
      <4>1. PICK j \in 1 .. l : stream[c][j] = <<m, FrameSize>>
        BY <2>5, <3>5, <3>6 DEF WholeOn
      <4>2. j \in 1 .. i - 1 /\ stream'[c][j] = <<m, FrameSize>>
        BY <2>1, <2>5, <4>1
      <4>3. QED
        BY <4>2
    <3>7. CASE b # opened
      <4>1. ~ (b > opened)
        BY <3>5 DEF PositionInv, WholeOn
      <4>2. b \in 1 .. c - 1
        BY <2>1, <2>5, <3>7, <4>1, SocketAssumption DEF Connections
      <4>3. QED
        BY <2>2, <3>5, <4>2
    <3>8. QED
      BY <3>6, <3>7
  <2>6. QED
    BY <2>1, <2>4, <2>5
<1>3. QED
  BY <1>1, <1>2, StreamSteps

(***************************************************************************)
(* No byte of a message is on a connection before every earlier message    *)
(* was taken whole, by this connection or one that was made before it.     *)
(***************************************************************************)
THEOREM EarlierMessagesFirst == Spec => []EarlierFirst
<1>1. Init => EarlierFirst
  BY DEF Init, SocketInit, EarlierFirst
<1>2. ForwarderInv /\ EarlierFirst /\ [Next]_vars => EarlierFirst'
  BY StepsKeepEarlierFirst DEF ForwarderInv, DeliveryInv
<1>3. QED
  BY <1>1, <1>2, ForwarderInvariant, PTL DEF Spec

(***************************************************************************)
(* A receiver that reads the frames of one connection after the other and  *)
(* disregards messages it has read before reads, in every state, the       *)
(* messages 1, 2, 3 and so on up to the last one that was taken whole,     *)
(* none missing, made up or out of order, wherever connections broke.      *)
(***************************************************************************)
ReceivedInOrder ==
  \E d \in 0 .. popped :
    Received = Upto(d) /\ \A m \in Messages : SentWhole(m) <=> m <= d

LEMMA ReadIsPopped == ForwarderInv /\ SentIsPopped /\ EarlierFirst => ReceivedInOrder
<1> SUFFICES ASSUME ForwarderInv, SentIsPopped, EarlierFirst PROVE ReceivedInOrder
  OBVIOUS
<1>1. PICK d \in 0 .. MaxMessages :
        Received = Upto(d) /\ \A m \in Messages : SentWhole(m) <=> m <= d
  BY ReadInOrder DEF ForwarderInv, DeliveryInv, WholeAreRead
<1>2. popped \in Nat /\ MaxMessages \in Nat
  BY ForwarderAssumption DEF ForwarderInv, TypeOK, QueueOK
<1>3. d <= popped
  <2>1. CASE d = 0
    BY <1>2, <2>1
  <2>2. CASE d # 0
    <3>1. d \in Messages /\ SentWhole(d)
      BY <1>1, <1>2, <2>2 DEF Messages
    <3>2. d \in 1 .. popped
      BY <3>1 DEF SentWhole, WholeOn, SentIsPopped
    <3>3. QED
      BY <1>2, <3>2
  <2>3. QED
    BY <2>1, <2>2
<1>4. d \in 0 .. popped
  BY <1>2, <1>3
<1>5. QED
  BY <1>1, <1>4 DEF ReceivedInOrder

THEOREM MessagesAreReadInOrder == Spec => []ReceivedInOrder
BY ReadIsPopped, ForwarderInvariant, OnlyPoppedIsSent, EarlierMessagesFirst, PTL

(***************************************************************************)
(* What is read only grows, by one message at a time: only the message     *)
(* that is held can become whole.                                          *)
(***************************************************************************)
LEMMA OnlyHeldBecomesWhole ==
  ASSUME TypeOK, SessionInv, RecordInv, [Next]_vars, NEW m, SentWhole(m)', ~SentWhole(m)
  PROVE  m = message
<1>1. CASE UNCHANGED stream
  BY <1>1 DEF SentWhole, WholeOn
<1>2. CASE state = "Sending" /\ message # NULL /\ SendOk
  <2> DEFINE n == RecordSize(size)
             l == Len(stream[opened])
  <2>1. /\ n \in Nat /\ l \in Nat /\ opened \in Connections
        /\ \A c \in Connections \ {opened} : stream'[c] = stream[c]
        /\ Len(stream'[opened]) = l + n
        /\ \A i \in 1 .. l : stream'[opened][i] = stream[opened][i]
        /\ \A k \in 1 .. n : stream'[opened][l + k] = <<message, sent + k>>
    BY <1>2, StreamAfterSend
  <2> HIDE DEF n
  <2>2. PICK c \in Connections : \E i \in 1 .. Len(stream'[c]) : stream'[c][i] = <<m, FrameSize>>
    BY DEF SentWhole, WholeOn
  <2>3. PICK i \in 1 .. Len(stream'[c]) : stream'[c][i] = <<m, FrameSize>>
    BY <2>2
  <2>4. ~ (i \in 1 .. Len(stream[c]) /\ stream[c][i] = <<m, FrameSize>>)
    BY DEF SentWhole, WholeOn
  <2>5. c = opened /\ i > l
    BY <2>1, <2>3, <2>4
  <2>6. i - l \in 1 .. n /\ i = l + (i - l)
    BY <2>1, <2>3, <2>5
  <2>7. stream'[c][i] = <<message, sent + (i - l)>>
    BY <2>1, <2>5, <2>6
  <2>8. QED
    BY <2>3, <2>7
<1>3. QED
  BY <1>1, <1>2, StreamSteps

LEMMA ReadsOneMore ==
  ASSUME ForwarderInv, ForwarderInv', SentIsPopped, SentIsPopped',
         EarlierFirst, EarlierFirst', [Next]_vars
  PROVE  \E d \in 0 .. popped, e \in 0 .. popped' :
           /\ Received = Upto(d) /\ Received' = Upto(e)
           /\ e \in {d, d + 1}
           /\ UNCHANGED stream => e = d
<1>1. PICK d \in 0 .. popped :
        Received = Upto(d) /\ \A m \in Messages : SentWhole(m) <=> m <= d
  BY ReadIsPopped DEF ReceivedInOrder
<1>2. PICK e \in 0 .. popped' :
        Received' = Upto(e) /\ \A m \in Messages : SentWhole(m)' <=> m <= e
  <2>1. ReceivedInOrder'
    BY ReadIsPopped, PTL
  <2>2. QED
    BY <2>1 DEF ReceivedInOrder
<1>3. d \in Nat /\ e \in Nat /\ MaxMessages \in Nat /\ d <= MaxMessages /\ e <= MaxMessages
  BY ForwarderAssumption DEF ForwarderInv, TypeOK, QueueOK
<1>4. d <= e
  <2>1. CASE d = 0
    BY <1>3, <2>1
  <2>2. CASE d # 0
    <3>1. d \in Messages /\ SentWhole(d)
      BY <1>1, <1>3, <2>2 DEF Messages
    <3>2. SentWhole(d)'
      BY <3>1, StaysSent DEF ForwarderInv
    <3>3. QED
      BY <1>2, <3>1, <3>2
  <2>3. QED
    BY <2>1, <2>2
<1>5. e <= d + 1
  <2> SUFFICES ASSUME e > d + 1 PROVE FALSE
    BY <1>3
  <2>1. d + 1 \in Messages /\ d + 2 \in Messages /\ d + 1 <= e /\ d + 2 <= e
    BY <1>3 DEF Messages
  <2>2. ~SentWhole(d + 1) /\ ~SentWhole(d + 2) /\ SentWhole(d + 1)' /\ SentWhole(d + 2)'
    BY <1>1, <1>2, <1>3, <2>1
  <2>3. d + 1 = message /\ d + 2 = message
    BY <2>2, OnlyHeldBecomesWhole DEF ForwarderInv
  <2>4. QED
    BY <1>3, <2>3
<1>6. ASSUME UNCHANGED stream PROVE e = d
  <2> SUFFICES ASSUME e > d PROVE FALSE
    BY <1>3, <1>4
  <2>1. d + 1 \in Messages /\ d + 1 <= e
    BY <1>3 DEF Messages
  <2>2. ~SentWhole(d + 1) /\ SentWhole(d + 1)'
    BY <1>1, <1>2, <1>3, <2>1
  <2>3. QED
    BY <1>6, <2>2 DEF SentWhole, WholeOn
<1>7. e \in {d, d + 1}
  BY <1>3, <1>4, <1>5
<1>8. QED
  BY <1>1, <1>2, <1>6, <1>7
=============================================================================
