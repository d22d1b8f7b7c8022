--------------------------- MODULE EventForwarder ----------------------------
(***************************************************************************)
(* The forwarder thread (evt/event_forwarder.cpp): it pops messages and    *)
(* sends each one as a frame, its length followed by its fragments, over a *)
(* TLS connection that it opens again when it is lost.                     *)
(*                                                                         *)
(* Winsock's network events are bits: an event is recorded at bit FD_x_BIT *)
(* of lNetworkEvents (FD_WRITE = 1 << FD_WRITE_BIT, FD_CLOSE likewise).    *)
(* A mask is modelled as the set of its bits, and the operands that run()  *)
(* tests the recorded events with are the constants WriteMask, CloseMask:  *)
(*   - the code tests with FD_WRITE_BIT = 1 and FD_CLOSE_BIT = 5, that is  *)
(*     with the masks {0} and {0, 2};                                      *)
(*   - testing with FD_WRITE = 2 and FD_CLOSE = 32 would be {1} and {5}.   *)
(* Instances state which of the two they are about.                        *)
(*                                                                         *)
(* Abstractions.  Messages are numbered in the order they are queued and   *)
(* have the same shape: FrameEnds[1] is where the length ends in the       *)
(* frame, FrameEnds[1 + i] where fragment i ends (equal ends: an empty     *)
(* fragment).  A byte sent is <<message, position in its frame>>.  The     *)
(* socket is the module TlsSocket: a state of run that calls it conjoins   *)
(* one of its actions, and is left when the call returns.  The queue is    *)
(* the bounded FIFO that EventQueue implements, its capacity left out: a   *)
(* full queue only delays the producers.                                   *)
(***************************************************************************)
EXTENDS TlsSocket, SequencesExt

CONSTANTS
  MaxMessages,     (* bound: messages queued                                *)
  FrameEnds,       (* ends of the blocks of a frame: length, fragments      *)
  WriteMask,       (* bits tested for a writable socket                     *)
  CloseMask,       (* bits tested for a closed connection                   *)
  NULL

ASSUME ForwarderAssumption ==
  /\ MaxMessages \in Nat
  /\ FrameEnds \in Seq(Nat) /\ Len(FrameEnds) >= 2
  /\ \A i, j \in 1 .. Len(FrameEnds) : i <= j => FrameEnds[i] <= FrameEnds[j]
  /\ FrameEnds[1] > 0
  /\ NULL \notin 1 .. MaxMessages

Messages == 1 .. MaxMessages
FrameSize == FrameEnds[Len(FrameEnds)]
Byte == Messages \X (1 .. FrameSize)

FD_WRITE == {1}
FD_CLOSE == {5}

VARIABLES
  (* EventForwarder::run *)
  state,        (* state                                                    *)
  events,       (* lNetworkEvents read last, NULL when none is pending      *)
  (* ForwardContext *)
  message,      (* _message, or NULL                                        *)
  phase,        (* _state                                                   *)
  block,        (* the block being sent: 1 the length, 1 + i fragment i     *)
  sent,         (* position of _buffer in the frame                         *)
  size,         (* _size: bytes of the block left to send                   *)
  (* queue *)
  pushed,       (* messages pushed                                          *)
  popped,       (* messages popped                                          *)
  stopSignal    (* the stop signal of the queue                             *)

context == <<message, phase, block, sent, size>>
queue == <<pushed, popped, stopSignal>>
vars == <<state, events, context, socket, queue>>

RunOK ==
  /\ state \in {"Connecting", "Connected", "Disconnected", "WaitingMessage",
                "Sending", "Stopping", "Stopped", "Terminated"}
  /\ events \in {NULL} \union SUBSET (FD_WRITE \union FD_CLOSE)

ContextOK ==
  /\ message \in Messages \union {NULL}
  /\ phase \in {"sending_length", "sending_fragment", "completed"}
  /\ block \in 1 .. Len(FrameEnds)
  /\ sent \in 0 .. FrameSize
  /\ size \in 0 .. FrameSize /\ sent + size = FrameEnds[block]

QueueOK ==
  /\ pushed \in 0 .. MaxMessages /\ popped \in 0 .. pushed
  /\ stopSignal \in BOOLEAN

TypeOK == RunOK /\ ContextOK /\ SocketTypeOK(Byte) /\ QueueOK

Init ==
  /\ state = "Connecting" /\ events = NULL
  /\ message = NULL /\ phase = "sending_length" /\ block = 1 /\ sent = FrameEnds[1] /\ size = 0
  /\ SocketInit
  /\ pushed = 0 /\ popped = 0 /\ stopSignal = FALSE

-----------------------------------------------------------------------------
(* ForwardContext                                                          *)

(* The context points at the first byte of block b. *)
EnterBlock(b) ==
  /\ block' = b
  /\ sent' = (IF b = 1 THEN 0 ELSE FrameEnds[b - 1])
  /\ size' = (IF b = 1 THEN FrameEnds[1] ELSE FrameEnds[b] - FrameEnds[b - 1])

(* restart(): the frame is sent again from its length on. *)
Restart == phase' = "sending_length" /\ EnterBlock(1)

(* Mutants: a new connection goes on where the last one ended; the buffer  *)
(* is rewound and the number of bytes left is not.                         *)
ResumeInstead == UNCHANGED <<phase, block, sent, size>>
KeepSize == phase' = "sending_length" /\ block' = 1 /\ sent' = 0 /\ UNCHANGED size

(* What happens to a context that holds a message on a new connection. *)
OnReconnect == Restart

(* What send() does when the current block has been sent: the length is    *)
(* followed by the first fragment, a fragment by the next one, and a       *)
(* completed message is released by a call of its own.                     *)
Advance ==
  \/ /\ phase = "sending_length"
     /\ phase' = "sending_fragment" /\ EnterBlock(2)
     /\ UNCHANGED message
  \/ /\ phase = "sending_fragment" /\ block < Len(FrameEnds)
     /\ EnterBlock(block + 1)
     /\ UNCHANGED <<message, phase>>
  \/ /\ phase = "sending_fragment" /\ block = Len(FrameEnds)
     /\ phase' = "completed"
     /\ sent' = FrameEnds[block] /\ size' = 0
     /\ UNCHANGED <<message, block>>
  \/ /\ phase = "completed"
     /\ message' = NULL
     /\ sent' = FrameEnds[block] /\ size' = 0
     /\ UNCHANGED <<phase, block>>

(* The bytes of the frame from position i to j. *)
Bytes(i, j) == [k \in 1 .. (j - i + 1) |-> <<message, i + k - 1>>]

(* What is offered to the socket: the rest of the block. *)
Buffer == Bytes(sent + 1, sent + size)

(* Mutants. *)
AdvanceAfterAny(n) == TRUE
KeepPosition(n) == sent

(* send() goes on to the next block only when this one has been sent.      *)
BlockDone(n) == n = size

(* Position after n bytes of the block were taken. *)
Progress(n) == sent + n

(* NETCTX_SND_OK: some of the block was taken. *)
SendOk ==
  /\ size > 0
  /\ WriteOk(Buffer)
  /\ LET n == RecordSize(size) IN
       \/ BlockDone(n) /\ Advance
       \/ /\ ~BlockDone(n)
          /\ sent' = Progress(n) /\ size' = FrameEnds[block] - Progress(n)
          /\ UNCHANGED <<message, phase, block>>
  /\ UNCHANGED state

(* Nothing left of the block: no network call is made. *)
SendNothing ==
  /\ size = 0
  /\ Advance
  /\ UNCHANGED <<state, socket>>

(* NETCTX_SND_RETRY: the same bytes are offered again later. *)
SendRetry ==
  /\ size > 0
  /\ WriteRetry(Buffer)
  /\ UNCHANGED <<state, context>>

(* NETCTX_SND_ERROR. *)
SendError ==
  /\ size > 0
  /\ WriteError
  /\ state' = "Disconnected"
  /\ UNCHANGED context

Send == SendOk \/ SendNothing \/ SendRetry \/ SendError

-----------------------------------------------------------------------------
(* EventForwarder::run                                                     *)

(* connect(): the connection, its TLS session and the handshake. *)
Connecting ==
  /\ state = "Connecting"
  /\ ConnectGoesOn
  /\ UNCHANGED <<state, events, context, queue>>

ConnectOk ==
  /\ state = "Connecting"
  /\ HandshakeSucceeds
  /\ state' = "Connected"
  /\ UNCHANGED <<events, context, queue>>

ConnectFail ==
  /\ state = "Connecting"
  /\ ConnectReturnsFalse
  /\ state' = "Disconnected"
  /\ UNCHANGED <<events, context, queue>>

(* std::bad_alloc leaves run and the thread: the program is terminated.    *)
ConnectThrows ==
  /\ state = "Connecting"
  /\ AllocFails
  /\ state' = "Terminated"
  /\ UNCHANGED <<events, context, queue>>

Connected ==
  /\ state = "Connected"
  /\ \/ /\ message # NULL
        /\ state' = "Sending"
        /\ OnReconnect
        /\ UNCHANGED message
     \/ /\ message = NULL
        /\ state' = "WaitingMessage"
        /\ UNCHANGED context
  /\ UNCHANGED <<events, socket, queue>>

(* The socket is closed, then the thread sleeps for 10 s unless stopped.   *)
Disconnected ==
  /\ state = "Disconnected"
  /\ Close
  /\ state' = IF stopSignal THEN "Stopping" ELSE "Connecting"
  /\ UNCHANGED <<events, context, queue>>

(* pop_message() returns a message and the context starts with it...       *)
PopMessage ==
  /\ state = "WaitingMessage"
  /\ ~stopSignal /\ popped < pushed
  /\ popped' = popped + 1
  /\ message' = popped + 1
  /\ Restart
  /\ state' = "Sending"
  /\ UNCHANGED <<events, socket, pushed, stopSignal>>

(* Mutant: a null message is taken for a spurious wakeup. *)
WaitAgain == "WaitingMessage"

(* ... or null, once the queue is stopped.                                 *)
AfterNull == "Stopping"
PopNull ==
  /\ state = "WaitingMessage"
  /\ stopSignal
  /\ state' = AfterNull
  /\ UNCHANGED <<events, context, socket, queue>>

(* What Winsock has recorded for the socket; WSAEventSelect, called anew   *)
(* before each wait, records FD_WRITE again if the socket is writable.     *)
Recorded ==
  IF peerClosed THEN FD_CLOSE ELSE IF writable THEN FD_WRITE ELSE {}

(* The wait ends on the stop signal or on a network event; its result is   *)
(* not looked at, the recorded events are.                                 *)
WaitNetwork ==
  /\ state = "Sending" /\ message # NULL /\ events = NULL
  /\ stopSignal \/ Recorded # {}
  /\ events' = Recorded
  /\ UNCHANGED <<state, context, socket, queue>>

(* lNetworkEvents & mask *)
Tests(mask) == events \intersect mask # {}

HandleEvents ==
  /\ state = "Sending" /\ message # NULL /\ events # NULL
  /\ \/ /\ Tests(CloseMask)
        /\ state' = "Disconnected"
        /\ UNCHANGED <<context, socket>>
     \/ /\ ~Tests(CloseMask) /\ Tests(WriteMask)
        /\ Send
     \/ /\ ~Tests(CloseMask) /\ ~Tests(WriteMask)
        /\ UNCHANGED <<state, context, socket>>
  /\ events' = NULL
  /\ UNCHANGED queue

SendingDone ==
  /\ state = "Sending" /\ message = NULL
  /\ state' = "WaitingMessage"
  /\ UNCHANGED <<events, context, socket, queue>>

(* The connection is shut down if there is one. *)
Stopping ==
  /\ state = "Stopping"
  /\ \/ ShutdownGoesOn /\ UNCHANGED state
     \/ ShutdownReturns /\ state' = "Stopped"
  /\ UNCHANGED <<events, context, queue>>

Run ==
  \/ Connecting \/ ConnectOk \/ ConnectFail \/ ConnectThrows
  \/ Connected \/ Disconnected
  \/ PopMessage \/ PopNull
  \/ WaitNetwork \/ HandleEvents \/ SendingDone
  \/ Stopping

-----------------------------------------------------------------------------
(* Environment                                                             *)

Push ==
  /\ ~stopSignal /\ pushed < MaxMessages
  /\ pushed' = pushed + 1
  /\ UNCHANGED <<state, events, context, socket, popped, stopSignal>>

Stop ==
  /\ ~stopSignal
  /\ stopSignal' = TRUE
  /\ UNCHANGED <<state, events, context, socket, pushed, popped>>

NetworkActs ==
  /\ Network
  /\ UNCHANGED <<state, events, context, queue>>

Next == Run \/ Push \/ Stop \/ NetworkActs

(* The thread runs and time passes.  The collector host is there: of       *)
(* infinitely many connections some are made, of infinitely many pieces of *)
(* a handshake that are awaited each is sent in some, some handshakes      *)
(* succeed, and not each of them is broken off.  Nothing is assumed of     *)
(* what it reads afterwards.                                               *)
Fairness ==
  /\ WF_vars(Run)
  /\ WF_vars(Elapse /\ UNCHANGED <<state, events, context, queue>>)
  /\ SF_vars(Connecting /\ TcpConnects)
  /\ SF_vars(Connecting /\ Configure)
  /\ \A k \in 0 .. (Flights - 1) :
       SF_vars(/\ call = "poll_handshake" /\ flights = k /\ PeerAnswers
               /\ UNCHANGED <<state, events, context, queue>>)
  /\ SF_vars(Connecting /\ HandshakeGoesOn)
  /\ SF_vars(ConnectOk)
  /\ <>[][state = "Connecting" => ~PeerCloses]_vars

Spec == Init /\ [][Next]_vars
FairSpec == Spec /\ Fairness

-----------------------------------------------------------------------------
(* The receiver                                                            *)

(* A frame ends with byte i of what a connection took. *)
Whole(w, i) ==
  /\ i >= FrameSize
  /\ \A p \in 1 .. FrameSize : w[i - FrameSize + p] = <<w[i][1], p>>

(* A message that is whole is read, and disregarded if it was before. *)
ReadByte(ms, w, i) ==
  IF Whole(w, i) /\ ~Contains(ms, w[i][1]) THEN Append(ms, w[i][1]) ELSE ms

(* What is read after the messages ms of a connection that took w. *)
ReadFrom(ms, w) ==
  LET read[i \in 0 .. Len(w)] == IF i = 0 THEN ms ELSE ReadByte(read[i - 1], w, i)
  IN  read[Len(w)]

(* What is read of one connection after the other. *)
Received ==
  LET read[c \in 0 .. MaxConnections] ==
        IF c = 0 THEN <<>> ELSE ReadFrom(read[c - 1], stream[c])
  IN  read[MaxConnections]

-----------------------------------------------------------------------------
(* Safety                                                                  *)

(* What a connection carries is a sequence of whole frames, the last one   *)
(* perhaps cut short by the end of the connection; in the order of the     *)
(* queue, no message twice.                                                *)
StreamIsFrames ==
  \A c \in Connections : \A i \in 1 .. Len(stream[c]) :
    LET m == stream[c][i][1]
        p == stream[c][i][2]
    IN  \/ p = 1 /\ i = 1
        \/ p = 1 /\ i > 1 /\ stream[c][i - 1] = <<m - 1, FrameSize>>
        \/ p > 1 /\ i > 1 /\ stream[c][i - 1] = <<m, p - 1>>

WholeOn(m, c) == \E i \in 1 .. Len(stream[c]) : stream[c][i] = <<m, FrameSize>>
SentWhole(m) == \E c \in Connections : WholeOn(m, c)

(* A popped message is either still held by the context or was sent whole  *)
(* on some connection: reconnecting loses nothing, and the context lets go *)
(* of a message only after its last byte was taken.                        *)
PoppedIsSentOrHeld ==
  \A m \in 1 .. popped : m = message \/ SentWhole(m)

(* At least once, and at most once per connection: a frame starts on a     *)
(* connection only if no earlier message is still to be sent.              *)
NothingOvertakes ==
  \A c \in Connections : \A i \in 1 .. Len(stream[c]) :
    \A m \in 1 .. (stream[c][i][1] - 1) : SentWhole(m)

(* "After calling this function, the context is ready for reconfiguration" *)
(* (net/tlscontext.h): between a handshake and the end of the connection   *)
(* the forwarder uses a session that was set up for this connection, and   *)
(* the session holds nothing of an earlier connection or message, however  *)
(* the earlier ones ended.                                                 *)
SessionIsOwn ==
  /\ state \in {"Connected", "WaitingMessage", "Sending"} =>
       connected /\ session = "own" /\ over
  /\ record # <<>> => \E i \in 0 .. size : record = SubSeq(Buffer, 1, i)
  /\ state \in {"Stopped", "Terminated"} => session # "stale"

(* "Closes gracefully the socket" (net/tlssocket.h): a thread that stops   *)
(* with a connection announces its end, unless the peer was first or its   *)
(* time limit passed without the peer taking anything.                     *)
EndIsAnnounced ==
  [][(state = "Stopping" /\ connected /\ state' = "Stopped") =>
       announced' \/ peerClosed \/ (elapsed /\ ~writable)]_vars

-----------------------------------------------------------------------------
(* Liveness                                                                *)

(* What sending needs of the collector host: it reads while it is sent to. *)
PeerReads ==
  WF_vars(state = "Sending" /\ Drain /\ UNCHANGED <<state, events, context, queue>>)

(* "Windows Log Forwarder": a message pushed to the queue is sent to a     *)
(* host that reads, unless the service is stopped or memory is exhausted.  *)
MessagesAreSent ==
  PeerReads =>
    \A m \in Messages :
      (pushed >= m) ~> (SentWhole(m) \/ stopSignal \/ state = "Terminated")

(* "Press Ctrl+C to exit...": the stop signal ends the thread, even in a   *)
(* handshake with a silent peer or while a peer that does not read is told *)
(* that the connection ends.  The exception is the state Sending, which    *)
(* looks at the socket only: a thread that stays in it, because the host   *)
(* reads no more or because its events are not seen, is not ended.         *)
StopEndsForwarder ==
  stopSignal ~> (state \in {"Stopped", "Terminated"} \/ [](state = "Sending"))
=============================================================================
