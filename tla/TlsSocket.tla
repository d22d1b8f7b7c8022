------------------------------ MODULE TlsSocket ------------------------------
(***************************************************************************)
(* The client socket of the forwarder: TlsSocket over TcpSocket, Socket    *)
(* and TlsContext (net/), with the Timer that bounds its loops.  A call    *)
(* that waits for the network (connect, handshake, shutdown) is a sequence *)
(* of steps, and the network acts between any two of them.                 *)
(*                                                                         *)
(* Abstractions.  Time is whether the time limit of the call in progress   *)
(* has passed.  A handshake is over when the peer sent Flights pieces of   *)
(* it, each of which makes the descriptor readable.  What a connection     *)
(* takes is a sequence of bytes, of any kind.                              *)
(* Mbed TLS is modelled by what the socket sees of it:                     *)
(*   - a session that was not freed stays what it was when ssl_setup is    *)
(*     called for another descriptor: its handshake is over at once;       *)
(*   - ssl_write makes a record of at most MaxRecord bytes, and a record   *)
(*     that the connection did not take whole is kept and goes first when  *)
(*     ssl_write is called again.                                          *)
(***************************************************************************)
EXTENDS Naturals, Sequences

CONSTANTS
  MaxConnections,  (* bound: connections with a finished handshake          *)
  MaxCongestions,  (* bound: times the send buffer fills up                 *)
  Flights,         (* pieces in which the peer's part of a handshake comes  *)
  MaxRecord,       (* bytes of a TLS record                                 *)
  CaInstalled,     (* set_ca_crt was called: a peer can be verified         *)
  OutOfMemory      (* whether allocations of a session may fail             *)

ASSUME SocketAssumption ==
  /\ MaxConnections \in Nat /\ MaxCongestions \in Nat
  /\ Flights \in Nat \ {0} /\ MaxRecord \in Nat \ {0}
  /\ CaInstalled \in BOOLEAN /\ OutOfMemory \in BOOLEAN

VARIABLES
  (* the call in progress *)
  call,         (* the step it is at, "idle" if there is none               *)
  want,         (* what it polls for                                        *)
  elapsed,      (* its time limit has passed                                *)
  (* the socket *)
  connected,    (* is_connected(): there is a descriptor                    *)
  session,      (* the TLS session: none, this descriptor's, an earlier one's *)
  over,         (* its handshake is over                                    *)
  record,       (* bytes it holds of a record that was not taken whole      *)
  (* the network *)
  flights,      (* pieces of the handshake that were read                   *)
  arrived,      (* the next one can be read                                 *)
  opened,       (* connections with a finished handshake so far             *)
  peerClosed,   (* the peer closed the connection, or it broke              *)
  writable,     (* the connection takes bytes                               *)
  congestions,  (* times it stopped taking them                             *)
  stream,       (* per connection, the bytes it took                        *)
  announced     (* the peer was told that the connection ends               *)

calling == <<call, want, elapsed>>
tls == <<session, over, record>>
handshaking == <<flights, arrived>>
network == <<peerClosed, writable, congestions>>
sentData == <<opened, stream, announced>>
socket == <<calling, connected, tls, handshaking, network, sentData>>

Connections == 1 .. MaxConnections

CallOK ==
  /\ call \in {"idle", "configure", "handshake", "poll_handshake", "close_notify", "poll_close"}
  /\ want \in {"read", "write"} /\ elapsed \in BOOLEAN

TlsOK(Byte) ==
  /\ session \in {"none", "own", "stale"} /\ over \in BOOLEAN
  /\ record \in Seq(Byte) /\ Len(record) <= MaxRecord

NetworkOK ==
  /\ connected \in BOOLEAN
  /\ flights \in 0 .. Flights /\ arrived \in BOOLEAN
  /\ peerClosed \in BOOLEAN /\ writable \in BOOLEAN
  /\ congestions \in 0 .. MaxCongestions

SentDataOK(Byte) ==
  /\ opened \in 0 .. MaxConnections
  /\ stream \in [Connections -> Seq(Byte)]
  /\ announced \in BOOLEAN

SocketTypeOK(Byte) == CallOK /\ TlsOK(Byte) /\ NetworkOK /\ SentDataOK(Byte)

SocketInit ==
  /\ call = "idle" /\ want = "read" /\ elapsed = FALSE
  /\ connected = FALSE /\ session = "none" /\ over = FALSE /\ record = <<>>
  /\ flights = 0 /\ arrived = FALSE
  /\ opened = 0 /\ peerClosed = FALSE /\ writable = FALSE /\ congestions = 0
  /\ stream = [c \in Connections |-> <<>>] /\ announced = FALSE

(* The call in progress ends: its timer and its mask are gone. *)
Return == call' = "idle" /\ want' = "read" /\ elapsed' = FALSE

-----------------------------------------------------------------------------
(* TlsContext                                                              *)

(* mbedtls_ssl_free *)
Clear == session' = "none" /\ over' = FALSE /\ record' = <<>>

(* Mutant: the session outlives its connection. *)
KeepSession == UNCHANGED tls

(* What close and shutdown do to the session. *)
ClearContext == Clear

(* The descriptor is closed: what arrived for it is gone. *)
CloseDescriptor == connected' = FALSE /\ flights' = 0 /\ arrived' = FALSE

-----------------------------------------------------------------------------
(* connect and handshake.  The actions are named for their results: a call *)
(* that goes on, that returns true or false, or that throws.               *)

(* Socket::connect refuses a socket that is connected; a connection is     *)
(* refused, or not answered until the system gives up (the timer that is   *)
(* passed is not looked at).                                               *)
TcpConnectFails ==
  /\ call = "idle"
  /\ UNCHANGED socket

NewDescriptor ==
  /\ call = "idle" /\ ~connected
  /\ connected' = TRUE /\ peerClosed' = FALSE /\ writable' = TRUE /\ announced' = FALSE
  /\ session' = IF session = "none" THEN "none" ELSE "stale"
  /\ UNCHANGED <<elapsed, want, over, record, handshaking, congestions, opened, stream>>

(* The connection exists and cannot be made non-blocking: it stays open.   *)
SetBlockingModeFails == NewDescriptor /\ UNCHANGED call

TcpConnects == NewDescriptor /\ call' = "configure"

(* ssl_setup and set_hostname; then the forwarder starts the timer anew    *)
(* and calls handshake.                                                    *)
Configure ==
  /\ call = "configure"
  /\ session' = IF session = "none" THEN "own" ELSE session
  /\ call' = "handshake" /\ elapsed' = FALSE
  /\ UNCHANGED <<want, connected, over, record, handshaking, network, sentData>>

(* MBEDTLS_ERR_SSL_ALLOC_FAILED, which EventForwarder::connect throws. *)
AllocFails ==
  /\ OutOfMemory /\ call = "configure"
  /\ Return
  /\ UNCHANGED <<connected, tls, handshaking, network, sentData>>

(* Another error of ssl_setup or, once there is a session, of set_hostname *)
(* (a name that is too long): the connection stays open.                   *)
ConfigureFails ==
  /\ call = "configure"
  /\ session' \in {session, IF session = "none" THEN "own" ELSE session}
  /\ Return
  /\ UNCHANGED <<connected, over, record, handshaking, network, sentData>>

(* The last piece of the handshake is read, or none is missing.  (Bound:   *)
(* the last connection is not one that is broken already.)                 *)
HandshakeEnds ==
  /\ call = "handshake"
  /\ over \/ (arrived /\ flights + 1 = Flights)
  /\ IF peerClosed THEN opened + 1 < MaxConnections ELSE opened < MaxConnections

(* 0: the peer showed a certificate that could be verified. *)
HandshakeSucceeds ==
  /\ HandshakeEnds
  /\ over \/ CaInstalled
  /\ Return /\ over' = TRUE
  /\ arrived' = FALSE /\ flights' = Flights
  /\ opened' = opened + 1
  /\ UNCHANGED <<connected, session, record, network, stream, announced>>

(* An answer or a certificate that is not accepted, or a broken connection. *)
HandshakeError ==
  /\ call = "handshake" /\ ~over
  /\ arrived \/ peerClosed
  /\ Return /\ arrived' = FALSE
  /\ UNCHANGED <<connected, tls, flights, network, sentData>>

(* The piece that was read is not the last: the library wants to read on.  *)
HandshakeGoesOn ==
  /\ call = "handshake" /\ ~over /\ arrived /\ flights + 1 < Flights
  /\ flights' = flights + 1 /\ arrived' = FALSE
  /\ call' = "poll_handshake" /\ want' = "read"
  /\ UNCHANGED <<elapsed, connected, tls, network, sentData>>

(* WANT_READ without anything to read, WANT_WRITE without room. *)
HandshakeWaits ==
  /\ call = "handshake" /\ ~over
  /\ \/ ~arrived /\ ~peerClosed /\ want' = "read"
     \/ ~writable /\ ~peerClosed /\ want' = "write"
  /\ call' = "poll_handshake"
  /\ UNCHANGED <<elapsed, connected, tls, handshaking, network, sentData>>

(* Socket::poll: select on the descriptor, for the time that remains.      *)
Ready == peerClosed \/ (IF want = "read" THEN arrived ELSE writable)

(* The loop calls the library again; the time is not looked at. *)
PollReady(from, to) ==
  /\ call = from /\ Ready
  /\ call' = to
  /\ UNCHANGED <<want, elapsed, connected, tls, handshaking, network, sentData>>

(* Mutant: a poll without a time limit. *)
NeverTimesOut == FALSE

(* Whether a poll that finds nothing ready ends. *)
PollTimesOut == elapsed

(* NETCTX_POLL_ERROR with MBEDTLS_ERR_SSL_TIMEOUT. *)
HandshakeTimeout ==
  /\ call = "poll_handshake" /\ ~Ready /\ PollTimesOut
  /\ Return
  /\ UNCHANGED <<connected, tls, handshaking, network, sentData>>

ConnectGoesOn ==
  \/ TcpConnects \/ Configure
  \/ HandshakeGoesOn \/ HandshakeWaits
  \/ PollReady("poll_handshake", "handshake")

ConnectReturnsFalse ==
  \/ TcpConnectFails \/ SetBlockingModeFails \/ ConfigureFails
  \/ HandshakeError \/ HandshakeTimeout

-----------------------------------------------------------------------------
(* send_data                                                               *)

(* Bytes of a call of ssl_write with n bytes that make its record. *)
RecordSize(n) == IF n <= MaxRecord THEN n ELSE MaxRecord

(* NETCTX_SND_OK with RecordSize(Len(buf)) bytes: the connection takes the *)
(* record that was kept, or else a new one.                                *)
WriteOk(buf) ==
  /\ writable
  /\ stream' = [stream EXCEPT ![opened] =
                  @ \o (IF record # <<>> THEN record ELSE SubSeq(buf, 1, RecordSize(Len(buf))))]
  /\ record' = <<>>
  /\ UNCHANGED <<calling, connected, session, over, handshaking, network, opened, announced>>

(* NETCTX_SND_RETRY *)
WriteRetry(buf) ==
  /\ ~writable /\ ~peerClosed
  /\ record' = IF record # <<>> THEN record ELSE SubSeq(buf, 1, RecordSize(Len(buf)))
  /\ UNCHANGED <<calling, connected, session, over, handshaking, network, sentData>>

(* NETCTX_SND_ERROR *)
WriteError ==
  /\ peerClosed
  /\ UNCHANGED socket

-----------------------------------------------------------------------------
(* close and shutdown                                                      *)

(* Mutant: only the session is closed. *)
KeepDescriptor == UNCHANGED <<connected, handshaking>>

(* What close does to the descriptor. *)
CloseSocket == CloseDescriptor

Close ==
  /\ ClearContext /\ CloseSocket
  /\ UNCHANGED <<calling, network, sentData>>

(* shutdown() of a socket that is not connected. *)
ShutdownClosed ==
  /\ call = "idle" /\ ~connected
  /\ UNCHANGED socket

(* The timer of 5 s starts, and the peer is to be told. *)
ShutdownBegins ==
  /\ call = "idle" /\ connected
  /\ call' = "close_notify" /\ elapsed' = FALSE
  /\ UNCHANGED <<want, connected, tls, handshaking, network, sentData>>

(* The connection takes the alert. *)
Notified ==
  /\ call = "close_notify" /\ writable /\ ~peerClosed
  /\ Return /\ announced' = TRUE
  /\ ClearContext /\ CloseDescriptor
  /\ UNCHANGED <<network, opened, stream>>

(* WANT_WRITE: SSLCTX_CLOSE_RETRY. *)
NotifyWaits ==
  /\ call = "close_notify" /\ ~writable /\ ~peerClosed
  /\ call' = "poll_close" /\ want' = "write"
  /\ UNCHANGED <<elapsed, connected, tls, handshaking, network, sentData>>

(* Mutant: one attempt only. *)
NoRetry == call = "poll_close" \/ (call = "close_notify" /\ peerClosed)

(* When shutdown gives up to tell the peer. *)
GivesUp ==
  \/ call = "close_notify" /\ peerClosed
  \/ call = "poll_close" /\ ~Ready /\ PollTimesOut

(* The connection is closed even if the peer could not be told. *)
ShutdownUnnoticed ==
  /\ GivesUp
  /\ Return
  /\ ClearContext /\ CloseDescriptor
  /\ UNCHANGED <<network, sentData>>

ShutdownGoesOn ==
  \/ ShutdownBegins \/ NotifyWaits
  \/ PollReady("poll_close", "close_notify")

ShutdownReturns == ShutdownClosed \/ Notified \/ ShutdownUnnoticed

-----------------------------------------------------------------------------
(* The network and the clock                                               *)

(* The peer's next piece of the handshake comes in. *)
PeerAnswers ==
  /\ connected /\ ~peerClosed /\ ~arrived /\ flights < Flights
  /\ call \in {"configure", "handshake", "poll_handshake"}
  /\ arrived' = TRUE
  /\ UNCHANGED <<calling, connected, tls, flights, network, sentData>>

(* The peer closes the connection, or it breaks; the last one is kept (bound). *)
PeerCloses ==
  /\ connected /\ ~peerClosed /\ opened < MaxConnections
  /\ peerClosed' = TRUE
  /\ UNCHANGED <<calling, connected, tls, handshaking, writable, congestions, sentData>>

(* The send buffer fills up (bounded), or the peer reads on. *)
Congest ==
  /\ connected /\ writable /\ congestions < MaxCongestions
  /\ writable' = FALSE /\ congestions' = congestions + 1
  /\ UNCHANGED <<calling, connected, tls, handshaking, peerClosed, sentData>>

Drain ==
  /\ connected /\ ~writable
  /\ writable' = TRUE
  /\ UNCHANGED <<calling, connected, tls, handshaking, peerClosed, congestions, sentData>>

(* The time limit of the call passes. *)
Elapse ==
  /\ call \in {"handshake", "poll_handshake", "close_notify", "poll_close"} /\ ~elapsed
  /\ elapsed' = TRUE
  /\ UNCHANGED <<call, want, connected, tls, handshaking, network, sentData>>

Network == PeerAnswers \/ PeerCloses \/ Congest \/ Drain \/ Elapse
=============================================================================
