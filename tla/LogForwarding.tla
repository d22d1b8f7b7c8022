---------------------------- MODULE LogForwarding -----------------------------
(***************************************************************************)
(* What the program is for (global.h: "Windows Log Forwarder"), seen from  *)
(* outside: the events of each log are dropped by the filter or formatter  *)
(* or else accepted, each once and in the order of the log, and those      *)
(* accepted are delivered to the syslog collector host in the order they   *)
(* were accepted.  A receiver that reads the messages it was sent whole,   *)
(* and disregards repetitions, sees the sequence delivered.                *)
(***************************************************************************)
EXTENDS Naturals, Sequences

CONSTANTS
  Logs,        (* subscriptions                                             *)
  MaxEvents    (* bound: MaxEvents[s] events are logged in s                *)

VARIABLES
  logged,      (* per log, events logged                                    *)
  taken,       (* per log, how many of them were dropped or accepted        *)
  accepted,    (* <<log, event>>, in the order they were accepted           *)
  delivered,   (* those the connections to the host took whole              *)
  stopped      (* the service was told to stop                              *)

vars == <<logged, taken, accepted, delivered, stopped>>

Init ==
  /\ logged = [s \in Logs |-> 0] /\ taken = [s \in Logs |-> 0]
  /\ accepted = <<>> /\ delivered = <<>>
  /\ stopped = FALSE

Log(s) ==
  /\ logged[s] < MaxEvents[s]
  /\ logged' = [logged EXCEPT ![s] = @ + 1]
  /\ UNCHANGED <<taken, accepted, delivered, stopped>>

(* The next event of the log is dropped... *)
Drop(s) ==
  /\ taken[s] < logged[s]
  /\ taken' = [taken EXCEPT ![s] = @ + 1]
  /\ UNCHANGED <<logged, accepted, delivered, stopped>>

(* ... or accepted, which ends with the service. *)
Accept(s) ==
  /\ ~stopped /\ taken[s] < logged[s]
  /\ taken' = [taken EXCEPT ![s] = @ + 1]
  /\ accepted' = Append(accepted, <<s, taken[s] + 1>>)
  /\ UNCHANGED <<logged, delivered, stopped>>

Deliver ==
  /\ Len(delivered) < Len(accepted)
  /\ delivered' = Append(delivered, accepted[Len(delivered) + 1])
  /\ UNCHANGED <<logged, taken, accepted, stopped>>

Stop ==
  /\ stopped' = TRUE
  /\ UNCHANGED <<logged, taken, accepted, delivered>>

Next ==
  \/ \E s \in Logs : Log(s) \/ Drop(s) \/ Accept(s)
  \/ Deliver
  \/ Stop

Spec == Init /\ [][Next]_vars

(* Event n of s, and all before it, are dropped or delivered. *)
Settled(s, n) ==
  /\ taken[s] >= n
  /\ \A i \in (Len(delivered) + 1) .. Len(accepted) :
       accepted[i][1] = s => accepted[i][2] > n

(* Every event is settled in the end, unless the service stops. *)
Progress ==
  \A s \in Logs : \A n \in 1 .. MaxEvents[s] :
    (logged[s] >= n) ~> (Settled(s, n) \/ stopped)
=============================================================================
