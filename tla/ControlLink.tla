----------------------------- MODULE ControlLink ----------------------------
(***************************************************************************)
(* Fault commands on their way from the browsers to the simulator:         *)
(* TelemetryServer.#acceptClientMessage, SimulatorControlClient (pending   *)
(* map, reconnection, resending) and the simulator's ControlServer (one    *)
(* client at a time, fault flags, acknowledgements), joined by TCP.        *)
(*                                                                         *)
(* TCP keeps each direction of a connection in order.  When a connection   *)
(* breaks, a suffix of what was on the way in either direction is lost;    *)
(* what the simulator's kernel already holds is still read.  The kernel    *)
(* completes a connection before the simulator accepts it: it waits in the *)
(* backlog, and the relay's "connect" event may already fire.              *)
(*                                                                         *)
(* A command's id is its position among the accepted ones (the ids are     *)
(* UUIDs in the code), and a record on the wire is the id it carries.      *)
(***************************************************************************)
EXTENDS Integers, Sequences, FiniteSets, SequencesExt

CONSTANTS
  Faults,       \* fault names
  MaxCommands,  \* bound on the commands accepted
  MaxBreaks,    \* bound on broken connections and exits of either process
  MaxRefused    \* bound on the commands refused

ASSUME MaxCommandsAssumption == MaxCommands \in Nat

VARIABLES
  accepted,     \* every command handed to send(), by id
  refused,      \* commands answered with command_error
  pending,      \* #pending: ids not acknowledged, in insertion order
  connected,    \* #connected, and #socket is open
  toRelay,      \* ACK records on the relay's connection
  simulatorUp,  \* the simulator process listens
  flags,        \* fault_flags_: the faults that are on
  backlog,      \* connections of this process, the one being served first
  applied,      \* per command, how often handle_command applied it
  forgotten,    \* ids a restart of the streaming server dropped
  acknowledged, \* ids onAcknowledgement was called for
  flightAcks,   \* those among them this simulator process answered
  newestApplied,\* per fault, the newest command this process applied
  breaks        \* failures so far

relayVars == <<accepted, refused, pending, connected, forgotten>>
simulatorVars == <<simulatorUp, flags, applied, newestApplied>>
ackVars == <<acknowledged, flightAcks>>
vars == <<relayVars, toRelay, simulatorVars, backlog, ackVars, breaks>>

Ids == 1 .. MaxCommands
Commands == [fault : Faults, enabled : BOOLEAN]

(* The process that wrote an acknowledgement is known by whether it still  *)
(* runs: "live" until it exits.                                            *)
Acks == [id : Ids, live : BOOLEAN]
Connections == [toSimulator : Seq(Ids), open : BOOLEAN]

Init ==
  /\ accepted = <<>> /\ refused = 0
  /\ pending = <<>> /\ connected = FALSE /\ forgotten = {}
  /\ toRelay = <<>>
  /\ simulatorUp = FALSE /\ flags = {}
  /\ backlog = <<>>
  /\ applied = [id \in Ids |-> 0]
  /\ newestApplied = [f \in Faults |-> 0]
  /\ acknowledged = {} /\ flightAcks = {}
  /\ breaks = 0

(* The relay's connection is the newest, and the only one open.            *)
Attached == backlog # <<>> /\ Last(backlog).open

-----------------------------------------------------------------------------
(* #acceptClientMessage, a valid command, no link: command_error.          *)
CommandRefused ==
  /\ ~connected
  /\ refused < MaxRefused
  /\ refused' = refused + 1
  /\ UNCHANGED <<accepted, pending, connected, forgotten, toRelay, simulatorVars, backlog, ackVars, breaks>>

(* #control.send: retain, then write to the socket.  What is written after *)
(* the simulator ended its side goes nowhere.                              *)
write(ids) ==
  backlog' = IF Attached
             THEN [backlog EXCEPT ![Len(backlog)].toSimulator = @ \o ids]
             ELSE backlog

CommandAccepted_Prepends(command) ==
  /\ connected
  /\ Len(accepted) < MaxCommands
  /\ accepted' = Append(accepted, command)
  /\ pending' = <<Len(accepted) + 1>> \o pending
  /\ write(<<Len(accepted) + 1>>)
  /\ UNCHANGED <<refused, connected, forgotten, toRelay, simulatorVars, ackVars, breaks>>

CommandAccepted_NotRetained(command) ==
  /\ connected
  /\ Len(accepted) < MaxCommands
  /\ accepted' = Append(accepted, command)
  /\ write(<<Len(accepted) + 1>>)
  /\ UNCHANGED <<pending, refused, connected, forgotten, toRelay, simulatorVars, ackVars, breaks>>

CommandAccepted_Offline(command) ==
  /\ Len(accepted) < MaxCommands
  /\ accepted' = Append(accepted, command)
  /\ pending' = Append(pending, Len(accepted) + 1)
  /\ write(<<Len(accepted) + 1>>)
  /\ UNCHANGED <<refused, connected, forgotten, toRelay, simulatorVars, ackVars, breaks>>

CommandAccepted(command) ==
  /\ connected
  /\ Len(accepted) < MaxCommands
  /\ accepted' = Append(accepted, command)
  /\ pending' = Append(pending, Len(accepted) + 1)
  /\ write(<<Len(accepted) + 1>>)
  /\ UNCHANGED <<refused, connected, forgotten, toRelay, simulatorVars, ackVars, breaks>>

(* #connect by start() or by the timer, up to the "connect" event: every   *)
(* pending command is written again, in order.  An attempt that fails      *)
(* changes nothing and arms the timer again.                               *)
Connects_NoResend ==
  /\ ~connected /\ simulatorUp
  /\ connected' = TRUE
  /\ backlog' = Append(backlog, [toSimulator |-> <<>>, open |-> TRUE])
  /\ UNCHANGED <<accepted, refused, pending, forgotten, toRelay, simulatorVars, ackVars, breaks>>

Connects ==
  /\ ~connected /\ simulatorUp
  /\ connected' = TRUE
  /\ backlog' = Append(backlog, [toSimulator |-> pending, open |-> TRUE])
  /\ UNCHANGED <<accepted, refused, pending, forgotten, toRelay, simulatorVars, ackVars, breaks>>

(* #acceptData, an ACK record: pending.delete and onAcknowledgement.       *)
TakesAck ==
  /\ connected
  /\ toRelay # <<>>
  /\ toRelay' = Tail(toRelay)
  /\ pending' = RemoveFirst(pending, Head(toRelay).id)
  /\ acknowledged' = acknowledged \cup {Head(toRelay).id}
  /\ flightAcks' = IF Head(toRelay).live THEN flightAcks \cup {Head(toRelay).id}
                   ELSE flightAcks
  /\ UNCHANGED <<accepted, refused, connected, forgotten, simulatorVars, backlog, breaks>>

(* "close" after the simulator's side is gone: what was read is handled,   *)
(* the rest and the partial line in #buffer are dropped.                   *)
SeesClose ==
  /\ connected /\ ~Attached
  /\ connected' = FALSE
  /\ toRelay' = <<>>
  /\ UNCHANGED <<accepted, refused, pending, forgotten, simulatorVars, backlog, ackVars,
                 breaks>>

(* The relay's end of the connection closes; a prefix of what it wrote     *)
(* has arrived and the simulator still reads it.                           *)
CutOff(kept) ==
  /\ kept <= IF Attached THEN Len(Last(backlog).toSimulator) ELSE 0
  /\ backlog' = IF Attached
                THEN [backlog EXCEPT ![Len(backlog)] =
                        [toSimulator |-> SubSeq(@.toSimulator, 1, kept), open |-> FALSE]]
                ELSE backlog

(* The connection breaks under a running simulator: "close" at the relay.  *)
ConnectionBreaks(kept) ==
  /\ Attached /\ connected
  /\ breaks < MaxBreaks
  /\ breaks' = breaks + 1
  /\ CutOff(kept)
  /\ connected' = FALSE
  /\ toRelay' = <<>>
  /\ UNCHANGED <<accepted, refused, pending, forgotten, simulatorVars, ackVars>>

(* The streaming server ends, by stop() or by a crash, and is started      *)
(* again with an empty #pending.                                           *)
ServerRestarts(kept) ==
  /\ breaks < MaxBreaks
  /\ breaks' = breaks + 1
  /\ CutOff(kept)
  /\ connected' = FALSE
  /\ toRelay' = <<>>
  /\ pending' = <<>>
  /\ forgotten' = forgotten \cup Range(pending)
  /\ UNCHANGED <<accepted, refused, simulatorVars, ackVars>>

-----------------------------------------------------------------------------
(* handle_client and handle_command on the connection being served: one    *)
(* record sets or clears its flag and is answered, if the relay is still   *)
(* at the other end.                                                       *)
Flag(id) ==
  LET command == accepted[id]
  IN IF command.enabled THEN flags \cup {command.fault} ELSE flags \ {command.fault}

Serves(n) ==
  /\ n \in DOMAIN backlog
  /\ backlog[n].toSimulator # <<>>
  /\ LET id == Head(backlog[n].toSimulator)
     IN /\ flags' = Flag(id)
        /\ applied' = [applied EXCEPT ![id] = @ + 1]
        /\ newestApplied' = [newestApplied EXCEPT ![accepted[id].fault] =
                               IF id > @ THEN id ELSE @]
        /\ toRelay' = IF backlog[n].open
                      THEN Append(toRelay, [id |-> id, live |-> TRUE]) ELSE toRelay
  /\ backlog' = [backlog EXCEPT ![n].toSimulator = Tail(@)]
  /\ UNCHANGED <<relayVars, simulatorUp, ackVars, breaks>>

HandlesCommand_AnyConnection == \E n \in DOMAIN backlog : Serves(n)
HandlesCommand == Serves(1)

(* recv returned 0: close this connection, accept the next one.            *)
AcceptsNext ==
  /\ backlog # <<>>
  /\ ~backlog[1].open /\ backlog[1].toSimulator = <<>>
  /\ backlog' = Tail(backlog)
  /\ UNCHANGED <<relayVars, toRelay, simulatorVars, ackVars, breaks>>

(* The process ends: its flags and connections go with it; of its answers  *)
(* a prefix still reaches the relay.                                       *)
SimulatorExits(kept) ==
  /\ simulatorUp
  /\ breaks < MaxBreaks
  /\ breaks' = breaks + 1
  /\ simulatorUp' = FALSE
  /\ flags' = {}
  /\ newestApplied' = [f \in Faults |-> 0]
  /\ backlog' = <<>>
  /\ kept <= Len(toRelay)
  /\ toRelay' = [i \in 1 .. kept |-> [toRelay[i] EXCEPT !.live = FALSE]]
  /\ flightAcks' = {}
  /\ UNCHANGED <<relayVars, applied, acknowledged>>

SimulatorStarts ==
  /\ ~simulatorUp
  /\ simulatorUp' = TRUE
  /\ UNCHANGED <<relayVars, toRelay, flags, applied, newestApplied, backlog, ackVars, breaks>>

-----------------------------------------------------------------------------
RelaySteps == Connects \/ TakesAck \/ SeesClose
SimulatorSteps == HandlesCommand \/ AcceptsNext

Next ==
  \/ CommandRefused
  \/ \E command \in Commands : CommandAccepted(command)
  \/ RelaySteps \/ SimulatorSteps \/ SimulatorStarts
  \/ \E kept \in 0 .. MaxCommands :
       ConnectionBreaks(kept) \/ SimulatorExits(kept) \/ ServerRestarts(kept)

(***************************************************************************)
(* The relay's timers and callbacks run, the simulator's worker runs, and  *)
(* someone starts the simulator again after it ends.  Commands and         *)
(* failures just happen, the failures finitely often (MaxBreaks).          *)
(***************************************************************************)
Fairness ==
  /\ WF_vars(Connects) /\ WF_vars(TakesAck) /\ WF_vars(SeesClose)
  /\ WF_vars(HandlesCommand) /\ WF_vars(AcceptsNext)
  /\ WF_vars(SimulatorStarts)

SafetySpec == Init /\ [][Next]_vars
Spec == SafetySpec /\ Fairness

-----------------------------------------------------------------------------
Issued == 1 .. Len(accepted)

(* The types, and the order of the Map: commands are pending in the order  *)
(* in which they were accepted.                                            *)
TypeOK ==
  /\ accepted \in Seq(Commands) /\ Len(accepted) <= MaxCommands
  /\ pending \in Seq(Issued)
  /\ \A i, j \in 1 .. Len(pending) : i < j => pending[i] < pending[j]
  /\ connected \in BOOLEAN /\ simulatorUp \in BOOLEAN
  /\ toRelay \in Seq(Acks)
  /\ flags \subseteq Faults
  /\ backlog \in Seq(Connections)
  /\ applied \in [Ids -> Nat]
  /\ newestApplied \in [Faults -> 0 .. Len(accepted)]
  /\ acknowledged \subseteq Issued /\ flightAcks \subseteq acknowledged
  /\ forgotten \subseteq Issued

(***************************************************************************)
(* A command the relay took over is never lost while the relay runs: until *)
(* its acknowledgement came it is pending, and what was acknowledged the   *)
(* simulator had applied (protocol/control.md: "retains unacknowledged     *)
(* commands").  Only a restart of the relay forgets commands.              *)
(***************************************************************************)
RetainedUntilApplied ==
  /\ Issued = acknowledged \cup Range(pending) \cup forgotten
  /\ (acknowledged \cup forgotten) \cap Range(pending) = {}
  /\ \A id \in acknowledged : applied[id] > 0

(***************************************************************************)
(* Once nothing is pending, every fault the running simulator answered for *)
(* is as the newest of those commands asked, however often commands were   *)
(* resent, and whatever older connections still held.  A newer command the *)
(* relay forgot may have been applied without an answer.                   *)
(***************************************************************************)
SettledOnNewest ==
  (pending = <<>> /\ simulatorUp) =>
    \A id \in flightAcks :
      (\A later \in flightAcks \cup forgotten :
         accepted[later].fault = accepted[id].fault => later <= id)
        => (accepted[id].fault \in flags <=> accepted[id].enabled)

(***************************************************************************)
(* Every accepted command is acknowledged in the end, provided the         *)
(* failures end and the relay does not restart while it is pending.        *)
(***************************************************************************)
EventuallyAcknowledged ==
  \A id \in Ids : id \in Issued ~> id \in acknowledged \cup forgotten

(***************************************************************************)
(* The relay and the simulator together are the service the browsers see:  *)
(* a command leaves #pending only by an acknowledgement over a live link   *)
(* or by a restart, and nothing is acknowledged that was not kept.         *)
(***************************************************************************)
Service == INSTANCE CommandService WITH accepted <- Issued, pending <- Range(pending)
ImplementsService == Service!ServiceSpec

(***************************************************************************)
(* While one simulator process runs, a fault is as the newest command it   *)
(* has applied asked: an older command never undoes a newer one ("commands *)
(* must arrive reliably and in order", README).  Resending after a broken  *)
(* connection violates it for a while.                                     *)
(***************************************************************************)
FlagsFollowNewest ==
  \A f \in Faults : newestApplied[f] # 0 =>
    (f \in flags <=> accepted[newestApplied[f]].enabled)
=============================================================================
