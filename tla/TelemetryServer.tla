--------------------------- MODULE TelemetryServer --------------------------
(***************************************************************************)
(* The telemetry half of TelemetryServer: packets arrive over UDP from a   *)
(* simulator that may be restarted, are validated, counted, kept in a      *)
(* bounded history and broadcast to the WebSocket clients; a client that   *)
(* connects is first sent the history.  Node runs each handler to its end, *)
(* so a handler is one step; messages to a client stay in order on their   *)
(* WebSocket.                                                              *)
(*                                                                         *)
(* A packet is its run of the simulator, its step in that run and whether  *)
(* it is intact.  Its sequence number is the step (runs are far shorter    *)
(* than the 2^32 steps of a wraparound, which SequenceTracker covers), and *)
(* its timestamp is the step too: the fixed-rate loop advances both        *)
(* together.  OneSecond is the number of steps in the 1 000 000            *)
(* microseconds acceptPacket tolerates.                                    *)
(***************************************************************************)
EXTENDS Integers, Sequences, FiniteSets, SequencesExt

CONSTANTS
  Clients,          \* WebSocket clients
  historyCapacity,  \* ServerOptions.historyCapacity
  OneSecond,        \* steps in the clock tolerance
  SeqModulus,       \* of the tracker
  undefined,
  Orderings,        \* what the UDP path may do, see `ordering'
  MaxDelay,         \* a packet arrives before MaxDelay more are sent, or never
  MaxRuns, MaxSteps, MaxInFlight, MaxUnread, MaxRejected  \* bounds

ASSUME OrderingsAssumption == Orderings \subseteq {"fifo", "behind_first", "any"}
ASSUME undefinedAssumption == undefined \notin Nat

(* CircularBuffer throws for any other capacity.                           *)
ASSUME historyCapacityAssumption == historyCapacity \in Nat \ {0}
ASSUME OneSecondAssumption == OneSecond \in Nat

(* A run is shorter than half a cycle of the sequence numbers.             *)
ASSUME RunsAssumption ==
  /\ MaxRuns \in Nat \ {0}
  /\ SeqModulus \in Nat /\ MaxSteps \in Nat /\ MaxSteps <= SeqModulus \div 2

Tracker == INSTANCE SequenceTracker WITH
  MaxOrdinal <- MaxSteps, MaxArrivals <- MaxSteps,
  tracker <- 0, oldest <- 0, newest <- 0, seen <- {}, arrivals <- 0

Runs == 1 .. MaxRuns
Steps == 0 .. MaxSteps - 1
Packets == [run : Runs, step : Steps, intact : BOOLEAN]

VARIABLES
  run,              \* the simulator's run
  step,             \* packets it attempted to send in this run
  ordering,         \* of the UDP path: "fifo"; "behind_first": anything but
                    \* overtaking or losing packet 0; or "any"
  network,          \* UDP packets in flight, in the order sent
  history,          \* #history, oldest first
  tracker,          \* #sequence
  latestTimestamp,  \* #latestTimestampUs
  metrics,          \* #metrics
  connected,        \* clients whose WebSocket is open
  inbox,            \* messages on the way to each client
  view              \* the samples and metrics each client holds after what it has read

simulatorVars == <<run, step, ordering>>
serverVars == <<history, tracker, latestTimestamp, metrics>>
clientVars == <<connected, inbox, view>>
vars == <<simulatorVars, network, serverVars, clientVars>>

History == INSTANCE RecentWindow WITH
  Samples <- Packets, capacity <- historyCapacity, window <- history

NoMetrics == [received |-> 0, valid |-> 0, rejected |-> 0, lost |-> 0, reordered |-> 0]

Init ==
  /\ run = 1 /\ step = 0
  /\ ordering \in Orderings
  /\ network = <<>>
  /\ history = <<>>
  /\ tracker = Tracker!FreshTracker
  /\ latestTimestamp = undefined
  /\ metrics = NoMetrics
  /\ connected = {}
  /\ inbox = [c \in Clients |-> <<>>]
  /\ view = [c \in Clients |-> [samples |-> <<>>, metrics |-> NoMetrics]]

-----------------------------------------------------------------------------
(***************************************************************************)
(* The simulator and the network, as the server sees them.                 *)
(***************************************************************************)
SimulatorSends ==
  /\ step < MaxSteps
  /\ Len(network) < MaxInFlight
  /\ network' = Append(network, [run |-> run, step |-> step, intact |-> TRUE])
  /\ step' = step + 1
  /\ UNCHANGED <<run, ordering, serverVars, clientVars>>

(* A new process starts again at step 0.  What the old one sent has        *)
(* arrived or is lost by then, unless the path keeps everything in order.  *)
SimulatorRestarts ==
  /\ run < MaxRuns
  /\ step > 0
  /\ ordering = "fifo" \/ network = <<>>
  /\ run' = run + 1
  /\ step' = 0
  /\ UNCHANGED <<ordering, network, serverVars, clientVars>>

WithoutNth(s, i) == [j \in 1 .. Len(s) - 1 |-> IF j < i THEN s[j] ELSE s[j + 1]]

MayVanish(packet) == packet.step > 0 \/ ordering = "any"

PacketLost(i) ==
  /\ MayVanish(network[i])
  /\ network' = WithoutNth(network, i)
  /\ UNCHANGED <<simulatorVars, serverVars, clientVars>>

PacketDamaged(i) ==
  /\ MayVanish(network[i])
  /\ metrics.rejected < MaxRejected
  /\ network[i].intact
  /\ network' = [network EXCEPT ![i].intact = FALSE]
  /\ UNCHANGED <<simulatorVars, serverVars, clientVars>>

Deliverable(i) ==
  \/ i = 1
  \/ ordering = "any"
  \/ ordering = "behind_first" /\ network[1].step > 0

InTime(packet) == packet.run = run => step - packet.step <= MaxDelay

-----------------------------------------------------------------------------
(***************************************************************************)
(* acceptPacket                                                            *)
(***************************************************************************)
Broadcast(messages) ==
  inbox' = [c \in Clients |-> IF c \in connected THEN inbox[c] \o messages ELSE inbox[c]]

RejectPacket(packet) ==
  /\ ~packet.intact
  /\ metrics' = [metrics EXCEPT !.received = @ + 1, !.rejected = @ + 1]
  /\ UNCHANGED <<history, tracker, latestTimestamp, clientVars>>

SequenceRestarted(packet) ==
  packet.step = 0 /\ tracker.latest # undefined /\ tracker.latest # 0

SimulationClockRestarted(packet) ==
  latestTimestamp # undefined /\ packet.step + OneSecond < latestTimestamp

Restarted_IgnoresSequence(packet) == SimulationClockRestarted(packet)
Restarted_NoTolerance(packet) ==
  SequenceRestarted(packet)
    \/ (latestTimestamp # undefined /\ packet.step < latestTimestamp)
Restarted(packet) == SequenceRestarted(packet) \/ SimulationClockRestarted(packet)

(* The fields after a valid packet, from what they are when it is counted. *)
Count_KeepsTracker(packet, kept, t, m) ==
  LET observed == Tracker!observe(tracker, packet.step)
  IN /\ tracker' = observed
     /\ metrics' = [m EXCEPT !.received = @ + 1, !.valid = @ + 1,
                             !.lost = observed.lost, !.reordered = observed.reordered]
     /\ history' = History!Pushed(kept, packet)
     /\ latestTimestamp' = packet.step
Count_Unbounded(packet, kept, t, m) ==
  LET observed == Tracker!observe(t, packet.step)
  IN /\ tracker' = observed
     /\ metrics' = [m EXCEPT !.received = @ + 1, !.valid = @ + 1,
                             !.lost = observed.lost, !.reordered = observed.reordered]
     /\ history' = Append(kept, packet)
     /\ latestTimestamp' = packet.step
Count_Prepends(packet, kept, t, m) ==
  LET observed == Tracker!observe(t, packet.step)
  IN /\ tracker' = observed
     /\ metrics' = [m EXCEPT !.received = @ + 1, !.valid = @ + 1,
                             !.lost = observed.lost, !.reordered = observed.reordered]
     /\ history' = Reverse(History!Pushed(Reverse(kept), packet))
     /\ latestTimestamp' = packet.step
Count(packet, kept, t, m) ==
  LET observed == Tracker!observe(t, packet.step)
  IN /\ tracker' = observed
     /\ metrics' = [m EXCEPT !.received = @ + 1, !.valid = @ + 1,
                             !.lost = observed.lost, !.reordered = observed.reordered]
     /\ history' = History!Pushed(kept, packet)
     /\ latestTimestamp' = packet.step

Sample(packet) == <<[type |-> "telemetry", sample |-> packet, metrics |-> metrics']>>
Reset == <<[type |-> "reset", metrics |-> NoMetrics]>>

AcceptInRun(packet) ==
  /\ packet.intact /\ ~Restarted(packet)
  /\ Count(packet, history, tracker, metrics)
  /\ Broadcast(Sample(packet))
  /\ UNCHANGED <<connected, view>>

AcceptNewRun_Silent(packet) ==
  /\ packet.intact /\ Restarted(packet)
  /\ Count(packet, <<>>, Tracker!FreshTracker, NoMetrics)
  /\ Broadcast(Sample(packet))
  /\ UNCHANGED <<connected, view>>

AcceptNewRun(packet) ==
  /\ packet.intact /\ Restarted(packet)
  /\ Count(packet, <<>>, Tracker!FreshTracker, NoMetrics)
  /\ Broadcast(Reset \o Sample(packet))
  /\ UNCHANGED <<connected, view>>

acceptPacket(i) ==
  /\ Deliverable(i) /\ InTime(network[i])
  /\ \A c \in connected : Len(inbox[c]) < MaxUnread
  /\ network' = WithoutNth(network, i)
  /\ RejectPacket(network[i]) \/ AcceptInRun(network[i]) \/ AcceptNewRun(network[i])
  /\ UNCHANGED simulatorVars

-----------------------------------------------------------------------------
(* The "connection" handler: the history goes out before anything else.    *)
ClientConnects(c) ==
  /\ c \notin connected
  /\ connected' = connected \cup {c}
  /\ inbox' = [inbox EXCEPT ![c] =
       <<[type |-> "history", samples |-> history, metrics |-> metrics]>>]
  /\ UNCHANGED <<simulatorVars, network, serverVars, view>>

(* The WebSocket closes and what was on the way is gone; the page keeps    *)
(* the samples it has.                                                     *)
ClientDisconnects(c) ==
  /\ c \in connected
  /\ connected' = connected \ {c}
  /\ inbox' = [inbox EXCEPT ![c] = <<>>]
  /\ UNCHANGED <<simulatorVars, network, serverVars, view>>

(* What a message does to what a client holds.                             *)
Apply(held, message) ==
  [samples |->
     CASE message.type = "history"   -> message.samples
       [] message.type = "reset"     -> <<>>
       [] message.type = "telemetry" -> History!Pushed(held.samples, message.sample),
   metrics |-> message.metrics]

ClientReads(c) ==
  /\ c \in connected
  /\ inbox[c] # <<>>
  /\ view' = [view EXCEPT ![c] = Apply(@, Head(inbox[c]))]
  /\ inbox' = [inbox EXCEPT ![c] = Tail(@)]
  /\ UNCHANGED <<simulatorVars, network, serverVars, connected>>

(* The server process ends and is started again.                           *)
ServerRestarts ==
  /\ history' = <<>>
  /\ tracker' = Tracker!FreshTracker
  /\ latestTimestamp' = undefined
  /\ metrics' = NoMetrics
  /\ connected' = {}
  /\ inbox' = [c \in Clients |-> <<>>]
  /\ UNCHANGED <<simulatorVars, network, view>>

Next ==
  \/ SimulatorSends \/ SimulatorRestarts
  \/ \E i \in 1 .. Len(network) : PacketLost(i) \/ PacketDamaged(i) \/ acceptPacket(i)
  \/ \E c \in Clients : ClientConnects(c) \/ ClientDisconnects(c) \/ ClientReads(c)
  \/ ServerRestarts

Spec == Init /\ [][Next]_vars

-----------------------------------------------------------------------------
TypeOK ==
  /\ run \in Runs /\ ordering \in Orderings /\ step \in 0 .. MaxSteps
  /\ network \in Seq(Packets)
  /\ history \in Seq(Packets) /\ Len(history) <= historyCapacity
  /\ tracker.latest \in Steps \cup {undefined}
  /\ latestTimestamp \in Steps \cup {undefined}
  /\ connected \subseteq Clients

(***************************************************************************)
(* The metrics account for every packet since the run began: each one is   *)
(* valid or rejected, and while the history still holds every valid one,   *)
(* the losses and the valid packets that were not late span exactly the    *)
(* sequence numbers from the first accepted to the latest.                 *)
(***************************************************************************)
MetricsAddUp ==
  /\ metrics.received = metrics.valid + metrics.rejected
  /\ Len(history) = IF metrics.valid < historyCapacity THEN metrics.valid
                    ELSE historyCapacity
  /\ (metrics.valid > 0 /\ Len(history) = metrics.valid) =>
       metrics.lost + metrics.valid - metrics.reordered
         = tracker.latest - history[1].step + 1

(***************************************************************************)
(* A new flight never shares the history with an earlier one, provided its *)
(* packet 0 arrives: either its sequence 0 or its clock starts the history *)
(* over.  The one exception is an earlier flight of which nothing but its  *)
(* own packet 0 arrived, since 0 after 0 is not taken for a restart.       *)
(***************************************************************************)
OneFlightInHistory ==
  \A i \in 1 .. Len(history) :
    history[i].run # Last(history).run => history[i].step = 0

(***************************************************************************)
(* Over a path that keeps order the history of a flight is in flight order *)
(* and holds no sample twice.                                              *)
(***************************************************************************)
HistoryInOrder ==
  ordering = "fifo" => \A i, j \in 1 .. Len(history) :
    i < j => \/ history[i].run < history[j].run
             \/ history[i].run = history[j].run /\ history[i].step < history[j].step

(***************************************************************************)
(* Whatever a client has read so far, the messages still on the way to it  *)
(* lead to exactly the server's history and its latest counts: no sample   *)
(* is missed or doubled between the backfill and the live stream, and none *)
(* of an old flight survives a reset.                                      *)
(***************************************************************************)
ClientsConverge ==
  \A c \in connected :
    LET held[n \in 0 .. Len(inbox[c])] ==
          IF n = 0 THEN view[c] ELSE Apply(held[n - 1], inbox[c][n])
        final == held[Len(inbox[c])]
    IN /\ final.samples = history
       /\ final.metrics.valid = metrics.valid
       /\ final.metrics.lost = metrics.lost
       /\ final.metrics.reordered = metrics.reordered

(***************************************************************************)
(* A valid packet of the current flight that is behind the latest one is   *)
(* counted as reordered and changes neither the losses nor the history     *)
(* already collected (protocol/telemetry.md, "classified as late or        *)
(* reordered").                                                            *)
(***************************************************************************)
LatePacket(packet) ==
  /\ packet.intact
  /\ history # <<>> /\ packet.run = Last(history).run
  /\ packet.step < tracker.latest

LateIsReordered ==
  [][\A i \in 1 .. Len(network) :
       acceptPacket(i) /\ LatePacket(network[i]) =>
         /\ metrics'.reordered = metrics.reordered + 1
         /\ metrics'.lost = metrics.lost
         /\ Len(history') >= Len(history)]_vars
=============================================================================
