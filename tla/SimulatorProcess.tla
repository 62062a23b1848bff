-------------------------- MODULE SimulatorProcess --------------------------
(***************************************************************************)
(* The simulator as a process: main() with its two starts, the 100 Hz loop *)
(* and the stops, against the worker thread of ControlServer, whose stop() *)
(* closes and clears the socket the worker may be about to use.            *)
(*                                                                         *)
(* UdpTransmitter has its own module; here it starts or not, takes packets *)
(* and stops (UdpTransmitter!StopEventuallyReturns).  The flight ends      *)
(* after at most MaxSteps steps (FlightPhases).  One client connects.      *)
(***************************************************************************)
EXTENDS Integers, Sequences

CONSTANTS
  Faults,       \* the bits of fault_flags_
  kThrusterLoss, kPacketLoss,
  DropEvery,    \* with packet loss every DropEvery-th packet is dropped: 10
  MaxSteps,     \* bound on the length of a flight
  MaxCommands   \* bound on the commands of the client

ASSUME FaultsAssumption == {kThrusterLoss, kPacketLoss} \subseteq Faults
ASSUME DropEveryAssumption == DropEvery \in Nat \ {0}

VARIABLES
  mainPc,       \* where main is; "none" before the process, "ended" after it
  landed,       \* simulation.state().phase is LANDED
  step_count,
  snapshot,     \* the local fault_flags of a step, {} outside one
  telemetry,    \* the last step: what its dynamics and its packet used
  running_,     \* of ControlServer
  socket_fd_,   \* "open", "closed" (the number of a closed socket) or "-1"
  fault_flags_,
  workerPc,     \* where the worker of ControlServer is
  client,       \* "none", "waiting" in the backlog, "left" there, "open" or "gone"
  inbox,        \* commands sent and not yet read
  commands      \* number of commands sent

mainVars == <<mainPc, landed, step_count, snapshot, telemetry>>
clientVars == <<client, inbox, commands>>
serverVars == <<running_, socket_fd_, fault_flags_, workerPc>>
simulatorVars == <<mainVars, serverVars, clientVars>>

NoStep == [thruster_loss |-> FALSE, flags |-> {}, dropped |-> FALSE]

SimulatorInit ==
  /\ mainPc = "none" /\ landed = FALSE /\ step_count = 0
  /\ snapshot = {} /\ telemetry = NoStep
  /\ running_ = FALSE /\ socket_fd_ = "-1" /\ fault_flags_ = {} /\ workerPc = "none"
  /\ client = "none" /\ inbox = <<>> /\ commands = 0

SimulatorRuns == mainPc \notin {"none", "ended"}

(* The process ends, with its memory, its threads and its connection.      *)
ProcessEnds ==
  /\ mainPc' = "ended" /\ workerPc' = "none"
  /\ landed' = FALSE /\ snapshot' = {}
  /\ running_' = FALSE /\ socket_fd_' = "-1" /\ fault_flags_' = {}
  /\ client' = "gone" /\ inbox' = <<>>
  /\ UNCHANGED <<step_count, telemetry, commands>>

-----------------------------------------------------------------------------
(***************************************************************************)
(* The main thread.                                                        *)
(***************************************************************************)
SimulatorStarts ==
  /\ mainPc = "none"
  /\ mainPc' = "start_control"
  /\ UNCHANGED <<landed, step_count, snapshot, telemetry, serverVars, clientVars>>

ControlStarts ==
  /\ mainPc = "start_control"
  /\ mainPc' = "start_transmitter"
  /\ socket_fd_' = "open" /\ running_' = TRUE /\ workerPc' = "test"
  /\ UNCHANGED <<landed, step_count, snapshot, telemetry, fault_flags_, clientVars>>

(* socket, bind or listen fails: main returns 1.                           *)
ControlStartFails == mainPc = "start_control" /\ ProcessEnds

(* The second start.  If it fails main returns and the destructor of       *)
(* control_server calls stop().                                            *)
TransmitterStarts ==
  /\ mainPc = "start_transmitter"
  /\ mainPc' \in {"loop", "stop_control"}
  /\ UNCHANGED <<landed, step_count, snapshot, telemetry, serverVars, clientVars>>

Snapshot ==
  /\ mainPc = "loop" /\ ~landed
  /\ mainPc' = "step"
  /\ snapshot' = fault_flags_
  /\ UNCHANGED <<landed, step_count, telemetry, serverVars, clientVars>>

Step_DropReadsAgain ==
  LET intentional_drop == kPacketLoss \in fault_flags_ /\ (step_count + 1) % DropEvery = 0
  IN /\ mainPc = "step"
     /\ mainPc' = "loop"
     /\ step_count' = step_count + 1
     /\ landed' \in {TRUE} \cup {step_count' >= MaxSteps}
     /\ telemetry' = [thruster_loss |-> kThrusterLoss \in snapshot, flags |-> snapshot,
                      dropped |-> intentional_drop]
     /\ snapshot' = {}
     /\ UNCHANGED <<serverVars, clientVars>>
Step ==
  LET intentional_drop == kPacketLoss \in snapshot /\ (step_count + 1) % DropEvery = 0
  IN /\ mainPc = "step"
     /\ mainPc' = "loop"
     /\ step_count' = step_count + 1
     /\ landed' \in {TRUE} \cup {step_count' >= MaxSteps}
     /\ telemetry' = [thruster_loss |-> kThrusterLoss \in snapshot, flags |-> snapshot,
                      dropped |-> intentional_drop]
     /\ snapshot' = {}
     /\ UNCHANGED <<serverVars, clientVars>>

TransmitterStops ==
  /\ mainPc = "loop" /\ landed
  /\ mainPc' = "stop_control"
  /\ UNCHANGED <<landed, step_count, snapshot, telemetry, serverVars, clientVars>>

(* ControlServer::stop, store by store.                                    *)
StopBegins ==
  /\ mainPc = "stop_control"
  /\ mainPc' = "close"
  /\ running_' = FALSE
  /\ UNCHANGED <<landed, step_count, snapshot, telemetry, socket_fd_, fault_flags_, workerPc, clientVars>>

StopCloses ==
  /\ mainPc = "close"
  /\ mainPc' = "clear"
  /\ socket_fd_' = "closed"
  /\ UNCHANGED <<landed, step_count, snapshot, telemetry, running_, fault_flags_, workerPc, clientVars>>

StopClears ==
  /\ mainPc = "clear"
  /\ mainPc' = "join"
  /\ socket_fd_' = "-1"
  /\ UNCHANGED <<landed, step_count, snapshot, telemetry, running_, fault_flags_, workerPc, clientVars>>

(* The join returns, and so does main.                                     *)
StopJoins == mainPc = "join" /\ workerPc = "exited" /\ ProcessEnds

Main ==
  \/ ControlStarts \/ ControlStartFails \/ TransmitterStarts
  \/ Snapshot \/ Step \/ TransmitterStops
  \/ StopBegins \/ StopCloses \/ StopClears \/ StopJoins

(* Killed by a signal, in any thread at any point.                         *)
SimulatorKilled == SimulatorRuns /\ ProcessEnds

-----------------------------------------------------------------------------
(***************************************************************************)
(* The worker: run and handle_client.  socket_fd_ is a plain int: each use *)
(* reads it again, before or after stop() changed it.                      *)
(***************************************************************************)
WorkerGoes(pc) == workerPc' = pc /\ UNCHANGED <<mainVars, running_, socket_fd_>>

TestRunning ==
  /\ workerPc = "test"
  /\ WorkerGoes(IF running_ THEN "fd_set" ELSE "exited")
  /\ UNCHANGED <<fault_flags_, clientVars>>

FdSet ==
  /\ workerPc = "fd_set"
  /\ WorkerGoes("select")
  /\ UNCHANGED <<fault_flags_, clientVars>>

(* FD_SET(-1, ...) is undefined: it goes on with a stray bit, or a build   *)
(* that checks it aborts.                                                  *)
FdSetAborts ==
  /\ workerPc = "fd_set" /\ socket_fd_ = "-1"
  /\ SimulatorKilled

InBacklog == client \in {"waiting", "left"}

(* select() returns after 250 ms, with a connection, or because the socket *)
(* was shut down.                                                          *)
Selects ==
  /\ workerPc = "select"
  /\ \/ WorkerGoes("test")
     \/ (InBacklog \/ socket_fd_ # "open") /\ WorkerGoes("accept")
  /\ UNCHANGED <<fault_flags_, clientVars>>

(* A client that left the backlog is accepted all the same.                *)
Accepts ==
  /\ workerPc = "accept"
  /\ IF socket_fd_ = "open" /\ InBacklog
       THEN /\ client' = IF client = "left" THEN "gone" ELSE "open"
            /\ WorkerGoes("test_client")
       ELSE WorkerGoes("test") /\ UNCHANGED client
  /\ UNCHANGED <<fault_flags_, inbox, commands>>

TestClient ==
  /\ workerPc = "test_client"
  /\ IF running_ THEN WorkerGoes("recv") /\ UNCHANGED clientVars
     ELSE WorkerGoes("test") /\ client' = "gone" /\ UNCHANGED <<inbox, commands>>
  /\ UNCHANGED fault_flags_

Applied(command) ==
  IF command.enabled THEN fault_flags_ \cup {command.fault} ELSE fault_flags_ \ {command.fault}

(* One line of what recv() returned, answered at once.                     *)
Handles ==
  /\ workerPc = "recv" /\ inbox # <<>>
  /\ fault_flags_' = Applied(Head(inbox))
  /\ inbox' = Tail(inbox)
  /\ WorkerGoes("test_client")
  /\ UNCHANGED <<client, commands>>

(* recv() returns after 250 ms without data (SO_RCVTIMEO), or at the end   *)
(* of the stream.                                                          *)
ReceivesNothing_NoTimeout ==
  /\ workerPc = "recv" /\ inbox = <<>> /\ client = "gone"
  /\ WorkerGoes("test")
  /\ UNCHANGED <<fault_flags_, clientVars>>
ReceivesNothing ==
  /\ workerPc = "recv" /\ inbox = <<>>
  /\ WorkerGoes(IF client = "gone" THEN "test" ELSE "test_client")
  /\ UNCHANGED <<fault_flags_, clientVars>>

Worker ==
  \/ TestRunning \/ FdSet \/ Selects \/ Accepts
  \/ TestClient \/ Handles \/ ReceivesNothing

(* send() of the answer to a client that has gone raises SIGPIPE.          *)
AnswerKills ==
  /\ workerPc = "recv" /\ inbox # <<>> /\ client = "gone"
  /\ SimulatorKilled

-----------------------------------------------------------------------------
(***************************************************************************)
(* The client: the streaming server, or anything else on TCP port 5001.    *)
(***************************************************************************)
ClientConnects ==
  /\ socket_fd_ = "open" /\ SimulatorRuns /\ client = "none"
  /\ client' = "waiting"
  /\ UNCHANGED <<mainVars, serverVars, inbox, commands>>

ClientSends(fault, enabled) ==
  /\ client \in {"waiting", "open"} /\ SimulatorRuns /\ commands < MaxCommands
  /\ inbox' = Append(inbox, [fault |-> fault, enabled |-> enabled])
  /\ commands' = commands + 1
  /\ UNCHANGED <<mainVars, serverVars, client>>

ClientLeaves ==
  /\ client \in {"waiting", "open"}
  /\ client' = IF client = "waiting" THEN "left" ELSE "gone"
  /\ UNCHANGED <<mainVars, serverVars, inbox, commands>>

Client ==
  \/ ClientConnects \/ ClientLeaves
  \/ \E fault \in Faults, enabled \in BOOLEAN : ClientSends(fault, enabled)

SimulatorStep == Main \/ Worker \/ FdSetAborts \/ AnswerKills \/ Client

-----------------------------------------------------------------------------
(***************************************************************************)
(* Whatever the control thread does to the flags during a step, what the   *)
(* step flew with, what its packet says and whether it was dropped agree,  *)
(* so that a receiver can tell an intentional gap from the flags around it.*)
(***************************************************************************)
OneSnapshot ==
  /\ telemetry.thruster_loss <=> kThrusterLoss \in telemetry.flags
  /\ telemetry.dropped <=> kPacketLoss \in telemetry.flags /\ step_count % DropEvery = 0

(***************************************************************************)
(* Once the flight has ended or a start has failed the process ends, with  *)
(* a silent client connected, commands unread and the worker anywhere.     *)
(***************************************************************************)
SimulatorEnds == (mainPc = "stop_control") ~> (mainPc = "ended")
=============================================================================
