------------------------ MODULE DemoSupervisorProofs ------------------------
(***************************************************************************)
(* Proofs about DemoSupervisor with the simulator's threads, for any       *)
(* faults, number of commands and length of the flight: every step of the  *)
(* simulator uses one snapshot of the flags, and the supervisor does not   *)
(* exit before each child has ended or been signalled.                     *)
(***************************************************************************)
EXTENDS DemoSupervisor, TLAPS

ChildStates == {"none", "running", "failed", "ended"}

(***************************************************************************)
(* A child whose end was reported does not run again, and what runs during *)
(* the shutdown was signalled when it began: the timer, which starts the   *)
(* simulator once, starts nothing later.  The child called the simulator   *)
(* runs as long as the process does.                                       *)
(***************************************************************************)
SupervisorInv ==
  /\ child \in [Children -> ChildStates]
  /\ reported \subseteq Children
  /\ \A c \in reported : child[c] \in {"failed", "ended"}
  /\ simulatorTimer => child["simulator"] = "none" /\ mainPc = "none"
  /\ child["simulator"] = "running" <=> SimulatorRuns
  /\ shuttingDown => \A c \in Children : child[c] = "running" => c \in signalled
  /\ supervisor = "exited" => shuttingDown

DemoInv == SupervisorInv /\ OneSnapshot

-----------------------------------------------------------------------------
(***************************************************************************)
(* The simulator: only a step writes telemetry and step_count, whatever    *)
(* the worker and the client do to the flags in between.                   *)
(***************************************************************************)
LEMMA Step_Snapshot == ASSUME Step PROVE OneSnapshot'
<1>1. /\ step_count' = step_count + 1
      /\ telemetry' = [thruster_loss |-> kThrusterLoss \in snapshot, flags |-> snapshot,
                       dropped |-> kPacketLoss \in snapshot /\ (step_count + 1) % DropEvery = 0]
  BY DEF Step
<1>2. QED
  BY <1>1 DEF OneSnapshot

LEMMA OthersKeepStep ==
  ASSUME (Main /\ ~Step) \/ Worker \/ FdSetAborts \/ AnswerKills \/ Client \/ SimulatorKilled \/ SimulatorStarts
  PROVE  UNCHANGED <<telemetry, step_count>>
<1> USE DEF mainVars, ProcessEnds, SimulatorKilled
<1>1. CASE Main /\ ~Step
  BY <1>1 DEF Main, ControlStarts, ControlStartFails, TransmitterStarts, Snapshot, TransmitterStops,
              StopBegins, StopCloses, StopClears, StopJoins
<1>2. CASE Worker
  BY <1>2 DEF Worker, TestRunning, FdSet, Selects, Accepts, TestClient, Handles, ReceivesNothing,
              WorkerGoes
<1>3. CASE Client
  BY <1>3 DEF Client, ClientConnects, ClientLeaves, ClientSends
<1>4. CASE FdSetAborts \/ AnswerKills \/ SimulatorKilled \/ SimulatorStarts
  BY <1>4 DEF FdSetAborts, AnswerKills, SimulatorStarts
<1>5. QED
  BY <1>1, <1>2, <1>3, <1>4

LEMMA SimulatorStep_Snapshot == ASSUME OneSnapshot, SimulatorStep PROVE OneSnapshot'
<1>1. CASE Step
  BY <1>1, Step_Snapshot
<1>2. CASE ~Step
  BY <1>2, OthersKeepStep DEF SimulatorStep, OneSnapshot
<1>3. QED
  BY <1>1, <1>2

(* A process that does not run takes no step, and none ends unnoticed.     *)
LEMMA MainMoves ==
  ASSUME SimulatorStep \/ SimulatorKilled
  PROVE  /\ ~SimulatorRuns => mainPc' = mainPc
         /\ SimulatorRuns => mainPc' # "none"
<1> USE DEF SimulatorRuns, ProcessEnds, SimulatorKilled, mainVars
<1>1. CASE Main
  BY <1>1 DEF Main, ControlStarts, ControlStartFails, TransmitterStarts, Snapshot, Step,
              TransmitterStops, StopBegins, StopCloses, StopClears, StopJoins
<1>2. CASE Worker
  BY <1>2 DEF Worker, TestRunning, FdSet, Selects, Accepts, TestClient, Handles, ReceivesNothing,
              WorkerGoes
<1>3. CASE Client
  BY <1>3 DEF Client, ClientConnects, ClientLeaves, ClientSends
<1>4. CASE FdSetAborts \/ AnswerKills \/ SimulatorKilled
  BY <1>4 DEF FdSetAborts, AnswerKills
<1>5. QED
  BY <1>1, <1>2, <1>3, <1>4 DEF SimulatorStep

-----------------------------------------------------------------------------
(* The supervisor.  shutdown() signals whoever runs.                       *)
LEMMA ShutdownSignals ==
  ASSUME SupervisorInv, shutdown, NEW c \in Children, child[c] = "running"
  PROVE  c \in signalled'
<1>1. c \notin reported
  BY DEF SupervisorInv
<1>2. QED
  BY <1>1 DEF SupervisorInv, shutdown, Alive, Launched

LEMMA SpawnError_Inv ==
  ASSUME DemoInv, NEW c \in Children, SpawnError(c) PROVE DemoInv'
<1>1. OneSnapshot'
  BY DEF DemoInv, OneSnapshot, SpawnError, simulatorVars, mainVars
<1>2. \A d \in Children : child[d] = "running" => d \in signalled'
  BY ShutdownSignals DEF DemoInv, SpawnError
<1>3. SupervisorInv'
  BY <1>2 DEF DemoInv, SupervisorInv, SpawnError, shutdown, SimulatorRuns, simulatorVars, mainVars
<1>4. QED
  BY <1>1, <1>3 DEF DemoInv

LEMMA Exit_Inv ==
  ASSUME DemoInv, NEW c \in Children, Exit(c) PROVE DemoInv'
<1>1. OneSnapshot'
  BY DEF DemoInv, OneSnapshot, Exit, simulatorVars, mainVars
<1>2. CASE UNCHANGED <<shuttingDown, signalled>>
  BY <1>1, <1>2 DEF DemoInv, SupervisorInv, Exit, SimulatorRuns, simulatorVars, mainVars
<1>3. CASE shutdown
  <2>1. \A d \in Children : child[d] = "running" => d \in signalled'
    BY <1>3, ShutdownSignals DEF DemoInv
  <2>2. SupervisorInv'
    BY <1>3, <2>1 DEF DemoInv, SupervisorInv, Exit, shutdown, SimulatorRuns, simulatorVars, mainVars
  <2>3. QED
    BY <1>1, <2>2 DEF DemoInv
<1>4. QED
  BY <1>2, <1>3 DEF Exit

LEMMA Interrupted_Inv == ASSUME DemoInv, Interrupted PROVE DemoInv'
<1>1. OneSnapshot'
  BY DEF DemoInv, OneSnapshot, Interrupted, simulatorVars, mainVars
<1>2. \A d \in Children : child[d] = "running" => d \in signalled'
  BY ShutdownSignals DEF DemoInv, Interrupted
<1>3. SupervisorInv'
  BY <1>2 DEF DemoInv, SupervisorInv, Interrupted, shutdown, SimulatorRuns, simulatorVars, mainVars
<1>4. QED
  BY <1>1, <1>3 DEF DemoInv

(* The simulator is started while nothing is shut down, or not at all.     *)
LEMMA LaunchSimulator_Inv == ASSUME DemoInv, LaunchSimulator PROVE DemoInv'
<1> USE DEF DemoInv
<1>1. OneSnapshot'
  BY OthersKeepStep DEF OneSnapshot, LaunchSimulator, simulatorVars, mainVars
<1>2. "simulator" \in Children
  BY DEF Children
<1>3. CASE shuttingDown
  BY <1>1, <1>3 DEF SupervisorInv, LaunchSimulator, SimulatorRuns, simulatorVars, mainVars
<1>4. CASE ~shuttingDown
  <2>1. PICK state \in {"running", "failed"} :
          /\ child' = [child EXCEPT !["simulator"] = state]
          /\ state = "running" <=> SimulatorRuns'
    <3>1. ~SimulatorRuns
      BY DEF SupervisorInv, LaunchSimulator, SimulatorRuns
    <3>2. QED
      BY <1>4, <3>1 DEF LaunchSimulator, SimulatorStarts, SimulatorRuns, simulatorVars, mainVars
  <2>2. "simulator" \notin reported
    BY DEF SupervisorInv, LaunchSimulator
  <2>3. SupervisorInv'
    BY <1>2, <1>4, <2>1, <2>2 DEF SupervisorInv, LaunchSimulator, ChildStates
  <2>4. QED
    BY <1>1, <2>3
<1>5. QED
  BY <1>3, <1>4

(* A service ends.                                                         *)
LEMMA ServiceEnds_Inv ==
  ASSUME DemoInv, NEW c \in Services, ServiceEnds(c) PROVE DemoInv'
<1>1. OneSnapshot'
  BY DEF DemoInv, OneSnapshot, ServiceEnds, simulatorVars, mainVars
<1>2. c \in Children /\ c # "simulator" /\ mainPc' = mainPc
  BY DEF Services, Children, ServiceEnds, simulatorVars, mainVars
<1>3. SupervisorInv'
  BY <1>2 DEF DemoInv, SupervisorInv, ServiceEnds, ChildStates, SimulatorRuns
<1>4. QED
  BY <1>1, <1>3 DEF DemoInv

(* The simulator goes on or ends, by itself or from the signal.            *)
LEMMA SimulatorEnds_Inv ==
  ASSUME DemoInv, SimulatorGoesOn \/ SimulatorTerminated PROVE DemoInv'
<1>1. OneSnapshot'
  BY SimulatorStep_Snapshot, OthersKeepStep
     DEF DemoInv, OneSnapshot, SimulatorGoesOn, SimulatorTerminated
<1>2. /\ ~SimulatorRuns => mainPc' = mainPc
      /\ SimulatorRuns => mainPc' # "none"
  BY MainMoves DEF SimulatorGoesOn, SimulatorTerminated
<1>3. /\ child' = IF mainPc' = "ended" THEN [child EXCEPT !["simulator"] = "ended"] ELSE child
      /\ UNCHANGED <<reported, signalled, shuttingDown, simulatorTimer, supervisor>>
  BY DEF SimulatorGoesOn, SimulatorTerminated, SimulatorKilled, ProcessEnds
<1>4. "simulator" \in Children
  BY DEF Children
<1>5. mainPc' = "ended" => ~simulatorTimer
  BY <1>2 DEF DemoInv, SupervisorInv, SimulatorRuns
<1>6. CASE mainPc' = "ended"
  <2>1. SupervisorInv'
    BY <1>3, <1>4, <1>5, <1>6 DEF DemoInv, SupervisorInv, ChildStates, SimulatorRuns
  <2>2. QED
    BY <1>1, <2>1 DEF DemoInv
<1>7. CASE mainPc' # "ended"
  <2>1. SimulatorRuns' <=> SimulatorRuns
    BY <1>2, <1>7 DEF SimulatorRuns
  <2>2. simulatorTimer => mainPc' = "none"
    BY <1>2 DEF DemoInv, SupervisorInv, SimulatorRuns
  <2>3. SupervisorInv'
    BY <1>3, <1>7, <2>1, <2>2 DEF DemoInv, SupervisorInv
  <2>4. QED
    BY <1>1, <2>3 DEF DemoInv
<1>8. QED
  BY <1>6, <1>7

LEMMA SupervisorExits_Inv == ASSUME DemoInv, SupervisorExits PROVE DemoInv'
<1>1. OneSnapshot'
  BY DEF DemoInv, OneSnapshot, SupervisorExits, simulatorVars, mainVars
<1>2. SupervisorInv'
  BY DEF DemoInv, SupervisorInv, SupervisorExits, SimulatorRuns, simulatorVars, mainVars
<1>3. QED
  BY <1>1, <1>2 DEF DemoInv

LEMMA Init_Demo == ASSUME Init PROVE DemoInv
<1>1. OneSnapshot
  BY DEF Init, SimulatorInit, NoStep, OneSnapshot
<1>2. "simulator" \in Children
  BY DEF Children
<1>3. SupervisorInv
  BY <1>2, Zenon DEF Init, SimulatorInit, SupervisorInv, ChildStates, SimulatorRuns
<1>4. QED
  BY <1>1, <1>3 DEF DemoInv

LEMMA Next_Demo == ASSUME DemoInv, [Next]_vars PROVE DemoInv'
<1>1. CASE Handlers
  BY <1>1, SpawnError_Inv, Exit_Inv, LaunchSimulator_Inv, SupervisorExits_Inv DEF Handlers
<1>2. CASE UNCHANGED vars
  BY <1>2 DEF DemoInv, OneSnapshot, SupervisorInv, SimulatorRuns, vars, demoVars, simulatorVars, mainVars
<1>3. QED
  BY <1>1, <1>2, Interrupted_Inv, ServiceEnds_Inv, SimulatorEnds_Inv DEF Next

-----------------------------------------------------------------------------
(***************************************************************************)
(* What the supervisor knows of its children, and that they are signalled  *)
(* when it shuts down; the last step of the simulator.                     *)
(***************************************************************************)
THEOREM DemoInvariant == Spec => []DemoInv
<1>1. Init => DemoInv
  BY Init_Demo
<1>2. DemoInv /\ [Next]_vars => DemoInv'
  BY Next_Demo
<1>3. QED
  BY <1>1, <1>2, PTL DEF Spec

(***************************************************************************)
(* A step flies with, reports and drops its packet by the same flags,      *)
(* whatever the control thread does to them during the step, for every     *)
(* DropEvery and every sequence of commands.                               *)
(***************************************************************************)
THEOREM SimulatorTakesOneSnapshot == Spec => []OneSnapshot
<1>1. DemoInv => OneSnapshot
  BY DEF DemoInv
<1>2. QED
  BY <1>1, DemoInvariant, PTL

(***************************************************************************)
(* When process.exit() is called each child has ended, was never started   *)
(* or has been sent SIGTERM, in whatever order children end, fail and are  *)
(* reported and the timer fires.                                           *)
(***************************************************************************)
THEOREM SupervisorLeavesNobody == Spec => ExitsAfterSignalling
<1>1. DemoInv /\ DemoInv' => (supervisor' = "exited" => (\A c \in Launched : AnsweredFor(c))')
  BY DEF DemoInv, SupervisorInv, Launched, AnsweredFor
<1>2. QED
  BY <1>1, DemoInvariant, PTL DEF ExitsAfterSignalling
=============================================================================
