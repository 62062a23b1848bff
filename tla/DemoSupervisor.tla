--------------------------- MODULE DemoSupervisor ---------------------------
(***************************************************************************)
(* demo.mjs: starts the streaming server, the dashboard and, 1.5 s later,  *)
(* the simulator, and ends them when a service ends or the user interrupts.*)
(* The simulator is SimulatorProcess; a service runs until it ends, by     *)
(* itself or from a signal.  The end of the simulator ends nothing.        *)
(*                                                                         *)
(* A timer of 250 ms and one of 1500 ms are set at different times, so     *)
(* that either may expire first.                                           *)
(***************************************************************************)
EXTENDS SimulatorProcess

VARIABLES
  child,           \* of each child: "none", "running", "failed" to spawn or "ended"
  reported,        \* children whose "exit" or "error" event has been handled
  signalled,       \* children sent SIGTERM
  shuttingDown,
  simulatorTimer,  \* the timeout of 1500 ms waits
  supervisor       \* "running" or "exited"

demoVars == <<child, reported, signalled, shuttingDown, simulatorTimer, supervisor>>
vars == <<simulatorVars, demoVars>>

Services == {"server", "dashboard"}
Children == Services \cup {"simulator"}

Init ==
  /\ SimulatorInit
  /\ child \in [Children -> {"none", "running", "failed"}]
  /\ child["simulator"] = "none" /\ \A c \in Services : child[c] # "none"
  /\ reported = {} /\ signalled = {}
  /\ shuttingDown = FALSE /\ simulatorTimer = TRUE
  /\ supervisor = "running"

Launched == {c \in Children : child[c] # "none"}

(* exitCode of a child: still null when its end has not been reported.     *)
Alive == {c \in Launched : c \notin reported}

-----------------------------------------------------------------------------
(* shutdown(): the second call returns at once.                            *)
shutdown ==
  /\ shuttingDown' = TRUE
  /\ signalled' = IF shuttingDown THEN signalled ELSE signalled \cup Alive

(* The "error" event of a child that could not be started.                 *)
SpawnError_OnlyLogs(c) ==
  /\ supervisor = "running" /\ child[c] = "failed" /\ c \notin reported
  /\ reported' = reported \cup {c}
  /\ UNCHANGED <<simulatorVars, child, signalled, shuttingDown, simulatorTimer, supervisor>>
SpawnError(c) ==
  /\ supervisor = "running" /\ child[c] = "failed" /\ c \notin reported
  /\ reported' = reported \cup {c}
  /\ shutdown
  /\ UNCHANGED <<simulatorVars, child, simulatorTimer, supervisor>>

(* The "exit" event; endsDemo is false for the simulator only.             *)
Exit(c) ==
  /\ supervisor = "running" /\ child[c] = "ended" /\ c \notin reported
  /\ reported' = reported \cup {c}
  /\ IF shuttingDown \/ c = "simulator" THEN UNCHANGED <<shuttingDown, signalled>> ELSE shutdown
  /\ UNCHANGED <<simulatorVars, child, simulatorTimer, supervisor>>

(* SIGINT or SIGTERM.                                                      *)
Interrupted ==
  /\ supervisor = "running" /\ ~shuttingDown
  /\ shutdown
  /\ UNCHANGED <<simulatorVars, child, reported, simulatorTimer, supervisor>>

(* The timeout of 1500 ms: nothing when shutting down.                     *)
LaunchSimulator_Always ==
  /\ supervisor = "running" /\ simulatorTimer
  /\ simulatorTimer' = FALSE
  /\ SimulatorStarts /\ child' = [child EXCEPT !["simulator"] = "running"]
  /\ UNCHANGED <<reported, signalled, shuttingDown, supervisor>>
LaunchSimulator ==
  /\ supervisor = "running" /\ simulatorTimer
  /\ simulatorTimer' = FALSE
  /\ IF shuttingDown THEN UNCHANGED <<simulatorVars, child>>
     ELSE \/ SimulatorStarts /\ child' = [child EXCEPT !["simulator"] = "running"]
          \/ UNCHANGED simulatorVars /\ child' = [child EXCEPT !["simulator"] = "failed"]
  /\ UNCHANGED <<reported, signalled, shuttingDown, supervisor>>

(* The timeout of 250 ms: process.exit().                                  *)
SupervisorExits ==
  /\ supervisor = "running" /\ shuttingDown
  /\ supervisor' = "exited"
  /\ UNCHANGED <<simulatorVars, child, reported, signalled, shuttingDown, simulatorTimer>>

-----------------------------------------------------------------------------
(* A service ends: a crash, a port in use, or the signal, which it may     *)
(* also ignore.                                                            *)
ServiceEnds(c) ==
  /\ child[c] = "running"
  /\ child' = [child EXCEPT ![c] = "ended"]
  /\ UNCHANGED <<simulatorVars, reported, signalled, shuttingDown, simulatorTimer, supervisor>>

(* The simulator runs; when its process has ended its exit can be seen.    *)
SimulatorGoesOn ==
  /\ SimulatorStep
  /\ child' = IF mainPc' = "ended" THEN [child EXCEPT !["simulator"] = "ended"] ELSE child
  /\ UNCHANGED <<reported, signalled, shuttingDown, simulatorTimer, supervisor>>

(* The simulator has no handler for SIGTERM.                               *)
SimulatorTerminated ==
  /\ "simulator" \in signalled
  /\ SimulatorKilled
  /\ child' = [child EXCEPT !["simulator"] = "ended"]
  /\ UNCHANGED <<reported, signalled, shuttingDown, simulatorTimer, supervisor>>

Handlers ==
  \/ \E c \in Children : SpawnError(c) \/ Exit(c)
  \/ LaunchSimulator \/ SupervisorExits

Next ==
  \/ Handlers \/ Interrupted
  \/ \E c \in Services : ServiceEnds(c)
  \/ SimulatorGoesOn \/ SimulatorTerminated

(* Node runs the handlers and timers, the operating system the simulator's *)
(* threads, and a signal is delivered.                                     *)
Fairness ==
  /\ \A c \in Children : WF_vars(SpawnError(c)) /\ WF_vars(Exit(c))
  /\ WF_vars(LaunchSimulator) /\ WF_vars(SupervisorExits)
  /\ WF_vars(Main /\ SimulatorGoesOn) /\ WF_vars(Worker /\ SimulatorGoesOn)
  /\ WF_vars(SimulatorTerminated)

Spec == Init /\ [][Next]_vars /\ Fairness

-----------------------------------------------------------------------------
AnsweredFor(c) == c \in signalled \/ child[c] # "running"

(***************************************************************************)
(* The supervisor never exits with a child neither ended nor signalled,    *)
(* although the timer that starts the simulator may expire while it shuts  *)
(* down, and children end and are reported in any order around it.         *)
(***************************************************************************)
ExitsAfterSignalling ==
  [][supervisor' = "exited" => (\A c \in Launched : AnsweredFor(c))']_vars

(***************************************************************************)
(* When a service ends, cannot be started or the user interrupts, the      *)
(* supervisor exits, and the simulator ends too.                           *)
(***************************************************************************)
DemoEnds ==
  (shuttingDown \/ \E c \in Services : child[c] # "running")
    ~> (supervisor = "exited" /\ child["simulator"] # "running")
=============================================================================
