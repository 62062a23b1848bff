---------------------------- MODULE FlightPhases ----------------------------
(***************************************************************************)
(* FlightSimulation::step of the simulator: the phase machine, with the    *)
(* dynamics reduced to the comparisons its guards make.                    *)
(*                                                                         *)
(* The vertical velocity is its sign, the altitude a band; a step of the   *)
(* model is one or more steps of 10 ms.  Time, propellant, the predicted   *)
(* apogee and the stopping distance decide when a phase ends, so that any  *)
(* step of a phase may be its last.                                        *)
(***************************************************************************)
EXTENDS Integers

CONSTANT MaxFlights  \* bound: how often the simulator is started

VARIABLES
  phase,      \* state_.phase
  velocity,   \* sign of state_.velocity_mps
  altitude,   \* band of state_.altitude_m
  thrustLost, \* history: thrust was lost in the ascent of this flight
  flights     \* simulators started

flightVars == <<phase, velocity, altitude, thrustLost, flights>>

MissionPhases == {"PRELAUNCH", "POWERED_ASCENT", "COAST", "DESCENT", "LANDING_BURN", "LANDED"}

BelowGround == -1
Ground == 0
Low == 1         \* above ground, up to the 75 m at which the legs are deployed
High == 2
Altitudes == BelowGround .. High

FlightInit ==
  /\ phase = "PRELAUNCH"
  /\ velocity = 0
  /\ altitude = Ground
  /\ thrustLost = FALSE
  /\ flights = 1

-----------------------------------------------------------------------------
(* The signs the velocity may have after an acceleration of a given sign.  *)
Accelerated(acceleration) ==
  IF acceleration > 0 THEN ({velocity} \ {0}) \cup {v \in -1 .. 1 : v > velocity}
  ELSE IF acceleration < 0 THEN ({velocity} \ {0}) \cup {v \in -1 .. 1 : v < velocity}
  ELSE {velocity}

(* The bands a vehicle may be in after moving with velocity v.  It leaves  *)
(* the ground, which is one altitude, in the first step.                   *)
Moved(v) ==
  {a \in Altitudes :
     /\ v = 0 => a = altitude
     /\ v > 0 => a >= altitude /\ (altitude = Ground => a = Low)
     /\ v < 0 => a <= altitude /\ (altitude = Ground => a = BelowGround)
     /\ {a, altitude} # {High, Ground} /\ {a, altitude} # {High, BelowGround}}

Moves(acceleration) ==
  /\ velocity' \in Accelerated(acceleration)
  /\ altitude' \in Moved(velocity')
  /\ UNCHANGED flights

Prelaunch ==
  /\ phase = "PRELAUNCH"
  /\ phase' \in {"PRELAUNCH", "POWERED_ASCENT"}
  /\ UNCHANGED <<velocity, altitude, thrustLost, flights>>

(* With 40 % of the thrust lost a full vehicle is heavier than the thrust. *)
PoweredAscent ==
  /\ phase = "POWERED_ASCENT"
  /\ \E thruster_loss \in BOOLEAN, acceleration \in -1 .. 1 :
       /\ thruster_loss \/ acceleration > 0
       /\ Moves(acceleration)
       /\ thrustLost' = (thrustLost \/ thruster_loss)
  /\ phase' \in {"POWERED_ASCENT", "COAST"}

Coast ==
  /\ phase = "COAST"
  /\ Moves(-1)
  /\ UNCHANGED thrustLost
  /\ phase' = IF velocity' <= 0 THEN "DESCENT" ELSE "COAST"

(* should_start_landing_burn() holds of any falling vehicle at the ground  *)
(* or below, and whenever the thrust cannot stop it.                       *)
Descent ==
  /\ phase = "DESCENT"
  /\ Moves(-1)
  /\ UNCHANGED thrustLost
  /\ phase' \in IF altitude' <= Ground THEN {"LANDING_BURN"} ELSE {"DESCENT", "LANDING_BURN"}

(* The burn slows the fall and never reverses it: the acceleration asked   *)
(* for leads to a standstill at the ground at the earliest.                *)
LandingBurn ==
  /\ phase = "LANDING_BURN"
  /\ UNCHANGED <<thrustLost, flights>>
  /\ \E a \in Moved(velocity) :
       IF a <= Ground
         THEN /\ phase' = "LANDED"
              /\ altitude' = Ground /\ velocity' = 0
         ELSE /\ altitude' = a
              /\ UNCHANGED <<phase, velocity>>

(* step() returns at once when landed; main leaves its loop.  Another      *)
(* simulator may be started, in any phase of the last one.                 *)
SimulatorStarts ==
  /\ flights < MaxFlights
  /\ flights' = flights + 1
  /\ phase' = "PRELAUNCH" /\ velocity' = 0 /\ altitude' = Ground
  /\ thrustLost' = FALSE

FlightStep == Prelaunch \/ PoweredAscent \/ Coast \/ Descent \/ LandingBurn

FlightNext == FlightStep \/ SimulatorStarts
=============================================================================
