----------------------------- MODULE VehicleView ----------------------------
(***************************************************************************)
(* FlightModel of the dashboard's 3D view: the landing legs and the grid   *)
(* fins, which two groups of actions of one three.js AnimationMixer move,  *)
(* drawn from the samples of FlightPhases.                                 *)
(*                                                                         *)
(* The actions of a group do the same, so that a group is one action: how  *)
(* far it has been played and whether it is paused.  The samples shown are *)
(* the truth: no sensor noise.  A frame draws the last sample retained, so *)
(* that not every step of the flight is drawn.                             *)
(***************************************************************************)
EXTENDS FlightPhases

CONSTANT LooksAway  \* the page is opened late or hidden for a while

ASSUME LooksAwayAssumption == LooksAway \in BOOLEAN

VARIABLES
  legs, gridFins,                  \* legActions, gridFinActions
  legsDeployed, gridFinsDeployed,  \* the two refs
  drawn,      \* the phase of the frame on the screen, or "none"
  wasLow,     \* history: a frame of this flight showed the end of the descent
  shownLost,  \* history: the frame on the screen is of a flight that lost thrust ascending
  current     \* the frame on the screen shows the vehicle as it is

viewVars ==
  <<legs, gridFins, legsDeployed, gridFinsDeployed, drawn, wasLow, shownLost, current>>
vehicleVars == <<flightVars, viewVars>>

(***************************************************************************)
(* AnimationMixer and AnimationAction of three.js.  An action played to    *)
(* its end pauses (LoopOnce, clampWhenFinished); a paused action keeps its *)
(* time; setTime() sets the time of every action of the mixer to 0 before  *)
(* it advances them.                                                       *)
(***************************************************************************)
Start == 0
Between == 1
End == 2

Reset(paused) == [time |-> Start, paused |-> paused]

PlayedTo(action, time) ==
  IF action.paused THEN action ELSE [time |-> time, paused |-> time = End]

setTime(action, time) == PlayedTo([action EXCEPT !.time = Start], time)

(* update() with the time since the last frame: the clips last 4.2 s and a *)
(* frame counts for at most 0.1 s.                                         *)
Updates(action) ==
  {PlayedTo(action, time) : time \in IF action.time = Start THEN {Between} ELSE {Between, End}}

Paused(action) == [action EXCEPT !.paused = TRUE]

-----------------------------------------------------------------------------
(* The effect that prepares the actions once the model is loaded.          *)
ViewInit ==
  /\ legs = Reset(TRUE) /\ gridFins = Reset(TRUE)
  /\ legsDeployed = FALSE /\ gridFinsDeployed = FALSE
  /\ drawn = "none" /\ wasLow = FALSE /\ shownLost = FALSE /\ current = FALSE

VehicleInit == FlightInit /\ ViewInit

(***************************************************************************)
(* A frame: the legs, then the fins, then mixer.update(delta).  Each part  *)
(* returns both groups, because setTime() reaches both.                    *)
(***************************************************************************)
FallsLow == velocity < 0 /\ altitude <= Low

Gear(l, f) == [legs |-> l, gridFins |-> f]

LegsWanted == FallsLow \/ phase = "LANDED"
FinsWanted == phase \in {"DESCENT", "LANDING_BURN", "LANDED"}

MovesLegs_ForgetsPause(g) ==
  IF phase = "PRELAUNCH" /\ legsDeployed THEN Gear(Reset(FALSE), setTime(g.gridFins, Start))
  ELSE IF legsDeployed \/ ~LegsWanted THEN g
  ELSE IF phase = "LANDED" THEN Gear(Paused(setTime(Reset(FALSE), End)), setTime(g.gridFins, End))
  ELSE Gear(Reset(FALSE), g.gridFins)
MovesLegs(g) ==
  IF phase = "PRELAUNCH" /\ legsDeployed THEN Gear(Reset(TRUE), setTime(g.gridFins, Start))
  ELSE IF legsDeployed \/ ~LegsWanted THEN g
  ELSE IF phase = "LANDED" THEN Gear(Paused(setTime(Reset(FALSE), End)), setTime(g.gridFins, End))
  ELSE Gear(Reset(FALSE), g.gridFins)

MovesFins(g) ==
  IF phase = "PRELAUNCH" /\ gridFinsDeployed THEN Gear(g.legs, Reset(TRUE))
  ELSE IF gridFinsDeployed \/ ~FinsWanted THEN g
  ELSE IF phase = "LANDED" THEN Gear(setTime(g.legs, End), Paused(setTime(Reset(FALSE), End)))
  ELSE Gear(g.legs, Reset(FALSE))

(* The descent is in its last 75 m, or over.                               *)
Late == {"DESCENT", "LANDING_BURN", "LANDED"}
EndsDescent == phase = "LANDED" \/ (phase \in Late /\ FallsLow)

(* What a ref holds after the frame.                                       *)
Deployed(before, wanted) == IF before THEN phase # "PRELAUNCH" ELSE wanted

useFrame ==
  /\ LET g == MovesFins(MovesLegs(Gear(legs, gridFins)))
     IN legs' \in Updates(g.legs) /\ gridFins' \in Updates(g.gridFins)
  /\ legsDeployed' = Deployed(legsDeployed, LegsWanted)
  /\ gridFinsDeployed' = Deployed(gridFinsDeployed, FinsWanted)
  /\ drawn' = phase
  /\ wasLow' = (phase # "PRELAUNCH" /\ (wasLow \/ EndsDescent))
  /\ shownLost' = thrustLost
  /\ current' = TRUE
  /\ UNCHANGED flightVars

(***************************************************************************)
(* The next step of the flight.  A page that does not look away draws a    *)
(* frame of the countdown and one of the landing burn's fall below 75 m,   *)
(* which last for seconds; of the rest it may miss any step.  (After an    *)
(* ascent that sank below the ground the landing burn is one step, which   *)
(* any page may miss: to miss it counts as looking away.)                  *)
(***************************************************************************)
Unmissable == phase = "PRELAUNCH" \/ (phase = "LANDING_BURN" /\ FallsLow)

Sample ==
  /\ current \/ LooksAway \/ ~Unmissable
  /\ FlightNext
  /\ current' = FALSE
  /\ UNCHANGED <<legs, gridFins, legsDeployed, gridFinsDeployed, drawn, wasLow, shownLost>>

VehicleNext == useFrame \/ Sample

VehicleSpec == VehicleInit /\ [][VehicleNext]_vehicleVars

-----------------------------------------------------------------------------
(* On the screen: out of its rest position, or about to leave it.          *)
Out(action) == action.time # Start

(***************************************************************************)
(* On a page that draws every part of a flight the legs are out from the   *)
(* end of the descent, the fall below 75 m, to the end of the flight, and  *)
(* not before it unless thrust was lost in the ascent; the fins are out    *)
(* from the descent on.  So it is in every flight after the first too: the *)
(* two groups share a mixer, one branch resets the time of both, the refs  *)
(* must follow, and a flight may be cut short in any phase.                *)
(***************************************************************************)
GearFollowsFlight ==
  (drawn # "none" /\ ~LooksAway) =>
    /\ wasLow => Out(legs)
    /\ Out(legs) /\ ~shownLost => wasLow
    /\ Out(gridFins) <=> drawn \in Late

(***************************************************************************)
(* A vehicle drawn on the ground after its flight stands on its legs       *)
(* ("landing legs deploy during the final 50-100 m of descent", README.md). *)
(***************************************************************************)
LandedOnLegs == drawn = "LANDED" => Out(legs)
=============================================================================
