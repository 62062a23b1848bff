-------------------------- MODULE VehicleViewProofs -------------------------
(***************************************************************************)
(* Proofs about VehicleView, for any number of flights: on a page that     *)
(* draws every part of a flight the legs and fins on the screen are out    *)
(* when the flight has them out.                                           *)
(***************************************************************************)
EXTENDS VehicleView, TLAPS

(***************************************************************************)
(* What the phases say of the motion (FlightSimulation::step): a vehicle   *)
(* that lost no thrust in its ascent climbs until the descent.             *)
(***************************************************************************)
FlightInv ==
  /\ phase \in MissionPhases /\ velocity \in -1 .. 1 /\ altitude \in Altitudes
  /\ thrustLost \in BOOLEAN
  /\ phase \in {"PRELAUNCH", "LANDED"} => velocity = 0 /\ altitude = Ground
  /\ phase = "PRELAUNCH" => ~thrustLost
  /\ phase \in {"POWERED_ASCENT", "COAST"} /\ ~thrustLost => velocity >= 0
  /\ phase = "DESCENT" => velocity <= 0
  /\ phase = "LANDING_BURN" => velocity < 0

(***************************************************************************)
(* What the frame on the screen says of the flight, which may be steps     *)
(* ahead of it: a countdown and a fall in the landing burn do not pass     *)
(* unseen.                                                                 *)
(***************************************************************************)
Follows ==
  /\ current => drawn = phase /\ shownLost = thrustLost
  /\ current /\ LegsWanted => legsDeployed
  /\ drawn \in Late => phase \in Late \cup {"PRELAUNCH"}
  /\ phase = "LANDED" => legsDeployed /\ drawn \in Late
  /\ shownLost => thrustLost \/ phase = "PRELAUNCH"

(* A group is at rest, or was set off once and goes on.                    *)
AtRest(action) == action = Reset(TRUE)
SetOff(action) == action \in {[time |-> Between, paused |-> FALSE], [time |-> End, paused |-> TRUE]}

(* The two refs say where the groups are and what was drawn.               *)
GroupsFollow ==
  /\ legsDeployed \in BOOLEAN /\ gridFinsDeployed \in BOOLEAN /\ wasLow \in BOOLEAN
  /\ shownLost \in BOOLEAN /\ current \in BOOLEAN /\ drawn \in MissionPhases \cup {"none"}
  /\ wasLow => legsDeployed
  /\ legsDeployed => wasLow \/ shownLost
  /\ gridFinsDeployed <=> drawn \in Late
  /\ IF legsDeployed THEN SetOff(legs) ELSE AtRest(legs)
  /\ IF gridFinsDeployed THEN SetOff(gridFins) ELSE AtRest(gridFins)

VehicleInv == FlightInv /\ (~LooksAway => Follows /\ GroupsFollow)

-----------------------------------------------------------------------------
(* What a moving vehicle can do in one step of the simulation.             *)
LEMMA MovesTyped ==
  ASSUME velocity \in -1 .. 1, altitude \in Altitudes, NEW acceleration \in -1 .. 1, Moves(acceleration)
  PROVE  /\ velocity' \in -1 .. 1 /\ altitude' \in Altitudes
         /\ acceleration > 0 /\ velocity >= 0 => velocity' >= 0
         /\ acceleration < 0 /\ velocity <= 0 => velocity' < 0
BY DEF Moves, Accelerated, Moved, Altitudes, BelowGround, High

(***************************************************************************)
(* A landing follows a landing burn below 75 m; a flight that has begun    *)
(* its descent stays in its last phases; thrust once lost stays lost until *)
(* the next flight.                                                        *)
(***************************************************************************)
LEMMA FlightMoves ==
  ASSUME FlightInv, FlightNext
  PROVE  /\ FlightInv'
         /\ phase' = "LANDED" => phase = "LANDING_BURN" /\ FallsLow
         /\ phase \in Late => phase' \in Late \cup {"PRELAUNCH"}
         /\ thrustLost => thrustLost' \/ phase' = "PRELAUNCH"
<1> USE DEF FlightInv, Late, MissionPhases
<1>1. CASE Prelaunch
  BY <1>1 DEF Prelaunch
<1>2. CASE PoweredAscent
  <2>1. PICK thruster_loss \in BOOLEAN, acceleration \in -1 .. 1 :
          /\ thruster_loss \/ acceleration > 0
          /\ Moves(acceleration)
          /\ thrustLost' = (thrustLost \/ thruster_loss)
    BY <1>2 DEF PoweredAscent
  <2>2. /\ velocity' \in -1 .. 1 /\ altitude' \in Altitudes
        /\ acceleration > 0 /\ velocity >= 0 => velocity' >= 0
    BY <2>1, MovesTyped
  <2>3. /\ thrustLost' \in BOOLEAN /\ (thrustLost => thrustLost')
        /\ ~thrustLost' => velocity' >= 0
    BY <1>2, <2>1, <2>2 DEF PoweredAscent
  <2>4. phase = "POWERED_ASCENT" /\ phase' \in {"POWERED_ASCENT", "COAST"}
    BY <1>2 DEF PoweredAscent
  <2>5. QED
    BY <2>2, <2>3, <2>4
<1>3. CASE Coast
  <2>1. velocity' \in -1 .. 1 /\ altitude' \in Altitudes
    BY <1>3, MovesTyped DEF Coast
  <2>2. QED
    BY <1>3, <2>1 DEF Coast
<1>4. CASE Descent
  <2>1. velocity' \in -1 .. 1 /\ altitude' \in Altitudes /\ velocity' < 0
    BY <1>4, MovesTyped DEF Descent
  <2>2. phase = "DESCENT" /\ phase' \in {"DESCENT", "LANDING_BURN"} /\ UNCHANGED thrustLost
    BY <1>4 DEF Descent
  <2>3. QED
    BY <2>1, <2>2
<1>5. CASE LandingBurn
  <2>1. PICK a \in Moved(velocity) :
          IF a <= Ground
            THEN phase' = "LANDED" /\ altitude' = Ground /\ velocity' = 0
            ELSE altitude' = a /\ UNCHANGED <<phase, velocity>>
    BY <1>5 DEF LandingBurn
  <2>2. /\ phase = "LANDING_BURN" /\ velocity < 0 /\ a \in Altitudes /\ UNCHANGED thrustLost
        /\ a <= Ground => altitude <= Low
    BY <1>5, <2>1 DEF LandingBurn, Moved, Altitudes, BelowGround, Ground, Low, High
  <2>3. Ground \in Altitudes
    BY DEF Altitudes, BelowGround, Ground, High
  <2>4. CASE a <= Ground
    BY <2>1, <2>2, <2>3, <2>4 DEF FallsLow
  <2>5. CASE ~(a <= Ground)
    BY <2>1, <2>2, <2>5
  <2>6. QED
    BY <2>4, <2>5
<1>6. CASE SimulatorStarts
  <2>1. /\ phase' = "PRELAUNCH" /\ velocity' = 0 /\ altitude' = Ground
        /\ thrustLost' \in BOOLEAN /\ ~thrustLost'
    BY <1>6 DEF SimulatorStarts
  <2>2. Ground \in Altitudes
    BY DEF Altitudes, BelowGround, Ground, High
  <2>3. QED
    BY <2>1, <2>2
<1>7. QED
  BY <1>1, <1>2, <1>3, <1>4, <1>5, <1>6 DEF FlightNext, FlightStep

(* A vehicle falls below 75 m in its descent, unless it had lost thrust.   *)
LEMMA FallsInDescent ==
  ASSUME FlightInv PROVE FallsLow /\ ~thrustLost => phase \in Late
BY DEF FlightInv, FallsLow, MissionPhases, Late

(* A new sample.                                                           *)
LEMMA Sample_Inv == ASSUME VehicleInv, Sample PROVE VehicleInv'
<1>1. /\ FlightInv'
      /\ phase' = "LANDED" => phase = "LANDING_BURN" /\ FallsLow
      /\ phase \in Late => phase' \in Late \cup {"PRELAUNCH"}
      /\ thrustLost => thrustLost' \/ phase' = "PRELAUNCH"
  BY FlightMoves DEF VehicleInv, Sample
<1>2. ASSUME ~LooksAway PROVE Follows' /\ GroupsFollow'
  <2>1. Follows /\ GroupsFollow /\ (Unmissable => current)
    BY <1>2 DEF VehicleInv, Sample
  <2>2. /\ UNCHANGED <<legs, gridFins, legsDeployed, gridFinsDeployed, drawn, wasLow, shownLost>>
        /\ current' = FALSE
    BY DEF Sample
  <2>3. phase = "PRELAUNCH" => drawn = "PRELAUNCH" /\ ~shownLost
    BY <2>1 DEF Follows, Unmissable, VehicleInv, FlightInv
  <2>4. phase' = "LANDED" => legsDeployed /\ drawn \in Late
    BY <1>1, <2>1 DEF Follows, Unmissable, LegsWanted, Late
  <2>5. drawn \in Late => phase' \in Late \cup {"PRELAUNCH"}
    BY <1>1, <2>1, <2>3 DEF Follows, Late
  <2>6. shownLost => thrustLost' \/ phase' = "PRELAUNCH"
    BY <1>1, <2>1, <2>3 DEF Follows
  <2>7. Follows'
    BY <2>2, <2>4, <2>5, <2>6 DEF Follows, Late
  <2>8. GroupsFollow'
    BY <2>1, <2>2 DEF GroupsFollow, SetOff, AtRest
  <2>9. QED
    BY <2>7, <2>8
<1>3. QED
  BY <1>1, <1>2 DEF VehicleInv

-----------------------------------------------------------------------------
(* The mixer: what setTime and update do to a group at rest or set off.    *)
LEMMA MixerKeeps ==
  /\ setTime(Reset(TRUE), Start) = Reset(TRUE)
  /\ \A next \in Updates(Reset(TRUE)) : AtRest(next)
  /\ \A next \in Updates(Reset(FALSE)) : SetOff(next)
  /\ \A action : SetOff(action) => \A next \in Updates(action) : SetOff(next)
BY DEF setTime, PlayedTo, Reset, Updates, AtRest, SetOff, Start, Between, End

(***************************************************************************)
(* A frame: a group is moved from rest when the flight first asks for it,  *)
(* returns to rest on the pad, and goes on otherwise.  Both groups are out *)
(* before the vehicle has landed, so that none is played to its end by     *)
(* setTime, which would reset the other.                                   *)
(***************************************************************************)
LEMMA FrameMoves ==
  ASSUME VehicleInv, ~LooksAway
  PROVE  LET g == MovesFins(MovesLegs(Gear(legs, gridFins)))
         IN /\ g.legs = IF legsDeployed
                          THEN IF phase = "PRELAUNCH" THEN Reset(TRUE) ELSE legs
                          ELSE IF LegsWanted THEN Reset(FALSE) ELSE Reset(TRUE)
            /\ g.gridFins = IF gridFinsDeployed
                              THEN IF phase = "PRELAUNCH" THEN Reset(TRUE) ELSE gridFins
                              ELSE IF FinsWanted THEN Reset(FALSE) ELSE Reset(TRUE)
<1> DEFINE l == MovesLegs(Gear(legs, gridFins))
<1>1. Follows /\ GroupsFollow
  BY DEF VehicleInv
<1>2. phase = "LANDED" => legsDeployed /\ gridFinsDeployed
  BY <1>1 DEF Follows, GroupsFollow
<1>3. phase = "PRELAUNCH" => ~LegsWanted /\ ~FinsWanted
  BY DEF VehicleInv, FlightInv, LegsWanted, FinsWanted, FallsLow
<1>4. /\ ~legsDeployed => legs = Reset(TRUE)
      /\ ~gridFinsDeployed => gridFins = Reset(TRUE)
  BY <1>1 DEF GroupsFollow, AtRest
<1>5. /\ l.legs = IF legsDeployed
                    THEN IF phase = "PRELAUNCH" THEN Reset(TRUE) ELSE legs
                    ELSE IF LegsWanted THEN Reset(FALSE) ELSE Reset(TRUE)
      /\ phase # "PRELAUNCH" => l.gridFins = gridFins
      /\ ~gridFinsDeployed => l.gridFins = Reset(TRUE)
  BY <1>2, <1>3, <1>4, MixerKeeps DEF MovesLegs, Gear
<1> HIDE DEF l
<1>6. /\ MovesFins(l).legs = l.legs
      /\ MovesFins(l).gridFins =
           IF phase = "PRELAUNCH" /\ gridFinsDeployed THEN Reset(TRUE)
           ELSE IF gridFinsDeployed \/ ~FinsWanted THEN l.gridFins ELSE Reset(FALSE)
  BY <1>2 DEF MovesFins, Gear
<1>7. MovesFins(l).gridFins = IF gridFinsDeployed
                                THEN IF phase = "PRELAUNCH" THEN Reset(TRUE) ELSE gridFins
                                ELSE IF FinsWanted THEN Reset(FALSE) ELSE Reset(TRUE)
  BY <1>5, <1>6
<1>8. QED
  BY <1>5, <1>6, <1>7 DEF l

LEMMA useFrame_Inv == ASSUME VehicleInv, useFrame PROVE VehicleInv'
<1>1. FlightInv' /\ UNCHANGED flightVars
  BY DEF VehicleInv, FlightInv, useFrame, flightVars
<1>2. ASSUME ~LooksAway PROVE Follows' /\ GroupsFollow'
  <2> DEFINE g == MovesFins(MovesLegs(Gear(legs, gridFins)))
  <2>1. /\ legs' \in Updates(g.legs) /\ gridFins' \in Updates(g.gridFins)
        /\ legsDeployed' = Deployed(legsDeployed, LegsWanted)
        /\ gridFinsDeployed' = Deployed(gridFinsDeployed, FinsWanted)
        /\ drawn' = phase /\ phase' = phase /\ current' = TRUE
        /\ thrustLost' = thrustLost /\ shownLost' = thrustLost
        /\ wasLow' = (phase # "PRELAUNCH" /\ (wasLow \/ EndsDescent))
    BY DEF useFrame, flightVars
  <2>2. /\ g.legs = IF legsDeployed
                      THEN IF phase = "PRELAUNCH" THEN Reset(TRUE) ELSE legs
                      ELSE IF LegsWanted THEN Reset(FALSE) ELSE Reset(TRUE)
        /\ g.gridFins = IF gridFinsDeployed
                          THEN IF phase = "PRELAUNCH" THEN Reset(TRUE) ELSE gridFins
                          ELSE IF FinsWanted THEN Reset(FALSE) ELSE Reset(TRUE)
    BY <1>2, FrameMoves
  <2> HIDE DEF g
  <2>3. Follows /\ GroupsFollow /\ phase \in MissionPhases /\ thrustLost \in BOOLEAN
    BY <1>2 DEF VehicleInv, FlightInv
  <2>4. phase = "PRELAUNCH" => ~LegsWanted /\ ~FinsWanted
    BY DEF VehicleInv, FlightInv, LegsWanted, FinsWanted, FallsLow
  <2>5. /\ LegsWanted' = LegsWanted /\ LegsWanted \in BOOLEAN /\ FinsWanted \in BOOLEAN
        /\ EndsDescent \in BOOLEAN
    BY <1>1 DEF LegsWanted, FinsWanted, EndsDescent, FallsLow, flightVars
  <2>6. FinsWanted <=> phase \in Late
    BY DEF FinsWanted, Late
  <2>7. /\ EndsDescent => LegsWanted
        /\ LegsWanted => EndsDescent \/ thrustLost
    BY FallsInDescent DEF VehicleInv, EndsDescent, LegsWanted
  <2>8. Follows'
    <3>1. LegsWanted => legsDeployed'
      BY <2>1, <2>4 DEF Deployed
    <3>2. phase = "LANDED" => LegsWanted /\ phase \in Late
      BY DEF LegsWanted, Late
    <3>3. QED
      BY <2>1, <2>5, <3>1, <3>2 DEF Follows, Late
  <2>9. /\ legsDeployed' \in BOOLEAN /\ gridFinsDeployed' \in BOOLEAN /\ wasLow' \in BOOLEAN
        /\ shownLost' \in BOOLEAN /\ current' \in BOOLEAN
        /\ drawn' \in MissionPhases \cup {"none"}
    BY <2>1, <2>3, <2>5 DEF GroupsFollow, Deployed
  <2>10. wasLow' => legsDeployed'
    BY <2>1, <2>3, <2>7 DEF GroupsFollow, Deployed
  <2>11. legsDeployed' => wasLow' \/ shownLost'
    BY <2>1, <2>3, <2>4, <2>7 DEF GroupsFollow, Follows, Deployed
  <2>12. gridFinsDeployed' <=> drawn' \in Late
    BY <2>1, <2>3, <2>6 DEF GroupsFollow, Follows, Deployed, Late
  <2>13. IF legsDeployed' THEN SetOff(legs') ELSE AtRest(legs')
    BY <2>1, <2>2, <2>3, <2>4, MixerKeeps DEF GroupsFollow, Deployed
  <2>14. IF gridFinsDeployed' THEN SetOff(gridFins') ELSE AtRest(gridFins')
    BY <2>1, <2>2, <2>3, <2>4, MixerKeeps DEF GroupsFollow, Deployed
  <2>15. GroupsFollow'
    BY <2>9, <2>10, <2>11, <2>12, <2>13, <2>14 DEF GroupsFollow, SetOff, AtRest
  <2>16. QED
    BY <2>8, <2>15
<1>3. QED
  BY <1>1, <1>2 DEF VehicleInv

(***************************************************************************)
(* Where the flight is, which frame of it is on the screen and what the    *)
(* two refs and the two groups of actions are to each other.               *)
(***************************************************************************)
THEOREM VehicleInvariant == VehicleSpec => []VehicleInv
<1>1. VehicleInit => VehicleInv
  <2> SUFFICES ASSUME VehicleInit PROVE VehicleInv
    OBVIOUS
  <2> USE DEF VehicleInit, FlightInit, ViewInit
  <2>1. FlightInv
    <3>1. phase = "PRELAUNCH" /\ velocity = 0 /\ altitude = Ground /\ thrustLost \in BOOLEAN /\ ~thrustLost
      OBVIOUS
    <3>2. Ground \in Altitudes
      BY DEF Altitudes, BelowGround, Ground, High
    <3>3. QED
      BY <3>1, <3>2 DEF FlightInv, MissionPhases
  <2>2. Follows /\ GroupsFollow
    BY Zenon DEF Follows, GroupsFollow, AtRest, Late
  <2>3. QED
    BY <2>1, <2>2 DEF VehicleInv
<1>2. VehicleInv /\ [VehicleNext]_vehicleVars => VehicleInv'
  <2> SUFFICES ASSUME VehicleInv, [VehicleNext]_vehicleVars PROVE VehicleInv'
    OBVIOUS
  <2>1. CASE UNCHANGED vehicleVars
    BY <2>1 DEF vehicleVars, flightVars, viewVars, VehicleInv, FlightInv, Follows, GroupsFollow,
                LegsWanted, FallsLow, SetOff, AtRest
  <2>2. QED
    BY <2>1, useFrame_Inv, Sample_Inv DEF VehicleNext
<1>3. QED
  BY <1>1, <1>2, PTL DEF VehicleSpec

(***************************************************************************)
(* On a page that draws every part of a flight the legs are out from the   *)
(* end of the descent, the fall below 75 m, to the end of the flight, and  *)
(* not before it unless thrust was lost in the ascent; the fins are out    *)
(* from the descent on; in every flight after the first too.               *)
(***************************************************************************)
THEOREM VehicleGearFollowsFlight == VehicleSpec => []GearFollowsFlight
<1>1. VehicleInv => GearFollowsFlight
  BY DEF VehicleInv, GroupsFollow, GearFollowsFlight, SetOff, AtRest, Reset, Out,
         Start, Between, End
<1>2. QED
  BY <1>1, VehicleInvariant, PTL
=============================================================================
