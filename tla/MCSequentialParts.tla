------------------------- MODULE MCSequentialParts --------------------------
(***************************************************************************)
(* The parts of the program without concurrency of their own, checked in   *)
(* one run: a behaviour exercises one of them, chosen at the start, and    *)
(* leaves the others in their first state.                                 *)
(***************************************************************************)
EXTENDS CircularBuffer, SequenceTracker, WireFormat, VehicleView

VARIABLE part

vars == <<part, bufferVars, trackerVars, wireVars, vehicleVars>>

Init ==
  /\ part \in {"buffer", "tracker", "wire", "view"}
  /\ BufferInit /\ TrackerInit /\ WireInit /\ VehicleInit

BufferRuns ==
  /\ part = "buffer"
  /\ BufferNext
  /\ UNCHANGED <<part, trackerVars, wireVars, vehicleVars>>

TrackerRuns ==
  /\ part = "tracker"
  /\ TrackerNext
  /\ UNCHANGED <<part, bufferVars, wireVars, vehicleVars>>

WireRuns ==
  /\ part = "wire"
  /\ WireNext
  /\ UNCHANGED <<part, bufferVars, trackerVars, vehicleVars>>

ViewRuns ==
  /\ part = "view"
  /\ VehicleNext
  /\ UNCHANGED <<part, bufferVars, trackerVars, wireVars>>

Next == BufferRuns \/ TrackerRuns \/ WireRuns \/ ViewRuns

Spec == Init /\ [][Next]_vars
=============================================================================
