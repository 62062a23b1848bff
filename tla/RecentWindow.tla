---------------------------- MODULE RecentWindow ----------------------------
(***************************************************************************)
(* What the server's history promises: the latest `capacity' samples       *)
(* pushed since the last clear, oldest first.  CircularBuffer implements   *)
(* it; TelemetryServer uses Pushed for its history.                        *)
(***************************************************************************)
EXTENDS Integers, Sequences

CONSTANTS
  Samples,   \* what is pushed
  capacity   \* how many are kept, at least one

VARIABLE window

Pushed(w, v) == IF Len(w) < capacity THEN Append(w, v) ELSE Append(Tail(w), v)

WindowInit == window = <<>>
WindowPush(v) == window' = Pushed(window, v)
WindowClear == window' = <<>>
WindowNext == WindowClear \/ \E v \in Samples : WindowPush(v)
WindowSpec == WindowInit /\ [][WindowNext]_window
=============================================================================
