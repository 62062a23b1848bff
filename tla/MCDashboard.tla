----------------------------- MODULE MCDashboard -----------------------------
(* Dashboard with flights of two phases, falling at 6, 2 and then 0 m/s.   *)
EXTENDS Dashboard

PhaseNames == <<"PRELAUNCH", "LANDED">>

Braking == [n \in 0 .. MaxSteps - 1 |-> CASE n = 0 -> 6 [] n = 1 -> 2 [] OTHER -> 0]
=============================================================================
