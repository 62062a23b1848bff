--------------------------- MODULE CommandService ---------------------------
(***************************************************************************)
(* What the streaming server promises the browsers about fault commands.   *)
(* It accepts a command while the simulator's control link is up and keeps *)
(* it until the simulator's acknowledgement comes, over any number of      *)
(* broken links.  However often it was sent, it is acknowledged once.  The *)
(* kept commands do not survive the server process.                        *)
(***************************************************************************)
CONSTANT Ids  \* command identifiers

VARIABLES
  accepted,      \* commands handed to the control client
  pending,       \* those it keeps
  acknowledged,  \* those the browsers were told are done
  connected      \* whether the control link is up

serviceVars == <<accepted, pending, acknowledged, connected>>

ServiceInit ==
  /\ accepted = {} /\ pending = {} /\ acknowledged = {}
  /\ connected = FALSE

Accept(id) ==
  /\ connected
  /\ id \in Ids \ accepted
  /\ accepted' = accepted \cup {id}
  /\ pending' = pending \cup {id}
  /\ UNCHANGED <<acknowledged, connected>>

Acknowledge(id) ==
  /\ connected
  /\ id \in pending
  /\ pending' = pending \ {id}
  /\ acknowledged' = acknowledged \cup {id}
  /\ UNCHANGED <<accepted, connected>>

LinkUp ==
  /\ ~connected
  /\ connected' = TRUE
  /\ UNCHANGED <<accepted, pending, acknowledged>>

LinkDown ==
  /\ connected
  /\ connected' = FALSE
  /\ UNCHANGED <<accepted, pending, acknowledged>>

Restart ==
  /\ pending' = {}
  /\ connected' = FALSE
  /\ UNCHANGED <<accepted, acknowledged>>

ServiceNext ==
  \/ \E id \in Ids : Accept(id) \/ Acknowledge(id)
  \/ LinkUp \/ LinkDown \/ Restart

ServiceSpec == ServiceInit /\ [][ServiceNext]_serviceVars
=============================================================================
