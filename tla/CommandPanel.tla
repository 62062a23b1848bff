----------------------------- MODULE CommandPanel -----------------------------
(***************************************************************************)
(* The fault buttons of the browsers: the command half of the dashboard's  *)
(* useTelemetry hook, the buttons of App, and the streaming server's       *)
(* #acceptClientMessage and #broadcast, over CommandService.  A page keeps *)
(* one commandState, whichever command it is about.                        *)
(*                                                                         *)
(* A WebSocket keeps each direction in order.  When it breaks, a suffix of *)
(* what was on the way is lost and each side notices on its own: the       *)
(* server broadcasts to it no more, the page still reads what arrived.     *)
(*                                                                         *)
(* Ids is 1 .. n: an id is the position of a command among those issued    *)
(* (a UUID in the code), and n bounds the commands.  Of a command's data   *)
(* the fault is kept; whether it is to be set or cleared travels with it.  *)
(***************************************************************************)
EXTENDS CommandService, Integers, Sequences

CONSTANTS
  Pages,        \* browser pages
  Faults,       \* fault names
  undefined,
  MaxBreaks,    \* bound on broken WebSockets and server restarts
  MaxChanges    \* bound on changes of the simulator's link

ASSUME IdsAssumption == Ids \subseteq Nat \ {0}

VARIABLES
  issued,            \* the faults of the commands the pages sent, by id
  socket,            \* per page: "closed", "open", "broken": only the page thinks so
  toServer,          \* per page, its commands on the way; live: on the present socket
  toPage,            \* per page, messages on the way to it
  controlConnected,  \* per page, React state
  commandState,      \* per page, React state
  cutOff,            \* pages whose socket broke since their last command
  breaks, changes    \* failures so far

linkVars == <<socket, toServer>>
pageVars == <<controlConnected, commandState>>
vars == <<serviceVars, issued, linkVars, toPage, pageVars, cutOff, breaks, changes>>

CommandState ==
  [id : Ids, fault : Faults, status : {"pending", "acknowledged", "failed"}]

ASSUME undefinedAssumption == undefined \notin CommandState

Init ==
  /\ ServiceInit
  /\ issued = <<>>
  /\ socket = [p \in Pages |-> "closed"]
  /\ toServer = [p \in Pages |-> <<>>] /\ toPage = [p \in Pages |-> <<>>]
  /\ controlConnected = [p \in Pages |-> FALSE]
  /\ commandState = [p \in Pages |-> undefined]
  /\ cutOff = {}
  /\ breaks = 0 /\ changes = 0

Pending(p) == commandState[p] # undefined /\ commandState[p].status = "pending"

-----------------------------------------------------------------------------
(***************************************************************************)
(* The server.                                                             *)
(***************************************************************************)
Status(up) == [type |-> "control_status", connected |-> up]
Ack(id) == [type |-> "command_ack", id |-> id]
Error(id) == [type |-> "command_error", id |-> id]

(* #broadcast: to every client whose socket is open.                       *)
Broadcast(message) ==
  toPage' = [p \in Pages |-> IF socket[p] = "open" THEN Append(toPage[p], message)
                             ELSE toPage[p]]

(* "connection": the history, which is Dashboard's, and the link's status. *)
Connection_Silent(p) ==
  /\ socket[p] = "closed"
  /\ socket' = [socket EXCEPT ![p] = "open"]
  /\ UNCHANGED <<serviceVars, issued, toPage, toServer, pageVars, cutOff, breaks, changes>>
Connection(p) ==
  /\ socket[p] = "closed"
  /\ socket' = [socket EXCEPT ![p] = "open"]
  /\ toPage' = [toPage EXCEPT ![p] = <<Status(connected)>>]
  /\ UNCHANGED <<serviceVars, issued, toServer, pageVars, cutOff, breaks, changes>>

(* #acceptClientMessage; the answer of a refusal goes to the sender only.  *)
acceptClientMessage_DropsQuietly(p) ==
  /\ toServer[p] # <<>>
  /\ toServer' = [toServer EXCEPT ![p] = Tail(@)]
  /\ \/ Accept(Head(toServer[p]).id)
     \/ ~connected /\ UNCHANGED serviceVars
  /\ UNCHANGED <<issued, socket, toPage, pageVars, cutOff, breaks, changes>>
acceptClientMessage(p) ==
  /\ toServer[p] # <<>>
  /\ toServer' = [toServer EXCEPT ![p] = Tail(@)]
  /\ \/ /\ Accept(Head(toServer[p]).id)
        /\ UNCHANGED toPage
     \/ /\ ~connected
        /\ toPage' = IF socket[p] = "open" /\ Head(toServer[p]).live
                     THEN [toPage EXCEPT ![p] = Append(@, Error(Head(toServer[p]).id))]
                     ELSE toPage
        /\ UNCHANGED serviceVars
  /\ UNCHANGED <<issued, socket, pageVars, cutOff, breaks, changes>>

(* onAcknowledgement                                                       *)
onAcknowledgement(id) ==
  /\ Acknowledge(id)
  /\ Broadcast(Ack(id))
  /\ UNCHANGED <<issued, linkVars, pageVars, cutOff, breaks, changes>>

(* onStatus                                                                *)
StatusUp ==
  /\ LinkUp
  /\ Broadcast(Status(TRUE))
  /\ UNCHANGED <<issued, linkVars, pageVars, cutOff, breaks, changes>>

StatusDown ==
  /\ changes < MaxChanges
  /\ changes' = changes + 1
  /\ LinkDown
  /\ Broadcast(Status(FALSE))
  /\ UNCHANGED <<issued, linkVars, pageVars, cutOff, breaks>>

(***************************************************************************)
(* The process ends and is started again: every socket breaks, and what it *)
(* had not read or kept is gone.  stop() ends the link first, which open   *)
(* pages are told of; of what was sent to a page a part arrives.           *)
(***************************************************************************)
Prefixes(messages) == {SubSeq(messages, 1, n) : n \in 0 .. Len(messages)}
Stopped(p) == IF connected THEN Append(toPage[p], Status(FALSE)) ELSE toPage[p]
MayArrive(p) == IF socket[p] = "open" THEN Prefixes(Stopped(p)) ELSE {toPage[p]}

ServerRestarts ==
  /\ breaks < MaxBreaks
  /\ breaks' = breaks + 1
  /\ Restart
  /\ socket' = [p \in Pages |-> IF socket[p] = "closed" THEN "closed" ELSE "broken"]
  /\ toServer' = [p \in Pages |-> <<>>]
  /\ toPage' \in {arrived \in [Pages -> UNION {MayArrive(p) : p \in Pages}] :
                   \A p \in Pages : arrived[p] \in MayArrive(p)}
  /\ cutOff' = Pages
  /\ UNCHANGED <<issued, pageVars, changes>>

-----------------------------------------------------------------------------
(***************************************************************************)
(* The WebSocket of a page breaks; of what was on the way, `up' commands   *)
(* and `down' messages arrived.                                            *)
(***************************************************************************)
SocketBreaks(p, up, down) ==
  /\ socket[p] = "open"
  /\ breaks < MaxBreaks
  /\ breaks' = breaks + 1
  /\ socket' = [socket EXCEPT ![p] = "broken"]
  /\ toServer' = [toServer EXCEPT ![p] =
                    [i \in 1 .. up |-> [toServer[p][i] EXCEPT !.live = FALSE]]]
  /\ toPage' = [toPage EXCEPT ![p] = SubSeq(@, 1, down)]
  /\ cutOff' = cutOff \cup {p}
  /\ UNCHANGED <<serviceVars, issued, pageVars, changes>>

-----------------------------------------------------------------------------
(***************************************************************************)
(* A page.                                                                 *)
(***************************************************************************)
(* The button of a fault, and a click on it: sendFaultCommand.             *)
ButtonEnabled(p, fault) ==
  controlConnected[p] /\ ~(Pending(p) /\ commandState[p].fault = fault)

sendFaultCommand_OneIdPerFault(p, fault) ==
  LET OneId == CHOOSE i \in 1 .. Len(issued) + 1 : (issued \o <<fault>>)[i] = fault IN
  /\ Len(issued) + 1 \in Ids
  /\ ButtonEnabled(p, fault)
  /\ socket[p] # "closed"
  /\ issued' = Append(issued, fault)
  /\ toServer' = IF socket[p] = "open"
                 THEN [toServer EXCEPT ![p] = Append(@, [id |-> OneId, live |-> TRUE])]
                 ELSE toServer
  /\ commandState' = [commandState EXCEPT ![p] =
       [id |-> OneId, fault |-> fault, status |-> "pending"]]
  /\ cutOff' = IF socket[p] = "open" THEN cutOff \ {p} ELSE cutOff \cup {p}
  /\ UNCHANGED <<serviceVars, socket, toPage, controlConnected, breaks, changes>>
sendFaultCommand(p, fault) ==
  /\ Len(issued) + 1 \in Ids
  /\ ButtonEnabled(p, fault)
  /\ socket[p] # "closed"
  /\ issued' = Append(issued, fault)
  /\ toServer' = IF socket[p] = "open"
                 THEN [toServer EXCEPT ![p] = Append(@, [id |-> Len(issued) + 1, live |-> TRUE])]
                 ELSE toServer
  /\ commandState' = [commandState EXCEPT ![p] =
       [id |-> Len(issued) + 1, fault |-> fault, status |-> "pending"]]
  /\ cutOff' = IF socket[p] = "open" THEN cutOff \ {p} ELSE cutOff \cup {p}
  /\ UNCHANGED <<serviceVars, socket, toPage, controlConnected, breaks, changes>>

(* "message": a control_status, a command_ack of any page's command, or a  *)
(* command_error, which keeps the fault the state was about.               *)
ShowAck_OnlyStatus(p, id) ==
  [commandState[p] EXCEPT !.status = "acknowledged"]
ShowAck(p, id) ==
  [id |-> id, fault |-> issued[id], status |-> "acknowledged"]

ShowError(p, id) ==
  [commandState[p] EXCEPT !.id = id, !.status = "failed"]

TakesMessage(p) ==
  /\ socket[p] # "closed" /\ toPage[p] # <<>>
  /\ toPage' = [toPage EXCEPT ![p] = Tail(@)]
  /\ LET message == Head(toPage[p])
     IN \/ /\ message.type = "control_status"
           /\ controlConnected' = [controlConnected EXCEPT ![p] = message.connected]
           /\ UNCHANGED commandState
        \/ /\ message.type = "command_ack"
           /\ commandState' = [commandState EXCEPT ![p] = ShowAck(p, message.id)]
           /\ UNCHANGED controlConnected
        \/ /\ message.type = "command_error"
           /\ commandState' = [commandState EXCEPT ![p] = ShowError(p, message.id)]
           /\ UNCHANGED controlConnected
  /\ UNCHANGED <<serviceVars, issued, linkVars, cutOff, breaks, changes>>

(* "close"; the timer then calls connect().                                *)
Close(p) ==
  /\ socket[p] = "broken" /\ toPage[p] = <<>>
  /\ socket' = [socket EXCEPT ![p] = "closed"]
  /\ controlConnected' = [controlConnected EXCEPT ![p] = FALSE]
  /\ UNCHANGED <<serviceVars, issued, toServer, toPage, commandState, cutOff, breaks, changes>>

-----------------------------------------------------------------------------
Next ==
  \/ \E p \in Pages :
       \/ Connection(p) \/ acceptClientMessage(p) \/ TakesMessage(p) \/ Close(p)
       \/ \E fault \in Faults : sendFaultCommand(p, fault)
       \/ \E up \in 0 .. Len(toServer[p]), down \in 0 .. Len(toPage[p]) :
            SocketBreaks(p, up, down)
  \/ \E id \in Ids : onAcknowledgement(id)
  \/ StatusUp \/ StatusDown \/ ServerRestarts

(***************************************************************************)
(* Timers and callbacks run in the browser and in Node; the link to the    *)
(* simulator comes up again, and what the service keeps it gets            *)
(* acknowledged (ControlLink!EventuallyAcknowledged).  Clicks and failures *)
(* just happen.                                                            *)
(***************************************************************************)
Fairness ==
  /\ \A p \in Pages :
       WF_vars(Connection(p)) /\ WF_vars(acceptClientMessage(p))
         /\ WF_vars(TakesMessage(p)) /\ WF_vars(Close(p))
  /\ WF_vars(StatusUp)
  /\ \A id \in Ids : WF_vars(onAcknowledgement(id))

SafetySpec == Init /\ [][Next]_vars
Spec == SafetySpec /\ Fairness

-----------------------------------------------------------------------------
(* The types, and no command on its way to the server was accepted before. *)
TypeOK ==
  /\ issued \in Seq(Faults)
  /\ accepted \subseteq 1 .. Len(issued)
  /\ pending \cup acknowledged \subseteq accepted
  /\ socket \in [Pages -> {"closed", "open", "broken"}]
  /\ controlConnected \in [Pages -> BOOLEAN]
  /\ commandState \in [Pages -> CommandState \cup {undefined}]
  /\ \A p \in Pages, i \in Ids :
       i <= Len(toServer[p]) => toServer[p][i].id \in 1 .. Len(issued) \ accepted

(***************************************************************************)
(* "SIM LINK READY" is the truth: a page that has read everything sent to  *)
(* it shows the link as it is, and a page without a socket shows it down,  *)
(* however connecting interleaves with changes of the link.                *)
(***************************************************************************)
StatusShown ==
  \A p \in Pages :
    /\ socket[p] = "open" /\ toPage[p] = <<>> => controlConnected[p] = connected
    /\ socket[p] = "closed" => ~controlConnected[p]

(***************************************************************************)
(* "ACKNOWLEDGED" is the truth: the command it names was about that fault  *)
(* and the simulator acknowledged it, though the one commandState is       *)
(* overwritten by the acknowledgements of every page's commands.           *)
(***************************************************************************)
ShownAsIssued ==
  \A p \in Pages :
    LET shown == commandState[p]
    IN shown # undefined /\ shown.status # "failed" =>
         /\ issued[shown.id] = shown.fault
         /\ shown.status = "acknowledged" => shown.id \in acknowledged

(***************************************************************************)
(* A page whose socket holds learns what became of its command: "SENDING"  *)
(* ends.                                                                   *)
(***************************************************************************)
PendingEndsOnline ==
  \A p \in Pages : Pending(p) /\ p \notin cutOff ~> ~Pending(p) \/ p \in cutOff

(***************************************************************************)
(* "Control commands and their acknowledgements are not acceptable losses" *)
(* (docs/decisions.md): "SENDING" ends for every page, also for one whose  *)
(* socket breaks and comes back.                                           *)
(***************************************************************************)
PendingEnds == \A p \in Pages : Pending(p) ~> ~Pending(p)
=============================================================================
