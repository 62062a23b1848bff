-------------------------- MODULE CommandPanelProofs ------------------------
(***************************************************************************)
(* Proofs about CommandPanel, for any pages, faults, commands and failures *)
(* of sockets, link and server: what a page shows of the link and of the   *)
(* commands is true.                                                       *)
(***************************************************************************)
EXTENDS CommandPanel, SequenceTheorems, TLAPS

Requests == [id : Ids, live : BOOLEAN]
Messages ==
  [type : {"control_status"}, connected : BOOLEAN]
    \cup [type : {"command_ack", "command_error"}, id : Ids]
Issued == 1 .. Len(issued)

PanelTypes ==
  /\ issued \in Seq(Faults)
  /\ connected \in BOOLEAN
  /\ accepted \subseteq Issued
  /\ pending \cup acknowledged \subseteq accepted
  /\ socket \in [Pages -> {"closed", "open", "broken"}]
  /\ toServer \in [Pages -> Seq(Requests)]
  /\ toPage \in [Pages -> Seq(Messages)]
  /\ controlConnected \in [Pages -> BOOLEAN]
  /\ commandState \in [Pages -> CommandState \cup {undefined}]

(* A command on the way is on the way once, was not accepted before, and   *)
(* its page shows a command.                                               *)
RequestsNew ==
  /\ \A p \in Pages : \A i \in 1 .. Len(toServer[p]) :
       /\ toServer[p][i].id \in Issued \ accepted
       /\ commandState[p] # undefined
  /\ \A p, q \in Pages : \A i \in 1 .. Len(toServer[p]), j \in 1 .. Len(toServer[q]) :
       toServer[p][i].id = toServer[q][j].id => p = q /\ i = j

(* An acknowledgement on the way is true; a refusal goes to a page that    *)
(* shows a command.                                                        *)
Truthful(p, message) ==
  /\ message.type = "command_ack" => message.id \in acknowledged
  /\ message.type = "command_error" => message.id \in Issued /\ commandState[p] # undefined
AnswersTrue ==
  \A p \in Pages : \A i \in 1 .. Len(toPage[p]) : Truthful(p, toPage[p][i])

(* The last status on the way to a page is the link's, and a page to which *)
(* none is on the way shows it already.                                    *)
IsStatus(message) == message.type = "control_status"
Leads(messages, shown, link) ==
  /\ \A i \in 1 .. Len(messages) :
       /\ IsStatus(messages[i])
       /\ \A j \in 1 .. Len(messages) : j > i => ~IsStatus(messages[j])
       => messages[i].connected = link
  /\ (\A j \in 1 .. Len(messages) : ~IsStatus(messages[j])) => shown = link
StatusComing ==
  \A p \in Pages : socket[p] = "open" => Leads(toPage[p], controlConnected[p], connected)

ClosedShown == \A p \in Pages : socket[p] = "closed" => ~controlConnected[p]

ShowsIssued ==
  \A p \in Pages : commandState[p] # undefined => commandState[p].id \in Issued

PanelInv ==
  /\ PanelTypes /\ RequestsNew /\ AnswersTrue
  /\ StatusComing /\ ClosedShown
  /\ ShowsIssued /\ ShownAsIssued

-----------------------------------------------------------------------------
(* Sequences of messages.                                                  *)
LEMMA MessagesTyped ==
  /\ \A up \in BOOLEAN : /\ Status(up) \in Messages /\ IsStatus(Status(up))
                         /\ Status(up).connected = up /\ Status(up).type = "control_status"
  /\ \A id \in Ids : /\ Ack(id) \in Messages /\ ~IsStatus(Ack(id))
                     /\ Ack(id).type = "command_ack" /\ Ack(id).id = id
  /\ \A id \in Ids : /\ Error(id) \in Messages /\ ~IsStatus(Error(id))
                     /\ Error(id).type = "command_error" /\ Error(id).id = id
  /\ \A message \in Messages :
       /\ message.type \in {"control_status", "command_ack", "command_error"}
       /\ IsStatus(message) => message.connected \in BOOLEAN
       /\ ~IsStatus(message) => message.id \in Ids
BY DEF Messages, Status, Ack, Error, IsStatus

LEMMA AppendsStatus ==
  ASSUME NEW messages \in Seq(Messages), NEW up \in BOOLEAN, NEW shown
  PROVE  Leads(Append(messages, Status(up)), shown, up)
<1> DEFINE all == Append(messages, Status(up))
           n == Len(messages)
<1>1. /\ n \in Nat /\ Len(all) = n + 1 /\ all[n + 1] = Status(up)
  BY MessagesTyped, AppendProperties
<1>2. IsStatus(Status(up)) /\ Status(up).connected = up
  BY MessagesTyped
<1> HIDE DEF all, n
<1>3. Leads(all, shown, up)
  BY <1>1, <1>2 DEF Leads
<1>4. QED
  BY <1>3 DEF all

LEMMA AppendsOther ==
  ASSUME NEW messages \in Seq(Messages), NEW message \in Messages, ~IsStatus(message),
         NEW shown, NEW link, Leads(messages, shown, link)
  PROVE  Leads(Append(messages, message), shown, link)
<1> DEFINE all == Append(messages, message)
           n == Len(messages)
<1>1. /\ n \in Nat /\ Len(all) = n + 1 /\ all[n + 1] = message
      /\ \A i \in 1 .. n : all[i] = messages[i]
  BY AppendProperties
<1> HIDE DEF all
<1>2. \A i \in 1 .. n + 1 : i \in 1 .. n \/ i = n + 1
  BY <1>1
<1>3. \A i \in 1 .. n : i \in 1 .. n + 1
  BY <1>1
<1>4. ASSUME NEW i \in 1 .. n + 1, IsStatus(all[i]),
             \A j \in 1 .. n + 1 : j > i => ~IsStatus(all[j])
      PROVE  all[i].connected = link
  <2>1. i \in 1 .. n /\ all[i] = messages[i]
    BY <1>1, <1>2, <1>4
  <2>2. \A j \in 1 .. n : j > i => ~IsStatus(messages[j])
    BY <1>1, <1>3, <1>4
  <2>3. QED
    BY <1>4, <2>1, <2>2 DEF Leads
<1>5. ASSUME \A j \in 1 .. n + 1 : ~IsStatus(all[j]) PROVE shown = link
  BY <1>1, <1>3, <1>5 DEF Leads
<1>6. Leads(all, shown, link)
  BY <1>1, <1>4, <1>5 DEF Leads
<1>7. QED
  BY <1>6 DEF all

LEMMA TailMessages ==
  ASSUME NEW messages \in Seq(Messages), messages # <<>>
  PROVE  /\ Len(messages) \in Nat \ {0} /\ Len(Tail(messages)) = Len(messages) - 1
         /\ Tail(messages) \in Seq(Messages)
         /\ \A i \in 1 .. Len(messages) - 1 : Tail(messages)[i] = messages[i + 1]
         /\ Head(messages) = messages[1] /\ Head(messages) \in Messages
<1>1. Len(messages) \in Nat \ {0}
  BY EmptySeq
<1>2. Head(messages) = messages[1]
  BY <1>1
<1>3. QED
  BY <1>1, <1>2, HeadTailProperties

LEMMA TakesFirst ==
  ASSUME NEW messages \in Seq(Messages), messages # <<>>,
         NEW shown, NEW link, Leads(messages, shown, link)
  PROVE  /\ IsStatus(Head(messages)) => Leads(Tail(messages), Head(messages).connected, link)
         /\ ~IsStatus(Head(messages)) => Leads(Tail(messages), shown, link)
<1> DEFINE rest == Tail(messages)
           n == Len(messages)
<1>1. /\ n \in Nat \ {0} /\ Len(rest) = n - 1 /\ Head(messages) = messages[1]
      /\ \A i \in 1 .. n - 1 : rest[i] = messages[i + 1]
  BY TailMessages
<1> HIDE DEF rest
<1>2. /\ \A i \in 1 .. n - 1 : i + 1 \in 1 .. n
      /\ \A i \in 1 .. n : i = 1 \/ (i - 1 \in 1 .. n - 1 /\ (i - 1) + 1 = i)
      /\ 1 \in 1 .. n
  BY <1>1
<1>3. ASSUME NEW i \in 1 .. n - 1, IsStatus(rest[i]),
             \A j \in 1 .. n - 1 : j > i => ~IsStatus(rest[j])
      PROVE  rest[i].connected = link
  <2>1. rest[i] = messages[i + 1] /\ i + 1 \in 1 .. n
    BY <1>1, <1>2
  <2>2. ASSUME NEW j \in 1 .. n, j > i + 1 PROVE ~IsStatus(messages[j])
    <3>1. j - 1 \in 1 .. n - 1 /\ j - 1 > i /\ (j - 1) + 1 = j
      BY <1>1, <2>2
    <3>2. rest[j - 1] = messages[j] /\ ~IsStatus(rest[j - 1])
      BY <1>1, <1>3, <3>1
    <3>3. QED
      BY <3>2
  <2>3. QED
    BY <1>3, <2>1, <2>2 DEF Leads
<1>4. ASSUME \A j \in 1 .. n - 1 : ~IsStatus(rest[j])
      PROVE  \A j \in 1 .. n : j > 1 => ~IsStatus(messages[j])
  <2>1. ASSUME NEW j \in 1 .. n, j > 1 PROVE ~IsStatus(messages[j])
    <3>1. j - 1 \in 1 .. n - 1 /\ (j - 1) + 1 = j
      BY <1>1, <2>1
    <3>2. rest[j - 1] = messages[j]
      BY <1>1, <3>1
    <3>3. QED
      BY <1>4, <3>1, <3>2
  <2>2. QED
    BY <2>1
<1>5. CASE IsStatus(messages[1])
  <2>1. (\A j \in 1 .. n - 1 : ~IsStatus(rest[j])) => messages[1].connected = link
    BY <1>2, <1>4, <1>5 DEF Leads
  <2>2. Leads(rest, messages[1].connected, link)
    BY <1>1, <1>3, <2>1 DEF Leads
  <2>3. QED
    BY <1>1, <1>5, <2>2 DEF rest
<1>6. CASE ~IsStatus(messages[1])
  <2>1. (\A j \in 1 .. n - 1 : ~IsStatus(rest[j])) => shown = link
    <3>1. \A j \in 1 .. n : j = 1 \/ j > 1
      BY <1>1
    <3>2. QED
      BY <1>4, <1>6, <3>1 DEF Leads
  <2>2. Leads(rest, shown, link)
    BY <1>1, <1>3, <2>1 DEF Leads
  <2>3. QED
    BY <1>1, <1>6, <2>2 DEF rest
<1>7. QED
  BY <1>5, <1>6

(* A broadcast appends to what is on the way to the open sockets.          *)
LEMMA BroadcastFacts ==
  ASSUME PanelTypes, NEW message \in Messages, Broadcast(message)
  PROVE  /\ toPage' \in [Pages -> Seq(Messages)]
         /\ \A p \in Pages :
              /\ toPage'[p] = IF socket[p] = "open" THEN Append(toPage[p], message)
                              ELSE toPage[p]
              /\ \A i \in 1 .. Len(toPage'[p]) :
                   \/ i \in 1 .. Len(toPage[p]) /\ toPage'[p][i] = toPage[p][i]
                   \/ toPage'[p][i] = message
<1>1. /\ \A p \in Pages : toPage[p] \in Seq(Messages) /\ Append(toPage[p], message) \in Seq(Messages)
      /\ \A p \in Pages : toPage'[p] = IF socket[p] = "open" THEN Append(toPage[p], message)
                                       ELSE toPage[p]
  BY DEF PanelTypes, Broadcast
<1>2. ASSUME NEW p \in Pages, NEW i \in 1 .. Len(toPage'[p])
      PROVE  \/ i \in 1 .. Len(toPage[p]) /\ toPage'[p][i] = toPage[p][i]
             \/ toPage'[p][i] = message
  <2>1. CASE toPage'[p] = Append(toPage[p], message)
    BY <1>1, <2>1, AppendProperties
  <2>2. CASE toPage'[p] = toPage[p]
    BY <2>2
  <2>3. QED
    BY <1>1, <2>1, <2>2
<1>3. QED
  BY <1>1, <1>2 DEF Broadcast

-----------------------------------------------------------------------------
(* The steps of the server.                                                *)

(* What is true of a message stays true while commands are only added.     *)
LEMMA StillTruthful ==
  ASSUME acknowledged \subseteq acknowledged', Issued \subseteq Issued',
         NEW p, commandState[p] # undefined => commandState'[p] # undefined,
         NEW message, Truthful(p, message)
  PROVE  /\ message.type = "command_ack" => message.id \in acknowledged'
         /\ message.type = "command_error" => message.id \in Issued' /\ commandState'[p] # undefined
BY DEF Truthful

LEMMA AnswersStay ==
  ASSUME AnswersTrue, acknowledged \subseteq acknowledged', Issued \subseteq Issued',
         \A p \in Pages : commandState[p] # undefined => commandState'[p] # undefined,
         \A p \in Pages : \A i \in 1 .. Len(toPage'[p]) :
           \/ \E k \in 1 .. Len(toPage[p]) : toPage'[p][i] = toPage[p][k]
           \/ /\ toPage'[p][i].type = "command_ack" => toPage'[p][i].id \in acknowledged'
              /\ toPage'[p][i].type = "command_error" =>
                   toPage'[p][i].id \in Issued' /\ commandState'[p] # undefined
  PROVE  AnswersTrue'
<1>1. ASSUME NEW p \in Pages, NEW i \in 1 .. Len(toPage'[p])
      PROVE  /\ toPage'[p][i].type = "command_ack" => toPage'[p][i].id \in acknowledged'
             /\ toPage'[p][i].type = "command_error" =>
                  toPage'[p][i].id \in Issued' /\ commandState'[p] # undefined
  <2>1. CASE \E k \in 1 .. Len(toPage[p]) : toPage'[p][i] = toPage[p][k]
    <3>1. PICK k \in 1 .. Len(toPage[p]) : toPage'[p][i] = toPage[p][k]
      BY <2>1
    <3>2. Truthful(p, toPage[p][k])
      BY DEF AnswersTrue
    <3>3. QED
      BY <3>1, <3>2 DEF Truthful
  <2>2. QED
    BY <2>1
<1>2. QED
  BY <1>1 DEF AnswersTrue, Truthful

(* Fewer requests on the way.                                              *)
LEMMA RequestsStay ==
  ASSUME PanelTypes, RequestsNew, NEW d \in [Pages -> {0, 1}],
         \A p \in Pages : \A i \in 1 .. Len(toServer'[p]) :
           i + d[p] \in 1 .. Len(toServer[p])
             /\ toServer'[p][i].id = toServer[p][i + d[p]].id
  PROVE  /\ \A p \in Pages : \A i \in 1 .. Len(toServer'[p]) :
              toServer'[p][i].id \in Issued \ accepted /\ commandState[p] # undefined
         /\ \A p, q \in Pages : \A i \in 1 .. Len(toServer'[p]), j \in 1 .. Len(toServer'[q]) :
              toServer'[p][i].id = toServer'[q][j].id => p = q /\ i = j
<1>1. \A p \in Pages : \A i \in 1 .. Len(toServer'[p]) :
        toServer'[p][i].id \in Issued \ accepted /\ commandState[p] # undefined
  BY DEF RequestsNew
<1>2. ASSUME NEW p \in Pages, NEW q \in Pages,
             NEW i \in 1 .. Len(toServer'[p]), NEW j \in 1 .. Len(toServer'[q]),
             toServer'[p][i].id = toServer'[q][j].id
      PROVE  p = q /\ i = j
  <2>1. p = q /\ i + d[p] = j + d[q]
    <3>1. i + d[p] \in 1 .. Len(toServer[p]) /\ j + d[q] \in 1 .. Len(toServer[q])
      OBVIOUS
    <3>2. toServer[p][i + d[p]].id = toServer[q][j + d[q]].id
      BY <1>2
    <3>3. QED
      BY <3>1, <3>2 DEF RequestsNew
  <2>2. d[p] \in {0, 1} /\ i \in Int /\ j \in Int
    OBVIOUS
  <2>3. QED
    BY <2>1, <2>2
<1>3. QED
  BY <1>1, <1>2

LEMMA RequestTail ==
  ASSUME PanelTypes, NEW p \in Pages, toServer[p] # <<>>,
         toServer' = [toServer EXCEPT ![p] = Tail(toServer[p])]
  PROVE  /\ toServer' \in [Pages -> Seq(Requests)]
         /\ 1 \in 1 .. Len(toServer[p]) /\ Head(toServer[p]) = toServer[p][1]
         /\ toServer[p][1] \in Requests
         /\ \E d \in [Pages -> {0, 1}] :
              /\ d[p] = 1
              /\ \A q \in Pages : \A i \in 1 .. Len(toServer'[q]) :
                   i + d[q] \in 1 .. Len(toServer[q])
                     /\ toServer'[q][i].id = toServer[q][i + d[q]].id
<1>1. toServer[p] \in Seq(Requests) /\ Len(toServer[p]) \in Nat \ {0}
  BY EmptySeq DEF PanelTypes
<1>2. /\ Tail(toServer[p]) \in Seq(Requests) /\ Len(Tail(toServer[p])) = Len(toServer[p]) - 1
      /\ \A i \in 1 .. Len(toServer[p]) - 1 : Tail(toServer[p])[i] = toServer[p][i + 1]
  BY <1>1, HeadTailProperties
<1>3. toServer'[p] = Tail(toServer[p]) /\ \A q \in Pages : q # p => toServer'[q] = toServer[q]
  BY DEF PanelTypes
<1>4. toServer' \in [Pages -> Seq(Requests)]
  BY <1>2 DEF PanelTypes
<1> DEFINE d == [q \in Pages |-> IF q = p THEN 1 ELSE 0]
<1>5. d \in [Pages -> {0, 1}] /\ d[p] = 1 /\ \A q \in Pages : q # p => d[q] = 0
  OBVIOUS
<1> HIDE DEF d
<1>6. ASSUME NEW q \in Pages, NEW i \in 1 .. Len(toServer'[q])
      PROVE  i + d[q] \in 1 .. Len(toServer[q]) /\ toServer'[q][i].id = toServer[q][i + d[q]].id
  <2>1. CASE q = p
    <3>1. toServer'[q] = Tail(toServer[p]) /\ Len(toServer'[q]) = Len(toServer[p]) - 1
      BY <1>2, <1>3, <2>1
    <3>2. i \in 1 .. Len(toServer[p]) - 1 /\ i + 1 \in 1 .. Len(toServer[p])
      BY <1>1, <3>1
    <3>3. toServer'[q][i] = toServer[p][i + 1]
      BY <1>2, <3>1, <3>2
    <3>4. d[q] = 1 /\ toServer[q] = toServer[p]
      BY <1>5, <2>1
    <3>5. QED
      BY <3>2, <3>3, <3>4
  <2>2. CASE q # p
    <3>1. toServer'[q] = toServer[q] /\ d[q] = 0 /\ i + 0 = i
      BY <1>3, <1>5, <2>2
    <3>2. QED
      BY <3>1
  <2>3. QED
    BY <2>1, <2>2
<1>7. 1 \in 1 .. Len(toServer[p]) /\ Head(toServer[p]) = toServer[p][1]
      /\ toServer[p][1] \in Requests
  <2>1. Head(toServer[p]) = toServer[p][1] /\ 1 \in 1 .. Len(toServer[p])
    BY <1>1
  <2>2. QED
    BY <1>1, <2>1, ElementOfSeq
<1>8. QED
  BY <1>4, <1>5, <1>6, <1>7

LEMMA Connection_Panel ==
  ASSUME PanelInv, NEW p \in Pages, Connection(p) PROVE PanelInv'
<1>1. /\ socket' = [socket EXCEPT ![p] = "open"] /\ socket[p] = "closed"
      /\ toPage' = [toPage EXCEPT ![p] = <<Status(connected)>>]
      /\ UNCHANGED <<accepted, pending, acknowledged, connected, issued, toServer,
                     controlConnected, commandState>>
  BY DEF Connection, serviceVars, pageVars
<1>2. PanelTypes /\ connected \in BOOLEAN
  BY DEF PanelInv, PanelTypes
<1>3. /\ Status(connected) \in Messages /\ Status(connected).type = "control_status"
      /\ Status(connected).connected = connected /\ IsStatus(Status(connected))
  BY <1>2, MessagesTyped
<1>4. <<Status(connected)>> \in Seq(Messages) /\ Len(<<Status(connected)>>) = 1
      /\ <<Status(connected)>>[1] = Status(connected)
  BY <1>3
<1>5. /\ toPage'[p] = <<Status(connected)>> /\ socket'[p] = "open"
      /\ \A q \in Pages : q # p => toPage'[q] = toPage[q] /\ socket'[q] = socket[q]
  BY <1>1, <1>2 DEF PanelTypes
<1>6. PanelTypes'
  BY <1>1, <1>2, <1>4 DEF PanelTypes, Issued
<1>7. AnswersTrue'
  <2>1. ASSUME NEW q \in Pages, NEW i \in 1 .. Len(toPage'[q])
        PROVE  \/ \E k \in 1 .. Len(toPage[q]) : toPage'[q][i] = toPage[q][k]
               \/ toPage'[q][i].type = "control_status"
    BY <1>3, <1>4, <1>5
  <2>2. QED
    BY <1>1, <2>1, AnswersStay DEF PanelInv, Issued
<1>8. StatusComing'
  <2>1. Leads(<<Status(connected)>>, controlConnected[p], connected)
    BY <1>3, <1>4 DEF Leads
  <2>2. ASSUME NEW q \in Pages, socket'[q] = "open"
        PROVE  Leads(toPage'[q], controlConnected[q], connected)
    BY <1>5, <2>1, <2>2 DEF PanelInv, StatusComing
  <2>3. QED
    BY <1>1, <2>2 DEF StatusComing
<1>9. ClosedShown'
  BY <1>1, <1>5 DEF PanelInv, ClosedShown
<1>10. RequestsNew' /\ ShowsIssued' /\ ShownAsIssued'
  BY <1>1 DEF PanelInv, RequestsNew, ShowsIssued, ShownAsIssued, Issued
<1>11. QED
  BY <1>6, <1>7, <1>8, <1>9, <1>10 DEF PanelInv

(* A refusal is answered to a page that shows a command.                   *)
LEMMA Refused_Panel ==
  ASSUME PanelInv, NEW p \in Pages, toServer[p] # <<>>,
         toServer' = [toServer EXCEPT ![p] = Tail(toServer[p])],
         toPage' = IF socket[p] = "open" /\ Head(toServer[p]).live
                   THEN [toPage EXCEPT ![p] = Append(toPage[p], Error(Head(toServer[p]).id))]
                   ELSE toPage,
         UNCHANGED <<accepted, pending, acknowledged, connected, issued, socket,
                     controlConnected, commandState>>
  PROVE  PanelInv'
<1> DEFINE id == Head(toServer[p]).id
<1>1. PanelTypes /\ RequestsNew /\ toPage[p] \in Seq(Messages)
  BY DEF PanelInv, PanelTypes
<1>2. /\ toServer' \in [Pages -> Seq(Requests)]
      /\ 1 \in 1 .. Len(toServer[p]) /\ Head(toServer[p]) = toServer[p][1]
      /\ toServer[p][1] \in Requests
  BY <1>1, RequestTail
<1>3. id \in Ids /\ id \in Issued /\ commandState[p] # undefined
  BY <1>1, <1>2 DEF RequestsNew, Requests
<1> HIDE DEF id
<1>4. Error(id) \in Messages /\ ~IsStatus(Error(id)) /\ Error(id).id = id
      /\ Error(id).type = "command_error"
  BY <1>3, MessagesTyped
<1>5. \/ toPage' = toPage
      \/ /\ toPage'[p] = Append(toPage[p], Error(id))
         /\ toPage' \in [Pages -> Seq(Messages)]
         /\ \A q \in Pages : q # p => toPage'[q] = toPage[q]
  <2>1. toPage' = toPage \/ toPage' = [toPage EXCEPT ![p] = Append(toPage[p], Error(id))]
    BY DEF id
  <2>2. Append(toPage[p], Error(id)) \in Seq(Messages)
    BY <1>1, <1>4, AppendProperties
  <2>3. QED
    BY <1>1, <2>1, <2>2 DEF PanelTypes
<1>6. PanelTypes'
  <2>1. toPage' \in [Pages -> Seq(Messages)]
    BY <1>1, <1>5 DEF PanelTypes
  <2>2. QED
    BY <1>1, <1>2, <2>1 DEF PanelTypes, Issued
<1>7. RequestsNew'
  <2>1. PICK d \in [Pages -> {0, 1}] :
          \A q \in Pages : \A i \in 1 .. Len(toServer'[q]) :
            i + d[q] \in 1 .. Len(toServer[q]) /\ toServer'[q][i].id = toServer[q][i + d[q]].id
    BY <1>1, RequestTail
  <2>2. /\ \A q \in Pages : \A i \in 1 .. Len(toServer'[q]) :
             toServer'[q][i].id \in Issued \ accepted /\ commandState[q] # undefined
        /\ \A q, r \in Pages : \A i \in 1 .. Len(toServer'[q]), j \in 1 .. Len(toServer'[r]) :
             toServer'[q][i].id = toServer'[r][j].id => q = r /\ i = j
    BY <1>1, <2>1, RequestsStay
  <2>3. QED
    BY <2>2 DEF RequestsNew, Issued
<1>8. AnswersTrue'
  <2>1. ASSUME NEW q \in Pages, NEW i \in 1 .. Len(toPage'[q])
        PROVE  \/ \E k \in 1 .. Len(toPage[q]) : toPage'[q][i] = toPage[q][k]
               \/ q = p /\ toPage'[q][i] = Error(id)
    <3>1. CASE q = p /\ toPage'[p] = Append(toPage[p], Error(id))
      BY <1>1, <1>4, <3>1, AppendProperties
    <3>2. CASE toPage'[q] = toPage[q]
      BY <3>2
    <3>3. QED
      BY <1>5, <3>1, <3>2
  <2>2. QED
    BY <1>3, <1>4, <2>1, AnswersStay DEF PanelInv, Issued
<1>9. StatusComing'
  <2>1. ASSUME NEW q \in Pages, socket[q] = "open"
        PROVE  Leads(toPage'[q], controlConnected[q], connected)
    <3>1. Leads(toPage[q], controlConnected[q], connected)
      BY <2>1 DEF PanelInv, StatusComing
    <3>2. CASE q = p /\ toPage'[p] = Append(toPage[p], Error(id))
      BY <1>1, <1>4, <3>1, <3>2, AppendsOther
    <3>3. CASE toPage'[q] = toPage[q]
      BY <3>1, <3>3
    <3>4. QED
      BY <1>5, <3>2, <3>3
  <2>2. QED
    BY <2>1 DEF StatusComing
<1>10. ClosedShown' /\ ShowsIssued' /\ ShownAsIssued'
  BY DEF PanelInv, ClosedShown, ShowsIssued, ShownAsIssued, Issued
<1>11. QED
  BY <1>6, <1>7, <1>8, <1>9, <1>10 DEF PanelInv

(* A command is accepted: it was new, and no other copy is on the way.     *)
LEMMA Accepted_Panel ==
  ASSUME PanelInv, NEW p \in Pages, toServer[p] # <<>>,
         toServer' = [toServer EXCEPT ![p] = Tail(toServer[p])],
         accepted' = accepted \cup {Head(toServer[p]).id},
         pending' = pending \cup {Head(toServer[p]).id},
         UNCHANGED <<acknowledged, connected, issued, socket, toPage,
                     controlConnected, commandState>>
  PROVE  PanelInv'
<1>1. PanelTypes /\ RequestsNew
  BY DEF PanelInv
<1>2. /\ toServer' \in [Pages -> Seq(Requests)]
      /\ 1 \in 1 .. Len(toServer[p]) /\ Head(toServer[p]) = toServer[p][1]
  BY <1>1, RequestTail
<1>3. toServer[p][1].id \in Issued
  BY <1>1, <1>2 DEF RequestsNew
<1>4. PanelTypes'
  BY <1>1, <1>2, <1>3 DEF PanelTypes, Issued
<1>5. RequestsNew'
  <2>1. PICK d \in [Pages -> {0, 1}] :
          /\ d[p] = 1
          /\ \A q \in Pages : \A i \in 1 .. Len(toServer'[q]) :
               i + d[q] \in 1 .. Len(toServer[q]) /\ toServer'[q][i].id = toServer[q][i + d[q]].id
    BY <1>1, RequestTail
  <2>2. /\ \A q \in Pages : \A i \in 1 .. Len(toServer'[q]) :
             toServer'[q][i].id \in Issued \ accepted /\ commandState[q] # undefined
        /\ \A q, r \in Pages : \A i \in 1 .. Len(toServer'[q]), j \in 1 .. Len(toServer'[r]) :
             toServer'[q][i].id = toServer'[r][j].id => q = r /\ i = j
    BY <1>1, <2>1, RequestsStay
  <2>3. ASSUME NEW q \in Pages, NEW i \in 1 .. Len(toServer'[q])
        PROVE  toServer'[q][i].id # toServer[p][1].id
    <3>1. i + d[q] \in 1 .. Len(toServer[q]) /\ toServer'[q][i].id = toServer[q][i + d[q]].id
      BY <2>1
    <3>2. ~(q = p /\ i + d[q] = 1)
      BY <2>1
    <3>3. QED
      BY <1>1, <1>2, <3>1, <3>2 DEF RequestsNew
  <2>4. \A q \in Pages : \A i \in 1 .. Len(toServer'[q]) :
          toServer'[q][i].id \in Issued' \ accepted' /\ commandState'[q] # undefined
    <3>1. accepted' = accepted \cup {toServer[p][1].id} /\ Issued' = Issued
      BY <1>2 DEF Issued
    <3>2. TAKE q \in Pages
    <3>3. TAKE i \in 1 .. Len(toServer'[q])
    <3>4. toServer'[q][i].id \in Issued \ accepted /\ commandState[q] # undefined
      BY <2>2
    <3>5. commandState' = commandState
      OBVIOUS
    <3>6. QED
      BY <2>3, <3>1, <3>4, <3>5
  <2>5. QED
    BY <2>2, <2>4 DEF RequestsNew
<1>6. AnswersTrue' /\ StatusComing'
  BY DEF PanelInv, AnswersTrue, Truthful, StatusComing, Issued
<1>7. ClosedShown' /\ ShowsIssued' /\ ShownAsIssued'
  BY DEF PanelInv, ClosedShown, ShowsIssued, ShownAsIssued, Issued
<1>8. QED
  BY <1>4, <1>5, <1>6, <1>7 DEF PanelInv

LEMMA acceptClientMessage_Panel ==
  ASSUME PanelInv, NEW p \in Pages, acceptClientMessage(p) PROVE PanelInv'
<1>1. CASE Accept(Head(toServer[p]).id) /\ UNCHANGED toPage
  BY <1>1, Accepted_Panel DEF acceptClientMessage, Accept, pageVars
<1>2. CASE ~connected /\ UNCHANGED serviceVars
           /\ toPage' = IF socket[p] = "open" /\ Head(toServer[p]).live
                        THEN [toPage EXCEPT ![p] = Append(@, Error(Head(toServer[p]).id))]
                        ELSE toPage
  BY <1>2, Refused_Panel DEF acceptClientMessage, serviceVars, pageVars
<1>3. QED
  BY <1>1, <1>2 DEF acceptClientMessage

LEMMA onAcknowledgement_Panel ==
  ASSUME PanelInv, NEW id \in Ids, onAcknowledgement(id) PROVE PanelInv'
<1>1. /\ id \in pending /\ pending' = pending \ {id}
      /\ acknowledged' = acknowledged \cup {id}
      /\ Broadcast(Ack(id))
      /\ UNCHANGED <<accepted, connected, issued, socket, toServer,
                     controlConnected, commandState>>
  BY DEF onAcknowledgement, Acknowledge, linkVars, pageVars
<1>2. PanelTypes
  BY DEF PanelInv
<1>3. Ack(id) \in Messages /\ ~IsStatus(Ack(id)) /\ Ack(id).type = "command_ack" /\ Ack(id).id = id
  BY MessagesTyped
<1>4. /\ toPage' \in [Pages -> Seq(Messages)]
      /\ \A p \in Pages :
           /\ toPage'[p] = IF socket[p] = "open" THEN Append(toPage[p], Ack(id)) ELSE toPage[p]
           /\ \A i \in 1 .. Len(toPage'[p]) :
                \/ i \in 1 .. Len(toPage[p]) /\ toPage'[p][i] = toPage[p][i]
                \/ toPage'[p][i] = Ack(id)
  BY <1>1, <1>2, <1>3, BroadcastFacts
<1>5. PanelTypes'
  BY <1>1, <1>2, <1>4 DEF PanelTypes, Issued
<1>6. AnswersTrue'
  <2>1. \A p \in Pages : \A i \in 1 .. Len(toPage'[p]) :
          \/ \E k \in 1 .. Len(toPage[p]) : toPage'[p][i] = toPage[p][k]
          \/ toPage'[p][i] = Ack(id)
    BY <1>4
  <2>2. QED
    BY <1>1, <1>3, <2>1, AnswersStay DEF PanelInv, Issued
<1>7. StatusComing'
  <2>1. ASSUME NEW p \in Pages, socket[p] = "open"
        PROVE  Leads(toPage'[p], controlConnected[p], connected)
    <3>1. Leads(toPage[p], controlConnected[p], connected) /\ toPage[p] \in Seq(Messages)
      BY <1>2, <2>1 DEF PanelInv, StatusComing, PanelTypes
    <3>2. QED
      BY <1>3, <1>4, <2>1, <3>1, AppendsOther
  <2>2. QED
    BY <1>1, <2>1 DEF StatusComing
<1>8. RequestsNew' /\ ClosedShown' /\ ShowsIssued' /\ ShownAsIssued'
  BY <1>1 DEF PanelInv, RequestsNew, ClosedShown, ShowsIssued, ShownAsIssued, Issued
<1>9. QED
  BY <1>5, <1>6, <1>7, <1>8 DEF PanelInv

(* The link changes, and every open socket is told.                        *)
LEMMA StatusChanges_Panel ==
  ASSUME PanelInv, NEW up \in BOOLEAN, connected' = up, Broadcast(Status(up)),
         UNCHANGED <<accepted, pending, acknowledged, issued, socket, toServer,
                     controlConnected, commandState>>
  PROVE  PanelInv'
<1>1. PanelTypes
  BY DEF PanelInv
<1>2. Status(up) \in Messages /\ IsStatus(Status(up)) /\ Status(up).type = "control_status"
  BY MessagesTyped
<1>3. /\ toPage' \in [Pages -> Seq(Messages)]
      /\ \A p \in Pages :
           /\ toPage'[p] = IF socket[p] = "open" THEN Append(toPage[p], Status(up)) ELSE toPage[p]
           /\ \A i \in 1 .. Len(toPage'[p]) :
                \/ i \in 1 .. Len(toPage[p]) /\ toPage'[p][i] = toPage[p][i]
                \/ toPage'[p][i] = Status(up)
  BY <1>1, <1>2, BroadcastFacts
<1>4. PanelTypes'
  BY <1>1, <1>3 DEF PanelTypes, Issued
<1>5. AnswersTrue'
  <2>1. \A p \in Pages : \A i \in 1 .. Len(toPage'[p]) :
          \/ \E k \in 1 .. Len(toPage[p]) : toPage'[p][i] = toPage[p][k]
          \/ toPage'[p][i] = Status(up)
    BY <1>3
  <2>2. QED
    BY <1>2, <2>1, AnswersStay DEF PanelInv, Issued
<1>6. StatusComing'
  <2>1. ASSUME NEW p \in Pages, socket[p] = "open"
        PROVE  Leads(toPage'[p], controlConnected[p], up)
    <3>1. toPage[p] \in Seq(Messages)
      BY <1>1 DEF PanelTypes
    <3>2. QED
      BY <1>3, <2>1, <3>1, AppendsStatus
  <2>2. QED
    BY <2>1 DEF StatusComing
<1>7. RequestsNew' /\ ClosedShown' /\ ShowsIssued' /\ ShownAsIssued'
  BY DEF PanelInv, RequestsNew, ClosedShown, ShowsIssued, ShownAsIssued, Issued
<1>8. QED
  BY <1>4, <1>5, <1>6, <1>7 DEF PanelInv

(* What arrives of the messages to a page when the server ends.            *)
LEMMA AppendElements ==
  ASSUME NEW messages \in Seq(Messages), NEW message \in Messages
  PROVE  /\ Append(messages, message) \in Seq(Messages)
         /\ \A i \in 1 .. Len(Append(messages, message)) :
              \/ i \in 1 .. Len(messages) /\ Append(messages, message)[i] = messages[i]
              \/ Append(messages, message)[i] = message
BY AppendProperties

LEMMA ArrivedFacts ==
  ASSUME PanelTypes, NEW p \in Pages, NEW arrived \in MayArrive(p)
  PROVE  /\ arrived \in Seq(Messages)
         /\ \A i \in 1 .. Len(arrived) :
              \/ i \in 1 .. Len(toPage[p]) /\ arrived[i] = toPage[p][i]
              \/ arrived[i] = Status(FALSE)
<1> DEFINE sent == Stopped(p)
<1>1. toPage[p] \in Seq(Messages) /\ Status(FALSE) \in Messages
  BY MessagesTyped DEF PanelTypes
<1>2. /\ sent \in Seq(Messages)
      /\ \A i \in 1 .. Len(sent) :
           \/ i \in 1 .. Len(toPage[p]) /\ sent[i] = toPage[p][i]
           \/ sent[i] = Status(FALSE)
  <2>1. CASE connected
    <3>1. sent = Append(toPage[p], Status(FALSE))
      BY <2>1 DEF Stopped
    <3>2. QED
      BY ONLY <1>1, <3>1, AppendElements
  <2>2. CASE ~connected
    BY <1>1, <2>2 DEF Stopped
  <2>3. QED
    BY <2>1, <2>2
<1>3. CASE arrived = toPage[p]
  BY <1>1, <1>3
<1>4. CASE arrived \in Prefixes(sent)
  <2>1. PICK n \in 0 .. Len(sent) : arrived = SubSeq(sent, 1, n)
    BY <1>4 DEF Prefixes
  <2> HIDE DEF sent
  <2>2. /\ arrived \in Seq(Messages) /\ Len(arrived) = n
        /\ \A i \in 1 .. n : i \in 1 .. Len(sent) /\ arrived[i] = sent[i]
    BY <1>2, <2>1
  <2>3. QED
    BY <1>2, <2>2
<1>5. QED
  BY <1>3, <1>4 DEF MayArrive

LEMMA ServerRestarts_Panel ==
  ASSUME PanelInv, ServerRestarts PROVE PanelInv'
<1>1. /\ pending' = {} /\ connected' = FALSE
      /\ socket' = [p \in Pages |-> IF socket[p] = "closed" THEN "closed" ELSE "broken"]
      /\ toServer' = [p \in Pages |-> <<>>]
      /\ UNCHANGED <<accepted, acknowledged, issued, controlConnected, commandState>>
  BY DEF ServerRestarts, Restart, pageVars
<1>2. PanelTypes
  BY DEF PanelInv
<1>3. PICK arrived \in [Pages -> UNION {MayArrive(p) : p \in Pages}] :
        toPage' = arrived /\ \A p \in Pages : arrived[p] \in MayArrive(p)
  BY DEF ServerRestarts
<1>4. \A p \in Pages :
        /\ toPage'[p] \in Seq(Messages)
        /\ \A i \in 1 .. Len(toPage'[p]) :
             \/ i \in 1 .. Len(toPage[p]) /\ toPage'[p][i] = toPage[p][i]
             \/ toPage'[p][i] = Status(FALSE)
  BY <1>2, <1>3, ArrivedFacts
<1>5. toPage' \in [Pages -> Seq(Messages)]
  BY <1>3, <1>4
<1>6. PanelTypes'
  <2>1. <<>> \in Seq(Requests) /\ toServer' \in [Pages -> Seq(Requests)]
    BY <1>1
  <2>2. socket' \in [Pages -> {"closed", "open", "broken"}]
    BY <1>1
  <2>3. pending' \cup acknowledged' \subseteq accepted'
    BY <1>1, <1>2 DEF PanelTypes
  <2>4. QED
    BY <1>1, <1>2, <1>5, <2>1, <2>2, <2>3 DEF PanelTypes, Issued
<1>7. RequestsNew'
  <2>1. \A p \in Pages : Len(toServer'[p]) = 0
    BY <1>1
  <2>2. QED
    BY <2>1 DEF RequestsNew
<1>8. \A p \in Pages : socket'[p] # "open" /\ (socket'[p] = "closed" => socket[p] = "closed")
  BY <1>1, <1>2 DEF PanelTypes
<1>9. StatusComing' /\ ClosedShown'
  BY <1>1, <1>8 DEF PanelInv, StatusComing, ClosedShown
<1>10. AnswersTrue'
  <2>1. Status(FALSE).type = "control_status"
    BY MessagesTyped
  <2>2. \A p \in Pages : \A i \in 1 .. Len(toPage'[p]) :
          \/ \E k \in 1 .. Len(toPage[p]) : toPage'[p][i] = toPage[p][k]
          \/ toPage'[p][i] = Status(FALSE)
    BY <1>4
  <2>3. QED
    BY <1>1, <2>1, <2>2, AnswersStay DEF PanelInv, Issued
<1>11. ShowsIssued' /\ ShownAsIssued'
  BY <1>1 DEF PanelInv, ShowsIssued, ShownAsIssued, Issued
<1>12. QED
  BY <1>6, <1>7, <1>9, <1>10, <1>11 DEF PanelInv

-----------------------------------------------------------------------------
(* The steps of a socket and of a page.                                    *)
LEMMA SocketBreaks_Panel ==
  ASSUME PanelInv, NEW p \in Pages,
         NEW up \in 0 .. Len(toServer[p]), NEW down \in 0 .. Len(toPage[p]),
         SocketBreaks(p, up, down)
  PROVE  PanelInv'
<1> DEFINE kept == [i \in 1 .. up |-> [toServer[p][i] EXCEPT !.live = FALSE]]
           arrived == SubSeq(toPage[p], 1, down)
<1>1. /\ socket' = [socket EXCEPT ![p] = "broken"]
      /\ toServer' = [toServer EXCEPT ![p] = kept]
      /\ toPage' = [toPage EXCEPT ![p] = arrived]
      /\ UNCHANGED <<accepted, pending, acknowledged, connected, issued,
                     controlConnected, commandState>>
  BY DEF SocketBreaks, serviceVars, pageVars
<1>2. /\ PanelTypes /\ RequestsNew
      /\ toServer[p] \in Seq(Requests) /\ Len(toServer[p]) \in Nat
      /\ toPage[p] \in Seq(Messages) /\ Len(toPage[p]) \in Nat
      /\ up \in Nat /\ down \in Nat /\ up <= Len(toServer[p]) /\ down <= Len(toPage[p])
  BY DEF PanelInv, PanelTypes
<1>3. /\ kept \in Seq(Requests) /\ Len(kept) = up
      /\ \A i \in 1 .. up : i \in 1 .. Len(toServer[p]) /\ kept[i].id = toServer[p][i].id
  <2>1. \A i \in 1 .. up : i \in 1 .. Len(toServer[p]) /\ toServer[p][i] \in Requests
    BY <1>1, <1>2, ElementOfSeq
  <2> DEFINE off(i) == [toServer[p][i] EXCEPT !.live = FALSE]
  <2>2. \A i \in 1 .. up : off(i) \in Requests /\ off(i).id = toServer[p][i].id
    BY <2>1 DEF Requests
  <2>3. kept = [i \in 1 .. up |-> off(i)]
    OBVIOUS
  <2> HIDE DEF off, kept
  <2>4. QED
    BY <2>1, <2>2, <2>3
<1>4. /\ arrived \in Seq(Messages) /\ Len(arrived) = down
      /\ \A i \in 1 .. down : i \in 1 .. Len(toPage[p]) /\ arrived[i] = toPage[p][i]
  BY <1>1, <1>2
<1> HIDE DEF kept, arrived
<1>5. /\ socket'[p] = "broken" /\ toServer'[p] = kept /\ toPage'[p] = arrived
      /\ \A q \in Pages : q # p =>
           socket'[q] = socket[q] /\ toServer'[q] = toServer[q] /\ toPage'[q] = toPage[q]
  BY <1>1, <1>2 DEF PanelTypes
<1>6. PanelTypes'
  <2>1. /\ socket' \in [Pages -> {"closed", "open", "broken"}]
        /\ toServer' \in [Pages -> Seq(Requests)]
        /\ toPage' \in [Pages -> Seq(Messages)]
    BY <1>1, <1>2, <1>3, <1>4 DEF PanelTypes
  <2>2. QED
    BY <1>1, <1>2, <2>1 DEF PanelTypes, Issued
<1>7. RequestsNew'
  <2> DEFINE d == [q \in Pages |-> 0]
  <2>1. d \in [Pages -> {0, 1}] /\ \A q \in Pages : d[q] = 0
    OBVIOUS
  <2> HIDE DEF d
  <2>2. ASSUME NEW q \in Pages, NEW i \in 1 .. Len(toServer'[q])
        PROVE  i + d[q] \in 1 .. Len(toServer[q]) /\ toServer'[q][i].id = toServer[q][i + d[q]].id
    <3>1. i + d[q] = i
      BY <2>1
    <3>2. CASE q = p
      <4>1. toServer'[q] = kept /\ i \in 1 .. up
        BY <1>3, <1>5, <3>2
      <4>2. QED
        BY <1>3, <3>1, <3>2, <4>1
    <3>3. CASE q # p
      <4>1. toServer'[q] = toServer[q]
        BY <1>5, <3>3
      <4>2. QED
        BY <3>1, <4>1
    <3>4. QED
      BY <3>2, <3>3
  <2>3. /\ \A q \in Pages : \A i \in 1 .. Len(toServer'[q]) :
             toServer'[q][i].id \in Issued \ accepted /\ commandState[q] # undefined
        /\ \A q, r \in Pages : \A i \in 1 .. Len(toServer'[q]), j \in 1 .. Len(toServer'[r]) :
             toServer'[q][i].id = toServer'[r][j].id => q = r /\ i = j
    BY <1>2, <2>1, <2>2, RequestsStay
  <2>4. QED
    BY <1>1, <2>3 DEF RequestsNew, Issued
<1>8. AnswersTrue'
  <2>1. ASSUME NEW q \in Pages, NEW i \in 1 .. Len(toPage'[q])
        PROVE  \E k \in 1 .. Len(toPage[q]) : toPage'[q][i] = toPage[q][k]
    <3>1. CASE q = p
      <4>1. toPage'[q] = arrived /\ i \in 1 .. down
        BY <1>4, <1>5, <3>1
      <4>2. QED
        BY <1>4, <3>1, <4>1
    <3>2. CASE q # p
      <4>1. toPage'[q] = toPage[q]
        BY <1>5, <3>2
      <4>2. QED
        BY <4>1
    <3>3. QED
      BY <3>1, <3>2
  <2>2. QED
    BY <1>1, <2>1, AnswersStay DEF PanelInv, Issued
<1>9. StatusComing' /\ ClosedShown'
  <2>1. ASSUME NEW q \in Pages, socket'[q] = "open" \/ socket'[q] = "closed"
        PROVE  socket[q] = socket'[q] /\ toPage'[q] = toPage[q]
    BY <1>5, <2>1
  <2>2. StatusComing'
    BY <1>1, <2>1 DEF PanelInv, StatusComing
  <2>3. ClosedShown'
    BY <1>1, <2>1 DEF PanelInv, ClosedShown
  <2>4. QED
    BY <2>2, <2>3
<1>10. ShowsIssued' /\ ShownAsIssued'
  BY <1>1 DEF PanelInv, ShowsIssued, ShownAsIssued, Issued
<1>11. QED
  BY <1>6, <1>7, <1>8, <1>9, <1>10 DEF PanelInv

LEMMA Close_Panel ==
  ASSUME PanelInv, NEW p \in Pages, Close(p) PROVE PanelInv'
<1>1. /\ socket' = [socket EXCEPT ![p] = "closed"]
      /\ controlConnected' = [controlConnected EXCEPT ![p] = FALSE]
      /\ UNCHANGED <<accepted, pending, acknowledged, connected, issued, toServer, toPage,
                     commandState>>
  BY DEF Close, serviceVars
<1>2. PanelTypes
  BY DEF PanelInv
<1>3. /\ socket'[p] = "closed" /\ controlConnected'[p] = FALSE
      /\ \A q \in Pages : q # p =>
           socket'[q] = socket[q] /\ controlConnected'[q] = controlConnected[q]
  BY <1>1, <1>2 DEF PanelTypes
<1>4. PanelTypes'
  BY <1>1, <1>2 DEF PanelTypes, Issued
<1>5. StatusComing'
  BY <1>1, <1>3 DEF PanelInv, StatusComing
<1>6. ClosedShown'
  BY <1>3 DEF PanelInv, ClosedShown
<1>7. RequestsNew' /\ AnswersTrue' /\ ShowsIssued' /\ ShownAsIssued'
  BY <1>1 DEF PanelInv, RequestsNew, AnswersTrue, Truthful, ShowsIssued, ShownAsIssued, Issued
<1>8. QED
  BY <1>4, <1>5, <1>6, <1>7 DEF PanelInv

LEMMA sendFaultCommand_Panel ==
  ASSUME PanelInv, NEW p \in Pages, NEW fault \in Faults, sendFaultCommand(p, fault)
  PROVE  PanelInv'
<1> DEFINE id == Len(issued) + 1
           request == [id |-> id, live |-> TRUE]
           state == [id |-> id, fault |-> fault, status |-> "pending"]
           n == Len(toServer[p])
<1>1. /\ id \in Ids
      /\ issued' = Append(issued, fault)
      /\ toServer' = IF socket[p] = "open"
                     THEN [toServer EXCEPT ![p] = Append(toServer[p], request)]
                     ELSE toServer
      /\ commandState' = [commandState EXCEPT ![p] = state]
      /\ UNCHANGED <<accepted, pending, acknowledged, connected, socket, toPage, controlConnected>>
  BY DEF sendFaultCommand, serviceVars
<1>2. /\ PanelTypes /\ RequestsNew
      /\ issued \in Seq(Faults) /\ Len(issued) \in Nat
      /\ toServer[p] \in Seq(Requests) /\ n \in Nat
  BY DEF PanelInv, PanelTypes
<1>3. /\ request \in Requests /\ request.id = id
      /\ state \in CommandState /\ state.id = id /\ state.fault = fault
      /\ state.status = "pending"
  BY <1>1 DEF Requests, CommandState
<1> HIDE DEF request, state
<1>4. state # undefined
  BY <1>3, undefinedAssumption
<1>5. /\ issued' \in Seq(Faults) /\ Len(issued') = Len(issued) + 1
      /\ issued'[id] = fault
      /\ \A i \in Issued : issued'[i] = issued[i]
      /\ Issued \subseteq Issued' /\ id \in Issued' /\ id \notin Issued
  BY <1>1, <1>2 DEF Issued
<1>6. /\ commandState'[p] = state
      /\ \A q \in Pages : q # p => commandState'[q] = commandState[q]
  BY <1>1, <1>2 DEF PanelTypes
<1>7. /\ toServer' \in [Pages -> Seq(Requests)]
      /\ \A q \in Pages : q # p => toServer'[q] = toServer[q]
      /\ \/ toServer'[p] = toServer[p]
         \/ toServer'[p] = Append(toServer[p], request)
  <2>1. Append(toServer[p], request) \in Seq(Requests)
    BY <1>2, <1>3, AppendProperties
  <2>2. CASE socket[p] = "open"
    BY <1>1, <1>2, <2>1, <2>2 DEF PanelTypes
  <2>3. CASE socket[p] # "open"
    BY <1>1, <1>2, <2>3 DEF PanelTypes
  <2>4. QED
    BY <2>2, <2>3
<1>8. ASSUME NEW q \in Pages, NEW i \in 1 .. Len(toServer'[q])
      PROVE  \/ i \in 1 .. Len(toServer[q]) /\ toServer'[q][i] = toServer[q][i]
             \/ q = p /\ i = n + 1 /\ toServer'[q][i].id = id
  <2>1. CASE toServer'[q] = toServer[q]
    BY <2>1
  <2>2. CASE q = p /\ toServer'[p] = Append(toServer[p], request)
    <3>1. /\ Len(toServer'[q]) = n + 1 /\ toServer'[q][n + 1] = request
          /\ \A k \in 1 .. n : toServer'[q][k] = toServer[q][k]
      BY <1>2, <1>3, <2>2, AppendProperties
    <3>2. i \in 1 .. n \/ i = n + 1
      BY <1>2, <3>1
    <3>3. QED
      BY <1>3, <2>2, <3>1, <3>2
  <2>3. QED
    BY <1>7, <2>1, <2>2
<1> HIDE DEF id
<1>9. PanelTypes'
  <2>1. commandState' \in [Pages -> CommandState \cup {undefined}]
    BY <1>1, <1>2, <1>3 DEF PanelTypes
  <2>2. accepted' \subseteq Issued'
    BY <1>1, <1>2, <1>5 DEF PanelTypes
  <2>3. QED
    BY <1>1, <1>2, <1>5, <1>7, <2>1, <2>2 DEF PanelTypes
<1>10. RequestsNew'
  <2>1. id \notin accepted
    BY <1>2, <1>5 DEF PanelTypes
  <2>2. ASSUME NEW q \in Pages, NEW i \in 1 .. Len(toServer'[q])
        PROVE  toServer'[q][i].id \in Issued' \ accepted' /\ commandState'[q] # undefined
    <3>1. CASE i \in 1 .. Len(toServer[q]) /\ toServer'[q][i] = toServer[q][i]
      <4>1. toServer[q][i].id \in Issued \ accepted /\ commandState[q] # undefined
        BY <1>2, <3>1 DEF RequestsNew
      <4>2. commandState'[q] # undefined
        BY <1>4, <1>6, <4>1
      <4>3. QED
        BY <1>1, <1>5, <3>1, <4>1, <4>2
    <3>2. CASE q = p /\ toServer'[q][i].id = id
      BY <1>1, <1>4, <1>5, <1>6, <2>1, <3>2
    <3>3. QED
      BY <1>8, <3>1, <3>2
  <2>3. ASSUME NEW q \in Pages, NEW r \in Pages,
               NEW i \in 1 .. Len(toServer'[q]), NEW j \in 1 .. Len(toServer'[r]),
               toServer'[q][i].id = toServer'[r][j].id
        PROVE  q = r /\ i = j
    <3>1. \A t \in Pages : \A k \in 1 .. Len(toServer[t]) : toServer[t][k].id # id
      BY <1>2, <1>5 DEF RequestsNew
    <3>2. /\ \/ i \in 1 .. Len(toServer[q]) /\ toServer'[q][i] = toServer[q][i]
             \/ q = p /\ i = n + 1 /\ toServer'[q][i].id = id
          /\ \/ j \in 1 .. Len(toServer[r]) /\ toServer'[r][j] = toServer[r][j]
             \/ r = p /\ j = n + 1 /\ toServer'[r][j].id = id
      BY <1>8
    <3>3. CASE /\ i \in 1 .. Len(toServer[q]) /\ toServer'[q][i] = toServer[q][i]
               /\ j \in 1 .. Len(toServer[r]) /\ toServer'[r][j] = toServer[r][j]
      <4>1. toServer[q][i].id = toServer[r][j].id
        BY <2>3, <3>3
      <4>2. QED
        BY <1>2, <3>3, <4>1 DEF RequestsNew
    <3>4. CASE q = p /\ r = p /\ i = n + 1 /\ j = n + 1
      BY <3>4
    <3>5. QED
      BY <2>3, <3>1, <3>2, <3>3, <3>4
  <2>4. QED
    BY <2>2, <2>3 DEF RequestsNew
<1>11. AnswersTrue'
  <2>1. \A q \in Pages : commandState[q] # undefined => commandState'[q] # undefined
    BY <1>4, <1>6
  <2>2. QED
    BY <1>1, <1>5, <2>1, AnswersStay DEF PanelInv
<1>12. StatusComing' /\ ClosedShown'
  BY <1>1 DEF PanelInv, StatusComing, ClosedShown
<1>13. ShowsIssued'
  <2>1. ASSUME NEW q \in Pages, commandState'[q] # undefined PROVE commandState'[q].id \in Issued'
    <3>1. CASE q = p
      BY <1>3, <1>5, <1>6, <3>1
    <3>2. CASE q # p
      BY <1>5, <1>6, <2>1, <3>2 DEF PanelInv, ShowsIssued
    <3>3. QED
      BY <3>1, <3>2
  <2>2. QED
    BY <2>1 DEF ShowsIssued
<1>14. ShownAsIssued'
  <2>1. ASSUME NEW q \in Pages, commandState'[q] # undefined, commandState'[q].status # "failed"
        PROVE  /\ issued'[commandState'[q].id] = commandState'[q].fault
               /\ commandState'[q].status = "acknowledged" => commandState'[q].id \in acknowledged'
    <3>1. CASE q = p
      BY <1>3, <1>5, <1>6, <3>1
    <3>2. CASE q # p
      <4>1. commandState'[q] = commandState[q] /\ commandState[q].id \in Issued
        BY <1>6, <2>1, <3>2 DEF PanelInv, ShowsIssued
      <4>2. /\ issued[commandState[q].id] = commandState[q].fault
            /\ commandState[q].status = "acknowledged" => commandState[q].id \in acknowledged
        BY <2>1, <4>1 DEF PanelInv, ShownAsIssued
      <4>3. issued'[commandState[q].id] = issued[commandState[q].id]
        BY <1>5, <4>1
      <4>4. acknowledged' = acknowledged
        BY <1>1
      <4>5. QED
        BY <4>1, <4>2, <4>3, <4>4
    <3>3. QED
      BY <3>1, <3>2
  <2>2. QED
    BY <2>1 DEF ShownAsIssued
<1>15. QED
  BY <1>9, <1>10, <1>11, <1>12, <1>13, <1>14 DEF PanelInv

LEMMA TakesMessage_Panel ==
  ASSUME PanelInv, NEW p \in Pages, TakesMessage(p) PROVE PanelInv'
<1> DEFINE message == Head(toPage[p])
<1>1. /\ toPage[p] # <<>> /\ socket[p] # "closed"
      /\ toPage' = [toPage EXCEPT ![p] = Tail(toPage[p])]
      /\ UNCHANGED <<accepted, pending, acknowledged, connected, issued, socket, toServer>>
  BY DEF TakesMessage, serviceVars, linkVars
<1>2. /\ PanelTypes /\ toPage[p] \in Seq(Messages)
      /\ commandState[p] \in CommandState \cup {undefined}
  BY DEF PanelInv, PanelTypes
<1>3. /\ Tail(toPage[p]) \in Seq(Messages)
      /\ Len(toPage[p]) \in Nat \ {0} /\ Len(Tail(toPage[p])) = Len(toPage[p]) - 1
      /\ \A i \in 1 .. Len(toPage[p]) - 1 : Tail(toPage[p])[i] = toPage[p][i + 1]
      /\ message = toPage[p][1] /\ message \in Messages
  BY <1>1, <1>2, TailMessages
<1>4. Truthful(p, message)
  <2>1. 1 \in 1 .. Len(toPage[p])
    BY <1>3
  <2>2. QED
    BY <1>3, <2>1 DEF PanelInv, AnswersTrue
<1> HIDE DEF message
<1>5. /\ message.type \in {"control_status", "command_ack", "command_error"}
      /\ IsStatus(message) => message.connected \in BOOLEAN
      /\ ~IsStatus(message) => message.id \in Ids
  BY <1>3, MessagesTyped
<1>6. /\ toPage' \in [Pages -> Seq(Messages)] /\ toPage'[p] = Tail(toPage[p])
      /\ \A q \in Pages : q # p => toPage'[q] = toPage[q]
  BY <1>1, <1>2, <1>3 DEF PanelTypes
<1>7. \/ /\ IsStatus(message)
         /\ controlConnected' = [controlConnected EXCEPT ![p] = message.connected]
         /\ commandState' = commandState
      \/ /\ message.type = "command_ack"
         /\ commandState' = [commandState EXCEPT ![p] = ShowAck(p, message.id)]
         /\ controlConnected' = controlConnected
      \/ /\ message.type = "command_error"
         /\ commandState' = [commandState EXCEPT ![p] = ShowError(p, message.id)]
         /\ controlConnected' = controlConnected
  BY DEF TakesMessage, message, IsStatus
<1>8. /\ controlConnected' \in [Pages -> BOOLEAN]
      /\ \A q \in Pages : q # p => controlConnected'[q] = controlConnected[q]
      /\ IsStatus(message) => controlConnected'[p] = message.connected
      /\ ~IsStatus(message) => controlConnected'[p] = controlConnected[p]
  BY <1>2, <1>5, <1>7 DEF PanelTypes, IsStatus
<1>9. /\ commandState'[p] \in CommandState \cup {undefined}
      /\ commandState' \in [Pages -> CommandState \cup {undefined}]
      /\ \A q \in Pages : q # p => commandState'[q] = commandState[q]
      /\ \/ commandState'[p] = commandState[p]
         \/ /\ commandState'[p].id \in acknowledged
            /\ commandState'[p].fault = issued[commandState'[p].id]
            /\ commandState'[p] # undefined
         \/ /\ commandState'[p].id \in Issued /\ commandState'[p].status = "failed"
            /\ commandState'[p] # undefined
  <2>1. CASE commandState' = commandState
    BY <1>2, <2>1 DEF PanelTypes
  <2>2. CASE /\ message.type = "command_ack"
             /\ commandState' = [commandState EXCEPT ![p] = ShowAck(p, message.id)]
    <3>1. message.id \in acknowledged /\ message.id \in Ids /\ message.id \in Issued
      BY <1>2, <1>4, <1>5, <2>2 DEF Truthful, IsStatus, PanelTypes
    <3>2. issued[message.id] \in Faults
      BY <1>2, <3>1, ElementOfSeq DEF PanelTypes, Issued
    <3> DEFINE shown == ShowAck(p, message.id)
    <3>3. shown \in CommandState /\ shown.id = message.id /\ shown.fault = issued[message.id]
      BY <3>1, <3>2 DEF ShowAck, CommandState
    <3> HIDE DEF shown
    <3>4. shown # undefined
      BY <3>3, undefinedAssumption
    <3>5. commandState' = [commandState EXCEPT ![p] = shown]
      BY <2>2 DEF shown
    <3>6. /\ commandState'[p] = shown
          /\ commandState' \in [Pages -> CommandState \cup {undefined}]
          /\ \A q \in Pages : q # p => commandState'[q] = commandState[q]
      BY <1>2, <3>3, <3>5 DEF PanelTypes
    <3>7. QED
      BY <3>1, <3>3, <3>4, <3>6
  <2>3. CASE /\ message.type = "command_error"
             /\ commandState' = [commandState EXCEPT ![p] = ShowError(p, message.id)]
    <3>1. message.id \in Issued /\ message.id \in Ids /\ commandState[p] \in CommandState
      BY <1>2, <1>4, <1>5, <2>3 DEF Truthful, IsStatus
    <3> DEFINE shown == ShowError(p, message.id)
    <3>2. shown = [commandState[p] EXCEPT !.id = message.id, !.status = "failed"]
      BY DEF ShowError
    <3> HIDE DEF shown
    <3>3. shown \in CommandState /\ shown.id = message.id /\ shown.status = "failed"
      <4> DEFINE before == commandState[p]
                 id == message.id
      <4>1. before \in CommandState /\ id \in Ids
        BY <3>1
      <4>2. shown = [before EXCEPT !.id = id, !.status = "failed"]
        BY <3>2
      <4> HIDE DEF before, id
      <4> DEFINE renamed == [before EXCEPT !.id = id]
      <4>3. renamed \in CommandState /\ renamed.id = id
        BY <4>1 DEF CommandState
      <4>4. shown = [renamed EXCEPT !.status = "failed"]
        BY <4>2
      <4> HIDE DEF renamed
      <4>5. shown \in CommandState /\ shown.id = id /\ shown.status = "failed"
        BY <4>3, <4>4 DEF CommandState
      <4>6. QED
        BY <4>5 DEF id
    <3>4. shown # undefined
      BY <3>3, undefinedAssumption
    <3>5. commandState' = [commandState EXCEPT ![p] = shown]
      BY <2>3 DEF shown
    <3>6. /\ commandState'[p] = shown
          /\ commandState' \in [Pages -> CommandState \cup {undefined}]
          /\ \A q \in Pages : q # p => commandState'[q] = commandState[q]
      BY <1>2, <3>3, <3>5 DEF PanelTypes
    <3>7. QED
      BY <3>1, <3>3, <3>4, <3>6
  <2>4. QED
    BY <1>7, <2>1, <2>2, <2>3
<1>10. PanelTypes'
  BY <1>1, <1>2, <1>6, <1>8, <1>9 DEF PanelTypes, Issued
<1>11. \A q \in Pages : commandState[q] # undefined => commandState'[q] # undefined
  BY <1>9
<1>12. RequestsNew'
  <2>1. \A q \in Pages : \A i \in 1 .. Len(toServer[q]) :
          toServer[q][i].id \in Issued \ accepted /\ commandState'[q] # undefined
    BY <1>11 DEF PanelInv, RequestsNew
  <2>2. QED
    BY <1>1, <2>1 DEF PanelInv, RequestsNew, Issued
<1>13. AnswersTrue'
  <2>1. ASSUME NEW q \in Pages, NEW i \in 1 .. Len(toPage'[q])
        PROVE  \E k \in 1 .. Len(toPage[q]) : toPage'[q][i] = toPage[q][k]
    <3>1. CASE q = p
      <4>1. toPage'[q] = Tail(toPage[p]) /\ i \in 1 .. Len(toPage[p]) - 1
        BY <1>3, <1>6, <3>1
      <4>2. i + 1 \in 1 .. Len(toPage[p]) /\ toPage'[q][i] = toPage[p][i + 1]
        BY <1>3, <4>1
      <4>3. QED
        BY <3>1, <4>2
    <3>2. CASE q # p
      <4>1. toPage'[q] = toPage[q]
        BY <1>6, <3>2
      <4>2. QED
        BY <4>1
    <3>3. QED
      BY <3>1, <3>2
  <2>2. QED
    BY <1>1, <1>11, <2>1, AnswersStay DEF PanelInv, Issued
<1>14. StatusComing'
  <2>1. ASSUME NEW q \in Pages, socket[q] = "open"
        PROVE  Leads(toPage'[q], controlConnected'[q], connected)
    <3>1. Leads(toPage[q], controlConnected[q], connected)
      BY <2>1 DEF PanelInv, StatusComing
    <3>2. CASE q = p
      <4>1. /\ IsStatus(message) => Leads(Tail(toPage[p]), message.connected, connected)
            /\ ~IsStatus(message) => Leads(Tail(toPage[p]), controlConnected[p], connected)
        BY <1>1, <1>2, <3>1, <3>2, TakesFirst DEF message
      <4>2. QED
        BY <1>6, <1>8, <3>2, <4>1
    <3>3. CASE q # p
      BY <1>6, <1>8, <3>1, <3>3
    <3>4. QED
      BY <3>2, <3>3
  <2>2. QED
    BY <1>1, <2>1 DEF StatusComing
<1>15. ClosedShown'
  BY <1>1, <1>8 DEF PanelInv, ClosedShown
<1>16. ShowsIssued'
  <2>1. acknowledged \subseteq Issued
    BY <1>2 DEF PanelTypes
  <2>2. ASSUME NEW q \in Pages, commandState'[q] # undefined PROVE commandState'[q].id \in Issued
    BY <1>9, <2>1, <2>2 DEF PanelInv, ShowsIssued
  <2>3. QED
    BY <1>1, <2>2 DEF ShowsIssued, Issued
<1>17. ShownAsIssued'
  <2>1. ASSUME NEW q \in Pages, commandState'[q] # undefined, commandState'[q].status # "failed"
        PROVE  /\ issued[commandState'[q].id] = commandState'[q].fault
               /\ commandState'[q].status = "acknowledged" => commandState'[q].id \in acknowledged
    <3>1. CASE commandState'[q] = commandState[q]
      BY <2>1, <3>1 DEF PanelInv, ShownAsIssued
    <3>2. CASE commandState'[q] # commandState[q]
      BY <1>9, <2>1, <3>2
    <3>3. QED
      BY <3>1, <3>2
  <2>2. QED
    BY <1>1, <2>1 DEF ShownAsIssued
<1>18. QED
  BY <1>10, <1>12, <1>13, <1>14, <1>15, <1>16, <1>17 DEF PanelInv

-----------------------------------------------------------------------------
LEMMA Init_Panel == ASSUME Init PROVE PanelInv
<1>1. /\ accepted = {} /\ pending = {} /\ acknowledged = {} /\ connected = FALSE
      /\ issued = <<>>
      /\ socket = [p \in Pages |-> "closed"]
      /\ toServer = [p \in Pages |-> <<>>] /\ toPage = [p \in Pages |-> <<>>]
      /\ controlConnected = [p \in Pages |-> FALSE]
      /\ commandState = [p \in Pages |-> undefined]
  BY DEF Init, ServiceInit
<1>2. PanelTypes
  <2>1. <<>> \in Seq(Faults) /\ <<>> \in Seq(Requests) /\ <<>> \in Seq(Messages)
    OBVIOUS
  <2>2. /\ toServer \in [Pages -> Seq(Requests)] /\ toPage \in [Pages -> Seq(Messages)]
        /\ socket \in [Pages -> {"closed", "open", "broken"}]
        /\ controlConnected \in [Pages -> BOOLEAN]
        /\ commandState \in [Pages -> CommandState \cup {undefined}]
    BY <1>1, <2>1
  <2>3. QED
    BY <1>1, <2>1, <2>2 DEF PanelTypes
<1>3. \A p \in Pages :
        /\ Len(toServer[p]) = 0 /\ Len(toPage[p]) = 0
        /\ socket[p] = "closed" /\ controlConnected[p] = FALSE
        /\ commandState[p] = undefined
  BY <1>1
<1>4. RequestsNew /\ AnswersTrue
  BY <1>3 DEF RequestsNew, AnswersTrue
<1>5. StatusComing /\ ClosedShown /\ ShowsIssued /\ ShownAsIssued
  BY <1>3 DEF StatusComing, ClosedShown, ShowsIssued, ShownAsIssued
<1>6. QED
  BY <1>2, <1>4, <1>5 DEF PanelInv

LEMMA Next_Panel == ASSUME PanelInv, [Next]_vars PROVE PanelInv'
<1>1. ASSUME NEW p \in Pages,
             \/ Connection(p) \/ acceptClientMessage(p) \/ TakesMessage(p) \/ Close(p)
             \/ \E fault \in Faults : sendFaultCommand(p, fault)
             \/ \E up \in 0 .. Len(toServer[p]), down \in 0 .. Len(toPage[p]) :
                  SocketBreaks(p, up, down)
      PROVE  PanelInv'
  <2>1. CASE \E up \in 0 .. Len(toServer[p]), down \in 0 .. Len(toPage[p]) :
               SocketBreaks(p, up, down)
    BY <2>1, SocketBreaks_Panel
  <2>2. QED
    BY <1>1, <2>1, Connection_Panel, acceptClientMessage_Panel, TakesMessage_Panel,
       Close_Panel, sendFaultCommand_Panel
<1>2. ASSUME NEW id \in Ids, onAcknowledgement(id) PROVE PanelInv'
  BY <1>2, onAcknowledgement_Panel
<1>3. CASE StatusUp
  BY <1>3, StatusChanges_Panel DEF StatusUp, LinkUp, linkVars, pageVars
<1>4. CASE StatusDown
  BY <1>4, StatusChanges_Panel DEF StatusDown, LinkDown, linkVars, pageVars
<1>5. CASE ServerRestarts
  BY <1>5, ServerRestarts_Panel
<1>6. CASE UNCHANGED vars
  <2>1. UNCHANGED <<accepted, pending, acknowledged, connected, issued, socket, toServer, toPage,
                    controlConnected, commandState>>
    BY <1>6 DEF vars, serviceVars, linkVars, pageVars
  <2>2. PanelTypes'
    BY <2>1 DEF PanelInv, PanelTypes, Issued
  <2>3. RequestsNew'
    BY <2>1 DEF PanelInv, RequestsNew, Issued
  <2>4. AnswersTrue'
    BY <2>1 DEF PanelInv, AnswersTrue, Truthful, Issued
  <2>5. StatusComing' /\ ClosedShown' /\ ShowsIssued' /\ ShownAsIssued'
    BY <2>1 DEF PanelInv, StatusComing, ClosedShown, ShowsIssued, ShownAsIssued, Issued
  <2>6. QED
    BY <2>2, <2>3, <2>4, <2>5 DEF PanelInv
<1>7. QED
  BY <1>1, <1>2, <1>3, <1>4, <1>5, <1>6 DEF Next

(***************************************************************************)
(* What is on the way between the pages and the server: new commands, true *)
(* acknowledgements, and the status of the link last.                      *)
(***************************************************************************)
THEOREM PanelInvariant == Spec => []PanelInv
<1>1. Init => PanelInv
  BY Init_Panel
<1>2. PanelInv /\ [Next]_vars => PanelInv'
  BY Next_Panel
<1>3. QED
  BY <1>1, <1>2, PTL DEF Spec, SafetySpec

(* Every variable keeps its type, and no command is accepted twice.        *)
THEOREM PanelTypeOK == Spec => []TypeOK
<1>1. PanelInv => TypeOK
  <2> SUFFICES ASSUME PanelInv PROVE TypeOK
    OBVIOUS
  <2>1. PanelTypes /\ RequestsNew
    BY DEF PanelInv
  <2>2. ASSUME NEW p \in Pages, NEW i \in Ids, i <= Len(toServer[p])
        PROVE  toServer[p][i].id \in 1 .. Len(issued) \ accepted
    <3>1. i \in 1 .. Len(toServer[p])
      BY <2>1, <2>2, IdsAssumption DEF PanelTypes
    <3>2. QED
      BY <2>1, <3>1 DEF RequestsNew, Issued
  <2>3. QED
    BY <2>1, <2>2 DEF TypeOK, PanelTypes, Issued
<1>2. QED
  BY <1>1, PanelInvariant, PTL

(***************************************************************************)
(* A page that has read everything shows the link as it is, and a page     *)
(* without a socket shows it down.                                         *)
(***************************************************************************)
THEOREM PanelStatusShown == Spec => []StatusShown
<1>1. PanelInv => StatusShown
  <2> SUFFICES ASSUME PanelInv, NEW p \in Pages
               PROVE  /\ socket[p] = "open" /\ toPage[p] = <<>> => controlConnected[p] = connected
                      /\ socket[p] = "closed" => ~controlConnected[p]
    BY DEF StatusShown
  <2>1. ASSUME socket[p] = "open", toPage[p] = <<>> PROVE controlConnected[p] = connected
    <3>1. Leads(toPage[p], controlConnected[p], connected)
      BY <2>1 DEF PanelInv, StatusComing
    <3>2. Len(toPage[p]) = 0
      BY <2>1
    <3>3. QED
      BY <3>1, <3>2 DEF Leads
  <2>2. QED
    BY <2>1 DEF PanelInv, ClosedShown
<1>2. QED
  BY <1>1, PanelInvariant, PTL

(***************************************************************************)
(* The command a page shows was about the fault it names, and one shown as *)
(* acknowledged was acknowledged by the simulator.                         *)
(***************************************************************************)
THEOREM PanelShowsAsIssued == Spec => []ShownAsIssued
<1>1. PanelInv => ShownAsIssued
  BY DEF PanelInv
<1>2. QED
  BY <1>1, PanelInvariant, PTL
=============================================================================
