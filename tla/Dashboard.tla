------------------------------ MODULE Dashboard ------------------------------
(***************************************************************************)
(* The dashboard's useTelemetry hook, its telemetry half: messages of the  *)
(* streaming server fill a list of pending samples, reduced to every       *)
(* stride-th one and to those where the mission phase or the fault flags   *)
(* change; an animation frame hands the list to React; React renders.      *)
(*                                                                         *)
(* flush() gives setSamples an updater function that reads the hook's      *)
(* variable replaceWithHistory when React calls it, and clears that        *)
(* variable before it returns.  React may call the updater at once, when   *)
(* no update of the component is waiting, or during the next render.       *)
(*                                                                         *)
(* The server is represented by what it broadcasts: samples of a flight in *)
(* order with gaps, a reset at each new flight, the history to a client    *)
(* that connects.  Late packets, which the server appends to the history   *)
(* and broadcasts like any other, are left out: TelemetryServer has them.  *)
(***************************************************************************)
EXTENDS Integers, SequencesExt

CONSTANTS
  Phases,            \* the mission phases of a flight in order, ends with LANDED
  stride,            \* of shouldRetainSample
  SECOND,            \* sequence numbers in a second of simulation time
  MAX_CLIENT_SAMPLES,
  historyCapacity,   \* of the server
  undefined,
  descentRate,       \* |truthVelocityMps[2]| at each step of a flight, in m/s;
                     \* all flights of a behaviour fall alike
  UpdaterRuns,       \* when React may call an updater: subset of {"at_once", "at_render"}
  MaxFlights, MaxSteps, MaxUnread, MaxBreaks  \* bounds

ASSUME UpdaterRunsAssumption == UpdaterRuns \subseteq {"at_once", "at_render"}
ASSUME SizesAssumption ==
  {Len(Phases), stride, SECOND, MAX_CLIENT_SAMPLES, historyCapacity} \subseteq Nat \ {0}
ASSUME BoundsAssumption == {MaxFlights, MaxSteps} \subseteq Nat \ {0}
ASSUME descentRateAssumption == descentRate \in [0 .. MaxSteps - 1 -> Nat]

VARIABLES
  flight, step, phase, fault,  \* the simulator: flight, next sequence number,
                               \* mission phase (an index), whether a fault is on
  history,         \* the server's #history
  valid,           \* the server's metrics, of which valid is enough here
  status,          \* status; "disconnected" also means the reconnect timer runs
  inbox,           \* messages on the way to the page
  pending, replaceWithHistory, pendingMetrics, latestSample,
  latestRetainedSample, frame, \* variables of the effect
  updates,         \* updaters React has not called yet, each by its `incoming'
  samples, metrics, lastPacketAt,  \* React state; lastPacketAt: whether it is set
  replaceLost,     \* an updater that was to replace the list was put off, and what
                   \* it should have replaced is still there
  stream,          \* samples the server sent this page since the last replacement
  breaks           \* lost connections so far

serverVars == <<flight, step, phase, fault, history, valid>>
effectVars == <<pending, replaceWithHistory, pendingMetrics, latestSample,
                latestRetainedSample, stream>>
reactVars == <<updates, samples, metrics, lastPacketAt>>
vars == <<serverVars, status, inbox, effectVars, frame, reactVars, replaceLost, breaks>>

LANDED == Len(Phases)
Samples == [flight : 1 .. MaxFlights, step : 0 .. MaxSteps - 1,
            phase : 1 .. LANDED, fault : BOOLEAN]

ASSUME undefinedAssumption == undefined \notin Samples \cup Nat

(* slice(-n)                                                               *)
KeepLast(s, n) == IF Len(s) <= n THEN s ELSE SubSeq(s, Len(s) - n + 1, Len(s))

(* at(-1)                                                                  *)
LastOf(s) == IF s = <<>> THEN undefined ELSE Last(s)

Init ==
  /\ flight = 1 /\ step = 0 /\ phase = 1 /\ fault = FALSE
  /\ history = <<>> /\ valid = 0
  /\ status = "connecting" /\ inbox = <<>>
  /\ pending = <<>> /\ replaceWithHistory = FALSE /\ pendingMetrics = undefined
  /\ latestSample = undefined /\ latestRetainedSample = undefined
  /\ frame = FALSE
  /\ updates = <<>> /\ samples = <<>> /\ metrics = 0 /\ lastPacketAt = FALSE
  /\ replaceLost = FALSE
  /\ stream = <<>>
  /\ breaks = 0

-----------------------------------------------------------------------------
(***************************************************************************)
(* telemetry-utils and mission-events                                      *)
(***************************************************************************)
(* A sample's timestamp is its sequence number in steps.                   *)
startsNewFlight(previous, current) ==
  /\ previous # undefined
  /\ \/ current.step = 0 /\ previous.step # 0
     \/ current.step + SECOND < previous.step

shouldRetainSample_PhasesOnly(previous, current) ==
  \/ previous = undefined
  \/ current.step % stride = 0
  \/ current.phase # previous.phase
  \/ current.phase = LANDED
shouldRetainSample(previous, current) ==
  \/ previous = undefined
  \/ current.step % stride = 0
  \/ current.phase # previous.phase
  \/ current.fault # previous.fault
  \/ current.phase = LANDED

Retain(kept, s) ==
  IF shouldRetainSample(LastOf(kept), s) THEN Append(kept, s) ELSE kept

displaySamples(ss) ==
  LET kept[n \in 0 .. Len(ss)] == IF n = 0 THEN <<>> ELSE Retain(kept[n - 1], ss[n])
      retained == kept[Len(ss)]
  IN IF LastOf(retained) = LastOf(ss) THEN retained ELSE Append(retained, Last(ss))

(* A landing is called after the speed of the sample before it.            *)
TouchdownLabel(previous) ==
  LET touchdownSpeed == descentRate[previous.step]
  IN IF touchdownSpeed <= 3 THEN "SOFT TOUCHDOWN"
     ELSE IF touchdownSpeed <= 8 THEN "HARD LANDING"
     ELSE "VEHICLE IMPACT"

PhaseEvent(previous, s) ==
  [step |-> s.step, event |-> Phases[s.phase],
   label |-> IF s.phase = LANDED THEN TouchdownLabel(previous) ELSE Phases[s.phase]]

FaultEvent(s) ==
  LET change == IF s.fault THEN "ACTIVE" ELSE "CLEARED"
  IN [step |-> s.step, event |-> change, label |-> change]

(* What a sample adds to the log; the first phase has no label.            *)
EventsOf(previous, s) ==
  (IF s.phase # previous.phase /\ s.phase # 1 THEN <<PhaseEvent(previous, s)>> ELSE <<>>)
  \o (IF s.fault # previous.fault THEN <<FaultEvent(s)>> ELSE <<>>)

deriveMissionEvents(ss) ==
  LET events[n \in 0 .. Len(ss)] ==
        IF n <= 1 THEN <<>> ELSE events[n - 1] \o EventsOf(ss[n - 1], ss[n])
  IN events[Len(ss)]

-----------------------------------------------------------------------------
(***************************************************************************)
(* The simulator and the server.                                           *)
(***************************************************************************)
Send(messages) == inbox' = IF status = "connected" THEN inbox \o messages ELSE inbox

Telemetry(sample, count) == [type |-> "telemetry", sample |-> sample, metrics |-> count]

(* The next packet of the flight to arrive; `lost' packets before it did   *)
(* not.  The phase advances at most by one, faults come and go.            *)
SampleArrives(lost, nextPhase, nextFault) ==
  LET sample == [flight |-> flight, step |-> step + lost,
                 phase |-> nextPhase, fault |-> nextFault]
  IN /\ step + lost < MaxSteps
     /\ phase < LANDED /\ nextPhase \in {phase, phase + 1}
     /\ step = 0 => lost = 0
     /\ Len(inbox) < MaxUnread
     /\ step' = step + lost + 1 /\ phase' = nextPhase /\ fault' = nextFault
     /\ history' = KeepLast(Append(history, sample), historyCapacity)
     /\ valid' = valid + 1
     /\ Send(<<Telemetry(sample, valid + 1)>>)
     /\ UNCHANGED <<flight, status, effectVars, frame, reactVars, replaceLost, breaks>>

(* The first packet of a restarted simulator, which the server knows by    *)
(* its number 0 unless the packet before it has that number too.           *)
NewFlightArrives ==
  LET sample == [flight |-> flight + 1, step |-> 0, phase |-> 1, fault |-> FALSE]
      reset == [type |-> "reset", metrics |-> 0]
  IN /\ flight < MaxFlights
     /\ history # <<>> => Last(history).step # 0
     /\ Len(inbox) < MaxUnread
     /\ flight' = flight + 1 /\ step' = 1 /\ phase' = 1 /\ fault' = FALSE
     /\ history' = <<sample>> /\ valid' = 1
     /\ Send((IF history = <<>> THEN <<>> ELSE <<reset>>) \o <<Telemetry(sample, 1)>>)
     /\ UNCHANGED <<status, effectVars, frame, reactVars, replaceLost, breaks>>

(* The server process is started again; every WebSocket closes.            *)
ServerRestarts ==
  /\ breaks < MaxBreaks
  /\ breaks' = breaks + 1
  /\ history' = <<>> /\ valid' = 0
  /\ inbox' = <<>> /\ status' = "disconnected"
  /\ UNCHANGED <<flight, step, phase, fault, effectVars, frame, reactVars, replaceLost>>

-----------------------------------------------------------------------------
(***************************************************************************)
(* The WebSocket.                                                          *)
(***************************************************************************)
(* The timer calls connect().                                              *)
Reconnects ==
  /\ status = "disconnected"
  /\ status' = "connecting"
  /\ UNCHANGED <<serverVars, inbox, effectVars, frame, reactVars, replaceLost, breaks>>

(* "open"; the server has sent the history.                                *)
Opens ==
  /\ status = "connecting"
  /\ status' = "connected"
  /\ inbox' = <<[type |-> "history", samples |-> history, metrics |-> valid]>>
  /\ UNCHANGED <<serverVars, effectVars, frame, reactVars, replaceLost, breaks>>

(* "close", of an open connection or of one that failed to open.  What the *)
(* hook has pending stays.                                                 *)
Closes ==
  /\ status # "disconnected"
  /\ breaks < MaxBreaks
  /\ breaks' = breaks + 1
  /\ status' = "disconnected"
  /\ inbox' = <<>>
  /\ UNCHANGED <<serverVars, effectVars, frame, reactVars, replaceLost>>

-----------------------------------------------------------------------------
(***************************************************************************)
(* The "message" handler.                                                  *)
(***************************************************************************)
TakesHistory(message) ==
  /\ message.type = "history"
  /\ latestSample' = LastOf(message.samples)
  /\ pending' = KeepLast(displaySamples(message.samples), MAX_CLIENT_SAMPLES)
  /\ latestRetainedSample' = LastOf(pending')
  /\ replaceWithHistory' = TRUE
  /\ stream' = message.samples

TakesReset_KeepsPending(message) ==
  /\ message.type = "reset"
  /\ latestSample' = undefined
  /\ latestRetainedSample' = undefined
  /\ replaceWithHistory' = TRUE
  /\ stream' = <<>>
  /\ UNCHANGED pending
TakesReset(message) ==
  /\ message.type = "reset"
  /\ pending' = <<>>
  /\ latestSample' = undefined
  /\ latestRetainedSample' = undefined
  /\ replaceWithHistory' = TRUE
  /\ stream' = <<>>

TakesTelemetry(message) ==
  LET sample == message.sample
      newFlight == startsNewFlight(latestSample, sample)
      before == IF newFlight THEN undefined ELSE latestRetainedSample
      kept == IF newFlight THEN <<>> ELSE pending
  IN /\ message.type = "telemetry"
     /\ replaceWithHistory' = (replaceWithHistory \/ newFlight)
     /\ IF shouldRetainSample(before, sample)
          THEN pending' = Append(kept, sample) /\ latestRetainedSample' = sample
          ELSE pending' = kept /\ latestRetainedSample' = before
     /\ latestSample' = sample
     /\ stream' = Append(IF newFlight THEN <<>> ELSE stream, sample)

HandlesMessage ==
  /\ inbox # <<>>
  /\ LET message == Head(inbox)
     IN /\ TakesHistory(message) \/ TakesReset(message) \/ TakesTelemetry(message)
        /\ pendingMetrics' = message.metrics
  /\ inbox' = Tail(inbox)
  /\ frame' = TRUE
  /\ UNCHANGED <<serverVars, status, reactVars, replaceLost, breaks>>

-----------------------------------------------------------------------------
(***************************************************************************)
(* flush() in the animation frame, and React.                              *)
(***************************************************************************)
(* The updater, applied to the state and to what flush() took.             *)
Updated_Unbounded(current, incoming) ==
  IF replaceWithHistory THEN incoming ELSE current \o incoming
Updated(current, incoming) ==
  KeepLast(IF replaceWithHistory THEN incoming ELSE current \o incoming, MAX_CLIENT_SAMPLES)

(* React picks between the two anew at every call.                         *)
SetSamples(incoming) ==
  \/ /\ "at_once" \in UpdaterRuns /\ updates = <<>>
     /\ samples' = Updated(samples, incoming)
     /\ replaceLost' = (replaceLost /\ ~replaceWithHistory)
     /\ UNCHANGED updates
  \/ /\ "at_render" \in UpdaterRuns
     /\ updates' = Append(updates, incoming)
     /\ replaceLost' = IF replaceWithHistory THEN samples # <<>> \/ updates # <<>>
                       ELSE replaceLost
     /\ UNCHANGED samples

(* A frame with nothing to show but new metrics.                           *)
FlushMetrics ==
  /\ ~replaceWithHistory /\ pending = <<>>
  /\ UNCHANGED <<updates, samples, replaceLost, lastPacketAt, pending, replaceWithHistory>>

FlushSamples_OnlyNew ==
  \/ /\ pending # <<>>
     /\ pending' = <<>>
     /\ SetSamples(pending)
     /\ replaceWithHistory' = FALSE
     /\ lastPacketAt' = TRUE
  \/ /\ replaceWithHistory /\ pending = <<>>
     /\ UNCHANGED <<updates, samples, replaceLost, lastPacketAt, pending, replaceWithHistory>>
FlushSamples ==
  /\ replaceWithHistory \/ pending # <<>>
  /\ pending' = <<>>
  /\ SetSamples(pending)
  /\ replaceWithHistory' = FALSE
  /\ lastPacketAt' = (pending # <<>>)

Flush_KeepsOldMetrics ==
  /\ frame
  /\ frame' = FALSE
  /\ \/ FlushSamples /\ metrics' = pendingMetrics /\ pendingMetrics' = undefined
     \/ FlushMetrics /\ UNCHANGED <<metrics, pendingMetrics>>
  /\ UNCHANGED <<serverVars, status, inbox, latestSample, latestRetainedSample, stream,
                 breaks>>
Flush ==
  /\ frame
  /\ frame' = FALSE
  /\ FlushSamples \/ FlushMetrics
  /\ metrics' = pendingMetrics /\ pendingMetrics' = undefined
  /\ UNCHANGED <<serverVars, status, inbox, latestSample, latestRetainedSample, stream,
                 breaks>>

(* React renders and calls the updaters that wait, in order.               *)
Renders ==
  LET shown[n \in 0 .. Len(updates)] ==
        IF n = 0 THEN samples ELSE Updated(shown[n - 1], updates[n])
  IN /\ updates # <<>>
     /\ samples' = shown[Len(updates)]
     /\ updates' = <<>>
     /\ UNCHANGED <<serverVars, status, inbox, effectVars, frame, metrics, lastPacketAt,
                    replaceLost, breaks>>

Next ==
  \/ \E lost \in 0 .. 1, nextPhase \in 1 .. LANDED, nextFault \in BOOLEAN :
       SampleArrives(lost, nextPhase, nextFault)
  \/ NewFlightArrives \/ ServerRestarts
  \/ Reconnects \/ Opens \/ Closes
  \/ HandlesMessage \/ Flush \/ Renders

Spec == Init /\ [][Next]_vars

-----------------------------------------------------------------------------
(* What the hook keeps has its type: the list shown is cut to              *)
(* MAX_CLIENT_SAMPLES, metrics wait exactly while a frame is scheduled.    *)
(* `pending' has no bound here, nor in the code: only a frame empties it.  *)
TypeOK ==
  /\ history \in Seq(Samples)
  /\ samples \in Seq(Samples) /\ Len(samples) <= MAX_CLIENT_SAMPLES
  /\ pending \in Seq(Samples)
  /\ latestSample \in Samples \cup {undefined}
  /\ status \in {"connecting", "connected", "disconnected"}
  /\ frame = (pendingMetrics # undefined)

(* Everything the server sent has been read, flushed and rendered.         *)
Settled == status = "connected" /\ inbox = <<>> /\ ~frame /\ updates = <<>>

(***************************************************************************)
(* Once settled, the page shows the server's latest metrics, and a packet  *)
(* age exactly when the current flight has a packet.                       *)
(***************************************************************************)
MetricsShown ==
  Settled => metrics = valid /\ (lastPacketAt <=> stream # <<>>)

(***************************************************************************)
(* Reduction loses no transition: once settled, every sample of the        *)
(* current stream that is the first, a stride-th, a landing, or that       *)
(* differs in phase or faults from the sample before it is shown, at the   *)
(* end of the list and in order, unless newer samples fill the list.  It   *)
(* holds even when an updater runs late.                                   *)
(***************************************************************************)
Needed(i) ==
  \/ i = 1
  \/ stream[i].step % stride = 0
  \/ stream[i].phase = LANDED
  \/ stream[i].phase # stream[i - 1].phase
  \/ stream[i].fault # stream[i - 1].fault

TransitionsShown ==
  Settled =>
    \E first \in 1 .. Len(samples) + 1 :
      LET shown == SubSeq(samples, first, Len(samples))
      IN /\ \A i, j \in 1 .. Len(shown) : i < j => shown[i].step < shown[j].step
         /\ Range(shown) \subseteq Range(stream)
         /\ \A i \in 1 .. Len(stream) : Needed(i) =>
              \/ stream[i] \in Range(shown)
              \/ /\ Len(shown) = MAX_CLIENT_SAMPLES
                 /\ stream[i].step < shown[1].step

(* The log but for the labels: what happened, and when.                    *)
Occurrences(log) ==
  [i \in DOMAIN log |-> [step |-> log[i].step, event |-> log[i].event]]

NothingDropped == Len(samples) < MAX_CLIENT_SAMPLES \/ Head(samples) = Head(stream)

(***************************************************************************)
(* Unless a replacing updater came too late the list holds samples of the  *)
(* current stream and nothing else; and unless older ones have been        *)
(* dropped from it, the event log derived from it has the transitions and  *)
(* fault changes of the full stream's log and no others, each at the same  *)
(* sample.  The label of a landing may differ: it is taken from the sample *)
(* before it, which the reduction may have dropped.                        *)
(***************************************************************************)
EventsSurvive ==
  (Settled /\ ~replaceLost) =>
    /\ Range(samples) \subseteq Range(stream)
    /\ NothingDropped =>
         Occurrences(deriveMissionEvents(samples)) = Occurrences(deriveMissionEvents(stream))

(***************************************************************************)
(* "Restart the simulator: graph history, metrics, trajectory, and events  *)
(* reset at the new flight boundary" (docs/demo.md).                       *)
(***************************************************************************)
OneFlightShown ==
  Settled => \A i, j \in 1 .. Len(samples) : samples[i].flight = samples[j].flight
=============================================================================
