--------------------------- MODULE UdpTransmitter ---------------------------
(***************************************************************************)
(* UdpTransmitter of the generator: the simulation thread (the caller)     *)
(* hands packets to try_send and calls start and stop; a worker thread     *)
(* runs run(), which pops them and hands them to sendto.  The two share    *)
(* the ring of SpscRingBuffer, running_ and the counters.                  *)
(*                                                                         *)
(* A packet is the number of the try_send call that offered it.  The       *)
(* 100-microsecond sleep changes no state and is left out.  A stop() or a  *)
(* start() that finds nothing to do changes no state and has no action.    *)
(***************************************************************************)
EXTENDS SpscRingBuffer

CONSTANT MaxOffers  \* bound on the calls of try_send

ASSUME PacketsAssumption == MaxOffers \in Nat /\ Values = 1 .. MaxOffers

VARIABLES
  running,         \* running_
  runningVisible,  \* the running_ the worker's next acquire load returns
  socketOpen,      \* socket_fd_ >= 0
  startFailed,     \* error_message_ is set
  callerPc,        \* where the caller is inside try_send or stop
  workerPc,        \* where the worker is inside run; "none": not joinable
  offered,         \* number of try_send calls
  queued, queue_dropped, sent, send_errors

counters == <<queued, queue_dropped, sent, send_errors>>
threadVars == <<running, runningVisible, socketOpen, startFailed, callerPc, workerPc>>
udpVars == <<ringVars, threadVars, offered, counters>>

UdpInit ==
  /\ RingInit
  /\ running = FALSE /\ runningVisible = FALSE
  /\ socketOpen = FALSE /\ startFailed = FALSE
  /\ callerPc = "outside" /\ workerPc = "none"
  /\ offered = 0
  /\ queued = 0 /\ queue_dropped = 0 /\ sent = 0 /\ send_errors = 0

-----------------------------------------------------------------------------
(* start() when socket() or inet_pton() fails: the socket is closed again. *)
StartFails ==
  /\ callerPc = "outside" /\ ~running
  /\ startFailed' = TRUE
  /\ UNCHANGED <<ringVars, running, runningVisible, socketOpen, callerPc, workerPc,
                 offered, counters>>

(* start(): everything before the construction of worker_ is ordered       *)
(* before the first step of run().                                         *)
Start ==
  /\ callerPc = "outside" /\ ~running
  /\ socketOpen' = TRUE
  /\ running' = TRUE /\ runningVisible' = TRUE
  /\ workerPc' = "test_running"
  /\ headVisible' = head /\ unorderedWrites' = {}
  /\ UNCHANGED <<producerVars, tail, popPc, popValue, popped, unorderedReads,
                 startFailed, callerPc, offered, counters>>

(* try_send when the transmitter is not running: return false.             *)
TrySendIgnored ==
  /\ callerPc = "outside" /\ ~running
  /\ offered < MaxOffers
  /\ offered' = offered + 1
  /\ UNCHANGED <<ringVars, threadVars, counters>>

TrySendCalls ==
  /\ callerPc = "outside" /\ running
  /\ offered < MaxOffers
  /\ offered' = offered + 1
  /\ callerPc' = "pushing"
  /\ UNCHANGED <<ringVars, running, runningVisible, socketOpen, startFailed, workerPc,
                 counters>>

(* try_push refused the packet.                                            *)
TrySendDrops_Waits ==
  /\ callerPc = "pushing" /\ tailVisible # tail
  /\ TailReachesProducer
  /\ UNCHANGED <<threadVars, offered, counters>>
TrySendDrops ==
  /\ callerPc = "pushing"
  /\ PushRefused
  /\ queue_dropped' = queue_dropped + 1
  /\ callerPc' = "outside"
  /\ UNCHANGED <<running, runningVisible, socketOpen, startFailed, workerPc,
                 offered, queued, sent, send_errors>>

TrySendPushes ==
  /\ callerPc = "pushing"
  /\ PushBegin(offered) \/ PushWrite
  /\ UNCHANGED <<threadVars, offered, counters>>

TrySendPublishes ==
  /\ callerPc = "pushing"
  /\ PushPublish
  /\ callerPc' = "count_queued"
  /\ UNCHANGED <<running, runningVisible, socketOpen, startFailed, workerPc,
                 offered, counters>>

(* queued_ is incremented after the worker can already see the packet.     *)
TrySendCounts ==
  /\ callerPc = "count_queued"
  /\ queued' = queued + 1
  /\ callerPc' = "outside"
  /\ UNCHANGED <<ringVars, running, runningVisible, socketOpen, startFailed, workerPc,
                 offered, queue_dropped, sent, send_errors>>

(* stop(): running_.store(false), then wait in join().                     *)
StopBegins_ClosesFirst ==
  /\ callerPc = "outside" /\ workerPc # "none"
  /\ running' = FALSE
  /\ socketOpen' = FALSE
  /\ callerPc' = "joining"
  /\ UNCHANGED <<ringVars, runningVisible, startFailed, workerPc, offered, counters>>

StopBegins ==
  /\ callerPc = "outside" /\ workerPc # "none"
  /\ running' = FALSE
  /\ callerPc' = "joining"
  /\ UNCHANGED <<ringVars, runningVisible, socketOpen, startFailed, workerPc,
                 offered, counters>>

(* join() returns: all the worker did is ordered before; close the socket. *)
StopReturns ==
  /\ callerPc = "joining" /\ workerPc = "exited"
  /\ workerPc' = "none"
  /\ socketOpen' = FALSE
  /\ callerPc' = "outside"
  /\ tailVisible' = tail /\ unorderedReads' = {}
  /\ UNCHANGED <<storage, head, pushPc, pushValue, consumerVars, unorderedWrites,
                 running, runningVisible, startFailed, offered, counters>>

-----------------------------------------------------------------------------
(* running_.load(acquire) in the loop condition of run().  Reading the     *)
(* false of stop() orders every earlier push before it, so the head_ the   *)
(* worker reads next is the last one.                                      *)
TestRunning_Relaxed ==
  /\ workerPc = "test_running"
  /\ workerPc' = IF runningVisible THEN "pop" ELSE "test_empty"
  /\ UNCHANGED <<ringVars, running, runningVisible, socketOpen, startFailed, callerPc,
                 offered, counters>>

TestRunning ==
  /\ workerPc = "test_running"
  /\ workerPc' = IF runningVisible THEN "pop" ELSE "test_empty"
  /\ headVisible' = IF runningVisible THEN headVisible ELSE head
  /\ UNCHANGED <<producerVars, tail, popPc, popValue, popped, unorderedWrites,
                 unorderedReads, running, runningVisible, socketOpen, startFailed,
                 callerPc, offered, counters>>

(* || !queue_.empty()                                                      *)
TestEmpty_Skipped ==
  /\ workerPc = "test_empty"
  /\ workerPc' = "exited"
  /\ UNCHANGED <<ringVars, running, runningVisible, socketOpen, startFailed,
                 callerPc, offered, counters>>

TestEmpty_NeverLeaves ==
  /\ workerPc = "test_empty"
  /\ workerPc' = "pop"
  /\ UNCHANGED <<ringVars, running, runningVisible, socketOpen, startFailed,
                 callerPc, offered, counters>>

TestEmpty ==
  /\ workerPc = "test_empty"
  /\ AcquireHead
  /\ workerPc' = IF empty THEN "exited" ELSE "pop"
  /\ UNCHANGED <<producerVars, consumerVars, unorderedReads, running, runningVisible,
                 socketOpen, startFailed, callerPc, offered, counters>>

(* try_pop() returned nullopt: sleep and test again.                       *)
PopsNothing ==
  /\ workerPc = "pop"
  /\ PopNothing
  /\ workerPc' = "test_running"
  /\ UNCHANGED <<running, runningVisible, socketOpen, startFailed, callerPc,
                 offered, counters>>

Pops ==
  /\ workerPc = "pop"
  /\ PopBegin \/ PopRead
  /\ UNCHANGED <<threadVars, offered, counters>>

PopReturns ==
  /\ workerPc = "pop"
  /\ PopRelease
  /\ workerPc' = "send"
  /\ UNCHANGED <<running, runningVisible, socketOpen, startFailed, callerPc,
                 offered, counters>>

(* sendto() took the whole packet, or did not.                             *)
Sends ==
  /\ workerPc = "send"
  /\ \/ sent' = sent + 1 /\ UNCHANGED send_errors
     \/ send_errors' = send_errors + 1 /\ UNCHANGED sent
  /\ workerPc' = "test_running"
  /\ UNCHANGED <<ringVars, running, runningVisible, socketOpen, startFailed, callerPc,
                 offered, queued, queue_dropped>>

(* The store of stop() to running_ reaches the worker.                     *)
RunningReachesWorker ==
  /\ workerPc # "none"
  /\ runningVisible # running
  /\ runningVisible' = running
  /\ UNCHANGED <<ringVars, running, socketOpen, startFailed, callerPc, workerPc,
                 offered, counters>>

IndexReachesThread ==
  /\ Memory
  /\ UNCHANGED <<threadVars, offered, counters>>

-----------------------------------------------------------------------------
CallerFinishes ==
  \/ TrySendDrops \/ TrySendPushes \/ TrySendPublishes \/ TrySendCounts
  \/ StopReturns
CallerCalls == StartFails \/ Start \/ TrySendIgnored \/ TrySendCalls \/ StopBegins
Worker == TestRunning \/ TestEmpty \/ PopsNothing \/ Pops \/ PopReturns \/ Sends
Visibility == RunningReachesWorker \/ IndexReachesThread

UdpNext == CallerCalls \/ CallerFinishes \/ Worker \/ Visibility

(***************************************************************************)
(* Both threads are scheduled and stores become visible, but nothing makes *)
(* the caller call.                                                        *)
(***************************************************************************)
UdpSafetySpec == UdpInit /\ [][UdpNext]_udpVars
UdpSpec ==
  /\ UdpSafetySpec
  /\ WF_udpVars(CallerFinishes)
  /\ WF_udpVars(Worker)
  /\ WF_udpVars(RunningReachesWorker)
  /\ WF_udpVars(IndexReachesThread)

-----------------------------------------------------------------------------
UdpTypeOK ==
  /\ RingTypeOK
  /\ running \in BOOLEAN /\ runningVisible \in BOOLEAN
  /\ socketOpen \in BOOLEAN /\ startFailed \in BOOLEAN
  /\ callerPc \in {"outside", "pushing", "count_queued", "joining"}
  /\ workerPc \in {"none", "test_running", "test_empty", "pop", "send", "exited"}
  /\ offered \in 0 .. MaxOffers
  /\ queued \in Nat /\ queue_dropped \in Nat /\ sent \in Nat /\ send_errors \in Nat

InFlight ==
  Dist(tail, head) + (IF workerPc = "send" THEN 1 ELSE 0)

(***************************************************************************)
(* No packet is lost or counted twice between the two threads: the packets *)
(* published are those handed to sendto, the one the worker holds and      *)
(* those in the ring.  queued_ trails by one while try_send is between its *)
(* release store and its fetch_add.                                        *)
(***************************************************************************)
Conservation ==
  sent + send_errors + InFlight
    = queued + (IF callerPc = "count_queued" THEN 1 ELSE 0)

(***************************************************************************)
(* How many packets wait, told from the counters and not from the ring:    *)
(* those try_push has taken, less those try_pop has given back.            *)
(***************************************************************************)
Waiting ==
  (queued + (IF callerPc = "count_queued" THEN 1 ELSE 0))
    - (sent + send_errors + (IF workerPc = "send" THEN 1 ELSE 0))

(***************************************************************************)
(* "Capacity is the number of usable elements" (spsc_ring_buffer.hpp), of  *)
(* the packets: try_send counts a drop only when Capacity packets wait,    *)
(* those included that the worker has taken since the caller last read     *)
(* tail_; the worker finds the queue empty only when no packet waits but   *)
(* those published since it last read head_; and never do more than        *)
(* Capacity wait.                                                          *)
(***************************************************************************)
UsableCapacity ==
  [][/\ queue_dropped' # queue_dropped => Waiting + Dist(tailVisible, tail) = Capacity
     /\ workerPc = "pop" /\ workerPc' = "test_running"
          => Waiting = Dist(headVisible, head)
     /\ Waiting' <= Capacity]_udpVars

(***************************************************************************)
(* run() drains the queue: once stop() has returned the ring is empty and  *)
(* every queued packet was handed to sendto, though the worker may have    *)
(* read old values of running_ and head_ to the end.  The summary main()   *)
(* prints relies on it.                                                    *)
(***************************************************************************)
DrainedWhenStopped ==
  workerPc = "none" => tail = head /\ queued = sent + send_errors

(***************************************************************************)
(* While a worker exists the socket it sends on is open: stop() closes it  *)
(* only after join().                                                      *)
(***************************************************************************)
SocketOutlivesWorker == workerPc # "none" => socketOpen

(***************************************************************************)
(* The inductive invariant.  A worker exists exactly from start() to the   *)
(* end of stop(); it passes the test of running_ only after stop() cleared *)
(* it, and from then on head_ does not move and the worker sees it.        *)
(***************************************************************************)
CallerShape ==
  /\ pushPc # "idle" => callerPc = "pushing"
  /\ callerPc = "pushing" => offered \in Values
  /\ callerPc \in {"pushing", "count_queued"} => running
  /\ callerPc = "joining" => ~running /\ workerPc # "none"
  /\ running => runningVisible /\ workerPc \notin {"none", "exited"}
  /\ (callerPc = "outside" /\ ~running) => workerPc = "none"

WorkerShape ==
  /\ popPc # "idle" => workerPc = "pop"
  /\ workerPc = "test_empty" => ~running /\ headVisible = head
  /\ workerPc \in {"none", "exited"} => ~running /\ tail = head

UdpInv ==
  /\ UdpTypeOK
  /\ RingInv
  /\ CallerShape
  /\ WorkerShape
  /\ Conservation
  /\ SocketOutlivesWorker

(***************************************************************************)
(* The worker hands packets to sendto in the order they were offered, each *)
(* at most once, across any number of stop() and start().                  *)
(***************************************************************************)
SendsInOrder ==
  [][workerPc # "send" /\ workerPc' = "send"
       => popped' \in Values /\ (popped # NoValue => popped' > popped)]_udpVars

(***************************************************************************)
(* What SendsInOrder rests on: the packet sent last, the queue and the     *)
(* packet being offered form an increasing sequence.                       *)
(***************************************************************************)
Ordered ==
  /\ \A i, j \in 1 .. Len(Contents) : i < j => Contents[i] < Contents[j]
  /\ \A i \in 1 .. Len(Contents) : Contents[i] <= offered
  /\ callerPc = "pushing" => \A i \in 1 .. Len(Contents) : Contents[i] < offered
  /\ pushPc # "idle" => pushValue = offered
  /\ popped # NoValue =>
       /\ \A i \in 1 .. Len(Contents) : popped < Contents[i]
       /\ popped <= offered
       /\ callerPc = "pushing" => popped < offered

(***************************************************************************)
(* stop() returns, and with it join().                                     *)
(***************************************************************************)
StopEventuallyReturns == callerPc = "joining" ~> callerPc = "outside"

(***************************************************************************)
(* A packet try_send accepted is handed to sendto, also when stop() is     *)
(* called right after.                                                     *)
(***************************************************************************)
AcceptedIsSent ==
  \A v \in Values :
    (callerPc = "count_queued" /\ pushValue = v)
      ~> (popped # NoValue /\ popped >= v /\ workerPc # "send")

(***************************************************************************)
(* try_send never waits for the worker: whatever the worker is doing, and  *)
(* however full the ring is, the caller has a next step of its own         *)
(* (generator README: the transmitter "drops new packets and reports the   *)
(* total instead of delaying the simulation").                             *)
(***************************************************************************)
TrySendNeverWaits ==
  callerPc \in {"pushing", "count_queued"} => ENABLED CallerFinishes
=============================================================================
