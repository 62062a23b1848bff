--------------------------- MODULE DashboardProofs --------------------------
(***************************************************************************)
(* Proofs about Dashboard, for any stride, list and history lengths, and   *)
(* any messages on the way: the page settles on the server's metrics, the  *)
(* list it shows is bounded and loses no transition, and the transitions   *)
(* and fault changes of the event log survive the reduction.               *)
(***************************************************************************)
EXTENDS Dashboard, SequenceTheorems, WellFoundedInduction, TLAPS

Messages ==
  [type : {"history"}, samples : Seq(Samples), metrics : Nat]
    \cup [type : {"reset"}, metrics : Nat]
    \cup [type : {"telemetry"}, sample : Samples, metrics : Nat]

DashboardTypes ==
  /\ flight \in 1 .. MaxFlights /\ step \in 0 .. MaxSteps
  /\ phase \in 1 .. LANDED /\ fault \in BOOLEAN
  /\ history \in Seq(Samples) /\ valid \in Nat
  /\ status \in {"connecting", "connected", "disconnected"}
  /\ inbox \in Seq(Messages)
  /\ pending \in Seq(Samples) /\ replaceWithHistory \in BOOLEAN
  /\ pendingMetrics \in Nat \cup {undefined}
  /\ latestSample \in Samples \cup {undefined}
  /\ latestRetainedSample \in Samples \cup {undefined}
  /\ frame \in BOOLEAN /\ (frame <=> pendingMetrics # undefined)
  /\ updates \in Seq(Seq(Samples))
  /\ samples \in Seq(Samples) /\ Len(samples) <= MAX_CLIENT_SAMPLES
  /\ metrics \in Nat /\ lastPacketAt \in BOOLEAN /\ replaceLost \in BOOLEAN
  /\ stream \in Seq(Samples)

-----------------------------------------------------------------------------
(* Constants and sequences.                                                *)
LEMMA Sizes ==
  /\ LANDED \in Nat \ {0} /\ stride \in Nat \ {0} /\ SECOND \in Nat \ {0}
  /\ MAX_CLIENT_SAMPLES \in Nat \ {0} /\ historyCapacity \in Nat \ {0}
  /\ MaxFlights \in Nat \ {0} /\ MaxSteps \in Nat \ {0}
BY SizesAssumption, BoundsAssumption DEF LANDED

LEMMA SampleFields ==
  ASSUME NEW s \in Samples
  PROVE  /\ s.step \in Nat /\ s.step < MaxSteps /\ s.phase \in 1 .. LANDED
         /\ s.fault \in BOOLEAN /\ s # undefined
<1>1. s.step \in 0 .. MaxSteps - 1 /\ s.phase \in 1 .. LANDED /\ s.fault \in BOOLEAN
  BY DEF Samples
<1>2. s # undefined
  BY undefinedAssumption
<1>3. QED
  BY <1>1, <1>2, Sizes

LEMMA LastFacts ==
  ASSUME NEW s \in Seq(Samples)
  PROVE  /\ s = <<>> => LastOf(s) = undefined
         /\ s # <<>> => /\ LastOf(s) = s[Len(s)] /\ Last(s) = s[Len(s)]
                        /\ Len(s) \in Nat \ {0}
                        /\ LastOf(s) \in Samples /\ LastOf(s) # undefined
<1>1. s # <<>> => Len(s) \in Nat \ {0} /\ s[Len(s)] \in Samples
  BY EmptySeq, ElementOfSeq
<1>2. s # <<>> => s[Len(s)] # undefined
  BY <1>1, SampleFields
<1>3. QED
  BY <1>1, <1>2 DEF LastOf, Last

LEMMA AppendLast ==
  ASSUME NEW s \in Seq(Samples), NEW x \in Samples
  PROVE  LastOf(Append(s, x)) = x /\ Last(Append(s, x)) = x
<1>1. /\ Append(s, x) \in Seq(Samples) /\ Append(s, x) # <<>>
      /\ Append(s, x)[Len(s) + 1] = x /\ Len(Append(s, x)) = Len(s) + 1
  BY AppendProperties
<1> DEFINE t == Append(s, x)
<1> HIDE DEF t
<1>2. t \in Seq(Samples) /\ t # <<>> /\ t[Len(t)] = x
  BY <1>1 DEF t
<1>3. LastOf(t) = x /\ Last(t) = x
  BY <1>2, LastFacts
<1>4. QED
  BY <1>3 DEF t

(* slice(-n) cuts off a part at the front.                                 *)
LEMMA KeepLastFacts ==
  ASSUME NEW T, NEW s \in Seq(T), NEW n \in Nat \ {0}
  PROVE  /\ KeepLast(s, n) \in Seq(T)
         /\ Len(KeepLast(s, n)) = IF Len(s) <= n THEN Len(s) ELSE n
         /\ Len(s) <= n => KeepLast(s, n) = s
         /\ \A i \in 1 .. Len(KeepLast(s, n)) :
              KeepLast(s, n)[i] = s[i + Len(s) - Len(KeepLast(s, n))]
         /\ KeepLast(s, n) = <<>> <=> s = <<>>
<1>1. Len(s) \in Nat
  BY LenProperties
<1>2. CASE Len(s) <= n
  <2>1. KeepLast(s, n) = s
    BY <1>2 DEF KeepLast
  <2>2. \A i \in 1 .. Len(s) : s[i] = s[i + Len(s) - Len(s)]
    BY <1>1
  <2>3. QED
    BY <1>2, <2>1, <2>2
<1>3. CASE Len(s) > n
  <2> DEFINE t == SubSeq(s, Len(s) - n + 1, Len(s))
  <2>1. KeepLast(s, n) = t
    BY <1>1, <1>3 DEF KeepLast
  <2>2. \A i \in Len(s) - n + 1 .. Len(s) : s[i] \in T
    BY <1>1, <1>3, ElementOfSeq
  <2>3. Len(s) - n + 1 \in Int /\ Len(s) \in Int /\ Len(s) - n + 1 <= Len(s)
    BY <1>1, <1>3
  <2>4. /\ t \in Seq(T) /\ Len(t) = Len(s) - (Len(s) - n + 1) + 1
        /\ \A i \in 1 .. Len(s) - (Len(s) - n + 1) + 1 : t[i] = s[Len(s) - n + 1 + i - 1]
    BY <2>2, <2>3, SubSeqProperties
  <2> HIDE DEF t
  <2>5. Len(t) = n /\ \A i \in 1 .. Len(t) : t[i] = s[i + Len(s) - Len(t)]
    BY <1>1, <1>3, <2>4
  <2>6. t # <<>> /\ s # <<>>
    BY <1>1, <1>3, <2>5, EmptySeq
  <2>7. QED
    BY <1>1, <1>3, <2>1, <2>4, <2>5, <2>6
<1>4. QED
  BY <1>1, <1>2, <1>3

-----------------------------------------------------------------------------
(***************************************************************************)
(* Loops over a list.  What a recursive function computes is had by the    *)
(* least counterexample.                                                   *)
(***************************************************************************)
LEMMA SmallestOf ==
  ASSUME NEW T \in SUBSET Nat, T # {}
  PROVE  \E x \in T : \A y \in T : ~(y < x)
<1>1. PICK x \in T : \A y \in T : ~(<<y, x>> \in OpToRel(<, Nat))
  BY NatLessThanWellFounded, WFMin
<1>2. \A y \in T : y < x => <<y, x>> \in OpToRel(<, Nat)
  BY DEF OpToRel
<1>3. QED
  BY <1>1, <1>2

LEMMA Stepwise ==
  ASSUME NEW k \in Nat, NEW T, 0 \in T, \A n \in 1 .. k : n - 1 \in T => n \in T
  PROVE  \A n \in 0 .. k : n \in T
<1> DEFINE Missing == {n \in 0 .. k : n \notin T}
<1> SUFFICES ASSUME Missing # {} PROVE FALSE
  OBVIOUS
<1>1. Missing \in SUBSET Nat
  OBVIOUS
<1> HIDE DEF Missing
<1>2. PICK x \in Missing : \A y \in Missing : ~(y < x)
  BY <1>1, SmallestOf
<1> USE DEF Missing
<1>3. x \in 1 .. k /\ x \notin T
  BY <1>2
<1>4. x - 1 \in 0 .. k /\ x - 1 < x
  BY <1>3
<1>5. x - 1 \in T
  BY <1>2, <1>4
<1>6. QED
  BY <1>3, <1>5

(* A loop whose body is the function G of what it has and of the index.    *)
Loop(f, k, start, G) ==
  f[0] = start /\ \A n \in 1 .. k : f[n] = G[<<f[n - 1], n>>]

LEMMA LoopExists ==
  ASSUME NEW S, NEW start \in S, NEW G \in [S \X Nat -> S], NEW k \in Nat
  PROVE  \E f \in [Nat -> S] : Loop(f, k, start, G)
<1> DEFINE T == {n \in Nat : \E f \in [Nat -> S] : Loop(f, n, start, G)}
<1>1. 0 \in T
  <2> DEFINE f == [n \in Nat |-> start]
  <2>1. f \in [Nat -> S] /\ f[0] = start
    OBVIOUS
  <2> HIDE DEF f
  <2>2. Loop(f, 0, start, G)
    BY <2>1 DEF Loop
  <2>3. QED
    BY <2>1, <2>2
<1>2. ASSUME NEW n \in 1 .. k, n - 1 \in T PROVE n \in T
  <2>1. PICK f \in [Nat -> S] : Loop(f, n - 1, start, G)
    BY <1>2
  <2>2. n \in Nat \ {0} /\ n - 1 \in Nat
    OBVIOUS
  <2> DEFINE last == G[<<f[n - 1], n>>]
             g == [f EXCEPT ![n] = last]
  <2>3. f[n - 1] \in S /\ <<f[n - 1], n>> \in S \X Nat
    BY <2>1, <2>2
  <2>4. last \in S
    BY <2>3
  <2> HIDE DEF last
  <2>5. g \in [Nat -> S] /\ g[n] = last /\ \A i \in Nat : i # n => g[i] = f[i]
    BY <2>2, <2>4
  <2> HIDE DEF g
  <2>6. g[0] = start
    BY <2>1, <2>2, <2>5 DEF Loop
  <2>7. ASSUME NEW i \in 1 .. n PROVE g[i] = G[<<g[i - 1], i>>]
    <3>1. i - 1 \in Nat /\ i - 1 # n /\ g[i - 1] = f[i - 1]
      BY <2>2, <2>5
    <3>2. CASE i = n
      BY <2>5, <3>1, <3>2 DEF last
    <3>3. CASE i # n
      <4>1. i \in 1 .. n - 1 /\ g[i] = f[i]
        BY <2>2, <2>5, <3>3
      <4>2. f[i] = G[<<f[i - 1], i>>]
        BY <2>1, <4>1 DEF Loop
      <4>3. QED
        BY <3>1, <4>1, <4>2
    <3>4. QED
      BY <3>2, <3>3
  <2>8. Loop(g, n, start, G)
    BY <2>6, <2>7 DEF Loop
  <2>9. QED
    BY <2>2, <2>5, <2>8
<1>3. \A n \in 0 .. k : n \in T
  <2> HIDE DEF T
  <2>1. QED
    BY <1>1, <1>2, Stepwise
<1>4. k \in T
  <2> HIDE DEF T
  <2>1. QED
    BY <1>3
<1>5. QED
  BY <1>4

-----------------------------------------------------------------------------
(* The loop of displaySamples.                                             *)
RetainedBy(f, ss) ==
  /\ f \in [Nat -> Seq(Samples)] /\ f[0] = <<>>
  /\ \A n \in 1 .. Len(ss) : f[n] = Retain(f[n - 1], ss[n])

LEMMA RetainType ==
  ASSUME NEW kept \in Seq(Samples), NEW s \in Samples
  PROVE  Retain(kept, s) \in Seq(Samples)
BY DEF Retain

Displayed(retained, ss) ==
  IF LastOf(retained) = LastOf(ss) THEN retained ELSE Append(retained, Last(ss))

LEMMA displaySamplesLoop ==
  ASSUME NEW ss \in Seq(Samples)
  PROVE  \E f : RetainedBy(f, ss) /\ displaySamples(ss) = Displayed(f[Len(ss)], ss)
<1> DEFINE S == Seq(Samples)
           N == Len(ss)
           G == [p \in S \X Nat |-> IF p[2] \in 1 .. N THEN Retain(p[1], ss[p[2]]) ELSE p[1]]
<1>1. N \in Nat /\ <<>> \in S
  OBVIOUS
<1>2. ASSUME NEW p \in S \X Nat
      PROVE  (IF p[2] \in 1 .. N THEN Retain(p[1], ss[p[2]]) ELSE p[1]) \in S
  <2>1. p[1] \in S /\ p[2] \in Nat /\ (p[2] \in 1 .. N => ss[p[2]] \in Samples)
    BY ElementOfSeq
  <2>2. QED
    BY <2>1, RetainType
<1>3. G \in [S \X Nat -> S]
  BY <1>2
<1>4. PICK f \in [Nat -> S] : Loop(f, N, <<>>, G)
  <2> HIDE DEF G, S, N
  <2>1. QED
    BY <1>1, <1>3, LoopExists
<1>5. f[0] = <<>> /\ \A n \in 1 .. N : f[n] = G[<<f[n - 1], n>>]
  BY <1>4 DEF Loop
<1>6. ASSUME NEW n \in 1 .. N PROVE f[n] = Retain(f[n - 1], ss[n])
  <2>1. n \in Nat /\ n - 1 \in Nat /\ f[n - 1] \in S
    BY <1>1, <1>4
  <2>2. G[<<f[n - 1], n>>] = Retain(f[n - 1], ss[n])
    BY <2>1
  <2>3. QED
    BY <1>5, <2>2
<1>7. RetainedBy(f, ss)
  BY <1>4, <1>5, <1>6 DEF RetainedBy
<1> HIDE DEF G
<1> DEFINE h == [n \in 0 .. N |-> f[n]]
           kept[n \in 0 .. N] == IF n = 0 THEN <<>> ELSE Retain(kept[n - 1], ss[n])
<1>8. h = [n \in 0 .. N |-> IF n = 0 THEN <<>> ELSE Retain(h[n - 1], ss[n])]
  <2>1. ASSUME NEW n \in 0 .. N
        PROVE  f[n] = IF n = 0 THEN <<>> ELSE Retain(h[n - 1], ss[n])
    <3>1. CASE n = 0
      BY <1>5, <3>1
    <3>2. CASE n # 0
      <4>1. n \in 1 .. N /\ n - 1 \in 0 .. N
        BY <1>1, <3>2
      <4>2. h[n - 1] = f[n - 1]
        BY <4>1
      <4> HIDE DEF h
      <4>3. QED
        BY <1>6, <3>2, <4>1, <4>2
    <3>3. QED
      BY <3>1, <3>2
  <2>2. QED
    BY <2>1
<1>9. \E g : g = [n \in 0 .. N |-> IF n = 0 THEN <<>> ELSE Retain(g[n - 1], ss[n])]
  <2> HIDE DEF h
  <2>1. QED
    BY <1>8
<1>10. kept = [n \in 0 .. N |-> IF n = 0 THEN <<>> ELSE Retain(kept[n - 1], ss[n])]
  BY <1>9
<1>11. displaySamples(ss) = Displayed(kept[N], ss)
  BY DEF displaySamples, Displayed
<1> HIDE DEF kept, h
<1>12. /\ kept[0] = <<>>
       /\ \A n \in 1 .. N : kept[n] = Retain(kept[n - 1], ss[n])
  <2> HIDE DEF N
  <2>1. 0 \in 0 .. N /\ \A n \in 1 .. N : n \in 0 .. N /\ n # 0
    BY <1>1
  <2>2. \A n \in 0 .. N : kept[n] = IF n = 0 THEN <<>> ELSE Retain(kept[n - 1], ss[n])
    BY <1>10, Zenon
  <2>3. QED
    BY <2>1, <2>2
<1> DEFINE T == {n \in 0 .. N : kept[n] = f[n]}
<1>13. 0 \in T /\ \A n \in 1 .. N : n - 1 \in T => n \in T
  BY <1>1, <1>5, <1>6, <1>12
<1>14. N \in T
  <2> HIDE DEF T, N
  <2>1. \A n \in 0 .. N : n \in T
    BY <1>1, <1>13, Stepwise
  <2>2. QED
    BY <1>1, <2>1
<1>15. QED
  BY <1>7, <1>11, <1>14

-----------------------------------------------------------------------------
(* The loop of deriveMissionEvents.                                        *)
Names == {Phases[i] : i \in 1 .. LANDED} \cup {"ACTIVE", "CLEARED"}
Touchdowns == {"SOFT TOUCHDOWN", "HARD LANDING", "VEHICLE IMPACT"}
Events == [step : Nat, event : Names, label : Names \cup Touchdowns]
Logged(ss, soFar, n) == IF n <= 1 THEN <<>> ELSE soFar \o EventsOf(ss[n - 1], ss[n])
LoggedBy(f, ss) ==
  /\ f \in [Nat -> Seq(Events)] /\ f[0] = <<>>
  /\ \A n \in 1 .. Len(ss) : f[n] = Logged(ss, f[n - 1], n)

LEMMA EventTypes ==
  ASSUME NEW a \in Samples, NEW b \in Samples
  PROVE  PhaseEvent(a, b) \in Events /\ FaultEvent(b) \in Events
<1>1. b.step \in Nat /\ b.phase \in 1 .. LANDED
  BY SampleFields
<1>2. Phases[b.phase] \in Names /\ (IF b.fault THEN "ACTIVE" ELSE "CLEARED") \in Names
  BY <1>1 DEF Names
<1>3. TouchdownLabel(a) \in Touchdowns
  BY DEF TouchdownLabel, Touchdowns
<1> DEFINE change == IF b.fault THEN "ACTIVE" ELSE "CLEARED"
           label == IF b.phase = LANDED THEN TouchdownLabel(a) ELSE Phases[b.phase]
<1>4. change \in Names /\ label \in Names \cup Touchdowns
  BY <1>2, <1>3
<1> HIDE DEF change, label
<1>5. [step |-> b.step, event |-> change, label |-> change] \in Events
  BY <1>1, <1>4 DEF Events
<1>6. [step |-> b.step, event |-> Phases[b.phase], label |-> label] \in Events
  BY <1>1, <1>2, <1>4 DEF Events
<1>7. QED
  BY <1>5, <1>6 DEF PhaseEvent, FaultEvent, change, label

LEMMA EventsOfType ==
  ASSUME NEW a \in Samples, NEW b \in Samples
  PROVE  EventsOf(a, b) \in Seq(Events)
<1>1. PhaseEvent(a, b) \in Events /\ FaultEvent(b) \in Events
  BY EventTypes
<1>2. /\ <<PhaseEvent(a, b)>> \in Seq(Events) /\ <<FaultEvent(b)>> \in Seq(Events)
      /\ <<>> \in Seq(Events)
  BY <1>1
<1>3. QED
  BY <1>2, ConcatProperties DEF EventsOf

(* Two logs of which one is the other's but for labels.                    *)
LEMMA OccurrencesJoined ==
  ASSUME NEW a \in Seq(Events), NEW b \in Seq(Events),
         NEW c \in Seq(Events), NEW d \in Seq(Events),
         Occurrences(a) = Occurrences(b), Occurrences(c) = Occurrences(d)
  PROVE  Occurrences(a \o c) = Occurrences(b \o d)
<1>1. /\ Len(a) \in Nat /\ DOMAIN a = 1 .. Len(a) /\ Len(b) \in Nat /\ DOMAIN b = 1 .. Len(b)
      /\ Len(c) \in Nat /\ DOMAIN c = 1 .. Len(c) /\ Len(d) \in Nat /\ DOMAIN d = 1 .. Len(d)
  BY LenProperties
<1>2. ASSUME NEW e \in Seq(Events), NEW f \in Seq(Events), Occurrences(e) = Occurrences(f)
      PROVE  /\ Len(e) = Len(f)
             /\ \A i \in 1 .. Len(e) : e[i].step = f[i].step /\ e[i].event = f[i].event
  <2>1. /\ Len(e) \in Nat /\ DOMAIN e = 1 .. Len(e)
        /\ Len(f) \in Nat /\ DOMAIN f = 1 .. Len(f)
    BY LenProperties
  <2>2. DOMAIN Occurrences(e) = DOMAIN e /\ DOMAIN Occurrences(f) = DOMAIN f
    BY DEF Occurrences
  <2>3. Len(e) = Len(f)
    <3>1. DOMAIN e = DOMAIN f
      BY <1>2, <2>2
    <3>2. \A m, n \in Nat : 1 .. m = 1 .. n => m = n
      OBVIOUS
    <3>3. QED
      BY <2>1, <3>1, <3>2
  <2>4. ASSUME NEW i \in 1 .. Len(e) PROVE e[i].step = f[i].step /\ e[i].event = f[i].event
    <3>1. /\ Occurrences(e)[i] = [step |-> e[i].step, event |-> e[i].event]
          /\ Occurrences(f)[i] = [step |-> f[i].step, event |-> f[i].event]
      BY <2>1, <2>3 DEF Occurrences
    <3>2. Occurrences(e)[i] = Occurrences(f)[i]
      BY <1>2
    <3>3. /\ Occurrences(e)[i].step = e[i].step /\ Occurrences(e)[i].event = e[i].event
          /\ Occurrences(f)[i].step = f[i].step /\ Occurrences(f)[i].event = f[i].event
      BY <3>1
    <3>4. QED
      BY <3>2, <3>3
  <2>5. QED
    BY <2>3, <2>4
<1>3. /\ Len(a) = Len(b) /\ \A i \in 1 .. Len(a) : a[i].step = b[i].step /\ a[i].event = b[i].event
      /\ Len(c) = Len(d) /\ \A i \in 1 .. Len(c) : c[i].step = d[i].step /\ c[i].event = d[i].event
  BY <1>2
<1> DEFINE m == a \o c
           n == b \o d
<1>4. /\ m \in Seq(Events) /\ Len(m) = Len(a) + Len(c)
      /\ \A i \in 1 .. Len(a) + Len(c) : m[i] = IF i <= Len(a) THEN a[i] ELSE c[i - Len(a)]
      /\ n \in Seq(Events) /\ Len(n) = Len(b) + Len(d)
      /\ \A i \in 1 .. Len(b) + Len(d) : n[i] = IF i <= Len(b) THEN b[i] ELSE d[i - Len(b)]
  BY ConcatProperties
<1> HIDE DEF m, n
<1>5. DOMAIN m = 1 .. Len(a) + Len(c) /\ DOMAIN n = DOMAIN m
  BY <1>3, <1>4, LenProperties
<1>6. ASSUME NEW i \in DOMAIN m PROVE m[i].step = n[i].step /\ m[i].event = n[i].event
  <2>1. CASE i <= Len(a)
    <3>1. i \in 1 .. Len(a) /\ m[i] = a[i] /\ n[i] = b[i]
      BY <1>1, <1>3, <1>4, <1>5, <2>1
    <3>2. QED
      BY <1>3, <3>1
  <2>2. CASE ~(i <= Len(a))
    <3>1. i - Len(a) \in 1 .. Len(c) /\ m[i] = c[i - Len(a)] /\ n[i] = d[i - Len(a)]
      BY <1>1, <1>3, <1>4, <1>5, <2>2
    <3>2. QED
      BY <1>3, <3>1
  <2>3. QED
    BY <2>1, <2>2
<1>7. Occurrences(m) = Occurrences(n)
  BY <1>5, <1>6 DEF Occurrences
<1>8. QED
  BY <1>7 DEF m, n

(* What a sample adds depends on the phase and the faults before it, but   *)
(* for a landing's label.                                                  *)
LEMMA SameOccurrences ==
  ASSUME NEW a \in Samples, NEW b \in Samples, NEW x \in Samples,
         a.phase = b.phase, a.fault = b.fault
  PROVE  Occurrences(EventsOf(a, x)) = Occurrences(EventsOf(b, x))
<1> DEFINE First(p) == IF x.phase # p.phase /\ x.phase # 1 THEN <<PhaseEvent(p, x)>> ELSE <<>>
           Second(p) == IF x.fault # p.fault THEN <<FaultEvent(x)>> ELSE <<>>
<1>1. EventsOf(a, x) = First(a) \o Second(a) /\ EventsOf(b, x) = First(b) \o Second(b)
  BY DEF EventsOf
<1>2. Second(a) = Second(b)
  OBVIOUS
<1>3. Occurrences(First(a)) = Occurrences(First(b))
  <2>1. CASE ~(x.phase # a.phase /\ x.phase # 1)
    <3>1. First(a) = First(b)
      BY <2>1
    <3>2. QED
      BY <3>1
  <2>2. CASE x.phase # a.phase /\ x.phase # 1
    <3>1. First(a) = <<PhaseEvent(a, x)>> /\ First(b) = <<PhaseEvent(b, x)>>
      BY <2>2
    <3>2. /\ PhaseEvent(a, x).step = PhaseEvent(b, x).step
          /\ PhaseEvent(a, x).event = PhaseEvent(b, x).event
      BY DEF PhaseEvent
    <3>3. \A e, f : (e.step = f.step /\ e.event = f.event)
                      => Occurrences(<<e>>) = Occurrences(<<f>>)
      BY DEF Occurrences
    <3>4. QED
      BY <3>1, <3>2, <3>3
  <2>3. QED
    BY <2>1, <2>2
<1>4. ASSUME NEW p \in Samples PROVE First(p) \in Seq(Events) /\ Second(p) \in Seq(Events)
  <2>1. PhaseEvent(p, x) \in Events /\ FaultEvent(x) \in Events
    BY EventTypes
  <2>2. QED
    BY <2>1
<1>5. /\ First(a) \in Seq(Events) /\ First(b) \in Seq(Events)
      /\ Second(a) \in Seq(Events) /\ Second(b) \in Seq(Events)
  BY <1>4
<1> HIDE DEF First, Second
<1>6. QED
  BY <1>1, <1>2, <1>3, <1>5, OccurrencesJoined

LEMMA LoggedType ==
  ASSUME NEW ss \in Seq(Samples), NEW soFar \in Seq(Events), NEW n \in 1 .. Len(ss)
  PROVE  Logged(ss, soFar, n) \in Seq(Events)
<1>1. CASE n <= 1
  BY <1>1 DEF Logged
<1>2. CASE n > 1
  <2>1. Len(ss) \in Nat
    OBVIOUS
  <2>2. n - 1 \in 1 .. Len(ss)
    BY <1>2, <2>1
  <2>3. ss[n - 1] \in Samples /\ ss[n] \in Samples
    BY <2>2, ElementOfSeq
  <2>4. EventsOf(ss[n - 1], ss[n]) \in Seq(Events)
    BY <2>3, EventsOfType
  <2>5. Logged(ss, soFar, n) = soFar \o EventsOf(ss[n - 1], ss[n])
    BY <1>2 DEF Logged
  <2>6. QED
    BY <2>4, <2>5, ConcatProperties
<1>3. QED
  BY <1>1, <1>2

LEMMA deriveMissionEventsLoop ==
  ASSUME NEW ss \in Seq(Samples)
  PROVE  \E f : LoggedBy(f, ss) /\ deriveMissionEvents(ss) = f[Len(ss)]
<1> DEFINE S == Seq(Events)
           N == Len(ss)
           G == [p \in S \X Nat |-> IF p[2] \in 1 .. N THEN Logged(ss, p[1], p[2]) ELSE p[1]]
<1>1. N \in Nat /\ <<>> \in S
  OBVIOUS
<1>2. ASSUME NEW p \in S \X Nat
      PROVE  (IF p[2] \in 1 .. N THEN Logged(ss, p[1], p[2]) ELSE p[1]) \in S
  <2>1. p[1] \in S /\ p[2] \in Nat
    OBVIOUS
  <2>2. QED
    BY <2>1, LoggedType
<1>3. G \in [S \X Nat -> S]
  BY <1>2
<1>4. PICK f \in [Nat -> S] : Loop(f, N, <<>>, G)
  <2> HIDE DEF G, S, N
  <2>1. QED
    BY <1>1, <1>3, LoopExists
<1>5. f[0] = <<>> /\ \A n \in 1 .. N : f[n] = G[<<f[n - 1], n>>]
  BY <1>4 DEF Loop
<1>6. ASSUME NEW n \in 1 .. N PROVE f[n] = Logged(ss, f[n - 1], n)
  <2>1. n \in Nat /\ n - 1 \in Nat /\ f[n - 1] \in S
    BY <1>1, <1>4
  <2>2. G[<<f[n - 1], n>>] = Logged(ss, f[n - 1], n)
    BY <2>1
  <2>3. QED
    BY <1>5, <2>2
<1>7. LoggedBy(f, ss)
  BY <1>4, <1>5, <1>6 DEF LoggedBy
<1> HIDE DEF G
<1> DEFINE body(g, n) == IF n <= 1 THEN <<>> ELSE g[n - 1] \o EventsOf(ss[n - 1], ss[n])
           h == [n \in 0 .. N |-> f[n]]
           events[n \in 0 .. N] ==
             IF n <= 1 THEN <<>> ELSE events[n - 1] \o EventsOf(ss[n - 1], ss[n])
<1>8. h = [n \in 0 .. N |-> body(h, n)]
  <2>1. ASSUME NEW n \in 0 .. N
        PROVE  f[n] = body(h, n)
    <3>1. CASE n = 0
      BY <1>5, <3>1
    <3>2. CASE n # 0
      <4>1. n \in 1 .. N /\ n - 1 \in 0 .. N
        BY <1>1, <3>2
      <4>2. h[n - 1] = f[n - 1]
        BY <4>1
      <4> HIDE DEF h
      <4>3. QED
        BY <1>6, <3>2, <4>1, <4>2 DEF Logged
    <3>3. QED
      BY <3>1, <3>2
  <2> HIDE DEF body
  <2>2. QED
    BY <2>1
<1>9. \E g : g = [n \in 0 .. N |->
                    IF n <= 1 THEN <<>> ELSE g[n - 1] \o EventsOf(ss[n - 1], ss[n])]
  <2> HIDE DEF h
  <2>1. QED
    BY <1>8
<1>10. events = [n \in 0 .. N |->
                   IF n <= 1 THEN <<>> ELSE events[n - 1] \o EventsOf(ss[n - 1], ss[n])]
  BY <1>9
<1>11. deriveMissionEvents(ss) = events[N]
  BY DEF deriveMissionEvents
<1> HIDE DEF events, h
<1>12. /\ events[0] = <<>>
       /\ \A n \in 1 .. N : events[n] = Logged(ss, events[n - 1], n)
  <2> HIDE DEF N
  <2>1. 0 \in 0 .. N /\ 0 <= 1 /\ \A n \in 1 .. N : n \in 0 .. N
    BY <1>1
  <2>2. \A n \in 0 .. N : events[n] = IF n <= 1 THEN <<>>
                                      ELSE events[n - 1] \o EventsOf(ss[n - 1], ss[n])
    BY <1>10, Zenon
  <2>3. QED
    BY <2>1, <2>2 DEF Logged
<1> DEFINE T == {n \in 0 .. N : events[n] = f[n]}
<1>13. 0 \in T /\ \A n \in 1 .. N : n - 1 \in T => n \in T
  BY <1>1, <1>5, <1>6, <1>12
<1>14. N \in T
  <2> HIDE DEF T, N
  <2>1. \A n \in 0 .. N : n \in T
    BY <1>1, <1>13, Stepwise
  <2>2. QED
    BY <1>1, <2>1
<1>15. QED
  BY <1>7, <1>11, <1>14

LEMMA deriveMissionEventsType ==
  ASSUME NEW ss \in Seq(Samples)
  PROVE  deriveMissionEvents(ss) \in Seq(Events)
<1>1. PICK f : LoggedBy(f, ss) /\ deriveMissionEvents(ss) = f[Len(ss)]
  BY deriveMissionEventsLoop
<1>2. Len(ss) \in Nat
  BY LenProperties
<1>3. QED
  BY <1>1, <1>2 DEF LoggedBy

(* What one more sample adds to the log.                                   *)
LEMMA EventsOfShort ==
  ASSUME NEW ss \in Seq(Samples), Len(ss) <= 1
  PROVE  deriveMissionEvents(ss) = <<>>
<1>1. PICK f : LoggedBy(f, ss) /\ deriveMissionEvents(ss) = f[Len(ss)]
  BY deriveMissionEventsLoop
<1>2. Len(ss) \in 0 .. 1
  <2>1. Len(ss) \in Nat
    BY LenProperties
  <2>2. QED
    BY <2>1
<1>3. QED
  BY <1>1, <1>2 DEF LoggedBy, Logged

LEMMA EventsOfAppend ==
  ASSUME NEW ss \in Seq(Samples), ss # <<>>, NEW x \in Samples
  PROVE  deriveMissionEvents(Append(ss, x))
           = deriveMissionEvents(ss) \o EventsOf(Last(ss), x)
<1> DEFINE tt == Append(ss, x)
           N == Len(ss)
<1>1. /\ tt \in Seq(Samples) /\ Len(tt) = N + 1 /\ tt[N + 1] = x
      /\ \A i \in 1 .. N : tt[i] = ss[i]
  BY AppendProperties
<1>2. N \in Nat \ {0} /\ Last(ss) = ss[N]
  BY LastFacts
<1> HIDE DEF tt, N
<1>3. PICK f : LoggedBy(f, ss) /\ deriveMissionEvents(ss) = f[N]
  BY deriveMissionEventsLoop DEF N
<1>4. PICK g : LoggedBy(g, tt) /\ deriveMissionEvents(tt) = g[N + 1]
  BY <1>1, deriveMissionEventsLoop
<1> DEFINE T == {n \in 0 .. N : f[n] = g[n]}
<1>5. 0 \in T
  BY <1>2, <1>3, <1>4 DEF LoggedBy
<1>6. ASSUME NEW n \in 1 .. N, n - 1 \in T PROVE n \in T
  <2>1. f[n] = Logged(ss, f[n - 1], n) /\ g[n] = Logged(tt, g[n - 1], n)
    BY <1>1, <1>2, <1>3, <1>4 DEF LoggedBy, N
  <2>2. tt[n] = ss[n] /\ (n > 1 => tt[n - 1] = ss[n - 1])
    BY <1>1, <1>2
  <2>3. Logged(ss, f[n - 1], n) = Logged(tt, g[n - 1], n)
    BY <1>6, <2>2 DEF Logged
  <2>4. QED
    BY <2>1, <2>3
<1>7. \A n \in 0 .. N : n \in T
  <2> HIDE DEF T
  <2>1. QED
    BY <1>2, <1>5, <1>6, Stepwise
<1>8. f[N] = g[N]
  BY <1>2, <1>7
<1>9. g[N + 1] = Logged(tt, g[N], N + 1)
  BY <1>1, <1>2, <1>4 DEF LoggedBy
<1>10. Logged(tt, g[N], N + 1) = g[N] \o EventsOf(ss[N], x)
  <2>1. ~(N + 1 <= 1) /\ (N + 1) - 1 = N /\ tt[N] = ss[N] /\ tt[N + 1] = x
    BY <1>1, <1>2
  <2>2. QED
    BY <2>1 DEF Logged
<1>11. QED
  BY <1>2, <1>3, <1>4, <1>8, <1>9, <1>10 DEF tt

-----------------------------------------------------------------------------
(* The updaters that wait, as React applies them and without the limit of  *)
(* the list.                                                               *)
ShownBy(f) ==
  /\ f \in [Nat -> Seq(Samples)] /\ f[0] = samples
  /\ \A n \in 1 .. Len(updates) : f[n] = Updated(f[n - 1], updates[n])
JoinedBy(f) ==
  /\ f \in [Nat -> Seq(Samples)] /\ f[0] = samples
  /\ \A n \in 1 .. Len(updates) : f[n] = f[n - 1] \o updates[n]

LEMMA UpdatedType ==
  ASSUME NEW current \in Seq(Samples), NEW incoming \in Seq(Samples)
  PROVE  /\ Updated(current, incoming) \in Seq(Samples)
         /\ Len(Updated(current, incoming)) <= MAX_CLIENT_SAMPLES
<1> DEFINE all == IF replaceWithHistory THEN incoming ELSE current \o incoming
<1>1. all \in Seq(Samples)
  BY ConcatProperties
<1> HIDE DEF all
<1>2. /\ KeepLast(all, MAX_CLIENT_SAMPLES) \in Seq(Samples)
      /\ Len(KeepLast(all, MAX_CLIENT_SAMPLES)) =
           IF Len(all) <= MAX_CLIENT_SAMPLES THEN Len(all) ELSE MAX_CLIENT_SAMPLES
  BY <1>1, Sizes, KeepLastFacts
<1>3. Updated(current, incoming) = KeepLast(all, MAX_CLIENT_SAMPLES)
  BY DEF Updated, all
<1>4. MAX_CLIENT_SAMPLES <= MAX_CLIENT_SAMPLES
  BY Sizes
<1>5. QED
  BY <1>2, <1>3, <1>4

LEMMA JoinedExists ==
  ASSUME samples \in Seq(Samples), updates \in Seq(Seq(Samples))
  PROVE  \E f : JoinedBy(f)
<1> DEFINE S == Seq(Samples)
           N == Len(updates)
           G == [p \in S \X Nat |-> IF p[2] \in 1 .. N THEN p[1] \o updates[p[2]] ELSE p[1]]
<1>1. N \in Nat
  OBVIOUS
<1>2. ASSUME NEW p \in S \X Nat
      PROVE  (IF p[2] \in 1 .. N THEN p[1] \o updates[p[2]] ELSE p[1]) \in S
  <2>1. p[1] \in S /\ p[2] \in Nat /\ (p[2] \in 1 .. N => updates[p[2]] \in S)
    BY ElementOfSeq
  <2>2. QED
    BY <2>1, ConcatProperties
<1>3. G \in [S \X Nat -> S]
  BY <1>2
<1>4. PICK f \in [Nat -> S] : Loop(f, N, samples, G)
  <2> HIDE DEF G, N
  <2>1. QED
    BY <1>1, <1>3, LoopExists
<1>5. f[0] = samples /\ \A n \in 1 .. N : f[n] = G[<<f[n - 1], n>>]
  BY <1>4 DEF Loop
<1>6. ASSUME NEW n \in 1 .. N PROVE f[n] = f[n - 1] \o updates[n]
  <2>1. n \in Nat /\ n - 1 \in Nat /\ f[n - 1] \in S
    BY <1>1, <1>4
  <2>2. G[<<f[n - 1], n>>] = f[n - 1] \o updates[n]
    BY <2>1
  <2>3. QED
    BY <1>5, <2>2
<1>7. JoinedBy(f)
  BY <1>4, <1>5, <1>6 DEF JoinedBy
<1>8. QED
  BY <1>7

LEMMA RendersLoop ==
  ASSUME samples \in Seq(Samples), updates \in Seq(Seq(Samples)), Renders
  PROVE  \E f : ShownBy(f) /\ samples' = f[Len(updates)]
<1> DEFINE S == Seq(Samples)
           N == Len(updates)
           G == [p \in S \X Nat |->
                   IF p[2] \in 1 .. N THEN Updated(p[1], updates[p[2]]) ELSE p[1]]
<1>1. N \in Nat
  OBVIOUS
<1>2. ASSUME NEW p \in S \X Nat
      PROVE  (IF p[2] \in 1 .. N THEN Updated(p[1], updates[p[2]]) ELSE p[1]) \in S
  <2>1. p[1] \in S /\ p[2] \in Nat /\ (p[2] \in 1 .. N => updates[p[2]] \in S)
    BY ElementOfSeq
  <2>2. QED
    BY <2>1, UpdatedType
<1>3. G \in [S \X Nat -> S]
  BY <1>2
<1>4. PICK f \in [Nat -> S] : Loop(f, N, samples, G)
  <2> HIDE DEF G, N
  <2>1. QED
    BY <1>1, <1>3, LoopExists
<1>5. f[0] = samples /\ \A n \in 1 .. N : f[n] = G[<<f[n - 1], n>>]
  BY <1>4 DEF Loop
<1>6. ASSUME NEW n \in 1 .. N PROVE f[n] = Updated(f[n - 1], updates[n])
  <2>1. n \in Nat /\ n - 1 \in Nat /\ f[n - 1] \in S
    BY <1>1, <1>4
  <2>2. G[<<f[n - 1], n>>] = Updated(f[n - 1], updates[n])
    BY <2>1
  <2>3. QED
    BY <1>5, <2>2
<1>7. ShownBy(f)
  BY <1>4, <1>5, <1>6 DEF ShownBy
<1> HIDE DEF G
<1> DEFINE body(g, n) == IF n = 0 THEN samples ELSE Updated(g[n - 1], updates[n])
           h == [n \in 0 .. N |-> f[n]]
           shown[n \in 0 .. N] ==
             IF n = 0 THEN samples ELSE Updated(shown[n - 1], updates[n])
<1>8. h = [n \in 0 .. N |-> body(h, n)]
  <2>1. ASSUME NEW n \in 0 .. N
        PROVE  f[n] = body(h, n)
    <3>1. CASE n = 0
      BY <1>5, <3>1
    <3>2. CASE n # 0
      <4>1. n \in 1 .. N /\ n - 1 \in 0 .. N
        BY <1>1, <3>2
      <4>2. h[n - 1] = f[n - 1]
        BY <4>1
      <4> HIDE DEF h
      <4>3. QED
        BY <1>6, <3>2, <4>1, <4>2
    <3>3. QED
      BY <3>1, <3>2
  <2> HIDE DEF body
  <2>2. QED
    BY <2>1
<1>9. \E g : g = [n \in 0 .. N |->
                    IF n = 0 THEN samples ELSE Updated(g[n - 1], updates[n])]
  <2> HIDE DEF h
  <2>1. QED
    BY <1>8
<1>10. shown = [n \in 0 .. N |->
                  IF n = 0 THEN samples ELSE Updated(shown[n - 1], updates[n])]
  BY <1>9
<1>11. samples' = shown[N]
  BY DEF Renders
<1> HIDE DEF shown, h
<1>12. /\ shown[0] = samples
       /\ \A n \in 1 .. N : shown[n] = Updated(shown[n - 1], updates[n])
  <2> HIDE DEF N
  <2>1. 0 \in 0 .. N /\ \A n \in 1 .. N : n \in 0 .. N /\ n # 0
    BY <1>1
  <2>2. \A n \in 0 .. N : shown[n] = IF n = 0 THEN samples
                                     ELSE Updated(shown[n - 1], updates[n])
    BY <1>10, Zenon
  <2>3. QED
    BY <2>1, <2>2
<1> DEFINE T == {n \in 0 .. N : shown[n] = f[n]}
<1>13. 0 \in T /\ \A n \in 1 .. N : n - 1 \in T => n \in T
  BY <1>1, <1>5, <1>6, <1>12
<1>14. N \in T
  <2> HIDE DEF T, N
  <2>1. \A n \in 0 .. N : n \in T
    BY <1>1, <1>13, Stepwise
  <2>2. QED
    BY <1>1, <2>1
<1>15. QED
  BY <1>7, <1>11, <1>14

-----------------------------------------------------------------------------
(***************************************************************************)
(* A list that reduces a stream of samples: it keeps the samples that are  *)
(* needed, ends in the present phase and faults, and tells the same story. *)
(***************************************************************************)
Increasing(s) == \A i, j \in 1 .. Len(s) : i < j => s[i].step < s[j].step

NeededIn(s, i) ==
  \/ i = 1
  \/ s[i].step % stride = 0
  \/ s[i].phase = LANDED
  \/ s[i].phase # s[i - 1].phase
  \/ s[i].fault # s[i - 1].fault

Reduces(list, s) ==
  /\ Increasing(list)
  /\ \A i \in 1 .. Len(list) : \E k \in 1 .. Len(s) : list[i] = s[k]
  /\ \A i \in 1 .. Len(s) : NeededIn(s, i) => \E k \in 1 .. Len(list) : list[k] = s[i]
  /\ list = <<>> <=> s = <<>>
  /\ s # <<>> => Last(list).phase = Last(s).phase /\ Last(list).fault = Last(s).fault
  /\ Occurrences(deriveMissionEvents(list)) = Occurrences(deriveMissionEvents(s))

(* Facts about a sequence and one more element, by index.                  *)
LEMMA Appended ==
  ASSUME NEW s \in Seq(Samples), NEW x \in Samples
  PROVE  /\ Append(s, x) \in Seq(Samples) /\ Append(s, x) # <<>>
         /\ Len(s) \in Nat /\ Len(Append(s, x)) = Len(s) + 1
         /\ \A i \in 1 .. Len(s) : Append(s, x)[i] = s[i] /\ s[i] \in Samples
         /\ Append(s, x)[Len(s) + 1] = x
         /\ Last(Append(s, x)) = x
<1>1. \A i \in 1 .. Len(s) : s[i] \in Samples
  BY ElementOfSeq
<1>2. Len(s) \in Nat
  BY LenProperties
<1>3. QED
  BY <1>1, <1>2, AppendProperties, AppendLast

LEMMA NeededBefore ==
  ASSUME NEW s \in Seq(Samples), NEW x \in Samples, NEW i \in 1 .. Len(s)
  PROVE  NeededIn(Append(s, x), i) => NeededIn(s, i)
<1> DEFINE t == Append(s, x)
<1>1. Len(s) \in Nat /\ \A j \in 1 .. Len(s) : t[j] = s[j]
  BY Appended
<1> HIDE DEF t
<1>2. t[i] = s[i] /\ (i # 1 => t[i - 1] = s[i - 1])
  BY <1>1
<1>3. NeededIn(t, i) => NeededIn(s, i)
  BY <1>2 DEF NeededIn
<1>4. QED
  BY <1>3 DEF t

LEMMA ReducesNothing == Reduces(<<>>, <<>>)
<1>1. Len(<<>>) = 0
  OBVIOUS
<1>2. QED
  BY <1>1 DEF Reduces, Increasing

LEMMA ReducesKept ==
  ASSUME NEW list \in Seq(Samples), NEW s \in Seq(Samples), NEW x \in Samples,
         Reduces(list, s), Increasing(Append(s, x))
  PROVE  Reduces(Append(list, x), Append(s, x))
<1> DEFINE l == Append(list, x)
           t == Append(s, x)
           N == Len(list)
           M == Len(s)
<1>1. /\ l \in Seq(Samples) /\ l # <<>> /\ N \in Nat /\ Len(l) = N + 1 /\ l[N + 1] = x
      /\ \A i \in 1 .. N : l[i] = list[i] /\ list[i] \in Samples
      /\ Last(l) = x
  BY Appended
<1>2. /\ t \in Seq(Samples) /\ t # <<>> /\ M \in Nat /\ Len(t) = M + 1 /\ t[M + 1] = x
      /\ \A i \in 1 .. M : t[i] = s[i] /\ s[i] \in Samples
      /\ Last(t) = x
  BY Appended
<1>3. \A i \in 1 .. M : NeededIn(t, i) => NeededIn(s, i)
  BY NeededBefore
<1>4. Occurrences(deriveMissionEvents(l)) = Occurrences(deriveMissionEvents(t))
  <2>1. CASE s = <<>>
    <3>1. list = <<>>
      BY <2>1 DEF Reduces
    <3>2. l = t
      BY <2>1, <3>1
    <3>3. QED
      BY <3>2
  <2>2. CASE s # <<>>
    <3>1. list # <<>>
      BY <2>2 DEF Reduces
    <3>2. /\ Last(list).phase = Last(s).phase /\ Last(list).fault = Last(s).fault
          /\ Occurrences(deriveMissionEvents(list)) = Occurrences(deriveMissionEvents(s))
          /\ Last(list) \in Samples /\ Last(s) \in Samples
      BY <2>2, <3>1, LastFacts DEF Reduces
    <3>3. Occurrences(EventsOf(Last(list), x)) = Occurrences(EventsOf(Last(s), x))
      BY <3>2, SameOccurrences
    <3>4. /\ deriveMissionEvents(l) = deriveMissionEvents(list) \o EventsOf(Last(list), x)
          /\ deriveMissionEvents(t) = deriveMissionEvents(s) \o EventsOf(Last(s), x)
      BY <2>2, <3>1, EventsOfAppend
    <3>5. /\ deriveMissionEvents(list) \in Seq(Events) /\ deriveMissionEvents(s) \in Seq(Events)
          /\ EventsOf(Last(list), x) \in Seq(Events) /\ EventsOf(Last(s), x) \in Seq(Events)
      BY <3>2, deriveMissionEventsType, EventsOfType
    <3>6. QED
      BY <3>2, <3>3, <3>4, <3>5, OccurrencesJoined
  <2>3. QED
    BY <2>1, <2>2
<1>5. Increasing(t)
  OBVIOUS
<1> HIDE DEF l, t, N, M
<1>6. /\ \A i \in 1 .. N : \E k \in 1 .. M : list[i] = s[k]
      /\ \A i \in 1 .. M : NeededIn(s, i) => \E k \in 1 .. N : list[k] = s[i]
      /\ \A i, j \in 1 .. N : i < j => list[i].step < list[j].step
  BY DEF Reduces, Increasing, N, M
<1>7. \A i \in 1 .. Len(l) : \E k \in 1 .. Len(t) : l[i] = t[k]
  <2> SUFFICES ASSUME NEW i \in 1 .. N + 1 PROVE \E k \in 1 .. M + 1 : l[i] = t[k]
    BY <1>1, <1>2
  <2>1. CASE i = N + 1
    <3>1. M + 1 \in 1 .. M + 1 /\ l[i] = t[M + 1]
      BY <1>1, <1>2, <2>1
    <3>2. QED
      BY <3>1
  <2>2. CASE i # N + 1
    <3>1. i \in 1 .. N
      BY <1>1, <2>2
    <3>2. PICK k \in 1 .. M : list[i] = s[k]
      BY <1>6, <3>1
    <3>3. k \in 1 .. M + 1 /\ l[i] = t[k]
      BY <1>1, <1>2, <3>1, <3>2
    <3>4. QED
      BY <3>3
  <2>3. QED
    BY <2>1, <2>2
<1>8. Increasing(l)
  <2> SUFFICES ASSUME NEW i \in 1 .. N + 1, NEW j \in 1 .. N + 1, i < j
               PROVE  l[i].step < l[j].step
    BY <1>1 DEF Increasing
  <2>1. i \in 1 .. N
    BY <1>1
  <2>2. CASE j = N + 1
    <3>1. PICK k \in 1 .. M : list[i] = s[k]
      BY <1>6, <2>1
    <3>2. k \in 1 .. M + 1 /\ M + 1 \in 1 .. M + 1 /\ k < M + 1
      BY <1>2
    <3>3. t[k].step < t[M + 1].step
      BY <1>2, <1>5, <3>2 DEF Increasing
    <3>4. QED
      BY <1>1, <1>2, <2>1, <2>2, <3>1, <3>3
  <2>3. CASE j # N + 1
    <3>1. j \in 1 .. N
      BY <1>1, <2>3
    <3>2. QED
      BY <1>1, <1>6, <2>1, <3>1
  <2>4. QED
    BY <2>2, <2>3
<1>9. \A i \in 1 .. Len(t) : NeededIn(t, i) => \E k \in 1 .. Len(l) : l[k] = t[i]
  <2> SUFFICES ASSUME NEW i \in 1 .. M + 1, NeededIn(t, i)
               PROVE  \E k \in 1 .. N + 1 : l[k] = t[i]
    BY <1>1, <1>2
  <2>1. CASE i = M + 1
    <3>1. N + 1 \in 1 .. N + 1 /\ l[N + 1] = t[i]
      BY <1>1, <1>2, <2>1
    <3>2. QED
      BY <3>1
  <2>2. CASE i # M + 1
    <3>1. i \in 1 .. M
      BY <1>2, <2>2
    <3>2. PICK k \in 1 .. N : list[k] = s[i]
      BY <1>3, <1>6, <3>1
    <3>3. k \in 1 .. N + 1 /\ l[k] = t[i]
      BY <1>1, <1>2, <3>1, <3>2
    <3>4. QED
      BY <3>3
  <2>3. QED
    BY <2>1, <2>2
<1>10. Reduces(l, t)
  BY <1>1, <1>2, <1>4, <1>7, <1>8, <1>9 DEF Reduces
<1>11. QED
  BY <1>10 DEF l, t

LEMMA ReducesSkipped ==
  ASSUME NEW list \in Seq(Samples), NEW s \in Seq(Samples), NEW x \in Samples,
         Reduces(list, s), s # <<>>,
         x.phase = Last(s).phase, x.fault = Last(s).fault,
         x.phase # LANDED, x.step % stride # 0
  PROVE  Reduces(list, Append(s, x))
<1> DEFINE t == Append(s, x)
           N == Len(list)
           M == Len(s)
<1>1. /\ t \in Seq(Samples) /\ t # <<>> /\ M \in Nat /\ Len(t) = M + 1 /\ t[M + 1] = x
      /\ \A i \in 1 .. M : t[i] = s[i] /\ s[i] \in Samples
      /\ Last(t) = x
  BY Appended
<1>2. \A i \in 1 .. M : NeededIn(t, i) => NeededIn(s, i)
  BY NeededBefore
<1>3. M \in Nat \ {0} /\ Last(s) = s[M]
  BY LastFacts
<1>4. deriveMissionEvents(t) = deriveMissionEvents(s)
  <2>1. EventsOf(Last(s), x) = <<>> \o <<>>
    BY DEF EventsOf
  <2>2. EventsOf(Last(s), x) = <<>>
    BY <2>1, ConcatEmptySeq, EmptySeq
  <2>3. deriveMissionEvents(t) = deriveMissionEvents(s) \o EventsOf(Last(s), x)
    BY EventsOfAppend
  <2>4. deriveMissionEvents(s) \in Seq(Events)
    BY deriveMissionEventsType
  <2>5. QED
    BY <2>2, <2>3, <2>4, ConcatEmptySeq
<1> HIDE DEF t, N, M
<1>5. /\ \A i \in 1 .. N : \E k \in 1 .. M : list[i] = s[k]
      /\ \A i \in 1 .. M : NeededIn(s, i) => \E k \in 1 .. N : list[k] = s[i]
      /\ Increasing(list) /\ list # <<>>
      /\ Last(list).phase = x.phase /\ Last(list).fault = x.fault
      /\ Occurrences(deriveMissionEvents(list)) = Occurrences(deriveMissionEvents(s))
  BY DEF Reduces, N, M
<1>6. \A i \in 1 .. N : \E k \in 1 .. Len(t) : list[i] = t[k]
  <2> SUFFICES ASSUME NEW i \in 1 .. N PROVE \E k \in 1 .. M + 1 : list[i] = t[k]
    BY <1>1
  <2>1. PICK k \in 1 .. M : list[i] = s[k]
    BY <1>5
  <2>2. k \in 1 .. M + 1 /\ list[i] = t[k]
    BY <1>1, <2>1
  <2>3. QED
    BY <2>2
<1>7. \A i \in 1 .. Len(t) : NeededIn(t, i) => \E k \in 1 .. N : list[k] = t[i]
  <2> SUFFICES ASSUME NEW i \in 1 .. M + 1, NeededIn(t, i)
               PROVE  \E k \in 1 .. N : list[k] = t[i]
    BY <1>1
  <2>1. CASE i = M + 1
    <3>1. t[i] = x /\ i # 1 /\ i - 1 = M /\ t[i - 1] = Last(s)
      BY <1>1, <1>3, <2>1
    <3>2. ~NeededIn(t, i)
      BY <3>1 DEF NeededIn
    <3>3. QED
      BY <3>2
  <2>2. CASE i # M + 1
    <3>1. i \in 1 .. M
      BY <1>1, <2>2
    <3>2. QED
      BY <1>1, <1>2, <1>5, <3>1
  <2>3. QED
    BY <2>1, <2>2
<1>8. Reduces(list, t)
  BY <1>1, <1>4, <1>5, <1>6, <1>7 DEF Reduces, N
<1>9. QED
  BY <1>8 DEF t

(* displaySamples adds the latest sample if the loop left it out.          *)
LEMMA ReducesLast ==
  ASSUME NEW list \in Seq(Samples), NEW s \in Seq(Samples), s # <<>>,
         Reduces(list, s), Increasing(s), Last(list) # Last(s)
  PROVE  Reduces(Append(list, Last(s)), s)
<1> DEFINE x == Last(s)
           l == Append(list, x)
           N == Len(list)
           M == Len(s)
<1>1. /\ M \in Nat \ {0} /\ x = s[M] /\ x \in Samples
      /\ list # <<>> /\ N \in Nat \ {0} /\ Last(list) = list[N]
  <2>1. list # <<>>
    BY DEF Reduces
  <2>2. QED
    BY <2>1, LastFacts
<1> HIDE DEF x
<1>2. /\ l \in Seq(Samples) /\ l # <<>> /\ Len(l) = N + 1 /\ l[N + 1] = x
      /\ \A i \in 1 .. N : l[i] = list[i]
      /\ Last(l) = x
  BY <1>1, Appended
<1>3. Occurrences(deriveMissionEvents(l)) = Occurrences(deriveMissionEvents(s))
  <2>1. Last(list).phase = x.phase /\ Last(list).fault = x.fault
    BY DEF Reduces, x
  <2>2. EventsOf(Last(list), x) = <<>> \o <<>>
    BY <2>1 DEF EventsOf
  <2>3. EventsOf(Last(list), x) = <<>>
    BY <2>2, ConcatEmptySeq, EmptySeq
  <2>4. deriveMissionEvents(l) = deriveMissionEvents(list) \o EventsOf(Last(list), x)
    BY <1>1, EventsOfAppend
  <2>5. deriveMissionEvents(list) \in Seq(Events)
    BY deriveMissionEventsType
  <2>6. deriveMissionEvents(l) = deriveMissionEvents(list)
    BY <2>3, <2>4, <2>5, ConcatEmptySeq
  <2>7. QED
    BY <2>6 DEF Reduces
<1> HIDE DEF l, N, M
<1>4. /\ \A i \in 1 .. N : \E k \in 1 .. M : list[i] = s[k]
      /\ \A i \in 1 .. M : NeededIn(s, i) => \E k \in 1 .. N : list[k] = s[i]
      /\ \A i, j \in 1 .. N : i < j => list[i].step < list[j].step
      /\ \A i, j \in 1 .. M : i < j => s[i].step < s[j].step
      /\ \A i \in 1 .. M : s[i].step \in Nat
      /\ list[N] # s[M]
  <2>1. \A i \in 1 .. M : s[i].step \in Nat
    BY ElementOfSeq, SampleFields DEF M
  <2>2. QED
    BY <1>1, <2>1 DEF Reduces, Increasing, N, M, x
<1>5. \A i \in 1 .. N : \E k \in 1 .. M : list[i] = s[k] /\ k # M
  <2> SUFFICES ASSUME NEW i \in 1 .. N PROVE \E k \in 1 .. M : list[i] = s[k] /\ k # M
    OBVIOUS
  <2>1. PICK k \in 1 .. M : list[i] = s[k]
    BY <1>4
  <2>2. CASE i = N
    BY <1>4, <2>1, <2>2
  <2>3. CASE i # N
    <3>1. N \in 1 .. N /\ i < N
      BY <1>1, <2>3
    <3>2. PICK n \in 1 .. M : list[N] = s[n]
      BY <1>4, <3>1
    <3>3. s[k].step < s[n].step
      BY <1>4, <2>1, <3>1, <3>2
    <3>4. ~(n < k) /\ n # k
      BY <1>4, <3>3
    <3>5. k # M
      BY <1>1, <3>4
    <3>6. QED
      BY <2>1, <3>5
  <2>4. QED
    BY <2>2, <2>3
<1>6. \A i \in 1 .. Len(l) : \E k \in 1 .. M : l[i] = s[k]
  <2> SUFFICES ASSUME NEW i \in 1 .. N + 1 PROVE \E k \in 1 .. M : l[i] = s[k]
    BY <1>2
  <2>1. CASE i = N + 1
    <3>1. M \in 1 .. M /\ l[i] = s[M]
      BY <1>1, <1>2, <2>1
    <3>2. QED
      BY <3>1
  <2>2. CASE i # N + 1
    <3>1. i \in 1 .. N
      BY <1>1, <2>2
    <3>2. QED
      BY <1>2, <1>4, <3>1
  <2>3. QED
    BY <2>1, <2>2
<1>7. Increasing(l)
  <2> SUFFICES ASSUME NEW i \in 1 .. N + 1, NEW j \in 1 .. N + 1, i < j
               PROVE  l[i].step < l[j].step
    BY <1>2 DEF Increasing
  <2>1. i \in 1 .. N
    BY <1>1
  <2>2. CASE j = N + 1
    <3>1. PICK k \in 1 .. M : list[i] = s[k] /\ k # M
      BY <1>5, <2>1
    <3>2. k < M /\ M \in 1 .. M
      BY <1>1, <3>1
    <3>3. s[k].step < s[M].step
      BY <1>4, <3>2
    <3>4. QED
      BY <1>1, <1>2, <2>1, <2>2, <3>1, <3>3
  <2>3. CASE j # N + 1
    <3>1. j \in 1 .. N
      BY <1>1, <2>3
    <3>2. QED
      BY <1>2, <1>4, <2>1, <3>1
  <2>4. QED
    BY <2>2, <2>3
<1>8. \A i \in 1 .. M : NeededIn(s, i) => \E k \in 1 .. Len(l) : l[k] = s[i]
  <2> SUFFICES ASSUME NEW i \in 1 .. M, NeededIn(s, i)
               PROVE  \E k \in 1 .. N + 1 : l[k] = s[i]
    BY <1>2
  <2>1. PICK k \in 1 .. N : list[k] = s[i]
    BY <1>4
  <2>2. k \in 1 .. N + 1 /\ l[k] = s[i]
    BY <1>1, <1>2, <2>1
  <2>3. QED
    BY <2>2
<1>9. Reduces(l, s)
  BY <1>2, <1>3, <1>6, <1>7, <1>8 DEF Reduces, M, x
<1>10. QED
  BY <1>9 DEF l, x

LEMMA SkipsOnly ==
  ASSUME NEW list \in Seq(Samples), NEW s \in Seq(Samples), NEW x \in Samples,
         Reduces(list, s), ~shouldRetainSample(LastOf(list), x)
  PROVE  Reduces(list, Append(s, x))
<1>1. /\ LastOf(list) # undefined /\ x.step % stride # 0 /\ x.phase # LANDED
      /\ x.phase = LastOf(list).phase /\ x.fault = LastOf(list).fault
  BY DEF shouldRetainSample
<1>2. list # <<>> /\ LastOf(list) = Last(list)
  BY <1>1, LastFacts
<1>3. s # <<>> /\ Last(list).phase = Last(s).phase /\ Last(list).fault = Last(s).fault
  BY <1>2 DEF Reduces
<1>4. QED
  BY <1>1, <1>2, <1>3, ReducesSkipped

LEMMA displaySamplesReduces ==
  ASSUME NEW ss \in Seq(Samples), Increasing(ss)
  PROVE  /\ displaySamples(ss) \in Seq(Samples)
         /\ Reduces(displaySamples(ss), ss)
         /\ LastOf(displaySamples(ss)) = LastOf(ss)
<1> DEFINE N == Len(ss)
           prefix(n) == SubSeq(ss, 1, n)
<1>1. PICK f : RetainedBy(f, ss) /\ displaySamples(ss) = Displayed(f[N], ss)
  BY displaySamplesLoop
<1>2. N \in Nat /\ \A i \in 1 .. N : ss[i] \in Samples
  BY LenProperties, ElementOfSeq
<1>3. /\ f \in [Nat -> Seq(Samples)] /\ f[0] = <<>>
      /\ \A n \in 1 .. N : f[n] = Retain(f[n - 1], ss[n])
  BY <1>1 DEF RetainedBy
<1>4. ASSUME NEW n \in 0 .. N
      PROVE  /\ prefix(n) \in Seq(Samples) /\ Len(prefix(n)) = n
             /\ \A i \in 1 .. n : prefix(n)[i] = ss[i]
             /\ Increasing(prefix(n))
  <2>1. n \in Int /\ \A i \in 1 .. n : ss[i] \in Samples
    BY <1>2
  <2>2. /\ prefix(n) \in Seq(Samples)
        /\ Len(prefix(n)) = IF 1 <= n THEN n - 1 + 1 ELSE 0
        /\ \A i \in 1 .. n - 1 + 1 : prefix(n)[i] = ss[1 + i - 1]
    BY <2>1, SubSeqProperties
  <2> HIDE DEF prefix
  <2>3. Len(prefix(n)) = n /\ \A i \in 1 .. n : prefix(n)[i] = ss[i]
    BY <1>2, <2>2
  <2>4. Increasing(prefix(n))
    BY <1>2, <2>3 DEF Increasing
  <2>5. QED
    BY <2>2, <2>3, <2>4
<1>5. ASSUME NEW n \in 1 .. N
      PROVE  prefix(n) = Append(prefix(n - 1), ss[n])
  <2>1. n - 1 \in 0 .. N /\ n \in 0 .. N /\ ss[n] \in Samples /\ n \in Nat
    BY <1>2
  <2> DEFINE s == prefix(n - 1)
             t == prefix(n)
             a == Append(s, ss[n])
  <2>2. /\ s \in Seq(Samples) /\ Len(s) = n - 1 /\ t \in Seq(Samples) /\ Len(t) = n
        /\ \A i \in 1 .. n - 1 : s[i] = ss[i]
        /\ \A i \in 1 .. n : t[i] = ss[i]
    BY <1>4, <2>1
  <2> HIDE DEF s, t
  <2>3. /\ a \in Seq(Samples) /\ Len(a) = Len(s) + 1 /\ a[Len(s) + 1] = ss[n]
        /\ \A i \in 1 .. Len(s) : a[i] = s[i]
    BY <2>1, <2>2, Appended
  <2> HIDE DEF a
  <2>4. Len(a) = n /\ \A i \in 1 .. n : a[i] = t[i]
    BY <2>1, <2>2, <2>3
  <2>5. a = t
    BY <2>2, <2>3, <2>4, SeqEqual
  <2>6. QED
    BY <2>5 DEF a, s, t
<1> DEFINE T == {n \in 0 .. N : Reduces(f[n], prefix(n))}
<1>6. 0 \in T
  <2>1. prefix(0) = <<>>
    BY SubSeqEmpty
  <2> HIDE DEF prefix
  <2>2. 0 \in 0 .. N /\ Reduces(f[0], prefix(0))
    BY <1>2, <1>3, <2>1, ReducesNothing
  <2>3. QED
    BY <2>2
<1>7. ASSUME NEW n \in 1 .. N, n - 1 \in T PROVE n \in T
  <2> DEFINE list == f[n - 1]
             s == prefix(n - 1)
             x == ss[n]
  <2>1. n - 1 \in 0 .. N /\ n - 1 \in Nat /\ n \in 0 .. N
    BY <1>2
  <2>2. /\ list \in Seq(Samples) /\ s \in Seq(Samples) /\ x \in Samples
        /\ Reduces(list, s)
    BY <1>2, <1>3, <1>4, <1>7, <2>1
  <2>3. prefix(n) = Append(s, x) /\ Increasing(prefix(n)) /\ f[n] = Retain(list, x)
    BY <1>3, <1>4, <1>5, <2>1
  <2> HIDE DEF list, s, x, prefix
  <2>4. CASE shouldRetainSample(LastOf(list), x)
    BY <2>1, <2>2, <2>3, <2>4, ReducesKept DEF Retain
  <2>5. CASE ~shouldRetainSample(LastOf(list), x)
    BY <2>1, <2>2, <2>3, <2>5, SkipsOnly DEF Retain
  <2>6. QED
    BY <2>4, <2>5
<1>8. N \in T
  <2> HIDE DEF T, N
  <2>1. \A n \in 0 .. N : n \in T
    BY <1>2, <1>6, <1>7, Stepwise
  <2>2. QED
    BY <1>2, <2>1
<1>9. prefix(N) = ss
  BY SubSeqFull
<1> DEFINE list == f[N]
<1>10. list \in Seq(Samples) /\ Reduces(list, ss)
  BY <1>2, <1>3, <1>8, <1>9
<1> HIDE DEF list, T, prefix
<1>11. displaySamples(ss) =
         IF LastOf(list) = LastOf(ss) THEN list ELSE Append(list, Last(ss))
  BY <1>1 DEF Displayed, list
<1>12. CASE LastOf(list) = LastOf(ss)
  BY <1>10, <1>11, <1>12
<1>13. CASE LastOf(list) # LastOf(ss)
  <2>1. ss # <<>>
    <3>1. SUFFICES ASSUME ss = <<>> PROVE FALSE
      OBVIOUS
    <3>2. list = <<>>
      BY <1>10, <3>1 DEF Reduces
    <3>3. QED
      BY <1>13, <3>1, <3>2
  <2>2. LastOf(ss) = Last(ss) /\ Last(ss) \in Samples
    BY <2>1, LastFacts
  <2>3. list # <<>> /\ LastOf(list) = Last(list)
    <3>1. list # <<>>
      BY <1>10, <2>1 DEF Reduces
    <3>2. QED
      BY <1>10, <3>1, LastFacts
  <2>4. Reduces(Append(list, Last(ss)), ss)
    BY <1>10, <1>13, <2>1, <2>2, <2>3, ReducesLast
  <2>5. Append(list, Last(ss)) \in Seq(Samples) /\ LastOf(Append(list, Last(ss))) = Last(ss)
    BY <1>10, <2>2, AppendProperties, AppendLast
  <2>6. QED
    BY <1>11, <1>13, <2>2, <2>4, <2>5
<1>14. QED
  BY <1>12, <1>13

-----------------------------------------------------------------------------
(* Types.                                                                  *)
LEMMA displaySamplesType ==
  ASSUME NEW ss \in Seq(Samples)
  PROVE  displaySamples(ss) \in Seq(Samples)
<1>1. PICK f : RetainedBy(f, ss) /\ displaySamples(ss) = Displayed(f[Len(ss)], ss)
  BY displaySamplesLoop
<1>2. f[Len(ss)] \in Seq(Samples)
  BY <1>1 DEF RetainedBy
<1>3. CASE LastOf(f[Len(ss)]) = LastOf(ss)
  BY <1>1, <1>2, <1>3 DEF Displayed
<1>4. CASE LastOf(f[Len(ss)]) # LastOf(ss) /\ ss # <<>>
  <2>1. Last(ss) \in Samples
    BY <1>4, LastFacts
  <2>2. QED
    BY <1>1, <1>2, <1>4, <2>1, AppendProperties DEF Displayed
<1>5. CASE LastOf(f[Len(ss)]) # LastOf(ss) /\ ss = <<>>
  <2>1. f[Len(ss)] = <<>>
    BY <1>1, <1>5 DEF RetainedBy
  <2>2. QED
    BY <1>5, <2>1
<1>6. QED
  BY <1>3, <1>4, <1>5

LEMMA MessageFields ==
  ASSUME NEW m \in Messages
  PROVE  /\ m.metrics \in Nat
         /\ m.type = "history" => m.samples \in Seq(Samples)
         /\ m.type = "telemetry" => m.sample \in Samples
         /\ m.type \in {"history", "reset", "telemetry"}
BY DEF Messages

LEMMA TelemetryMessage ==
  ASSUME NEW s \in Samples, NEW n \in Nat
  PROVE  /\ Telemetry(s, n) \in Messages
         /\ Telemetry(s, n).type = "telemetry"
         /\ Telemetry(s, n).sample = s /\ Telemetry(s, n).metrics = n
BY DEF Telemetry, Messages

LEMMA Init_Types == Init => DashboardTypes
<1> SUFFICES ASSUME Init PROVE DashboardTypes
  OBVIOUS
<1>1. undefined \notin Nat
  BY undefinedAssumption
<1>2. Len(<<>>) = 0 /\ 0 <= MAX_CLIENT_SAMPLES /\ 1 \in 1 .. MaxFlights
      /\ 0 \in 0 .. MaxSteps /\ 1 \in 1 .. LANDED
  BY Sizes
<1>3. /\ flight \in 1 .. MaxFlights /\ step \in 0 .. MaxSteps
      /\ phase \in 1 .. LANDED /\ fault \in BOOLEAN
      /\ valid \in Nat /\ metrics \in Nat /\ lastPacketAt \in BOOLEAN
      /\ status \in {"connecting", "connected", "disconnected"}
      /\ replaceWithHistory \in BOOLEAN /\ frame \in BOOLEAN /\ replaceLost \in BOOLEAN
  BY <1>2 DEF Init
<1>4. /\ history \in Seq(Samples) /\ inbox \in Seq(Messages) /\ pending \in Seq(Samples)
      /\ updates \in Seq(Seq(Samples)) /\ samples \in Seq(Samples) /\ stream \in Seq(Samples)
      /\ updates = <<>> /\ Len(samples) <= MAX_CLIENT_SAMPLES
  BY <1>2 DEF Init
<1>5. /\ pendingMetrics = undefined /\ latestSample = undefined
      /\ latestRetainedSample = undefined /\ frame = FALSE
  BY DEF Init
<1>6. QED
  BY <1>1, <1>3, <1>4, <1>5 DEF DashboardTypes

LEMMA SampleArrives_Types ==
  ASSUME DashboardTypes, NEW lost \in 0 .. 1, NEW nextPhase \in 1 .. LANDED,
         NEW nextFault \in BOOLEAN, SampleArrives(lost, nextPhase, nextFault)
  PROVE  DashboardTypes'
<1> DEFINE sample == [flight |-> flight, step |-> step + lost,
                      phase |-> nextPhase, fault |-> nextFault]
<1>1. /\ step + lost < MaxSteps /\ step' = step + lost + 1 /\ phase' = nextPhase
      /\ fault' = nextFault /\ valid' = valid + 1
      /\ history' = KeepLast(Append(history, sample), historyCapacity)
      /\ Send(<<Telemetry(sample, valid + 1)>>)
      /\ UNCHANGED <<flight, status, effectVars, frame, reactVars, replaceLost, breaks>>
  BY DEF SampleArrives
<1>2. sample \in Samples
  BY <1>1, Sizes DEF DashboardTypes, Samples
<1> HIDE DEF sample
<1>3. Telemetry(sample, valid + 1) \in Messages
  BY <1>2, TelemetryMessage DEF DashboardTypes
<1>4. inbox' \in Seq(Messages)
  <2>1. inbox' = inbox \o <<Telemetry(sample, valid + 1)>> \/ inbox' = inbox
    BY <1>1 DEF Send
  <2>2. <<Telemetry(sample, valid + 1)>> \in Seq(Messages) /\ inbox \in Seq(Messages)
    BY <1>3 DEF DashboardTypes
  <2>3. QED
    BY <2>1, <2>2, ConcatProperties
<1>5. history' \in Seq(Samples)
  BY <1>1, <1>2, AppendProperties, KeepLastFacts, Sizes DEF DashboardTypes
<1>6. step' \in 0 .. MaxSteps /\ valid' \in Nat /\ phase' \in 1 .. LANDED /\ fault' \in BOOLEAN
  BY <1>1, Sizes DEF DashboardTypes
<1>7. QED
  BY <1>1, <1>4, <1>5, <1>6 DEF DashboardTypes, effectVars, reactVars

(* A new flight: whether the server has anything of the old one.           *)
FirstSample == [flight |-> flight + 1, step |-> 0, phase |-> 1, fault |-> FALSE]
ResetMessage == [type |-> "reset", metrics |-> 0]
NewFlightMessages ==
  (IF history = <<>> THEN <<>> ELSE <<ResetMessage>>) \o <<Telemetry(FirstSample, 1)>>

LEMMA NewFlightFacts ==
  ASSUME DashboardTypes, NewFlightArrives
  PROVE  /\ FirstSample \in Samples /\ FirstSample.step = 0
         /\ ResetMessage \in Messages /\ ResetMessage.type = "reset"
         /\ NewFlightMessages \in Seq(Messages)
         /\ flight' = flight + 1 /\ flight' \in 1 .. MaxFlights
         /\ step' = 1 /\ step' \in 0 .. MaxSteps /\ phase' = 1 /\ fault' = FALSE
         /\ history' = <<FirstSample>> /\ valid' = 1 /\ Send(NewFlightMessages)
         /\ UNCHANGED <<status, effectVars, frame, reactVars, replaceLost, breaks>>
<1>1. /\ flight < MaxFlights /\ flight' = flight + 1
      /\ step' = 1 /\ phase' = 1 /\ fault' = FALSE
      /\ history' = <<FirstSample>> /\ valid' = 1 /\ Send(NewFlightMessages)
      /\ UNCHANGED <<status, effectVars, frame, reactVars, replaceLost, breaks>>
  BY DEF NewFlightArrives, FirstSample, NewFlightMessages, ResetMessage
<1>2. /\ flight' \in 1 .. MaxFlights /\ step' \in 0 .. MaxSteps
      /\ 0 \in 0 .. MaxSteps - 1 /\ 1 \in 1 .. LANDED
  BY <1>1, Sizes DEF DashboardTypes
<1>3. FirstSample \in Samples /\ FirstSample.step = 0
  BY <1>1, <1>2 DEF FirstSample, Samples
<1>4. ResetMessage \in Messages /\ ResetMessage.type = "reset"
  BY DEF ResetMessage, Messages
<1>5. NewFlightMessages \in Seq(Messages)
  <2>1. Telemetry(FirstSample, 1) \in Messages
    BY <1>3, TelemetryMessage
  <2>2. <<Telemetry(FirstSample, 1)>> \in Seq(Messages)
    BY <2>1
  <2>3. (IF history = <<>> THEN <<>> ELSE <<ResetMessage>>) \in Seq(Messages)
    BY <1>4
  <2>4. QED
    BY <2>2, <2>3, ConcatProperties DEF NewFlightMessages
<1>6. QED
  BY <1>1, <1>2, <1>3, <1>4, <1>5

LEMMA NewFlightArrives_Types ==
  ASSUME DashboardTypes, NewFlightArrives
  PROVE  DashboardTypes'
<1>1. /\ FirstSample \in Samples /\ NewFlightMessages \in Seq(Messages)
      /\ flight' \in 1 .. MaxFlights
      /\ step' \in 0 .. MaxSteps /\ phase' = 1 /\ fault' = FALSE
      /\ history' = <<FirstSample>> /\ valid' = 1 /\ Send(NewFlightMessages)
      /\ UNCHANGED <<status, effectVars, frame, reactVars, replaceLost, breaks>>
  BY NewFlightFacts
<1>2. inbox' \in Seq(Messages)
  <2>1. inbox' = inbox \o NewFlightMessages \/ inbox' = inbox
    BY <1>1 DEF Send
  <2>2. QED
    BY <1>1, <2>1, ConcatProperties DEF DashboardTypes
<1>3. history' \in Seq(Samples) /\ phase' \in 1 .. LANDED
  BY <1>1, Sizes
<1>4. QED
  BY <1>1, <1>2, <1>3 DEF DashboardTypes, effectVars, reactVars

LEMMA Connection_Types ==
  ASSUME DashboardTypes, ServerRestarts \/ Reconnects \/ Opens \/ Closes
  PROVE  DashboardTypes'
<1>1. CASE ServerRestarts
  BY <1>1 DEF ServerRestarts, DashboardTypes, effectVars, reactVars
<1>2. CASE Reconnects
  BY <1>2 DEF Reconnects, DashboardTypes, serverVars, effectVars, reactVars
<1>3. CASE Closes
  BY <1>3 DEF Closes, DashboardTypes, serverVars, effectVars, reactVars
<1>4. CASE Opens
  <2> DEFINE message == [type |-> "history", samples |-> history, metrics |-> valid]
  <2>1. message \in Messages
    BY DEF DashboardTypes, Messages
  <2> HIDE DEF message
  <2>2. inbox' = <<message>> /\ status' = "connected"
        /\ UNCHANGED <<serverVars, effectVars, frame, reactVars, replaceLost, breaks>>
    BY <1>4 DEF Opens, message
  <2>3. inbox' \in Seq(Messages)
    BY <2>1, <2>2
  <2>4. QED
    BY <2>2, <2>3 DEF DashboardTypes, serverVars, effectVars, reactVars
<1>5. QED
  BY <1>1, <1>2, <1>3, <1>4

LEMMA HandlesMessage_Types ==
  ASSUME DashboardTypes, HandlesMessage
  PROVE  DashboardTypes'
<1> DEFINE message == Head(inbox)
<1>1. message \in Messages /\ Tail(inbox) \in Seq(Messages)
  BY HeadTailProperties DEF DashboardTypes, HandlesMessage
<1>2. /\ TakesHistory(message) \/ TakesReset(message) \/ TakesTelemetry(message)
      /\ pendingMetrics' = message.metrics /\ inbox' = Tail(inbox) /\ frame' = TRUE
      /\ UNCHANGED <<serverVars, status, reactVars, replaceLost, breaks>>
  BY DEF HandlesMessage
<1> HIDE DEF message
<1>3. pendingMetrics' \in Nat /\ pendingMetrics' # undefined
  BY <1>1, <1>2, MessageFields, undefinedAssumption
<1> DEFINE Effect == /\ pending' \in Seq(Samples) /\ replaceWithHistory' \in BOOLEAN
                     /\ latestSample' \in Samples \cup {undefined}
                     /\ latestRetainedSample' \in Samples \cup {undefined}
                     /\ stream' \in Seq(Samples)
<1>4. CASE TakesHistory(message)
  <2>1. message.samples \in Seq(Samples)
    BY <1>1, <1>4, MessageFields DEF TakesHistory
  <2>2. pending' \in Seq(Samples)
    BY <1>4, <2>1, displaySamplesType, KeepLastFacts, Sizes DEF TakesHistory
  <2>3. LastOf(message.samples) \in Samples \cup {undefined}
    BY <2>1, LastFacts
  <2>4. LastOf(pending') \in Samples \cup {undefined}
    BY <2>2, LastFacts
  <2>5. Effect
    BY <1>4, <2>1, <2>2, <2>3, <2>4 DEF TakesHistory
  <2>6. QED
    BY <1>1, <1>2, <1>3, <2>5 DEF DashboardTypes, serverVars, reactVars
<1>5. CASE TakesReset(message)
  <2>1. Effect
    BY <1>5 DEF TakesReset
  <2>2. QED
    BY <1>1, <1>2, <1>3, <2>1 DEF DashboardTypes, serverVars, reactVars
<1>6. CASE TakesTelemetry(message)
  <2>1. message.sample \in Samples
    BY <1>1, <1>6, MessageFields DEF TakesTelemetry
  <2> DEFINE sample == message.sample
             newFlight == startsNewFlight(latestSample, sample)
             before == IF newFlight THEN undefined ELSE latestRetainedSample
             kept == IF newFlight THEN <<>> ELSE pending
  <2>2. /\ replaceWithHistory' = (replaceWithHistory \/ newFlight)
        /\ \/ pending' = Append(kept, sample) /\ latestRetainedSample' = sample
           \/ pending' = kept /\ latestRetainedSample' = before
        /\ latestSample' = sample
        /\ stream' = Append(IF newFlight THEN <<>> ELSE stream, sample)
    BY <1>6 DEF TakesTelemetry
  <2>3. kept \in Seq(Samples) /\ before \in Samples \cup {undefined}
    BY DEF DashboardTypes
  <2>4. stream' \in Seq(Samples)
    BY <2>1, <2>2, AppendProperties DEF DashboardTypes
  <2>5. newFlight \in BOOLEAN
    BY DEF startsNewFlight
  <2>6. replaceWithHistory' \in BOOLEAN
    BY <2>2, <2>5 DEF DashboardTypes
  <2> HIDE DEF kept, before, newFlight
  <2>7. pending' \in Seq(Samples) /\ latestRetainedSample' \in Samples \cup {undefined}
    <3>1. Append(kept, sample) \in Seq(Samples)
      BY <2>1, <2>3, AppendProperties
    <3> HIDE DEF sample
    <3>2. QED
      BY <2>1, <2>2, <2>3, <3>1
  <2>8. Effect
    BY <2>1, <2>2, <2>4, <2>6, <2>7
  <2>9. QED
    BY <1>1, <1>2, <1>3, <2>8 DEF DashboardTypes, serverVars, reactVars
<1>7. QED
  BY <1>2, <1>4, <1>5, <1>6

LEMMA Flush_Types ==
  ASSUME DashboardTypes, Flush
  PROVE  DashboardTypes'
<1>1. /\ frame /\ frame' = FALSE
      /\ metrics' = pendingMetrics /\ pendingMetrics' = undefined
      /\ FlushSamples \/ FlushMetrics
      /\ UNCHANGED <<serverVars, status, inbox, latestSample, latestRetainedSample, stream,
                     breaks>>
  BY DEF Flush
<1>2. metrics' \in Nat
  BY <1>1 DEF DashboardTypes
<1> DEFINE React == /\ pending' \in Seq(Samples) /\ replaceWithHistory' \in BOOLEAN
                    /\ updates' \in Seq(Seq(Samples))
                    /\ replaceLost' \in BOOLEAN
                    /\ samples' \in Seq(Samples) /\ Len(samples') <= MAX_CLIENT_SAMPLES
                    /\ lastPacketAt' \in BOOLEAN
<1>3. CASE FlushMetrics
  <2>1. React
    BY <1>3 DEF FlushMetrics, DashboardTypes
  <2>2. QED
    BY <1>1, <1>2, <2>1 DEF DashboardTypes, serverVars
<1>4. CASE FlushSamples
  <2>1. SetSamples(pending) /\ pending' = <<>> /\ replaceWithHistory' = FALSE
        /\ lastPacketAt' = (pending # <<>>)
    BY <1>4 DEF FlushSamples
  <2>2. /\ samples' \in Seq(Samples) /\ Len(samples') <= MAX_CLIENT_SAMPLES
        /\ updates' \in Seq(Seq(Samples))
        /\ replaceLost' \in BOOLEAN
    <3>1. CASE /\ samples' = Updated(samples, pending) /\ updates' = updates
               /\ replaceLost' = (replaceLost /\ ~replaceWithHistory)
      BY <3>1, UpdatedType DEF DashboardTypes
    <3>2. CASE /\ updates' = Append(updates, pending) /\ samples' = samples
               /\ replaceLost' = IF replaceWithHistory THEN samples # <<>> \/ updates # <<>>
                                 ELSE replaceLost
      <4>1. replaceLost' \in BOOLEAN
        BY <3>2 DEF DashboardTypes
      <4>2. QED
        BY <3>2, <4>1, AppendProperties DEF DashboardTypes
    <3>3. QED
      BY <2>1, <3>1, <3>2 DEF SetSamples
  <2>3. <<>> \in Seq(Samples) /\ (pending # <<>>) \in BOOLEAN
    OBVIOUS
  <2>4. React
    BY <2>1, <2>2, <2>3, Zenon
  <2>5. QED
    BY <1>1, <1>2, <2>4 DEF DashboardTypes, serverVars
<1>5. QED
  BY <1>1, <1>3, <1>4

LEMMA Renders_Types ==
  ASSUME DashboardTypes, Renders
  PROVE  DashboardTypes'
<1>1. PICK f : ShownBy(f) /\ samples' = f[Len(updates)]
  BY RendersLoop DEF DashboardTypes
<1>2. updates # <<>> /\ updates' = <<>>
      /\ UNCHANGED <<serverVars, status, inbox, effectVars, frame, metrics, lastPacketAt,
                     replaceLost, breaks>>
  BY DEF Renders
<1>3. samples' \in Seq(Samples) /\ Len(samples') <= MAX_CLIENT_SAMPLES
  <2> DEFINE n == Len(updates)
  <2>1. n \in Nat \ {0}
    BY <1>2, EmptySeq DEF DashboardTypes
  <2>2. updates[n] \in Seq(Samples)
    BY <2>1, ElementOfSeq DEF DashboardTypes
  <2>3. /\ f \in [Nat -> Seq(Samples)]
        /\ \A k \in 1 .. n : f[k] = Updated(f[k - 1], updates[k])
    BY <1>1 DEF ShownBy
  <2> HIDE DEF n
  <2>4. f[n - 1] \in Seq(Samples) /\ f[n] = Updated(f[n - 1], updates[n])
    BY <2>1, <2>3
  <2>5. QED
    BY <1>1, <2>2, <2>4, UpdatedType DEF n
<1>4. QED
  BY <1>2, <1>3 DEF DashboardTypes, serverVars, effectVars

LEMMA Next_Types == DashboardTypes /\ [Next]_vars => DashboardTypes'
<1> SUFFICES ASSUME DashboardTypes, [Next]_vars PROVE DashboardTypes'
  OBVIOUS
<1>1. CASE UNCHANGED vars
  BY <1>1 DEF vars, serverVars, effectVars, reactVars, DashboardTypes
<1>2. ASSUME NEW lost \in 0 .. 1, NEW nextPhase \in 1 .. LANDED, NEW nextFault \in BOOLEAN,
             SampleArrives(lost, nextPhase, nextFault)
      PROVE  DashboardTypes'
  BY <1>2, SampleArrives_Types
<1>3. CASE NewFlightArrives
  BY <1>3, NewFlightArrives_Types
<1>4. CASE ServerRestarts \/ Reconnects \/ Opens \/ Closes
  BY <1>4, Connection_Types
<1>5. CASE HandlesMessage \/ Flush \/ Renders
  BY <1>5, HandlesMessage_Types, Flush_Types, Renders_Types
<1>6. QED
  BY <1>1, <1>2, <1>3, <1>4, <1>5 DEF Next

-----------------------------------------------------------------------------
(***************************************************************************)
(* The order of what the server sends.  A message at position i brings     *)
(* samples, position 0 stands for what the page has read; as long as only  *)
(* telemetry follows, it follows in the order of the flight.               *)
(***************************************************************************)
Brought(s, strm, ms, i) ==
  \/ i = 0 /\ \E k \in 1 .. Len(strm) : strm[k] = s
  \/ i > 0 /\ ms[i].type = "history" /\ \E k \in 1 .. Len(ms[i].samples) : ms[i].samples[k] = s
  \/ i > 0 /\ ms[i].type = "telemetry" /\ ms[i].sample = s

Continues(ms, i, j) == \A l \in i + 1 .. j : ms[l].type = "telemetry"

Ordered(strm, ms) ==
  \A s \in Samples, i \in 0 .. Len(ms), j \in 1 .. Len(ms) :
    i < j /\ Continues(ms, i, j) /\ Brought(s, strm, ms, i) => s.step < ms[j].sample.step

Past(strm, ms, limit) ==
  \A s \in Samples, i \in 0 .. Len(ms) :
    Continues(ms, i, Len(ms)) /\ Brought(s, strm, ms, i) => s.step < limit

Reached == IF history = <<>> THEN 0 ELSE step

OrderInv ==
  /\ Increasing(stream) /\ Increasing(history)
  /\ \A i \in 1 .. Len(history) : history[i].step < step
  /\ \A i \in 1 .. Len(inbox) : inbox[i].type = "history" => Increasing(inbox[i].samples)
  /\ status = "connected" => Ordered(stream, inbox) /\ Past(stream, inbox, Reached)
  /\ status # "connected" => inbox = <<>>
  /\ latestSample = LastOf(stream)

LEMMA AppendedMessage ==
  ASSUME NEW ms \in Seq(Messages), NEW m \in Messages
  PROVE  /\ Append(ms, m) \in Seq(Messages)
         /\ Len(ms) \in Nat /\ Len(Append(ms, m)) = Len(ms) + 1
         /\ \A i \in 1 .. Len(ms) : Append(ms, m)[i] = ms[i]
         /\ Append(ms, m)[Len(ms) + 1] = m
         /\ ms \o <<m>> = Append(ms, m)
BY AppendProperties, AppendIsConcat, LenProperties

LEMMA SendsTelemetry ==
  ASSUME NEW strm \in Seq(Samples), NEW ms \in Seq(Messages), NEW m \in Messages,
         m.type = "telemetry", NEW limit \in Nat, limit <= m.sample.step,
         Ordered(strm, ms), Past(strm, ms, limit)
  PROVE  /\ Ordered(strm, Append(ms, m))
         /\ Past(strm, Append(ms, m), m.sample.step + 1)
<1> DEFINE t == Append(ms, m)
           N == Len(ms)
<1>1. /\ N \in Nat /\ Len(t) = N + 1 /\ t[N + 1] = m
      /\ \A i \in 1 .. N : t[i] = ms[i]
  BY AppendedMessage
<1>2. m.sample \in Samples /\ m.sample.step \in Nat
  BY MessageFields, SampleFields
<1> HIDE DEF t
<1>3. ASSUME NEW i \in 0 .. N, NEW s, Brought(s, strm, t, i) PROVE Brought(s, strm, ms, i)
  <2>1. CASE i = 0
    BY <1>3, <2>1 DEF Brought
  <2>2. CASE i # 0
    <3>1. t[i] = ms[i]
      BY <1>1, <2>2
    <3>2. QED
      BY <1>3, <3>1 DEF Brought
  <2>3. QED
    BY <2>1, <2>2
<1>4. ASSUME NEW i \in 0 .. N, NEW j \in 0 .. N, Continues(t, i, j) PROVE Continues(ms, i, j)
  <2> SUFFICES ASSUME NEW l \in i + 1 .. j PROVE ms[l].type = "telemetry"
    BY DEF Continues
  <2>1. l \in 1 .. N
    BY <1>1
  <2>2. QED
    BY <1>1, <1>4, <2>1 DEF Continues
<1>5. ASSUME NEW s \in Samples, NEW i \in 0 .. N, Continues(t, i, N + 1), Brought(s, strm, t, i)
      PROVE  s.step < limit
  <2>1. Continues(t, i, N)
    <3>1. \A l \in i + 1 .. N : l \in i + 1 .. N + 1
      BY <1>1
    <3>2. QED
      BY <1>5, <3>1 DEF Continues
  <2>2. N \in 0 .. N
    BY <1>1
  <2>3. Continues(ms, i, N) /\ Brought(s, strm, ms, i)
    BY <1>3, <1>4, <1>5, <2>1, <2>2
  <2>4. QED
    BY <2>3 DEF Past
<1>6. Ordered(strm, t)
  <2> SUFFICES ASSUME NEW s \in Samples, NEW i \in 0 .. N + 1, NEW j \in 1 .. N + 1,
                      i < j, Continues(t, i, j), Brought(s, strm, t, i)
               PROVE  s.step < t[j].sample.step
    BY <1>1 DEF Ordered
  <2>1. i \in 0 .. N
    BY <1>1
  <2>2. CASE j = N + 1
    <3>1. s.step < limit
      BY <1>5, <2>1, <2>2
    <3>2. s.step \in Nat
      BY SampleFields
    <3>3. QED
      BY <1>1, <1>2, <2>2, <3>1, <3>2
  <2>3. CASE j # N + 1
    <3>1. j \in 1 .. N /\ j \in 0 .. N /\ t[j] = ms[j]
      BY <1>1, <2>3
    <3>2. Continues(ms, i, j) /\ Brought(s, strm, ms, i)
      BY <1>3, <1>4, <2>1, <3>1
    <3>3. QED
      BY <2>1, <3>1, <3>2 DEF Ordered
  <2>4. QED
    BY <2>2, <2>3
<1>7. Past(strm, t, m.sample.step + 1)
  <2> SUFFICES ASSUME NEW s \in Samples, NEW i \in 0 .. N + 1,
                      Continues(t, i, N + 1), Brought(s, strm, t, i)
               PROVE  s.step < m.sample.step + 1
    BY <1>1 DEF Past
  <2>1. CASE i = N + 1
    <3>1. s = m.sample
      BY <1>1, <2>1 DEF Brought
    <3>2. QED
      BY <1>2, <3>1
  <2>2. CASE i # N + 1
    <3>1. i \in 0 .. N
      BY <1>1, <2>2
    <3>2. s.step < limit /\ s.step \in Nat
      BY <1>5, <3>1, SampleFields
    <3>3. QED
      BY <1>2, <3>2
  <2>3. QED
    BY <2>1, <2>2
<1>8. QED
  BY <1>6, <1>7 DEF t

LEMMA SendsReset ==
  ASSUME NEW strm \in Seq(Samples), NEW ms \in Seq(Messages), NEW m \in Messages,
         m.type = "reset", Ordered(strm, ms)
  PROVE  /\ Ordered(strm, Append(ms, m))
         /\ Past(strm, Append(ms, m), 0)
<1> DEFINE t == Append(ms, m)
           N == Len(ms)
<1>1. /\ N \in Nat /\ Len(t) = N + 1 /\ t[N + 1] = m
      /\ \A i \in 1 .. N : t[i] = ms[i]
  BY AppendedMessage
<1> HIDE DEF t
<1>2. ASSUME NEW i \in 0 .. N PROVE ~Continues(t, i, N + 1)
  <2>1. N + 1 \in i + 1 .. N + 1
    BY <1>1
  <2>2. t[N + 1].type # "telemetry"
    BY <1>1
  <2>3. QED
    BY <2>1, <2>2 DEF Continues
<1>3. ASSUME NEW s \in Samples, NEW i \in 0 .. N + 1, NEW j \in 1 .. N + 1,
             i < j, Continues(t, i, j), Brought(s, strm, t, i)
      PROVE  s.step < t[j].sample.step
  <2>1. i \in 0 .. N
    BY <1>1, <1>3
  <2>2. j \in 1 .. N /\ t[j] = ms[j]
    BY <1>1, <1>2, <1>3, <2>1
  <2>3. Continues(ms, i, j)
    <3> SUFFICES ASSUME NEW l \in i + 1 .. j PROVE ms[l].type = "telemetry"
      BY DEF Continues
    <3>1. l \in 1 .. N
      BY <1>1, <2>2
    <3>2. QED
      BY <1>1, <1>3, <3>1 DEF Continues
  <2>4. Brought(s, strm, ms, i)
    <3>1. CASE i = 0
      BY <1>3, <3>1 DEF Brought
    <3>2. CASE i # 0
      <4>1. t[i] = ms[i]
        BY <1>1, <2>1, <3>2
      <4>2. QED
        BY <1>3, <4>1 DEF Brought
    <3>3. QED
      BY <3>1, <3>2
  <2>5. QED
    BY <1>3, <2>1, <2>2, <2>3, <2>4 DEF Ordered
<1>4. ASSUME NEW s \in Samples, NEW i \in 0 .. N + 1,
             Continues(t, i, N + 1), Brought(s, strm, t, i)
      PROVE  FALSE
  <2>1. i = N + 1
    BY <1>1, <1>2, <1>4
  <2>2. i # 0 /\ t[i] = m
    BY <1>1, <2>1
  <2>3. QED
    BY <1>4, <2>2 DEF Brought
<1>5. Ordered(strm, t)
  BY <1>1, <1>3 DEF Ordered
<1>6. Past(strm, t, 0)
  BY <1>1, <1>4 DEF Past
<1>7. QED
  BY <1>5, <1>6 DEF t

LEMMA SendsHistory ==
  ASSUME NEW strm \in Seq(Samples), NEW m \in Messages, m.type = "history",
         NEW limit, \A k \in 1 .. Len(m.samples) : m.samples[k].step < limit
  PROVE  Ordered(strm, <<m>>) /\ Past(strm, <<m>>, limit)
<1> DEFINE t == <<m>>
<1>1. Len(t) = 1 /\ t[1] = m
  OBVIOUS
<1> HIDE DEF t
<1>2. ~Continues(t, 0, 1)
  BY <1>1 DEF Continues
<1>3. Ordered(strm, t)
  <2>1. \A i \in 0 .. 1, j \in 1 .. 1 : i < j => i = 0 /\ j = 1
    OBVIOUS
  <2>2. QED
    BY <1>1, <1>2, <2>1 DEF Ordered
<1>4. ASSUME NEW s \in Samples, NEW i \in 0 .. 1, Continues(t, i, 1), Brought(s, strm, t, i)
      PROVE  s.step < limit
  <2>1. i = 1 /\ i # 0
    BY <1>2, <1>4
  <2>2. \E k \in 1 .. Len(m.samples) : m.samples[k] = s
    BY <1>1, <1>4, <2>1 DEF Brought
  <2>3. QED
    BY <2>2
<1>5. Past(strm, t, limit)
  BY <1>1, <1>4 DEF Past
<1>6. QED
  BY <1>3, <1>5 DEF t

LEMMA ReadsFirst ==
  ASSUME NEW strm \in Seq(Samples), NEW read \in Seq(Samples), NEW ms \in Seq(Messages),
         ms # <<>>, NEW limit, Ordered(strm, ms), Past(strm, ms, limit),
         \A k \in 1 .. Len(read) :
           \/ Brought(read[k], strm, ms, 1)
           \/ ms[1].type = "telemetry" /\ Brought(read[k], strm, ms, 0)
  PROVE  Ordered(read, Tail(ms)) /\ Past(read, Tail(ms), limit)
<1> DEFINE t == Tail(ms)
           N == Len(t)
<1>1. /\ N \in Nat /\ Len(ms) = N + 1
      /\ \A i \in 1 .. N : t[i] = ms[i + 1]
  <2>1. Len(ms) \in Nat
    BY LenProperties
  <2>2. t \in Seq(Messages) /\ Len(t) = Len(ms) - 1 /\ \A i \in 1 .. Len(t) : t[i] = ms[i + 1]
    BY HeadTailProperties
  <2>3. N \in Nat
    BY <2>2, LenProperties
  <2>4. QED
    BY <2>1, <2>2, <2>3
<1> HIDE DEF t, N
<1>2. ASSUME NEW s \in Samples, NEW i \in 0 .. N, NEW j \in 0 .. N, Continues(t, i, j),
             Brought(s, read, t, i)
      PROVE  \E h \in 0 .. i + 1 : Continues(ms, h, j + 1) /\ Brought(s, strm, ms, h)
  <2>1. Continues(ms, i + 1, j + 1)
    <3> SUFFICES ASSUME NEW l \in i + 2 .. j + 1 PROVE ms[l].type = "telemetry"
      BY <1>1 DEF Continues
    <3>1. l - 1 \in i + 1 .. j /\ l - 1 \in 1 .. N /\ (l - 1) + 1 = l
      BY <1>1
    <3>2. t[l - 1].type = "telemetry"
      BY <1>2, <3>1 DEF Continues
    <3>3. QED
      BY <1>1, <3>1, <3>2
  <2>2. CASE i # 0
    <3>1. i \in 1 .. N /\ i + 1 > 0 /\ t[i] = ms[i + 1]
      BY <1>1, <2>2
    <3>2. Brought(s, strm, ms, i + 1)
      BY <1>2, <3>1 DEF Brought
    <3>3. i + 1 \in 0 .. i + 1
      BY <1>1
    <3>4. QED
      BY <2>1, <3>2, <3>3
  <2>3. CASE i = 0
    <3>1. PICK k \in 1 .. Len(read) : read[k] = s
      BY <1>2, <2>3 DEF Brought
    <3>2. CASE Brought(s, strm, ms, 1)
      <4>1. 1 \in 0 .. i + 1 /\ i + 1 = 1
        BY <2>3
      <4>2. QED
        BY <2>1, <3>2, <4>1
    <3>3. CASE ms[1].type = "telemetry" /\ Brought(s, strm, ms, 0)
      <4>1. Continues(ms, 0, j + 1)
        <5>1. \A l \in 1 .. j + 1 : l = 1 \/ l \in i + 2 .. j + 1
          BY <1>1, <2>3
        <5>2. QED
          BY <1>1, <2>1, <2>3, <3>3, <5>1 DEF Continues
      <4>2. 0 \in 0 .. i + 1
        BY <2>3
      <4>3. QED
        BY <3>3, <4>1, <4>2
    <3>4. QED
      BY <3>1, <3>2, <3>3
  <2>4. QED
    BY <2>2, <2>3
<1>3. ASSUME NEW s \in Samples, NEW i \in 0 .. N, NEW j \in 1 .. N, i < j,
             Continues(t, i, j), Brought(s, read, t, i)
      PROVE  s.step < t[j].sample.step
  <2>1. j \in 0 .. N /\ j + 1 \in 1 .. Len(ms) /\ t[j] = ms[j + 1]
    BY <1>1
  <2>2. PICK h \in 0 .. i + 1 : Continues(ms, h, j + 1) /\ Brought(s, strm, ms, h)
    BY <1>2, <1>3, <2>1
  <2>3. h \in 0 .. Len(ms) /\ h < j + 1
    BY <1>1, <1>3
  <2>4. QED
    BY <2>1, <2>2, <2>3 DEF Ordered
<1>4. ASSUME NEW s \in Samples, NEW i \in 0 .. N, Continues(t, i, N), Brought(s, read, t, i)
      PROVE  s.step < limit
  <2>1. N \in 0 .. N
    BY <1>1
  <2>2. PICK h \in 0 .. i + 1 : Continues(ms, h, N + 1) /\ Brought(s, strm, ms, h)
    BY <1>2, <1>4, <2>1
  <2>3. h \in 0 .. Len(ms)
    BY <1>1
  <2>4. QED
    BY <1>1, <2>2, <2>3 DEF Past
<1>5. Ordered(read, t)
  BY <1>3 DEF Ordered, N
<1>6. Past(read, t, limit)
  BY <1>4 DEF Past, N
<1>7. QED
  BY <1>5, <1>6 DEF t

LEMMA IncreasingAppend ==
  ASSUME NEW s \in Seq(Samples), NEW x \in Samples, Increasing(s),
         \A i \in 1 .. Len(s) : s[i].step < x.step
  PROVE  Increasing(Append(s, x))
<1> DEFINE t == Append(s, x)
           N == Len(s)
<1>1. /\ N \in Nat /\ Len(t) = N + 1 /\ t[N + 1] = x
      /\ \A i \in 1 .. N : t[i] = s[i]
  BY Appended
<1> HIDE DEF t
<1>2. ASSUME NEW i \in 1 .. N + 1, NEW j \in 1 .. N + 1, i < j
      PROVE  t[i].step < t[j].step
  <2>1. i \in 1 .. N
    BY <1>1, <1>2
  <2>2. CASE j = N + 1
    BY <1>1, <2>1, <2>2
  <2>3. CASE j # N + 1
    <3>1. j \in 1 .. N
      BY <1>1, <2>3
    <3>2. QED
      BY <1>1, <1>2, <2>1, <3>1 DEF Increasing
  <2>4. QED
    BY <2>2, <2>3
<1>3. Increasing(t)
  BY <1>1, <1>2 DEF Increasing
<1>4. QED
  BY <1>3 DEF t

LEMMA IncreasingKeepLast ==
  ASSUME NEW s \in Seq(Samples), NEW n \in Nat \ {0}, Increasing(s)
  PROVE  Increasing(KeepLast(s, n))
<1> DEFINE t == KeepLast(s, n)
           d == Len(s) - Len(t)
<1>1. Len(s) \in Nat /\ Len(t) \in Nat /\ d \in Nat
      /\ \A i \in 1 .. Len(t) : t[i] = s[i + d] /\ i + d \in 1 .. Len(s)
  <2>1. /\ Len(t) = IF Len(s) <= n THEN Len(s) ELSE n
        /\ \A i \in 1 .. Len(t) : t[i] = s[i + Len(s) - Len(t)]
    BY KeepLastFacts
  <2>2. Len(s) \in Nat /\ n \in Nat /\ n > 0
    BY LenProperties
  <2> HIDE DEF t
  <2>3. Len(t) \in Nat /\ Len(t) <= Len(s)
    BY <2>1, <2>2
  <2>4. d \in Nat
    BY <2>2, <2>3
  <2>5. ASSUME NEW i \in 1 .. Len(t)
        PROVE  t[i] = s[i + d] /\ i + d \in 1 .. Len(s)
    <3>1. i + Len(s) - Len(t) = i + d /\ i + d \in 1 .. Len(s)
      BY <2>2, <2>3
    <3>2. t[i] = s[i + Len(s) - Len(t)]
      BY <2>1
    <3>3. QED
      BY <3>1, <3>2
  <2>6. QED
    BY <2>2, <2>3, <2>4, <2>5
<1> HIDE DEF t, d
<1>2. ASSUME NEW i \in 1 .. Len(t), NEW j \in 1 .. Len(t), i < j
      PROVE  t[i].step < t[j].step
  <2>1. i + d < j + d
    BY <1>1, <1>2
  <2>2. QED
    BY <1>1, <2>1 DEF Increasing
<1>3. Increasing(t)
  BY <1>2 DEF Increasing
<1>4. QED
  BY <1>3 DEF t

LEMMA Init_Order == Init => OrderInv
<1> SUFFICES ASSUME Init PROVE OrderInv
  OBVIOUS
<1>1. Len(<<>>) = 0
  OBVIOUS
<1>2. QED
  BY <1>1 DEF Init, OrderInv, Increasing, LastOf

LEMMA SampleArrives_Order ==
  ASSUME DashboardTypes, OrderInv, NEW lost \in 0 .. 1, NEW nextPhase \in 1 .. LANDED,
         NEW nextFault \in BOOLEAN, SampleArrives(lost, nextPhase, nextFault)
  PROVE  OrderInv'
<1> DEFINE sample == [flight |-> flight, step |-> step + lost,
                      phase |-> nextPhase, fault |-> nextFault]
           message == Telemetry(sample, valid + 1)
           longer == Append(history, sample)
<1>1. /\ step' = step + lost + 1
      /\ history' = KeepLast(longer, historyCapacity)
      /\ inbox' = IF status = "connected" THEN inbox \o <<message>> ELSE inbox
      /\ status' = status /\ latestSample' = latestSample /\ stream' = stream
  BY DEF SampleArrives, Send, effectVars
<1>2. sample \in Samples /\ sample.step = step + lost
  BY Sizes DEF SampleArrives, DashboardTypes, Samples
<1>3. step \in Nat /\ lost \in Nat /\ valid + 1 \in Nat
  BY Sizes DEF DashboardTypes
<1> HIDE DEF sample
<1>4. message \in Messages /\ message.type = "telemetry" /\ message.sample = sample
  BY <1>2, <1>3, TelemetryMessage
<1> HIDE DEF message
<1>5. /\ longer \in Seq(Samples) /\ Len(history) \in Nat /\ Len(longer) = Len(history) + 1
      /\ \A i \in 1 .. Len(history) : longer[i] = history[i] /\ history[i] \in Samples
      /\ longer[Len(history) + 1] = sample /\ longer # <<>>
  BY <1>2, Appended DEF DashboardTypes
<1>6. \A i \in 1 .. Len(history) : history[i].step < sample.step
  <2> SUFFICES ASSUME NEW i \in 1 .. Len(history) PROVE history[i].step < sample.step
    OBVIOUS
  <2>1. history[i].step < step /\ history[i].step \in Nat
    BY <1>5, SampleFields DEF OrderInv
  <2>2. QED
    BY <1>2, <1>3, <2>1
<1>7. Increasing(longer)
  BY <1>2, <1>6, IncreasingAppend DEF OrderInv, DashboardTypes
<1> HIDE DEF longer
<1>8. Increasing(history')
  BY <1>1, <1>5, <1>7, IncreasingKeepLast, Sizes
<1>9. history' # <<>> /\ \A i \in 1 .. Len(history') : history'[i].step < step'
  <2>1. /\ Len(history') = IF Len(longer) <= historyCapacity THEN Len(longer) ELSE historyCapacity
        /\ \A i \in 1 .. Len(history') : history'[i] = longer[i + Len(longer) - Len(history')]
        /\ history' # <<>>
    <3> DEFINE t == KeepLast(longer, historyCapacity)
    <3>1. historyCapacity \in Nat \ {0} /\ longer \in Seq(Samples) /\ longer # <<>>
      BY <1>5, Sizes
    <3>2. /\ Len(t) = IF Len(longer) <= historyCapacity THEN Len(longer) ELSE historyCapacity
          /\ \A i \in 1 .. Len(t) : t[i] = longer[i + Len(longer) - Len(t)]
          /\ t # <<>>
      BY <3>1, KeepLastFacts
    <3>3. history' = t
      BY <1>1
    <3> HIDE DEF t
    <3>4. QED
      BY <3>2, <3>3
  <2>2. \A k \in 1 .. Len(longer) : longer[k].step < step'
    <3> SUFFICES ASSUME NEW k \in 1 .. Len(history) + 1 PROVE longer[k].step < step'
      BY <1>5
    <3>1. CASE k = Len(history) + 1
      BY <1>1, <1>2, <1>3, <1>5, <3>1
    <3>2. CASE k # Len(history) + 1
      <4>1. k \in 1 .. Len(history)
        BY <1>5, <3>2
      <4>2. history[k].step < sample.step /\ history[k].step \in Nat /\ longer[k] = history[k]
        BY <1>5, <1>6, <4>1, SampleFields
      <4>3. QED
        BY <1>1, <1>2, <1>3, <4>2
    <3>3. QED
      BY <3>1, <3>2
  <2>3. \A i \in 1 .. Len(history') : i + Len(longer) - Len(history') \in 1 .. Len(longer)
    BY <1>5, <2>1, Sizes
  <2>4. QED
    BY <2>1, <2>2, <2>3
<1>10. Reached' = sample.step + 1
  BY <1>1, <1>2, <1>9 DEF Reached
<1>11. CASE status = "connected"
  <2>1. Reached \in Nat /\ Reached <= message.sample.step
    BY <1>2, <1>3, <1>4 DEF Reached
  <2>2. /\ inbox' = Append(inbox, message) /\ Len(inbox) \in Nat
        /\ Len(inbox') = Len(inbox) + 1 /\ inbox'[Len(inbox) + 1] = message
        /\ \A i \in 1 .. Len(inbox) : inbox'[i] = inbox[i]
    BY <1>1, <1>4, <1>11, AppendedMessage DEF DashboardTypes
  <2>3. Ordered(stream, inbox) /\ Past(stream, inbox, Reached)
    BY <1>11 DEF OrderInv
  <2>4. Ordered(stream, inbox') /\ Past(stream, inbox', sample.step + 1)
    BY <1>4, <2>1, <2>2, <2>3, SendsTelemetry DEF DashboardTypes
  <2>5. (Ordered(stream, inbox) /\ Past(stream, inbox, Reached))'
    BY <1>1, <1>10, <2>4
  <2>6. \A i \in 1 .. Len(inbox') : inbox'[i].type = "history" => Increasing(inbox'[i].samples)
    <3> SUFFICES ASSUME NEW i \in 1 .. Len(inbox) + 1, inbox'[i].type = "history"
                 PROVE  Increasing(inbox'[i].samples)
      BY <2>2
    <3>1. i \in 1 .. Len(inbox)
      BY <1>4, <2>2
    <3>2. QED
      BY <2>2, <3>1 DEF OrderInv
  <2>7. Increasing(stream') /\ latestSample' = LastOf(stream')
    BY <1>1 DEF OrderInv
  <2>8. QED
    BY <1>1, <1>8, <1>9, <1>11, <2>5, <2>6, <2>7 DEF OrderInv
<1>12. CASE status # "connected"
  <2>1. /\ inbox' = inbox /\ inbox = <<>>
        /\ Increasing(stream') /\ latestSample' = LastOf(stream')
    BY <1>1, <1>12 DEF OrderInv
  <2>2. \A i \in 1 .. Len(inbox') : FALSE
    BY <2>1
  <2>3. QED
    BY <1>1, <1>8, <1>9, <1>12, <2>1, <2>2 DEF OrderInv
<1>13. QED
  BY <1>11, <1>12

LEMMA NewFlightArrives_Order ==
  ASSUME DashboardTypes, OrderInv, NewFlightArrives
  PROVE  OrderInv'
<1> DEFINE message == Telemetry(FirstSample, 1)
           reset == ResetMessage
           before == IF history = <<>> THEN inbox ELSE Append(inbox, reset)
<1>1. /\ FirstSample \in Samples /\ FirstSample.step = 0
      /\ reset \in Messages /\ reset.type = "reset"
      /\ step' = 1 /\ history' = <<FirstSample>> /\ Send(NewFlightMessages)
      /\ status' = status /\ latestSample' = latestSample /\ stream' = stream
  BY NewFlightFacts DEF effectVars
<1> HIDE DEF reset
<1>2. message \in Messages /\ message.type = "telemetry" /\ message.sample = FirstSample
  BY <1>1, TelemetryMessage
<1>3. NewFlightMessages = (IF history = <<>> THEN <<>> ELSE <<reset>>) \o <<message>>
  BY DEF NewFlightMessages, reset
<1> HIDE DEF message
<1>4. Increasing(history') /\ history' # <<>>
      /\ \A i \in 1 .. Len(history') : history'[i].step < step'
  <2>1. Len(history') = 1 /\ history'[1] = FirstSample
    BY <1>1
  <2>2. \A i \in 1 .. Len(history') : i = 1
    BY <2>1
  <2>3. \A i, j \in 1 .. Len(history') : ~(i < j)
    BY <2>1
  <2>4. QED
    BY <1>1, <2>1, <2>2, <2>3 DEF Increasing
<1>5. Reached' = message.sample.step + 1
  BY <1>1, <1>2, <1>4 DEF Reached
<1>6. Increasing(stream') /\ latestSample' = LastOf(stream')
  BY <1>1 DEF OrderInv
<1>7. CASE status = "connected"
  <2>1. inbox' = inbox \o NewFlightMessages /\ inbox \in Seq(Messages)
    BY <1>1, <1>7 DEF Send, DashboardTypes
  <2>2. before \in Seq(Messages) /\ inbox' = Append(before, message)
    <3>1. CASE history = <<>>
      <4>1. <<message>> \in Seq(Messages)
        BY <1>2
      <4>2. NewFlightMessages = <<message>>
        BY <1>3, <3>1, <4>1, ConcatEmptySeq
      <4>3. QED
        BY <1>2, <2>1, <3>1, <4>2, AppendedMessage
    <3>2. CASE history # <<>>
      <4>1. <<message>> \in Seq(Messages) /\ <<reset>> \in Seq(Messages)
        BY <1>1, <1>2
      <4>2. inbox' = inbox \o (<<reset>> \o <<message>>)
        BY <1>3, <2>1, <3>2
      <4>3. inbox' = (inbox \o <<reset>>) \o <<message>>
        BY <2>1, <4>1, <4>2, ConcatAssociative
      <4>4. inbox \o <<reset>> = Append(inbox, reset) /\ Append(inbox, reset) \in Seq(Messages)
        BY <1>1, <2>1, AppendedMessage
      <4>5. QED
        BY <1>2, <3>2, <4>3, <4>4, AppendedMessage
    <3>3. QED
      BY <3>1, <3>2
  <2>3. /\ Ordered(stream, before) /\ Past(stream, before, 0)
        /\ \A i \in 1 .. Len(before) : before[i].type = "history" => Increasing(before[i].samples)
    <3>1. /\ Ordered(stream, inbox) /\ Past(stream, inbox, Reached)
          /\ \A i \in 1 .. Len(inbox) : inbox[i].type = "history" => Increasing(inbox[i].samples)
      BY <1>7 DEF OrderInv
    <3>2. CASE history = <<>>
      BY <3>1, <3>2 DEF Reached
    <3>3. CASE history # <<>>
      <4>1. before = Append(inbox, reset)
        BY <3>3
      <4>2. /\ Len(inbox) \in Nat /\ Len(before) = Len(inbox) + 1
            /\ before[Len(inbox) + 1] = reset
            /\ \A i \in 1 .. Len(inbox) : before[i] = inbox[i]
        BY <1>1, <2>1, <4>1, AppendedMessage
      <4>3. Ordered(stream, before) /\ Past(stream, before, 0)
        BY <1>1, <2>1, <3>1, <4>1, SendsReset DEF DashboardTypes
      <4>4. ASSUME NEW i \in 1 .. Len(inbox) + 1, before[i].type = "history"
            PROVE  Increasing(before[i].samples)
        <5>1. i \in 1 .. Len(inbox)
          BY <1>1, <4>2, <4>4
        <5>2. QED
          BY <3>1, <4>2, <4>4, <5>1
      <4>5. QED
        BY <4>2, <4>3, <4>4
    <3>4. QED
      BY <3>2, <3>3
  <2> HIDE DEF before
  <2>4. 0 \in Nat /\ 0 <= message.sample.step
    BY <1>1, <1>2
  <2>5. Ordered(stream, inbox') /\ Past(stream, inbox', message.sample.step + 1)
    BY <1>2, <2>2, <2>3, <2>4, SendsTelemetry DEF DashboardTypes
  <2>6. (Ordered(stream, inbox) /\ Past(stream, inbox, Reached))'
    BY <1>1, <1>5, <2>5
  <2>7. \A i \in 1 .. Len(inbox') : inbox'[i].type = "history" => Increasing(inbox'[i].samples)
    <3>1. /\ Len(before) \in Nat /\ Len(inbox') = Len(before) + 1
          /\ inbox'[Len(before) + 1] = message
          /\ \A i \in 1 .. Len(before) : inbox'[i] = before[i]
      BY <1>2, <2>2, AppendedMessage
    <3> SUFFICES ASSUME NEW i \in 1 .. Len(before) + 1, inbox'[i].type = "history"
                 PROVE  Increasing(inbox'[i].samples)
      BY <3>1
    <3>2. i \in 1 .. Len(before)
      BY <1>2, <3>1
    <3>3. QED
      BY <2>3, <3>1, <3>2
  <2>8. QED
    BY <1>1, <1>4, <1>6, <1>7, <2>6, <2>7 DEF OrderInv
<1>8. CASE status # "connected"
  <2>1. inbox' = inbox /\ inbox = <<>>
    BY <1>1, <1>8 DEF OrderInv, Send
  <2>2. \A i \in 1 .. Len(inbox') : FALSE
    BY <2>1
  <2>3. QED
    BY <1>1, <1>4, <1>6, <1>8, <2>1, <2>2 DEF OrderInv
<1>9. QED
  BY <1>7, <1>8

LEMMA Connection_Order ==
  ASSUME DashboardTypes, OrderInv, ServerRestarts \/ Reconnects \/ Opens \/ Closes
  PROVE  OrderInv'
<1>1. CASE ServerRestarts \/ Reconnects \/ Closes
  <2>1. /\ status' # "connected" /\ inbox' = <<>>
        /\ stream' = stream /\ latestSample' = latestSample
        /\ step' = step /\ (history' = history \/ history' = <<>>)
    BY <1>1 DEF ServerRestarts, Reconnects, Closes, OrderInv, serverVars, effectVars
  <2>2. Len(<<>>) = 0
    OBVIOUS
  <2>3. Increasing(history') /\ \A i \in 1 .. Len(history') : history'[i].step < step'
    BY <2>1, <2>2 DEF OrderInv, Increasing
  <2>4. Increasing(stream') /\ latestSample' = LastOf(stream')
    BY <2>1 DEF OrderInv
  <2>5. QED
    BY <2>1, <2>2, <2>3, <2>4 DEF OrderInv
<1>2. CASE Opens
  <2> DEFINE message == [type |-> "history", samples |-> history, metrics |-> valid]
  <2>1. message \in Messages /\ message.type = "history" /\ message.samples = history
    BY DEF DashboardTypes, Messages
  <2> HIDE DEF message
  <2>2. /\ status' = "connected" /\ inbox' = <<message>>
        /\ stream' = stream /\ latestSample' = latestSample
        /\ step' = step /\ history' = history
    BY <1>2 DEF Opens, serverVars, effectVars, message
  <2>3. \A k \in 1 .. Len(message.samples) : message.samples[k].step < Reached
    <3>1. CASE history = <<>>
      <4>1. Len(message.samples) = 0
        BY <2>1, <3>1
      <4>2. QED
        BY <4>1
    <3>2. CASE history # <<>>
      BY <2>1, <3>2 DEF OrderInv, Reached
    <3>3. QED
      BY <3>1, <3>2
  <2>4. Ordered(stream, <<message>>) /\ Past(stream, <<message>>, Reached)
    BY <2>1, <2>3, SendsHistory DEF DashboardTypes
  <2>5. Reached' = Reached
    BY <2>2 DEF Reached
  <2>6. (Ordered(stream, inbox) /\ Past(stream, inbox, Reached))'
    BY <2>2, <2>4, <2>5
  <2>7. Len(inbox') = 1 /\ inbox'[1] = message
    BY <2>2
  <2>8. \A i \in 1 .. Len(inbox') : inbox'[i].type = "history" => Increasing(inbox'[i].samples)
    <3>1. \A i \in 1 .. Len(inbox') : i = 1
      BY <2>7
    <3>2. QED
      BY <2>1, <2>7, <3>1 DEF OrderInv
  <2>9. /\ Increasing(stream') /\ latestSample' = LastOf(stream') /\ Increasing(history')
        /\ \A i \in 1 .. Len(history') : history'[i].step < step'
    BY <2>2 DEF OrderInv
  <2>10. QED
    BY <2>2, <2>6, <2>8, <2>9 DEF OrderInv
<1>3. QED
  BY <1>1, <1>2

(***************************************************************************)
(* In this order no telemetry message starts a new flight on the page: a   *)
(* reset or a history has come before it.                                  *)
(***************************************************************************)
Retains(sample) ==
  IF shouldRetainSample(latestRetainedSample, sample)
    THEN pending' = Append(pending, sample) /\ latestRetainedSample' = sample
    ELSE pending' = pending /\ latestRetainedSample' = latestRetainedSample

LEMMA MessageAtHand ==
  ASSUME DashboardTypes, OrderInv, HandlesMessage
  PROVE  /\ Head(inbox) = inbox[1] /\ inbox # <<>> /\ Len(inbox) \in Nat \ {0}
         /\ inbox[1] \in Messages /\ inbox \in Seq(Messages)
         /\ \/ TakesHistory(inbox[1]) \/ TakesReset(inbox[1]) \/ TakesTelemetry(inbox[1])
         /\ inbox' = Tail(inbox) /\ Tail(inbox) \in Seq(Messages)
         /\ Len(Tail(inbox)) = Len(inbox) - 1
         /\ \A i \in 1 .. Len(inbox) - 1 : Tail(inbox)[i] = inbox[i + 1]
         /\ pendingMetrics' = inbox[1].metrics /\ frame' = TRUE
         /\ status = "connected"
         /\ UNCHANGED <<serverVars, status, reactVars, replaceLost, breaks>>
<1>1. inbox \in Seq(Messages) /\ inbox # <<>>
  BY DEF HandlesMessage, DashboardTypes
<1>2. Len(inbox) \in Nat \ {0} /\ Head(inbox) = inbox[1]
  BY <1>1, EmptySeq
<1>3. inbox[1] \in Messages
  BY <1>1, <1>2, ElementOfSeq
<1>4. /\ Tail(inbox) \in Seq(Messages) /\ Len(Tail(inbox)) = Len(inbox) - 1
      /\ \A i \in 1 .. Len(Tail(inbox)) : Tail(inbox)[i] = inbox[i + 1]
  BY <1>1, HeadTailProperties
<1>5. status = "connected"
  BY <1>1 DEF OrderInv
<1>6. QED
  BY <1>1, <1>2, <1>3, <1>4, <1>5 DEF HandlesMessage

LEMMA TelemetryContinues ==
  ASSUME DashboardTypes, OrderInv, HandlesMessage, TakesTelemetry(inbox[1])
  PROVE  /\ inbox[1].type = "telemetry" /\ inbox[1].sample \in Samples
         /\ replaceWithHistory' = replaceWithHistory
         /\ Retains(inbox[1].sample)
         /\ latestSample' = inbox[1].sample
         /\ stream' = Append(stream, inbox[1].sample)
         /\ Increasing(Append(stream, inbox[1].sample))
<1> DEFINE sample == inbox[1].sample
<1>1. /\ inbox[1] \in Messages /\ Len(inbox) \in Nat \ {0} /\ status = "connected"
      /\ inbox[1].type = "telemetry"
  BY MessageAtHand DEF TakesTelemetry
<1>2. sample \in Samples /\ sample.step \in Nat
  BY <1>1, MessageFields, SampleFields
<1>3. ASSUME NEW k \in 1 .. Len(stream) PROVE stream[k].step < sample.step
  <2>1. stream[k] \in Samples
    BY ElementOfSeq DEF DashboardTypes
  <2>2. 0 \in 0 .. Len(inbox) /\ 1 \in 1 .. Len(inbox) /\ 0 < 1
    BY <1>1
  <2>3. Brought(stream[k], stream, inbox, 0)
    BY DEF Brought
  <2>4. Continues(inbox, 0, 1)
    <3>1. \A l \in 0 + 1 .. 1 : l = 1
      OBVIOUS
    <3>2. QED
      BY <1>1, <3>1 DEF Continues
  <2>5. Ordered(stream, inbox)
    BY <1>1 DEF OrderInv
  <2>6. QED
    BY <2>1, <2>2, <2>3, <2>4, <2>5 DEF Ordered
<1>4. ~startsNewFlight(latestSample, sample)
  <2>1. CASE stream = <<>>
    BY <2>1, LastFacts DEF OrderInv, startsNewFlight, DashboardTypes
  <2>2. CASE stream # <<>>
    <3>1. Len(stream) \in Nat \ {0} /\ latestSample = stream[Len(stream)]
          /\ latestSample \in Samples
      BY <2>2, LastFacts DEF OrderInv, DashboardTypes
    <3>2. latestSample.step < sample.step /\ latestSample.step \in Nat /\ SECOND \in Nat
      BY <1>3, <3>1, SampleFields, Sizes
    <3> HIDE DEF sample
    <3>3. QED
      BY <1>2, <3>2 DEF startsNewFlight
  <2>3. QED
    BY <2>1, <2>2
<1>5. Increasing(Append(stream, sample))
  BY <1>2, <1>3, IncreasingAppend DEF OrderInv, DashboardTypes
<1>6. /\ replaceWithHistory' = replaceWithHistory /\ Retains(sample)
      /\ latestSample' = sample /\ stream' = Append(stream, sample)
  BY <1>4 DEF TakesTelemetry, Retains, DashboardTypes
<1>7. QED
  BY <1>1, <1>2, <1>5, <1>6

LEMMA HandlesMessage_Order ==
  ASSUME DashboardTypes, OrderInv, HandlesMessage
  PROVE  OrderInv'
<1>1. /\ inbox[1] \in Messages /\ Len(inbox) \in Nat \ {0} /\ inbox \in Seq(Messages)
      /\ inbox # <<>> /\ inbox' = Tail(inbox) /\ Len(inbox') = Len(inbox) - 1
      /\ \A i \in 1 .. Len(inbox) - 1 : inbox'[i] = inbox[i + 1]
      /\ status = "connected" /\ status' = status /\ UNCHANGED serverVars
      /\ TakesHistory(inbox[1]) \/ TakesReset(inbox[1]) \/ TakesTelemetry(inbox[1])
  BY MessageAtHand
<1>2. stream \in Seq(Samples) /\ stream' \in Seq(Samples)
  BY HandlesMessage_Types DEF DashboardTypes
<1>3. \A i \in 1 .. Len(inbox) : inbox[i].type = "history" => Increasing(inbox[i].samples)
  BY DEF OrderInv
<1> DEFINE Read == /\ Increasing(stream') /\ latestSample' = LastOf(stream')
                   /\ \A k \in 1 .. Len(stream') :
                        \/ Brought(stream'[k], stream, inbox, 1)
                        \/ inbox[1].type = "telemetry" /\ Brought(stream'[k], stream, inbox, 0)
<1>4. ASSUME TakesHistory(inbox[1]) PROVE Read
  <2>1. /\ inbox[1].type = "history" /\ stream' = inbox[1].samples
        /\ latestSample' = LastOf(stream')
    BY <1>4 DEF TakesHistory
  <2>2. 1 \in 1 .. Len(inbox)
    BY <1>1
  <2>3. Increasing(stream')
    BY <1>3, <2>1, <2>2
  <2>4. QED
    BY <2>1, <2>3 DEF Brought
<1>5. ASSUME TakesReset(inbox[1]) PROVE Read
  <2>1. stream' = <<>> /\ latestSample' = undefined /\ Len(<<>>) = 0
    BY <1>5 DEF TakesReset
  <2>2. QED
    BY <2>1 DEF Increasing, LastOf
<1>6. ASSUME TakesTelemetry(inbox[1]) PROVE Read
  <2> DEFINE sample == inbox[1].sample
  <2>1. /\ inbox[1].type = "telemetry" /\ sample \in Samples
        /\ latestSample' = sample /\ stream' = Append(stream, sample)
        /\ Increasing(stream')
    BY <1>6, TelemetryContinues
  <2>2. LastOf(stream') = sample
    BY <1>2, <2>1, AppendLast
  <2>3. /\ Len(stream) \in Nat /\ Len(stream') = Len(stream) + 1
        /\ stream'[Len(stream) + 1] = sample
        /\ \A k \in 1 .. Len(stream) : stream'[k] = stream[k]
    BY <1>2, <2>1, Appended
  <2>4. ASSUME NEW k \in 1 .. Len(stream) + 1
        PROVE  \/ Brought(stream'[k], stream, inbox, 1)
               \/ Brought(stream'[k], stream, inbox, 0)
    <3>1. CASE k = Len(stream) + 1
      BY <2>1, <2>3, <3>1 DEF Brought
    <3>2. CASE k # Len(stream) + 1
      <4>1. k \in 1 .. Len(stream)
        BY <2>3, <3>2
      <4>2. QED
        BY <2>3, <4>1 DEF Brought
    <3>3. QED
      BY <3>1, <3>2
  <2>5. QED
    BY <2>1, <2>2, <2>3, <2>4
<1>7. Read
  BY <1>1, <1>4, <1>5, <1>6
<1>8. Ordered(stream, inbox) /\ Past(stream, inbox, Reached)
  BY <1>1 DEF OrderInv
<1>9. Ordered(stream', inbox') /\ Past(stream', inbox', Reached)
  BY <1>1, <1>2, <1>7, <1>8, ReadsFirst
<1>10. Reached' = Reached /\ step' = step /\ history' = history
  BY <1>1 DEF Reached, serverVars
<1>11. (Ordered(stream, inbox) /\ Past(stream, inbox, Reached))'
  BY <1>9, <1>10
<1>12. ASSUME NEW i \in 1 .. Len(inbox'), inbox'[i].type = "history"
       PROVE  Increasing(inbox'[i].samples)
  <2>1. i + 1 \in 1 .. Len(inbox) /\ inbox'[i] = inbox[i + 1]
    BY <1>1
  <2>2. QED
    BY <1>3, <1>12, <2>1
<1>13. /\ Increasing(history')
       /\ \A i \in 1 .. Len(history') : history'[i].step < step'
  BY <1>10 DEF OrderInv
<1>14. QED
  BY <1>1, <1>7, <1>11, <1>12, <1>13 DEF OrderInv

LEMMA Next_Order == DashboardTypes /\ OrderInv /\ [Next]_vars => OrderInv'
<1> SUFFICES ASSUME DashboardTypes, OrderInv, [Next]_vars PROVE OrderInv'
  OBVIOUS
<1>1. CASE UNCHANGED <<history, step, inbox, stream, latestSample, status>>
  <2>1. Reached' = Reached
    BY <1>1 DEF Reached
  <2>2. QED
    BY <1>1, <2>1 DEF OrderInv
<1>2. ASSUME NEW lost \in 0 .. 1, NEW nextPhase \in 1 .. LANDED, NEW nextFault \in BOOLEAN,
             SampleArrives(lost, nextPhase, nextFault)
      PROVE  OrderInv'
  BY <1>2, SampleArrives_Order
<1>3. CASE NewFlightArrives
  BY <1>3, NewFlightArrives_Order
<1>4. CASE ServerRestarts \/ Reconnects \/ Opens \/ Closes
  BY <1>4, Connection_Order
<1>5. CASE HandlesMessage
  BY <1>5, HandlesMessage_Order
<1>6. CASE Flush \/ Renders \/ UNCHANGED vars
  BY <1>1, <1>6 DEF Flush, Renders, vars, serverVars, effectVars
<1>7. QED
  BY <1>2, <1>3, <1>4, <1>5, <1>6 DEF Next

-----------------------------------------------------------------------------
(***************************************************************************)
(* The metrics and the packet age.  The server's latest metrics are in the *)
(* last message on the way, else wait for the frame, else are shown.       *)
(***************************************************************************)
LatestMetrics ==
  status = "connected" =>
    valid = IF inbox # <<>> THEN Last(inbox).metrics
            ELSE IF frame THEN pendingMetrics ELSE metrics

PacketAge ==
  /\ ~frame => ~replaceWithHistory /\ pending = <<>>
  /\ replaceWithHistory => (pending = <<>> <=> stream = <<>>)
  /\ ~replaceWithHistory =>
       /\ pending # <<>> => stream # <<>>
       /\ pending = <<>> => (lastPacketAt <=> stream # <<>>)

(* The latest retained sample shows the present phase and faults.          *)
Retained ==
  /\ latestRetainedSample = undefined <=> stream = <<>>
  /\ stream # <<>> => /\ latestRetainedSample.phase = Last(stream).phase
                      /\ latestRetainedSample.fault = Last(stream).fault

LEMMA KeepLastLast ==
  ASSUME NEW s \in Seq(Samples), NEW n \in Nat \ {0}
  PROVE  LastOf(KeepLast(s, n)) = LastOf(s)
<1> DEFINE t == KeepLast(s, n)
<1>1. /\ t \in Seq(Samples) /\ (t = <<>> <=> s = <<>>)
      /\ Len(t) = IF Len(s) <= n THEN Len(s) ELSE n
      /\ \A i \in 1 .. Len(t) : t[i] = s[i + Len(s) - Len(t)]
  BY KeepLastFacts
<1> HIDE DEF t
<1>2. ASSUME s = <<>> PROVE LastOf(t) = LastOf(s)
  BY <1>1, <1>2, LastFacts
<1>3. ASSUME s # <<>> PROVE LastOf(t) = LastOf(s)
  <2>1. /\ Len(t) \in Nat \ {0} /\ LastOf(t) = t[Len(t)]
        /\ Len(s) \in Nat \ {0} /\ LastOf(s) = s[Len(s)]
    BY <1>1, <1>3, LastFacts
  <2>2. Len(t) \in 1 .. Len(t) /\ Len(t) + Len(s) - Len(t) = Len(s)
    BY <2>1
  <2>3. QED
    BY <1>1, <2>1, <2>2
<1>4. LastOf(t) = LastOf(s)
  BY <1>1, <1>2, <1>3
<1>5. QED
  BY <1>4 DEF t

LEMMA HistoryTaken ==
  ASSUME DashboardTypes, OrderInv, HandlesMessage, TakesHistory(inbox[1])
  PROVE  /\ stream' \in Seq(Samples) /\ replaceWithHistory' = TRUE
         /\ displaySamples(stream') \in Seq(Samples)
         /\ Reduces(displaySamples(stream'), stream')
         /\ pending' = KeepLast(displaySamples(stream'), MAX_CLIENT_SAMPLES)
         /\ pending' \in Seq(Samples)
         /\ LastOf(pending') = LastOf(stream') /\ latestRetainedSample' = LastOf(stream')
         /\ pending' = <<>> <=> stream' = <<>>
<1>1. /\ inbox[1] \in Messages /\ inbox[1].type = "history" /\ 1 \in 1 .. Len(inbox)
      /\ stream' = inbox[1].samples
      /\ pending' = KeepLast(displaySamples(inbox[1].samples), MAX_CLIENT_SAMPLES)
      /\ latestRetainedSample' = LastOf(pending') /\ replaceWithHistory' = TRUE
  BY MessageAtHand DEF TakesHistory
<1>2. stream' \in Seq(Samples) /\ Increasing(stream')
  BY <1>1, MessageFields DEF OrderInv
<1> DEFINE shown == displaySamples(stream')
<1>3. shown \in Seq(Samples) /\ Reduces(shown, stream') /\ LastOf(shown) = LastOf(stream')
  BY <1>2, displaySamplesReduces
<1>4. pending' = KeepLast(shown, MAX_CLIENT_SAMPLES)
  BY <1>1
<1> HIDE DEF shown
<1>5. /\ KeepLast(shown, MAX_CLIENT_SAMPLES) \in Seq(Samples)
      /\ KeepLast(shown, MAX_CLIENT_SAMPLES) = <<>> <=> shown = <<>>
      /\ LastOf(KeepLast(shown, MAX_CLIENT_SAMPLES)) = LastOf(shown)
  BY <1>3, KeepLastFacts, KeepLastLast, Sizes
<1>6. shown = <<>> <=> stream' = <<>>
  BY <1>3 DEF Reduces
<1>7. /\ stream' \in Seq(Samples) /\ replaceWithHistory' = TRUE
      /\ shown \in Seq(Samples) /\ Reduces(shown, stream')
      /\ pending' = KeepLast(shown, MAX_CLIENT_SAMPLES)
      /\ pending' \in Seq(Samples)
      /\ LastOf(pending') = LastOf(stream') /\ latestRetainedSample' = LastOf(stream')
      /\ pending' = <<>> <=> stream' = <<>>
  BY <1>1, <1>2, <1>3, <1>4, <1>5, <1>6
<1>8. QED
  BY <1>7 DEF shown

LEMMA HandlesMessage_Page ==
  ASSUME DashboardTypes, OrderInv, LatestMetrics, PacketAge, Retained, HandlesMessage
  PROVE  LatestMetrics' /\ PacketAge' /\ Retained'
<1>1. /\ inbox[1] \in Messages /\ Len(inbox) \in Nat \ {0}
      /\ inbox' = Tail(inbox) /\ Len(inbox') = Len(inbox) - 1
      /\ inbox' \in Seq(Messages)
      /\ \A i \in 1 .. Len(inbox) - 1 : inbox'[i] = inbox[i + 1]
      /\ pendingMetrics' = inbox[1].metrics /\ frame' = TRUE
      /\ valid' = valid /\ metrics' = metrics /\ lastPacketAt' = lastPacketAt
      /\ status = "connected" /\ inbox # <<>>
      /\ TakesHistory(inbox[1]) \/ TakesReset(inbox[1]) \/ TakesTelemetry(inbox[1])
  BY MessageAtHand DEF serverVars, reactVars
<1>2. stream \in Seq(Samples) /\ stream' \in Seq(Samples) /\ pending \in Seq(Samples)
  BY HandlesMessage_Types DEF DashboardTypes
<1>3. LatestMetrics'
  <2>1. valid = inbox[Len(inbox)].metrics
    BY <1>1 DEF LatestMetrics, Last
  <2>2. CASE inbox' = <<>>
    <3>1. Len(inbox') = 0
      BY <2>2
    <3>2. Len(inbox) = 1
      BY <1>1, <3>1
    <3>3. QED
      BY <1>1, <2>1, <2>2, <3>2 DEF LatestMetrics
  <2>3. CASE inbox' # <<>>
    <3>1. Len(inbox') \in Nat \ {0}
      BY <1>1, <2>3, EmptySeq
    <3>2. inbox'[Len(inbox')] = inbox[Len(inbox)]
      BY <1>1, <3>1
    <3>3. QED
      BY <1>1, <2>1, <2>3, <3>2 DEF LatestMetrics, Last
  <2>4. QED
    BY <2>2, <2>3
<1>4. PacketAge' /\ Retained'
  <2>1. CASE TakesHistory(inbox[1])
    <3>1. /\ replaceWithHistory' = TRUE /\ (pending' = <<>> <=> stream' = <<>>)
          /\ latestRetainedSample' = LastOf(stream')
      BY <2>1, HistoryTaken
    <3>2. /\ latestRetainedSample' = undefined <=> stream' = <<>>
          /\ stream' # <<>> => latestRetainedSample' = Last(stream')
      BY <1>2, <3>1, LastFacts DEF LastOf
    <3>3. QED
      BY <1>1, <3>1, <3>2 DEF PacketAge, Retained
  <2>2. CASE TakesReset(inbox[1])
    <3>1. /\ replaceWithHistory' = TRUE /\ pending' = <<>> /\ stream' = <<>>
          /\ latestRetainedSample' = undefined
      BY <2>2 DEF TakesReset
    <3>2. QED
      BY <1>1, <3>1 DEF PacketAge, Retained
  <2>3. CASE TakesTelemetry(inbox[1])
    <3> DEFINE sample == inbox[1].sample
    <3>1. /\ sample \in Samples /\ replaceWithHistory' = replaceWithHistory
          /\ Retains(sample) /\ stream' = Append(stream, sample)
      BY <2>3, TelemetryContinues
    <3> HIDE DEF sample
    <3>2. stream' # <<>> /\ Last(stream') = sample
      BY <1>2, <3>1, Appended
    <3>3. CASE shouldRetainSample(latestRetainedSample, sample)
      <4>1. pending' = Append(pending, sample) /\ latestRetainedSample' = sample
        BY <3>1, <3>3 DEF Retains
      <4>2. pending' # <<>> /\ sample # undefined
        BY <1>2, <3>1, <4>1, Appended, SampleFields
      <4>3. QED
        BY <1>1, <3>2, <4>1, <4>2 DEF PacketAge, Retained
    <3>4. CASE ~shouldRetainSample(latestRetainedSample, sample)
      <4>1. pending' = pending /\ latestRetainedSample' = latestRetainedSample
        BY <3>1, <3>4 DEF Retains
      <4>2. /\ latestRetainedSample # undefined
            /\ latestRetainedSample.phase = sample.phase
            /\ latestRetainedSample.fault = sample.fault
        BY <3>4 DEF shouldRetainSample
      <4>3. stream # <<>>
        BY <4>2 DEF Retained
      <4>4. QED
        BY <1>1, <3>1, <3>2, <4>1, <4>2, <4>3 DEF PacketAge, Retained
    <3>5. QED
      BY <3>3, <3>4
  <2>4. QED
    BY <1>1, <2>1, <2>2, <2>3
<1>5. QED
  BY <1>3, <1>4

LEMMA Flush_Page ==
  ASSUME DashboardTypes, OrderInv, LatestMetrics, PacketAge, Retained, Flush
  PROVE  LatestMetrics' /\ PacketAge' /\ Retained'
<1>1. /\ frame /\ frame' = FALSE /\ metrics' = pendingMetrics
      /\ status' = status /\ valid' = valid /\ inbox' = inbox
      /\ latestRetainedSample' = latestRetainedSample /\ stream' = stream
      /\ FlushSamples \/ FlushMetrics
  BY DEF Flush, serverVars
<1>2. LatestMetrics' /\ Retained'
  BY <1>1 DEF LatestMetrics, Retained
<1>3. PacketAge'
  <2>1. CASE FlushSamples
    <3>1. /\ pending' = <<>> /\ replaceWithHistory' = FALSE
          /\ lastPacketAt' = (pending # <<>>)
          /\ replaceWithHistory \/ pending # <<>>
      BY <2>1 DEF FlushSamples
    <3>2. lastPacketAt' <=> stream # <<>>
      BY <3>1 DEF PacketAge
    <3>3. QED
      BY <1>1, <3>1, <3>2 DEF PacketAge
  <2>2. CASE FlushMetrics
    <3>1. /\ ~replaceWithHistory /\ pending = <<>>
          /\ UNCHANGED <<pending, replaceWithHistory, lastPacketAt>>
      BY <2>2 DEF FlushMetrics
    <3>2. QED
      BY <1>1, <3>1 DEF PacketAge
  <2>3. QED
    BY <1>1, <2>1, <2>2
<1>4. QED
  BY <1>2, <1>3

LEMMA Sends_Page ==
  ASSUME DashboardTypes, OrderInv, LatestMetrics, PacketAge, Retained,
         NEW ms \in Seq(Messages), NEW m \in Messages, m.metrics = valid',
         status = "connected" => inbox' = Append(ms, m),
         UNCHANGED <<status, frame, effectVars, reactVars>>
  PROVE  LatestMetrics' /\ PacketAge' /\ Retained'
<1>1. /\ Append(ms, m) \in Seq(Messages) /\ Append(ms, m) # <<>>
      /\ Last(Append(ms, m)) = m
  BY AppendProperties DEF Last
<1>2. LatestMetrics'
  BY <1>1 DEF LatestMetrics
<1>3. PacketAge' /\ Retained'
  BY DEF PacketAge, Retained, effectVars, reactVars
<1>4. QED
  BY <1>2, <1>3

LEMMA Next_Page ==
  DashboardTypes /\ OrderInv /\ LatestMetrics /\ PacketAge /\ Retained /\ [Next]_vars
    => LatestMetrics' /\ PacketAge' /\ Retained'
<1> SUFFICES ASSUME DashboardTypes, OrderInv, LatestMetrics, PacketAge, Retained, [Next]_vars
             PROVE  LatestMetrics' /\ PacketAge' /\ Retained'
  OBVIOUS
<1>1. ASSUME NEW lost \in 0 .. 1, NEW nextPhase \in 1 .. LANDED, NEW nextFault \in BOOLEAN,
             SampleArrives(lost, nextPhase, nextFault)
      PROVE  LatestMetrics' /\ PacketAge' /\ Retained'
  <2> DEFINE sample == [flight |-> flight, step |-> step + lost,
                        phase |-> nextPhase, fault |-> nextFault]
             message == Telemetry(sample, valid + 1)
  <2>1. sample \in Samples
    BY <1>1, Sizes DEF SampleArrives, DashboardTypes, Samples
  <2>2. valid + 1 \in Nat /\ inbox \in Seq(Messages)
    BY DEF DashboardTypes
  <2>3. /\ valid' = valid + 1 /\ Send(<<message>>)
        /\ UNCHANGED <<status, frame, effectVars, reactVars>>
    BY <1>1 DEF SampleArrives
  <2> HIDE DEF sample
  <2>4. message \in Messages /\ message.metrics = valid + 1
    BY <2>1, <2>2, TelemetryMessage
  <2> HIDE DEF message
  <2>5. status = "connected" => inbox' = Append(inbox, message)
    BY <2>2, <2>3, <2>4, AppendedMessage DEF Send
  <2>6. QED
    BY <2>2, <2>3, <2>4, <2>5, Sends_Page
<1>2. CASE NewFlightArrives
  <2> DEFINE message == Telemetry(FirstSample, 1)
             before == inbox \o (IF history = <<>> THEN <<>> ELSE <<ResetMessage>>)
  <2>1. /\ FirstSample \in Samples /\ ResetMessage \in Messages
        /\ Send(NewFlightMessages) /\ valid' = 1
        /\ UNCHANGED <<status, frame, effectVars, reactVars>>
    BY <1>2, NewFlightFacts DEF NewFlightArrives
  <2>2. message \in Messages /\ message.metrics = 1
    BY <2>1, TelemetryMessage
  <2>3. NewFlightMessages =
          (IF history = <<>> THEN <<>> ELSE <<ResetMessage>>) \o <<message>>
    BY DEF NewFlightMessages
  <2> HIDE DEF message
  <2>4. /\ inbox \in Seq(Messages) /\ <<message>> \in Seq(Messages)
        /\ (IF history = <<>> THEN <<>> ELSE <<ResetMessage>>) \in Seq(Messages)
    BY <2>1, <2>2 DEF DashboardTypes
  <2>5. before \in Seq(Messages) /\ inbox \o NewFlightMessages = before \o <<message>>
    BY <2>3, <2>4, ConcatProperties, ConcatAssociative
  <2> HIDE DEF before
  <2>6. status = "connected" => inbox' = Append(before, message)
    BY <2>1, <2>2, <2>5, AppendedMessage DEF Send
  <2>7. QED
    BY <2>1, <2>2, <2>5, <2>6, Sends_Page
<1>3. CASE ServerRestarts \/ Reconnects \/ Closes
  <2>1. status' # "connected" /\ UNCHANGED <<frame, effectVars, reactVars>>
    BY <1>3 DEF ServerRestarts, Reconnects, Closes
  <2>2. QED
    BY <2>1 DEF LatestMetrics, PacketAge, Retained, effectVars, reactVars
<1>4. CASE Opens
  <2> DEFINE message == [type |-> "history", samples |-> history, metrics |-> valid]
  <2>1. inbox' = <<message>> /\ UNCHANGED <<frame, valid, effectVars, reactVars>>
    BY <1>4 DEF Opens, serverVars
  <2>2. <<message>> # <<>> /\ Last(<<message>>) = message /\ message.metrics = valid
    BY DEF Last
  <2> HIDE DEF message
  <2>3. LatestMetrics'
    BY <2>1, <2>2 DEF LatestMetrics
  <2>4. QED
    BY <2>1, <2>3 DEF PacketAge, Retained, effectVars, reactVars
<1>5. CASE HandlesMessage
  BY <1>5, HandlesMessage_Page
<1>6. CASE Flush
  BY <1>6, Flush_Page
<1>7. CASE Renders \/ UNCHANGED vars
  <2>1. UNCHANGED <<serverVars, status, inbox, effectVars, frame, metrics, lastPacketAt>>
    BY <1>7 DEF Renders, vars, reactVars
  <2>2. QED
    BY <2>1 DEF LatestMetrics, PacketAge, Retained, effectVars, serverVars
<1>8. QED
  BY <1>1, <1>2, <1>3, <1>4, <1>5, <1>6, <1>7 DEF Next

-----------------------------------------------------------------------------
(***************************************************************************)
(* Lists cut at the front.                                                 *)
(***************************************************************************)
LEMMA Joined ==
  ASSUME NEW a \in Seq(Samples), NEW b \in Seq(Samples)
  PROVE  /\ a \o b \in Seq(Samples) /\ Len(a) \in Nat /\ Len(b) \in Nat
         /\ Len(a \o b) = Len(a) + Len(b)
         /\ \A i \in 1 .. Len(a) : (a \o b)[i] = a[i] /\ a[i] \in Samples
         /\ \A i \in 1 .. Len(b) : (a \o b)[Len(a) + i] = b[i] /\ b[i] \in Samples
<1> DEFINE t == a \o b
<1>1. /\ t \in Seq(Samples) /\ Len(t) = Len(a) + Len(b)
      /\ \A i \in 1 .. Len(a) + Len(b) : t[i] = IF i <= Len(a) THEN a[i] ELSE b[i - Len(a)]
  BY ConcatProperties
<1>2. Len(a) \in Nat /\ Len(b) \in Nat
  BY LenProperties
<1> HIDE DEF t
<1>3. ASSUME NEW i \in 1 .. Len(a) PROVE t[i] = a[i] /\ a[i] \in Samples
  BY <1>1, <1>2, ElementOfSeq
<1>4. ASSUME NEW i \in 1 .. Len(b) PROVE t[Len(a) + i] = b[i] /\ b[i] \in Samples
  <2>1. Len(a) + i \in 1 .. Len(a) + Len(b) /\ ~(Len(a) + i <= Len(a))
        /\ (Len(a) + i) - Len(a) = i
    BY <1>2
  <2>2. t[Len(a) + i] = b[i]
    BY <1>1, <2>1
  <2>3. QED
    BY <2>2, ElementOfSeq
<1>5. QED
  BY <1>1, <1>2, <1>3, <1>4 DEF t

LEMMA Regrouped ==
  ASSUME NEW a \in Seq(Samples), NEW b \in Seq(Samples), NEW c \in Seq(Samples)
  PROVE  (a \o b) \o c = a \o (b \o c)
BY ConcatAssociative

(* Of two ends of a list, the longer one ends in the shorter.              *)
Parts(all, front, end) == all = front \o end

LEMMA LongerEnd ==
  ASSUME NEW a \in Seq(Samples), NEW b \in Seq(Samples),
         NEW c \in Seq(Samples), NEW e \in Seq(Samples), NEW all,
         Parts(all, a, b), Parts(all, c, e), Len(b) <= Len(e)
  PROVE  \E m \in Seq(Samples) : Parts(e, m, b) /\ Parts(a, c, m)
<1> DEFINE s == a \o b
           k == Len(e) - Len(b)
           m == SubSeq(e, 1, k)
<1>0. s = c \o e
  BY DEF Parts
<1>1. /\ Len(a) \in Nat /\ Len(b) \in Nat /\ Len(s) = Len(a) + Len(b)
      /\ \A i \in 1 .. Len(a) : s[i] = a[i]
      /\ \A i \in 1 .. Len(b) : s[Len(a) + i] = b[i]
  BY Joined
<1>2. /\ Len(c) \in Nat /\ Len(e) \in Nat /\ Len(s) = Len(c) + Len(e)
      /\ \A i \in 1 .. Len(c) : s[i] = c[i]
      /\ \A i \in 1 .. Len(e) : s[Len(c) + i] = e[i] /\ e[i] \in Samples
  BY <1>0, Joined
<1> HIDE DEF s
<1>3. k \in Nat /\ k <= Len(e) /\ Len(e) = k + Len(b) /\ Len(a) = Len(c) + k
  <2>1. /\ Len(a) \in Nat /\ Len(b) \in Nat /\ Len(c) \in Nat /\ Len(e) \in Nat
        /\ Len(a) + Len(b) = Len(c) + Len(e)
    BY <1>1, <1>2
  <2>2. QED
    BY <2>1
<1> HIDE DEF k
<1>4. m \in Seq(Samples) /\ Len(m) = k /\ \A i \in 1 .. k : m[i] = e[i]
  <2>1. k \in Int /\ \A i \in 1 .. k : e[i] \in Samples
    BY <1>2, <1>3
  <2>2. /\ m \in Seq(Samples) /\ Len(m) = IF 1 <= k THEN k - 1 + 1 ELSE 0
        /\ \A i \in 1 .. k - 1 + 1 : m[i] = e[1 + i - 1]
    BY <2>1, SubSeqProperties
  <2> HIDE DEF m
  <2>3. QED
    BY <1>3, <2>2
<1> HIDE DEF m
<1>5. e = m \o b
  <2> DEFINE t == m \o b
  <2>1. /\ t \in Seq(Samples) /\ Len(t) = k + Len(b)
        /\ \A i \in 1 .. k : t[i] = m[i]
        /\ \A i \in 1 .. Len(b) : t[k + i] = b[i]
    <3>1. /\ t \in Seq(Samples) /\ Len(t) = Len(m) + Len(b)
          /\ \A i \in 1 .. Len(m) : t[i] = m[i]
          /\ \A i \in 1 .. Len(b) : t[Len(m) + i] = b[i]
      <4>1. m \in Seq(Samples)
        BY <1>4
      <4>2. QED
        BY <4>1, Joined
    <3> HIDE DEF t
    <3>2. QED
      BY <1>4, <3>1
  <2> HIDE DEF t
  <2>2. ASSUME NEW i \in 1 .. Len(e) PROVE e[i] = t[i]
    <3>1. CASE i <= k
      <4>1. i \in 1 .. k
        BY <3>1
      <4>2. QED
        BY <1>4, <2>1, <4>1
    <3>2. CASE i > k
      <4>1. i - k \in 1 .. Len(b) /\ k + (i - k) = i /\ Len(a) + (i - k) = Len(c) + i
        BY <1>1, <1>2, <1>3, <3>2
      <4>2. t[i] = b[i - k] /\ s[Len(c) + i] = b[i - k]
        BY <1>1, <2>1, <4>1
      <4>3. QED
        BY <1>2, <4>2
    <3>3. QED
      BY <1>3, <3>1, <3>2
  <2>3. e = t
    BY <1>3, <2>1, <2>2, SeqEqual
  <2>4. QED
    BY <2>3 DEF t
<1>6. a = c \o m
  <2> DEFINE t == c \o m
  <2>1. /\ t \in Seq(Samples) /\ Len(t) = Len(c) + k
        /\ \A i \in 1 .. Len(c) : t[i] = c[i]
        /\ \A i \in 1 .. k : t[Len(c) + i] = m[i]
    BY <1>4, Joined
  <2> HIDE DEF t
  <2>2. ASSUME NEW i \in 1 .. Len(a) PROVE a[i] = t[i]
    <3>1. CASE i <= Len(c)
      <4>1. i \in 1 .. Len(c)
        BY <3>1
      <4>2. QED
        BY <1>1, <1>2, <2>1, <4>1
    <3>2. CASE i > Len(c)
      <4> DEFINE j == i - Len(c)
      <4>1. j \in 1 .. k /\ j \in 1 .. Len(e) /\ Len(c) + j = i
        BY <1>1, <1>2, <1>3, <3>2
      <4> HIDE DEF j
      <4>2. s[i] = e[j] /\ t[i] = m[j] /\ m[j] = e[j]
        BY <1>2, <1>4, <2>1, <4>1
      <4>3. QED
        BY <1>1, <4>2
    <3>3. QED
      BY <1>2, <3>1, <3>2
  <2>3. a = t
    BY <1>3, <2>1, <2>2, SeqEqual
  <2>4. QED
    BY <2>3 DEF t
<1>7. QED
  BY <1>4, <1>5, <1>6 DEF Parts

LEMMA TwoEnds ==
  ASSUME NEW a \in Seq(Samples), NEW b \in Seq(Samples),
         NEW c \in Seq(Samples), NEW e \in Seq(Samples), NEW all,
         Parts(all, a, b), Parts(all, c, e)
  PROVE  \/ \E m \in Seq(Samples) : Parts(e, m, b) /\ Parts(a, c, m)
         \/ \E m \in Seq(Samples) : Parts(b, m, e) /\ Parts(c, a, m)
<1>1. Len(b) <= Len(e) \/ Len(e) <= Len(b)
  BY LenProperties
<1>2. CASE Len(b) <= Len(e)
  BY <1>2, LongerEnd
<1>3. CASE Len(e) <= Len(b)
  BY <1>3, LongerEnd
<1>4. QED
  BY <1>1, <1>2, <1>3

LEMMA KeepLastSplit ==
  ASSUME NEW s \in Seq(Samples), NEW n \in Nat \ {0}
  PROVE  \E cut \in Seq(Samples) :
           s = cut \o KeepLast(s, n) /\ (cut # <<>> => Len(KeepLast(s, n)) = n)
<1> DEFINE t == KeepLast(s, n)
<1>1. Len(s) \in Nat /\ n \in Nat /\ n > 0
  BY LenProperties
<1>2. CASE Len(s) <= n
  <2>1. t = s
    BY <1>2, KeepLastFacts
  <2>2. s = <<>> \o t
    BY <2>1, ConcatEmptySeq
  <2>3. <<>> \in Seq(Samples)
    OBVIOUS
  <2>4. QED
    BY <2>2, <2>3
<1>3. CASE Len(s) > n
  <2> DEFINE k == Len(s) - n
             cut == SubSeq(s, 1, k)
  <2>1. k \in Nat \ {0} /\ k <= Len(s)
    BY <1>1, <1>3
  <2>2. t = SubSeq(s, k + 1, Len(s))
    BY <1>1, <1>3 DEF KeepLast
  <2>3. Len(t) = n
    BY <1>1, <1>3, KeepLastFacts
  <2> HIDE DEF k, t
  <2>4. cut \in Seq(Samples)
    <3>1. 1 \in Int /\ k \in Int /\ \A i \in 1 .. k : s[i] \in Samples
      BY <1>1, <2>1, ElementOfSeq
    <3>2. QED
      BY <3>1, SubSeqProperties
  <2>5. cut \o t = SubSeq(s, 1, Len(s))
    <3>1. 1 \in 1 .. Len(s) + 1 /\ k \in 1 - 1 .. Len(s) /\ Len(s) \in k .. Len(s)
      BY <1>1, <2>1
    <3>2. QED
      BY <2>2, <3>1, ConcatAdjacentSubSeq
  <2>6. s = cut \o t
    BY <2>5, SubSeqFull
  <2>7. QED
    BY <2>3, <2>4, <2>6 DEF t
<1>4. Len(s) <= n \/ Len(s) > n
  BY <1>1
<1>5. QED
  BY <1>2, <1>3, <1>4, Zenon

-----------------------------------------------------------------------------
(***************************************************************************)
(* What is left of a list that reduces a stream, once older samples have   *)
(* been dropped because the list was full.                                 *)
(***************************************************************************)
Left(list, s) ==
  \E cut \in Seq(Samples) :
    Reduces(cut \o list, s) /\ (cut # <<>> => Len(list) >= MAX_CLIENT_SAMPLES)

EndsIn(all, s) ==
  \E before \in Seq(Samples), list \in Seq(Samples) : all = before \o list /\ Left(list, s)

LEMMA LeftWhole ==
  ASSUME NEW list \in Seq(Samples), NEW s, Reduces(list, s)
  PROVE  Left(list, s)
<1>1. <<>> \o list = list /\ <<>> \in Seq(Samples)
  BY ConcatEmptySeq
<1>2. Reduces(<<>> \o list, s)
  BY <1>1
<1>3. QED
  BY <1>1, <1>2 DEF Left

(* The message handler keeps a sample or skips it.                         *)
LEMMA LeftKept ==
  ASSUME NEW list \in Seq(Samples), NEW s \in Seq(Samples), NEW x \in Samples,
         Left(list, s), Increasing(Append(s, x))
  PROVE  Left(Append(list, x), Append(s, x))
<1>1. PICK cut \in Seq(Samples) :
        Reduces(cut \o list, s) /\ (cut # <<>> => Len(list) >= MAX_CLIENT_SAMPLES)
  BY DEF Left
<1>2. cut \o list \in Seq(Samples) /\ <<x>> \in Seq(Samples)
  BY ConcatProperties
<1>3. /\ Append(cut \o list, x) = (cut \o list) \o <<x>>
      /\ Append(list, x) = list \o <<x>>
  BY <1>2, AppendIsConcat
<1>4. Append(cut \o list, x) = cut \o Append(list, x)
  BY <1>2, <1>3, ConcatAssociative
<1> DEFINE all == cut \o list
<1>5. all \in Seq(Samples) /\ Reduces(all, s) /\ Append(all, x) = cut \o Append(list, x)
  BY <1>1, <1>2, <1>4
<1> HIDE DEF all
<1>6. Reduces(Append(all, x), Append(s, x))
  BY <1>5, ReducesKept
<1>7. Reduces(cut \o Append(list, x), Append(s, x))
  BY <1>5, <1>6
<1>8. Len(Append(list, x)) = Len(list) + 1 /\ Len(list) \in Nat
  BY Appended
<1>9. cut # <<>> => Len(Append(list, x)) >= MAX_CLIENT_SAMPLES
  BY <1>1, <1>8, Sizes
<1>10. QED
  BY <1>7, <1>9 DEF Left

LEMMA LeftSkipped ==
  ASSUME NEW list \in Seq(Samples), NEW s \in Seq(Samples), NEW x \in Samples,
         Left(list, s), s # <<>>, x.phase = Last(s).phase, x.fault = Last(s).fault,
         x.phase # LANDED, x.step % stride # 0
  PROVE  Left(list, Append(s, x))
<1>1. PICK cut \in Seq(Samples) :
        Reduces(cut \o list, s) /\ (cut # <<>> => Len(list) >= MAX_CLIENT_SAMPLES)
  BY DEF Left
<1> DEFINE all == cut \o list
<1>2. all \in Seq(Samples) /\ Reduces(all, s)
  BY <1>1, ConcatProperties
<1> HIDE DEF all
<1>3. Reduces(all, Append(s, x))
  BY <1>2, ReducesSkipped
<1>4. Reduces(cut \o list, Append(s, x))
  BY <1>3 DEF all
<1>5. QED
  BY <1>1, <1>4 DEF Left

LEMMA RetainsSample ==
  ASSUME NEW list \in Seq(Samples), NEW x \in Samples, stream \in Seq(Samples),
         Left(list, stream), Retained, Increasing(Append(stream, x))
  PROVE  /\ Left(Append(list, x), Append(stream, x))
         /\ ~shouldRetainSample(latestRetainedSample, x) => Left(list, Append(stream, x))
<1>1. Left(Append(list, x), Append(stream, x))
  BY LeftKept
<1>2. ASSUME ~shouldRetainSample(latestRetainedSample, x)
      PROVE  Left(list, Append(stream, x))
  <2>1. /\ latestRetainedSample # undefined
        /\ x.phase = latestRetainedSample.phase /\ x.fault = latestRetainedSample.fault
        /\ x.phase # LANDED /\ x.step % stride # 0
    BY <1>2 DEF shouldRetainSample
  <2>2. stream # <<>> /\ x.phase = Last(stream).phase /\ x.fault = Last(stream).fault
    BY <2>1 DEF Retained
  <2>3. QED
    BY <2>1, <2>2, LeftSkipped
<1>3. QED
  BY <1>1, <1>2

(* A list that keeps its newest samples when it is full.                   *)
LEMMA LeftDropped ==
  ASSUME NEW drop \in Seq(Samples), NEW list \in Seq(Samples), NEW s,
         Left(drop \o list, s), drop # <<>> => Len(list) >= MAX_CLIENT_SAMPLES
  PROVE  Left(list, s)
<1>1. PICK cut \in Seq(Samples) :
        /\ Reduces(cut \o (drop \o list), s)
        /\ cut # <<>> => Len(drop \o list) >= MAX_CLIENT_SAMPLES
  BY DEF Left
<1>2. cut \o drop \in Seq(Samples) /\ (cut \o drop) \o list = cut \o (drop \o list)
  BY ConcatProperties, ConcatAssociative
<1>3. Reduces((cut \o drop) \o list, s)
  BY <1>1, <1>2
<1>4. CASE drop = <<>>
  <2>1. drop \o list = list /\ cut \o drop = cut
    BY <1>4, ConcatEmptySeq
  <2>2. QED
    BY <1>1, <2>1 DEF Left
<1>5. CASE drop # <<>>
  BY <1>2, <1>3, <1>5 DEF Left
<1>6. QED
  BY <1>4, <1>5

LEMMA LeftKeepLast ==
  ASSUME NEW list \in Seq(Samples), NEW s, Left(list, s)
  PROVE  Left(KeepLast(list, MAX_CLIENT_SAMPLES), s)
<1> DEFINE kept == KeepLast(list, MAX_CLIENT_SAMPLES)
<1>1. kept \in Seq(Samples)
  BY KeepLastFacts, Sizes
<1>2. PICK cut \in Seq(Samples) :
        list = cut \o kept /\ (cut # <<>> => Len(kept) = MAX_CLIENT_SAMPLES)
  BY KeepLastSplit, Sizes
<1> HIDE DEF kept
<1>3. Left(cut \o kept, s) /\ (cut # <<>> => Len(kept) >= MAX_CLIENT_SAMPLES)
  BY <1>2, Sizes
<1>4. Left(kept, s)
  BY <1>1, <1>3, LeftDropped
<1>5. QED
  BY <1>4 DEF kept

LEMMA EndsInLeft ==
  ASSUME NEW before \in Seq(Samples), NEW list \in Seq(Samples), NEW s, Left(list, s)
  PROVE  EndsIn(before \o list, s) /\ EndsIn(list, s)
<1>1. <<>> \o list = list /\ <<>> \in Seq(Samples)
  BY ConcatEmptySeq
<1>2. list = <<>> \o list
  BY <1>1
<1>3. EndsIn(list, s)
  BY <1>1, <1>2 DEF EndsIn
<1>4. EndsIn(before \o list, s)
  BY DEF EndsIn
<1>5. QED
  BY <1>3, <1>4

LEMMA EndsInRetains ==
  ASSUME NEW all \in Seq(Samples), NEW x \in Samples, stream \in Seq(Samples),
         EndsIn(all, stream), Retained, Increasing(Append(stream, x))
  PROVE  /\ EndsIn(Append(all, x), Append(stream, x))
         /\ ~shouldRetainSample(latestRetainedSample, x) => EndsIn(all, Append(stream, x))
<1>1. PICK before \in Seq(Samples), list \in Seq(Samples) :
        all = before \o list /\ Left(list, stream)
  BY DEF EndsIn
<1>2. /\ Left(Append(list, x), Append(stream, x))
      /\ ~shouldRetainSample(latestRetainedSample, x) => Left(list, Append(stream, x))
  BY <1>1, RetainsSample
<1>3. ~shouldRetainSample(latestRetainedSample, x) => EndsIn(all, Append(stream, x))
  BY <1>1, <1>2 DEF EndsIn
<1>4. <<x>> \in Seq(Samples) /\ Append(list, x) \in Seq(Samples)
  BY Appended
<1>5. Append(all, x) = all \o <<x>> /\ Append(list, x) = list \o <<x>>
  BY AppendIsConcat
<1>6. (before \o list) \o <<x>> = before \o (list \o <<x>>)
  BY <1>4, ConcatAssociative
<1>7. Append(all, x) = before \o Append(list, x)
  BY <1>1, <1>5, <1>6
<1>8. EndsIn(Append(all, x), Append(stream, x))
  BY <1>2, <1>4, <1>7 DEF EndsIn
<1>9. QED
  BY <1>3, <1>8

LEMMA EndsInDropped ==
  ASSUME NEW drop \in Seq(Samples), NEW all \in Seq(Samples), NEW s,
         EndsIn(drop \o all, s), drop # <<>> => Len(all) >= MAX_CLIENT_SAMPLES
  PROVE  EndsIn(all, s)
<1>1. PICK before \in Seq(Samples), list \in Seq(Samples) :
        drop \o all = before \o list /\ Left(list, s)
  BY DEF EndsIn
<1>2. Parts(drop \o all, drop, all) /\ Parts(drop \o all, before, list)
  BY <1>1 DEF Parts
<1>3. \/ \E m \in Seq(Samples) : Parts(all, m, list) /\ Parts(before, drop, m)
      \/ \E m \in Seq(Samples) : Parts(list, m, all) /\ Parts(drop, before, m)
  BY <1>2, TwoEnds
<1>4. CASE \E m \in Seq(Samples) : Parts(all, m, list) /\ Parts(before, drop, m)
  BY <1>1, <1>4 DEF EndsIn, Parts
<1>5. CASE \E m \in Seq(Samples) : Parts(list, m, all) /\ Parts(drop, before, m)
  <2>1. PICK m \in Seq(Samples) : list = m \o all /\ drop = before \o m
    BY <1>5 DEF Parts
  <2>2. m # <<>> => Len(all) >= MAX_CLIENT_SAMPLES
    <3>1. m # <<>> => drop # <<>>
      BY <2>1, ConcatEqualIffEmpty
    <3>2. QED
      BY <3>1
  <2>3. Left(m \o all, s)
    BY <1>1, <2>1
  <2>4. Left(all, s)
    BY <2>2, <2>3, LeftDropped
  <2>5. QED
    BY <2>4, EndsInLeft
<1>6. QED
  BY <1>3, <1>4, <1>5

LEMMA EndsInKeepLast ==
  ASSUME NEW all \in Seq(Samples), NEW s, EndsIn(all, s)
  PROVE  EndsIn(KeepLast(all, MAX_CLIENT_SAMPLES), s)
<1> DEFINE kept == KeepLast(all, MAX_CLIENT_SAMPLES)
<1>1. kept \in Seq(Samples)
  BY KeepLastFacts, Sizes
<1>2. PICK cut \in Seq(Samples) :
        all = cut \o kept /\ (cut # <<>> => Len(kept) = MAX_CLIENT_SAMPLES)
  BY KeepLastSplit, Sizes
<1> HIDE DEF kept
<1>3. EndsIn(cut \o kept, s) /\ (cut # <<>> => Len(kept) >= MAX_CLIENT_SAMPLES)
  BY <1>2, Sizes
<1>4. EndsIn(kept, s)
  BY <1>1, <1>3, EndsInDropped
<1>5. QED
  BY <1>4 DEF kept

-----------------------------------------------------------------------------
(***************************************************************************)
(* What the page will show when the updaters that wait and the pending     *)
(* samples have reached the list.                                          *)
(***************************************************************************)
Coming ==
  /\ replaceWithHistory => Left(pending, stream)
  /\ ~replaceWithHistory =>
       \A f : JoinedBy(f) => EndsIn(f[Len(updates)] \o pending, stream)

(* All of it is of the stream unless a replacing updater came too late.    *)
Intact ==
  ~replaceLost /\ ~replaceWithHistory =>
    \A f : JoinedBy(f) => Left(f[Len(updates)] \o pending, stream)

LEMMA JoinedType ==
  ASSUME DashboardTypes, NEW f, JoinedBy(f)
  PROVE  /\ Len(updates) \in Nat /\ f[Len(updates)] \in Seq(Samples)
         /\ f[Len(updates)] \o pending \in Seq(Samples)
<1>1. Len(updates) \in Nat
  BY LenProperties DEF DashboardTypes
<1>2. f[Len(updates)] \in Seq(Samples)
  BY <1>1 DEF JoinedBy
<1>3. QED
  BY <1>1, <1>2, ConcatProperties DEF DashboardTypes

LEMMA Init_Coming == Init => Coming /\ Intact
<1> SUFFICES ASSUME Init PROVE Coming /\ Intact
  OBVIOUS
<1>1. /\ pending = <<>> /\ stream = <<>> /\ samples = <<>> /\ updates = <<>>
      /\ replaceWithHistory = FALSE
  BY DEF Init
<1>2. <<>> \in Seq(Samples) /\ <<>> \o <<>> = <<>> /\ Len(<<>>) = 0
  BY ConcatEmptySeq
<1>3. Left(<<>>, <<>>)
  BY <1>2, LeftWhole, ReducesNothing
<1>4. EndsIn(<<>>, <<>>)
  BY <1>2, <1>3, EndsInLeft
<1>5. \A f : JoinedBy(f) => f[Len(updates)] \o pending = <<>>
  BY <1>1, <1>2 DEF JoinedBy
<1>6. QED
  BY <1>1, <1>3, <1>4, <1>5 DEF Coming, Intact

LEMMA HandlesMessage_Coming ==
  ASSUME DashboardTypes, OrderInv, Retained, Coming, Intact, HandlesMessage
  PROVE  Coming' /\ Intact'
<1>1. /\ updates' = updates /\ samples' = samples /\ replaceLost' = replaceLost
      /\ TakesHistory(inbox[1]) \/ TakesReset(inbox[1]) \/ TakesTelemetry(inbox[1])
  BY MessageAtHand DEF reactVars
<1>2. /\ stream \in Seq(Samples) /\ samples \in Seq(Samples) /\ pending \in Seq(Samples)
      /\ replaceWithHistory \in BOOLEAN
  BY DEF DashboardTypes
<1>3. ASSUME replaceWithHistory' = TRUE, Left(pending', stream') PROVE Coming' /\ Intact'
  BY <1>3 DEF Coming, Intact
<1>4. CASE TakesHistory(inbox[1])
  <2>1. /\ replaceWithHistory' = TRUE /\ displaySamples(stream') \in Seq(Samples)
        /\ Reduces(displaySamples(stream'), stream')
        /\ pending' = KeepLast(displaySamples(stream'), MAX_CLIENT_SAMPLES)
    BY <1>4, HistoryTaken
  <2>2. Left(displaySamples(stream'), stream')
    BY <2>1, LeftWhole
  <2>3. Left(pending', stream')
    BY <2>1, <2>2, LeftKeepLast
  <2>4. QED
    BY <1>3, <2>1, <2>3
<1>5. CASE TakesReset(inbox[1])
  <2>1. replaceWithHistory' = TRUE /\ pending' = <<>> /\ stream' = <<>>
    BY <1>5 DEF TakesReset
  <2>2. Left(<<>>, <<>>)
    <3>1. <<>> \in Seq(Samples)
      OBVIOUS
    <3>2. QED
      BY <3>1, LeftWhole, ReducesNothing
  <2>3. QED
    BY <1>3, <2>1, <2>2
<1>6. CASE TakesTelemetry(inbox[1])
  <2> DEFINE x == inbox[1].sample
  <2>1. /\ x \in Samples /\ replaceWithHistory' = replaceWithHistory
        /\ Retains(x) /\ stream' = Append(stream, x) /\ Increasing(Append(stream, x))
    BY <1>6, TelemetryContinues
  <2> HIDE DEF x
  <2>2. \/ pending' = Append(pending, x)
        \/ pending' = pending /\ ~shouldRetainSample(latestRetainedSample, x)
    BY <2>1 DEF Retains
  <2>3. ASSUME Left(pending, stream) PROVE Left(pending', stream')
    <3>1. /\ Left(Append(pending, x), Append(stream, x))
          /\ ~shouldRetainSample(latestRetainedSample, x) => Left(pending, Append(stream, x))
      BY <1>2, <2>1, <2>3, RetainsSample
    <3>2. QED
      BY <2>1, <2>2, <3>1
  <2>4. ASSUME NEW shown \in Seq(Samples)
        PROVE  \/ shown \o pending' = Append(shown \o pending, x)
               \/ /\ shown \o pending' = shown \o pending
                  /\ ~shouldRetainSample(latestRetainedSample, x)
    <3>1. CASE pending' = Append(pending, x)
      <4>1. <<x>> \in Seq(Samples) /\ shown \o pending \in Seq(Samples)
        BY <1>2, <2>1, ConcatProperties
      <4>2. /\ Append(pending, x) = pending \o <<x>>
            /\ Append(shown \o pending, x) = (shown \o pending) \o <<x>>
        BY <1>2, <2>1, <4>1, AppendIsConcat
      <4>3. (shown \o pending) \o <<x>> = shown \o (pending \o <<x>>)
        <5>1. pending \in Seq(Samples) /\ <<x>> \in Seq(Samples)
          BY <1>2, <4>1
        <5>2. QED
          BY <5>1, Regrouped
      <4>4. QED
        BY <3>1, <4>2, <4>3
    <3>2. CASE pending' = pending /\ ~shouldRetainSample(latestRetainedSample, x)
      BY <3>2
    <3>3. QED
      BY <2>2, <3>1, <3>2
  <2>5. ASSUME NEW shown \in Seq(Samples), EndsIn(shown \o pending, stream)
        PROVE  EndsIn(shown \o pending', stream')
    <3> DEFINE all == shown \o pending
    <3>1. all \in Seq(Samples) /\ EndsIn(all, stream)
      BY <1>2, <2>5, ConcatProperties
    <3>2. \/ shown \o pending' = Append(all, x)
          \/ shown \o pending' = all /\ ~shouldRetainSample(latestRetainedSample, x)
      BY <2>4
    <3> HIDE DEF all
    <3>3. /\ EndsIn(Append(all, x), Append(stream, x))
          /\ ~shouldRetainSample(latestRetainedSample, x) => EndsIn(all, Append(stream, x))
      BY <1>2, <2>1, <3>1, EndsInRetains
    <3>4. QED
      BY <2>1, <3>2, <3>3
  <2>6. ASSUME NEW shown \in Seq(Samples), Left(shown \o pending, stream)
        PROVE  Left(shown \o pending', stream')
    <3> DEFINE all == shown \o pending
    <3>1. all \in Seq(Samples) /\ Left(all, stream)
      BY <1>2, <2>6, ConcatProperties
    <3>2. \/ shown \o pending' = Append(all, x)
          \/ shown \o pending' = all /\ ~shouldRetainSample(latestRetainedSample, x)
      BY <1>2, <2>4
    <3> HIDE DEF all
    <3>3. /\ Left(Append(all, x), Append(stream, x))
          /\ ~shouldRetainSample(latestRetainedSample, x) => Left(all, Append(stream, x))
      BY <1>2, <2>1, <3>1, RetainsSample
    <3>4. QED
      BY <2>1, <3>2, <3>3
  <2>7. ASSUME ~replaceLost, ~replaceWithHistory, NEW f, JoinedBy(f)'
        PROVE  Left(f[Len(updates')] \o pending', stream')
    <3>1. JoinedBy(f)
      BY <1>1, <2>7 DEF JoinedBy
    <3>2. f[Len(updates)] \in Seq(Samples) /\ Left(f[Len(updates)] \o pending, stream)
      BY <2>7, <3>1, JoinedType DEF Intact
    <3>3. QED
      BY <1>1, <2>6, <3>2
  <2>8. CASE replaceWithHistory
    BY <1>3, <2>1, <2>3, <2>8 DEF Coming
  <2>9. CASE ~replaceWithHistory
    <3>1. ASSUME NEW f, JoinedBy(f)'
          PROVE  EndsIn(f[Len(updates')] \o pending', stream')
      <4>1. JoinedBy(f)
        BY <1>1, <3>1 DEF JoinedBy
      <4>2. f[Len(updates)] \in Seq(Samples) /\ EndsIn(f[Len(updates)] \o pending, stream)
        BY <2>9, <4>1, JoinedType DEF Coming
      <4>3. QED
        BY <1>1, <2>5, <4>2
    <3>2. Intact'
      BY <1>1, <2>1, <2>7 DEF Intact
    <3>3. QED
      BY <2>1, <2>9, <3>1, <3>2 DEF Coming
  <2>10. QED
    BY <2>8, <2>9
<1>7. QED
  BY <1>1, <1>4, <1>5, <1>6

LEMMA Flush_Coming ==
  ASSUME DashboardTypes, Coming, Intact, Flush
  PROVE  Coming' /\ Intact'
<1>1. /\ stream' = stream
      /\ FlushSamples \/ FlushMetrics
  BY DEF Flush
<1>2. /\ stream \in Seq(Samples) /\ samples \in Seq(Samples) /\ pending \in Seq(Samples)
      /\ replaceWithHistory \in BOOLEAN /\ updates \in Seq(Seq(Samples))
  BY DEF DashboardTypes
<1>3. CASE FlushMetrics
  <2>1. UNCHANGED <<updates, samples, pending, replaceWithHistory, stream, replaceLost>>
    BY <1>1, <1>3 DEF FlushMetrics
  <2>2. QED
    BY <2>1 DEF Coming, Intact, JoinedBy
<1>4. CASE FlushSamples
  <2>1. pending' = <<>> /\ replaceWithHistory' = FALSE /\ SetSamples(pending)
    BY <1>4 DEF FlushSamples
  <2>2. CASE /\ updates = <<>> /\ samples' = Updated(samples, pending) /\ updates' = updates
             /\ replaceLost' = (replaceLost /\ ~replaceWithHistory)
    <3> DEFINE held == IF replaceWithHistory THEN pending ELSE samples \o pending
    <3>1. held \in Seq(Samples) /\ samples' = KeepLast(held, MAX_CLIENT_SAMPLES)
      BY <1>2, <2>2, ConcatProperties DEF Updated
    <3>2. ASSUME NEW f, JoinedBy(f)' PROVE f[Len(updates')] = samples'
      BY <2>2, <3>2 DEF JoinedBy
    <3>3. PICK g : JoinedBy(g)
      BY JoinedExists DEF DashboardTypes
    <3>4. g[Len(updates)] = samples
      BY <2>2, <3>3 DEF JoinedBy
    <3>5. EndsIn(held, stream)
      <4>1. CASE replaceWithHistory
        <5>1. <<>> \in Seq(Samples)
          OBVIOUS
        <5>2. QED
          BY <1>2, <4>1, <5>1, EndsInLeft DEF Coming
      <4>2. CASE ~replaceWithHistory
        BY <3>3, <3>4, <4>2 DEF Coming
      <4>3. QED
        BY <4>1, <4>2
    <3>6. ASSUME ~replaceLost' PROVE Left(held, stream)
      <4>1. CASE replaceWithHistory
        BY <4>1 DEF Coming
      <4>2. CASE ~replaceWithHistory
        BY <2>2, <3>3, <3>4, <3>6, <4>2 DEF Intact
      <4>3. QED
        BY <4>1, <4>2
    <3> HIDE DEF held
    <3>7. EndsIn(samples', stream')
      BY <1>1, <3>1, <3>5, EndsInKeepLast
    <3>8. ~replaceLost' => Left(samples', stream')
      BY <1>1, <3>1, <3>6, LeftKeepLast
    <3>9. samples' \o pending' = samples'
      <4>1. samples' \in Seq(Samples)
        BY <1>2, <2>2, UpdatedType
      <4>2. QED
        BY <2>1, <4>1, ConcatEmptySeq
    <3>10. Intact'
      BY <3>2, <3>8, <3>9 DEF Intact
    <3>11. QED
      BY <2>1, <3>2, <3>7, <3>9, <3>10 DEF Coming
  <2>3. CASE /\ updates' = Append(updates, pending) /\ samples' = samples
             /\ replaceLost' = IF replaceWithHistory THEN samples # <<>> \/ updates # <<>>
                               ELSE replaceLost
    <3>1. ASSUME NEW f, JoinedBy(f)'
          PROVE  /\ EndsIn(f[Len(updates')] \o pending', stream')
                 /\ ~replaceLost' => Left(f[Len(updates')] \o pending', stream')
      <4> DEFINE N == Len(updates)
      <4>1. /\ N \in Nat /\ Len(updates') = N + 1 /\ updates'[N + 1] = pending
            /\ \A i \in 1 .. N : updates'[i] = updates[i]
        BY <1>2, <2>3, AppendProperties
      <4>2. /\ f \in [Nat -> Seq(Samples)] /\ f[0] = samples
            /\ \A n \in 1 .. Len(updates') : f[n] = f[n - 1] \o updates'[n]
        BY <2>3, <3>1 DEF JoinedBy
      <4>3. JoinedBy(f)
        <5>1. \A n \in 1 .. N : n \in 1 .. Len(updates')
          BY <4>1
        <5>2. QED
          BY <4>1, <4>2, <5>1 DEF JoinedBy
      <4>4. f[N + 1] = f[N] \o pending
        <5>1. N + 1 \in 1 .. Len(updates') /\ (N + 1) - 1 = N
          BY <4>1
        <5>2. QED
          BY <4>1, <4>2, <5>1
      <4>5. f[N] \in Seq(Samples) /\ f[N + 1] \in Seq(Samples)
        BY <4>1, <4>2
      <4>6. EndsIn(f[N] \o pending, stream)
        <5>1. CASE replaceWithHistory
          BY <1>2, <4>5, <5>1, EndsInLeft DEF Coming
        <5>2. CASE ~replaceWithHistory
          BY <4>3, <5>2 DEF Coming
        <5>3. QED
          BY <5>1, <5>2
      <4>7. ASSUME ~replaceLost' PROVE Left(f[N] \o pending, stream)
        <5>1. CASE replaceWithHistory
          <6>1. samples = <<>> /\ updates = <<>>
            BY <2>3, <4>7, <5>1
          <6>2. f[N] = <<>>
            BY <4>2, <6>1
          <6>3. f[N] \o pending = pending
            BY <1>2, <6>2, ConcatEmptySeq
          <6>4. QED
            BY <5>1, <6>3 DEF Coming
        <5>2. CASE ~replaceWithHistory
          BY <2>3, <4>3, <4>7, <5>2 DEF Intact
        <5>3. QED
          BY <5>1, <5>2
      <4>8. f[N + 1] \o <<>> = f[N + 1]
        BY <4>5, ConcatEmptySeq
      <4>9. QED
        BY <1>1, <2>1, <4>1, <4>4, <4>6, <4>7, <4>8
    <3>2. Intact'
      BY <3>1 DEF Intact
    <3>3. QED
      BY <2>1, <3>1, <3>2 DEF Coming
  <2>4. QED
    BY <2>1, <2>2, <2>3 DEF SetSamples
<1>5. QED
  BY <1>1, <1>3, <1>4

(* React's updaters lose only what the full list has no room for.          *)
LEMMA ShownEndsJoined ==
  ASSUME DashboardTypes, ~replaceWithHistory, NEW f, ShownBy(f), NEW g, JoinedBy(g)
  PROVE  \E drop \in Seq(Samples) :
           /\ g[Len(updates)] = drop \o f[Len(updates)]
           /\ drop # <<>> => Len(f[Len(updates)]) >= MAX_CLIENT_SAMPLES
<1> DEFINE N == Len(updates)
           T == {n \in Nat : \E drop \in Seq(Samples) :
                   g[n] = drop \o f[n] /\ (drop # <<>> => Len(f[n]) >= MAX_CLIENT_SAMPLES)}
<1>1. /\ N \in Nat /\ samples \in Seq(Samples)
      /\ \A n \in 1 .. N : updates[n] \in Seq(Samples)
  BY LenProperties, ElementOfSeq DEF DashboardTypes
<1>2. /\ f \in [Nat -> Seq(Samples)] /\ f[0] = samples
      /\ g \in [Nat -> Seq(Samples)] /\ g[0] = samples
      /\ \A n \in 1 .. N : /\ f[n] = Updated(f[n - 1], updates[n])
                           /\ g[n] = g[n - 1] \o updates[n]
  BY DEF ShownBy, JoinedBy
<1>3. 0 \in T
  <2>1. <<>> \o samples = samples /\ <<>> \in Seq(Samples)
    BY <1>1, ConcatEmptySeq
  <2>2. g[0] = <<>> \o f[0]
    BY <1>2, <2>1
  <2>3. QED
    BY <2>1, <2>2
<1>4. ASSUME NEW n \in 1 .. N, n - 1 \in T PROVE n \in T
  <2>1. n - 1 \in Nat /\ n \in Nat
    BY <1>1
  <2>2. PICK drop \in Seq(Samples) :
          /\ g[n - 1] = drop \o f[n - 1]
          /\ drop # <<>> => Len(f[n - 1]) >= MAX_CLIENT_SAMPLES
    BY <1>4
  <2> DEFINE all == f[n - 1] \o updates[n]
             kept == KeepLast(all, MAX_CLIENT_SAMPLES)
  <2>3. f[n - 1] \in Seq(Samples) /\ updates[n] \in Seq(Samples)
    BY <1>1, <1>2, <2>1
  <2>4. all \in Seq(Samples) /\ Len(all) = Len(f[n - 1]) + Len(updates[n])
        /\ Len(f[n - 1]) \in Nat /\ Len(updates[n]) \in Nat
    BY <2>3, Joined
  <2>5. f[n] = kept
    BY <1>2 DEF Updated
  <2>6. (drop \o f[n - 1]) \o updates[n] = drop \o all
    BY <2>3, Regrouped
  <2>7. g[n] = drop \o all
    BY <1>2, <2>2, <2>6
  <2> HIDE DEF all
  <2>8. /\ kept \in Seq(Samples)
        /\ Len(all) <= MAX_CLIENT_SAMPLES => Len(kept) = Len(all)
        /\ ~(Len(all) <= MAX_CLIENT_SAMPLES) => Len(kept) = MAX_CLIENT_SAMPLES
    BY <2>4, KeepLastFacts, Sizes
  <2>9. PICK cut \in Seq(Samples) : all = cut \o kept
    BY <2>4, KeepLastSplit, Sizes
  <2>10. cut # <<>> => Len(kept) >= MAX_CLIENT_SAMPLES
    <3>1. Len(all) <= MAX_CLIENT_SAMPLES => cut \o kept = kept
      BY <2>4, <2>9, KeepLastFacts, Sizes
    <3>2. cut \o kept = kept => cut = <<>>
      BY <2>8, ConcatEqualIffEmpty
    <3>3. Len(all) <= MAX_CLIENT_SAMPLES => cut = <<>>
      BY <3>1, <3>2, Zenon
    <3>4. Len(all) <= MAX_CLIENT_SAMPLES \/ Len(kept) = MAX_CLIENT_SAMPLES
      BY <2>8, Zenon
    <3>5. MAX_CLIENT_SAMPLES >= MAX_CLIENT_SAMPLES
      BY Sizes
    <3>6. QED
      BY <3>3, <3>4, <3>5, Zenon
  <2>11. drop # <<>> => Len(kept) >= MAX_CLIENT_SAMPLES
    <3>1. Len(kept) = Len(all) \/ Len(kept) = MAX_CLIENT_SAMPLES
      BY <2>8, Zenon
    <3>2. drop # <<>> => Len(f[n - 1]) >= MAX_CLIENT_SAMPLES
      BY <2>2, Zenon
    <3> HIDE DEF kept
    <3>3. MAX_CLIENT_SAMPLES \in Nat
      BY Sizes
    <3>4. drop # <<>> => Len(all) >= MAX_CLIENT_SAMPLES
      <4>1. /\ Len(all) = Len(f[n - 1]) + Len(updates[n])
            /\ Len(f[n - 1]) \in Nat /\ Len(updates[n]) \in Nat
        BY <2>4
      <4>2. \A p, q \in Nat : p >= MAX_CLIENT_SAMPLES => p + q >= MAX_CLIENT_SAMPLES
        BY <3>3
      <4>3. QED
        BY <3>2, <4>1, <4>2
    <3>5. QED
      BY <3>1, <3>3, <3>4
  <2> HIDE DEF kept
  <2>12. drop \o cut \in Seq(Samples) /\ (drop \o cut) \o kept = drop \o (cut \o kept)
    BY <2>8, ConcatProperties, ConcatAssociative
  <2>13. g[n] = (drop \o cut) \o f[n]
    BY <2>5, <2>7, <2>9, <2>12
  <2>14. drop \o cut # <<>> => Len(f[n]) >= MAX_CLIENT_SAMPLES
    <3>1. drop \o cut # <<>> => drop # <<>> \/ cut # <<>>
      BY ConcatEqualIffEmpty
    <3>2. QED
      BY <2>5, <2>10, <2>11, <3>1
  <2>15. QED
    BY <2>1, <2>12, <2>13, <2>14
<1>5. \A n \in 0 .. N : n \in T
  <2> HIDE DEF T
  <2>1. QED
    BY <1>1, <1>3, <1>4, Stepwise
<1>6. N \in T
  <2> HIDE DEF T
  <2>1. QED
    BY <1>1, <1>5
<1>7. QED
  BY <1>6

LEMMA Renders_Coming ==
  ASSUME DashboardTypes, Coming, Intact, Renders
  PROVE  Coming' /\ Intact'
<1>1. /\ updates # <<>> /\ updates' = <<>> /\ pending' = pending /\ stream' = stream
      /\ replaceWithHistory' = replaceWithHistory /\ replaceLost' = replaceLost
  BY DEF Renders, effectVars
<1>2. CASE replaceWithHistory
  BY <1>1, <1>2 DEF Coming, Intact
<1>3. CASE ~replaceWithHistory
  <2>1. PICK f : ShownBy(f) /\ samples' = f[Len(updates)]
    BY RendersLoop DEF DashboardTypes
  <2>2. PICK g : JoinedBy(g)
    BY JoinedExists DEF DashboardTypes
  <2>3. EndsIn(g[Len(updates)] \o pending, stream)
    BY <1>3, <2>2 DEF Coming
  <2>4. PICK drop \in Seq(Samples) :
          /\ g[Len(updates)] = drop \o samples'
          /\ drop # <<>> => Len(samples') >= MAX_CLIENT_SAMPLES
    BY <1>3, <2>1, <2>2, ShownEndsJoined
  <2>5. samples' \in Seq(Samples) /\ pending \in Seq(Samples)
    BY Renders_Types DEF DashboardTypes
  <2> DEFINE all == samples' \o pending
  <2>6. /\ all \in Seq(Samples) /\ Len(all) = Len(samples') + Len(pending)
        /\ Len(samples') \in Nat /\ Len(pending) \in Nat
    BY <2>5, Joined
  <2>7. (drop \o samples') \o pending = drop \o all
    BY <2>5, ConcatAssociative
  <2>8. EndsIn(drop \o all, stream)
    BY <2>3, <2>4, <2>7
  <2>9. ~replaceLost => Left(drop \o all, stream)
    BY <1>3, <2>2, <2>4, <2>7 DEF Intact
  <2> HIDE DEF all
  <2>10. drop # <<>> => Len(all) >= MAX_CLIENT_SAMPLES
    BY <2>4, <2>6, Sizes
  <2>11. EndsIn(all, stream)
    BY <2>6, <2>8, <2>10, EndsInDropped
  <2>12. ~replaceLost => Left(all, stream)
    BY <2>6, <2>9, <2>10, LeftDropped
  <2>13. ASSUME NEW h, JoinedBy(h)' PROVE h[Len(updates')] = samples'
    <3>1. Len(updates') = 0
      BY <1>1
    <3>2. QED
      BY <2>13, <3>1 DEF JoinedBy
  <2>14. QED
    BY <1>1, <1>3, <2>11, <2>12, <2>13 DEF Coming, Intact, all
<1>4. QED
  BY <1>2, <1>3

LEMMA Next_Coming ==
  DashboardTypes /\ OrderInv /\ Retained /\ Coming /\ Intact /\ [Next]_vars
    => Coming' /\ Intact'
<1> SUFFICES ASSUME DashboardTypes, OrderInv, Retained, Coming, Intact, [Next]_vars
             PROVE  Coming' /\ Intact'
  OBVIOUS
<1>1. CASE UNCHANGED <<effectVars, reactVars, replaceLost>>
  BY <1>1 DEF effectVars, reactVars, Coming, Intact, JoinedBy
<1>2. ASSUME NEW lost \in 0 .. 1, NEW nextPhase \in 1 .. LANDED, NEW nextFault \in BOOLEAN,
             SampleArrives(lost, nextPhase, nextFault)
      PROVE  Coming' /\ Intact'
  BY <1>1, <1>2 DEF SampleArrives
<1>3. CASE NewFlightArrives \/ ServerRestarts \/ Reconnects \/ Opens \/ Closes \/ UNCHANGED vars
  BY <1>1, <1>3 DEF NewFlightArrives, ServerRestarts, Reconnects, Opens, Closes, vars
<1>4. CASE HandlesMessage \/ Flush \/ Renders
  BY <1>4, HandlesMessage_Coming, Flush_Coming, Renders_Coming
<1>5. QED
  BY <1>2, <1>3, <1>4 DEF Next

-----------------------------------------------------------------------------
(***************************************************************************)
(* The inductive invariant and what follows from it once the page has      *)
(* settled.                                                                *)
(***************************************************************************)
DashboardInv ==
  DashboardTypes /\ OrderInv /\ LatestMetrics /\ PacketAge /\ Retained /\ Coming /\ Intact

(***************************************************************************)
(* What the messages on the way, the pending samples, the waiting updaters *)
(* and the list shown are to each other, in every reachable state.         *)
(***************************************************************************)
THEOREM DashboardInvariant == Spec => []DashboardInv
<1>1. Init => DashboardInv
  <2> SUFFICES ASSUME Init PROVE DashboardInv
    OBVIOUS
  <2>1. DashboardTypes /\ OrderInv /\ Coming /\ Intact
    BY Init_Types, Init_Order, Init_Coming
  <2>2. LatestMetrics /\ PacketAge /\ Retained
    BY DEF Init, LatestMetrics, PacketAge, Retained
  <2>3. QED
    BY <2>1, <2>2 DEF DashboardInv
<1>2. DashboardInv /\ [Next]_vars => DashboardInv'
  BY Next_Types, Next_Order, Next_Page, Next_Coming DEF DashboardInv
<1>3. QED
  BY <1>1, <1>2, PTL DEF Spec

LEMMA SettledPage ==
  ASSUME DashboardInv, Settled
  PROVE  ~replaceWithHistory /\ pending = <<>> /\ EndsIn(samples, stream)
<1>1. ~replaceWithHistory /\ pending = <<>> /\ updates = <<>> /\ samples \in Seq(Samples)
  BY DEF DashboardInv, Settled, PacketAge, DashboardTypes
<1>2. PICK f : JoinedBy(f)
  BY JoinedExists DEF DashboardInv, DashboardTypes
<1>3. EndsIn(f[Len(updates)] \o pending, stream)
  BY <1>1, <1>2 DEF DashboardInv, Coming
<1>4. Len(updates) = 0 /\ f[0] = samples
  BY <1>1, <1>2 DEF JoinedBy
<1>5. samples \o <<>> = samples
  BY <1>1, ConcatEmptySeq
<1>6. QED
  BY <1>1, <1>3, <1>4, <1>5

LEMMA EndIsSubSeq ==
  ASSUME NEW a \in Seq(Samples), NEW b \in Seq(Samples)
  PROVE  SubSeq(a \o b, Len(a) + 1, Len(a \o b)) = b
<1> DEFINE all == a \o b
           t == SubSeq(all, Len(a) + 1, Len(all))
<1>1. /\ Len(a) \in Nat /\ Len(b) \in Nat /\ Len(all) = Len(a) + Len(b)
      /\ \A i \in 1 .. Len(b) : all[Len(a) + i] = b[i] /\ b[i] \in Samples
  BY Joined
<1> HIDE DEF all
<1>2. ASSUME NEW i \in Len(a) + 1 .. Len(all) PROVE all[i] \in Samples
  <2>1. i - Len(a) \in 1 .. Len(b) /\ Len(a) + (i - Len(a)) = i
    BY <1>1
  <2>2. QED
    BY <1>1, <2>1
<1>3. Len(a) + 1 \in Int /\ Len(all) \in Int
  BY <1>1
<1>4. /\ t \in Seq(Samples)
      /\ Len(t) = IF Len(a) + 1 <= Len(all) THEN Len(all) - (Len(a) + 1) + 1 ELSE 0
      /\ \A i \in 1 .. Len(all) - (Len(a) + 1) + 1 : t[i] = all[Len(a) + 1 + i - 1]
  BY <1>2, <1>3, SubSeqProperties
<1> HIDE DEF t
<1>5. Len(t) = Len(b)
  BY <1>1, <1>4
<1>6. ASSUME NEW i \in 1 .. Len(b) PROVE t[i] = b[i]
  <2>1. i \in 1 .. Len(all) - (Len(a) + 1) + 1 /\ Len(a) + 1 + i - 1 = Len(a) + i
    BY <1>1
  <2>2. QED
    BY <1>1, <1>4, <2>1
<1>7. t = b
  BY <1>4, <1>5, <1>6, SeqEqual
<1>8. QED
  BY <1>7 DEF t, all

(* The end of a list that reduces the stream.                              *)
LEMMA LeftFacts ==
  ASSUME NEW cut \in Seq(Samples), NEW list \in Seq(Samples), NEW s \in Seq(Samples),
         Reduces(cut \o list, s)
  PROVE  /\ Increasing(list)
         /\ \A i \in 1 .. Len(list) : \E k \in 1 .. Len(s) : list[i] = s[k]
         /\ \A i \in 1 .. Len(cut) : \A k \in 1 .. Len(list) : cut[i].step < list[k].step
         /\ \A i \in 1 .. Len(cut) : \E k \in 1 .. Len(s) : cut[i] = s[k]
         /\ \A i \in 1 .. Len(s) : NeededIn(s, i) =>
              \/ \E k \in 1 .. Len(list) : list[k] = s[i]
              \/ \E k \in 1 .. Len(cut) : cut[k] = s[i]
<1> DEFINE all == cut \o list
           N == Len(cut)
<1>1. /\ N \in Nat /\ Len(list) \in Nat /\ Len(all) = N + Len(list)
      /\ \A i \in 1 .. N : all[i] = cut[i]
      /\ \A i \in 1 .. Len(list) : all[N + i] = list[i]
  BY Joined
<1>2. /\ Increasing(all)
      /\ \A i \in 1 .. Len(all) : \E k \in 1 .. Len(s) : all[i] = s[k]
      /\ \A i \in 1 .. Len(s) : NeededIn(s, i) => \E k \in 1 .. Len(all) : all[k] = s[i]
  BY DEF Reduces
<1> HIDE DEF all, N
<1>3. /\ \A i \in 1 .. N : i \in 1 .. Len(all)
      /\ \A i \in 1 .. Len(list) : N + i \in 1 .. Len(all)
  BY <1>1
<1>4. Increasing(list)
  <2> SUFFICES ASSUME NEW i \in 1 .. Len(list), NEW j \in 1 .. Len(list), i < j
               PROVE  list[i].step < list[j].step
    BY DEF Increasing
  <2>1. N + i < N + j
    BY <1>1
  <2>2. QED
    BY <1>1, <1>2, <1>3, <2>1 DEF Increasing
<1>5. ASSUME NEW i \in 1 .. N, NEW k \in 1 .. Len(list) PROVE cut[i].step < list[k].step
  <2>1. i < N + k
    BY <1>1
  <2>2. QED
    BY <1>1, <1>2, <1>3, <2>1 DEF Increasing
<1>6. ASSUME NEW i \in 1 .. Len(s), NeededIn(s, i)
      PROVE  \/ \E k \in 1 .. Len(list) : list[k] = s[i]
             \/ \E k \in 1 .. N : cut[k] = s[i]
  <2>1. PICK k \in 1 .. Len(all) : all[k] = s[i]
    BY <1>2, <1>6
  <2>2. CASE k <= N
    <3>1. k \in 1 .. N
      BY <1>1, <2>2
    <3>2. QED
      BY <1>1, <2>1, <3>1
  <2>3. CASE ~(k <= N)
    <3>1. k - N \in 1 .. Len(list) /\ N + (k - N) = k
      BY <1>1, <2>3
    <3>2. list[k - N] = s[i]
      BY <1>1, <2>1, <3>1
    <3>3. QED
      BY <3>1, <3>2
  <2>4. QED
    BY <2>2, <2>3
<1>7. \A i \in 1 .. Len(list) : \E k \in 1 .. Len(s) : list[i] = s[k]
  <2> SUFFICES ASSUME NEW i \in 1 .. Len(list) PROVE \E k \in 1 .. Len(s) : list[i] = s[k]
    OBVIOUS
  <2>1. N + i \in 1 .. Len(all) /\ all[N + i] = list[i]
    BY <1>1, <1>3
  <2>2. QED
    BY <1>2, <2>1
<1>8. \A i \in 1 .. N : \E k \in 1 .. Len(s) : cut[i] = s[k]
  <2> SUFFICES ASSUME NEW i \in 1 .. N PROVE \E k \in 1 .. Len(s) : cut[i] = s[k]
    OBVIOUS
  <2>1. i \in 1 .. Len(all) /\ all[i] = cut[i]
    BY <1>1, <1>3
  <2>2. QED
    BY <1>2, <2>1
<1>9. QED
  BY <1>4, <1>5, <1>6, <1>7, <1>8 DEF N

LEMMA RangeByIndex ==
  ASSUME NEW s \in Seq(Samples)
  PROVE  \A x : x \in Range(s) <=> \E k \in 1 .. Len(s) : s[k] = x
<1>1. DOMAIN s = 1 .. Len(s)
  BY LenProperties
<1>2. QED
  BY <1>1 DEF Range

LEMMA ShowsTransitions == DashboardInv => TransitionsShown
<1> SUFFICES ASSUME DashboardInv, Settled
             PROVE  \E first \in 1 .. Len(samples) + 1 :
               LET shown == SubSeq(samples, first, Len(samples))
               IN /\ \A i, j \in 1 .. Len(shown) : i < j => shown[i].step < shown[j].step
                  /\ Range(shown) \subseteq Range(stream)
                  /\ \A i \in 1 .. Len(stream) : Needed(i) =>
                       \/ stream[i] \in Range(shown)
                       \/ /\ Len(shown) = MAX_CLIENT_SAMPLES
                          /\ stream[i].step < shown[1].step
  BY DEF TransitionsShown
<1>1. /\ samples \in Seq(Samples) /\ stream \in Seq(Samples)
      /\ Len(samples) <= MAX_CLIENT_SAMPLES /\ EndsIn(samples, stream)
  BY SettledPage DEF DashboardInv, DashboardTypes
<1>2. PICK before \in Seq(Samples), list \in Seq(Samples) :
        samples = before \o list /\ Left(list, stream)
  BY <1>1 DEF EndsIn
<1>3. PICK cut \in Seq(Samples) :
        Reduces(cut \o list, stream) /\ (cut # <<>> => Len(list) >= MAX_CLIENT_SAMPLES)
  BY <1>2 DEF Left
<1>4. /\ Len(before) \in Nat /\ Len(list) \in Nat
      /\ Len(samples) = Len(before) + Len(list)
  BY <1>2, Joined
<1>5. SubSeq(samples, Len(before) + 1, Len(samples)) = list
  BY <1>2, EndIsSubSeq
<1>6. Len(before) + 1 \in 1 .. Len(samples) + 1
  BY <1>4
<1>7. /\ Increasing(list)
      /\ \A i \in 1 .. Len(list) : \E k \in 1 .. Len(stream) : list[i] = stream[k]
      /\ \A i \in 1 .. Len(cut) : \A k \in 1 .. Len(list) : cut[i].step < list[k].step
      /\ \A i \in 1 .. Len(stream) : NeededIn(stream, i) =>
           \/ \E k \in 1 .. Len(list) : list[k] = stream[i]
           \/ \E k \in 1 .. Len(cut) : cut[k] = stream[i]
  BY <1>1, <1>3, LeftFacts
<1>8. Range(list) \subseteq Range(stream)
  BY <1>1, <1>7, RangeByIndex
<1>9. ASSUME NEW i \in 1 .. Len(stream), Needed(i)
      PROVE  \/ stream[i] \in Range(list)
             \/ Len(list) = MAX_CLIENT_SAMPLES /\ stream[i].step < list[1].step
  <2>1. NeededIn(stream, i)
    BY <1>9 DEF Needed, NeededIn
  <2>2. CASE \E k \in 1 .. Len(list) : list[k] = stream[i]
    BY <2>2, RangeByIndex
  <2>3. CASE \E k \in 1 .. Len(cut) : cut[k] = stream[i]
    <3>1. PICK k \in 1 .. Len(cut) : cut[k] = stream[i]
      BY <2>3
    <3>2. cut # <<>>
      BY <3>1
    <3>3. Len(list) = MAX_CLIENT_SAMPLES /\ 1 \in 1 .. Len(list)
      BY <1>1, <1>3, <1>4, <3>2, Sizes
    <3>4. QED
      BY <1>7, <3>1, <3>3
  <2>4. QED
    BY <1>7, <2>1, <2>2, <2>3
<1>10. \A i, j \in 1 .. Len(list) : i < j => list[i].step < list[j].step
  BY <1>7 DEF Increasing
<1>11. WITNESS Len(before) + 1 \in 1 .. Len(samples) + 1
<1>12. QED
  BY <1>5, <1>8, <1>9, <1>10

LEMMA EventsSurviveReduction == DashboardInv => EventsSurvive
<1> SUFFICES ASSUME DashboardInv, Settled, ~replaceLost
             PROVE  /\ Range(samples) \subseteq Range(stream)
                    /\ NothingDropped => Occurrences(deriveMissionEvents(samples))
                                           = Occurrences(deriveMissionEvents(stream))
  BY DEF EventsSurvive
<1>1. /\ samples \in Seq(Samples) /\ stream \in Seq(Samples) /\ Increasing(stream)
      /\ ~replaceWithHistory /\ pending = <<>>
  BY SettledPage DEF DashboardInv, DashboardTypes, OrderInv
<1>2. Left(samples, stream)
  <2>1. PICK f : JoinedBy(f)
    BY JoinedExists DEF DashboardInv, DashboardTypes
  <2>2. f[Len(updates)] = samples
    BY <2>1 DEF JoinedBy, Settled
  <2>3. samples \o pending = samples
    BY <1>1, ConcatEmptySeq
  <2>4. QED
    BY <1>1, <2>1, <2>2, <2>3 DEF DashboardInv, Intact
<1>3. PICK cut \in Seq(Samples) :
        Reduces(cut \o samples, stream) /\ (cut # <<>> => Len(samples) >= MAX_CLIENT_SAMPLES)
  BY <1>2 DEF Left
<1>4. /\ \A i \in 1 .. Len(samples) : \E k \in 1 .. Len(stream) : samples[i] = stream[k]
      /\ \A i \in 1 .. Len(cut) : \A k \in 1 .. Len(samples) : cut[i].step < samples[k].step
      /\ \A i \in 1 .. Len(cut) : \E k \in 1 .. Len(stream) : cut[i] = stream[k]
  BY <1>1, <1>3, LeftFacts
<1>5. Range(samples) \subseteq Range(stream)
  BY <1>1, <1>4, RangeByIndex
<1>6. ASSUME cut # <<>>
      PROVE  ~NothingDropped
  <2>1. Len(samples) \in Nat /\ Len(samples) >= MAX_CLIENT_SAMPLES /\ 1 \in 1 .. Len(samples)
    BY <1>1, <1>3, <1>6, LenProperties, Sizes
  <2>2. 1 \in 1 .. Len(cut)
    BY <1>6, EmptySeq
  <2>3. PICK k \in 1 .. Len(stream) : cut[1] = stream[k]
    BY <1>4, <2>2
  <2>4. stream[k].step < samples[1].step /\ 1 \in 1 .. Len(stream)
    BY <1>4, <2>1, <2>2, <2>3
  <2>5. stream[k] \in Samples /\ stream[1] \in Samples
    BY <1>1, <2>4, ElementOfSeq
  <2>6. stream[k].step \in Nat /\ stream[1].step \in Nat
    BY <2>5, SampleFields
  <2>7. k = 1 \/ stream[1].step < stream[k].step
    BY <1>1, <2>4 DEF Increasing
  <2>8. samples[1] # stream[1]
    BY <2>4, <2>6, <2>7
  <2>9. Head(samples) = samples[1] /\ Head(stream) = stream[1]
    OBVIOUS
  <2>10. QED
    BY <2>1, <2>8, <2>9, Sizes DEF NothingDropped
<1>7. ASSUME cut = <<>>
      PROVE  Occurrences(deriveMissionEvents(samples)) = Occurrences(deriveMissionEvents(stream))
  <2>1. cut \o samples = samples
    BY <1>1, <1>7, ConcatEmptySeq
  <2>2. QED
    BY <1>3, <2>1 DEF Reduces
<1>8. QED
  BY <1>5, <1>6, <1>7

-----------------------------------------------------------------------------
(***************************************************************************)
(* Every variable of the hook keeps its type, whatever the stream does,    *)
(* and the list shown its bound: every updater of setSamples cuts it to    *)
(* MAX_CLIENT_SAMPLES, at once or during a render.  Of `pending' it says   *)
(* no more than its type.                                                  *)
(***************************************************************************)
THEOREM DashboardTypeOK == Spec => []TypeOK
<1>1. DashboardInv => TypeOK
  BY DEF DashboardInv, DashboardTypes, TypeOK
<1>2. QED
  BY <1>1, DashboardInvariant, PTL

(***************************************************************************)
(* Once every message has been read, flushed and rendered, the page shows  *)
(* the server's latest metrics, and a packet age exactly when the current  *)
(* flight has a packet, across resets, lost connections and restarts.      *)
(***************************************************************************)
THEOREM DashboardMetricsShown == Spec => []MetricsShown
<1>1. DashboardInv => MetricsShown
  BY DEF DashboardInv, LatestMetrics, PacketAge, Settled, MetricsShown
<1>2. QED
  BY <1>1, DashboardInvariant, PTL

(***************************************************************************)
(* Decimation loses no transition: once settled, every sample of the       *)
(* stream that shouldRetainSample calls for is shown in order, or newer    *)
(* ones fill the list.  It holds whichever way React runs the updaters.    *)
(***************************************************************************)
THEOREM DashboardTransitionsShown == Spec => []TransitionsShown
<1>1. QED
  BY ShowsTransitions, DashboardInvariant, PTL

(***************************************************************************)
(* Unless a replacing updater came too late, the mission events derived    *)
(* from the reduced list are those of the full stream, each at the same    *)
(* sample, or the list has dropped samples.  It says nothing of the label  *)
(* of a landing, which the reduction may change.                           *)
(***************************************************************************)
THEOREM DashboardEventsSurvive == Spec => []EventsSurvive
<1>1. QED
  BY EventsSurviveReduction, DashboardInvariant, PTL
=============================================================================
