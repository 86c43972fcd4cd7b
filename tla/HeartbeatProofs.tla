-------------------------- MODULE HeartbeatProofs --------------------------
(***************************************************************************)
(* Theorems about Heartbeat for every length of the second, every lateness *)
(* of the threads, every number of slots and of repetitions.               *)
(***************************************************************************)
EXTENDS Heartbeat, TLAPS

USE HeartbeatAssumption DEF Most, Least, Slots, Kinds, Words, Request

(* What an exchange of one packet leaves behind.                           *)
LEMMA PutTypes ==
  ASSUME TypeOK, NEW k \in Kinds, Put(k), up
  PROVE  /\ requests' \in [Slots -> Requests]
         /\ mode' = mode /\ calm' \in 0..LossGap
         /\ \/ wdt' = 0 /\ silence' = 0 /\ reported' = FALSE /\ attended' = connection_status
               /\ known
            \/ UNCHANGED <<wdt, history>>
<1>1. CASE Free = {} /\ UNCHANGED <<network, requests, wdt, history>>
  BY <1>1 DEF TypeOK, Memory, Counters, Flags, network
<1>2. CASE \E s \in Free, o \in Outcomes, t \in Wait(0) :
              /\ \A r \in Free : s <= r
              /\ Outcome(o)
              /\ Hear(k, o)
              /\ requests' = IF o = "answered" THEN requests
                             ELSE [requests EXCEPT ![s] = Request(k, t, 0)]
  <2>1. PICK s \in Free, o \in Outcomes, t \in Wait(0) :
              /\ Outcome(o)
              /\ Hear(k, o)
              /\ requests' = IF o = "answered" THEN requests
                             ELSE [requests EXCEPT ![s] = Request(k, t, 0)]
    BY <1>2
  <2>2. Request(k, t, 0) \in Requests
    BY DEF Requests, Wait
  <2>3. requests' \in [Slots -> Requests]
    BY <2>1, <2>2 DEF TypeOK, Memory, Counters, Flags
  <2>4. mode' = mode /\ calm' \in 0..LossGap
    BY <2>1 DEF Outcome, Outcomes, Lose, network, TypeOK, Counters, Flags, Memory
  <2>. QED
    BY <2>1, <2>3, <2>4 DEF Hear, history
<1>. QED
  BY <1>1, <1>2 DEF Put

LEMMA RepeatTypes ==
  ASSUME TypeOK, NEW s \in Slots, Repeat(s)
  PROVE  /\ requests' \in [Slots -> Requests]
         /\ mode' = mode /\ calm' \in 0..LossGap
         /\ \/ wdt' = 0 /\ silence' = 0 /\ reported' = FALSE /\ attended' = connection_status
               /\ known
            \/ UNCHANGED <<wdt, history>>
         /\ requests[s] # Closed
<1>1. requests[s] # Closed /\ requests[s] \in [kind : Kinds, left : Int, tries : 0..MaxRetransmit]
  BY DEF Repeat, TypeOK, Memory, Requests
<1>2. CASE /\ requests' = [requests EXCEPT ![s] = Closed]
           /\ UNCHANGED <<network, wdt, history>>
  BY <1>1, <1>2 DEF TypeOK, Memory, Counters, Flags, network, Requests
<1>3. CASE \E o \in Outcomes, t \in Wait(requests[s].tries + 1) :
             /\ ~Exhausted(requests[s])
             /\ Outcome(o)
             /\ Hear(requests[s].kind, o)
             /\ requests' = [requests EXCEPT ![s] =
                  IF o = "answered" THEN Closed
                  ELSE Request(requests[s].kind, t, requests[s].tries + 1)]
  <2>1. PICK o \in Outcomes, t \in Wait(requests[s].tries + 1) :
             /\ ~Exhausted(requests[s])
             /\ Outcome(o)
             /\ Hear(requests[s].kind, o)
             /\ requests' = [requests EXCEPT ![s] =
                  IF o = "answered" THEN Closed
                  ELSE Request(requests[s].kind, t, requests[s].tries + 1)]
    BY <1>3
  <2>2. Request(requests[s].kind, t, requests[s].tries + 1) \in Requests
    <3>1. t \in Int
      BY DEF Wait
    <3>2. requests[s].tries + 1 \in 0..MaxRetransmit
      BY <1>1, <2>1 DEF Exhausted
    <3>. QED
      BY <1>1, <3>1, <3>2 DEF Requests
  <2>3. requests' \in [Slots -> Requests]
    BY <2>1, <2>2 DEF TypeOK, Memory, Counters, Flags, Requests
  <2>4. mode' = mode /\ calm' \in 0..LossGap
    BY <2>1 DEF Outcome, Outcomes, Lose, network, TypeOK, Counters, Flags, Memory
  <2>. QED
    BY <1>1, <2>1, <2>3, <2>4 DEF Hear, history
<1>. QED
  BY <1>1, <1>2, <1>3 DEF Repeat

-----------------------------------------------------------------------------
(* The counter never runs ahead of the silence: k counted sweeps are k - 1 *)
(* whole rounds and the part of the round that has begun.                  *)
NotAhead ==
  /\ wdt = 1 => silence >= swept
  /\ wdt = 2 => silence >= Period + swept
  /\ wdt = 3 => silence >= 2 * Period + swept

(* It never falls behind either, until the silence is reported.            *)
NotBehind ==
  known /\ ~reported =>
    /\ wdt = 0 => silence <= swept
    /\ wdt = 1 => silence <= Period + Jitter + swept
    /\ wdt = 2 => silence <= 2 * (Period + Jitter) + swept
    /\ wdt = 3 => silence <= 3 * (Period + Jitter) + swept

IInv == TypeOK /\ NotAhead /\ NotBehind

LEMMA InitInv == Init => IInv
<1>. SUFFICES ASSUME Init PROVE IInv
  OBVIOUS
<1>. USE DEF Init, SensorBoot, GatewayBoot
<1>1. Flags
  BY DEF Flags
<1>2. Counters
  BY DEF Counters
<1>3. Memory
  BY DEF Memory, Requests
<1>. QED
  BY <1>1, <1>2, <1>3 DEF IInv, TypeOK, NotAhead, NotBehind

(* What a step of the sensor's stack can do to the gateway.                *)
LEMMA HearStep ==
  ASSUME IInv, up, UNCHANGED <<words, up, connection_status, running, known, is_timeout, swept>>,
         requests' \in [Slots -> Requests],
         mode' = mode /\ calm' \in 0..LossGap,
         slept' \in 0..(Period + Jitter),
         \/ wdt' = 0 /\ silence' = 0 /\ reported' = FALSE /\ attended' = connection_status /\ known
         \/ UNCHANGED <<wdt, history>>
  PROVE  IInv' /\ [Detector!Next]_Detector!vars
<1>1. Memory'
  BY DEF Memory
<1>2. CASE UNCHANGED <<wdt, history>>
  <2>1. Flags' /\ Counters'
    BY <1>2 DEF IInv, TypeOK, Flags, Counters, history
  <2>. QED
    BY <1>1, <1>2, <2>1 DEF IInv, TypeOK, NotAhead, NotBehind, history, Detector!vars
<1>3. CASE /\ wdt' = 0 /\ silence' = 0 /\ reported' = FALSE /\ attended' = connection_status
           /\ known
  <2>1. Flags'
    BY <1>3 DEF IInv, TypeOK, Flags
  <2>2. Counters'
    BY <1>3 DEF IInv, TypeOK, Counters
  <2>3. NotAhead' /\ NotBehind'
    BY <1>3 DEF IInv, TypeOK, Counters, NotAhead, NotBehind
  <2>4. Detector!Heard
    BY <1>3 DEF Detector!Heard
  <2>. QED
    BY <1>1, <2>1, <2>2, <2>3, <2>4 DEF IInv, TypeOK, Detector!Next
<1>. QED
  BY <1>2, <1>3

LEMMA SensorStep ==
  ASSUME IInv, Status \/ Tap \/ \E s \in Slots : Repeat(s)
  PROVE  IInv' /\ [Detector!Next]_Detector!vars
<1>1. TypeOK /\ Counters /\ slept \in 0..(Period + Jitter) /\ 0 \in 0..(Period + Jitter)
  BY DEF IInv, TypeOK, Counters
<1>2. CASE Status
  <2>1. /\ slept' \in 0..(Period + Jitter) /\ up
        /\ UNCHANGED <<words, up, connection_status, running, known, is_timeout, swept>>
    BY <1>1, <1>2 DEF Status
  <2>2. CASE connection_status
    <3>1. Put("status")
      BY <1>2, <2>2 DEF Status
    <3>. QED
      BY <1>1, <2>1, <3>1, PutTypes, HearStep
  <2>3. CASE ~connection_status
    <3>1. /\ UNCHANGED <<wdt, history>> /\ mode' = mode /\ calm' \in 0..LossGap
          /\ requests' \in [Slots -> Requests]
      BY <1>1, <1>2, <2>3 DEF Status, network, TypeOK, Counters, Memory
    <3>. QED
      BY <2>1, <3>1, HearStep
  <2>. QED
    BY <2>2, <2>3
<1>3. CASE Tap
  <2>1. /\ slept' \in 0..(Period + Jitter) /\ up /\ Put("tap")
        /\ UNCHANGED <<words, up, connection_status, running, known, is_timeout, swept>>
    BY <1>1, <1>3 DEF Tap
  <2>. QED
    BY <1>1, <2>1, PutTypes, HearStep
<1>4. CASE \E s \in Slots : Repeat(s)
  <2>1. PICK s \in Slots : Repeat(s)
    BY <1>4
  <2>2. /\ slept' \in 0..(Period + Jitter)
        /\ UNCHANGED <<words, up, connection_status, running, known, is_timeout, swept>>
    BY <1>1, <2>1 DEF Repeat
  <2>3. up
    BY <1>1, <2>1 DEF TypeOK, Memory, Repeat
  <2>. QED
    BY <1>1, <2>1, <2>2, <2>3, RepeatTypes, HearStep
<1>. QED
  BY <1>2, <1>3, <1>4

(* Steps that neither the counter nor the table of the gateway sees.       *)
LEMMA UnseenStep ==
  ASSUME IInv, Heal \/ (\E w \in Words : Word(w)) \/ SensorFails \/ SensorStarts \/ GatewayStarts
  PROVE  IInv' /\ [Detector!Next]_Detector!vars
<1>. TypeOK
  BY DEF IInv
<1>1. TypeOK' /\ UNCHANGED <<known, wdt, is_timeout, swept, silence, reported>>
  <2>1. CASE Heal
    <3>1. UNCHANGED <<words, sensor, gateway, history>> /\ mode' = "clean" /\ calm' = 0
      BY <2>1 DEF Heal
    <3>. QED
      BY <3>1 DEF TypeOK, Flags, Counters, Memory, sensor, gateway, history
  <2>2. CASE \E w \in Words : Word(w)
    <3>1. PICK w \in Words : Word(w)
      BY <2>2
    <3>2. UNCHANGED <<up, requests, slept, gateway, silence, reported>>
      BY <3>1 DEF Word
    <3>3. Memory'
      BY <3>2 DEF TypeOK, Memory
    <3>4. mode' = mode /\ calm' \in 0..LossGap
      BY <3>1 DEF Word, Lose, network, TypeOK, Counters
    <3>5. Counters'
      BY <3>2, <3>4 DEF TypeOK, Counters, gateway
    <3>6. Flags'
      <4>1. connection_status' \in BOOLEAN /\ (~up => ~connection_status')
        <5>1. CASE UNCHANGED connection_status
          BY <5>1, <3>2 DEF TypeOK, Flags
        <5>2. CASE up /\ connection_status' = (w = "AUTH")
          BY <5>2
        <5>. QED
          BY <3>1, <5>1, <5>2 DEF Word
      <4>2. attended' \in BOOLEAN /\ words' \subseteq Words
        BY <3>1 DEF Word, TypeOK, Flags
      <4>. QED
        BY <3>2, <3>4, <4>1, <4>2 DEF TypeOK, Flags, gateway
    <3>. QED
      BY <3>2, <3>3, <3>5, <3>6 DEF TypeOK, gateway
  <2>3. CASE SensorFails
    <3>1. Memory'
      BY <2>3 DEF SensorFails, Memory, Requests
    <3>2. Counters'
      BY <2>3 DEF SensorFails, TypeOK, Counters, network, gateway
    <3>3. Flags'
      BY <2>3 DEF SensorFails, TypeOK, Flags, network, gateway
    <3>. QED
      BY <2>3, <3>1, <3>2, <3>3 DEF SensorFails, TypeOK, gateway
  <2>4. CASE SensorStarts
    BY <2>4 DEF TypeOK, Flags, Counters, Memory, SensorStarts, network, gateway, history
  <2>5. CASE GatewayStarts
    BY <2>5 DEF TypeOK, Flags, Counters, Memory, GatewayStarts, network, sensor, history
  <2>. QED
    BY <2>1, <2>2, <2>3, <2>4, <2>5
<1>. QED
  BY <1>1 DEF IInv, NotAhead, NotBehind, Detector!vars

LEMMA CommandStep ==
  ASSUME IInv, Register \/ Deregister \/ GatewayFails
  PROVE  IInv' /\ [Detector!Next]_Detector!vars
<1>. TypeOK
  BY DEF IInv
<1>1. /\ known' \in BOOLEAN /\ is_timeout' \in BOOLEAN /\ running' \in BOOLEAN
      /\ (~running' => ~known' /\ ~is_timeout')
      /\ reported' = FALSE /\ attended' = FALSE
      /\ words' \subseteq Words
      /\ UNCHANGED <<network, sensor>>
  BY DEF Register, Deregister, GatewayFails, TypeOK, Flags
<1>2. Flags'
  BY <1>1 DEF TypeOK, Flags, network, sensor
<1>3. wdt' = 0 /\ silence' = 0 /\ swept' \in 0..(Period + Jitter)
  BY DEF Register, Deregister, GatewayFails, TypeOK, Counters
<1>4. Counters'
  BY <1>1, <1>3 DEF TypeOK, Counters, network, sensor
<1>5. Memory'
  BY <1>1 DEF TypeOK, Memory, sensor
<1>6. NotAhead' /\ NotBehind'
  BY <1>3 DEF NotAhead, NotBehind
<1>7. Register => Detector!Watch
  BY DEF Register, Detector!Watch
<1>8. Deregister => Detector!Forget
  BY DEF Deregister, Detector!Forget
<1>9. GatewayFails => Detector!Restart
  BY DEF GatewayFails, Detector!Restart
<1>. QED
  BY <1>2, <1>4, <1>5, <1>6, <1>7, <1>8, <1>9 DEF IInv, TypeOK, Detector!Next

LEMMA SweepStep ==
  ASSUME IInv, Sweep
  PROVE  IInv' /\ [Detector!Next]_Detector!vars
<1>. TypeOK
  BY DEF IInv
<1>1. Flags' /\ Memory'
  <2>1. /\ is_timeout' \in BOOLEAN /\ reported' \in BOOLEAN /\ running
        /\ UNCHANGED <<network, words, sensor, running, known, attended>>
    BY DEF Sweep, TypeOK, Flags
  <2>. QED
    BY <2>1 DEF TypeOK, Flags, Memory, network, sensor
<1>2. swept' = 0 /\ swept >= Period /\ UNCHANGED <<network, sensor, known, silence>>
  BY DEF Sweep
<1>3. CASE known /\ TimedOut
  <2>1. UNCHANGED wdt /\ reported' = TRUE /\ is_timeout' = TRUE
    BY <1>3 DEF Sweep
  <2>2. wdt = 3 /\ silence >= Least
    BY <1>2, <1>3 DEF IInv, TypeOK, Counters, TimedOut, NotAhead
  <2>3. Counters'
    BY <1>2, <2>1 DEF TypeOK, Counters, network, sensor
  <2>4. NotAhead' /\ NotBehind'
    BY <1>2, <2>1, <2>2 DEF TypeOK, Counters, NotAhead, NotBehind
  <2>5. Detector!Report
    BY <1>2, <1>3, <2>1, <2>2 DEF Detector!Report
  <2>. QED
    BY <1>1, <2>3, <2>4, <2>5 DEF IInv, TypeOK, Detector!Next
<1>4. CASE known /\ ~TimedOut
  <2>1. wdt' = wdt + 1 /\ wdt \in 0..2 /\ UNCHANGED <<is_timeout, reported>>
    BY <1>4 DEF Sweep, TimedOut, TypeOK, Counters
  <2>2. Counters'
    BY <1>2, <1>4, <2>1 DEF TypeOK, Counters, network, sensor
  <2>3. NotAhead'
    BY <1>2, <2>1 DEF IInv, TypeOK, Counters, NotAhead
  <2>4. NotBehind'
    BY <1>2, <2>1 DEF IInv, TypeOK, Counters, NotBehind
  <2>. QED
    BY <1>1, <1>2, <2>1, <2>2, <2>3, <2>4 DEF IInv, TypeOK, Detector!vars
<1>5. CASE ~known
  <2>1. UNCHANGED <<wdt, is_timeout, reported>>
    BY <1>5 DEF Sweep
  <2>2. Counters'
    BY <1>2, <2>1 DEF TypeOK, Counters, network, sensor
  <2>3. NotAhead' /\ NotBehind'
    BY <1>2, <1>5, <2>1 DEF TypeOK, Counters, NotAhead, NotBehind
  <2>. QED
    BY <1>1, <1>2, <2>1, <2>2, <2>3 DEF IInv, TypeOK, Detector!vars
<1>. QED
  BY <1>3, <1>4, <1>5

LEMMA RingStep ==
  ASSUME IInv, Ring
  PROVE  IInv' /\ [Detector!Next]_Detector!vars
<1>1. TypeOK'
  BY DEF IInv, TypeOK, Flags, Counters, Memory, Ring, network, sensor, history
<1>. QED
  BY <1>1 DEF IInv, NotAhead, NotBehind, Ring, history, Detector!Next, Detector!Ring

LEMMA TickStep ==
  ASSUME IInv, Tick
  PROVE  IInv' /\ [Detector!Next]_Detector!vars
<1>. TypeOK
  BY DEF IInv
<1>1. UNCHANGED <<mode, words, up, connection_status, running, known, wdt, is_timeout, reported,
                  attended>>
  BY DEF Tick
<1>2. Flags'
  BY <1>1 DEF TypeOK, Flags
<1>3. Memory'
  <2>1. ASSUME NEW s \in Slots, requests[s] # Closed
        PROVE  Sooner(requests[s]) \in Requests
    BY <2>1 DEF TypeOK, Memory, Requests, Sooner
  <2>2. requests' \in [Slots -> Requests]
    BY <2>1 DEF Tick, Requests
  <2>. QED
    BY <1>1, <2>2 DEF Tick, TypeOK, Memory
<1>4. /\ running => swept' = swept + 1 /\ swept < Period + Jitter
      /\ ~running => swept' = swept
      /\ silence' = IF known /\ silence < Most THEN silence + 1 ELSE silence
  BY DEF Tick
<1>5. Counters'
  <2>1. slept' \in 0..(Period + Jitter)
    BY DEF Tick, TypeOK, Flags, Counters
  <2>2. calm' \in 0..LossGap
    BY DEF Tick, TypeOK, Counters
  <2>3. swept' \in 0..(Period + Jitter) /\ silence' \in 0..Most
    BY <1>4 DEF TypeOK, Flags, Counters
  <2>. QED
    BY <1>1, <2>1, <2>2, <2>3 DEF TypeOK, Counters
<1>6. known => running
  BY DEF TypeOK, Flags
<1>7. silence < Most \/ reported \/ ~known
  <2>. SUFFICES ASSUME known, ~reported PROVE silence < Most
    OBVIOUS
  <2>1. swept < Period + Jitter
    BY <1>4, <1>6
  <2>. QED
    BY <2>1 DEF IInv, NotBehind, TypeOK, Counters
<1>8. CASE known
  <2>1. swept' = swept + 1 /\ swept < Period + Jitter
    BY <1>4, <1>6, <1>8
  <2>2. NotAhead'
    BY <1>1, <1>4, <2>1, <1>8 DEF IInv, NotAhead, TypeOK, Counters
  <2>3. NotBehind'
    BY <1>1, <1>4, <2>1, <1>7 DEF IInv, NotBehind, TypeOK, Counters
  <2>4. Detector!Tick
    BY <1>1, <1>4, <1>7 DEF Detector!Tick
  <2>. QED
    BY <1>2, <1>3, <1>5, <2>2, <2>3, <2>4 DEF IInv, TypeOK, Detector!Next
<1>9. CASE ~known
  <2>1. NotAhead' /\ NotBehind'
    BY <1>1, <1>9 DEF TypeOK, Counters, NotAhead, NotBehind
  <2>2. Detector!Tick
    BY <1>1, <1>4, <1>9 DEF Detector!Tick
  <2>. QED
    BY <1>2, <1>3, <1>5, <2>1, <2>2 DEF IInv, TypeOK, Detector!Next
<1>. QED
  BY <1>8, <1>9

-----------------------------------------------------------------------------
(* Every step keeps the invariant and is a step of the detector.           *)
LEMMA StepImplements ==
  ASSUME IInv, [Next]_vars
  PROVE  IInv' /\ [Detector!Next]_Detector!vars
<1>1. CASE UNCHANGED vars
  BY <1>1 DEF IInv, TypeOK, Flags, Counters, Memory, NotAhead, NotBehind, vars, Detector!vars
<1>2. CASE Next
  BY <1>2, TickStep, SensorStep, UnseenStep, CommandStep, SweepStep, RingStep DEF Next
<1>. QED
  BY <1>1, <1>2

LEMMA Inductive == Spec => []IInv
<1>1. IInv /\ [Next]_vars => IInv'
  BY StepImplements
<1>. QED
  BY InitInv, <1>1, PTL DEF Spec

(* The state of Heartbeat keeps its type, the request slots and the        *)
(* repetitions their limit, and a node that is off remembers nothing.      *)
THEOREM HeartbeatTypeCorrect == Spec => []TypeOK
<1>1. IInv => TypeOK
  BY DEF IInv
<1>. QED
  BY <1>1, Inductive, PTL

(* The counter of ht_wdt and ht_update_time is a detector of silence: no   *)
(* alarm for a sensor heard of within 3 * Period ticks, none missing after *)
(* 4 * (Period + Jitter), whatever is lost or late and whoever restarts.   *)
(* A round counts when it wakes: the time ht_wdt waits for ht_lock between *)
(* the two (gateway_node.c:127-129, gateway_hashtable.c:266), which could  *)
(* bring one count closer to the next, is not in the model.                *)
THEOREM CounterDetectsSilence == Spec => ImplementsDetector
<1>1. Init => Detector!Init
  BY DEF Init, GatewayBoot, Detector!Init
<1>2. IInv /\ [Next]_vars => [Detector!Next]_Detector!vars
  BY StepImplements
<1>. QED
  BY <1>1, <1>2, Inductive, PTL DEF Spec, ImplementsDetector, Detector!Spec

-----------------------------------------------------------------------------
(* Spaced losses.                                                          *)

(* Two slots or more; losses further apart than the longest time to a      *)
(* first repetition and than a round; and a lateness below half a second.  *)
LossesAreSpaced ==
  /\ ResendBufs >= 2
  /\ (3 * AckTimeout) \div 2 < LossGap
  /\ Period + Jitter < LossGap
  /\ 2 * (Period + Jitter) < 3 * Period

(* A loss finds no open request: the packet lost before was repeated and   *)
(* answered, or given up, in the meantime.                                 *)
OneAtATime ==
  mode = "gentle" =>
    /\ up /\ running
    /\ \A s \in Slots : requests[s] # Closed =>
         requests[s].tries = 0 /\ requests[s].left >= 0 /\ requests[s].left + calm < LossGap
    /\ \A r, s \in Slots : requests[r] # Closed /\ requests[s] # Closed => r = s

(* The last status was heard, or it was lost and the one before heard.     *)
StaysHeard ==
  mode = "gentle" /\ attended =>
    /\ connection_status /\ known
    /\ silence <= slept \/ (silence <= Period + Jitter + slept /\ calm <= slept)

SpacedInv == OneAtATime /\ StaysHeard

(* What the gateway learns from a packet.                                  *)
IsHeard == silence' = 0 /\ attended' = connection_status /\ known

(* Only a loss that leaves no other open request is possible.              *)
LEMMA LossFindsNone ==
  ASSUME TypeOK, OneAtATime, mode = "gentle", calm = LossGap, NEW s \in Slots
  PROVE  requests[s] = Closed
  BY DEF TypeOK, Memory, Requests, Counters, OneAtATime

LEMMA PutSpaced ==
  ASSUME LossesAreSpaced, TypeOK, OneAtATime, mode = "gentle", NEW k \in Kinds, Put(k)
  PROVE  /\ mode' = mode
         /\ \/ UNCHANGED <<requests, calm>>
            \/ \E s \in Slots, t \in 0..(LossGap - 1) :
                 /\ calm = LossGap /\ calm' = 0
                 /\ requests' = [requests EXCEPT ![s] = Request(k, t, 0)]
         /\ \/ IsHeard
            \/ UNCHANGED history /\ calm = LossGap /\ calm' = 0
            \/ UNCHANGED history /\ UNCHANGED calm /\ (k = "tap" \/ ~known)
<1>1. PICK r \in Slots : requests[r] = Closed
  <2>1. 1 \in Slots /\ 2 \in Slots
    BY DEF LossesAreSpaced
  <2> QED BY <2>1 DEF OneAtATime
<1>2. Free # {}
  BY <1>1 DEF Free
<1>3. PICK s \in Free, o \in Outcomes, t \in Wait(0) :
        /\ Outcome(o)
        /\ Hear(k, o)
        /\ requests' = IF o = "answered" THEN requests
                       ELSE [requests EXCEPT ![s] = Request(k, t, 0)]
  BY <1>2 DEF Put
<1>4. s \in Slots /\ t \in 0..(LossGap - 1)
  BY DEF Free, Wait, LossesAreSpaced
<1>5. running
  BY DEF OneAtATime
<1>6. CASE o = "answered"
  <2>1. UNCHANGED <<mode, calm, requests>>
    BY <1>3, <1>6 DEF Outcome, network
  <2>2. IsHeard \/ (UNCHANGED history /\ (k = "tap" \/ ~known))
    BY <1>3, <1>6 DEF Hear, IsHeard
  <2> QED BY <2>1, <2>2
<1>7. CASE o \in {"unanswered", "lost"}
  <2>1. calm = LossGap /\ calm' = 0 /\ mode' = mode
    BY <1>3, <1>5, <1>7 DEF Outcome, Lose, network
  <2>2. requests' = [requests EXCEPT ![s] = Request(k, t, 0)]
    BY <1>3, <1>7
  <2>3. IsHeard \/ UNCHANGED history
    BY <1>3 DEF Hear, IsHeard
  <2> QED BY <1>4, <2>1, <2>2, <2>3
<1> QED BY <1>6, <1>7 DEF Outcomes

LEMMA RepeatSpaced ==
  ASSUME TypeOK, OneAtATime, mode = "gentle", NEW s \in Slots, Repeat(s)
  PROVE  /\ UNCHANGED <<mode, calm>>
         /\ requests' = [requests EXCEPT ![s] = Closed]
         /\ IsHeard \/ UNCHANGED history
<1>1. requests[s] # Closed /\ calm # LossGap /\ running
  BY LossFindsNone DEF Repeat, OneAtATime
<1>2. CASE requests' = [requests EXCEPT ![s] = Closed] /\ UNCHANGED <<network, wdt, history>>
  BY <1>2 DEF network
<1>3. ASSUME NEW o \in Outcomes, NEW t,
             Outcome(o), Hear(requests[s].kind, o),
             requests' = [requests EXCEPT ![s] =
                IF o = "answered" THEN Closed
                ELSE Request(requests[s].kind, t, requests[s].tries + 1)]
      PROVE  /\ UNCHANGED <<mode, calm>>
             /\ requests' = [requests EXCEPT ![s] = Closed]
             /\ IsHeard \/ UNCHANGED history
  <2>1. o = "answered" /\ UNCHANGED network
    BY <1>1, <1>3 DEF Outcome, Outcomes, Lose
  <2> QED BY <1>3, <2>1 DEF network, Hear, IsHeard
<1> QED BY <1>2, <1>3 DEF Repeat

(* The slots after a packet, and the slots after a repetition.             *)
LEMMA OneMore ==
  ASSUME TypeOK, OneAtATime, mode = "gentle", NEW s \in Slots, NEW k, NEW t \in 0..(LossGap - 1),
         calm = LossGap, calm' = 0, UNCHANGED <<up, running>>,
         requests' = [requests EXCEPT ![s] = Request(k, t, 0)]
  PROVE  OneAtATime'
<1>1. \A r \in Slots : requests'[r] = IF r = s THEN Request(k, t, 0) ELSE Closed
  BY LossFindsNone DEF TypeOK, Memory
<1> QED BY <1>1 DEF OneAtATime, TypeOK, Counters

LEMMA OneLess ==
  ASSUME TypeOK, OneAtATime, NEW s \in Slots, UNCHANGED <<up, running, mode, calm>>,
         requests' = [requests EXCEPT ![s] = Closed]
  PROVE  OneAtATime'
<1>1. \A r \in Slots : requests'[r] = IF r = s THEN Closed ELSE requests[r]
  BY DEF TypeOK, Memory
<1> QED BY <1>1 DEF OneAtATime

LEMMA SpacedInit == Init => SpacedInv
  BY DEF Init, SensorBoot, GatewayBoot, SpacedInv, OneAtATime, StaysHeard

LEMMA SpacedStatus ==
  ASSUME LossesAreSpaced, TypeOK, SpacedInv, mode = "gentle", Status
  PROVE  SpacedInv'
<1> USE DEF SpacedInv
<1>1. /\ slept' = 0 /\ UNCHANGED <<up, connection_status, running, known>>
      /\ slept \in 0..(Period + Jitter) /\ calm \in 0..LossGap /\ silence \in 0..Most
  BY DEF Status, TypeOK, Counters
<1>2. CASE connection_status
  <2>1. Put("status") /\ "status" \in Kinds
    BY <1>2 DEF Status
  <2>2. OneAtATime'
    BY <1>1, <2>1, PutSpaced, OneMore DEF OneAtATime
  <2>3. StaysHeard'
    <3>1. CASE IsHeard
      BY <1>1, <3>1 DEF IsHeard, StaysHeard
    <3>2. CASE UNCHANGED history /\ calm = LossGap /\ calm' = 0
      <4>1. ~(calm <= slept)
        BY <1>1, <3>2 DEF LossesAreSpaced
      <4> QED BY <1>1, <3>2, <4>1 DEF StaysHeard, history
    <3>3. CASE UNCHANGED history /\ ~known
      BY <1>1, <3>3 DEF StaysHeard, history
    <3> QED BY <2>1, PutSpaced, <3>1, <3>2, <3>3
  <2> QED BY <2>2, <2>3
<1>3. CASE ~connection_status
  <2>1. UNCHANGED <<network, requests, wdt, history>>
    BY <1>3 DEF Status
  <2> QED BY <1>1, <1>3, <2>1 DEF network, history, OneAtATime, StaysHeard
<1> QED BY <1>2, <1>3

LEMMA SpacedTap ==
  ASSUME LossesAreSpaced, TypeOK, SpacedInv, mode = "gentle", Tap
  PROVE  SpacedInv'
<1> USE DEF SpacedInv
<1>1. /\ UNCHANGED <<up, connection_status, running, known, slept>> /\ "tap" \in Kinds /\ Put("tap")
      /\ slept \in 0..(Period + Jitter) /\ calm \in 0..LossGap
  BY DEF Tap, TypeOK, Counters
<1>2. OneAtATime'
  BY <1>1, PutSpaced, OneMore DEF OneAtATime
<1>3. IsHeard \/ (UNCHANGED history /\ (calm' = 0 \/ calm' = calm))
  BY <1>1, PutSpaced
<1>4. mode' = mode /\ connection_status \in BOOLEAN
  BY <1>1, PutSpaced DEF TypeOK, Flags
<1>5. CASE IsHeard
  BY <1>1, <1>2, <1>4, <1>5 DEF IsHeard, StaysHeard
<1>6. CASE UNCHANGED history /\ (calm' = 0 \/ calm' = calm)
  <2>1. UNCHANGED <<silence, attended>>
    BY <1>6 DEF history
  <2> QED BY <1>1, <1>2, <1>4, <1>6, <2>1 DEF StaysHeard
<1> QED BY <1>3, <1>5, <1>6

LEMMA SpacedRepeat ==
  ASSUME TypeOK, SpacedInv, mode = "gentle", NEW s \in Slots, Repeat(s)
  PROVE  SpacedInv'
<1> USE DEF SpacedInv
<1>1. UNCHANGED <<up, connection_status, running, known, slept>> /\ slept \in 0..(Period + Jitter)
  BY DEF Repeat, TypeOK, Counters
<1>2. OneAtATime'
  BY <1>1, RepeatSpaced, OneLess
<1>3. UNCHANGED <<mode, calm>> /\ (IsHeard \/ UNCHANGED history) /\ connection_status \in BOOLEAN
  BY RepeatSpaced DEF TypeOK, Flags
<1>4. CASE IsHeard
  BY <1>1, <1>2, <1>3, <1>4 DEF IsHeard, StaysHeard
<1>5. CASE UNCHANGED history
  <2>1. UNCHANGED <<silence, attended>>
    BY <1>5 DEF history
  <2> QED BY <1>1, <1>2, <1>3, <2>1 DEF StaysHeard
<1> QED BY <1>3, <1>4, <1>5

LEMMA SpacedTick ==
  ASSUME TypeOK, SpacedInv, mode = "gentle", Tick
  PROVE  SpacedInv'
<1>1. /\ UNCHANGED <<mode, up, running, connection_status, known, attended>>
      /\ up /\ slept' = slept + 1
      /\ calm' = IF calm < LossGap THEN calm + 1 ELSE calm
      /\ silence' = IF known /\ silence < Most THEN silence + 1 ELSE silence
  BY DEF Tick, SpacedInv, OneAtATime
<1>2. /\ slept \in Nat /\ calm \in 0..LossGap /\ silence \in Nat
      /\ requests \in [Slots -> Requests]
  BY DEF TypeOK, Counters, Memory
<1>3. OneAtATime'
  <2>1. ASSUME NEW s \in Slots, requests'[s] # Closed
        PROVE  /\ requests[s] # Closed /\ requests'[s].tries = 0 /\ requests'[s].left >= 0
               /\ requests'[s].left + calm' < LossGap
    <3>1. requests[s] # Closed /\ requests'[s] = Sooner(requests[s]) /\ requests[s].left > 0
      BY <2>1 DEF Tick
    <3>2. requests[s].left \in Int /\ requests[s].tries = 0 /\ requests[s].left + calm < LossGap
      BY <1>2, <3>1 DEF SpacedInv, OneAtATime, Requests
    <3>3. requests'[s].left = requests[s].left - 1 /\ requests'[s].tries = requests[s].tries
      BY <3>1 DEF Sooner
    <3> QED BY <1>1, <1>2, <3>1, <3>2, <3>3
  <2> QED BY <1>1, <2>1 DEF SpacedInv, OneAtATime
<1>4. StaysHeard'
  BY <1>1, <1>2 DEF SpacedInv, StaysHeard
<1> QED BY <1>3, <1>4 DEF SpacedInv

(* The other steps neither use a slot nor let time pass.                   *)
LEMMA SpacedRest ==
  ASSUME TypeOK, SpacedInv, mode = "gentle",
         \/ \E w \in Words : Word(w)
         \/ SensorFails \/ SensorStarts \/ Register \/ Deregister \/ Sweep \/ Ring
         \/ GatewayFails \/ GatewayStarts
  PROVE  SpacedInv'
<1> USE DEF SpacedInv
<1>1. up /\ running /\ slept \in Nat /\ calm \in 0..LossGap
  BY DEF OneAtATime, TypeOK, Counters
<1>2. CASE \E w \in Words : Word(w)
  <2>1. PICK w \in Words : Word(w)
    BY <1>2
  <2>2. /\ UNCHANGED <<up, running, slept, requests, known, silence, mode>>
        /\ attended' = (attended /\ connection_status')
    BY <2>1 DEF Word, gateway, Lose, network
  <2>3. UNCHANGED calm \/ (calm = LossGap /\ calm' = 0)
    BY <2>1 DEF Word, Lose, network
  <2>4. OneAtATime'
    BY <1>1, <2>2, <2>3, LossFindsNone DEF OneAtATime
  <2>5. StaysHeard'
    <3>1. SUFFICES ASSUME attended, connection_status' PROVE StaysHeard'
      BY <2>2 DEF StaysHeard
    <3> QED BY <1>1, <2>2, <2>3, <3>1 DEF StaysHeard
  <2> QED BY <2>4, <2>5
<1>3. CASE SensorStarts \/ GatewayStarts \/ SensorFails \/ GatewayFails
  BY <1>1, <1>3 DEF SensorStarts, GatewayStarts, SensorFails, GatewayFails
<1>4. CASE Register \/ Deregister
  <2>1. UNCHANGED <<network, sensor, running>> /\ attended' = FALSE
    BY <1>4 DEF Register, Deregister
  <2> QED BY <2>1 DEF OneAtATime, StaysHeard, network, sensor
<1>5. CASE Sweep \/ Ring
  <2>1. UNCHANGED <<network, sensor, running, known, silence, attended>>
    BY <1>5 DEF Sweep, Ring, history
  <2> QED BY <2>1 DEF OneAtATime, StaysHeard, network, sensor
<1> QED BY <1>2, <1>3, <1>4, <1>5

(* The network becomes gentle at no step.                                  *)
LEMMA ModeStays ==
  ASSUME TypeOK, [Next]_vars, mode' = "gentle" PROVE mode = "gentle"
<1>1. CASE Status \/ Tap
  <2>1. ASSUME NEW k \in Kinds, Put(k), up PROVE mode' = mode
    BY <2>1, PutTypes
  <2> QED BY <1>1, <2>1 DEF Status, Tap, network
<1>2. ASSUME NEW s \in Slots, Repeat(s) PROVE mode' = mode
  BY <1>2, RepeatTypes
<1>3. ASSUME NEW w \in Words, Word(w) PROVE mode' = mode
  BY <1>3 DEF Word, Lose, network
<1>4. CASE \/ SensorFails \/ SensorStarts \/ Register \/ Deregister \/ Sweep \/ Ring
           \/ GatewayFails \/ GatewayStarts \/ Tick
  BY <1>4 DEF SensorFails, SensorStarts, Register, Deregister, Sweep, Ring, GatewayFails,
     GatewayStarts, Tick, network
<1>5. CASE UNCHANGED vars
  BY <1>5 DEF vars
<1> QED BY <1>1, <1>2, <1>3, <1>4, <1>5 DEF Next, Heal

(* Only a round of the watchdog raises is_timeout.                         *)
LEMMA OnlySweepRaises ==
  ASSUME [Next]_vars, ~is_timeout, is_timeout'
  PROVE  Sweep /\ known /\ TimedOut /\ swept >= Period
<1>1. Sweep
  BY DEF Next, vars, Tick, Heal, Status, Tap, Repeat, Word, SensorFails, SensorStarts,
     Register, Deregister, Ring, GatewayFails, GatewayStarts, gateway
<1> QED BY <1>1 DEF Sweep

LEMMA SpacedStep ==
  ASSUME LossesAreSpaced, TypeOK, SpacedInv, [Next]_vars
  PROVE  SpacedInv'
<1>1. CASE mode' # "gentle"
  BY <1>1 DEF SpacedInv, OneAtATime, StaysHeard
<1>2. CASE mode' = "gentle"
  <2>1. mode = "gentle" /\ ~Heal
    BY <1>2, ModeStays DEF Heal
  <2>2. CASE UNCHANGED vars
    BY <2>2 DEF SpacedInv, OneAtATime, StaysHeard, vars
  <2>3. CASE Next
    BY <2>1, <2>3, SpacedStatus, SpacedTap, SpacedRepeat, SpacedTick, SpacedRest DEF Next
  <2> QED BY <2>2, <2>3
<1> QED BY <1>1, <1>2

LEMMA SpacedInvariant == LossesAreSpaced /\ Spec => []SpacedInv
<1> SUFFICES ASSUME LossesAreSpaced PROVE Spec => []SpacedInv
  OBVIOUS
<1>1. TypeOK /\ SpacedInv /\ [Next]_vars => SpacedInv'
  BY SpacedStep
<1> QED BY SpacedInit, <1>1, HeartbeatTypeCorrect, PTL DEF Spec

(* On a network whose losses are further apart than the longest time to a  *)
(* first repetition, a sensor that is heard of and stays linked is never   *)
(* taken for silent, with two slots and threads that are late by less than *)
(* half a second.  With one slot, or closer losses, a status finds no slot *)
(* and the statement is false.                                             *)
THEOREM SpacedLossNeverAlarms == LossesAreSpaced /\ Spec => SpacedLossIsQuiet
<1> SUFFICES ASSUME LossesAreSpaced PROVE Spec => SpacedLossIsQuiet
  OBVIOUS
<1>1. ASSUME IInv, SpacedInv, [Next]_vars, mode = "gentle", attended, ~is_timeout, is_timeout'
      PROVE  FALSE
  <2>1. Sweep /\ known /\ TimedOut /\ swept >= Period
    BY <1>1, OnlySweepRaises
  <2>2. /\ wdt = 3 /\ swept \in Nat /\ slept \in 0..(Period + Jitter) /\ silence \in Nat
        /\ silence >= 2 * Period + swept
    BY <1>1, <2>1 DEF IInv, TypeOK, Counters, TimedOut, NotAhead
  <2>3. silence <= 2 * (Period + Jitter)
    BY <1>1, <2>2 DEF SpacedInv, StaysHeard
  <2> QED BY <2>1, <2>2, <2>3 DEF LossesAreSpaced
<1>2. IInv /\ SpacedInv /\ [Next]_vars
        => [mode = "gentle" /\ attended /\ ~is_timeout => ~is_timeout']_vars
  BY <1>1
<1> QED BY <1>2, Inductive, SpacedInvariant, PTL DEF Spec, SpacedLossIsQuiet

=============================================================================
