----------------------------- MODULE Heartbeat -----------------------------
(***************************************************************************)
(* One sensor node and the gateway over a network that loses packets, in   *)
(* time.  The sensor tells once a second that it is alive; the gateway     *)
(* counts once a second how long it has not been told.  Both loops start   *)
(* their second when they wake, so that a round lasts Period ticks and up  *)
(* to Jitter more.  What happens within a tick happens in any order.       *)
(*                                                                         *)
(* AUTH and DEAU are sent once.  The packets of the sensor are             *)
(* confirmable: the stack repeats them until they are answered, and keeps  *)
(* one of its few slots for each until then.  Either node may fail and     *)
(* start again with nothing in memory.  A packet that is not lost arrives  *)
(* within the tick.                                                        *)
(*                                                                         *)
(* The alarm is engaged throughout, and the table has this one sensor:     *)
(* switch, table, lock and registration are Gateway's.                     *)
(***************************************************************************)
EXTENDS Integers

CONSTANTS
  Period,         (* ticks of a second                                     *)
  Jitter,         (* ticks by which a thread may be late                   *)
  ResendBufs,     (* confirmable packets the stack keeps for repetition: 2 *)
  AckTimeout,     (* ticks of the shortest time to the first repetition    *)
  MaxRetransmit,  (* repetitions of a packet: 4                            *)
  LossGap         (* ticks between two losses of a gentle network          *)

ASSUME HeartbeatAssumption ==
  /\ Period \in Nat \ {0}
  /\ Jitter \in Nat /\ ResendBufs \in Nat /\ MaxRetransmit \in Nat /\ LossGap \in Nat
  /\ AckTimeout \in Nat \ {0}

(* Variant: the default of the stack, without the line of the Makefile.    *)
OneSlot == 1..1

Slots == 1..ResendBufs

Request(kind, left, tries) == [kind |-> kind, left |-> left, tries |-> tries]

Closed == Request("none", 0, 0)

Kinds == {"status", "tap"}
Words == {"AUTH", "DEAU"}

-----------------------------------------------------------------------------
VARIABLES
  mode,               (* the network, see below                            *)
  calm,               (* ticks since a gentle network lost a packet        *)
  words,              (* AUTH and DEAU on their way                        *)
  (* the sensor                                                            *)
  up,
  connection_status,
  slept,              (* ticks since status_thread started its round       *)
  requests,           (* what each slot of the stack holds                 *)
  (* the gateway                                                           *)
  running,
  known,              (* the sensor is in the table                        *)
  wdt,                (* its counter                                       *)
  is_timeout,
  swept,              (* ticks since wdt_thread started its round          *)
  (* history: see SilenceDetector                                          *)
  silence, reported,
  attended            (* heard of, and linked ever since                   *)

network == <<mode, calm>>
sensor  == <<up, connection_status, slept, requests>>
gateway == <<running, known, wdt, is_timeout, swept>>
history == <<silence, reported, attended>>

vars == <<mode, calm, words, up, connection_status, slept, requests, running, known,
          wdt, is_timeout, swept, silence, reported, attended>>

Least == 3 * Period
Most  == 4 * (Period + Jitter)

SensorBoot ==
  /\ up = TRUE /\ connection_status = FALSE /\ slept = 0
  /\ requests = [s \in Slots |-> Closed]

GatewayBoot ==
  /\ running = TRUE /\ known = FALSE /\ wdt = 0
  /\ is_timeout = FALSE /\ swept = 0
  /\ silence = 0 /\ reported = FALSE /\ attended = FALSE

Init ==
  /\ mode \in {"rough", "gentle"} /\ calm = 0
  /\ words = {}
  /\ SensorBoot
  /\ GatewayBoot

-----------------------------------------------------------------------------
(* A rough network loses any packet, and nodes fail; a gentle one loses no *)
(* two within LossGap ticks, and nodes do not fail; a clean one loses      *)
(* none.                                                                   *)

Lose ==
  \/ mode = "rough" /\ UNCHANGED network
  \/ mode = "gentle" /\ calm = LossGap /\ calm' = 0 /\ UNCHANGED mode

Heal ==
  /\ mode' = "clean" /\ calm' = 0
  /\ UNCHANGED <<words, sensor, gateway, history>>

(* What becomes of a packet of the sensor: it is lost, it is heard and its *)
(* answer is lost, or it is answered.                                      *)
Outcome(o) ==
  \/ o = "answered" /\ running /\ UNCHANGED network
  \/ o = "unanswered" /\ running /\ Lose
  \/ o = "lost" /\ Lose
  \/ o = "lost" /\ ~running /\ UNCHANGED network

Outcomes == {"answered", "unanswered", "lost"}

(* _sensor_status_handler with ht_update_time: a sensor that is not in the *)
(* table is answered, and nothing else.  A tap does not touch the counter. *)
Hear(kind, o) ==
  IF kind = "status" /\ known /\ o # "lost"
    THEN /\ wdt' = 0
         /\ silence' = 0 /\ reported' = FALSE /\ attended' = connection_status
    ELSE UNCHANGED <<wdt, history>>

(* The time until the n-th repetition.                                     *)
Wait(n) == (2^n * AckTimeout) .. ((3 * 2^n * AckTimeout) \div 2)

-----------------------------------------------------------------------------
(* The sensor.                                                             *)

Free == {s \in Slots : requests[s] = Closed}

(* coap_status_put.  Without a free slot the stack takes no packet, which  *)
(* the callers do not notice.                                              *)
Put(kind) ==
  \/ Free = {} /\ UNCHANGED <<network, requests, wdt, history>>
  \/ \E s \in Free, o \in Outcomes, t \in Wait(0) :
       /\ \A r \in Free : s <= r
       /\ Outcome(o)
       /\ Hear(kind, o)
       /\ requests' = IF o = "answered" THEN requests
                      ELSE [requests EXCEPT ![s] = Request(kind, t, 0)]

(* A round of status_thread.                                               *)
Status ==
  /\ up /\ slept >= Period
  /\ slept' = 0
  /\ IF connection_status THEN Put("status") ELSE UNCHANGED <<network, requests, wdt, history>>
  /\ UNCHANGED <<words, up, connection_status, running, known, is_timeout, swept>>

(* detection_thread.                                                       *)
Tap ==
  /\ up /\ connection_status
  /\ Put("tap")
  /\ UNCHANGED <<words, up, connection_status, slept, running, known,
                 is_timeout, swept>>

(* Variant: one repetition too many.                                       *)
ExhaustedLate(r) == r.tries > MaxRetransmit

Exhausted(r) == r.tries = MaxRetransmit

(* The stack repeats a packet that was not answered in time, and closes    *)
(* the request when it has repeated it often enough.                       *)
Repeat(s) ==
  LET r == requests[s] IN
  /\ r # Closed /\ r.left = 0
  /\ \/ /\ Exhausted(r)
        /\ requests' = [requests EXCEPT ![s] = Closed]
        /\ UNCHANGED <<network, wdt, history>>
     \/ /\ ~Exhausted(r)
        /\ \E o \in Outcomes, t \in Wait(r.tries + 1) :
             /\ Outcome(o)
             /\ Hear(r.kind, o)
             /\ requests' = [requests EXCEPT ![s] =
                  IF o = "answered" THEN Closed
                  ELSE Request(r.kind, t, r.tries + 1)]
  /\ UNCHANGED <<words, up, connection_status, slept, running, known,
                 is_timeout, swept>>

(* _gateway_connection_handler, or the loss of the word.                   *)
Word(w) ==
  /\ w \in words
  /\ words' = words \ {w}
  /\ \/ Lose /\ UNCHANGED connection_status
     \/ ~up /\ UNCHANGED <<network, connection_status>>
     \/ up /\ connection_status' = (w = "AUTH") /\ UNCHANGED network
  /\ attended' = (attended /\ connection_status')
  /\ UNCHANGED <<up, slept, requests, gateway, silence, reported>>

(* The battery is empty; later it is not.                                  *)
SensorFails ==
  /\ mode # "gentle"
  /\ up
  /\ up' = FALSE /\ connection_status' = FALSE /\ slept' = 0
  /\ requests' = [s \in Slots |-> Closed]
  /\ attended' = FALSE
  /\ UNCHANGED <<network, words, gateway, silence, reported>>

SensorStarts ==
  /\ ~up
  /\ up' = TRUE
  /\ UNCHANGED <<network, words, connection_status, slept, requests, gateway, history>>

-----------------------------------------------------------------------------
(* The gateway.                                                            *)

(* auth_sensor_node with the registration of the node: a sensor that is    *)
(* already known is not sent AUTH again.                                   *)
Register ==
  /\ running /\ up /\ ~known
  /\ known' = TRUE /\ wdt' = 0
  /\ words' = words \cup {"AUTH"}
  /\ silence' = 0 /\ reported' = FALSE /\ attended' = FALSE
  /\ UNCHANGED <<network, sensor, running, is_timeout, swept>>

(* de_auth_sensor_node: a sensor that is not known is not sent DEAU.       *)
Deregister ==
  /\ running /\ known
  /\ known' = FALSE /\ wdt' = 0
  /\ words' = words \cup {"DEAU"}
  /\ silence' = 0 /\ reported' = FALSE /\ attended' = FALSE
  /\ UNCHANGED <<network, sensor, running, is_timeout, swept>>

(* Variants: the comparison off by one, and by two.                        *)
TimedOutEarly  == wdt > 1
TimedOutAtOnce == wdt > 0

TimedOut == wdt > 2

(* A round of wdt_thread: the count of ht_wdt and the waking from which    *)
(* the next deadline runs, in one step.                                    *)
Sweep ==
  /\ running /\ swept >= Period
  /\ swept' = 0
  /\ IF known /\ TimedOut
       THEN /\ is_timeout' = TRUE
            /\ reported' = TRUE
            /\ UNCHANGED wdt
       ELSE /\ wdt' = IF known THEN wdt + 1 ELSE wdt
            /\ UNCHANGED <<is_timeout, reported>>
  /\ UNCHANGED <<network, words, sensor, running, known, silence, attended>>

(* A round of alarm_thread, which rings and forgets.                       *)
Ring ==
  /\ running /\ is_timeout
  /\ is_timeout' = FALSE
  /\ UNCHANGED <<network, words, sensor, running, known, wdt, swept, history>>

GatewayFails ==
  /\ mode # "gentle"
  /\ running
  /\ running' = FALSE
  /\ known' = FALSE /\ wdt' = 0 /\ is_timeout' = FALSE /\ swept' = 0
  /\ silence' = 0 /\ reported' = FALSE /\ attended' = FALSE
  /\ UNCHANGED <<network, words, sensor>>

GatewayStarts ==
  /\ ~running
  /\ running' = TRUE
  /\ UNCHANGED <<network, words, sensor, known, wdt, is_timeout, swept, history>>

-----------------------------------------------------------------------------
Sooner(r) == Request(r.kind, r.left - 1, r.tries)

(* Time passes once everything that is due within the tick has happened.   *)
Tick ==
  /\ up => slept < Period + Jitter
  /\ running => swept < Period + Jitter
  /\ words = {}
  /\ \A s \in Slots : requests[s] # Closed => requests[s].left > 0
  /\ slept' = IF up THEN slept + 1 ELSE slept
  /\ swept' = IF running THEN swept + 1 ELSE swept
  /\ requests' = [s \in Slots |-> IF requests[s] = Closed THEN Closed ELSE Sooner(requests[s])]
  /\ calm' = IF mode = "gentle" /\ calm < LossGap THEN calm + 1 ELSE calm
  /\ silence' = IF known /\ silence < Most THEN silence + 1 ELSE silence
  /\ UNCHANGED <<mode, words, up, connection_status, running, known, wdt, is_timeout, reported,
                 attended>>

Next ==
  \/ Tick \/ Heal
  \/ Status \/ Tap \/ \E s \in Slots : Repeat(s)
  \/ \E w \in Words : Word(w)
  \/ SensorFails \/ SensorStarts
  \/ Register \/ Deregister
  \/ Sweep \/ Ring
  \/ GatewayFails \/ GatewayStarts

Spec == Init /\ [][Next]_vars

(* Time passes, threads run when their timer expires, the stack repeats    *)
(* and delivers.  Nothing is asked of the operator or of the network.      *)
Fairness ==
  /\ SF_vars(Tick)
  /\ WF_vars(Status) /\ WF_vars(Sweep) /\ WF_vars(Ring)
  /\ \A s \in Slots : WF_vars(Repeat(s))
  /\ \A w \in Words : WF_vars(Word(w))

FairSpec == Spec /\ Fairness

-----------------------------------------------------------------------------
Requests == {Closed} \cup [kind : Kinds, left : Int, tries : 0..MaxRetransmit]

Flags ==
  /\ mode \in {"rough", "gentle", "clean"}
  /\ words \subseteq Words
  /\ up \in BOOLEAN /\ connection_status \in BOOLEAN
  /\ running \in BOOLEAN /\ known \in BOOLEAN /\ is_timeout \in BOOLEAN
  /\ reported \in BOOLEAN /\ attended \in BOOLEAN
  /\ ~up => ~connection_status
  /\ ~running => ~known /\ ~is_timeout

Counters ==
  /\ calm \in 0..LossGap
  /\ slept \in 0..(Period + Jitter) /\ swept \in 0..(Period + Jitter)
  /\ wdt \in 0..3
  /\ silence \in 0..Most
  /\ ~known => wdt = 0

Memory ==
  /\ requests \in [Slots -> Requests]
  /\ ~up => \A s \in Slots : requests[s] = Closed

(* Every variable has its type; a request is repeated as often as the      *)
(* stack allows and no more; a node that is off remembers nothing, and the *)
(* gateway has no counter for a sensor it does not know.                   *)
TypeOK == Flags /\ Counters /\ Memory

Detector == INSTANCE SilenceDetector WITH
  watched <- known, alarm <- is_timeout

(* The counter of gateway_hashtable.c:280-292 is a detector of silence: it *)
(* never reports a sensor heard of in the last three seconds, and never    *)
(* lets more than four rounds of the watchdog pass without a report,       *)
(* whatever is lost, late or repeated, and whoever restarts.  A restarted  *)
(* gateway reports nobody until the operator authorizes it again.          *)
ImplementsDetector == Detector!Spec

(* As long as the network loses no two packets within LossGap, a sensor    *)
(* that is heard of and stays linked is never taken for silent: the lost   *)
(* status and the slots it and other packets keep (gcoap, coap.c:186-218)  *)
(* never hold back the next ones for four sweeps.                          *)
SpacedLossIsQuiet ==
  [][mode = "gentle" /\ attended /\ ~is_timeout => ~is_timeout']_vars

(* Both nodes are on and agree that the sensor is authorized.              *)
Linked == up /\ connection_status /\ running /\ known

(* Once the network has healed, a linked sensor is soon no longer taken    *)
(* for silent, for good: the slots that the rough time filled come free,   *)
(* and the false alarm is not repeated.                                    *)
CleanIsQuiet ==
  <>[](Linked /\ mode = "clean") => <>[](~is_timeout /\ wdt < 3)

=============================================================================
