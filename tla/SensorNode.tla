----------------------------- MODULE SensorNode -----------------------------
(***************************************************************************)
(* A sensor node: the tap sensor (sensor_mpu) or the infrared sensor       *)
(* (sensor_ir), whose sources differ in the detection loop only.           *)
(*                                                                         *)
(*   gcoap      the CoAP server thread, hears AUTH and DEAU (coap.c)       *)
(*   run        sensor_run_thread: samples the detector, raises            *)
(*              sensor_fired; sleeps while the node is not authorized      *)
(*   detection  detection_thread: reports sensor_fired to the gateway      *)
(*   status     status_thread: once a second, tells that the node is alive *)
(*   register   register_thread: sends the node's identity on request      *)
(*                                                                         *)
(* The handler of AUTH and DEAU blocks nowhere and runs on the most urgent *)
(* thread: it is one step, possible at any moment.                         *)
(***************************************************************************)
EXTENDS Naturals, FiniteSets, RiotKernel

CONSTANTS
  Builds,           (* the builds considered, among "mpu" and "ir"         *)
  Sides,            (* the sides the board may lie on                      *)
  NO_CHANGE,        (* the side of a board that lies on none               *)
  WarmUp,           (* samples before a detection counts: 100              *)
  ReqSlots          (* requests the CoAP stack keeps open at a time        *)

ASSUME SensorAssumption ==
  /\ Builds \subseteq {"mpu", "ir"}
  /\ NO_CHANGE \notin Sides
  /\ WarmUp \in Nat
  /\ ReqSlots \in Nat

Threads == {"run", "detection", "status", "register"}

(* Variant: the busy thread of the actuator's main.c, at its priority.     *)
EagerRegisterPriority ==
  [t \in Threads |-> CASE t = "run" -> 8 [] t = "detection" -> 9
                       [] t = "status" -> 10 [] t = "register" -> 8]

(* sensor_*/main.c.                                                        *)
Priority ==
  [t \in Threads |-> CASE t = "run" -> 8 [] t = "detection" -> 9
                       [] t = "status" -> 10 [] t = "register" -> 11]

NoMessage == "none"

-----------------------------------------------------------------------------
VARIABLES
  build,              (* which of the two nodes this is                    *)
  pc,                 (* where each thread is                              *)
  out,                (* the packet a thread is blocked sending            *)
  open,               (* requests sent and not answered or given up        *)
  connection_status,
  sensor_fired,
  send_id,
  count,              (* run: samples since it was last put to sleep       *)
  side_prev           (* run: the side seen last                           *)

vars == <<build, pc, out, open, connection_status, sensor_fired, send_id, count,
          side_prev>>

Start(t) == IF t = "run" THEN "created" ELSE "check"

Init ==
  /\ build \in Builds
  /\ pc = [t \in Threads |-> Start(t)]
  /\ out = [t \in Threads |-> NoMessage]
  /\ open = 0
  /\ connection_status = FALSE /\ sensor_fired = FALSE /\ send_id = FALSE
  /\ count = 0 /\ side_prev = NO_CHANGE

-----------------------------------------------------------------------------
(* Scheduling.                                                             *)

(* The run thread is created asleep, and puts itself to sleep.             *)
Asleep == {"created", "asleep"}

(* Where a thread waits for its timer.                                     *)
Timed == {"wait", "beep", "beep_long", "pause"}

Ready == {t \in Threads : pc[t] \notin Asleep \cup Timed /\ out[t] = NoMessage}

Runs(t) == Foremost(t, Ready, Priority)

At(t, label)   == pc[t] = label /\ Runs(t)
Goto(t, label) == pc' = [pc EXCEPT ![t] = label]

(* A timer ends; the thread goes on at the label that follows.             *)
After(label) == CASE label = "beep" -> "seen" [] label = "beep_long" -> "turned"
                  [] label \in {"pause", "wait"} -> "check"

Tick(t) ==
  /\ pc[t] \in Timed
  /\ Goto(t, After(pc[t]))
  /\ UNCHANGED <<build, out, open, connection_status, sensor_fired, send_id, count,
                 side_prev>>

(* coap_status_put and coap_register_put: the thread blocks until the      *)
(* stack has taken the packet; with every slot open the stack refuses it,  *)
(* and the callers do not look at what is returned.                        *)
Put(t, type) ==
  IF open < ReqSlots
    THEN out' = [out EXCEPT ![t] = type] /\ open' = open + 1
    ELSE UNCHANGED <<out, open>>

Transmit(t) ==
  /\ out[t] # NoMessage
  /\ out' = [out EXCEPT ![t] = NoMessage]
  /\ UNCHANGED <<build, pc, open, connection_status, sensor_fired, send_id, count,
                 side_prev>>

(* An answer, or the last of the retransmissions, closes a request that    *)
(* has gone out.                                                           *)
Close ==
  /\ open > Cardinality({t \in Threads : out[t] # NoMessage})
  /\ open' = open - 1
  /\ UNCHANGED <<build, pc, out, connection_status, sensor_fired, send_id, count,
                 side_prev>>

-----------------------------------------------------------------------------
(* gcoap: _gateway_connection_handler.                                     *)

(* thread_wakeup does nothing to a thread that is not asleep.  A thread    *)
(* created asleep starts its loop; one that slept goes on behind its test. *)
Authorize ==
  /\ connection_status' = TRUE
  /\ Goto("run", CASE pc["run"] = "created" -> "check"
                   [] pc["run"] = "asleep"  -> "sample"
                   [] OTHER -> pc["run"])
  /\ UNCHANGED <<build, out, open, sensor_fired, send_id, count, side_prev>>

Deauthorize ==
  /\ connection_status' = FALSE
  /\ UNCHANGED <<build, pc, out, open, sensor_fired, send_id, count, side_prev>>

(* The buttons.                                                            *)
register_intrp ==
  /\ send_id' = TRUE
  /\ UNCHANGED <<build, pc, out, open, connection_status, sensor_fired, count,
                 side_prev>>

test_intrp ==
  /\ sensor_fired' = TRUE
  /\ UNCHANGED <<build, pc, out, open, connection_status, send_id, count, side_prev>>

-----------------------------------------------------------------------------
(* run: sensor_detection_loop.                                             *)

(* Variant: the loop does not look whether the node is still authorized.   *)
StaysOn == TRUE

Authorized == connection_status

Check ==
  /\ At("run", "check")
  /\ Goto("run", IF Authorized THEN "sample" ELSE "off")
  /\ UNCHANGED <<build, out, open, connection_status, sensor_fired, send_id, count,
                 side_prev>>

(* It prints, and only then sleeps.                                        *)
Sleep ==
  /\ At("run", "off")
  /\ count' = 0
  /\ Goto("run", "asleep")
  /\ UNCHANGED <<build, out, open, connection_status, sensor_fired, send_id, side_prev>>

(* Variant: the count is not held at its limit.                            *)
CountedOn == count + 1

Counted == IF count < WarmUp + 1 THEN count + 1 ELSE count

(* The detector sees something, and beeps for 110 ms, or nothing.          *)
Sample ==
  /\ At("run", "sample")
  /\ \/ Goto("run", "beep") /\ UNCHANGED count
     \/ build = "mpu" /\ Goto("run", "side") /\ UNCHANGED count
     \/ build = "ir" /\ Goto("run", "pause") /\ count' = Counted
  /\ UNCHANGED <<build, out, open, connection_status, sensor_fired, send_id, side_prev>>

Detected == sensor_fired' = (sensor_fired \/ count > WarmUp)

Seen ==
  /\ At("run", "seen")
  /\ Detected
  /\ \/ build = "mpu" /\ Goto("run", "side") /\ UNCHANGED count
     \/ build = "ir" /\ Goto("run", "pause") /\ count' = Counted
  /\ UNCHANGED <<build, out, open, connection_status, send_id, side_prev>>

(* The side of the smoothed acceleration against the one seen last: on a   *)
(* new side the board beeps for a second.                                  *)
Side(side) ==
  /\ At("run", "side")
  /\ side_prev' = side
  /\ \/ /\ side \notin {side_prev, NO_CHANGE}
        /\ Goto("run", "beep_long")
        /\ UNCHANGED count
     \/ /\ side \in {side_prev, NO_CHANGE}
        /\ Goto("run", "pause")
        /\ count' = Counted
  /\ UNCHANGED <<build, out, open, connection_status, sensor_fired, send_id>>

Turned ==
  /\ At("run", "turned")
  /\ Detected
  /\ count' = Counted
  /\ Goto("run", "pause")
  /\ UNCHANGED <<build, out, open, connection_status, send_id, side_prev>>

RunStep == \/ Check \/ Sleep \/ Sample \/ Seen \/ Turned
           \/ \E side \in Sides \cup {NO_CHANGE} : Side(side)

-----------------------------------------------------------------------------
(* detection: detection_thread.                                            *)

DetectionCheck ==
  /\ At("detection", "check")
  /\ Goto("detection", IF sensor_fired /\ connection_status THEN "put" ELSE "wait")
  /\ UNCHANGED <<build, out, open, connection_status, sensor_fired, send_id, count,
                 side_prev>>

DetectionPut ==
  /\ At("detection", "put")
  /\ Put("detection", "tap")
  /\ Goto("detection", "clear")
  /\ UNCHANGED <<build, connection_status, sensor_fired, send_id, count, side_prev>>

DetectionClear ==
  /\ At("detection", "clear")
  /\ sensor_fired' = FALSE
  /\ Goto("detection", "wait")
  /\ UNCHANGED <<build, out, open, connection_status, send_id, count, side_prev>>

DetectionStep == DetectionCheck \/ DetectionPut \/ DetectionClear

-----------------------------------------------------------------------------
(* status: status_thread; send_status is never FALSE.                      *)

(* Variant: the status goes out whether or not the node is authorized.     *)
ReportsAlways == TRUE

Reports == connection_status

(* Variant: the thread waits only after a status it has sent.              *)
StatusSpins ==
  /\ At("status", "check")
  /\ Goto("status", IF Reports THEN "put" ELSE "check")
  /\ UNCHANGED <<build, out, open, connection_status, sensor_fired, send_id, count,
                 side_prev>>

StatusCheck ==
  /\ At("status", "check")
  /\ Goto("status", IF Reports THEN "put" ELSE "wait")
  /\ UNCHANGED <<build, out, open, connection_status, sensor_fired, send_id, count,
                 side_prev>>

StatusPut ==
  /\ At("status", "put")
  /\ Put("status", "status")
  /\ Goto("status", "wait")
  /\ UNCHANGED <<build, connection_status, sensor_fired, send_id, count, side_prev>>

StatusStep == StatusCheck \/ StatusPut

-----------------------------------------------------------------------------
(* register: register_thread.  With nothing to send it yields and tests    *)
(* again, and so is always ready.                                          *)

RegisterCheck ==
  /\ At("register", "check")
  /\ send_id
  /\ Goto("register", "put")
  /\ UNCHANGED <<build, out, open, connection_status, sensor_fired, send_id, count,
                 side_prev>>

RegisterPut ==
  /\ At("register", "put")
  /\ Put("register", "register")
  /\ Goto("register", "clear")
  /\ UNCHANGED <<build, connection_status, sensor_fired, send_id, count, side_prev>>

RegisterClear ==
  /\ At("register", "clear")
  /\ send_id' = FALSE
  /\ Goto("register", "check")
  /\ UNCHANGED <<build, out, open, connection_status, sensor_fired, count, side_prev>>

RegisterStep == RegisterCheck \/ RegisterPut \/ RegisterClear

-----------------------------------------------------------------------------
Next ==
  \/ Authorize \/ Deauthorize
  \/ register_intrp \/ test_intrp
  \/ RunStep \/ DetectionStep \/ StatusStep \/ RegisterStep
  \/ \E t \in Threads : Tick(t) \/ Transmit(t)
  \/ Close

Spec == Init /\ [][Next]_vars

(* Timers expire, the stack takes packets and gives up on requests.  The   *)
(* run thread sleeps 10 ms in each round, which leaves the processor to    *)
(* the less urgent threads again and again.                                *)
Fairness ==
  /\ \A t \in Threads : WF_vars(Tick(t)) /\ WF_vars(Transmit(t))
  /\ WF_vars(Close)
  /\ WF_vars(RunStep)
  /\ SF_vars(DetectionStep) /\ SF_vars(StatusStep) /\ SF_vars(RegisterStep)

FairSpec == Spec /\ Fairness

-----------------------------------------------------------------------------
Labels == [t \in Threads |->
  CASE t = "run" -> {"created", "check", "off", "asleep", "sample", "beep", "seen",
                     "side", "beep_long", "turned", "pause"}
    [] t = "status" -> {"check", "put", "wait"}
    [] t = "detection" -> {"check", "put", "clear", "wait"}
    [] t = "register" -> {"check", "put", "clear"}]

(* Every variable has its type, each thread is at one of its own labels    *)
(* and sends only its own kind of packet, and every packet being sent      *)
(* holds one of the stack's slots.                                         *)
TypeOK ==
  /\ build \in Builds
  /\ DOMAIN pc = Threads /\ \A t \in Threads : pc[t] \in Labels[t]
  /\ out \in [Threads -> {NoMessage, "tap", "status", "register"}]
  /\ out["run"] = NoMessage
  /\ out["detection"] \in {NoMessage, "tap"}
  /\ out["status"] \in {NoMessage, "status"}
  /\ out["register"] \in {NoMessage, "register"}
  /\ Cardinality({t \in Threads : out[t] # NoMessage}) <= open /\ open <= ReqSlots
  /\ connection_status \in BOOLEAN /\ sensor_fired \in BOOLEAN /\ send_id \in BOOLEAN
  /\ count \in 0..(WarmUp + 1)
  /\ side_prev \in Sides \cup {NO_CHANGE}

-----------------------------------------------------------------------------
(* Progress, under Fairness.                                               *)

(* What the detector or the test button raised is taken up by the          *)
(* detection thread unless the node is deauthorized first, although the    *)
(* run thread is more urgent and the register thread never blocks          *)
(* (sensor_mpu/main.c:19-33, sensor_node.c:169-181).                       *)
TapAttempted ==
  sensor_fired /\ connection_status /\ pc["detection"] # "clear"
    ~> pc["detection"] = "put" \/ ~connection_status

(* A press of the register button makes the least urgent thread send the   *)
(* node's identity or try to, unless it is busy with an earlier press      *)
(* (sensor_mpu/sensor_node.c:172-177).                                     *)
IdAttempted ==
  send_id /\ pc["register"] = "check" ~> pc["register"] = "put"

(* A deauthorized node stops sampling, even when the word comes during a   *)
(* beep (sensor_mpu/tap_detector.c:226-231, sensor_ir/ir_detector.c:81).   *)
SleepsWhenDeauthorized ==
  ~connection_status ~> pc["run"] \in Asleep \/ connection_status

(* A node that stays deauthorized falls silent: what its threads had       *)
(* decided to send before is the last the gateway hears of it              *)
(* (sensor_mpu/sensor_node.c:197, 219).                                    *)
QuietWhenDeauthorized ==
  <>[](~connection_status)
    => <>[](out["status"] = NoMessage /\ out["detection"] = NoMessage)

(* sensor_node.h:204 "sensor run thread where the events are detected": a  *)
(* node told that it is authorized detects events.                         *)
AuthorizedDetects ==
  connection_status ~> pc["run"] \notin Asleep \/ ~connection_status

=============================================================================
