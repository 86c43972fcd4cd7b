------------------------------ MODULE Gateway ------------------------------
(***************************************************************************)
(* The gateway application: four threads and two buttons that share the    *)
(* table of authorized sensors, the list of authorized actuators and the   *)
(* alarm flags.                                                            *)
(*                                                                         *)
(*   gcoap   the CoAP server thread, runs the four resource handlers       *)
(*           (gateway_coap.c)                                              *)
(*   shell   the main thread, runs the operator's commands                 *)
(*           (gateway_shell.c, register_node)                              *)
(*   alarm   alarm_thread: once a second, rings the actuators              *)
(*   wdt     wdt_thread: once a second, counts the seconds of silence      *)
(*                                                                         *)
(* A step of a thread ends where another thread or an interrupt can come   *)
(* between two accesses to shared state that matter to each other.  The    *)
(* scheduler is priority-driven and has no time slices: a thread runs only *)
(* while no more urgent thread is ready.                                   *)
(*                                                                         *)
(* The build modelled is the one for MSB-IoT (README), where address 0 is  *)
(* readable and holds an empty string: NULL compares unequal to each name. *)
(***************************************************************************)
EXTENDS Naturals, Sequences, FiniteSets, RiotKernel, ActuatorList

CONSTANTS
  Sensors,          (* the names sensors register under                    *)
  Actuators,        (* the names actuators register under                  *)
  NULL,             (* the null char pointer                               *)
  Commands,         (* the shell commands the operator types               *)
  Buttons,          (* the buttons that may be pressed                     *)
  RegisterPolls,    (* polls of register_node beyond the first: 50         *)
  MaxCells          (* bound: actuators registered in one behaviour        *)

AllCommands == {"auth_sensor", "deauth_sensor", "auth_actuator",
                "deauth_actuator", "engage", "disengage"}

ASSUME GatewayAssumption ==
  /\ NULL \notin Sensors \cup Actuators
  /\ Commands \subseteq AllCommands
  /\ Buttons \subseteq {"btn_register", "btn_test"}
  /\ RegisterPolls \in Nat
  /\ MaxCells \in Nat

Threads == {"gcoap", "shell", "alarm", "wdt"}

(* Variant: the server thread less urgent than the shell.                  *)
LateServerPriority == [t \in Threads |-> CASE t = "gcoap" -> 8 [] t = "shell" -> 7
                                           [] t = "alarm" -> 8 [] t = "wdt"   -> 9]

(* gateway/main.c; gcoap's own thread is THREAD_PRIORITY_MAIN - 1.         *)
Priority == [t \in Threads |-> CASE t = "gcoap" -> 6 [] t = "shell" -> 7
                                 [] t = "alarm" -> 8 [] t = "wdt"   -> 9]

(* A packet on its way: what it says and the name of the entry whose       *)
(* address it goes to.                                                     *)
Messages == {"AUTH", "DEAU", "ON"} \X (Sensors \cup Actuators \cup {NULL})
NoMessage == <<>>

-----------------------------------------------------------------------------
VARIABLES
  pc,               (* where each thread is                                *)
  out,              (* the packet a thread is blocked sending              *)
  ht_lock,          (* the mutex of the sensor table                       *)
  ht_sensor, wdt,   (* the sensors in the table, their seconds of silence  *)
  SENSOR_ID, ACTUATOR_ID,  (* the name the operator is (de)authorizing     *)
  is_registered,
  is_engaged, is_sensor_fired, is_timeout,
  head, cells,      (* the actuator list                                   *)
  cmd, arg,         (* shell: the command on a node, its argument          *)
  key,              (* shell: the name passed to a hash table function,    *)
                    (* or what ht_get returned                             *)
  polls,            (* shell: register_node's count                        *)
  cur, prev,        (* shell: delete_node's current and previous           *)
  req,              (* gcoap: the name in the packet being handled         *)
  ptr,              (* alarm: traverse_and_fire's ptr                      *)
  todo              (* wdt: the entries ht_wdt has not visited yet         *)

tableVars == <<ht_sensor, wdt>>
idVars    == <<SENSOR_ID, ACTUATOR_ID, is_registered>>
flagVars  == <<is_engaged, is_sensor_fired, is_timeout>>
listVars  == <<head, cells>>
shellVars == <<cmd, arg, key, polls, cur, prev>>

sharedVars == <<tableVars, idVars, flagVars, listVars>>
localVars  == <<shellVars, req, ptr, todo>>

vars == <<pc, out, ht_lock, sharedVars, localVars>>

Start(t) == CASE t = "gcoap" -> "recv" [] t = "shell" -> "prompt"
              [] t = "alarm" -> "cond" [] t = "wdt"   -> "open"

Init ==
  /\ pc = [t \in Threads |-> Start(t)]
  /\ out = [t \in Threads |-> NoMessage]
  /\ ht_lock = FreeMutex
  /\ ht_sensor = {} /\ wdt = [s \in Sensors |-> 0]
  /\ SENSOR_ID = NULL /\ ACTUATOR_ID = NULL /\ is_registered = FALSE
  /\ is_engaged = FALSE /\ is_sensor_fired = FALSE /\ is_timeout = FALSE
  /\ head = NIL /\ cells = <<>>
  /\ cmd = "none" /\ arg = NULL /\ key = NULL /\ polls = 0
  /\ cur = NIL /\ prev = NIL
  /\ req = NULL /\ ptr = NIL /\ todo = {}

-----------------------------------------------------------------------------
(* Scheduling.                                                             *)

Idle == {"recv", "prompt", "nap", "sleep"}

Ready == {t \in Threads : /\ pc[t] \notin Idle
                          /\ t \notin ht_lock.waiting
                          /\ out[t] = NoMessage}

Runs(t) == Foremost(t, Ready, Priority)

(* An idle thread that a packet or a line of input wakes runs at once      *)
(* unless a more urgent thread is ready.                                   *)
Wakes(t) == Foremost(t, Ready \cup {t}, Priority)

At(t, label)    == pc[t] = label /\ Runs(t)
Goto(t, label)  == pc' = [pc EXCEPT ![t] = label]

(* The labels at which a thread is about to call mutex_lock(&ht_lock).     *)
LockLabels == [t \in Threads |->
  CASE t = "gcoap" -> {"reg_get", "reg_set", "st_get", "st_update", "tap_get"}
    [] t = "shell" -> {"get", "lookup", "del"}
    [] t = "alarm" -> {}
    [] t = "wdt"   -> {"open"}]

(* mutex_lock(&ht_lock).  The shell has by then read the name it passes.   *)
Lock(t) ==
  /\ pc[t] \in LockLabels[t]
  /\ Runs(t)
  /\ ht_lock.owner # t
  /\ ht_lock' = MutexLock(ht_lock, t)
  /\ key' = IF t = "shell" THEN SENSOR_ID ELSE key
  /\ UNCHANGED <<pc, out, sharedVars,
                 cmd, arg, polls, cur, prev, req, ptr, todo>>

(* t runs inside the section it entered at this label.                     *)
Holding(t, label) == At(t, label) /\ ht_lock.owner = t

Unlock == ht_lock' \in MutexUnlock(ht_lock, Priority)

(* coap_put: the calling thread blocks until the stack has taken the       *)
(* packet.                                                                 *)
Put(t, type, to) == out' = [out EXCEPT ![t] = <<type, to>>]

Transmit(t) ==
  /\ out[t] # NoMessage
  /\ out' = [out EXCEPT ![t] = NoMessage]
  /\ UNCHANGED <<pc, ht_lock, sharedVars, localVars>>

-----------------------------------------------------------------------------
(* gcoap: the handlers of gateway_coap.c.                                  *)

(* The response; the handler's name for the sender dies with its frame.    *)
Answer == Goto("gcoap", "recv") /\ req' = NULL

(* A packet of a sensor reaches its handler.  _sensor_register_handler     *)
(* turns everyone away while the operator waits for nobody.                *)
Receive(label, s) ==
  /\ pc["gcoap"] = "recv" /\ Wakes("gcoap")
  /\ label = "reg_get" => SENSOR_ID # NULL
  /\ req' = s
  /\ Goto("gcoap", label)
  /\ UNCHANGED <<out, ht_lock, sharedVars, shellVars, ptr, todo>>

(* Variant: any sensor is let in while the operator waits for one.         *)
ExpectsAnyone(n) == SENSOR_ID # NULL

Expects(n) == SENSOR_ID = n

(* ht_get in _sensor_register_handler, and the comparisons after it.       *)
RegisterGet ==
  /\ Holding("gcoap", "reg_get")
  /\ Unlock
  /\ \/ /\ req \in ht_sensor
        /\ Answer
        /\ UNCHANGED idVars
     \/ /\ req \notin ht_sensor /\ Expects(req)
        /\ is_registered' = TRUE
        /\ Goto("gcoap", "reg_set")
        /\ UNCHANGED <<SENSOR_ID, ACTUATOR_ID, req>>
     \/ /\ req \notin ht_sensor /\ ~Expects(req)
        /\ SENSOR_ID' = NULL
        /\ Answer
        /\ UNCHANGED <<ACTUATOR_ID, is_registered>>
  /\ UNCHANGED <<out, tableVars, flagVars, listVars, shellVars, ptr, todo>>

(* add_sensor_entry: ht_set leaves an entry that is there already alone.   *)
RegisterSet ==
  /\ Holding("gcoap", "reg_set")
  /\ Unlock
  /\ ht_sensor' = ht_sensor \cup {req}
  /\ wdt' = IF req \in ht_sensor THEN wdt ELSE [wdt EXCEPT ![req] = 0]
  /\ Answer
  /\ UNCHANGED <<out, idVars, flagVars, listVars, shellVars, ptr, todo>>

(* _sensor_status_handler: two sections, first ht_get then ht_update_time. *)
StatusGet ==
  /\ Holding("gcoap", "st_get")
  /\ Unlock
  /\ IF req \in ht_sensor THEN Goto("gcoap", "st_update") /\ UNCHANGED req
                         ELSE Answer
  /\ UNCHANGED <<out, sharedVars, shellVars, ptr, todo>>

StatusUpdate ==
  /\ Holding("gcoap", "st_update")
  /\ Unlock
  /\ wdt' = IF req \in ht_sensor THEN [wdt EXCEPT ![req] = 0] ELSE wdt
  /\ Answer
  /\ UNCHANGED <<out, ht_sensor, idVars, flagVars, listVars, shellVars, ptr, todo>>

(* Variant: the handler forgets to ask whether the alarm is engaged.       *)
AlarmsAlways(s) == s \in ht_sensor

Alarms(s) == s \in ht_sensor /\ is_engaged

(* _sensor_tap_handler reads is_engaged, prints, then activates the alarm. *)
TapGet ==
  /\ Holding("gcoap", "tap_get")
  /\ Unlock
  /\ IF Alarms(req)
       THEN Goto("gcoap", "tap_fire") /\ UNCHANGED req
       ELSE Answer
  /\ UNCHANGED <<out, sharedVars, shellVars, ptr, todo>>

TapFire ==
  /\ At("gcoap", "tap_fire")
  /\ is_sensor_fired' = TRUE
  /\ Answer
  /\ UNCHANGED <<out, ht_lock, tableVars, idVars, is_engaged, is_timeout,
                 listVars, shellVars, ptr, todo>>

(* insert_node: the new cell becomes the head.                             *)
InsertNode(n) ==
  /\ Len(cells) < MaxCells
  /\ cells' = Append(cells, [name |-> n, next |-> head])
  /\ head' = Len(cells) + 1

(* Variant: the handler's node_exists test is missing.                     *)
AwaitedAgain == TRUE

Awaited == ~NodeExists(cells, head, ACTUATOR_ID)

(* _actuator_register_handler.  It takes no lock and blocks nowhere, so on *)
(* the most urgent thread it is one step.  n is the name in the packet,    *)
(* NULL when the packet has no payload.                                    *)
ActuatorRegister(n) ==
  /\ pc["gcoap"] = "recv" /\ Wakes("gcoap")
  /\ ACTUATOR_ID # NULL
  /\ \/ /\ n # NULL
        /\ Awaited
        /\ ACTUATOR_ID = n
        /\ is_registered' = TRUE
        /\ InsertNode(n)
        /\ UNCHANGED ACTUATOR_ID
     \/ /\ \/ n = NULL
           \/ Awaited /\ ACTUATOR_ID # n
        /\ ACTUATOR_ID' = NULL
        /\ UNCHANGED <<is_registered, listVars>>
  /\ UNCHANGED <<pc, out, ht_lock, tableVars, SENSOR_ID, flagVars, localVars>>

GcoapStep == RegisterGet \/ RegisterSet \/ StatusGet \/ StatusUpdate \/ TapGet \/ TapFire

-----------------------------------------------------------------------------
(* shell: the commands of gateway_shell.c.                                 *)

SensorCommands   == {"auth_sensor", "deauth_sensor"}
ActuatorCommands == {"auth_actuator", "deauth_actuator"}

Prompt(c) == c \in Commands /\ pc["shell"] = "prompt" /\ Wakes("shell")

(* auth_sensor n, deauth_sensor n: publish the name, then use it.          *)
SensorCommand(c, n) ==
  /\ c \in SensorCommands
  /\ Prompt(c)
  /\ cmd' = c /\ arg' = n
  /\ SENSOR_ID' = n
  /\ Goto("shell", IF c = "auth_sensor" THEN "get" ELSE "del")
  /\ UNCHANGED <<out, ht_lock, tableVars, ACTUATOR_ID, is_registered, flagVars,
                 listVars, key, polls, cur, prev, req, ptr, todo>>

ActuatorCommand(c, n) ==
  /\ c \in ActuatorCommands
  /\ Prompt(c)
  /\ cmd' = c /\ arg' = n
  /\ ACTUATOR_ID' = n
  /\ Goto("shell", IF c = "auth_actuator" THEN "exists" ELSE "find")
  /\ UNCHANGED <<out, ht_lock, tableVars, SENSOR_ID, is_registered, flagVars,
                 listVars, key, polls, cur, prev, req, ptr, todo>>

(* engage_alarm is one assignment; disengage_alarm makes the three of      *)
(* deactivate_alarm, of which this is the first.                           *)
AlarmCommand(c) ==
  /\ c \in {"engage", "disengage"}
  /\ Prompt(c)
  /\ is_engaged' = (c = "engage")
  /\ Goto("shell", IF c = "engage" THEN "prompt" ELSE "clear_fired")
  /\ UNCHANGED <<out, ht_lock, tableVars, idVars, is_sensor_fired, is_timeout,
                 listVars, localVars>>

ClearFired ==
  /\ At("shell", "clear_fired")
  /\ is_sensor_fired' = FALSE
  /\ Goto("shell", "clear_timeout")
  /\ UNCHANGED <<out, ht_lock, tableVars, idVars, is_engaged, is_timeout, listVars,
                 localVars>>

ClearTimeout ==
  /\ At("shell", "clear_timeout")
  /\ is_timeout' = FALSE
  /\ Goto("shell", "prompt")
  /\ UNCHANGED <<out, ht_lock, tableVars, idVars, is_engaged, is_sensor_fired,
                 listVars, localVars>>

HtGet(k) == IF k \in ht_sensor THEN k ELSE NULL

(* auth_sensor_node compares what ht_get returns with SENSOR_ID.  C leaves *)
(* open whether SENSOR_ID is read for that before the call, as the name    *)
(* that was passed, or after it; and after it the handler that was waiting *)
(* for the lock, or the next packet, may have cleared it.                  *)
ShellGet ==
  /\ Holding("shell", "get")
  /\ Unlock
  /\ key' = HtGet(key)
  /\ Goto("shell", IF key' = key THEN "finish" ELSE "poll") \/ Goto("shell", "compare")
  /\ UNCHANGED <<out, sharedVars, cmd, arg, polls, cur, prev, req, ptr, todo>>

ShellCompare ==
  /\ At("shell", "compare")
  /\ Goto("shell", IF key = SENSOR_ID THEN "finish" ELSE "poll")
  /\ UNCHANGED <<out, ht_lock, sharedVars, localVars>>

(* auth_actuator_node asks node_exists.                                    *)
ShellExists ==
  /\ At("shell", "exists")
  /\ Goto("shell", IF NodeExists(cells, head, ACTUATOR_ID) THEN "finish" ELSE "poll")
  /\ UNCHANGED <<out, ht_lock, sharedVars, localVars>>

(* One round of register_node's loop: the count is tested before the flag. *)
Poll ==
  /\ At("shell", "poll")
  /\ \/ /\ polls > RegisterPolls
        /\ Goto("shell", "finish")
        /\ UNCHANGED is_registered
     \/ /\ polls <= RegisterPolls /\ is_registered
        /\ is_registered' = FALSE
        /\ Goto("shell", IF cmd = "auth_sensor" THEN "lookup" ELSE "get_node")
     \/ /\ polls <= RegisterPolls /\ ~is_registered
        /\ Goto("shell", "nap")
        /\ UNCHANGED is_registered
  /\ UNCHANGED <<out, ht_lock, tableVars, SENSOR_ID, ACTUATOR_ID, flagVars,
                 listVars, localVars>>

(* The 100 ms timer of register_node.                                      *)
NapEnds ==
  /\ pc["shell"] = "nap"
  /\ Goto("shell", "poll")
  /\ polls' = polls + 1
  /\ UNCHANGED <<out, ht_lock, sharedVars, cmd, arg,
                 key, cur, prev, req, ptr, todo>>

(* send_register_response(&ht_get_node(...)->remote): with no entry, the   *)
(* packet goes to whatever address lies near NULL.                         *)
Lookup ==
  /\ Holding("shell", "lookup")
  /\ Unlock
  /\ Put("shell", "AUTH", HtGet(key))
  /\ Goto("shell", "finish")
  /\ UNCHANGED <<sharedVars, localVars>>

(* send_register_response(&get_node(ACTUATOR_ID)->remote).                 *)
ShellGetNode ==
  /\ At("shell", "get_node")
  /\ Put("shell", "AUTH",
         IF NodeExists(cells, head, ACTUATOR_ID) THEN ACTUATOR_ID ELSE NULL)
  /\ Goto("shell", "finish")
  /\ UNCHANGED <<ht_lock, sharedVars, localVars>>

(* ht_del unlinks the entry, then sends DEAU with the lock held.           *)
HtDel ==
  /\ Holding("shell", "del")
  /\ \/ /\ key \in ht_sensor
        /\ ht_sensor' = ht_sensor \ {key}
        /\ wdt' = [wdt EXCEPT ![key] = 0]
        /\ Put("shell", "DEAU", key)
        /\ Goto("shell", "del_done")
        /\ UNCHANGED ht_lock
     \/ /\ key \notin ht_sensor
        /\ Unlock
        /\ Goto("shell", "finish")
        /\ UNCHANGED <<out, tableVars>>
  /\ UNCHANGED <<idVars, flagVars, listVars, localVars>>

HtDelDone ==
  /\ At("shell", "del_done")
  /\ Unlock
  /\ Goto("shell", "finish")
  /\ UNCHANGED <<out, sharedVars, localVars>>

(* delete_node walks to the cell, decides between its two branches and     *)
(* sends DEAU ...                                                          *)
FindNode ==
  /\ At("shell", "find")
  /\ \/ /\ cur' \in FirstNamed(cells, head, ACTUATOR_ID)
        /\ prev' \in Previous(cells, head, cur')
        /\ Put("shell", "DEAU", ACTUATOR_ID)
        /\ Goto("shell", "unlink")
     \/ /\ ~NodeExists(cells, head, ACTUATOR_ID)
        /\ Goto("shell", "finish")
        /\ UNCHANGED <<out, cur, prev>>
  /\ UNCHANGED <<ht_lock, sharedVars, cmd, arg, key,
                 polls, req, ptr, todo>>

(* Variant: the bypassed cell no longer leads back into the list.          *)
BypassAndCut(p, c) == [cells EXCEPT ![p].next = cells[c].next, ![c].next = NIL]

Bypass(p, c) == [cells EXCEPT ![p].next = cells[c].next]

(* ... and only then bypasses it, reading head again in the first branch.  *)
Unlink ==
  /\ At("shell", "unlink")
  /\ \/ /\ prev = NIL
        /\ head' = cells[head].next
        /\ UNCHANGED cells
     \/ /\ prev # NIL
        /\ cells' = Bypass(prev, cur)
        /\ UNCHANGED head
  /\ cur' = NIL /\ prev' = NIL
  /\ Goto("shell", "finish")
  /\ UNCHANGED <<out, ht_lock, tableVars, idVars, flagVars, cmd, arg, key, polls,
                 req, ptr, todo>>

(* Every command on a node ends by forgetting the name; the locals of the  *)
(* shell die with their frames.                                            *)
Finish ==
  /\ At("shell", "finish")
  /\ cmd' = "none" /\ arg' = NULL /\ key' = NULL /\ polls' = 0
  /\ IF cmd \in SensorCommands
       THEN SENSOR_ID' = NULL /\ UNCHANGED ACTUATOR_ID
       ELSE ACTUATOR_ID' = NULL /\ UNCHANGED SENSOR_ID
  /\ Goto("shell", "prompt")
  /\ UNCHANGED <<out, ht_lock, tableVars, is_registered, flagVars, listVars,
                 cur, prev, req, ptr, todo>>

ShellStep ==
  \/ ClearFired \/ ClearTimeout \/ ShellGet \/ ShellCompare \/ ShellExists \/ Poll
  \/ Lookup \/ ShellGetNode \/ HtDel \/ HtDelDone \/ FindNode \/ Unlink \/ Finish

-----------------------------------------------------------------------------
(* alarm: alarm_thread and traverse_and_fire.                              *)

(* The one-second timers of alarm_thread and wdt_thread.                   *)
Tick(t, label) ==
  /\ pc[t] = "sleep"
  /\ Goto(t, label)
  /\ UNCHANGED <<out, ht_lock, sharedVars, localVars>>

(* Variant: only a silent sensor starts the walk.                          *)
CauseTimeout == is_timeout

Cause == is_timeout \/ is_sensor_fired

AlarmCond ==
  /\ At("alarm", "cond")
  /\ Goto("alarm", IF Cause THEN "engaged" ELSE "sleep")
  /\ UNCHANGED <<out, ht_lock, sharedVars, localVars>>

AlarmEngaged ==
  /\ At("alarm", "engaged")
  /\ Goto("alarm", IF is_engaged THEN "fire" ELSE "sleep")
  /\ ptr' = IF is_engaged THEN head ELSE ptr
  /\ UNCHANGED <<out, ht_lock, sharedVars, shellVars,
                 req, todo>>

(* One round of the traversal; is_timeout is cleared at its end.           *)
Fire ==
  /\ At("alarm", "fire")
  /\ \/ /\ ptr # NIL
        /\ Put("alarm", "ON", cells[ptr].name)
        /\ Goto("alarm", "next")
        /\ UNCHANGED is_timeout
     \/ /\ ptr = NIL
        /\ is_timeout' = FALSE
        /\ Goto("alarm", "sleep")
        /\ UNCHANGED out
  /\ UNCHANGED <<ht_lock, tableVars, idVars, is_engaged, is_sensor_fired, listVars,
                 localVars>>

(* ptr->next is read after the send, from a cell that may be unlinked now. *)
FireNext ==
  /\ At("alarm", "next")
  /\ ptr' = cells[ptr].next
  /\ Goto("alarm", "fire")
  /\ UNCHANGED <<out, ht_lock, sharedVars, shellVars,
                 req, todo>>

AlarmStep == AlarmCond \/ AlarmEngaged \/ Fire \/ FireNext

-----------------------------------------------------------------------------
(* wdt: wdt_thread and ht_wdt, which holds the lock for the whole sweep.   *)

(* Variant: the sweep works on a copy and gives the lock back at once.      *)
SweepCopy ==
  /\ Holding("wdt", "open")
  /\ Unlock
  /\ todo' = ht_sensor
  /\ Goto("wdt", "scan")
  /\ UNCHANGED <<out, sharedVars, shellVars, req, ptr>>

Sweep ==
  /\ Holding("wdt", "open")
  /\ todo' = ht_sensor
  /\ Goto("wdt", "scan")
  /\ UNCHANGED <<out, ht_lock, sharedVars, shellVars, req, ptr>>

(* Variants: the timeout is raised once, when the counter reaches 3; the   *)
(* counter is not held at 3.                                               *)
TimedOutOnce(s) == wdt[s] = 2
CountUp(s) == wdt[s] + 1

TimedOut(s) == wdt[s] > 2
Count(s) == IF wdt[s] > 2 THEN wdt[s] ELSE wdt[s] + 1

(* A counter stays at 3 once it is there; is_engaged is read, and          *)
(* is_timeout set in a later step.                                         *)
Scan(s) ==
  /\ At("wdt", "scan")
  /\ s \in todo
  /\ todo' = todo \ {s}
  /\ wdt' = [wdt EXCEPT ![s] = Count(s)]
  /\ Goto("wdt", IF TimedOut(s) /\ is_engaged THEN "raise" ELSE "scan")
  /\ UNCHANGED <<out, ht_lock, ht_sensor, idVars, flagVars, listVars, shellVars, req, ptr>>

Raise ==
  /\ At("wdt", "raise")
  /\ is_timeout' = TRUE
  /\ Goto("wdt", "scan")
  /\ UNCHANGED <<out, ht_lock, tableVars, idVars, is_engaged, is_sensor_fired,
                 listVars, localVars>>

SweepEnds ==
  /\ At("wdt", "scan")
  /\ todo = {}
  /\ Unlock
  /\ Goto("wdt", "sleep")
  /\ UNCHANGED <<out, sharedVars, localVars>>

WdtStep == Sweep \/ (\E s \in Sensors : Scan(s)) \/ Raise \/ SweepEnds

-----------------------------------------------------------------------------
(* The buttons.  An interrupt handler runs to its end at any moment.       *)

(* dis_engage_intrp calls deactivate_alarm.                                *)
DisengageButton ==
  /\ "btn_register" \in Buttons
  /\ is_engaged' = FALSE
  /\ is_sensor_fired' = FALSE
  /\ is_timeout' = FALSE
  /\ UNCHANGED <<pc, out, ht_lock, tableVars, idVars, listVars, localVars>>

(* test_intrp activates an engaged alarm.                                  *)
TestButton ==
  /\ "btn_test" \in Buttons
  /\ is_engaged
  /\ is_sensor_fired' = TRUE
  /\ UNCHANGED <<pc, out, ht_lock, tableVars, idVars, is_engaged, is_timeout,
                 listVars, localVars>>

-----------------------------------------------------------------------------
GcoapInput ==
  \/ \E s \in Sensors, label \in {"reg_get", "st_get", "tap_get"} : Receive(label, s)
  \/ \E n \in Actuators \cup {NULL} : ActuatorRegister(n)

Operator ==
  \/ \E c \in SensorCommands, n \in Sensors : SensorCommand(c, n)
  \/ \E c \in ActuatorCommands, n \in Actuators : ActuatorCommand(c, n)
  \/ \E c \in {"engage", "disengage"} : AlarmCommand(c)

Timers == NapEnds \/ Tick("alarm", "cond") \/ Tick("wdt", "open")

Next ==
  \/ \E t \in Threads : Lock(t) \/ Transmit(t)
  \/ GcoapInput \/ GcoapStep
  \/ Operator \/ ShellStep
  \/ AlarmStep \/ WdtStep
  \/ Timers
  \/ DisengageButton \/ TestButton

Spec == Init /\ [][Next]_vars

-----------------------------------------------------------------------------
(* Fairness.  The stack takes every packet it is given, timers expire, and *)
(* ready threads run.  A lower thread runs in the gaps that the more       *)
(* urgent ones leave; packets and commands come at a rate that leaves      *)
(* gaps again and again: strong fairness for all but the most urgent.      *)
Fairness ==
  /\ WF_vars(Transmit("shell")) /\ WF_vars(Transmit("alarm"))
  /\ WF_vars(NapEnds) /\ WF_vars(Tick("alarm", "cond")) /\ WF_vars(Tick("wdt", "open"))
  /\ WF_vars(Lock("gcoap") \/ GcoapStep)
  /\ SF_vars(Lock("shell") \/ ShellStep)
  /\ SF_vars(AlarmStep)
  /\ SF_vars(Lock("wdt") \/ WdtStep)

FairSpec == Spec /\ Fairness

-----------------------------------------------------------------------------
(* The type invariant.                                                     *)

Labels == [t \in Threads |-> LockLabels[t] \cup
  CASE t = "gcoap" -> {"recv", "tap_fire"}
    [] t = "shell" -> {"prompt", "clear_fired", "clear_timeout", "compare", "exists",
                       "poll", "nap", "get_node", "del_done", "find", "unlink", "finish"}
    [] t = "alarm" -> {"sleep", "cond", "engaged", "fire", "next"}
    [] t = "wdt"   -> {"sleep", "scan", "raise"}]

ThreadsOK ==
  /\ pc \in [Threads -> UNION {Labels[t] : t \in Threads}]
  /\ \A t \in Threads : pc[t] \in Labels[t]
  /\ out \in [Threads -> Messages \cup {NoMessage}]
  /\ out["gcoap"] = NoMessage /\ out["wdt"] = NoMessage
  /\ ht_lock \in Mutexes(Threads)

TableOK == ht_sensor \subseteq Sensors /\ wdt \in [Sensors -> 0..3]

FlagsOK == /\ is_engaged \in BOOLEAN /\ is_sensor_fired \in BOOLEAN
           /\ is_timeout \in BOOLEAN /\ is_registered \in BOOLEAN

NamesOK ==
  /\ SENSOR_ID \in Sensors \cup {NULL} /\ ACTUATOR_ID \in Actuators \cup {NULL}
  /\ cmd \in SensorCommands \cup ActuatorCommands \cup {"none"}
  /\ arg \in Sensors \cup Actuators \cup {NULL}
  /\ key \in Sensors \cup {NULL} /\ req \in Sensors \cup {NULL}
  /\ todo \subseteq Sensors /\ polls \in 0..(RegisterPolls + 1)

(* Every pointer is NIL or points at an allocated cell.                    *)
Pointers == 0..Len(cells)

ListOK ==
  /\ cells \in Seq(Cells(Actuators))
  /\ \A b \in DOMAIN cells : cells[b].next \in Pointers
  /\ {head, cur, prev, ptr} \subseteq Pointers

(* Every variable has its type, each thread is at one of its own labels,   *)
(* only the two threads that send packets are ever blocked on one, no      *)
(* pointer of the actuator list dangles, and register_node gives up in     *)
(* time: its count never gets beyond the limit.                            *)
TypeOK == ThreadsOK /\ TableOK /\ FlagsOK /\ NamesOK /\ ListOK

-----------------------------------------------------------------------------
(* The alarm flags.                                                        *)

(* With the operator at the shell, an alarm that has been disengaged is    *)
(* not left fired: no tap is stored between the first store of             *)
(* deactivate_alarm and its second, because the handler that read          *)
(* is_engaged before runs to its end first (gateway_coap.c:189-192 against *)
(* gateway_node.c:250-251).                                                *)
FiredOnlyWhileEngaged ==
  is_sensor_fired /\ ~is_engaged => pc["shell"] = "clear_fired"

(* is_timeout is raised only on account of a sensor that is in the table   *)
(* at that moment and has been silent for more than two sweeps, even when  *)
(* a status or a deauthorization arrives between the test and the store    *)
(* (gateway_hashtable.c:280-284).                                          *)
TimeoutOnlyForSilent ==
  [][ ~is_timeout /\ is_timeout' => \E s \in ht_sensor : wdt[s] > 2 ]_vars

(* ht_wdt is in its walk.                                                  *)
Sweeping == pc["wdt"] \in {"scan", "raise"}

(* The registry that gateway_hashtable.c provides, see SensorTable.        *)
Registry(answer) == INSTANCE SensorRegistry WITH
  Names <- Sensors, Absent <- NULL,
  known <- ht_sensor, silence <- wdt, sweeping <- Sweeping

(* The threads use the table as it can be used: nobody adds, deletes or    *)
(* updates an entry while ht_wdt walks along the entries, and nobody does  *)
(* anything to them while ht_del, which has unlinked one, still sends with *)
(* the lock held (gateway_hashtable.c:208, 267-302).                       *)
KeepsToRegistry ==
  /\ Registry(NULL)!Init
  /\ [][ /\ pc["shell"] # "del_done"
         /\ \E a \in Sensors \cup {NULL} : Registry(a)!Next
       ]_<<ht_sensor, wdt, todo, Sweeping>>

(* gateway_node.h:125 "function to deactivate alarm": after it, both       *)
(* causes of the alarm stay forgotten until the alarm is engaged again.    *)
DisengagedIsQuiet ==
  ~is_engaged /\ pc["shell"] = "prompt" => ~is_sensor_fired /\ ~is_timeout

-----------------------------------------------------------------------------
(* Registration.                                                           *)

(* is_registered is raised only for the name the operator typed in the     *)
(* command that is running, whatever other nodes send meanwhile and        *)
(* however late the handler gets the lock (gateway_coap.c:79-106,          *)
(* 230-256).                                                               *)
AcceptedMeansNamed ==
  [][ ~is_registered /\ is_registered' =>
        /\ pc["shell"] # "prompt"
        /\ \/ cmd \in SensorCommands /\ req = arg
           \/ cmd \in ActuatorCommands /\ head' # head /\ cells'[head'].name = arg
    ]_vars

(* is_registered is set before the entry is in the table                   *)
(* (gateway_coap.c:105-106), and in between the handler may have to wait   *)
(* for ht_lock; yet the shell, which acts on the flag, never has the lock  *)
(* for its look-up before the handler has had it for its insertion.        *)
AnnouncedBeforeLookup ==
  pc["shell"] = "lookup" /\ ht_lock.owner = "shell" => pc["gcoap"] # "reg_set"

(* gateway_node.h:139: the flag that makes register_node report success    *)
(* "is set when received sensor name and the name from user are same", so  *)
(* the node whose success is reported is an authorized one.                *)
ReportedNodeIsKnown ==
  /\ pc["shell"] = "lookup" /\ pc["gcoap"] # "reg_set" => arg \in ht_sensor
  /\ pc["shell"] = "get_node" => NodeExists(cells, head, arg)

-----------------------------------------------------------------------------
(* The actuator list.                                                      *)

Listed(a) == Named(cells, head, a)

(* No actuator is on the list twice, whatever is sent twice: it would be   *)
(* rung twice and survive its deauthorization (gateway_coap.c:245).        *)
ListedOnce == \A a \in Actuators : Cardinality(Listed(a)) <= 1

(* After the blocking send of delete_node, its pointers still describe the *)
(* list: head, which the first branch reads again, is still the cell whose *)
(* actuator has been told, and previous still precedes it                  *)
(* (gateway_list.c:62-76).                                                 *)
UnlinkIsExact ==
  pc["shell"] = "unlink" =>
    /\ cells[cur].name = arg
    /\ IF prev = NIL THEN head = cur
                     ELSE prev \in Reach(cells, head) /\ cells[prev].next = cur

(* While the alarm thread walks the list, each authorized actuator behind  *)
(* ptr is still ahead of the walk, although cells, the one under ptr       *)
(* included, are unlinked during its sends (gateway_list.c:89-96).         *)
NoLiveActuatorSkipped ==
  pc["alarm"] \in {"fire", "next"} =>
    \A c \in Reach(cells, head) : c <= ptr => c \in Reach(cells, ptr)

-----------------------------------------------------------------------------
(* Progress, under Fairness.                                               *)

Rings(a) == out["alarm"] = <<"ON", a>>

(* A tap that was accepted rings every authorized actuator, unless the     *)
(* alarm is disengaged or the actuator deauthorized first.                 *)
TapRings ==
  \A a \in Actuators :
    is_sensor_fired /\ is_engaged /\ Listed(a) # {}
      ~> Rings(a) \/ ~is_engaged \/ Listed(a) = {}

(* A sensor that falls silent makes every authorized actuator ring, unless *)
(* it is heard again or removed, the alarm is disengaged or the actuator   *)
(* deauthorized first; that alarm_thread clears is_timeout after its walk, *)
(* and so loses a timeout raised meanwhile, does not break this            *)
(* (gateway_node.c:148-149).                                               *)
SilentSensorRings ==
  \A s \in Sensors, a \in Actuators :
    s \in ht_sensor /\ is_engaged /\ Listed(a) # {}
      ~> \/ Rings(a) \/ ~is_engaged \/ Listed(a) = {}
         \/ s \notin ht_sensor
         \/ pc["gcoap"] = "st_update" /\ req = s

=============================================================================
