---------------------------- MODULE ActuatorNode ----------------------------
(***************************************************************************)
(* An actuator node (actuator-r2).                                         *)
(*                                                                         *)
(*   gcoap      the CoAP server thread: takes one packet after the other   *)
(*              from its mailbox; for ON it beeps, a whole second, inside  *)
(*              the handler (actuator_coap.c, beeper.c)                    *)
(*   register   register_thread: sends the node's identity on request, in  *)
(*              a loop that never blocks otherwise (actuator_node.c)       *)
(*                                                                         *)
(* The stack receives every packet into one buffer, which it does not      *)
(* clear.  AUTH and DEAU come as four bytes without a terminator, and      *)
(* strcmp reads the byte behind them: 0 in a fresh buffer, the payload     *)
(* marker 0xFF of the longer ON packet once there has been one.            *)
(***************************************************************************)
EXTENDS Naturals, Sequences, RiotKernel

CONSTANT MboxSize   (* packets that wait while gcoap beeps: 8              *)

ASSUME ActuatorAssumption == MboxSize \in Nat

Threads == {"gcoap", "register"}

(* actuator-r2/main.c; gcoap's own thread is THREAD_PRIORITY_MAIN - 1.     *)
Priority == [t \in Threads |-> CASE t = "gcoap" -> 6 [] t = "register" -> 8]

Packets == {"AUTH", "DEAU", "ON"}

VARIABLES
  pc,               (* where each thread is                                *)
  mbox,             (* packets received and not yet handled                *)
  stale,            (* the byte behind the payload of AUTH is not 0        *)
  connection_status,
  send_id,
  sending           (* register is blocked in coap_register_put            *)

vars == <<pc, mbox, stale, connection_status, send_id, sending>>

Init ==
  /\ pc = [t \in Threads |-> IF t = "gcoap" THEN "recv" ELSE "check"]
  /\ mbox = <<>>
  /\ stale = FALSE
  /\ connection_status = FALSE
  /\ send_id = FALSE
  /\ sending = FALSE

-----------------------------------------------------------------------------
(* Variant: _beep_long keeps the processor busy until the time is over.    *)
Spinning == {}

(* Where a thread waits for its timer.                                     *)
Timed == {"sound", "pause"}

Ready == {t \in Threads :
            /\ pc[t] \notin Timed
            /\ t = "gcoap" /\ pc[t] = "recv" => mbox # <<>>
            /\ t = "register" => ~sending}

Runs(t)        == Foremost(t, Ready, Priority)
At(t, label)   == pc[t] = label /\ Runs(t)
Goto(t, label) == pc' = [pc EXCEPT ![t] = label]

(* Variant: the mailbox grows without a bound.                             *)
NeverFull == TRUE

(* A packet that finds the mailbox full is dropped.                        *)
Fits == Len(mbox) < MboxSize

Arrive(p) ==
  /\ Fits
  /\ mbox' = Append(mbox, p)
  /\ UNCHANGED <<pc, stale, connection_status, send_id, sending>>

register_intrp ==
  /\ send_id' = TRUE
  /\ UNCHANGED <<pc, mbox, stale, connection_status, sending>>

-----------------------------------------------------------------------------
(* gcoap.                                                                  *)

(* Variant: ON, too, fills its four bytes.                                 *)
ReadsOn(p) == ~stale

(* strcmp finds p to be what it is.  "ON" brings its terminator along.     *)
Matches(p) == p = "ON" \/ ~stale

Takes(p) ==
  /\ At("gcoap", "recv")
  /\ mbox # <<>> /\ Head(mbox) = p
  /\ mbox' = Tail(mbox)

(* _gateway_connection_handler.                                            *)
Connection(p) ==
  /\ p \in {"AUTH", "DEAU"}
  /\ Takes(p)
  /\ connection_status' = IF Matches(p) THEN p = "AUTH" ELSE connection_status
  /\ UNCHANGED <<pc, stale, send_id, sending>>

(* _gateway_handler up to the first of the two sleeps of _beep_long.       *)
Beep ==
  /\ Takes("ON")
  /\ stale' = TRUE
  /\ Goto("gcoap", IF Matches("ON") THEN "sound" ELSE "recv")
  /\ UNCHANGED <<connection_status, send_id, sending>>

(* Half a second of sound, half a second of silence, then the response.    *)
HalfSecond ==
  /\ \/ pc["gcoap"] = "sound" /\ Goto("gcoap", "pause")
     \/ pc["gcoap"] = "pause" /\ Goto("gcoap", "recv")
  /\ UNCHANGED <<mbox, stale, connection_status, send_id, sending>>

GcoapStep == Beep \/ \E p \in Packets : Connection(p)

-----------------------------------------------------------------------------
(* register.                                                               *)

RegisterCheck ==
  /\ At("register", "check")
  /\ send_id
  /\ Goto("register", "put")
  /\ UNCHANGED <<mbox, stale, connection_status, send_id, sending>>

(* The stack takes the packet or has no slot for it; the loop goes on      *)
(* either way.                                                             *)
RegisterPut ==
  /\ At("register", "put")
  /\ sending' \in BOOLEAN
  /\ Goto("register", "clear")
  /\ UNCHANGED <<mbox, stale, connection_status, send_id>>

Transmit ==
  /\ sending
  /\ sending' = FALSE
  /\ UNCHANGED <<pc, mbox, stale, connection_status, send_id>>

RegisterClear ==
  /\ At("register", "clear")
  /\ send_id' = FALSE
  /\ Goto("register", "check")
  /\ UNCHANGED <<mbox, stale, connection_status, sending>>

RegisterStep == RegisterCheck \/ RegisterPut \/ RegisterClear

-----------------------------------------------------------------------------
Next ==
  \/ \E p \in Packets : Arrive(p)
  \/ register_intrp
  \/ GcoapStep \/ HalfSecond
  \/ RegisterStep \/ Transmit

Spec == Init /\ [][Next]_vars

(* Timers expire, the stack takes packets, the most urgent thread runs     *)
(* when it is ready, and the other one in the gaps it leaves.  Nothing is  *)
(* asked of the gateway: it may keep the mailbox full for ever.            *)
Fairness ==
  /\ WF_vars(HalfSecond) /\ WF_vars(Transmit)
  /\ WF_vars(GcoapStep)
  /\ SF_vars(RegisterStep)

FairSpec == Spec /\ Fairness

-----------------------------------------------------------------------------
(* Every variable has its type; the mailbox keeps within its bound, and a  *)
(* thread is blocked in a send only on its way to clear send_id.           *)
TypeOK ==
  /\ pc \in [Threads -> {"recv", "sound", "pause", "check", "put", "clear"}]
  /\ mbox \in Seq(Packets) /\ Len(mbox) <= MboxSize
  /\ stale \in BOOLEAN /\ connection_status \in BOOLEAN /\ send_id \in BOOLEAN
  /\ sending \in BOOLEAN /\ (sending => pc["register"] = "clear")

(* Every ON that was received sounds the beeper, although AUTH and DEAU    *)
(* are no longer recognized after the first one and each ON waits for the  *)
(* beeps before it (actuator_coap.c:222-227).                              *)
EachOnSounds ==
  mbox # <<>> /\ Head(mbox) = "ON" ~> pc["gcoap"] = "sound"

(* A press of the register button makes the node send its identity or try  *)
(* to, even when the gateway does nothing but ring it, without a pause:    *)
(* the beep sleeps, and leaves the processor to the least urgent thread    *)
(* (beeper.c:28-35, actuator_node.c:145-154).                              *)
IdAttempted ==
  <>[](\A k \in DOMAIN mbox : mbox[k] = "ON")
    => (send_id /\ pc["register"] = "check" ~> pc["register"] = "put")

(* actuator_node.h:121 "flasg to indicate if node is connected to server": *)
(* each AUTH and each DEAU that is handled sets the flag accordingly.      *)
FlagFollowsGateway ==
  [][ \A p \in {"AUTH", "DEAU"} :
        Takes(p) => connection_status' = (p = "AUTH") ]_vars

=============================================================================
