------------------------- MODULE ActuatorNodeProofs -------------------------
(***************************************************************************)
(* Type correctness of an actuator node for a mailbox of any size: in      *)
(* particular that the mailbox keeps within its bound and that the thread  *)
(* blocked in a send is one on its way to clear send_id.                   *)
(***************************************************************************)
EXTENDS ActuatorNode, TLAPS

USE ActuatorAssumption

LEMMA InitTypeOK == Init => TypeOK
<1> SUFFICES ASSUME Init
             PROVE  TypeOK
  OBVIOUS
<1>1. pc \in [Threads -> {"recv", "sound", "pause", "check", "put", "clear"}]
  BY DEF Init, Threads
<1>2. mbox \in Seq(Packets) /\ Len(mbox) <= MboxSize
  BY DEF Init
<1> QED
  BY <1>1, <1>2 DEF Init, TypeOK

(* Packets and buttons come at any moment and disturb no thread.           *)
LEMMA OutsideStep ==
  ASSUME TypeOK, (\E p \in Packets : Arrive(p)) \/ register_intrp
  PROVE  TypeOK'
<1>1. ASSUME NEW p \in Packets, Arrive(p)
      PROVE  TypeOK'
  <2>1. mbox' \in Seq(Packets) /\ Len(mbox') <= MboxSize
    BY <1>1 DEF TypeOK, Arrive, Fits
  <2> QED
    BY <1>1, <2>1 DEF TypeOK, Arrive
<1>2. ASSUME register_intrp
      PROVE  TypeOK'
  BY <1>2 DEF TypeOK, register_intrp
<1> QED
  BY <1>1, <1>2

(* A handler takes one packet from the mailbox, which only shortens it.    *)
LEMMA TakesShortens ==
  ASSUME TypeOK, NEW p, Takes(p)
  PROVE  mbox' \in Seq(Packets) /\ Len(mbox') <= MboxSize
BY DEF TypeOK, Takes

LEMMA GcoapTypeOK ==
  ASSUME TypeOK, GcoapStep \/ HalfSecond
  PROVE  TypeOK'
<1>1. CASE Beep
  <2>1. mbox' \in Seq(Packets) /\ Len(mbox') <= MboxSize
    BY <1>1, TakesShortens DEF Beep
  <2> QED
    BY <1>1, <2>1 DEF TypeOK, Beep, Goto, Threads
<1>2. ASSUME NEW p \in Packets, Connection(p)
      PROVE  TypeOK'
  <2>1. mbox' \in Seq(Packets) /\ Len(mbox') <= MboxSize
    BY <1>2, TakesShortens DEF Connection
  <2>2. connection_status' \in BOOLEAN
    BY <1>2 DEF TypeOK, Connection
  <2> QED
    BY <1>2, <2>1, <2>2 DEF TypeOK, Connection
<1>3. CASE HalfSecond
  BY <1>3 DEF TypeOK, HalfSecond, Goto, Threads
<1> QED
  BY <1>1, <1>2, <1>3 DEF GcoapStep

(* sending is set only on the way to clear, and the thread does not leave  *)
(* that place before the packet has gone out.                              *)
LEMMA RegisterTypeOK ==
  ASSUME TypeOK, RegisterStep \/ Transmit
  PROVE  TypeOK'
<1>1. CASE RegisterCheck
  <2>1. ~sending
    BY <1>1 DEF TypeOK, RegisterCheck, At
  <2> QED
    BY <1>1, <2>1 DEF TypeOK, RegisterCheck, Goto, Threads
<1>2. CASE RegisterPut
  BY <1>2 DEF TypeOK, RegisterPut, Goto, Threads
<1>3. CASE RegisterClear
  <2>1. ~sending
    BY <1>3 DEF RegisterClear, At, Runs, Foremost, Ready
  <2> QED
    BY <1>3, <2>1 DEF TypeOK, RegisterClear, Goto, Threads
<1>4. CASE Transmit
  BY <1>4 DEF TypeOK, Transmit
<1> QED
  BY <1>1, <1>2, <1>3, <1>4 DEF RegisterStep

(* Every behaviour of the actuator keeps TypeOK, for every MboxSize        *)
(* (actuator_coap.c:213-266, actuator_node.c:142-156).                     *)
THEOREM ActuatorTypeCorrect == Spec => []TypeOK
<1>1. ASSUME TypeOK, [Next]_vars
      PROVE  TypeOK'
  <2>1. CASE UNCHANGED vars
    BY <1>1, <2>1 DEF TypeOK, vars
  <2> QED
    BY <1>1, <2>1, OutsideStep, GcoapTypeOK, RegisterTypeOK DEF Next
<1> QED
  BY InitTypeOK, <1>1, PTL DEF Spec

=============================================================================
