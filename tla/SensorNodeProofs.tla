-------------------------- MODULE SensorNodeProofs --------------------------
(***************************************************************************)
(* Type correctness of a sensor node, for both builds, any sides, any      *)
(* warm-up and any number of request slots.  The part that is not a type:  *)
(* the packets being sent never outnumber the slots that are open, nor     *)
(* those the slots there are.                                              *)
(***************************************************************************)
EXTENDS SensorNode, FiniteSetTheorems, TLAPS

USE SensorAssumption

(* The parts of TypeOK.                                                    *)
PlacesOK == DOMAIN pc = Threads /\ \A t \in Threads : pc[t] \in Labels[t]

OutOK ==
  /\ out \in [Threads -> {NoMessage, "tap", "status", "register"}]
  /\ out["run"] = NoMessage
  /\ out["detection"] \in {NoMessage, "tap"}
  /\ out["status"] \in {NoMessage, "status"}
  /\ out["register"] \in {NoMessage, "register"}

Busy == {t \in Threads : out[t] # NoMessage}

SlotsOK == open \in Nat /\ Cardinality(Busy) <= open /\ open <= ReqSlots

FlagsOK ==
  /\ build \in Builds
  /\ connection_status \in BOOLEAN /\ sensor_fired \in BOOLEAN /\ send_id \in BOOLEAN

SampleOK == count \in 0..(WarmUp + 1) /\ side_prev \in Sides \cup {NO_CHANGE}

IInv == PlacesOK /\ OutOK /\ SlotsOK /\ FlagsOK /\ SampleOK

LEMMA Parts == IInv => TypeOK
BY DEF IInv, TypeOK, PlacesOK, OutOK, SlotsOK, FlagsOK, SampleOK, Busy

-----------------------------------------------------------------------------
LEMMA LabelsOf ==
  /\ Labels["run"] = {"created", "check", "off", "asleep", "sample", "beep", "seen",
                      "side", "beep_long", "turned", "pause"}
  /\ Labels["status"] = {"check", "put", "wait"}
  /\ Labels["detection"] = {"check", "put", "clear", "wait"}
  /\ Labels["register"] = {"check", "put", "clear"}
BY DEF Labels, Threads

LEMMA GotoOK ==
  ASSUME PlacesOK, NEW t \in Threads, NEW label \in Labels[t], Goto(t, label)
  PROVE  PlacesOK'
BY DEF PlacesOK, Goto

LEMMA BusyFinite ==
  /\ IsFiniteSet(Busy) /\ Cardinality(Busy) \in Nat
  /\ IsFiniteSet(Busy') /\ Cardinality(Busy') \in Nat
<1>1. IsFiniteSet(Threads)
  <2>1. Threads = ((({} \cup {"run"}) \cup {"detection"}) \cup {"status"}) \cup {"register"}
    BY DEF Threads
  <2>2. IsFiniteSet({} \cup {"run"})
    BY FS_EmptySet, FS_AddElement
  <2>3. IsFiniteSet(({} \cup {"run"}) \cup {"detection"})
    BY <2>2, FS_AddElement
  <2>4. IsFiniteSet((({} \cup {"run"}) \cup {"detection"}) \cup {"status"})
    BY <2>3, FS_AddElement
  <2> QED
    BY <2>1, <2>4, FS_AddElement
<1>2. Busy \subseteq Threads /\ Busy' \subseteq Threads
  BY DEF Busy
<1> QED
  BY <1>1, <1>2, FS_Subset, FS_CardinalityType

LEMMA InitIInv == Init => IInv
<1> SUFFICES ASSUME Init
             PROVE  IInv
  OBVIOUS
<1>1. PlacesOK
  BY LabelsOf DEF Init, PlacesOK, Start, Threads
<1>2. OutOK
  BY DEF Init, OutOK, Threads, NoMessage
<1>3. SlotsOK
  <2>1. Busy = {}
    BY DEF Init, Busy
  <2> QED
    BY <2>1, FS_EmptySet DEF Init, SlotsOK
<1>4. FlagsOK
  BY DEF Init, FlagsOK
<1>5. SampleOK
  BY DEF Init, SampleOK
<1> QED
  BY <1>1, <1>2, <1>3, <1>4, <1>5 DEF IInv

-----------------------------------------------------------------------------
(* Requests.                                                               *)

(* A thread that is ready sends nothing, so that its put takes a slot of   *)
(* its own, or none when the stack refuses.                                *)
LEMMA PutOK ==
  ASSUME IInv, NEW t \in Threads, NEW type \in {"tap", "status", "register"},
         t # "run",
         type = (CASE t = "detection" -> "tap" [] t = "status" -> "status"
                   [] t = "register" -> "register"),
         Runs(t), Put(t, type)
  PROVE  OutOK' /\ SlotsOK'
<1>1. CASE open < ReqSlots
  <2>1. out' = [out EXCEPT ![t] = type] /\ open' = open + 1
    BY <1>1 DEF Put
  <2>2. out[t] = NoMessage
    BY DEF Runs, Foremost, Ready
  <2>3. OutOK'
    BY <2>1 DEF IInv, OutOK, Threads, NoMessage
  <2>4. t \notin Busy /\ Busy' = Busy \cup {t}
    BY <2>1, <2>2 DEF IInv, OutOK, Busy, NoMessage
  <2>5. Cardinality(Busy') = Cardinality(Busy) + 1
    BY <2>4, BusyFinite, FS_AddElement
  <2>6. SlotsOK'
    BY <1>1, <2>1, <2>5, BusyFinite DEF IInv, SlotsOK
  <2> QED
    BY <2>3, <2>6
<1>2. CASE ~(open < ReqSlots)
  <2>1. UNCHANGED <<out, open>>
    BY <1>2 DEF Put
  <2> QED
    BY <2>1 DEF IInv, OutOK, SlotsOK, Busy
<1> QED
  BY <1>1, <1>2

LEMMA TransmitOK ==
  ASSUME IInv, NEW t \in Threads, Transmit(t)
  PROVE  IInv'
<1>1. OutOK'
  BY DEF Transmit, IInv, OutOK, Threads
<1>2. Busy' \subseteq Busy
  BY DEF Transmit, IInv, OutOK, Busy
<1>3. Cardinality(Busy') <= Cardinality(Busy)
  BY <1>2, BusyFinite, FS_Subset
<1>4. SlotsOK'
  BY <1>3, BusyFinite DEF Transmit, IInv, SlotsOK
<1> QED
  BY <1>1, <1>4 DEF Transmit, IInv, PlacesOK, FlagsOK, SampleOK

LEMMA CloseOK ==
  ASSUME IInv, Close
  PROVE  IInv'
<1>1. Busy' = Busy
  BY DEF Close, Busy
<1>2. open > Cardinality(Busy) /\ open' = open - 1
  BY DEF Close, Busy
<1>3. SlotsOK'
  BY <1>1, <1>2, BusyFinite DEF IInv, SlotsOK
<1> QED
  BY <1>3 DEF Close, IInv, PlacesOK, OutOK, FlagsOK, SampleOK

-----------------------------------------------------------------------------
(* Steps that leave the requests alone.                                    *)
LEMMA Quiet ==
  ASSUME IInv, UNCHANGED <<out, open>>
  PROVE  OutOK' /\ SlotsOK'
BY DEF IInv, OutOK, SlotsOK, Busy

LEMMA OutsideStep ==
  ASSUME IInv, Authorize \/ Deauthorize \/ register_intrp \/ test_intrp
  PROVE  IInv'
<1>1. CASE Authorize
  <2>1. PlacesOK'
    <3>1. pc["run"] \in Labels["run"]
      BY DEF IInv, PlacesOK, Threads
    <3>2. PICK label \in Labels["run"] : Goto("run", label)
      BY <1>1, <3>1, LabelsOf DEF Authorize
    <3> QED
      BY <3>2, GotoOK DEF IInv, Threads
  <2> QED
    BY <1>1, <2>1, Quiet DEF Authorize, IInv, FlagsOK, SampleOK
<1>2. CASE Deauthorize
  BY <1>2, Quiet DEF Deauthorize, IInv, PlacesOK, FlagsOK, SampleOK
<1>3. CASE register_intrp
  BY <1>3, Quiet DEF register_intrp, IInv, PlacesOK, FlagsOK, SampleOK
<1>4. CASE test_intrp
  BY <1>4, Quiet DEF test_intrp, IInv, PlacesOK, FlagsOK, SampleOK
<1> QED
  BY <1>1, <1>2, <1>3, <1>4

LEMMA TickOK ==
  ASSUME IInv, NEW t \in Threads, Tick(t)
  PROVE  IInv'
<1>1. pc[t] \in Labels[t] /\ pc[t] \in Timed
  BY DEF IInv, PlacesOK, Tick
<1>2. After(pc[t]) \in Labels[t]
  <2>1. pc[t] \in {"wait", "beep", "beep_long", "pause"}
    BY <1>1 DEF Timed
  <2>2. CASE t = "run"
    BY <1>1, <2>1, <2>2, LabelsOf DEF After
  <2>3. CASE t # "run"
    BY <1>1, <2>1, <2>3, LabelsOf DEF After, Threads
  <2> QED
    BY <2>2, <2>3
<1>3. PlacesOK'
  BY <1>2, GotoOK DEF IInv, Tick
<1> QED
  BY <1>3, Quiet DEF Tick, IInv, FlagsOK, SampleOK

(* The count of samples stops behind the warm-up.                          *)
LEMMA CountedOK ==
  ASSUME count \in 0..(WarmUp + 1)
  PROVE  Counted \in 0..(WarmUp + 1)
BY DEF Counted

LEMMA RunOK ==
  ASSUME IInv, RunStep
  PROVE  IInv'
<1>1. CASE Check
  <2>1. PlacesOK'
    BY <1>1, GotoOK, LabelsOf DEF Check, IInv, Threads
  <2> QED
    BY <1>1, <2>1, Quiet DEF Check, IInv, FlagsOK, SampleOK
<1>2. CASE Sleep
  <2>1. PlacesOK'
    BY <1>2, GotoOK, LabelsOf DEF Sleep, IInv, Threads
  <2> QED
    BY <1>2, <2>1, Quiet DEF Sleep, IInv, FlagsOK, SampleOK
<1>3. CASE Sample
  <2>1. PlacesOK'
    BY <1>3, GotoOK, LabelsOf DEF Sample, IInv, Threads
  <2>2. SampleOK'
    BY <1>3, CountedOK DEF Sample, IInv, SampleOK
  <2> QED
    BY <1>3, <2>1, <2>2, Quiet DEF Sample, IInv, FlagsOK
<1>4. CASE Seen
  <2>1. PlacesOK'
    BY <1>4, GotoOK, LabelsOf DEF Seen, IInv, Threads
  <2>2. SampleOK'
    BY <1>4, CountedOK DEF Seen, IInv, SampleOK
  <2>3. FlagsOK'
    <3>1. sensor_fired' \in BOOLEAN
      BY <1>4 DEF Seen, Detected
    <3> QED
      BY <1>4, <3>1 DEF Seen, IInv, FlagsOK
  <2> QED
    BY <1>4, <2>1, <2>2, <2>3, Quiet DEF Seen, IInv
<1>5. ASSUME NEW side \in Sides \cup {NO_CHANGE}, Side(side)
      PROVE  IInv'
  <2>1. PlacesOK'
    BY <1>5, GotoOK, LabelsOf DEF Side, IInv, Threads
  <2>2. SampleOK'
    BY <1>5, CountedOK DEF Side, IInv, SampleOK
  <2> QED
    BY <1>5, <2>1, <2>2, Quiet DEF Side, IInv, FlagsOK
<1>6. CASE Turned
  <2>1. PlacesOK'
    BY <1>6, GotoOK, LabelsOf DEF Turned, IInv, Threads
  <2>2. SampleOK'
    BY <1>6, CountedOK DEF Turned, IInv, SampleOK
  <2>3. FlagsOK'
    <3>1. sensor_fired' \in BOOLEAN
      BY <1>6 DEF Turned, Detected
    <3> QED
      BY <1>6, <3>1 DEF Turned, IInv, FlagsOK
  <2> QED
    BY <1>6, <2>1, <2>2, <2>3, Quiet DEF Turned, IInv
<1> QED
  BY <1>1, <1>2, <1>3, <1>4, <1>5, <1>6 DEF RunStep

LEMMA DetectionOK ==
  ASSUME IInv, DetectionStep
  PROVE  IInv'
<1>1. CASE DetectionCheck
  <2>1. PlacesOK'
    BY <1>1, GotoOK, LabelsOf DEF DetectionCheck, IInv, Threads
  <2> QED
    BY <1>1, <2>1, Quiet DEF DetectionCheck, IInv, FlagsOK, SampleOK
<1>2. CASE DetectionPut
  <2>1. PlacesOK'
    BY <1>2, GotoOK, LabelsOf DEF DetectionPut, IInv, Threads
  <2>2. OutOK' /\ SlotsOK'
    BY <1>2, PutOK DEF DetectionPut, At, Threads
  <2> QED
    BY <1>2, <2>1, <2>2 DEF DetectionPut, IInv, FlagsOK, SampleOK
<1>3. CASE DetectionClear
  <2>1. PlacesOK'
    BY <1>3, GotoOK, LabelsOf DEF DetectionClear, IInv, Threads
  <2> QED
    BY <1>3, <2>1, Quiet DEF DetectionClear, IInv, FlagsOK, SampleOK
<1> QED
  BY <1>1, <1>2, <1>3 DEF DetectionStep

LEMMA StatusOK ==
  ASSUME IInv, StatusStep
  PROVE  IInv'
<1>1. CASE StatusCheck
  <2>1. PlacesOK'
    BY <1>1, GotoOK, LabelsOf DEF StatusCheck, IInv, Threads
  <2> QED
    BY <1>1, <2>1, Quiet DEF StatusCheck, IInv, FlagsOK, SampleOK
<1>2. CASE StatusPut
  <2>1. PlacesOK'
    BY <1>2, GotoOK, LabelsOf DEF StatusPut, IInv, Threads
  <2>2. OutOK' /\ SlotsOK'
    BY <1>2, PutOK DEF StatusPut, At, Threads
  <2> QED
    BY <1>2, <2>1, <2>2 DEF StatusPut, IInv, FlagsOK, SampleOK
<1> QED
  BY <1>1, <1>2 DEF StatusStep

LEMMA RegisterOK ==
  ASSUME IInv, RegisterStep
  PROVE  IInv'
<1>1. CASE RegisterCheck
  <2>1. PlacesOK'
    BY <1>1, GotoOK, LabelsOf DEF RegisterCheck, IInv, Threads
  <2> QED
    BY <1>1, <2>1, Quiet DEF RegisterCheck, IInv, FlagsOK, SampleOK
<1>2. CASE RegisterPut
  <2>1. PlacesOK'
    BY <1>2, GotoOK, LabelsOf DEF RegisterPut, IInv, Threads
  <2>2. OutOK' /\ SlotsOK'
    BY <1>2, PutOK DEF RegisterPut, At, Threads
  <2> QED
    BY <1>2, <2>1, <2>2 DEF RegisterPut, IInv, FlagsOK, SampleOK
<1>3. CASE RegisterClear
  <2>1. PlacesOK'
    BY <1>3, GotoOK, LabelsOf DEF RegisterClear, IInv, Threads
  <2> QED
    BY <1>3, <2>1, Quiet DEF RegisterClear, IInv, FlagsOK, SampleOK
<1> QED
  BY <1>1, <1>2, <1>3 DEF RegisterStep

-----------------------------------------------------------------------------
(* Every behaviour of a sensor node keeps TypeOK: no packet is sent        *)
(* without a slot, and no thread leaves its own code (sensor_node.c:       *)
(* 165-230, coap.c:146-218, tap_detector.c:213-264, ir_detector.c:70-105). *)
THEOREM SensorTypeCorrect == Spec => []TypeOK
<1>1. ASSUME IInv, [Next]_vars
      PROVE  IInv'
  <2>1. CASE UNCHANGED vars
    BY <1>1, <2>1 DEF vars, IInv, PlacesOK, OutOK, SlotsOK, Busy, FlagsOK, SampleOK
  <2> QED
    BY <1>1, <2>1, OutsideStep, RunOK, DetectionOK, StatusOK, RegisterOK, TickOK,
       TransmitOK, CloseOK DEF Next
<1> QED
  BY InitIInv, <1>1, Parts, PTL DEF Spec

=============================================================================
