---------------------------- MODULE TapDetector ----------------------------
(***************************************************************************)
(* The arithmetic of the tap sensor: each sample of the accelerometer is   *)
(* compared with the one before it, a jump being a tap, and moves a slow   *)
(* filter, which says on which side the board lies.                        *)
(*                                                                         *)
(* The filter is computed in floating point and stored as an integer: the  *)
(* fraction is cut off, and an exact integer may come out one too small.   *)
(***************************************************************************)
EXTENDS Integers

CONSTANT Samples   (* what an axis of the accelerometer may read: an int16 *)

Int16 == {n \in Int : -32768 <= n /\ n <= 32767}

Axes == {"x", "y", "z"}

TapThresh == 200
LayThresh == 500
WarmUp    == 100

NoChange == "No_change"
Sides == {NoChange, "Left", "Right", "Bottom", "Top", "Down", "Up"}

Abs(n) == IF n < 0 THEN -n ELSE n

-----------------------------------------------------------------------------
(* 0.99 * s + 0.01 * a, cut towards zero; short says whether an exact      *)
(* result comes out short.                                                 *)
Cut(n, short) ==
  IF short /\ n % 100 = 0 /\ n > 0 THEN (n \div 100) - 1 ELSE n \div 100

Filtered(s, a, short) ==
  IF 99 * s + a >= 0 THEN Cut(99 * s + a, short) ELSE -Cut(-(99 * s + a), short)

(* _get_side.                                                              *)
SideOf(v) ==
  IF v["x"] > LayThresh THEN "Left"
  ELSE IF v["x"] < -LayThresh THEN "Right"
  ELSE IF v["z"] > LayThresh THEN "Bottom"
  ELSE IF v["z"] < -LayThresh THEN "Top"
  ELSE IF v["y"] > LayThresh THEN "Down"
  ELSE IF v["y"] < -LayThresh THEN "Up"
  ELSE NoChange

AxisOf == [Left |-> "x", Right |-> "x", Bottom |-> "z", Top |-> "z", Down |-> "y", Up |-> "y"]

(* _detect_tap: only the axis on which the earlier sample lies counts.     *)
Tapped(before, now) ==
  /\ SideOf(before) # NoChange
  /\ LET a == AxisOf[SideOf(before)] IN Abs(now[a]) - Abs(before[a]) > TapThresh

-----------------------------------------------------------------------------
VARIABLES
  accl_side,    (* the filter                                              *)
  accl_prev,    (* the last sample                                         *)
  side_prev,
  count,        (* samples since the node was authorized, up to WarmUp + 1 *)
  sensor_fired

vars == <<accl_side, accl_prev, side_prev, count, sensor_fired>>

Zero == [a \in Axes |-> 0]

Init ==
  /\ accl_side = Zero /\ accl_prev = Zero
  /\ side_prev = NoChange
  /\ count = 0
  /\ sensor_fired = FALSE

(* sensor_detection_loop with the sample now.                              *)
Sample(now) ==
  /\ \E short \in [Axes -> BOOLEAN] :
       accl_side' = [a \in Axes |-> Filtered(accl_side[a], now[a], short[a])]
  /\ LET side   == SideOf(accl_side')
         turned == side # side_prev /\ side # NoChange
     IN /\ side_prev' = side
        /\ sensor_fired' = (sensor_fired \/ (count > WarmUp /\ (turned \/ Tapped(accl_prev, now))))
  /\ accl_prev' = now
  /\ count' = IF count < WarmUp + 1 THEN count + 1 ELSE count

(* The thread falls asleep when the node is deauthorized.                  *)
Sleep ==
  /\ count' = 0
  /\ UNCHANGED <<accl_side, accl_prev, side_prev, sensor_fired>>

(* detection_thread.                                                       *)
Report ==
  /\ sensor_fired' = FALSE
  /\ UNCHANGED <<accl_side, accl_prev, side_prev, count>>

Next ==
  \/ \E now \in [Axes -> Samples] : Sample(now)
  \/ Sleep \/ Report

Spec == Init /\ [][Next]_vars

-----------------------------------------------------------------------------
(* Every variable has its type: the filter never leaves the 16 bits it is  *)
(* stored in, whatever is sampled.                                         *)
TypeOK ==
  /\ accl_side \in [Axes -> Int16] /\ accl_prev \in [Axes -> Int16]
  /\ side_prev \in Sides
  /\ count \in 0..(WarmUp + 1)
  /\ sensor_fired \in BOOLEAN

(* side_prev is the side on which the filter lies.                         *)
SideIsCurrent == side_prev = SideOf(accl_side)

Fires == ~sensor_fired /\ sensor_fired'

(* The filter lies on no side and the last sample was below 600.           *)
Weak == \A a \in Axes : Abs(accl_side[a]) <= LayThresh /\ Abs(accl_prev[a]) < LayThresh + 100

(* The threshold of 500 is one of 600: from a sample below 600 to the next *)
(* one below 600, a board on no side does not fire, and is on no side      *)
(* after it either, as cutting off the fraction holds the filter back at   *)
(* 500 (tap_detector.c:242-256).  A board knocked out of its place by less *)
(* than that is not tapped, even when the earlier sample is on a side of   *)
(* its own (tap_detector.c:123-151).                                       *)
WeakForceIsIgnored ==
  [][ /\ Weak
      /\ \A a \in Axes : Abs(accl_prev'[a]) < LayThresh + 100
      => ~Fires /\ Weak' ]_vars

(* With no sample of 600 or more, however long they last, the filter never *)
(* leaves 500 and nothing is ever reported.                                *)
WeakForever == Weak /\ ~sensor_fired

(* The board lies on the side of one axis, sampled as before and at least  *)
(* two above the threshold.                                                *)
Lies(axis) ==
  /\ accl_prev' = accl_prev
  /\ \/ accl_side[axis] > LayThresh /\ accl_prev[axis] > LayThresh + 1
     \/ accl_side[axis] < -LayThresh /\ accl_prev[axis] < -(LayThresh + 1)
  /\ \A a \in Axes \ {axis} : Abs(accl_side[a]) <= LayThresh /\ Abs(accl_prev[a]) <= LayThresh

(* A board that lies still does not fire: the filter keeps its side while  *)
(* the rounding pulls it down, and there is no tap (tap_detector.c:242-256 *)
(* and 123-151).                                                           *)
StillIsQuiet == [][\A axis \in Axes : Lies(axis) => ~Fires]_vars

=============================================================================
