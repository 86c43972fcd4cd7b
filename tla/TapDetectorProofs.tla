------------------------- MODULE TapDetectorProofs -------------------------
(***************************************************************************)
(* Theorems about the filter of the tap sensor, for every sequence of      *)
(* samples of 16 bits.                                                     *)
(***************************************************************************)
EXTENDS TapDetector, TLAPS

USE DEF TapThresh, LayThresh, WarmUp, NoChange

(* What the two divisions return.                                          *)
LEMMA CutBounds ==
  ASSUME NEW n \in Nat, NEW short \in BOOLEAN
  PROVE  /\ Cut(n, short) \in Int
         /\ 100 * Cut(n, short) <= n
         /\ n <= 100 * Cut(n, short) + 100
         /\ n % 100 # 0 => n < 100 * Cut(n, short) + 100
         /\ 0 <= Cut(n, short)
  BY DEF Cut

LEMMA Int16Is ==
  ASSUME NEW n \in Int16
  PROVE  n \in Int /\ -32768 <= n /\ n <= 32767
  BY DEF Int16

LEMMA IsInt16 ==
  ASSUME NEW n \in Int, -32768 <= n, n <= 32767
  PROVE  n \in Int16
  BY DEF Int16

(* The filter is the truncated hundredth, on either side of zero.          *)
LEMMA FilterBounds ==
  ASSUME NEW s \in Int, NEW a \in Int, NEW short \in BOOLEAN
  PROVE  LET f == Filtered(s, a, short)  n == 99 * s + a IN
         /\ f \in Int
         /\ n >= 0 => /\ 0 <= f /\ 100 * f <= n /\ n <= 100 * f + 100
                      /\ n % 100 # 0 => n < 100 * f + 100
         /\ n < 0  => /\ f <= 0 /\ 100 * f >= n /\ n >= 100 * f - 100
                      /\ (-n) % 100 # 0 => n > 100 * f - 100
<1>. DEFINE n == 99 * s + a
<1>0. n \in Int
  OBVIOUS
<1>. HIDE DEF n
<1>1. CASE n >= 0
  <2>1. Filtered(s, a, short) = Cut(n, short)
    BY <1>1 DEF Filtered, n
  <2>. QED
    BY <1>0, <1>1, <2>1, CutBounds DEF n
<1>2. CASE n < 0
  <2>1. Filtered(s, a, short) = -Cut(-n, short)
    BY <1>0, <1>2 DEF Filtered, n
  <2>2. -n \in Nat
    BY <1>0, <1>2
  <2>3. /\ Cut(-n, short) \in Int /\ 0 <= Cut(-n, short)
        /\ 100 * Cut(-n, short) <= -n /\ -n <= 100 * Cut(-n, short) + 100
        /\ (-n) % 100 # 0 => -n < 100 * Cut(-n, short) + 100
    BY <2>2, CutBounds
  <2>. QED
    BY <1>0, <1>2, <2>1, <2>3 DEF n
<1>. QED
  BY <1>0, <1>1, <1>2

(* The filter never leaves its 16 bits.                                    *)
LEMMA FilterStays ==
  ASSUME NEW s \in Int16, NEW a \in Int16, NEW short \in BOOLEAN
  PROVE  Filtered(s, a, short) \in Int16
<1>1. /\ s \in Int /\ -32768 <= s /\ s <= 32767
      /\ a \in Int /\ -32768 <= a /\ a <= 32767
  BY Int16Is
<1>. DEFINE f == Filtered(s, a, short)
<1>2. f \in Int /\ -32768 <= f /\ f <= 32767
  BY <1>1, FilterBounds
<1>. QED
  BY <1>2, IsInt16

(* It does not cross the threshold for a sample below 600.                 *)
LEMMA FilterIsHeldBack ==
  ASSUME NEW s \in Int, NEW a \in Int, NEW short \in BOOLEAN,
         Abs(s) <= LayThresh, Abs(a) < LayThresh + 100
  PROVE  Abs(Filtered(s, a, short)) <= LayThresh
<1>1. -500 <= s /\ s <= 500 /\ -600 < a /\ a < 600
  BY DEF Abs
<1>2. Filtered(s, a, short) \in Int /\ -500 <= Filtered(s, a, short) /\ Filtered(s, a, short) <= 500
  BY <1>1, FilterBounds
<1>. QED
  BY <1>2 DEF Abs

(* It does not fall back below the threshold while the samples are two     *)
(* above it.                                                               *)
LEMMA FilterIsKept ==
  ASSUME NEW s \in Int, NEW a \in Int, NEW short \in BOOLEAN
  PROVE  /\ s > LayThresh /\ a > LayThresh + 1 => Filtered(s, a, short) > LayThresh
         /\ s < -LayThresh /\ a < -(LayThresh + 1) => Filtered(s, a, short) < -LayThresh
<1>. DEFINE n == 99 * s + a
<1>1. CASE s > 500 /\ a > 501
  <2>1. n \in Int /\ n > 50100
    BY <1>1
  <2>2. /\ n <= 100 * Filtered(s, a, short) + 100 /\ Filtered(s, a, short) \in Int
    BY <2>1, FilterBounds
  <2>. QED
    BY <1>1, <2>1, <2>2
<1>2. CASE s < -500 /\ a < -501
  <2>1. n \in Int /\ n < -50100
    BY <1>2
  <2>2. n >= 100 * Filtered(s, a, short) - 100 /\ Filtered(s, a, short) \in Int
    BY <2>1, FilterBounds
  <2>. QED
    BY <1>2, <2>1, <2>2
<1>. QED
  BY <1>1, <1>2

-----------------------------------------------------------------------------
(* The filter and the last sample stay within 16 bits, and side_prev is    *)
(* the side on which the filter lies.                                      *)
IInv == TypeOK /\ SideIsCurrent

(* A vector with no axis above the threshold lies on no side.              *)
LEMMA NoSide ==
  ASSUME NEW v \in [Axes -> Int16], \A a \in Axes : Abs(v[a]) <= LayThresh
  PROVE  SideOf(v) = NoChange
<1>1. ASSUME NEW a \in Axes PROVE ~(v[a] > 500) /\ ~(v[a] < -500)
  <2>1. v[a] \in Int /\ Abs(v[a]) <= 500
    BY Int16Is
  <2>. QED
    BY <2>1 DEF Abs
<1>. QED
  BY <1>1 DEF SideOf, Axes

LEMMA SampleStep ==
  ASSUME Samples \subseteq Int16, IInv, NEW now \in [Axes -> Samples], Sample(now)
  PROVE  IInv'
<1>1. now \in [Axes -> Int16]
  OBVIOUS
<1>2. PICK short \in [Axes -> BOOLEAN] :
        accl_side' = [a \in Axes |-> Filtered(accl_side[a], now[a], short[a])]
  BY DEF Sample
<1>3. accl_side' \in [Axes -> Int16]
  <2>1. ASSUME NEW a \in Axes
        PROVE  Filtered(accl_side[a], now[a], short[a]) \in Int16
    <3>1. accl_side[a] \in Int16 /\ now[a] \in Int16 /\ short[a] \in BOOLEAN
      BY <1>1 DEF IInv, TypeOK
    <3>. QED
      BY <3>1, FilterStays
  <2>. QED
    BY <1>2, <2>1
<1>4. side_prev' = SideOf(accl_side') /\ accl_prev' = now
      /\ count' = IF count < 101 THEN count + 1 ELSE count
  BY DEF Sample
<1>5. sensor_fired' \in BOOLEAN
  BY DEF Sample, IInv, TypeOK
<1>6. side_prev' \in Sides
  BY <1>4 DEF SideOf, Sides
<1>7. count' \in 0..101
  BY <1>4 DEF IInv, TypeOK
<1>. QED
  BY <1>1, <1>3, <1>4, <1>5, <1>6, <1>7 DEF IInv, TypeOK, SideIsCurrent

LEMMA Inductive == ASSUME Samples \subseteq Int16 PROVE Spec => []IInv
<1>1. Init => IInv
  <2>1. 0 \in Int16
    BY IsInt16
  <2>2. Zero \in [Axes -> Int16] /\ \A a \in Axes : Abs(Zero[a]) <= LayThresh
    BY <2>1 DEF Zero, Abs
  <2>3. SideOf(Zero) = NoChange
    BY <2>2, NoSide
  <2>. SUFFICES ASSUME Init PROVE IInv
    OBVIOUS
  <2>4. accl_side = Zero /\ accl_prev = Zero /\ side_prev = NoChange
        /\ count = 0 /\ sensor_fired = FALSE
    BY DEF Init
  <2>5. TypeOK
    <3>1. accl_side \in [Axes -> Int16] /\ accl_prev \in [Axes -> Int16]
      BY <2>2, <2>4
    <3>2. side_prev \in Sides
      BY <2>4 DEF Sides
    <3>3. count \in 0..(WarmUp + 1)
      BY <2>4
    <3>4. sensor_fired \in BOOLEAN
      BY <2>4
    <3>. QED
      BY <3>1, <3>2, <3>3, <3>4 DEF TypeOK
  <2>6. SideIsCurrent
    BY <2>3, <2>4 DEF SideIsCurrent
  <2>. QED
    BY <2>5, <2>6 DEF IInv
<1>2. IInv /\ [Next]_vars => IInv'
  <2>. SUFFICES ASSUME IInv, [Next]_vars PROVE IInv'
    OBVIOUS
  <2>1. CASE \E now \in [Axes -> Samples] : Sample(now)
    BY <2>1, SampleStep
  <2>2. CASE Sleep
    BY <2>2 DEF Sleep, IInv, TypeOK, SideIsCurrent
  <2>3. CASE Report
    BY <2>3 DEF Report, IInv, TypeOK, SideIsCurrent
  <2>4. CASE UNCHANGED vars
    BY <2>4 DEF vars, IInv, TypeOK, SideIsCurrent
  <2>. QED
    BY <2>1, <2>2, <2>3, <2>4 DEF Next
<1>. QED
  BY <1>1, <1>2, PTL DEF Spec

(* The filter of sensor_detection_loop never overflows its int16, whatever *)
(* the accelerometer reads and however the floating point rounds.          *)
THEOREM FilterFits == ASSUME Samples \subseteq Int16 PROVE Spec => []TypeOK
<1>1. IInv => TypeOK
  BY DEF IInv
<1>. QED
  BY <1>1, Inductive, PTL

-----------------------------------------------------------------------------
(* Only a sample fires, and only by a turn or a tap.                       *)
LEMMA FiresBySample ==
  ASSUME IInv, [Next]_vars, Fires
  PROVE  \E now \in [Axes -> Samples] :
           /\ Sample(now)
           /\ Tapped(accl_prev, now) \/ (SideOf(accl_side') # side_prev /\ SideOf(accl_side') # NoChange)
<1>1. PICK now \in [Axes -> Samples] : Sample(now)
  BY DEF Next, Fires, Sleep, Report, vars, IInv, TypeOK
<1>. QED
  BY <1>1 DEF Sample, Fires

(* A vector that lies on a side is above the threshold on its axis.        *)
LEMMA LiesOnItsAxis ==
  ASSUME NEW v \in [Axes -> Int16], SideOf(v) # NoChange
  PROVE  AxisOf[SideOf(v)] \in Axes /\ Abs(v[AxisOf[SideOf(v)]]) > LayThresh
<1>1. \A a \in Axes : v[a] \in Int
  BY Int16Is
<1>2. \A a \in Axes : v[a] > 500 \/ v[a] < -500 => Abs(v[a]) > 500
  BY <1>1 DEF Abs
<1>3. /\ SideOf(v) \in {"Left", "Right"} => v["x"] > 500 \/ v["x"] < -500
      /\ SideOf(v) \in {"Bottom", "Top"} => v["z"] > 500 \/ v["z"] < -500
      /\ SideOf(v) \in {"Down", "Up"}    => v["y"] > 500 \/ v["y"] < -500
      /\ SideOf(v) \in {"Left", "Right", "Bottom", "Top", "Down", "Up"}
  BY DEF SideOf
<1>. QED
  BY <1>2, <1>3 DEF AxisOf, Axes

(* Two samples below 600 are no tap.                                       *)
LEMMA WeakIsNoTap ==
  ASSUME NEW before \in [Axes -> Int16], NEW now \in [Axes -> Int16],
         \A a \in Axes : Abs(now[a]) < LayThresh + 100
  PROVE  ~Tapped(before, now)
<1>. SUFFICES ASSUME SideOf(before) # NoChange PROVE ~Tapped(before, now)
  BY DEF Tapped
<1>. DEFINE a == AxisOf[SideOf(before)]
<1>1. a \in Axes /\ Abs(before[a]) > 500
  BY LiesOnItsAxis
<1>2. before[a] \in Int /\ now[a] \in Int
  BY <1>1, Int16Is
<1>3. Abs(before[a]) \in Int /\ Abs(now[a]) \in Int /\ Abs(now[a]) < 600
  BY <1>1, <1>2 DEF Abs
<1>. HIDE DEF a
<1>4. ~(Abs(now[a]) - Abs(before[a]) > 200)
  BY <1>1, <1>3
<1>. QED
  BY <1>4 DEF Tapped, a

(* A sample below 600 leaves a board on no side where it is, and is no     *)
(* reason to fire.                                                         *)
LEMMA WeakSample ==
  ASSUME Samples \subseteq Int16, IInv, Weak, NEW now \in [Axes -> Samples], Sample(now),
         \A a \in Axes : Abs(now[a]) < LayThresh + 100
  PROVE  Weak' /\ ~Fires
<1>1. PICK short \in [Axes -> BOOLEAN] :
        accl_side' = [a \in Axes |-> Filtered(accl_side[a], now[a], short[a])]
  BY DEF Sample
<1>2. accl_prev' = now /\ now \in [Axes -> Int16]
  BY DEF Sample
<1>3. IInv'
  BY SampleStep
<1>4. ASSUME NEW a \in Axes PROVE Abs(accl_side'[a]) <= LayThresh
  <2>1. /\ accl_side[a] \in Int /\ now[a] \in Int /\ short[a] \in BOOLEAN
        /\ Abs(accl_side[a]) <= LayThresh
    BY <1>2, Int16Is DEF IInv, TypeOK, Weak
  <2>2. accl_side'[a] = Filtered(accl_side[a], now[a], short[a])
    BY <1>1
  <2>. QED
    BY <2>1, <2>2, FilterIsHeldBack
<1>5. Weak'
  BY <1>2, <1>4 DEF Weak
<1>6. SideOf(accl_side') = NoChange
  BY <1>3, <1>4, NoSide DEF IInv, TypeOK
<1>7. ~Tapped(accl_prev, now)
  BY <1>2, WeakIsNoTap DEF IInv, TypeOK
<1>. QED
  BY <1>5, <1>6, <1>7 DEF Sample, Fires

(* The threshold of 500 is one of 600 for the filter: samples below 600    *)
(* neither fire nor bring the filter above 500, however many follow each   *)
(* other and whatever was sampled before the board lay on no side.         *)
THEOREM FilterIgnoresWeakForce == ASSUME Samples \subseteq Int16 PROVE Spec => WeakForceIsIgnored
<1>1. ASSUME IInv, [Next]_vars, Weak, \A a \in Axes : Abs(accl_prev'[a]) < LayThresh + 100
      PROVE  ~Fires /\ Weak'
  <2>1. CASE \E now \in [Axes -> Samples] : Sample(now)
    <3>1. PICK now \in [Axes -> Samples] : Sample(now)
      BY <2>1
    <3>2. accl_prev' = now
      BY <3>1 DEF Sample
    <3>. QED
      BY <1>1, <3>1, <3>2, WeakSample
  <2>2. CASE Sleep \/ Report \/ UNCHANGED vars
    BY <1>1, <2>2 DEF Sleep, Report, vars, Weak, Fires
  <2>. QED
    BY <1>1, <2>1, <2>2 DEF Next
<1>2. IInv /\ [Next]_vars =>
        [ /\ Weak
          /\ \A a \in Axes : Abs(accl_prev'[a]) < LayThresh + 100
          => ~Fires /\ Weak' ]_vars
  BY <1>1
<1>. QED
  BY <1>2, Inductive, PTL DEF Spec, WeakForceIsIgnored

(* A board of which no sample reaches 600 is never on a side, and nothing  *)
(* is ever reported of it.                                                 *)
THEOREM WeakForceNeverFires ==
  ASSUME Samples \subseteq Int16, \A n \in Samples : Abs(n) < LayThresh + 100
  PROVE  Spec => []WeakForever
<1>1. Init => WeakForever
  BY DEF Init, WeakForever, Weak, Zero, Abs
<1>2. IInv /\ WeakForever /\ [Next]_vars => WeakForever'
  <2>. SUFFICES ASSUME IInv, WeakForever, [Next]_vars PROVE WeakForever'
    OBVIOUS
  <2>1. CASE \E now \in [Axes -> Samples] : Sample(now)
    <3>1. PICK now \in [Axes -> Samples] : Sample(now)
      BY <2>1
    <3>2. \A a \in Axes : Abs(now[a]) < LayThresh + 100
      OBVIOUS
    <3>3. Weak' /\ ~Fires
      BY <3>1, <3>2, WeakSample DEF WeakForever
    <3>4. sensor_fired' \in BOOLEAN
      BY <3>1, SampleStep DEF IInv, TypeOK
    <3>. QED
      BY <3>3, <3>4 DEF WeakForever, Fires
  <2>2. CASE Sleep \/ Report \/ UNCHANGED vars
    BY <2>2 DEF Sleep, Report, vars, Weak, WeakForever
  <2>. QED
    BY <2>1, <2>2 DEF Next
<1>. QED
  BY <1>1, <1>2, Inductive, PTL DEF Spec

(* A board that lies still never fires.                                    *)
THEOREM FilterIgnoresStillness == ASSUME Samples \subseteq Int16 PROVE Spec => StillIsQuiet
<1>1. IInv /\ [Next]_vars => [\A axis \in Axes : Lies(axis) => ~Fires]_vars
  <2>. SUFFICES ASSUME IInv, [Next]_vars, NEW axis \in Axes, Lies(axis), Fires PROVE FALSE
    OBVIOUS
  <2>1. PICK now \in [Axes -> Samples] :
          /\ Sample(now)
          /\ Tapped(accl_prev, now) \/ (SideOf(accl_side') # side_prev /\ SideOf(accl_side') # NoChange)
    BY FiresBySample
  <2>2. PICK short \in [Axes -> BOOLEAN] :
          accl_side' = [a \in Axes |-> Filtered(accl_side[a], now[a], short[a])]
    BY <2>1 DEF Sample
  <2>3. now = accl_prev /\ now \in [Axes -> Int16]
    BY <2>1 DEF Sample, Lies
  <2>4. IInv'
    BY <2>1, SampleStep
  <2>5. ~Tapped(accl_prev, now)
    <3>1. SideOf(accl_prev) # NoChange => AxisOf[SideOf(accl_prev)] \in Axes
      BY DEF SideOf, AxisOf, Axes
    <3>2. ASSUME NEW a \in Axes PROVE ~(Abs(now[a]) - Abs(now[a]) > 200)
      <4>1. now[a] \in Int
        BY <2>3, Int16Is
      <4>. QED
        BY <4>1 DEF Abs
    <3>. QED
      BY <2>3, <3>1, <3>2 DEF Tapped
  <2>6. ASSUME NEW a \in Axes
        PROVE  /\ accl_side[a] \in Int /\ now[a] \in Int /\ short[a] \in BOOLEAN /\ accl_side'[a] \in Int
               /\ accl_side'[a] = Filtered(accl_side[a], now[a], short[a])
    BY <2>2, <2>3, <2>4, Int16Is DEF IInv, TypeOK
  <2>7. ASSUME NEW a \in Axes, a # axis
        PROVE  /\ ~(accl_side[a] > 500) /\ ~(accl_side[a] < -500)
               /\ ~(accl_side'[a] > 500) /\ ~(accl_side'[a] < -500)
    <3>1. Abs(accl_side[a]) <= 500 /\ Abs(now[a]) <= 500
      BY <2>3, <2>7 DEF Lies
    <3>2. Abs(accl_side'[a]) <= 500
      BY <2>6, <3>1, FilterIsHeldBack DEF Abs
    <3>. QED
      BY <2>6, <3>1, <3>2 DEF Abs
  <2>8. \/ accl_side[axis] > 500 /\ accl_side'[axis] > 500
        \/ accl_side[axis] < -500 /\ accl_side'[axis] < -500
    <3>1. \/ accl_side[axis] > 500 /\ now[axis] > 501
          \/ accl_side[axis] < -500 /\ now[axis] < -501
      BY <2>3, <2>6 DEF Lies, Abs
    <3>. QED
      BY <2>6, <3>1, FilterIsKept
  <2>9. SideOf(accl_side') = SideOf(accl_side)
    BY <2>6, <2>7, <2>8 DEF SideOf, Axes
  <2>. QED
    BY <2>1, <2>5, <2>9 DEF IInv, SideIsCurrent
<1>. QED
  BY <1>1, Inductive, PTL DEF Spec, StillIsQuiet

=============================================================================
