-------------------------- MODULE SilenceDetector --------------------------
(***************************************************************************)
(* What the watchdog of the gateway promises about one sensor: the alarm   *)
(* is never raised for a sensor that was heard of less than Least ticks    *)
(* ago, and while a sensor is watched by an armed gateway, no more than    *)
(* Most ticks pass in which the sensor is neither heard of nor reported.   *)
(***************************************************************************)
EXTENDS Naturals

CONSTANTS Least, Most   (* natural numbers                                 *)

VARIABLES
  watched,    (* the sensor is in the table                                *)
  alarm,      (* its silence has been reported and not yet rung for        *)
  silence,    (* ticks since it was last heard of, up to Most              *)
  reported    (* its silence has been reported                             *)

vars == <<watched, alarm, silence, reported>>

Init == watched = FALSE /\ alarm = FALSE /\ silence = 0 /\ reported = FALSE

Watch ==
  /\ ~watched
  /\ watched' = TRUE /\ silence' = 0 /\ reported' = FALSE
  /\ UNCHANGED alarm

Heard ==
  /\ watched
  /\ silence' = 0 /\ reported' = FALSE
  /\ UNCHANGED <<watched, alarm>>

Forget ==
  /\ watched' = FALSE /\ silence' = 0 /\ reported' = FALSE
  /\ UNCHANGED alarm

Report ==
  /\ watched /\ silence >= Least
  /\ alarm' = TRUE /\ reported' = TRUE
  /\ UNCHANGED <<watched, silence>>

Ring ==
  /\ alarm' = FALSE
  /\ UNCHANGED <<watched, silence, reported>>

Tick ==
  /\ watched => silence < Most \/ reported
  /\ silence' = IF watched /\ silence < Most THEN silence + 1 ELSE silence
  /\ UNCHANGED <<watched, alarm, reported>>

Restart ==
  /\ watched' = FALSE /\ alarm' = FALSE /\ silence' = 0 /\ reported' = FALSE

Next == Watch \/ Heard \/ Forget \/ Report \/ Ring \/ Tick \/ Restart

Spec == Init /\ [][Next]_vars

=============================================================================
