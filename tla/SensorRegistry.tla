--------------------------- MODULE SensorRegistry ---------------------------
(***************************************************************************)
(* What the gateway's hash table of sensors promises its callers: a set of *)
(* known sensors, each with the number of sweeps since it was last heard   *)
(* of, and a sweep that counts for every known sensor exactly once.        *)
(*                                                                         *)
(* Gateway keeps the table in this form (ht_sensor, wdt, todo); SensorTable*)
(* shows that the chains of gateway_hashtable.c implement it.              *)
(***************************************************************************)
EXTENDS Naturals

CONSTANTS Names, Absent

VARIABLES
  known,            (* the sensors in the table                            *)
  silence,          (* sweeps since each was last heard of, at most 3      *)
  todo,             (* what the sweep under way has not visited            *)
  sweeping,         (* a sweep is under way                                *)
  answer            (* what the last look-up or deletion returned          *)

vars == <<known, silence, todo, sweeping, answer>>

Init ==
  /\ known = {}
  /\ silence = [n \in Names |-> 0]
  /\ todo = {}
  /\ sweeping = FALSE
  /\ answer = Absent

Answer(n) == answer' = IF n \in known THEN n ELSE Absent

(* Adding a known sensor changes nothing.                                  *)
Set(n) ==
  /\ ~sweeping
  /\ known' = known \cup {n}
  /\ UNCHANGED <<silence, todo, sweeping, answer>>

Get(n) ==
  /\ ~sweeping
  /\ Answer(n)
  /\ UNCHANGED <<known, silence, todo, sweeping>>

Delete(n) ==
  /\ ~sweeping
  /\ Answer(n)
  /\ known' = known \ {n}
  /\ silence' = [silence EXCEPT ![n] = 0]
  /\ UNCHANGED <<todo, sweeping>>

Heard(n) ==
  /\ ~sweeping
  /\ silence' = IF n \in known THEN [silence EXCEPT ![n] = 0] ELSE silence
  /\ UNCHANGED <<known, todo, sweeping, answer>>

Sweep ==
  /\ ~sweeping
  /\ sweeping' = TRUE
  /\ todo' = known
  /\ UNCHANGED <<known, silence, answer>>

Visit(n) ==
  /\ n \in todo
  /\ todo' = todo \ {n}
  /\ silence' = [silence EXCEPT ![n] = IF @ > 2 THEN @ ELSE @ + 1]
  /\ UNCHANGED <<known, sweeping, answer>>

SweepEnds ==
  /\ sweeping /\ todo = {}
  /\ sweeping' = FALSE
  /\ UNCHANGED <<known, silence, todo, answer>>

Next ==
  \/ \E n \in Names : Set(n) \/ Get(n) \/ Delete(n) \/ Heard(n) \/ Visit(n)
  \/ Sweep \/ SweepEnds

Spec == Init /\ [][Next]_vars
=============================================================================
