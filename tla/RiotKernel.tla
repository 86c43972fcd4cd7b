----------------------------- MODULE RiotKernel -----------------------------
(***************************************************************************)
(* The part of the RIOT kernel that the three applications rely on: a      *)
(* priority scheduler without time slices and a mutex with a queue.  The   *)
(* kernel is not part of the repository; what is modelled is how the       *)
(* applications use it: thread_create with THREAD_PRIORITY_MAIN + k        *)
(* (gateway/main.c, sensor_*/main.c, actuator-r2/main.c), mutex_lock and   *)
(* mutex_unlock (gateway/gateway_hashtable.c).                             *)
(*                                                                         *)
(* A smaller number is a more urgent thread.                               *)
(***************************************************************************)
EXTENDS Naturals

NoThread == "none"

(* t is a most urgent member of the set S of threads.  The scheduler runs  *)
(* a foremost ready thread, and mutex_unlock serves a foremost waiter.     *)
Foremost(t, S, priority) ==
  /\ t \in S
  /\ \A u \in S : priority[t] <= priority[u]

-----------------------------------------------------------------------------
(* A mutex is [owner, waiting].                                            *)

Mutexes(threads) == [owner : threads \cup {NoThread}, waiting : SUBSET threads]

FreeMutex == [owner |-> NoThread, waiting |-> {}]

(* mutex_lock by t: take a free mutex, or join the queue and block.        *)
MutexLock(m, t) ==
  IF m.owner = NoThread
    THEN [owner |-> t, waiting |-> m.waiting]
    ELSE [owner |-> m.owner, waiting |-> m.waiting \cup {t}]

(* mutex_unlock: the mutex passes straight to the foremost waiter, if any, *)
(* so that neither the releasing thread nor a later one can overtake it.   *)
MutexUnlock(m, priority) ==
  IF m.waiting = {}
    THEN {FreeMutex}
    ELSE {[owner |-> t, waiting |-> m.waiting \ {t}] :
            t \in {u \in m.waiting : Foremost(u, m.waiting, priority)}}

=============================================================================
