--------------------------- MODULE GatewayProofs ---------------------------
(***************************************************************************)
(* Theorems about Gateway for every set of nodes, every number of polls    *)
(* and any number of actuator cells, in four parts: types; ht_lock, the    *)
(* flags and the acceptance of nodes, which rest on what ht_lock and the   *)
(* priorities exclude (LockInv says who can be inside a section); the      *)
(* look-up that ends a registration; the list of actuators.                *)
(***************************************************************************)
EXTENDS Gateway, LinkedCellsProofs, FiniteSetTheorems

(* A pointer about to be followed is not NIL, a handler has a name, a nap  *)
(* of register_node is within its count.                                   *)
Followed ==
  /\ pc["gcoap"] # "recv" => req # NULL
  /\ pc["alarm"] = "next" => ptr # NIL
  /\ pc["shell"] = "unlink" => head # NIL /\ cur # NIL
  /\ pc["shell"] = "nap" => polls <= RegisterPolls

TypeInv == TypeOK /\ Followed


(* The values of the constant functions.                                   *)
LEMMA Constants ==
  /\ Threads = {"gcoap", "shell", "alarm", "wdt"}
  /\ LockLabels["gcoap"] = {"reg_get", "reg_set", "st_get", "st_update", "tap_get"}
  /\ LockLabels["shell"] = {"get", "lookup", "del"}
  /\ LockLabels["alarm"] = {}
  /\ LockLabels["wdt"] = {"open"}
  /\ Labels["gcoap"] = {"reg_get", "reg_set", "st_get", "st_update", "tap_get",
                        "recv", "tap_fire"}
  /\ Labels["shell"] = {"get", "lookup", "del", "prompt", "clear_fired",
                        "clear_timeout", "compare", "exists", "poll", "nap", "get_node",
                        "del_done", "find", "unlink", "finish"}
  /\ Labels["alarm"] = {"sleep", "cond", "engaged", "fire", "next"}
  /\ Labels["wdt"] = {"open", "sleep", "scan", "raise"}
  /\ Priority["gcoap"] = 6 /\ Priority["shell"] = 7
  /\ Priority["alarm"] = 8 /\ Priority["wdt"] = 9
  BY DEF Threads, LockLabels, Labels, Priority

LEMMA InitType == Init => TypeInv
<1> SUFFICES ASSUME Init PROVE TypeInv
  OBVIOUS
<1>1. ThreadsOK
  <2>2. \A t \in Threads : pc[t] \in Labels[t]
    BY Constants DEF Init, Start
  <2>3. ht_lock \in Mutexes(Threads)
    BY DEF Init, FreeMutex, Mutexes
  <2>4. pc = [t \in Threads |-> pc[t]]
    BY DEF Init
  <2>5. pc \in [Threads -> UNION {Labels[t] : t \in Threads}]
    BY <2>2, <2>4
  <2>6. out \in [Threads -> Messages \cup {NoMessage}]
    BY DEF Init
  <2>7. out["gcoap"] = NoMessage /\ out["wdt"] = NoMessage
    BY Constants DEF Init
  <2> QED BY <2>2, <2>3, <2>5, <2>6, <2>7 DEF ThreadsOK
<1>2. TableOK /\ FlagsOK /\ NamesOK
  <2>1. TableOK
    BY DEF Init, TableOK
  <2>3. FlagsOK
    BY DEF Init, FlagsOK
  <2>2. NamesOK
    BY GatewayAssumption DEF Init, NamesOK
  <2> QED BY <2>1, <2>2, <2>3
<1>3. ListOK
  <2>1. cells = <<>> /\ cells \in Seq(Cells(Actuators)) /\ DOMAIN cells = {}
        /\ Len(cells) = 0
    BY DEF Init
  <2> QED BY <2>1 DEF Init, ListOK, Pointers, NIL
<1>4. Followed
  BY Constants DEF Init, Start, Followed
<1> QED BY <1>1, <1>2, <1>3, <1>4 DEF TypeInv, TypeOK

LEMMA GotoOK ==
  ASSUME NEW t \in Threads, NEW l \in Labels[t], Goto(t, l),
         pc \in [Threads -> UNION {Labels[u] : u \in Threads}],
         \A u \in Threads : pc[u] \in Labels[u]
  PROVE  /\ pc' \in [Threads -> UNION {Labels[u] : u \in Threads}]
         /\ \A u \in Threads : pc'[u] \in Labels[u]
         /\ pc'[t] = l
         /\ \A u \in Threads : u # t => pc'[u] = pc[u]
  BY DEF Goto

LEMMA UnlockOK ==
  ASSUME ht_lock \in Mutexes(Threads), Unlock PROVE ht_lock' \in Mutexes(Threads)
  BY DEF Unlock, MutexUnlock, Mutexes, FreeMutex, Foremost

LEMMA PutOK ==
  ASSUME NEW t \in {"shell", "alarm"}, NEW type \in {"AUTH", "DEAU", "ON"},
         NEW to \in Sensors \cup Actuators \cup {NULL}, Put(t, type, to),
         out \in [Threads -> Messages \cup {NoMessage}],
         out["gcoap"] = NoMessage, out["wdt"] = NoMessage
  PROVE  /\ out' \in [Threads -> Messages \cup {NoMessage}]
         /\ out'["gcoap"] = NoMessage /\ out'["wdt"] = NoMessage
  <1>1. <<type, to>> \in Messages
    BY DEF Messages
  <1> QED BY <1>1, Constants DEF Put

(* What the two writers of the list do to its type.                        *)
LEMMA AppendOK ==
  ASSUME ListOK, NEW n \in Actuators, InsertNode(n)
  PROVE  /\ cells' \in Seq(Cells(Actuators)) /\ Len(cells') = Len(cells) + 1
         /\ \A b \in DOMAIN cells : cells'[b] = cells[b]
         /\ cells'[Len(cells) + 1] = [name |-> n, next |-> head]
         /\ head' = Len(cells) + 1
  <1>1. [name |-> n, next |-> head] \in Cells(Actuators)
    BY DEF ListOK, Pointers, Cells
  <1> QED BY <1>1 DEF ListOK, InsertNode

LEMMA BypassOK ==
  ASSUME ListOK, NEW p \in DOMAIN cells, NEW c \in DOMAIN cells
  PROVE  /\ Bypass(p, c) \in Seq(Cells(Actuators)) /\ Len(Bypass(p, c)) = Len(cells)
         /\ \A b \in DOMAIN cells : Bypass(p, c)[b].name = cells[b].name
         /\ \A b \in DOMAIN cells :
              Bypass(p, c)[b].next = IF b = p THEN cells[c].next ELSE cells[b].next
  <1>1. \A b \in DOMAIN cells : cells[b] \in Cells(Actuators)
    BY DEF ListOK
  <1>2. [cells[p] EXCEPT !.next = cells[c].next] \in Cells(Actuators)
    BY <1>1 DEF Cells
  <1>3. /\ [cells[p] EXCEPT !.next = cells[c].next].name = cells[p].name
        /\ [cells[p] EXCEPT !.next = cells[c].next].next = cells[c].next
    BY <1>1 DEF Cells
  <1>4. Bypass(p, c) = [cells EXCEPT ![p] = [cells[p] EXCEPT !.next = cells[c].next]]
    BY DEF Bypass
  <1>5. \A b \in DOMAIN cells :
          Bypass(p, c)[b] = IF b = p THEN [cells[p] EXCEPT !.next = cells[c].next]
                                     ELSE cells[b]
    BY <1>4 DEF ListOK
  <1>6. Bypass(p, c) \in Seq(Cells(Actuators)) /\ Len(Bypass(p, c)) = Len(cells)
    BY <1>2, <1>4 DEF ListOK
  <1> QED BY <1>3, <1>5, <1>6

LEMMA DataStep == TypeInv /\ [Next]_vars => (TableOK /\ FlagsOK /\ NamesOK)'
<1> SUFFICES ASSUME TypeInv, [Next]_vars PROVE (TableOK /\ FlagsOK /\ NamesOK)'
  OBVIOUS
<1> USE DEF TypeInv, TypeOK, TableOK, FlagsOK, NamesOK, sharedVars, tableVars,
        idVars, flagVars, listVars, localVars, shellVars, Answer, At, Holding
<1>1. ASSUME NEW t \in Threads,
            Lock(t)
     PROVE  (TableOK /\ FlagsOK /\ NamesOK)'
  BY <1>1 DEF Lock
<1>2. ASSUME NEW t \in Threads,
            Transmit(t)
     PROVE  (TableOK /\ FlagsOK /\ NamesOK)'
  BY <1>2 DEF Transmit
<1>3. ASSUME NEW s \in Sensors, NEW label \in {"reg_get", "st_get", "tap_get"},
            Receive(label, s)
     PROVE  (TableOK /\ FlagsOK /\ NamesOK)'
  BY <1>3 DEF Receive
<1>4. ASSUME NEW n \in Actuators \cup {NULL},
            ActuatorRegister(n)
     PROVE  (TableOK /\ FlagsOK /\ NamesOK)'
  BY <1>4 DEF ActuatorRegister
<1>5. ASSUME NEW c \in SensorCommands, NEW n \in Sensors,
            SensorCommand(c, n)
     PROVE  (TableOK /\ FlagsOK /\ NamesOK)'
  BY <1>5 DEF SensorCommand
<1>6. ASSUME NEW c \in ActuatorCommands, NEW n \in Actuators,
            ActuatorCommand(c, n)
     PROVE  (TableOK /\ FlagsOK /\ NamesOK)'
  BY <1>6 DEF ActuatorCommand
<1>7. ASSUME NEW c \in {"engage", "disengage"},
            AlarmCommand(c)
     PROVE  (TableOK /\ FlagsOK /\ NamesOK)'
  BY <1>7 DEF AlarmCommand
<1>8. ASSUME NEW s \in Sensors,
            Scan(s)
     PROVE  (TableOK /\ FlagsOK /\ NamesOK)'
  BY <1>8 DEF Scan, Count
<1>9. CASE RegisterGet
  BY <1>9 DEF RegisterGet
<1>10. CASE RegisterSet
  BY <1>10 DEF RegisterSet, Followed
<1>11. CASE StatusGet
  BY <1>11 DEF StatusGet
<1>12. CASE StatusUpdate
  BY <1>12 DEF StatusUpdate
<1>13. CASE TapGet
  BY <1>13 DEF TapGet
<1>14. CASE TapFire
  BY <1>14 DEF TapFire
<1>15. CASE ClearFired
  BY <1>15 DEF ClearFired
<1>16. CASE ClearTimeout
  BY <1>16 DEF ClearTimeout
<1>17. CASE ShellGet
  BY <1>17 DEF ShellGet, HtGet
<1>39. CASE ShellCompare
  BY <1>39 DEF ShellCompare
<1>18. CASE ShellExists
  BY <1>18 DEF ShellExists
<1>19. CASE Poll
  BY <1>19 DEF Poll
<1>20. CASE Lookup
  BY <1>20 DEF Lookup
<1>21. CASE ShellGetNode
  BY <1>21 DEF ShellGetNode
<1>22. CASE HtDel
  BY <1>22 DEF HtDel
<1>23. CASE HtDelDone
  BY <1>23 DEF HtDelDone
<1>24. CASE FindNode
  BY <1>24 DEF FindNode
<1>25. CASE Unlink
  BY <1>25 DEF Unlink
<1>26. CASE Finish
  BY <1>26, GatewayAssumption DEF Finish
<1>27. CASE NapEnds
  BY <1>27, GatewayAssumption DEF NapEnds, Followed
<1>28. CASE AlarmCond
  BY <1>28 DEF AlarmCond
<1>29. CASE AlarmEngaged
  BY <1>29 DEF AlarmEngaged
<1>30. CASE Fire
  BY <1>30 DEF Fire
<1>31. CASE FireNext
  BY <1>31 DEF FireNext
<1>32. CASE Sweep
  BY <1>32 DEF Sweep
<1>33. CASE Raise
  BY <1>33 DEF Raise
<1>34. CASE SweepEnds
  BY <1>34 DEF SweepEnds
<1>35. CASE Tick("alarm", "cond") \/ Tick("wdt", "open")
  BY <1>35 DEF Tick
<1>36. CASE DisengageButton
  BY <1>36 DEF DisengageButton
<1>37. CASE TestButton
  BY <1>37 DEF TestButton
<1>38. CASE UNCHANGED vars
  BY <1>38 DEF vars
<1> QED BY <1>1, <1>2, <1>3, <1>4, <1>5, <1>6, <1>7, <1>8, <1>9, <1>10, <1>11,
        <1>12, <1>13, <1>14, <1>15, <1>16, <1>17, <1>18, <1>19, <1>20, <1>21,
        <1>22, <1>23, <1>24, <1>25, <1>26, <1>27, <1>28, <1>29, <1>30, <1>31,
        <1>32, <1>33, <1>34, <1>35, <1>36, <1>37, <1>38, <1>39, Constants
     DEF Next, GcoapInput, GcoapStep, Operator, ShellStep, AlarmStep, WdtStep, Timers

LEMMA ThreadsStep == TypeInv /\ [Next]_vars => ThreadsOK'
<1> SUFFICES ASSUME TypeInv, [Next]_vars PROVE ThreadsOK'
  OBVIOUS
<1> USE DEF TypeInv, TypeOK, ThreadsOK, sharedVars, tableVars, idVars,
        flagVars, listVars, localVars, shellVars, Answer, At, Holding
<1>1. ASSUME NEW t \in Threads, Lock(t) PROVE ThreadsOK'
  BY <1>1, GotoOK, UnlockOK, Constants DEF Lock, MutexLock, Mutexes
<1>2. ASSUME NEW t \in Threads, Transmit(t) PROVE ThreadsOK'
  BY <1>2, GotoOK, UnlockOK, Constants DEF Transmit
<1>3. ASSUME NEW s \in Sensors, NEW label \in {"reg_get", "st_get", "tap_get"},
            Receive(label, s)
     PROVE  ThreadsOK'
  BY <1>3, GotoOK, UnlockOK, Constants DEF Receive
<1>4. ASSUME NEW n \in Actuators \cup {NULL},
            ActuatorRegister(n)
     PROVE  ThreadsOK'
  BY <1>4, GotoOK, UnlockOK, Constants DEF ActuatorRegister
<1>5. ASSUME NEW c \in SensorCommands, NEW n \in Sensors,
            SensorCommand(c, n)
     PROVE  ThreadsOK'
  BY <1>5, GotoOK, UnlockOK, Constants DEF SensorCommand, SensorCommands
<1>6. ASSUME NEW c \in ActuatorCommands, NEW n \in Actuators,
            ActuatorCommand(c, n)
     PROVE  ThreadsOK'
  BY <1>6, GotoOK, UnlockOK, Constants DEF ActuatorCommand
<1>7. ASSUME NEW c \in {"engage", "disengage"},
            AlarmCommand(c)
     PROVE  ThreadsOK'
  BY <1>7, GotoOK, UnlockOK, Constants DEF AlarmCommand
<1>8. ASSUME NEW s \in Sensors, Scan(s) PROVE ThreadsOK'
  BY <1>8, GotoOK, UnlockOK, Constants DEF Scan
<1>9. CASE RegisterGet
  BY <1>9, GotoOK, UnlockOK, Constants DEF RegisterGet
<1>10. CASE RegisterSet
  BY <1>10, GotoOK, UnlockOK, Constants DEF RegisterSet
<1>11. CASE StatusGet
  BY <1>11, GotoOK, UnlockOK, Constants DEF StatusGet
<1>12. CASE StatusUpdate
  BY <1>12, GotoOK, UnlockOK, Constants DEF StatusUpdate
<1>13. CASE TapGet
  BY <1>13, GotoOK, UnlockOK, Constants DEF TapGet
<1>14. CASE TapFire
  BY <1>14, GotoOK, UnlockOK, Constants DEF TapFire
<1>15. CASE ClearFired
  BY <1>15, GotoOK, UnlockOK, Constants DEF ClearFired
<1>16. CASE ClearTimeout
  BY <1>16, GotoOK, UnlockOK, Constants DEF ClearTimeout
<1>17. CASE ShellGet
  BY <1>17, GotoOK, UnlockOK, Constants DEF ShellGet
<1>39. CASE ShellCompare
  BY <1>39, GotoOK, UnlockOK, Constants DEF ShellCompare
<1>18. CASE ShellExists
  BY <1>18, GotoOK, UnlockOK, Constants DEF ShellExists
<1>19. CASE Poll
  BY <1>19, GotoOK, UnlockOK, Constants DEF Poll
<1>20. CASE Lookup
  BY <1>20, GotoOK, UnlockOK, Constants, PutOK DEF Lookup, NamesOK, HtGet
<1>21. CASE ShellGetNode
  BY <1>21, GotoOK, UnlockOK, Constants, PutOK DEF ShellGetNode, NamesOK
<1>22. CASE HtDel
  BY <1>22, GotoOK, UnlockOK, Constants, PutOK DEF HtDel, NamesOK
<1>23. CASE HtDelDone
  BY <1>23, GotoOK, UnlockOK, Constants DEF HtDelDone
<1>24. CASE FindNode
  <2>1. CASE Put("shell", "DEAU", ACTUATOR_ID) /\ Goto("shell", "unlink")
    BY <1>24, <2>1, GotoOK, PutOK, Constants DEF FindNode, NamesOK
  <2>2. CASE Goto("shell", "finish") /\ UNCHANGED out
    BY <1>24, <2>2, GotoOK, Constants DEF FindNode
  <2> QED BY <1>24, <2>1, <2>2 DEF FindNode
<1>25. CASE Unlink
  BY <1>25, GotoOK, UnlockOK, Constants DEF Unlink
<1>26. CASE Finish
  BY <1>26, GotoOK, UnlockOK, Constants DEF Finish
<1>27. CASE NapEnds
  BY <1>27, GotoOK, UnlockOK, Constants DEF NapEnds
<1>28. CASE AlarmCond
  BY <1>28, GotoOK, UnlockOK, Constants DEF AlarmCond
<1>29. CASE AlarmEngaged
  BY <1>29, GotoOK, UnlockOK, Constants DEF AlarmEngaged
<1>30. CASE Fire
  <2>1. ASSUME ptr # NIL PROVE cells[ptr].name \in Actuators
    <3>1. ptr \in 1..Len(cells)
      BY <2>1 DEF ListOK, Pointers, NIL
    <3>2. cells[ptr] \in Cells(Actuators)
      BY <3>1 DEF ListOK
    <3> QED BY <3>2 DEF Cells
  <2> QED BY <1>30, <2>1, GotoOK, Constants, PutOK DEF Fire
<1>31. CASE FireNext
  BY <1>31, GotoOK, UnlockOK, Constants DEF FireNext
<1>32. CASE Sweep
  BY <1>32, GotoOK, UnlockOK, Constants DEF Sweep
<1>33. CASE Raise
  BY <1>33, GotoOK, UnlockOK, Constants DEF Raise
<1>34. CASE SweepEnds
  BY <1>34, GotoOK, UnlockOK, Constants DEF SweepEnds
<1>35. CASE Tick("alarm", "cond") \/ Tick("wdt", "open")
  BY <1>35, GotoOK, UnlockOK, Constants DEF Tick
<1>36. CASE DisengageButton
  BY <1>36, GotoOK, UnlockOK, Constants DEF DisengageButton
<1>37. CASE TestButton
  BY <1>37, GotoOK, UnlockOK, Constants DEF TestButton
<1>38. CASE UNCHANGED vars
  BY <1>38, GotoOK, UnlockOK, Constants DEF vars
<1> QED BY <1>1, <1>2, <1>3, <1>4, <1>5, <1>6, <1>7, <1>8, <1>9, <1>10, <1>11,
        <1>12, <1>13, <1>14, <1>15, <1>16, <1>17, <1>18, <1>19, <1>20, <1>21,
        <1>22, <1>23, <1>24, <1>25, <1>26, <1>27, <1>28, <1>29, <1>30, <1>31,
        <1>32, <1>33, <1>34, <1>35, <1>36, <1>37, <1>38, <1>39, Constants
     DEF Next, GcoapInput, GcoapStep, Operator, ShellStep, AlarmStep, WdtStep, Timers

LEMMA ListStep == TypeInv /\ [Next]_vars => (ListOK /\ Followed)'
<1> SUFFICES ASSUME TypeInv, [Next]_vars PROVE (ListOK /\ Followed)'
  OBVIOUS
<1> USE DEF TypeInv, TypeOK, ThreadsOK, Goto, sharedVars, tableVars, idVars,
        flagVars, listVars, localVars, shellVars, Answer, At, Holding
<1>1. ASSUME NEW t \in Threads, Lock(t) PROVE (ListOK /\ Followed)'
  BY <1>1, Constants DEF Lock, ListOK, Followed, Pointers, NIL
<1>2. ASSUME NEW t \in Threads, Transmit(t) PROVE (ListOK /\ Followed)'
  BY <1>2, Constants DEF Transmit, ListOK, Followed, Pointers, NIL
<1>3. ASSUME NEW s \in Sensors, NEW label \in {"reg_get", "st_get", "tap_get"},
            Receive(label, s)
     PROVE  (ListOK /\ Followed)'
  BY <1>3, Constants, GatewayAssumption DEF Receive, ListOK, Followed,
     Pointers, NIL
<1>4. ASSUME NEW n \in Actuators \cup {NULL},
            ActuatorRegister(n)
     PROVE  (ListOK /\ Followed)'
  <2>1. CASE UNCHANGED listVars
    BY <1>4, <2>1 DEF ActuatorRegister, ListOK, Followed, Pointers, NIL
  <2>2. CASE n \in Actuators /\ InsertNode(n)
    <3>1. /\ cells' \in Seq(Cells(Actuators)) /\ Len(cells') = Len(cells) + 1
          /\ \A b \in DOMAIN cells : cells'[b] = cells[b]
          /\ cells'[Len(cells) + 1] = [name |-> n, next |-> head]
          /\ head' = Len(cells) + 1
      BY <2>2, AppendOK
    <3>2. \A b \in DOMAIN cells' : cells'[b].next \in Pointers'
      <4> SUFFICES ASSUME NEW b \in DOMAIN cells' PROVE cells'[b].next \in Pointers'
        OBVIOUS
      <4>1. CASE b \in DOMAIN cells
        BY <3>1, <4>1 DEF ListOK, Pointers
      <4>2. CASE b = Len(cells) + 1
        BY <3>1, <4>2 DEF ListOK, Pointers
      <4> QED BY <3>1, <4>1, <4>2 DEF ListOK
    <3>3. UNCHANGED <<pc, req, polls, cur, prev, ptr>>
      BY <1>4 DEF ActuatorRegister
    <3> QED BY <3>1, <3>2, <3>3 DEF ListOK, Followed, Pointers, NIL
  <2> QED BY <1>4, <2>1, <2>2 DEF ActuatorRegister
<1>5. ASSUME NEW c \in SensorCommands, NEW n \in Sensors,
            SensorCommand(c, n)
     PROVE  (ListOK /\ Followed)'
  BY <1>5, Constants DEF SensorCommand, ListOK, Followed, Pointers, NIL
<1>6. ASSUME NEW c \in ActuatorCommands, NEW n \in Actuators,
            ActuatorCommand(c, n)
     PROVE  (ListOK /\ Followed)'
  BY <1>6, Constants DEF ActuatorCommand, ListOK, Followed, Pointers, NIL
<1>7. ASSUME NEW c \in {"engage", "disengage"},
            AlarmCommand(c)
     PROVE  (ListOK /\ Followed)'
  BY <1>7, Constants DEF AlarmCommand, ListOK, Followed, Pointers, NIL
<1>8. ASSUME NEW s \in Sensors, Scan(s) PROVE (ListOK /\ Followed)'
  BY <1>8, Constants DEF Scan, ListOK, Followed, Pointers, NIL
<1>9. CASE RegisterGet
  BY <1>9, Constants DEF RegisterGet, ListOK, Followed, Pointers, NIL
<1>10. CASE RegisterSet
  BY <1>10, Constants DEF RegisterSet, ListOK, Followed, Pointers, NIL
<1>11. CASE StatusGet
  BY <1>11, Constants DEF StatusGet, ListOK, Followed, Pointers, NIL
<1>12. CASE StatusUpdate
  BY <1>12, Constants DEF StatusUpdate, ListOK, Followed, Pointers, NIL
<1>13. CASE TapGet
  BY <1>13, Constants DEF TapGet, ListOK, Followed, Pointers, NIL
<1>14. CASE TapFire
  BY <1>14, Constants DEF TapFire, ListOK, Followed, Pointers, NIL
<1>15. CASE ClearFired
  BY <1>15, Constants DEF ClearFired, ListOK, Followed, Pointers, NIL
<1>16. CASE ClearTimeout
  BY <1>16, Constants DEF ClearTimeout, ListOK, Followed, Pointers, NIL
<1>17. CASE ShellGet
  BY <1>17, Constants DEF ShellGet, ListOK, Followed, Pointers, NIL
<1>39. CASE ShellCompare
  BY <1>39, Constants DEF ShellCompare, ListOK, Followed, Pointers, NIL
<1>18. CASE ShellExists
  BY <1>18, Constants DEF ShellExists, ListOK, Followed, Pointers, NIL
<1>19. CASE Poll
  BY <1>19, Constants DEF Poll, ListOK, Followed, Pointers, NIL
<1>20. CASE Lookup
  BY <1>20, Constants DEF Lookup, ListOK, Followed, Pointers, NIL
<1>21. CASE ShellGetNode
  BY <1>21, Constants DEF ShellGetNode, ListOK, Followed, Pointers, NIL
<1>22. CASE HtDel
  BY <1>22, Constants DEF HtDel, ListOK, Followed, Pointers, NIL
<1>23. CASE HtDelDone
  BY <1>23, Constants DEF HtDelDone, ListOK, Followed, Pointers, NIL
<1>24. CASE FindNode
  <2>1. CASE Goto("shell", "finish") /\ UNCHANGED <<cur, prev>>
    BY <1>24, <2>1, Constants DEF FindNode, ListOK, Followed, Pointers, NIL
  <2>2. CASE /\ cur' \in FirstNamed(cells, head, ACTUATOR_ID)
             /\ prev' \in Previous(cells, head, cur')
    <3>1. cur' \in Reach(cells, head) /\ prev' \in Reach(cells, head) \cup {NIL}
      BY <2>2 DEF FirstNamed, Named, Previous
    <3>2. cur' \in DOMAIN cells /\ prev' \in DOMAIN cells \cup {NIL} /\ head # NIL
      BY <3>1, ReachNil DEF Reach
    <3> QED BY <1>24, <3>2, Constants DEF FindNode, ListOK, Followed, Pointers, NIL
  <2> QED BY <1>24, <2>1, <2>2 DEF FindNode
<1>25. CASE Unlink
  <2>1. cur \in DOMAIN cells /\ head \in DOMAIN cells
    BY <1>25 DEF Unlink, ListOK, Followed, Pointers, NIL
  <2>2. CASE prev = NIL
    BY <1>25, <2>1, <2>2, Constants DEF Unlink, ListOK, Followed, Pointers, NIL
  <2>3. CASE prev # NIL
    <3>1. prev \in DOMAIN cells
      BY <2>3 DEF ListOK, Followed, Pointers, NIL
    <3>2. cells' = Bypass(prev, cur) /\ UNCHANGED head
      BY <1>25, <2>3 DEF Unlink
    <3>3. /\ cells' \in Seq(Cells(Actuators)) /\ Len(cells') = Len(cells)
          /\ \A b \in DOMAIN cells :
               cells'[b].next = IF b = prev THEN cells[cur].next ELSE cells[b].next
      BY <2>1, <3>1, <3>2, BypassOK
    <3>4. \A b \in DOMAIN cells : cells'[b].next \in Pointers
      BY <2>1, <3>3 DEF ListOK
    <3>5. Pointers' = Pointers /\ DOMAIN cells' = DOMAIN cells
      BY <3>3 DEF ListOK, Pointers
    <3>6. cur' = NIL /\ prev' = NIL /\ ptr' = ptr
          /\ pc' = [pc EXCEPT !["shell"] = "finish"] /\ req' = req
      BY <1>25 DEF Unlink
    <3>7. ListOK'
      BY <3>2, <3>3, <3>4, <3>5, <3>6 DEF ListOK, Pointers, NIL
    <3>8. Followed'
      BY <3>2, <3>6, Constants DEF Followed
    <3> QED BY <3>7, <3>8
  <2> QED BY <2>2, <2>3
<1>26. CASE Finish
  BY <1>26, Constants DEF Finish, ListOK, Followed, Pointers, NIL
<1>27. CASE NapEnds
  BY <1>27, Constants DEF NapEnds, ListOK, Followed, Pointers, NIL
<1>28. CASE AlarmCond
  BY <1>28, Constants DEF AlarmCond, ListOK, Followed, Pointers, NIL
<1>29. CASE AlarmEngaged
  BY <1>29, Constants DEF AlarmEngaged, ListOK, Followed, Pointers, NIL
<1>30. CASE Fire
  BY <1>30, Constants DEF Fire, ListOK, Followed, Pointers, NIL
<1>31. CASE FireNext
  BY <1>31, Constants DEF FireNext, ListOK, Followed, Pointers, NIL
<1>32. CASE Sweep
  BY <1>32, Constants DEF Sweep, ListOK, Followed, Pointers, NIL
<1>33. CASE Raise
  BY <1>33, Constants DEF Raise, ListOK, Followed, Pointers, NIL
<1>34. CASE SweepEnds
  BY <1>34, Constants DEF SweepEnds, ListOK, Followed, Pointers, NIL
<1>35. CASE Tick("alarm", "cond") \/ Tick("wdt", "open")
  BY <1>35, Constants DEF Tick, ListOK, Followed, Pointers, NIL
<1>36. CASE DisengageButton
  BY <1>36, Constants DEF DisengageButton, ListOK, Followed, Pointers, NIL
<1>37. CASE TestButton
  BY <1>37, Constants DEF TestButton, ListOK, Followed, Pointers, NIL
<1>38. CASE UNCHANGED vars
  BY <1>38, Constants DEF vars, ListOK, Followed, Pointers, NIL
<1> QED BY <1>1, <1>2, <1>3, <1>4, <1>5, <1>6, <1>7, <1>8, <1>9, <1>10, <1>11,
        <1>12, <1>13, <1>14, <1>15, <1>16, <1>17, <1>18, <1>19, <1>20, <1>21,
        <1>22, <1>23, <1>24, <1>25, <1>26, <1>27, <1>28, <1>29, <1>30, <1>31,
        <1>32, <1>33, <1>34, <1>35, <1>36, <1>37, <1>38, <1>39, Constants
     DEF Next, GcoapInput, GcoapStep, Operator, ShellStep, AlarmStep, WdtStep, Timers

-----------------------------------------------------------------------------
LEMMA TypeInvariant == Spec => []TypeInv
  <1>1. TypeInv /\ [Next]_vars => TypeInv'
    BY DataStep, ThreadsStep, ListStep DEF TypeInv, TypeOK
  <1> QED BY InitType, <1>1, PTL DEF Spec

(* Each thread stays at its own labels, only the threads that send are     *)
(* ever blocked on a packet, and no pointer of the actuator list dangles   *)
(* or is followed from NIL, whatever the nodes, the operator and the       *)
(* buttons do.                                                             *)
THEOREM TypeCorrect == Spec => []TypeOK
  <1>1. TypeInv => TypeOK
    BY DEF TypeInv
  <1> QED BY TypeInvariant, <1>1, PTL

-----------------------------------------------------------------------------
(* Flags and acceptance.                                                   *)

(* The labels inside a section of ht_lock, past the call that entered it.  *)
Sections == {"del_done", "scan", "raise"}

(* The lock is never handed to nobody while a thread waits; a thread owns  *)
(* it or waits for it only where the code locks; and the two sections that *)
(* are longer than a step are entered by their owner only.                 *)
LockInv ==
  /\ ht_lock.owner = NoThread => ht_lock.waiting = {}
  /\ ht_lock.owner \notin ht_lock.waiting
  /\ \A t \in ht_lock.waiting : pc[t] \in LockLabels[t]
  /\ \A t \in Threads : ht_lock.owner = t => pc[t] \in LockLabels[t] \cup Sections
  /\ pc["shell"] = "del_done" => ht_lock.owner = "shell"
  /\ pc["wdt"] \in {"scan", "raise"} => ht_lock.owner = "wdt"

LockTyped == TypeInv /\ LockInv

LEMMA InitLock == Init => LockInv
  BY Constants DEF Init, LockInv, FreeMutex, NoThread, Start

(* The three ways a thread moves: past the lock, out of a section, into    *)
(* the lock.                                                               *)
LEMMA MoveOutside ==
  ASSUME LockTyped, NEW t \in Threads, NEW l \in Labels[t] \ Sections,
         Goto(t, l), ht_lock' = ht_lock, pc[t] \notin LockLabels[t] \cup Sections
  PROVE  LockInv'
  BY Constants DEF LockTyped, TypeInv, TypeOK, ThreadsOK, LockInv, Goto, Sections,
     Mutexes

LEMMA MoveUnlocked ==
  ASSUME LockTyped, NEW t \in Threads, NEW l \in Labels[t] \ Sections,
         Goto(t, l), ht_lock.owner = t, Unlock
  PROVE  LockInv'
  <1> USE DEF LockTyped, TypeInv, TypeOK, ThreadsOK, LockInv, Goto, Sections, Mutexes
  <1>1. CASE ht_lock.waiting = {}
    <2>1. ht_lock'.owner = NoThread /\ ht_lock'.waiting = {}
      BY <1>1 DEF Unlock, MutexUnlock, FreeMutex
    <2> QED BY <2>1, Constants DEF NoThread
  <1>2. CASE ht_lock.waiting # {}
    <2>1. /\ ht_lock'.owner \in ht_lock.waiting
          /\ ht_lock'.waiting = ht_lock.waiting \ {ht_lock'.owner}
      BY <1>2 DEF Unlock, MutexUnlock
    <2> QED BY <2>1, Constants DEF NoThread
  <1> QED BY <1>1, <1>2

LEMMA MoveLocking ==
  ASSUME LockTyped, NEW t \in Threads, Lock(t)
  PROVE  LockInv'
  BY Constants DEF LockTyped, TypeInv, TypeOK, ThreadsOK, LockInv, Sections, Mutexes,
     Lock, MutexLock, NoThread

LEMMA LockStep == LockTyped /\ [Next]_vars => LockInv'
<1> SUFFICES ASSUME LockTyped, [Next]_vars PROVE LockInv'
  OBVIOUS
<1> USE DEF sharedVars, tableVars, idVars, flagVars, listVars, localVars,
        shellVars, Answer, At, Holding
<1>1. ASSUME NEW t \in Threads, Lock(t) PROVE LockInv'
  BY <1>1, MoveLocking
<1>2. ASSUME NEW t \in Threads, Transmit(t) PROVE LockInv'
  BY <1>2 DEF Transmit, LockTyped, LockInv
<1>3. ASSUME NEW s \in Sensors, NEW label \in {"reg_get", "st_get", "tap_get"},
            Receive(label, s)
     PROVE  LockInv'
  BY <1>3, MoveOutside, Constants DEF Receive, Sections
<1>4. ASSUME NEW n \in Actuators \cup {NULL},
            ActuatorRegister(n)
     PROVE  LockInv'
  BY <1>4 DEF ActuatorRegister, LockTyped, LockInv
<1>5. ASSUME NEW c \in SensorCommands, NEW n \in Sensors,
            SensorCommand(c, n)
     PROVE  LockInv'
  BY <1>5, MoveOutside, Constants DEF SensorCommand, SensorCommands, Prompt, Sections
<1>6. ASSUME NEW c \in ActuatorCommands, NEW n \in Actuators,
            ActuatorCommand(c, n)
     PROVE  LockInv'
  BY <1>6, MoveOutside, Constants DEF ActuatorCommand, Prompt, Sections
<1>7. ASSUME NEW c \in {"engage", "disengage"},
            AlarmCommand(c)
     PROVE  LockInv'
  BY <1>7, MoveOutside, Constants DEF AlarmCommand, Prompt, Sections
<1>8. ASSUME NEW s \in Sensors, Scan(s) PROVE LockInv'
  BY <1>8, Constants DEF Scan,
     LockTyped, TypeInv, TypeOK, ThreadsOK, LockInv, Goto, Sections
<1>9. CASE RegisterGet
  BY <1>9, MoveUnlocked, Constants DEF RegisterGet, Sections
<1>10. CASE RegisterSet
  BY <1>10, MoveUnlocked, Constants DEF RegisterSet, Sections
<1>11. CASE StatusGet
  BY <1>11, MoveUnlocked, Constants DEF StatusGet, Sections
<1>12. CASE StatusUpdate
  BY <1>12, MoveUnlocked, Constants DEF StatusUpdate, Sections
<1>13. CASE TapGet
  BY <1>13, MoveUnlocked, Constants DEF TapGet, Sections
<1>14. CASE TapFire
  BY <1>14, MoveOutside, Constants DEF TapFire, Sections
<1>15. CASE ClearFired
  BY <1>15, MoveOutside, Constants DEF ClearFired, Sections
<1>16. CASE ClearTimeout
  BY <1>16, MoveOutside, Constants DEF ClearTimeout, Sections
<1>17. CASE ShellGet
  BY <1>17, MoveUnlocked, Constants DEF ShellGet, Sections
<1>39. CASE ShellCompare
  BY <1>39, MoveOutside, Constants DEF ShellCompare, Sections
<1>18. CASE ShellExists
  BY <1>18, MoveOutside, Constants DEF ShellExists, Sections
<1>19. CASE Poll
  BY <1>19, MoveOutside, Constants DEF Poll, Sections
<1>20. CASE Lookup
  BY <1>20, MoveUnlocked, Constants DEF Lookup, Sections
<1>21. CASE ShellGetNode
  BY <1>21, MoveOutside, Constants DEF ShellGetNode, Sections
<1>22. CASE HtDel
  <2>1. CASE Goto("shell", "del_done") /\ ht_lock' = ht_lock
    BY <1>22, <2>1, Constants DEF HtDel,
       LockTyped, TypeInv, TypeOK, ThreadsOK, LockInv, Goto, Sections
  <2>2. CASE Goto("shell", "finish") /\ Unlock
    BY <1>22, <2>2, MoveUnlocked, Constants DEF HtDel, Sections
  <2> QED BY <1>22, <2>1, <2>2 DEF HtDel
<1>23. CASE HtDelDone
  BY <1>23, MoveUnlocked, Constants DEF HtDelDone, Sections, LockTyped, LockInv
<1>24. CASE FindNode
  BY <1>24, MoveOutside, Constants DEF FindNode, Sections
<1>25. CASE Unlink
  BY <1>25, MoveOutside, Constants DEF Unlink, Sections
<1>26. CASE Finish
  BY <1>26, MoveOutside, Constants DEF Finish, Sections
<1>27. CASE NapEnds
  BY <1>27, MoveOutside, Constants DEF NapEnds, Sections
<1>28. CASE AlarmCond
  BY <1>28, MoveOutside, Constants DEF AlarmCond, Sections
<1>29. CASE AlarmEngaged
  BY <1>29, MoveOutside, Constants DEF AlarmEngaged, Sections
<1>30. CASE Fire
  BY <1>30, MoveOutside, Constants DEF Fire, Sections
<1>31. CASE FireNext
  BY <1>31, MoveOutside, Constants DEF FireNext, Sections
<1>32. CASE Sweep
  BY <1>32, Constants DEF Sweep,
     LockTyped, TypeInv, TypeOK, ThreadsOK, LockInv, Goto, Sections
<1>33. CASE Raise
  BY <1>33, Constants DEF Raise,
     LockTyped, TypeInv, TypeOK, ThreadsOK, LockInv, Goto, Sections
<1>34. CASE SweepEnds
  BY <1>34, MoveUnlocked, Constants DEF SweepEnds, Sections, LockTyped, LockInv
<1>35. CASE Tick("alarm", "cond") \/ Tick("wdt", "open")
  BY <1>35, MoveOutside, Constants DEF Tick, Sections
<1>36. CASE DisengageButton
  BY <1>36 DEF DisengageButton, LockTyped, LockInv
<1>37. CASE TestButton
  BY <1>37 DEF TestButton, LockTyped, LockInv
<1>38. CASE UNCHANGED vars
  BY <1>38 DEF vars, LockTyped, LockInv
<1> QED BY <1>1, <1>2, <1>3, <1>4, <1>5, <1>6, <1>7, <1>8, <1>9, <1>10, <1>11,
        <1>12, <1>13, <1>14, <1>15, <1>16, <1>17, <1>18, <1>19, <1>20, <1>21,
        <1>22, <1>23, <1>24, <1>25, <1>26, <1>27, <1>28, <1>29, <1>30, <1>31,
        <1>32, <1>33, <1>34, <1>35, <1>36, <1>37, <1>38, <1>39, Constants
     DEF Next, GcoapInput, GcoapStep, Operator, ShellStep, AlarmStep, WdtStep, Timers

LEMMA LockInvariant == Spec => []LockTyped
  <1>1. Init => LockTyped
    BY InitType, InitLock DEF LockTyped
  <1>2. LockTyped /\ [Next]_vars => LockTyped'
    <2>1. TypeInv /\ [Next]_vars => TypeInv'
      BY DataStep, ThreadsStep, ListStep DEF TypeInv, TypeOK
    <2> QED BY <2>1, LockStep DEF LockTyped
  <1> QED BY <1>1, <1>2, PTL DEF Spec

-----------------------------------------------------------------------------
(* The alarm flags.                                                        *)

(* A tap about to be stored is stored with the alarm still engaged.        *)
FiredInv ==
  /\ FiredOnlyWhileEngaged
  /\ pc["gcoap"] = "tap_fire" => is_engaged

(* The shell cannot disengage the alarm before a running handler answers.  *)
LEMMA HandlerBeforeShell ==
  ASSUME LockTyped, pc["gcoap"] = "tap_fire", NEW c \in {"engage", "disengage"}
  PROVE  ~Prompt(c)
  <1>1. "gcoap" \in Ready
    BY Constants DEF LockTyped, TypeInv, TypeOK, ThreadsOK, LockInv, Ready, Idle
  <1> QED BY <1>1, Constants DEF Prompt, Wakes, Foremost

LEMMA FiredStep == LockTyped /\ "btn_register" \notin Buttons /\ FiredInv /\
  [Next]_vars => FiredInv'
<1> SUFFICES ASSUME LockTyped /\ "btn_register" \notin Buttons /\ FiredInv,
    [Next]_vars PROVE FiredInv'
  OBVIOUS
<1> USE DEF sharedVars, tableVars, idVars, flagVars, listVars, localVars,
        shellVars, Answer, At, Holding, LockTyped, TypeInv, TypeOK, ThreadsOK,
        Goto
<1>1. ASSUME NEW t \in Threads, Lock(t) PROVE FiredInv'
  BY <1>1, Constants DEF Lock, FiredInv, FiredOnlyWhileEngaged
<1>2. ASSUME NEW t \in Threads, Transmit(t) PROVE FiredInv'
  BY <1>2, Constants DEF Transmit, FiredInv, FiredOnlyWhileEngaged
<1>3. ASSUME NEW s \in Sensors, NEW label \in {"reg_get", "st_get", "tap_get"},
            Receive(label, s)
     PROVE  FiredInv'
  BY <1>3, Constants DEF Receive, FiredInv, FiredOnlyWhileEngaged
<1>4. ASSUME NEW n \in Actuators \cup {NULL},
            ActuatorRegister(n)
     PROVE  FiredInv'
  BY <1>4, Constants DEF ActuatorRegister, FiredInv, FiredOnlyWhileEngaged
<1>5. ASSUME NEW c \in SensorCommands, NEW n \in Sensors,
            SensorCommand(c, n)
     PROVE  FiredInv'
  BY <1>5, Constants DEF SensorCommand, FiredInv, FiredOnlyWhileEngaged, Prompt
<1>6. ASSUME NEW c \in ActuatorCommands, NEW n \in Actuators,
            ActuatorCommand(c, n)
     PROVE  FiredInv'
  BY <1>6, Constants DEF ActuatorCommand, FiredInv, FiredOnlyWhileEngaged,
     Prompt
<1>7. ASSUME NEW c \in {"engage", "disengage"},
            AlarmCommand(c)
     PROVE  FiredInv'
  BY <1>7, Constants, HandlerBeforeShell DEF AlarmCommand, FiredInv,
     FiredOnlyWhileEngaged, Prompt
<1>8. ASSUME NEW s \in Sensors, Scan(s) PROVE FiredInv'
  BY <1>8, Constants DEF Scan, FiredInv, FiredOnlyWhileEngaged
<1>9. CASE RegisterGet
  BY <1>9, Constants DEF RegisterGet, FiredInv, FiredOnlyWhileEngaged
<1>10. CASE RegisterSet
  BY <1>10, Constants DEF RegisterSet, FiredInv, FiredOnlyWhileEngaged
<1>11. CASE StatusGet
  BY <1>11, Constants DEF StatusGet, FiredInv, FiredOnlyWhileEngaged
<1>12. CASE StatusUpdate
  BY <1>12, Constants DEF StatusUpdate, FiredInv, FiredOnlyWhileEngaged
<1>13. CASE TapGet
  BY <1>13, Constants DEF TapGet, FiredInv, FiredOnlyWhileEngaged, Alarms
<1>14. CASE TapFire
  BY <1>14, Constants DEF TapFire, FiredInv, FiredOnlyWhileEngaged
<1>15. CASE ClearFired
  BY <1>15, Constants DEF ClearFired, FiredInv, FiredOnlyWhileEngaged
<1>16. CASE ClearTimeout
  BY <1>16, Constants DEF ClearTimeout, FiredInv, FiredOnlyWhileEngaged
<1>17. CASE ShellGet
  BY <1>17, Constants DEF ShellGet, FiredInv, FiredOnlyWhileEngaged
<1>39. CASE ShellCompare
  BY <1>39, Constants DEF ShellCompare, FiredInv, FiredOnlyWhileEngaged
<1>18. CASE ShellExists
  BY <1>18, Constants DEF ShellExists, FiredInv, FiredOnlyWhileEngaged
<1>19. CASE Poll
  BY <1>19, Constants DEF Poll, FiredInv, FiredOnlyWhileEngaged
<1>20. CASE Lookup
  BY <1>20, Constants DEF Lookup, FiredInv, FiredOnlyWhileEngaged
<1>21. CASE ShellGetNode
  BY <1>21, Constants DEF ShellGetNode, FiredInv, FiredOnlyWhileEngaged
<1>22. CASE HtDel
  BY <1>22, Constants DEF HtDel, FiredInv, FiredOnlyWhileEngaged
<1>23. CASE HtDelDone
  BY <1>23, Constants DEF HtDelDone, FiredInv, FiredOnlyWhileEngaged
<1>24. CASE FindNode
  BY <1>24, Constants DEF FindNode, FiredInv, FiredOnlyWhileEngaged
<1>25. CASE Unlink
  BY <1>25, Constants DEF Unlink, FiredInv, FiredOnlyWhileEngaged
<1>26. CASE Finish
  BY <1>26, Constants DEF Finish, FiredInv, FiredOnlyWhileEngaged
<1>27. CASE NapEnds
  BY <1>27, Constants DEF NapEnds, FiredInv, FiredOnlyWhileEngaged
<1>28. CASE AlarmCond
  BY <1>28, Constants DEF AlarmCond, FiredInv, FiredOnlyWhileEngaged
<1>29. CASE AlarmEngaged
  BY <1>29, Constants DEF AlarmEngaged, FiredInv, FiredOnlyWhileEngaged
<1>30. CASE Fire
  BY <1>30, Constants DEF Fire, FiredInv, FiredOnlyWhileEngaged
<1>31. CASE FireNext
  BY <1>31, Constants DEF FireNext, FiredInv, FiredOnlyWhileEngaged
<1>32. CASE Sweep
  BY <1>32, Constants DEF Sweep, FiredInv, FiredOnlyWhileEngaged
<1>33. CASE Raise
  BY <1>33, Constants DEF Raise, FiredInv, FiredOnlyWhileEngaged
<1>34. CASE SweepEnds
  BY <1>34, Constants DEF SweepEnds, FiredInv, FiredOnlyWhileEngaged
<1>35. CASE Tick("alarm", "cond") \/ Tick("wdt", "open")
  BY <1>35, Constants DEF Tick, FiredInv, FiredOnlyWhileEngaged
<1>36. CASE DisengageButton
  BY <1>36, Constants DEF DisengageButton, FiredInv, FiredOnlyWhileEngaged
<1>37. CASE TestButton
  BY <1>37, Constants DEF TestButton, FiredInv, FiredOnlyWhileEngaged
<1>38. CASE UNCHANGED vars
  BY <1>38, Constants DEF vars, FiredInv, FiredOnlyWhileEngaged
<1> QED BY <1>1, <1>2, <1>3, <1>4, <1>5, <1>6, <1>7, <1>8, <1>9, <1>10, <1>11,
        <1>12, <1>13, <1>14, <1>15, <1>16, <1>17, <1>18, <1>19, <1>20, <1>21,
        <1>22, <1>23, <1>24, <1>25, <1>26, <1>27, <1>28, <1>29, <1>30, <1>31,
        <1>32, <1>33, <1>34, <1>35, <1>36, <1>37, <1>38, <1>39, Constants
     DEF Next, GcoapInput, GcoapStep, Operator, ShellStep, AlarmStep, WdtStep, Timers

(* With the operator at the shell a disengaged alarm is never left fired:  *)
(* the handler of a tap outranks the shell and so cannot be overtaken      *)
(* between its test of is_engaged and its store.  That the register button *)
(* is not pressed is needed: its interrupt does come in between.           *)
THEOREM DisengagedStaysUnfired ==
  "btn_register" \notin Buttons /\ Spec => []FiredOnlyWhileEngaged
  <1> SUFFICES ASSUME "btn_register" \notin Buttons
               PROVE  Spec => []FiredOnlyWhileEngaged
    OBVIOUS
  <1>1. Init => FiredInv
    BY Constants DEF Init, FiredInv, FiredOnlyWhileEngaged, Start
  <1>2. LockTyped /\ FiredInv /\ [Next]_vars => FiredInv'
    BY FiredStep
  <1>3. FiredInv => FiredOnlyWhileEngaged
    BY DEF FiredInv
  <1> QED BY LockInvariant, <1>1, <1>2, <1>3, PTL DEF Spec

-----------------------------------------------------------------------------
(* The sweep of the table.                                                 *)

(* While the sweep runs, what it has not visited yet is still in the       *)
(* table, and the timeout about to be stored is still due.                 *)
SweepInv ==
  /\ pc["wdt"] \in {"scan", "raise"} => todo \subseteq ht_sensor
  /\ pc["wdt"] = "raise" => \E s \in ht_sensor : wdt[s] > 2

LEMMA SweepStep == LockTyped /\ SweepInv /\ [Next]_vars => SweepInv'
<1> SUFFICES ASSUME LockTyped /\ SweepInv, [Next]_vars PROVE SweepInv'
  OBVIOUS
<1> USE DEF sharedVars, tableVars, idVars, flagVars, listVars, localVars,
        shellVars, Answer, At, Holding, LockTyped, TypeInv, TypeOK, ThreadsOK,
        Goto
<1>1. ASSUME NEW t \in Threads, Lock(t) PROVE SweepInv'
  BY <1>1, Constants DEF Lock, SweepInv
<1>2. ASSUME NEW t \in Threads, Transmit(t) PROVE SweepInv'
  BY <1>2, Constants DEF Transmit, SweepInv
<1>3. ASSUME NEW s \in Sensors, NEW label \in {"reg_get", "st_get", "tap_get"},
            Receive(label, s)
     PROVE  SweepInv'
  BY <1>3, Constants DEF Receive, SweepInv
<1>4. ASSUME NEW n \in Actuators \cup {NULL},
            ActuatorRegister(n)
     PROVE  SweepInv'
  BY <1>4, Constants DEF ActuatorRegister, SweepInv
<1>5. ASSUME NEW c \in SensorCommands, NEW n \in Sensors,
            SensorCommand(c, n)
     PROVE  SweepInv'
  BY <1>5, Constants DEF SensorCommand, SweepInv
<1>6. ASSUME NEW c \in ActuatorCommands, NEW n \in Actuators,
            ActuatorCommand(c, n)
     PROVE  SweepInv'
  BY <1>6, Constants DEF ActuatorCommand, SweepInv
<1>7. ASSUME NEW c \in {"engage", "disengage"},
            AlarmCommand(c)
     PROVE  SweepInv'
  BY <1>7, Constants DEF AlarmCommand, SweepInv
<1>8. ASSUME NEW s \in Sensors, Scan(s) PROVE SweepInv'
  <2>1. CASE pc'["wdt"] = "raise"
    <3>1. s \in ht_sensor /\ TimedOut(s) /\ wdt' = [wdt EXCEPT ![s] = wdt[s]]
      BY <1>8, <2>1, Constants DEF Scan, SweepInv, Count, TimedOut
    <3>2. wdt' = wdt /\ wdt[s] > 2
      BY <3>1 DEF TableOK, TimedOut
    <3> QED BY <1>8, <3>1, <3>2, Constants DEF Scan, SweepInv
  <2>2. CASE pc'["wdt"] # "raise"
    BY <1>8, <2>2, Constants DEF Scan, SweepInv
  <2> QED BY <2>1, <2>2
<1>9. CASE RegisterGet
  BY <1>9, Constants DEF RegisterGet, SweepInv
<1>10. CASE RegisterSet
  BY <1>10, Constants DEF RegisterSet, SweepInv, LockInv
<1>11. CASE StatusGet
  BY <1>11, Constants DEF StatusGet, SweepInv
<1>12. CASE StatusUpdate
  BY <1>12, Constants DEF StatusUpdate, SweepInv, LockInv
<1>13. CASE TapGet
  BY <1>13, Constants DEF TapGet, SweepInv
<1>14. CASE TapFire
  BY <1>14, Constants DEF TapFire, SweepInv
<1>15. CASE ClearFired
  BY <1>15, Constants DEF ClearFired, SweepInv
<1>16. CASE ClearTimeout
  BY <1>16, Constants DEF ClearTimeout, SweepInv
<1>17. CASE ShellGet
  BY <1>17, Constants DEF ShellGet, SweepInv
<1>39. CASE ShellCompare
  BY <1>39, Constants DEF ShellCompare, SweepInv
<1>18. CASE ShellExists
  BY <1>18, Constants DEF ShellExists, SweepInv
<1>19. CASE Poll
  BY <1>19, Constants DEF Poll, SweepInv
<1>20. CASE Lookup
  BY <1>20, Constants DEF Lookup, SweepInv
<1>21. CASE ShellGetNode
  BY <1>21, Constants DEF ShellGetNode, SweepInv
<1>22. CASE HtDel
  BY <1>22, Constants DEF HtDel, SweepInv, LockInv
<1>23. CASE HtDelDone
  BY <1>23, Constants DEF HtDelDone, SweepInv
<1>24. CASE FindNode
  BY <1>24, Constants DEF FindNode, SweepInv
<1>25. CASE Unlink
  BY <1>25, Constants DEF Unlink, SweepInv
<1>26. CASE Finish
  BY <1>26, Constants DEF Finish, SweepInv
<1>27. CASE NapEnds
  BY <1>27, Constants DEF NapEnds, SweepInv
<1>28. CASE AlarmCond
  BY <1>28, Constants DEF AlarmCond, SweepInv
<1>29. CASE AlarmEngaged
  BY <1>29, Constants DEF AlarmEngaged, SweepInv
<1>30. CASE Fire
  BY <1>30, Constants DEF Fire, SweepInv
<1>31. CASE FireNext
  BY <1>31, Constants DEF FireNext, SweepInv
<1>32. CASE Sweep
  BY <1>32, Constants DEF Sweep, SweepInv, LockInv
<1>33. CASE Raise
  BY <1>33, Constants DEF Raise, SweepInv
<1>34. CASE SweepEnds
  BY <1>34, Constants DEF SweepEnds, SweepInv
<1>35. CASE Tick("alarm", "cond") \/ Tick("wdt", "open")
  BY <1>35, Constants DEF Tick, SweepInv
<1>36. CASE DisengageButton
  BY <1>36, Constants DEF DisengageButton, SweepInv
<1>37. CASE TestButton
  BY <1>37, Constants DEF TestButton, SweepInv
<1>38. CASE UNCHANGED vars
  BY <1>38, Constants DEF vars, SweepInv
<1> QED BY <1>1, <1>2, <1>3, <1>4, <1>5, <1>6, <1>7, <1>8, <1>9, <1>10, <1>11,
        <1>12, <1>13, <1>14, <1>15, <1>16, <1>17, <1>18, <1>19, <1>20, <1>21,
        <1>22, <1>23, <1>24, <1>25, <1>26, <1>27, <1>28, <1>29, <1>30, <1>31,
        <1>32, <1>33, <1>34, <1>35, <1>36, <1>37, <1>38, <1>39, Constants
     DEF Next, GcoapInput, GcoapStep, Operator, ShellStep, AlarmStep, WdtStep, Timers

(* A timeout is raised only on account of a sensor that is in the table at *)
(* that moment and has been silent for more than two sweeps: neither a     *)
(* status nor a deauthorization gets between the test and the store.       *)
THEOREM TimeoutsAreDue == Spec => TimeoutOnlyForSilent
  <1>1. Init => SweepInv
    BY Constants DEF Init, SweepInv, Start
  <1>2. LockTyped /\ SweepInv /\ [Next]_vars => SweepInv'
    BY SweepStep
  <1>3. LockTyped /\ SweepInv /\ [Next]_vars
          => [~is_timeout /\ is_timeout' => \E s \in ht_sensor : wdt[s] > 2]_vars
    <2> SUFFICES ASSUME LockTyped, SweepInv, Next, ~is_timeout, is_timeout'
                 PROVE  \E s \in ht_sensor : wdt[s] > 2
      OBVIOUS
    <2> USE DEF sharedVars, flagVars
    <2>1. CASE Raise
      BY <2>1 DEF Raise, At, SweepInv
    <2>2. CASE GcoapInput \/ GcoapStep
      BY <2>2 DEF GcoapInput, GcoapStep, Receive, ActuatorRegister, RegisterGet,
         RegisterSet, StatusGet, StatusUpdate, TapGet, TapFire
    <2>3. CASE Operator
      BY <2>3 DEF Operator, SensorCommand, ActuatorCommand, AlarmCommand
    <2>4. CASE ShellStep
      BY <2>4 DEF ShellStep, ClearFired, ClearTimeout, ShellGet, ShellCompare, ShellExists, Poll,
         Lookup, ShellGetNode, HtDel, HtDelDone, FindNode, Unlink, Finish
    <2>5. CASE AlarmStep \/ Timers
      BY <2>5 DEF AlarmStep, AlarmCond, AlarmEngaged, Fire, FireNext, Timers, NapEnds,
         Tick
    <2>6. CASE WdtStep /\ ~Raise
      BY <2>6 DEF WdtStep, Sweep, Scan, SweepEnds
    <2>7. CASE \/ DisengageButton \/ TestButton
               \/ \E t \in Threads : Lock(t) \/ Transmit(t)
      BY <2>7 DEF DisengageButton, TestButton, Lock, Transmit
    <2> QED BY <2>1, <2>2, <2>3, <2>4, <2>5, <2>6, <2>7 DEF Next
  <1> QED BY LockInvariant, <1>1, <1>2, <1>3, PTL DEF Spec, TimeoutOnlyForSilent

-----------------------------------------------------------------------------
(* The table as a registry.                                                *)

(* A sensor that is not in the table has no silence to count.              *)
UnknownAtZero == \A s \in Sensors \ ht_sensor : wdt[s] = 0

registryVars == <<ht_sensor, wdt, todo, Sweeping>>

LEMMA InsertIsSet ==
  ASSUME LockTyped, UnknownAtZero, RegisterSet
  PROVE  /\ UnknownAtZero' /\ pc["shell"] # "del_done"
         /\ req \in Sensors /\ Registry(NULL)!Set(req)
<1>1. req \in Sensors /\ ht_lock.owner = "gcoap" /\ pc["gcoap"] = "reg_set"
  BY Constants DEF RegisterSet, Holding, At, LockTyped, TypeInv, TypeOK, NamesOK, Followed
<1>2. pc["wdt"] \notin {"scan", "raise"} /\ pc["shell"] # "del_done"
  BY <1>1 DEF LockTyped, LockInv
<1>3. pc'["wdt"] = pc["wdt"] /\ ht_sensor' = ht_sensor \cup {req} /\ UNCHANGED todo
  BY Constants DEF RegisterSet, Answer, Goto, LockTyped, TypeInv, TypeOK, ThreadsOK
<1>4. wdt' = wdt
  BY <1>1 DEF RegisterSet, UnknownAtZero, LockTyped, TypeInv, TypeOK, TableOK
<1> QED BY <1>1, <1>2, <1>3, <1>4 DEF UnknownAtZero, Registry!Set, Sweeping

LEMMA UpdateIsHeard ==
  ASSUME LockTyped, UnknownAtZero, StatusUpdate
  PROVE  /\ UnknownAtZero' /\ pc["shell"] # "del_done"
         /\ req \in Sensors /\ Registry(NULL)!Heard(req)
<1>1. req \in Sensors /\ ht_lock.owner = "gcoap" /\ pc["gcoap"] = "st_update"
  BY Constants DEF StatusUpdate, Holding, At, LockTyped, TypeInv, TypeOK, NamesOK, Followed
<1>2. pc["wdt"] \notin {"scan", "raise"} /\ pc["shell"] # "del_done"
  BY <1>1 DEF LockTyped, LockInv
<1>3. pc'["wdt"] = pc["wdt"] /\ UNCHANGED <<ht_sensor, todo>>
  BY Constants DEF StatusUpdate, Answer, Goto, LockTyped, TypeInv, TypeOK, ThreadsOK
<1>4. wdt' = IF req \in ht_sensor THEN [wdt EXCEPT ![req] = 0] ELSE wdt
  BY DEF StatusUpdate
<1>5. UnknownAtZero'
  BY <1>3, <1>4 DEF UnknownAtZero, LockTyped, TypeInv, TypeOK, TableOK
<1> QED BY <1>1, <1>2, <1>3, <1>4, <1>5 DEF Registry!Heard, Sweeping

LEMMA DeletionIsDelete ==
  ASSUME LockTyped, UnknownAtZero, HtDel
  PROVE  /\ UnknownAtZero'
         /\ \/ UNCHANGED registryVars
            \/ /\ pc["shell"] # "del_done"
               /\ \E a \in Sensors : Registry(a)!Delete(a)
<1>1. ht_lock.owner = "shell" /\ pc["shell"] = "del"
  BY DEF HtDel, Holding, At
<1>2. pc["wdt"] \notin {"scan", "raise"}
  BY <1>1 DEF LockTyped, LockInv
<1>3. pc'["wdt"] = pc["wdt"] /\ UNCHANGED todo
  BY Constants DEF HtDel, Goto, LockTyped, TypeInv, TypeOK, ThreadsOK, localVars
<1>4. CASE key \in ht_sensor
  <2>1. ht_sensor' = ht_sensor \ {key} /\ wdt' = [wdt EXCEPT ![key] = 0] /\ key \in Sensors
    BY <1>4 DEF HtDel, LockTyped, TypeInv, TypeOK, TableOK
  <2>2. UnknownAtZero'
    BY <2>1 DEF UnknownAtZero, LockTyped, TypeInv, TypeOK, TableOK
  <2>3. PICK a \in Sensors : a = key
    BY <2>1
  <2>4. Registry(a)!Delete(a)
    BY <1>2, <1>3, <1>4, <2>1, <2>3 DEF Registry!Delete, Registry!Answer, Sweeping
  <2> QED BY <1>1, <2>2, <2>4
<1>5. CASE key \notin ht_sensor
  BY <1>3, <1>5 DEF HtDel, tableVars, UnknownAtZero, registryVars, Sweeping
<1> QED BY <1>4, <1>5

LEMMA SweepIsSweep ==
  ASSUME LockTyped, SweepInv, UnknownAtZero, WdtStep
  PROVE  /\ UnknownAtZero' /\ pc["shell"] # "del_done"
         /\ \/ UNCHANGED registryVars
            \/ Registry(NULL)!Sweep \/ Registry(NULL)!SweepEnds
            \/ \E s \in Sensors : Registry(NULL)!Visit(s)
<1>1. ht_lock.owner = "wdt" /\ pc["shell"] # "del_done"
  BY DEF WdtStep, Sweep, Scan, Raise, SweepEnds, Holding, At, LockTyped, LockInv
<1>2. ASSUME NEW l, Goto("wdt", l) PROVE pc'["wdt"] = l
  BY <1>2, Constants DEF Goto, LockTyped, TypeInv, TypeOK, ThreadsOK
<1>3. CASE Sweep
  <2>1. pc["wdt"] = "open" /\ pc'["wdt"] = "scan" /\ todo' = ht_sensor
        /\ UNCHANGED <<ht_sensor, wdt>>
    BY <1>2, <1>3 DEF Sweep, Holding, At, sharedVars, tableVars
  <2> QED BY <1>1, <2>1 DEF Registry!Sweep, Sweeping, UnknownAtZero
<1>4. ASSUME NEW s \in Sensors, Scan(s)
      PROVE  UnknownAtZero' /\ Registry(NULL)!Visit(s)
  <2>1. /\ pc["wdt"] = "scan" /\ pc'["wdt"] \in {"scan", "raise"} /\ s \in todo
        /\ todo' = todo \ {s} /\ wdt' = [wdt EXCEPT ![s] = Count(s)] /\ UNCHANGED ht_sensor
    BY <1>2, <1>4 DEF Scan, At
  <2>2. s \in ht_sensor
    BY <2>1 DEF SweepInv
  <2>3. UnknownAtZero'
    BY <2>1, <2>2 DEF UnknownAtZero, LockTyped, TypeInv, TypeOK, TableOK
  <2> QED BY <2>1, <2>3 DEF Registry!Visit, Sweeping, Count
<1>5. CASE Raise
  <2>1. pc["wdt"] = "raise" /\ pc'["wdt"] = "scan" /\ UNCHANGED <<ht_sensor, wdt, todo>>
    BY <1>2, <1>5 DEF Raise, At, tableVars, localVars
  <2> QED BY <1>1, <2>1 DEF registryVars, Sweeping, UnknownAtZero
<1>6. CASE SweepEnds
  <2>1. pc["wdt"] = "scan" /\ pc'["wdt"] = "sleep" /\ todo = {}
        /\ UNCHANGED <<ht_sensor, wdt, todo>>
    BY <1>2, <1>6 DEF SweepEnds, At, sharedVars, tableVars, localVars
  <2> QED BY <1>1, <2>1 DEF Registry!SweepEnds, Sweeping, UnknownAtZero
<1> QED BY <1>1, <1>3, <1>4, <1>5, <1>6 DEF WdtStep

(* No other step touches the table, nor begins or ends a sweep.            *)
LEMMA RestLeavesTable ==
  ASSUME LockTyped, [Next]_vars,
         ~RegisterSet, ~StatusUpdate, ~HtDel, ~WdtStep
  PROVE  UNCHANGED registryVars
<1> USE DEF sharedVars, tableVars, localVars
<1>1. ASSUME NEW t \in {"gcoap", "shell", "alarm"}, NEW l, Goto(t, l)
      PROVE  UNCHANGED Sweeping
  BY <1>1, Constants DEF Goto, Sweeping, LockTyped, TypeInv, TypeOK, ThreadsOK
<1>2. CASE GcoapInput \/ GcoapStep
  <2>1. UNCHANGED <<ht_sensor, wdt, todo>>
    BY <1>2 DEF GcoapInput, GcoapStep, Receive, ActuatorRegister, RegisterGet, StatusGet,
       TapGet, TapFire
  <2>2. (\E l : Goto("gcoap", l)) \/ UNCHANGED pc
    BY <1>2 DEF GcoapInput, GcoapStep, Receive, ActuatorRegister, RegisterGet, StatusGet,
       TapGet, TapFire, Answer
  <2> QED BY <1>1, <2>1, <2>2 DEF registryVars, Sweeping
<1>3. CASE Operator
  <2>1. UNCHANGED <<ht_sensor, wdt, todo>> /\ \E l : Goto("shell", l)
    BY <1>3 DEF Operator, SensorCommand, ActuatorCommand, AlarmCommand
  <2> QED BY <1>1, <2>1 DEF registryVars
<1>4. CASE ShellStep \/ NapEnds
  <2>1. UNCHANGED <<ht_sensor, wdt, todo>> /\ \E l : Goto("shell", l)
    BY <1>4 DEF ShellStep, ClearFired, ClearTimeout, ShellGet, ShellCompare, ShellExists,
       Poll, Lookup, ShellGetNode, HtDelDone, FindNode, Unlink, Finish, NapEnds
  <2> QED BY <1>1, <2>1 DEF registryVars
<1>5. CASE AlarmStep \/ Tick("alarm", "cond")
  <2>1. UNCHANGED <<ht_sensor, wdt, todo>> /\ \E l : Goto("alarm", l)
    BY <1>5 DEF AlarmStep, AlarmCond, AlarmEngaged, Fire, FireNext, Tick
  <2> QED BY <1>1, <2>1 DEF registryVars
<1>6. CASE Tick("wdt", "open")
  <2>1. UNCHANGED <<ht_sensor, wdt, todo>> /\ pc["wdt"] = "sleep" /\ pc'["wdt"] = "open"
    BY <1>6, Constants DEF Tick, Goto, LockTyped, TypeInv, TypeOK, ThreadsOK
  <2> QED BY <2>1 DEF registryVars, Sweeping
<1>7. CASE \/ DisengageButton \/ TestButton
           \/ \E t \in Threads : Lock(t) \/ Transmit(t)
  BY <1>7 DEF DisengageButton, TestButton, Lock, Transmit, registryVars, Sweeping
<1>8. CASE UNCHANGED vars
  BY <1>8 DEF vars, registryVars, Sweeping
<1> QED BY <1>2, <1>3, <1>4, <1>5, <1>6, <1>7, <1>8 DEF Next, Timers

LEMMA RegistryStep ==
  ASSUME LockTyped, SweepInv, UnknownAtZero, [Next]_vars
  PROVE  /\ UnknownAtZero'
         /\ \/ UNCHANGED registryVars
            \/ /\ pc["shell"] # "del_done"
               /\ \E a \in Sensors \cup {NULL} : Registry(a)!Next
<1>1. CASE RegisterSet
  BY <1>1, InsertIsSet DEF Registry!Next
<1>2. CASE StatusUpdate
  BY <1>2, UpdateIsHeard DEF Registry!Next
<1>3. CASE HtDel
  BY <1>3, DeletionIsDelete DEF Registry!Next
<1>4. CASE WdtStep
  BY <1>4, SweepIsSweep DEF Registry!Next
<1>5. CASE ~RegisterSet /\ ~StatusUpdate /\ ~HtDel /\ ~WdtStep
  BY <1>5, RestLeavesTable DEF UnknownAtZero, registryVars
<1> QED BY <1>1, <1>2, <1>3, <1>4, <1>5

(* The threads of the gateway use the table as the registry allows: what   *)
(* changes it has ht_lock, which neither ht_wdt nor ht_del gives back in   *)
(* the middle, and a sensor that is put into the table starts at zero.     *)
THEOREM TableUsedAsRegistry == Spec => KeepsToRegistry
<1>1. Init => Registry(NULL)!Init /\ UnknownAtZero /\ SweepInv
  BY Constants DEF Init, Registry!Init, UnknownAtZero, SweepInv, Sweeping, Start
<1>2. LockTyped /\ SweepInv /\ [Next]_vars => SweepInv'
  BY SweepStep
<1>3. LockTyped /\ SweepInv /\ UnknownAtZero /\ [Next]_vars =>
        /\ UnknownAtZero'
        /\ [ /\ pc["shell"] # "del_done"
             /\ \E a \in Sensors \cup {NULL} : Registry(a)!Next
           ]_<<ht_sensor, wdt, todo, Sweeping>>
  BY RegistryStep DEF registryVars
<1> QED BY LockInvariant, <1>1, <1>2, <1>3, PTL DEF Spec, KeepsToRegistry

-----------------------------------------------------------------------------
(* Registration.                                                           *)

(* The published names belong to the command that is running, and are      *)
(* withdrawn with it.                                                      *)
NamesInv ==
  /\ SENSOR_ID # NULL => cmd \in SensorCommands /\ SENSOR_ID = arg
  /\ ACTUATOR_ID # NULL => cmd \in ActuatorCommands /\ ACTUATOR_ID = arg
  /\ pc["shell"] \in {"prompt", "clear_fired", "clear_timeout"} =>
       SENSOR_ID = NULL /\ ACTUATOR_ID = NULL

LEMMA NamesStep == TypeInv /\ NamesInv /\ [Next]_vars => NamesInv'
<1> SUFFICES ASSUME TypeInv /\ NamesInv, [Next]_vars PROVE NamesInv'
  OBVIOUS
<1> USE DEF sharedVars, tableVars, idVars, flagVars, listVars, localVars,
        shellVars, Answer, At, Holding, TypeInv, TypeOK, ThreadsOK, Goto
<1>1. ASSUME NEW t \in Threads, Lock(t) PROVE NamesInv'
  BY <1>1, Constants DEF Lock, NamesInv
<1>2. ASSUME NEW t \in Threads, Transmit(t) PROVE NamesInv'
  BY <1>2, Constants DEF Transmit, NamesInv
<1>3. ASSUME NEW s \in Sensors, NEW label \in {"reg_get", "st_get", "tap_get"},
            Receive(label, s)
     PROVE  NamesInv'
  BY <1>3, Constants DEF Receive, NamesInv
<1>4. ASSUME NEW n \in Actuators \cup {NULL},
            ActuatorRegister(n)
     PROVE  NamesInv'
  BY <1>4, Constants DEF ActuatorRegister, NamesInv
<1>5. ASSUME NEW c \in SensorCommands, NEW n \in Sensors,
            SensorCommand(c, n)
     PROVE  NamesInv'
  BY <1>5, Constants DEF SensorCommand, NamesInv, Prompt
<1>6. ASSUME NEW c \in ActuatorCommands, NEW n \in Actuators,
            ActuatorCommand(c, n)
     PROVE  NamesInv'
  BY <1>6, Constants DEF ActuatorCommand, NamesInv, Prompt
<1>7. ASSUME NEW c \in {"engage", "disengage"},
            AlarmCommand(c)
     PROVE  NamesInv'
  BY <1>7, Constants DEF AlarmCommand, NamesInv, Prompt
<1>8. ASSUME NEW s \in Sensors, Scan(s) PROVE NamesInv'
  BY <1>8, Constants DEF Scan, NamesInv
<1>9. CASE RegisterGet
  BY <1>9, Constants DEF RegisterGet, NamesInv
<1>10. CASE RegisterSet
  BY <1>10, Constants DEF RegisterSet, NamesInv
<1>11. CASE StatusGet
  BY <1>11, Constants DEF StatusGet, NamesInv
<1>12. CASE StatusUpdate
  BY <1>12, Constants DEF StatusUpdate, NamesInv
<1>13. CASE TapGet
  BY <1>13, Constants DEF TapGet, NamesInv
<1>14. CASE TapFire
  BY <1>14, Constants DEF TapFire, NamesInv
<1>15. CASE ClearFired
  BY <1>15, Constants DEF ClearFired, NamesInv
<1>16. CASE ClearTimeout
  BY <1>16, Constants DEF ClearTimeout, NamesInv
<1>17. CASE ShellGet
  BY <1>17, Constants DEF ShellGet, NamesInv
<1>39. CASE ShellCompare
  BY <1>39, Constants DEF ShellCompare, NamesInv
<1>18. CASE ShellExists
  BY <1>18, Constants DEF ShellExists, NamesInv
<1>19. CASE Poll
  BY <1>19, Constants DEF Poll, NamesInv
<1>20. CASE Lookup
  BY <1>20, Constants DEF Lookup, NamesInv
<1>21. CASE ShellGetNode
  BY <1>21, Constants DEF ShellGetNode, NamesInv
<1>22. CASE HtDel
  BY <1>22, Constants DEF HtDel, NamesInv
<1>23. CASE HtDelDone
  BY <1>23, Constants DEF HtDelDone, NamesInv
<1>24. CASE FindNode
  BY <1>24, Constants DEF FindNode, NamesInv
<1>25. CASE Unlink
  BY <1>25, Constants DEF Unlink, NamesInv
<1>26. CASE Finish
  BY <1>26, Constants DEF Finish, NamesInv, SensorCommands, ActuatorCommands
<1>27. CASE NapEnds
  BY <1>27, Constants DEF NapEnds, NamesInv
<1>28. CASE AlarmCond
  BY <1>28, Constants DEF AlarmCond, NamesInv
<1>29. CASE AlarmEngaged
  BY <1>29, Constants DEF AlarmEngaged, NamesInv
<1>30. CASE Fire
  BY <1>30, Constants DEF Fire, NamesInv
<1>31. CASE FireNext
  BY <1>31, Constants DEF FireNext, NamesInv
<1>32. CASE Sweep
  BY <1>32, Constants DEF Sweep, NamesInv
<1>33. CASE Raise
  BY <1>33, Constants DEF Raise, NamesInv
<1>34. CASE SweepEnds
  BY <1>34, Constants DEF SweepEnds, NamesInv
<1>35. CASE Tick("alarm", "cond") \/ Tick("wdt", "open")
  BY <1>35, Constants DEF Tick, NamesInv
<1>36. CASE DisengageButton
  BY <1>36, Constants DEF DisengageButton, NamesInv
<1>37. CASE TestButton
  BY <1>37, Constants DEF TestButton, NamesInv
<1>38. CASE UNCHANGED vars
  BY <1>38, Constants DEF vars, NamesInv
<1> QED BY <1>1, <1>2, <1>3, <1>4, <1>5, <1>6, <1>7, <1>8, <1>9, <1>10, <1>11,
        <1>12, <1>13, <1>14, <1>15, <1>16, <1>17, <1>18, <1>19, <1>20, <1>21,
        <1>22, <1>23, <1>24, <1>25, <1>26, <1>27, <1>28, <1>29, <1>30, <1>31,
        <1>32, <1>33, <1>34, <1>35, <1>36, <1>37, <1>38, <1>39, Constants
     DEF Next, GcoapInput, GcoapStep, Operator, ShellStep, AlarmStep, WdtStep, Timers

(* is_registered is raised only by the node named in the command that is   *)
(* running: no other node can be taken for it, however the packets and the *)
(* handler's wait for the lock fall.                                       *)
THEOREM OnlyTheNamedIsAccepted == Spec => AcceptedMeansNamed
  <1> DEFINE ByTheNamed ==
        /\ pc["shell"] # "prompt"
        /\ \/ cmd \in SensorCommands /\ req = arg
           \/ cmd \in ActuatorCommands /\ head' # head /\ cells'[head'].name = arg
  <1>1. Init => NamesInv
    BY Constants DEF Init, NamesInv, Start
  <1>2. TypeInv /\ NamesInv /\ [Next]_vars => NamesInv'
    BY NamesStep
  <1>3. TypeInv /\ NamesInv /\ [Next]_vars
          => [~is_registered /\ is_registered' => ByTheNamed]_vars
    <2> SUFFICES ASSUME TypeInv, NamesInv, Next, ~is_registered, is_registered'
                 PROVE  ByTheNamed
      OBVIOUS
    <2> USE DEF sharedVars, idVars
    <2>1. CASE RegisterGet
      <3>1. SENSOR_ID = req /\ req # NULL
        BY <2>1 DEF RegisterGet, Expects, Holding, At, TypeInv, Followed
      <3> QED BY <3>1 DEF NamesInv
    <2>2. ASSUME NEW n \in Actuators \cup {NULL}, ActuatorRegister(n)
          PROVE  ByTheNamed
      <3>1. ACTUATOR_ID = n /\ n # NULL /\ n \in Actuators /\ InsertNode(n)
        BY <2>2 DEF ActuatorRegister
      <3>2. head' # head /\ cells'[head'].name = n
        <4>1. ListOK
          BY DEF TypeInv, TypeOK
        <4>2. /\ cells'[Len(cells) + 1] = [name |-> n, next |-> head]
              /\ head' = Len(cells) + 1
          BY <3>1, <4>1, AppendOK
        <4> QED BY <4>1, <4>2 DEF ListOK, Pointers
      <3> QED BY <3>1, <3>2 DEF NamesInv
    <2>3. CASE \/ \E s \in Sensors, label \in {"reg_get", "st_get", "tap_get"} :
                  Receive(label, s)
               \/ GcoapStep /\ ~RegisterGet
      BY <2>3 DEF GcoapStep, Receive, RegisterSet, StatusGet, StatusUpdate, TapGet,
         TapFire
    <2>4. CASE Operator
      BY <2>4 DEF Operator, SensorCommand, ActuatorCommand, AlarmCommand
    <2>5. CASE ShellStep
      BY <2>5 DEF ShellStep, ClearFired, ClearTimeout, ShellGet, ShellCompare, ShellExists, Poll,
         Lookup, ShellGetNode, HtDel, HtDelDone, FindNode, Unlink, Finish
    <2>6. CASE AlarmStep \/ WdtStep \/ Timers
      BY <2>6 DEF AlarmStep, AlarmCond, AlarmEngaged, Fire, FireNext, Timers, NapEnds,
         Tick, WdtStep, Sweep, Scan, Raise, SweepEnds
    <2>7. CASE \/ DisengageButton \/ TestButton
               \/ \E t \in Threads : Lock(t) \/ Transmit(t)
      BY <2>7 DEF DisengageButton, TestButton, Lock, Transmit
    <2> QED BY <2>1, <2>2, <2>3, <2>4, <2>5, <2>6, <2>7 DEF Next, GcoapInput
  <1> QED BY TypeInvariant, <1>1, <1>2, <1>3, PTL DEF Spec, AcceptedMeansNamed

-----------------------------------------------------------------------------
(* The look-up at the end of a registration.                               *)

(* The running command's sensor is in the table, or its handler has        *)
(* announced it and is on its way to put it there.                         *)
KnownOrPending ==
  \/ arg \in ht_sensor
  \/ pc["gcoap"] = "reg_set" /\ req = arg

(* The watchdog queues for ht_lock only behind a deletion, which no        *)
(* look-up follows; so the shell queues only behind a sweep that began     *)
(* before its last nap was over, and what was announced by then is pending *)
(* or done.                                                                *)
LookupInv ==
  /\ pc["shell"] = "exists" => cmd = "auth_actuator"
  /\ pc["shell"] = "compare" => ht_lock.owner # "wdt"
  /\ out["shell"] # NoMessage => pc["shell"] \in {"del_done", "finish", "unlink"}
  /\ "wdt" \in ht_lock.waiting =>
       \/ pc["shell"] = "del_done"
       \/ pc["shell"] = "finish" /\ ht_lock.owner = "gcoap"
  /\ is_registered /\ cmd = "auth_sensor"
       /\ (pc["shell"] = "nap" \/ (pc["shell"] = "poll" /\ ht_lock.owner = "wdt"))
       => KnownOrPending
  /\ pc["shell"] = "lookup" /\ (ht_lock.owner = "wdt" \/ "shell" \in ht_lock.waiting)
       => KnownOrPending
  /\ AnnouncedBeforeLookup

LEMMA UnlockTo ==
  ASSUME LockTyped, Unlock
  PROVE  \/ ht_lock.waiting = {} /\ ht_lock'.owner = NoThread /\ ht_lock'.waiting = {}
         \/ /\ ht_lock'.owner \in ht_lock.waiting
            /\ ht_lock'.waiting = ht_lock.waiting \ {ht_lock'.owner}
            /\ \A u \in ht_lock.waiting : Priority[ht_lock'.owner] <= Priority[u]
  BY DEF Unlock, MutexUnlock, FreeMutex, Foremost

LEMMA BehindGcoap ==
  ASSUME LockTyped, NEW t \in {"shell", "alarm", "wdt"}, Runs(t)
  PROVE  pc["gcoap"] = "recv" \/ "gcoap" \in ht_lock.waiting
  BY Constants DEF LockTyped, TypeInv, TypeOK, ThreadsOK, Runs, Foremost, Ready, Idle

LEMMA BehindShell ==
  ASSUME LockTyped, Runs("wdt")
  PROVE  \/ pc["shell"] \in {"prompt", "nap"} \/ "shell" \in ht_lock.waiting
         \/ out["shell"] # NoMessage
  BY Constants DEF LockTyped, TypeInv, TypeOK, ThreadsOK, Runs, Foremost, Ready, Idle

LEMMA LookupStep == LockTyped /\ NamesInv /\ LookupInv /\ [Next]_vars => LookupInv'
<1> SUFFICES ASSUME LockTyped, NamesInv, LookupInv, [Next]_vars PROVE LookupInv'
  OBVIOUS
<1> USE DEF LookupInv, KnownOrPending, AnnouncedBeforeLookup, Goto, Answer, At, Holding,
        sharedVars, tableVars, idVars, flagVars, listVars, localVars, shellVars
<1>t. /\ pc \in [Threads -> UNION {Labels[u] : u \in Threads}]
      /\ \A u \in Threads : pc[u] \in Labels[u]
      /\ out \in [Threads -> Messages \cup {NoMessage}]
      /\ ht_lock \in Mutexes(Threads)
  BY DEF LockTyped, TypeInv, TypeOK, ThreadsOK
<1>l. LockInv
  BY DEF LockTyped
<1>1. ASSUME NEW t \in Threads, Lock(t) PROVE LookupInv'
  <2>0. UNCHANGED <<pc, out, arg, req, cmd, is_registered, ht_sensor>>
    BY <1>1 DEF Lock
  <2>1. CASE t = "gcoap"
    <3>1. ht_lock'.owner = "gcoap" \/ ht_lock'.owner = ht_lock.owner
      BY <1>1, <2>1 DEF Lock, MutexLock
    <3>2. ht_lock'.waiting = ht_lock.waiting
            \/ ht_lock'.waiting = ht_lock.waiting \cup {"gcoap"}
      BY <1>1, <2>1 DEF Lock, MutexLock
    <3>3. "wdt" \in ht_lock'.waiting => ht_lock'.owner = ht_lock.owner
      BY <1>1, <1>l, <2>1, <3>2 DEF Lock, MutexLock, LockInv
    <3> QED BY <2>0, <3>1, <3>2, <3>3
  <2>2. CASE t = "shell"
    <3>1. pc["gcoap"] = "recv" \/ "gcoap" \in ht_lock.waiting
      BY <1>1, <2>2, BehindGcoap DEF Lock
    <3>2. CASE ht_lock.owner = NoThread
      BY <1>1, <1>l, <2>0, <2>2, <3>1, <3>2 DEF Lock, MutexLock, LockInv, NoThread
    <3>3. CASE ht_lock.owner # NoThread
      <4>1. ht_lock.owner = "wdt"
        <5>1. ht_lock.owner # "gcoap"
          BY <1>l, <3>1, Constants DEF LockInv, Sections
        <5>2. ht_lock.owner # "alarm"
          BY <1>t, <1>l, Constants DEF LockInv, Sections
        <5> QED BY <1>1, <1>t, <2>2, <3>3, <5>1, <5>2, Constants DEF Lock, Mutexes
      <4> QED BY <1>1, <2>0, <2>2, <3>3, <4>1, Constants DEF Lock, MutexLock
    <3> QED BY <3>2, <3>3
  <2>3. CASE t = "wdt"
    <3>1. /\ pc["gcoap"] = "recv" \/ "gcoap" \in ht_lock.waiting
          /\ \/ pc["shell"] \in {"prompt", "nap"} \/ "shell" \in ht_lock.waiting
             \/ out["shell"] # NoMessage
      BY <1>1, <2>3, BehindGcoap, BehindShell DEF Lock
    <3>2. CASE ht_lock.owner = NoThread
      BY <1>1, <1>l, <2>0, <2>3, <3>1, <3>2 DEF Lock, MutexLock, LockInv
    <3>3. CASE ht_lock.owner # NoThread
      <4>1. ht_lock.owner = "shell"
        <5>1. ht_lock.owner # "gcoap"
          BY <1>l, <3>1, Constants DEF LockInv, Sections
        <5>2. ht_lock.owner # "alarm"
          BY <1>t, <1>l, Constants DEF LockInv, Sections
        <5> QED BY <1>1, <1>t, <2>3, <3>3, <5>1, <5>2, Constants DEF Lock, Mutexes
      <4>2. pc["shell"] = "del_done"
        BY <1>l, <3>1, <4>1, Constants DEF LockInv, Sections
      <4> QED BY <1>1, <2>0, <2>3, <3>3, <4>1, <4>2 DEF Lock, MutexLock
    <3> QED BY <3>2, <3>3
  <2>4. t # "alarm"
    BY <1>1, Constants DEF Lock
  <2> QED BY <2>1, <2>2, <2>3, <2>4, Constants
<1>2. ASSUME NEW t \in Threads, Transmit(t) PROVE LookupInv'
  BY <1>2, <1>t, Constants DEF Transmit
<1>3. ASSUME NEW s \in Sensors, NEW label \in {"reg_get", "st_get", "tap_get"},
            Receive(label, s)
     PROVE  LookupInv'
  BY <1>3, <1>t, Constants DEF Receive
<1>4. ASSUME NEW n \in Actuators \cup {NULL}, ActuatorRegister(n) PROVE LookupInv'
  BY <1>4 DEF ActuatorRegister, NamesInv, ActuatorCommands
<1>5. ASSUME NEW c \in SensorCommands, NEW n \in Sensors, SensorCommand(c, n)
     PROVE  LookupInv'
  BY <1>5, <1>t, Constants DEF SensorCommand, Prompt
<1>6. ASSUME NEW c \in ActuatorCommands, NEW n \in Actuators, ActuatorCommand(c, n)
     PROVE  LookupInv'
  BY <1>6, <1>t, Constants DEF ActuatorCommand, Prompt
<1>7. ASSUME NEW c \in {"engage", "disengage"}, AlarmCommand(c) PROVE LookupInv'
  BY <1>7, <1>t, Constants DEF AlarmCommand, Prompt
<1>8. CASE RegisterGet
  <2>1. CASE pc'["gcoap"] = "recv"
    BY <1>8, <1>t, <1>l, <2>1, UnlockTo, Constants DEF RegisterGet, LockInv, NoThread, Mutexes
  <2>2. CASE pc'["gcoap"] # "recv"
    <3>1. SENSOR_ID = req /\ req # NULL /\ req \notin ht_sensor /\ pc'["gcoap"] = "reg_set"
      BY <1>8, <1>t, <2>2, Constants
         DEF RegisterGet, Expects, LockTyped, TypeInv, Followed
    <3>2. req = arg
      BY <3>1 DEF NamesInv
    <3>3. ~(pc["shell"] = "lookup" /\ "shell" \in ht_lock.waiting)
      BY <1>8, <3>1, <3>2 DEF RegisterGet
    <3> QED BY <1>8, <1>t, <1>l, <3>1, <3>2, <3>3, UnlockTo, Constants
            DEF RegisterGet, LockInv, NoThread, Mutexes
  <2> QED BY <2>1, <2>2
<1>9. CASE RegisterSet
  <2>1. ht_sensor' = ht_sensor \cup {req} /\ pc'["gcoap"] = "recv"
    BY <1>9, <1>t, Constants DEF RegisterSet
  <2> QED BY <1>9, <1>t, <1>l, <2>1, UnlockTo, Constants
          DEF RegisterSet, LockInv, NoThread, Mutexes
<1>10. CASE StatusGet \/ StatusUpdate \/ TapGet
  <2>1. /\ ht_lock.owner = "gcoap" /\ Unlock
        /\ pc'["gcoap"] # "reg_set" /\ pc["gcoap"] # "reg_set"
        /\ pc'["shell"] = pc["shell"]
        /\ UNCHANGED <<out, arg, cmd, is_registered, ht_sensor>>
    BY <1>10, <1>t, Constants DEF StatusGet, StatusUpdate, TapGet
  <2> QED BY <1>t, <1>l, <2>1, UnlockTo, Constants DEF LockInv, NoThread, Mutexes
<1>11. CASE TapFire
  BY <1>11, <1>t, Constants DEF TapFire
<1>12. CASE ClearFired \/ ClearTimeout \/ ShellCompare \/ ShellExists
  <2>1. /\ pc'["shell"] \in {"prompt", "clear_timeout", "finish", "poll"}
        /\ pc["shell"] \in {"clear_fired", "clear_timeout", "compare", "exists"}
        /\ pc'["shell"] = "poll" => pc["shell"] \in {"compare", "exists"}
        /\ pc'["gcoap"] = pc["gcoap"]
        /\ UNCHANGED <<out, ht_lock, arg, req, cmd, is_registered, ht_sensor>>
    BY <1>12, <1>t, Constants DEF ClearFired, ClearTimeout, ShellCompare, ShellExists
  <2> QED BY <2>1
<1>13. CASE ShellGet
  BY <1>13, <1>t, <1>l, UnlockTo, Constants DEF ShellGet, LockInv, NoThread
<1>14. CASE Poll
  <2>1. pc["gcoap"] = "recv" \/ "gcoap" \in ht_lock.waiting
    BY <1>14, BehindGcoap DEF Poll
  <2>2. "shell" \notin ht_lock.waiting /\ ht_lock.owner # "shell"
    BY <1>14, <1>l, Constants DEF Poll, LockInv, Sections
  <2>3. cmd = "auth_sensor" \/ pc'["shell"] # "lookup"
    BY <1>14, <1>t, Constants DEF Poll
  <2> QED BY <1>14, <1>t, <2>1, <2>2, <2>3, Constants DEF Poll
<1>15. CASE NapEnds
  BY <1>15, <1>t, Constants DEF NapEnds
<1>16. CASE Lookup
  BY <1>16, <1>t, <1>l, UnlockTo, Constants DEF Lookup, Put, LockInv, NoThread
<1>17. CASE ShellGetNode
  BY <1>17, <1>t, Constants DEF ShellGetNode, Put
<1>18. CASE HtDel
  BY <1>18, <1>t, <1>l, UnlockTo, Constants DEF HtDel, Put, LockInv, NoThread
<1>19. CASE HtDelDone
  <2>1. pc["gcoap"] = "recv" \/ "gcoap" \in ht_lock.waiting
    BY <1>19, BehindGcoap DEF HtDelDone
  <2> QED BY <1>19, <1>t, <1>l, <2>1, UnlockTo, Constants
          DEF HtDelDone, LockInv, NoThread, Mutexes
<1>20. CASE FindNode
  BY <1>20, <1>t, Constants DEF FindNode, Put
<1>21. CASE Unlink
  BY <1>21, <1>t, Constants DEF Unlink
<1>22. CASE Finish
  <2>1. pc["gcoap"] = "recv" \/ "gcoap" \in ht_lock.waiting
    BY <1>22, BehindGcoap DEF Finish
  <2>2. ht_lock.owner # "gcoap"
    BY <1>l, <2>1, Constants DEF LockInv, Sections
  <2>3. out["shell"] = NoMessage
    BY <1>22 DEF Finish, Runs, Foremost, Ready
  <2>4. pc'["shell"] = "prompt" /\ pc["shell"] = "finish" /\ UNCHANGED <<out, ht_lock>>
    BY <1>22, <1>t, Constants DEF Finish
  <2> QED BY <2>2, <2>3, <2>4
<1>23. CASE AlarmCond \/ AlarmEngaged \/ FireNext
  BY <1>23, <1>t, Constants DEF AlarmCond, AlarmEngaged, FireNext
<1>24. CASE Fire
  BY <1>24, <1>t, Constants DEF Fire, Put
<1>25. CASE Sweep \/ Raise \/ \E s \in Sensors : Scan(s)
  BY <1>25, <1>t, Constants DEF Sweep, Raise, Scan
<1>26. CASE SweepEnds
  <2>1. pc["gcoap"] = "recv" \/ "gcoap" \in ht_lock.waiting
    BY <1>26, BehindGcoap DEF SweepEnds
  <2> QED BY <1>26, <1>t, <1>l, <2>1, UnlockTo, Constants
          DEF SweepEnds, LockInv, NoThread, Mutexes
<1>27. CASE Tick("alarm", "cond") \/ Tick("wdt", "open")
  BY <1>27, <1>t, Constants DEF Tick
<1>28. CASE DisengageButton \/ TestButton \/ UNCHANGED vars
  BY <1>28 DEF DisengageButton, TestButton, vars
<1> QED BY <1>1, <1>2, <1>3, <1>4, <1>5, <1>6, <1>7, <1>8, <1>9, <1>10, <1>11,
        <1>12, <1>13, <1>14, <1>15, <1>16, <1>17, <1>18, <1>19, <1>20, <1>21,
        <1>22, <1>23, <1>24, <1>25, <1>26, <1>27, <1>28
     DEF Next, GcoapInput, GcoapStep, Operator, ShellStep, AlarmStep, WdtStep, Timers

(* The handler that announced a sensor has put it into the table before    *)
(* the shell, which acts on the announcement, looks it up.                 *)
THEOREM InsertedBeforeLookup == Spec => []AnnouncedBeforeLookup
  <1>1. Init => NamesInv /\ LookupInv
    BY Constants DEF Init, NamesInv, LookupInv, AnnouncedBeforeLookup, Start, FreeMutex,
       NoThread
  <1>2. LockTyped /\ NamesInv /\ LookupInv /\ [Next]_vars => (NamesInv /\ LookupInv)'
    BY NamesStep, LookupStep DEF LockTyped
  <1>3. LookupInv => AnnouncedBeforeLookup
    BY DEF LookupInv
  <1> QED BY LockInvariant, <1>1, <1>2, <1>3, PTL DEF Spec

-----------------------------------------------------------------------------
(* The list of actuators.                                                  *)

(* A cell leads to an older one, no two cells of the list have one name,   *)
(* and the two walks that sends interrupt are where they should be.        *)
ListInv ==
  /\ \A b \in DOMAIN cells : cells[b].next < b
  /\ \A b, c \in Reach(cells, head) : cells[b].name = cells[c].name => b = c
  /\ UnlinkIsExact
  /\ NoLiveActuatorSkipped

LEMMA ListPointed == ASSUME ListOK
  PROVE  /\ Pointed(cells) /\ DOMAIN cells = 1..Len(cells) /\ Len(cells) \in Nat
         /\ {head, cur, prev, ptr} \subseteq DOMAIN cells \cup {NIL}
         /\ \A b \in DOMAIN cells : cells[b].name \in Actuators /\ cells[b].next \in Nat
  <1>1. DOMAIN cells = 1..Len(cells) /\ Len(cells) \in Nat
    BY DEF ListOK
  <1>2. \A b \in DOMAIN cells : cells[b] \in Cells(Actuators)
    BY DEF ListOK
  <1> QED BY <1>1, <1>2 DEF ListOK, Pointers, Pointed, NIL, Cells

(* A walk meets newer cells first, and so never one twice.                 *)
LEMMA Descends ==
  ASSUME ListOK, \A b \in DOMAIN cells : cells[b].next < b, NEW a \in DOMAIN cells
  PROVE  /\ \A b \in Reach(cells, a) : b <= a
         /\ Reach(cells, cells[a].next) = Reach(cells, a) \ {a}
  <1> USE ListPointed
  <1>1. ASSUME NEW d \in DOMAIN cells \cup {NIL}, NEW b \in Reach(cells, d) PROVE b <= d
    <2> DEFINE S == {e \in DOMAIN cells : e <= d}
    <2>1. d \in S \cup {NIL}
      OBVIOUS
    <2>2. Closed(cells, S)
      BY DEF Closed, Pointed, NIL
    <2> QED BY <2>1, <2>2, ReachSmallest
  <1>2. a \notin Reach(cells, cells[a].next)
    BY <1>1 DEF Pointed, NIL
  <1>3. Reach(cells, a) = {a} \cup Reach(cells, cells[a].next)
    BY ReachNext
  <1> QED BY <1>1, <1>2, <1>3

LEMMA ListAcyclic ==
  ASSUME ListOK, \A b \in DOMAIN cells : cells[b].next < b, NEW a
  PROVE  Acyclic(cells, a)
  BY Descends, ReachIsCells DEF Acyclic

(* Who writes the list or the pointers into it.                            *)
LEMMA ListWriters == TypeInv /\ [Next]_vars =>
  \/ \E n \in Actuators \cup {NULL} : ActuatorRegister(n)
  \/ Unlink \/ FindNode \/ AlarmEngaged \/ FireNext
  \/ /\ UNCHANGED <<head, cells, cur, prev, ptr>>
     /\ pc'["shell"] = "unlink" => pc["shell"] = "unlink" /\ arg' = arg
     /\ pc'["alarm"] \in {"fire", "next"} => pc["alarm"] \in {"fire", "next"}
<1> SUFFICES ASSUME TypeInv, Next,
                    ~\E n \in Actuators \cup {NULL} : ActuatorRegister(n),
                    ~Unlink, ~FindNode, ~AlarmEngaged, ~FireNext
             PROVE  /\ UNCHANGED <<head, cells, cur, prev, ptr>>
                    /\ pc'["shell"] = "unlink" => pc["shell"] = "unlink" /\ arg' = arg
                    /\ pc'["alarm"] \in {"fire", "next"} => pc["alarm"] \in {"fire", "next"}
  BY DEF vars, sharedVars, listVars, localVars, shellVars
<1> USE DEF TypeInv, TypeOK, ThreadsOK, sharedVars, tableVars, idVars, flagVars, listVars,
        localVars, shellVars, Answer, At, Holding, Goto
<1>1. CASE \E t \in Threads : Lock(t) \/ Transmit(t)
  BY <1>1 DEF Lock, Transmit
<1>2. CASE GcoapInput \/ GcoapStep
  BY <1>2, Constants DEF GcoapInput, GcoapStep, Receive, RegisterGet, RegisterSet,
     StatusGet, StatusUpdate, TapGet, TapFire
<1>3. CASE Operator
  BY <1>3, Constants DEF Operator, SensorCommand, ActuatorCommand, AlarmCommand, Prompt
<1>4. CASE ShellStep
  BY <1>4, Constants DEF ShellStep, ClearFired, ClearTimeout, ShellGet, ShellCompare,
     ShellExists, Poll, Lookup, ShellGetNode, HtDel, HtDelDone, Finish
<1>5. CASE AlarmStep \/ Timers
  BY <1>5, Constants DEF AlarmStep, AlarmCond, Fire, Timers, NapEnds, Tick
<1>6. CASE WdtStep
  BY <1>6, Constants DEF WdtStep, Sweep, Scan, Raise, SweepEnds
<1>7. CASE DisengageButton \/ TestButton
  BY <1>7 DEF DisengageButton, TestButton
<1> QED BY <1>1, <1>2, <1>3, <1>4, <1>5, <1>6, <1>7 DEF Next

LEMMA RegisterKeepsList ==
  ASSUME TypeInv, NamesInv, ListInv,
         NEW n \in Actuators \cup {NULL}, ActuatorRegister(n)
  PROVE  ListInv'
<1>t. ListOK /\ TypeInv
  BY DEF TypeInv, TypeOK
<1> USE ListPointed DEF ListInv
<1>1. UNCHANGED <<pc, cur, prev, ptr, arg>>
  BY DEF ActuatorRegister, localVars, shellVars
<1>2. CASE UNCHANGED listVars
  BY <1>1, <1>2 DEF listVars, UnlinkIsExact, NoLiveActuatorSkipped
<1>3. CASE n \in Actuators /\ Awaited /\ ACTUATOR_ID = n /\ InsertNode(n)
  <2> DEFINE new == Len(cells) + 1
  <2>1. /\ cells' \in Seq(Cells(Actuators)) /\ Len(cells') = new
        /\ \A b \in DOMAIN cells : cells'[b] = cells[b]
        /\ cells'[new] = [name |-> n, next |-> head]
        /\ head' = new
    BY <1>3, <1>t, AppendOK
  <2>2. /\ DOMAIN cells' = DOMAIN cells \cup {new} /\ new \notin DOMAIN cells
        /\ NIL \notin DOMAIN cells'
    BY <1>t, <2>1 DEF NIL
  <2>3. Pointed(cells')
    BY <1>t, <2>1, <2>2 DEF Pointed
  <2>4. \A a \in DOMAIN cells \cup {NIL} : Reach(cells', a) = Reach(cells, a)
    BY <1>t, <2>1, <2>2, ReachSame, ReachIsCells
  <2>5. Reach(cells', head') = Reach(cells, head) \cup {new}
    BY <1>t, <2>1, <2>2, <2>3, <2>4, ReachNext
  <2>6. \A b \in Reach(cells, head) : b \in DOMAIN cells /\ cells[b].name # n
    BY <1>3, ReachIsCells DEF Awaited, NodeExists, Named
  <2>7. \A b \in DOMAIN cells' : cells'[b].next < b
    BY <1>t, <2>1, <2>2 DEF NIL
  <2>8. \A b, c \in Reach(cells', head') : cells'[b].name = cells'[c].name => b = c
    BY <2>1, <2>5, <2>6
  <2>9. pc["shell"] # "unlink"
    <3> SUFFICES ASSUME pc["shell"] = "unlink" PROVE FALSE
      OBVIOUS
    <3>1. cur # NIL /\ cells[cur].name = arg
      BY <1>t DEF TypeInv, Followed, UnlinkIsExact
    <3>2. cur \in Reach(cells, head)
      <4>1. CASE prev = NIL
        BY <1>t, <3>1, <4>1, ReachStart DEF UnlinkIsExact, Pointed
      <4>2. CASE prev # NIL
        BY <1>t, <3>1, <4>2, ReachClosed DEF UnlinkIsExact, Closed
      <4> QED BY <4>1, <4>2
    <3>3. arg = n
      BY <1>3, GatewayAssumption DEF NamesInv
    <3> QED BY <2>6, <3>1, <3>2, <3>3
  <2>10. NoLiveActuatorSkipped'
    <3> SUFFICES ASSUME pc["alarm"] \in {"fire", "next"},
                        NEW c \in Reach(cells', head'), c <= ptr
                 PROVE  c \in Reach(cells', ptr)
      BY <1>1 DEF NoLiveActuatorSkipped
    <3>1. c # new
      BY <1>t DEF NIL
    <3> QED BY <1>t, <2>4, <2>5, <3>1 DEF NoLiveActuatorSkipped
  <2> QED BY <1>1, <2>7, <2>8, <2>9, <2>10 DEF UnlinkIsExact
<1> QED BY <1>2, <1>3 DEF ActuatorRegister

LEMMA UnlinkKeepsList ==
  ASSUME TypeInv, ListInv, Unlink PROVE ListInv'
<1>t. ListOK /\ TypeInv
  BY DEF TypeInv, TypeOK
<1> USE ListPointed DEF ListInv
<1>1. /\ pc["shell"] = "unlink" /\ pc' = [pc EXCEPT !["shell"] = "finish"]
      /\ ptr' = ptr /\ cur' = NIL /\ prev' = NIL
  BY DEF Unlink, At, Goto
<1>2. pc'["shell"] # "unlink" /\ pc'["alarm"] = pc["alarm"]
  BY <1>1, <1>t, Constants DEF TypeInv, TypeOK, ThreadsOK
<1>3. cur # NIL /\ head # NIL
  BY <1>1 DEF TypeInv, Followed
<1>4. CASE prev = NIL
  <2>1. cells' = cells /\ head' = cells[head].next
    BY <1>4 DEF Unlink
  <2>2. Reach(cells, head') \subseteq Reach(cells, head)
    BY <1>t, <1>3, <2>1, Descends
  <2> QED BY <1>1, <1>2, <2>1, <2>2 DEF UnlinkIsExact, NoLiveActuatorSkipped
<1>5. CASE prev # NIL
  <2>1. cells' = Bypass(prev, cur) /\ head' = head /\ cells[prev].next = cur
        /\ prev \in Reach(cells, head)
    BY <1>1, <1>5 DEF Unlink, UnlinkIsExact
  <2>2. /\ cells' \in Seq(Cells(Actuators)) /\ Len(cells') = Len(cells)
        /\ \A b \in DOMAIN cells : cells'[b].name = cells[b].name
        /\ \A b \in DOMAIN cells :
             cells'[b].next = IF b = prev THEN cells[cur].next ELSE cells[b].next
    <3>1. prev \in DOMAIN cells /\ cur \in DOMAIN cells
      BY <1>t, <1>3, <1>5
    <3> QED BY ONLY <1>t, <2>1, <3>1, BypassOK
  <2>3. DOMAIN cells' = DOMAIN cells
    BY <1>t, <2>2
  <2>4. Bypassed(cells, cells', prev, cur)
    BY <1>t, <1>3, <1>5, <2>1, <2>2, <2>3 DEF Bypassed
  <2>5. Reach(cells', head) = Reach(cells, head) \ {cur}
    BY <1>t, <1>3, <2>1, <2>4, ReachUnlinked, ListAcyclic
  <2>6. Reach(cells, ptr) \ {cur} \subseteq Reach(cells', ptr)
    BY <1>t, <2>4, ReachBypassed
  <2>7. \A b \in DOMAIN cells' : cells'[b].next < b
    BY <1>t, <1>3, <1>5, <2>1, <2>2, <2>3
  <2>8. \A b, c \in Reach(cells', head') : cells'[b].name = cells'[c].name => b = c
    BY <2>1, <2>2, <2>5, ReachIsCells
  <2>9. NoLiveActuatorSkipped'
    BY <1>1, <1>2, <2>1, <2>5, <2>6 DEF NoLiveActuatorSkipped
  <2> QED BY <1>2, <2>7, <2>8, <2>9 DEF UnlinkIsExact
<1> QED BY <1>4, <1>5

LEMMA FindKeepsList ==
  ASSUME TypeInv, NamesInv, ListInv, FindNode PROVE ListInv'
<1>t. ListOK /\ TypeInv
  BY DEF TypeInv, TypeOK
<1> USE ListPointed DEF ListInv
<1>1. UNCHANGED <<head, cells, ptr, arg>> /\ pc'["alarm"] = pc["alarm"]
  BY <1>t, Constants DEF FindNode, Goto, TypeInv, TypeOK, ThreadsOK, sharedVars, listVars
<1>2. ASSUME pc'["shell"] = "unlink"
      PROVE  /\ cells[cur'].name = arg
             /\ IF prev' = NIL THEN head = cur'
                ELSE prev' \in Reach(cells, head) /\ cells[prev'].next = cur'
  <2>1. cur' \in FirstNamed(cells, head, ACTUATOR_ID) /\ prev' \in Previous(cells, head, cur')
    BY <1>2, <1>t, Constants DEF FindNode, Goto, TypeInv, TypeOK, ThreadsOK
  <2>2. cur' \in Reach(cells, head) /\ cells[cur'].name = ACTUATOR_ID
    BY <2>1 DEF FirstNamed, Named
  <2>3. ACTUATOR_ID \in Actuators /\ cur' \in DOMAIN cells
    BY <1>t, <2>2, ReachIsCells
  <2>4. arg = ACTUATOR_ID
    BY <2>3, GatewayAssumption DEF NamesInv
  <2>5. prev' = NIL => cur' = head
    BY <1>t, <2>1, ReachIsCells DEF Previous, Pointed
  <2> QED BY <1>t, <2>1, <2>2, <2>4, <2>5 DEF Previous
<1> QED BY <1>1, <1>2 DEF UnlinkIsExact, NoLiveActuatorSkipped

LEMMA WalkKeepsList ==
  ASSUME TypeInv, ListInv, AlarmEngaged \/ FireNext PROVE ListInv'
<1>t. ListOK /\ TypeInv
  BY DEF TypeInv, TypeOK
<1> USE ListPointed DEF ListInv
<1>1. UNCHANGED <<head, cells, cur, prev, arg>> /\ pc'["shell"] = pc["shell"]
  BY <1>t, Constants DEF AlarmEngaged, FireNext, Goto, TypeInv, TypeOK, ThreadsOK,
     sharedVars, listVars, shellVars
<1>2. CASE AlarmEngaged
  <2>1. pc'["alarm"] \in {"fire", "next"} => ptr' = head
    BY <1>2, <1>t, Constants DEF AlarmEngaged, Goto, TypeInv, TypeOK, ThreadsOK
  <2> QED BY <1>1, <2>1 DEF UnlinkIsExact, NoLiveActuatorSkipped
<1>3. CASE FireNext
  <2>1. pc["alarm"] = "next" /\ ptr # NIL /\ ptr' = cells[ptr].next
    BY <1>3, <1>t DEF FireNext, At, TypeInv, Followed
  <2>2. \A c \in Reach(cells, head) : c <= ptr => c \in Reach(cells, ptr)
    BY <2>1 DEF NoLiveActuatorSkipped
  <2>3. \A c \in Reach(cells, head) : c <= ptr' => c \in Reach(cells, ptr')
    <3> SUFFICES ASSUME NEW c \in Reach(cells, head), c <= ptr' PROVE c \in Reach(cells, ptr')
      OBVIOUS
    <3>1. c \in DOMAIN cells /\ ptr' < ptr /\ ptr \in DOMAIN cells
      BY <1>t, <2>1, ReachIsCells
    <3>2. c <= ptr /\ c # ptr
      BY <1>t, <2>1, <3>1
    <3> QED BY <1>t, <2>1, <2>2, <3>1, <3>2, Descends
  <2> QED BY <1>1, <2>3 DEF UnlinkIsExact, NoLiveActuatorSkipped
<1> QED BY <1>2, <1>3

LEMMA ListInvariant == Spec => [](TypeInv /\ ListInv)
  <1>1. Init => NamesInv /\ ListInv
    <2>1. ASSUME Init PROVE ListInv
      <3>1. DOMAIN cells = {} /\ \A a : Reach(cells, a) = {}
        BY <2>1, ReachIsCells DEF Init
      <3> QED BY <2>1, <3>1, Constants
              DEF Init, Start, ListInv, UnlinkIsExact, NoLiveActuatorSkipped
    <2> QED BY <2>1, Constants DEF Init, NamesInv, Start
  <1>2. TypeInv /\ NamesInv /\ ListInv /\ [Next]_vars => ListInv'
    <2> SUFFICES ASSUME TypeInv, NamesInv, ListInv, [Next]_vars PROVE ListInv'
      OBVIOUS
    <2>1. CASE /\ UNCHANGED <<head, cells, cur, prev, ptr>>
               /\ pc'["shell"] = "unlink" => pc["shell"] = "unlink" /\ arg' = arg
               /\ pc'["alarm"] \in {"fire", "next"} => pc["alarm"] \in {"fire", "next"}
      BY <2>1 DEF ListInv, UnlinkIsExact, NoLiveActuatorSkipped
    <2> QED BY <2>1, ListWriters, RegisterKeepsList, UnlinkKeepsList, FindKeepsList,
            WalkKeepsList
  <1>3. TypeInv /\ NamesInv /\ [Next]_vars => NamesInv'
    BY NamesStep
  <1> QED BY TypeInvariant, <1>1, <1>2, <1>3, PTL DEF Spec

(* An actuator is never on the list twice, however often it is named and   *)
(* announces itself.                                                       *)
THEOREM NoActuatorTwice == Spec => []ListedOnce
  <1>1. TypeInv /\ ListInv => ListedOnce
    <2> SUFFICES ASSUME ListInv, NEW a \in Actuators PROVE Cardinality(Listed(a)) <= 1
      BY DEF ListedOnce
    <2>1. \A b, c \in Listed(a) : b = c
      BY DEF ListInv, Listed, Named
    <2>2. CASE Listed(a) = {}
      BY <2>2, FS_EmptySet
    <2>3. CASE Listed(a) # {}
      <3>1. PICK b \in Listed(a) : TRUE
        BY <2>3
      <3>2. Listed(a) = {b}
        BY <2>1, <3>1
      <3>3. Cardinality({b}) = 1
        BY FS_Singleton
      <3> QED BY <3>2, <3>3
    <2> QED BY <2>2, <2>3
  <1> QED BY ListInvariant, <1>1, PTL

(* What delete_node found before its send is what it unlinks after it: the *)
(* handler of a registration, which can come in between, adds nothing      *)
(* while the name it would add is on the list.                             *)
THEOREM DeletesWhatItFound == Spec => []UnlinkIsExact
  <1>1. TypeInv /\ ListInv => UnlinkIsExact
    BY DEF ListInv
  <1> QED BY ListInvariant, <1>1, PTL

(* The alarm's walk is never led past an actuator that is still on the     *)
(* list, though the cell it stands on may be unlinked under it.            *)
THEOREM WalkReachesTheRest == Spec => []NoLiveActuatorSkipped
  <1>1. TypeInv /\ ListInv => NoLiveActuatorSkipped
    BY DEF ListInv
  <1> QED BY ListInvariant, <1>1, PTL
=============================================================================
