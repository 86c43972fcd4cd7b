----------------------------- MODULE EventLog -----------------------------
(***************************************************************************)
(* The event log of the gateway, and every place where one of its threads  *)
(* waits for another.  A thread that reports an event sends a message to   *)
(* log_thread and waits if the queue is full; log_thread writes the line   *)
(* under log_lock, which show_log keeps while it prints; handlers,         *)
(* commands and the watchdog share ht_lock, which ht_del keeps while it    *)
(* sends; and a send waits for the network.                                *)
(*                                                                         *)
(* What a handler or a command does is here only the sequence of calls in  *)
(* which it may wait or be waited for: what it computes in between is      *)
(* Gateway's.  A line is its sender and how many lines of this sender have *)
(* to be written before it.                                                *)
(***************************************************************************)
EXTENDS RiotKernel, Sequences

CONSTANTS
  QueueSize,   (* LOG_QUEUE_SIZE: 2                                        *)
  Polls        (* naps of register_node before it gives up: 51             *)

ASSUME LogAssumption == QueueSize \in Nat \ {0} /\ Polls \in Nat

Threads == {"gcoap", "log", "shell", "wdt"}

(* gcoap and log_thread have one priority: each runs when the other waits, *)
(* which here may be between any two calls.                                *)
Priority == [gcoap |-> 6, log |-> 6, shell |-> 7, wdt |-> 9]

Buttons == "isr"
Senders == {"gcoap", "shell", Buttons}

NoLine == <<Buttons, QueueSize + 2>>
Lines == Senders \X (0..(QueueSize + 1))

-----------------------------------------------------------------------------
(* The calls of each handler, command and round, in their order.           *)

(* ht_get, ht_set, ht_update_time, ht_get_node, ht_wdt.                    *)
Section == <<"lock", "unlock">>

(* A registration that is refused, or a packet of an unknown sensor; a     *)
(* registration that is accepted, or a status; a tap.                      *)
Handlers == {Section, Section \o Section, Section \o <<"log">>}

(* register_node, answered after n naps.  That its loop comes to an end is *)
(* built in here; TypeOK of Gateway bounds its count.                      *)
Naps(n) == [i \in 1..n |-> "nap"]

AuthSensor(n) == Section \o Naps(n) \o <<"log">> \o Section \o <<"send">>
AuthActuator(n) == Naps(n) \o <<"log", "send">>

(* Variant: a return from ht_del that forgets the lock.                    *)
DeauthKeepsLock == <<"lock", "send", "log">>

DeauthSensor == <<"lock", "send", "unlock", "log">>
DeauthActuator == <<"send", "log">>

(* Variant: a return that forgets the lock.                                *)
ShowsAndKeeps == <<"log_lock", "print">>

ShowLog == <<"log_lock", "print", "log_unlock">>

Commands ==
  {Section, Section \o Naps(Polls), Naps(Polls)}
    \cup {AuthSensor(n) : n \in 0..Polls} \cup {AuthActuator(n) : n \in 0..Polls}
    \cup {DeauthSensor, DeauthActuator, <<"log">>, ShowLog}

(* Variant: log_thread without its lock.                                   *)
WritesAtOnce == <<"append", "receive">>

Write == <<"log_lock", "append", "log_unlock", "receive">>

Scripts == [gcoap |-> Handlers, log |-> {Write}, shell |-> Commands, wdt |-> {Section}]

-----------------------------------------------------------------------------
VARIABLES
  todo,      (* the calls a thread still has to begin: none while it waits *)
             (* for a packet, a line, a command or its timer               *)
  ht_lock,
  log_lock,
  resting,   (* the threads whose nap or send is not over                  *)
  queue,     (* log_rcv_queue                                              *)
  blocked,   (* the line with which a thread waits in msg_send             *)
  hand,      (* the line log_thread has received and not yet written       *)
  owed       (* history: how many lines of each sender are not written     *)

vars == <<todo, ht_lock, log_lock, resting, queue, blocked, hand, owed>>

locks == <<ht_lock, log_lock>>
lines == <<queue, blocked, hand, owed>>

Init ==
  /\ todo = [t \in Threads |-> <<>>]
  /\ ht_lock = FreeMutex /\ log_lock = FreeMutex
  /\ resting = {}
  /\ queue = <<>> /\ blocked = [t \in Threads |-> NoLine] /\ hand = NoLine
  /\ owed = [s \in Senders |-> 0]

-----------------------------------------------------------------------------
(* Scheduling.                                                             *)

Waiting(t) ==
  \/ t \in resting \cup ht_lock.waiting \cup log_lock.waiting
  \/ blocked[t] # NoLine

Ready == {t \in Threads : todo[t] # <<>> /\ ~Waiting(t)}

(* t has made its last call, and come back from it.                        *)
Idle(t) == todo[t] = <<>> /\ ~Waiting(t)

(* t runs and makes the call op.                                           *)
Calls(t, op) ==
  /\ Foremost(t, Ready, Priority)
  /\ Head(todo[t]) = op

Returns(t) == todo' = [todo EXCEPT ![t] = Tail(@)]

(* A packet, a command or the timer of wdt_thread.                         *)
Begin(t) ==
  /\ t # "log" /\ Idle(t)
  /\ \E s \in Scripts[t] : todo' = [todo EXCEPT ![t] = s]
  /\ UNCHANGED <<locks, resting, lines>>

-----------------------------------------------------------------------------
(* The locks.                                                              *)

HtLock(t) ==
  /\ Calls(t, "lock") /\ Returns(t)
  /\ ht_lock' = MutexLock(ht_lock, t)
  /\ UNCHANGED <<log_lock, resting, lines>>

HtUnlock(t) ==
  /\ Calls(t, "unlock") /\ Returns(t)
  /\ ht_lock' \in MutexUnlock(ht_lock, Priority)
  /\ UNCHANGED <<log_lock, resting, lines>>

LogLock(t) ==
  /\ Calls(t, "log_lock") /\ Returns(t)
  /\ log_lock' = MutexLock(log_lock, t)
  /\ UNCHANGED <<ht_lock, resting, lines>>

LogUnlock(t) ==
  /\ Calls(t, "log_unlock") /\ Returns(t)
  /\ log_lock' \in MutexUnlock(log_lock, Priority)
  /\ UNCHANGED <<ht_lock, resting, lines>>

(* puts(log) in show_log.                                                  *)
Prints ==
  /\ Calls("shell", "print") /\ Returns("shell")
  /\ UNCHANGED <<locks, resting, lines>>

(* A nap of register_node, or a packet given to the network.               *)
Rests(t) ==
  /\ Calls(t, "nap") \/ Calls(t, "send")
  /\ resting' = resting \cup {t}
  /\ UNCHANGED <<todo, locks, lines>>

Wakes(t) ==
  /\ t \in resting
  /\ resting' = resting \ {t}
  /\ Returns(t)
  /\ UNCHANGED <<locks, lines>>

-----------------------------------------------------------------------------
(* The lines.                                                              *)

(* Variant: the queue takes one line too many.                             *)
FullLate == Len(queue) > QueueSize

Full == Len(queue) >= QueueSize

(* log_thread is blocked in msg_receive.                                   *)
Receptive == todo["log"] = <<>>

Accept(s) ==
  /\ owed' = [owed EXCEPT ![s] = @ + 1]
  /\ \/ Receptive /\ hand' = <<s, owed[s]>> /\ UNCHANGED queue
     \/ ~Receptive /\ ~Full /\ queue' = Append(queue, <<s, owed[s]>>) /\ UNCHANGED hand

(* Variant: the sender does not wait.                                      *)
GiveUp(t) ==
  /\ ~Receptive /\ Full
  /\ owed' = [owed EXCEPT ![t] = @ + 1]
  /\ UNCHANGED <<queue, hand, blocked>>

(* msg_send of a thread to a queue that is full: it waits.                 *)
Block(t) ==
  /\ ~Receptive /\ Full
  /\ owed' = [owed EXCEPT ![t] = @ + 1]
  /\ blocked' = [blocked EXCEPT ![t] = <<t, owed[t]>>]
  /\ UNCHANGED <<queue, hand>>

Awoken == IF Receptive THEN Write ELSE todo["log"]

(* send_log_msg.                                                           *)
SendLog(t) ==
  /\ Calls(t, "log")
  /\ \/ Accept(t) /\ UNCHANGED blocked
     \/ Block(t)
  /\ todo' = [todo EXCEPT ![t] = Tail(@), !["log"] = Awoken]
  /\ UNCHANGED <<locks, resting>>

(* send_log_msg in an interrupt, which does not wait: with a full queue    *)
(* the line is dropped.                                                    *)
Button ==
  /\ Receptive \/ ~Full
  /\ Accept(Buttons)
  /\ todo' = [todo EXCEPT !["log"] = Awoken]
  /\ UNCHANGED <<locks, resting, blocked>>

(* A line, when one more line of s has been written.                       *)
Advanced(line, s) ==
  IF line # NoLine /\ line[1] = s THEN <<s, line[2] - 1>> ELSE line

(* strcat in log_thread.                                                   *)
Appends ==
  /\ Calls("log", "append") /\ Returns("log")
  /\ hand' = NoLine
  /\ LET s == hand[1] IN
       /\ owed' = [owed EXCEPT ![s] = @ - 1]
       /\ queue' = [i \in DOMAIN queue |-> Advanced(queue[i], s)]
       /\ blocked' = [t \in Threads |-> Advanced(blocked[t], s)]
  /\ UNCHANGED <<locks, resting>>

(* msg_receive: the first line of the queue, whose place goes to a         *)
(* foremost sender that waits.                                             *)
Receives ==
  /\ Calls("log", "receive")
  /\ IF queue = <<>>
       THEN /\ Returns("log")
            /\ UNCHANGED <<queue, blocked, hand>>
       ELSE /\ todo' = [todo EXCEPT !["log"] = Write]
            /\ hand' = Head(queue)
            /\ LET stuck == {t \in Threads : blocked[t] # NoLine} IN
               \/ stuck = {} /\ queue' = Tail(queue) /\ UNCHANGED blocked
               \/ \E t \in stuck :
                    /\ Foremost(t, stuck, Priority)
                    /\ queue' = Append(Tail(queue), blocked[t])
                    /\ blocked' = [blocked EXCEPT ![t] = NoLine]
  /\ UNCHANGED <<locks, resting, owed>>

-----------------------------------------------------------------------------
Step(t) ==
  \/ HtLock(t) \/ HtUnlock(t) \/ LogLock(t) \/ LogUnlock(t)
  \/ Rests(t)
  \/ t \in Senders /\ SendLog(t)
  \/ t = "shell" /\ Prints
  \/ t = "log" /\ (Appends \/ Receives)

Next ==
  \/ \E t \in Threads : Begin(t) \/ Step(t) \/ Wakes(t)
  \/ Button

Spec == Init /\ [][Next]_vars

(* Naps and sends come to an end and ready threads run.  gcoap and         *)
(* log_thread leave room to each other, and packets, commands and presses  *)
(* come at a rate that leaves gaps: again and again no thread above the    *)
(* watchdog has anything to do, or can do it.                              *)
Fairness ==
  /\ \A t \in Threads : WF_vars(Wakes(t))
  /\ WF_vars(Step("gcoap")) /\ WF_vars(Step("log"))
  /\ SF_vars(Step("shell")) /\ SF_vars(Step("wdt"))
  /\ []<>(Ready \subseteq {"wdt"})

FairSpec == Spec /\ Fairness

-----------------------------------------------------------------------------
Suffixes == [t \in Threads |->
  UNION {{SubSeq(s, i, Len(s)) : i \in 1..(Len(s) + 1)} : s \in Scripts[t]}]

(* Every variable has its type: the queue has no more than its places, a   *)
(* thread waits in msg_send only behind a full queue, and log_thread has a *)
(* line exactly from its receipt to its writing.                           *)
TypeOK ==
  /\ \A t \in Threads : todo[t] \in Suffixes[t]
  /\ ht_lock \in Mutexes(Threads) /\ log_lock \in Mutexes(Threads)
  /\ resting \subseteq Threads
  /\ queue \in Seq(Lines) /\ Len(queue) <= QueueSize
  /\ \A t \in Threads : blocked[t] # NoLine => blocked[t][1] = t /\ Len(queue) = QueueSize
  /\ hand \in Lines \cup {NoLine}
  /\ owed \in [Senders -> 0..(QueueSize + 2)]

LogGrows == hand # NoLine /\ hand' = NoLine

(* Each line of a handler or a command, and each line of a button that the *)
(* queue took, is written once, and the lines of one sender in the order   *)
(* in which it sent them: none of them is missing when the next is written *)
(* (gateway_node.c:264-281, 287-300).                                      *)
EachLineOnce == [][LogGrows => hand[2] = 0]_vars

Printing == Len(todo["shell"]) > 0 /\ Head(todo["shell"]) = "print" /\ ~Waiting("shell")

(* The log does not change while show_log prints it, although log_thread   *)
(* preempts the shell (gateway_shell.c:200-202).                           *)
PrintsWhole == [][Printing => ~LogGrows]_vars

(* A handler that waits for ht_lock or for a place in the queue of the log *)
(* comes to its end, although the shell keeps the one lock while it sends  *)
(* and the other while it prints (gateway_hashtable.c:208, gateway_shell.c *)
(* :200, gateway_coap.c:193).                                              *)
HandlerCompletes == ~Idle("gcoap") ~> Idle("gcoap")

(* The operator gets the prompt back after every command: no lock, line or *)
(* send holds the shell for good (gateway_hashtable.c:160, 208,            *)
(* gateway_node.c:298, gateway_shell.c:200).  That register_node gives up  *)
(* is not shown by this, since Naps is finite, but by the bound on its     *)
(* count in TypeOK of Gateway.                                             *)
CommandCompletes == ~Idle("shell") ~> Idle("shell")

=============================================================================
