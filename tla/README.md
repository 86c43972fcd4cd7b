# Verification of the RIOT door alarm system

TLA+ models of the programs in `gateway/`, `sensor_mpu/`, `sensor_ir/` and
`actuator-r2/`, the TLC runs that check them on small instances, and proofs,
checked by TLAPS, of the most important properties for every instance.

## The system

A **gateway** watches a door. **Sensor nodes** (a tap sensor on an
accelerometer, an infrared sensor) tell it over CoAP that they are alive and
that something happened; **actuator nodes** beep when it tells them to. An
operator at the gateway's shell authorizes and deauthorizes nodes and engages
and disengages the alarm. Every program runs on RIOT: threads with fixed
priorities and no time slices, and interrupts for the buttons.

    operator --> shell --+                                    +--> actuator: beep
                         v                                    |
    buttons ---> flags, ht_sensor, list <-- gcoap handlers    |   ON
                         ^          |                         |
                 wdt_thread      alarm_thread ----------------+
                                                AUTH, DEAU
    gateway  <== register, status, tap ==  sensor  <== AUTH, DEAU == gateway

### Components, their state and their operations

| component | state | operations | what is hard |
|---|---|---|---|
| gateway, CoAP handlers (`gateway_coap.c`) | the packet at hand | register a sensor, status, tap, register an actuator; `coap_put` | they run on the most urgent thread but wait for `ht_lock`; they read flags and names the shell changes |
| gateway, shell (`gateway_shell.c`, `register_node`) | `SENSOR_ID`, `ACTUATOR_ID`, `is_registered` | authorize, deauthorize, engage, disengage | the two ids are the only link between a command and the packets it waits for; they are published before and cleared after, by either side |
| gateway, alarm and watchdog (`gateway_node.c`) | `is_engaged`, `is_sensor_fired`, `is_timeout` | once a second: ring every actuator; count the silence of every sensor | flags tested and stored in separate steps, cleared after a walk that blocks |
| gateway, table of sensors (`gateway_hashtable.c`) | slots, chains, `wdt` of each entry, `ht_lock` | set, get, delete, update, sweep | `ht_del` sends a packet with the lock held; chains, `free` |
| gateway, list of actuators (`gateway_list.c`) | `head`, cells | insert, delete, look up, walk | no lock at all; deletion and walk block in the middle |
| gateway, buttons | | disengage, test | an interrupt comes at any point |
| gateway, event log | `log`, `log_lock`, a queue of 2 | append, show | every thread may block on the queue; the log never shrinks |
| sensor, threads (`sensor_node.c`, the detectors) | `connection_status`, `sensor_fired`, `send_id`, `count`, `side_prev` | sample, report, be alive, send the identity | four threads and two interrupts on plain flags; sleeping and waking |
| sensor, tap detector | smoothed acceleration | filter, side, tap | integer truncation |
| actuator (`actuator_coap.c`, `actuator_node.c`) | `connection_status`, `send_id` | beep, AUTH, DEAU, send the identity | a second of beep inside the handler; unterminated payloads |

The components of one node share memory; nodes share nothing but packets.
`PROJECT.json` lists each component with its status, and under `hazards`, at
its line, everything found in this code that a test would hardly reach, with
the property that covers it or the reason why none does.

### What makes the components correct

* *Flags*: a disengaged alarm is not fired by a tap that was on its way
  (`FiredOnlyWhileEngaged`); a timeout is always some sensor's
  (`TimeoutOnlyForSilent`); disengaging leaves nothing behind
  (`DisengagedIsQuiet`, which fails).
* *Registration*: only the node the operator named gets in
  (`AcceptedMeansNamed`); what is announced is in the table when the shell
  looks (`AnnouncedBeforeLookup`); what is reported is true
  (`ReportedNodeIsKnown`, which fails).
* *List and table*: nobody twice (`ListedOnce`, `OneEntryPerName`), deletion
  removes what it meant to (`UnlinkIsExact`), a walk misses nobody
  (`NoLiveActuatorSkipped`), no pointer to freed memory (`NoDanglingEntry`),
  chains that behave as a set (`ImplementsRegistry`), and threads that use it as
  it may be used (`KeepsToRegistry`).
* *Log*: each line once and in its sender's order (`EachLineOnce`), and a log
  that stands still while it is printed (`PrintsWhole`).
* *Silence*: no report without three silent seconds, none missing after four
  (`ImplementsDetector`); no false alarm from spaced losses
  (`SpacedLossIsQuiet`) nor for ever after a rough time (`CleanIsQuiet`).
* *Sides and taps*: the filter of the tap sensor stays in its 16 bits, and
  neither a weak force, however long it lasts, nor a board at rest sets off the
  alarm (`WeakForceIsIgnored`, `WeakForever`, `StillIsQuiet`).
* *Progress*: handlers answer, commands return, taps and silence ring, nodes
  report, stop when told, and are not starved.

## Modules

| module | models | kind |
|---|---|---|
| `RiotKernel` | priorities and the mutex of RIOT, from how the programs use them (external) | operators |
| `LinkedCells`, `ActuatorList` | linked cells; `gateway_list.c` | operators |
| `Gateway` | the gateway: 4 threads, 2 interrupts, table, list, flags | state machine |
| `SensorRegistry` | what the table of sensors promises | abstract specification |
| `SensorTable` | `gateway_hashtable.c`: slots, chains, a heap that reuses cells | implements `SensorRegistry` |
| `SensorNode` | both sensor programs | state machine |
| `ActuatorNode` | the actuator program | state machine |
| `EventLog` | the log of the gateway, and every place where its threads wait for each other | state machine |
| `SilenceDetector` | what the watchdog promises about one sensor | abstract specification |
| `Heartbeat` | a sensor, the gateway and a network that loses packets, in time, with restarts | composition, implements `SilenceDetector` |
| `TapDetector` | the arithmetic of the tap sensor: filter, sides, taps | state machine |
| `LinkedCellsProofs` | lemmas about the walk along linked cells | proofs |
| `GatewayProofs` | theorems about `Gateway` | proofs |
| `SensorTableProofs` | `SensorTable` is safe and implements `SensorRegistry` | proofs |
| `EventLogProofs` | theorems about `EventLog` | proofs |
| `HeartbeatProofs`, `TapDetectorProofs` | theorems about `Heartbeat` and `TapDetector` | proofs |
| `SensorNodeProofs`, `ActuatorNodeProofs` | type correctness of the nodes | proofs |
| `MCGateway`, `MCSensorTable`, `MCSensorNode` | instances for TLC | |

### How steps were chosen

`pc[t]` names the place where thread `t` is. A step ends where another thread
or an interrupt may come between two accesses to shared state: at each wait for
`ht_lock`, each packet sent, each timer, and between the test of a flag and the
store that follows from it. A thread takes a step only while no more urgent
thread is ready (`Runs`), which is how RIOT schedules; so a handler of `gcoap`
that blocks nowhere (`ActuatorRegister`, `Authorize`) is a single step. An
interrupt may come between any two steps.

Correspondence, `Gateway`: `Receive` with `RegisterGet`, `RegisterSet`,
`StatusGet`, `StatusUpdate`, `TapGet`, `TapFire` are the three handlers for
sensors, cut at `ht_lock`; `ActuatorRegister` is the fourth handler.
`SensorCommand` ... `Finish` are the commands of the shell, with `Poll` and
`NapEnds` the loop of `register_node`. `AlarmCond`, `AlarmEngaged`, `Fire`,
`FireNext` are `alarm_thread`; `Sweep`, `Scan`, `Raise`, `SweepEnds` are
`ht_wdt`. `Lock` and `Unlock` are the mutex.

Correspondence, `EventLog`: `todo[t]` is the rest of the calls a thread has to
make in which it may wait or be waited for; `Handlers`, `Commands` and `Write`
list them in the order of the source. `Begin` is the next round of a thread that
is back in its loop (`Idle`): its last call has returned and nothing keeps it
waiting. `SendLog` is `send_log_msg` with
`msg_send`, which hands the line to `log_thread` if it waits for one (`Awoken`),
puts it into the queue, or blocks; `Button` is the same from an interrupt, where
a full queue drops the line. What the handlers and commands compute is
`Gateway`'s; this module has instead what `Gateway` leaves out, and the two
questions of progress that need both.

Correspondence, `Heartbeat`: `Status`, `Tap` and `Word` are one round of
`status_thread`, of `detection_thread` and the handler of AUTH and DEAU; `Sweep`
and `Ring` one round of `wdt_thread` and of `alarm_thread`; `Register` and
`Deregister` the two commands with the registration in between. `Put` and
`Repeat` are the client of the stack: a confirmable packet keeps a slot until it
is answered or its repetitions are used up. The steps within a round, which
`Gateway` and `SensorNode` have one by one, are one step here.

Correspondence, `TapDetector`: `Sample` is one round of `sensor_detection_loop`,
with `_detect_tap` (`Tapped`), the three lines of the filter (`Filtered`) and
`_get_side` (`SideOf`); the beeps and what other threads do meanwhile are
`SensorNode`'s.

### Decisions about the environment and the build

* The build is the one for MSB-IoT. Address 0 is readable there: `strcmp` of
  NULL and a name says "different" instead of stopping the program, which the
  handlers rely on (`gateway_coap.c:94`). The allocator ignores the second
  `free` of one address (`gateway_hashtable.c:210-211`).
* `mutex_unlock` hands the mutex to the most urgent waiter.
* `coap_put` blocks its caller until the stack has taken the packet
  (`Transmit`). In `Gateway` the stack always takes it; in `SensorNode` and
  `ActuatorNode` it may refuse for want of a request slot.
* C leaves open whether `SENSOR_ID` is read before or after `ht_get` in
  `strcmp(ht_get(ht_sensor, SENSOR_ID), SENSOR_ID)`; `ShellGet` allows both. In
  the second case the comparison is a step of its own (`ShellCompare`), as a
  handler that waited for the lock may clear the name first.
* In `Heartbeat` a round of `wdt_thread` wakes and counts in one step. In the code
  the deadline runs from the waking (`gateway_node.c:129`) and the count comes
  when `ht_wdt` has got `ht_lock` (`gateway_hashtable.c:266`), so that a late count
  may be followed by the next after less than `Period`. The delay is that of a
  handler or a send, below a tick of `hb_silence`, and it is in neither the run
  nor the theorem.
* In `EventLog` the naps of `register_node` are a list of fixed length, so that
  its loop ends by construction. The count is in `Gateway`, where `TypeOK` bounds
  it: at most `RegisterPolls` + 1 naps.
* `Gateway` keeps the table as a set with counters; its sweep visits the entries
  in any order. `SensorTable` shows that the chains behave like this as long as
  nobody uses them between two steps of a sweep or of a deletion, and
  `KeepsToRegistry` that nobody in `Gateway` does. What a look-up returns is hidden
  there: a step of `Gateway` is a step of the registry with some answer.
* An actuator cell is never freed by the code, so addresses are never reused in
  `ActuatorList`. Entries of the table are freed, and `SensorTable` reuses them.
* `ActuatorRegister` with the name NULL is a packet without payload. A sensor's
  packet without payload changes nothing and is left out.
* The thread and the calls of the event log are left out of `Gateway`, as they
  change nothing that the other components read; that nobody waits in them for
  good is `EventLog`'s result.
* `gcoap` and `log_thread` have one priority. Without time slices each runs until
  it waits; `EventLog` lets them change at every call, which allows more.
* `wdt_thread` and `alarm_thread` share `prev_time_wdt`. The value either finds
  there is never older than its own last waking and never in the future, so a
  round is not shortened; `Heartbeat` gives `wdt_thread` a round of its own.
* 0.99 * s + 0.01 * a is computed in double and stored in 16 bits. Compared
  with IEEE arithmetic over all s and a, the result is the exact value cut
  towards zero, except that an exact integer may come out one nearer to zero:
  `Filtered` takes both.
* The sensors set two slots for repetition in their `Makefile`
  (`GCOAP_RESEND_BUFS_MAX`); the number of repetitions, four, and the time to the
  first, two to three seconds, are the defaults of CoAP.
* Locals are reset when their function returns, so that dead values do not
  multiply the states.
* `sensor_ir` computes the period of `detection_thread` from the `prev_time` it
  shares with `status_thread`; timers are untimed here, so both builds have
  the same threads.
* In the actuator the stack's receive buffer is one static array. A PUT to
  `/register` is 21 bytes long (header 4, token 2, path 9, format 1, marker 1,
  payload 4); byte 21 of a PUT to `/actuator/beep` is its payload marker 0xFF.
  Nothing else the actuator receives is as long, so `stale` is set by the first
  ON and never reset.

## Runs

| run | question | instance | result |
|---|---|---|---|
| `gw_alarm` | do flags and table agree, who is accepted, does registration hand over, is the table used as it may be? | 2 sensors, all sensor commands, engage, disengage, test button | holds, 1.32 M states |
| `gw_list` | does the unlocked list survive? | 3 actuators, all actuator commands, both switches, both buttons | holds, 0.6 M |
| `gw_live` | do a tap and a silence ring? | 1 sensor, 1 actuator, engage, test button | holds, 0.24 M |
| `gw_stale_flag` | is a node that is reported authorized known? | 1 sensor, 1 actuator, all commands on nodes, registrations in naps only | **violated** |
| `gw_disengaged` | does disengaging leave no cause behind? | 1 sensor, its commands, engage, disengage | **violated** |
| `gw_log` | are lines lost, does a thread wait for good? | queue of 2, both locks, all handlers and commands, 1 nap | holds, 27 k |
| `hb_silence` | is silence reported, in time and only then? | 1 sensor, 2 slots, 1 repetition, restarts, losses | holds, 0.36 M |
| `st_registry` | do the chains implement the set? | 3 colliding names, 3 heap cells, 2 slots | holds, 44 k |
| `sn_progress` | is no thread of a sensor starved, does it stop? | both builds, 1 side, short warm-up | holds, 27 k |
| `sn_lost_wakeup` | does an authorized sensor detect? | tap sensor | **violated** |
| `an_ring` | does each ON sound, is the register thread served? | mailbox of 3 | holds, 1.6 k |
| `an_deaf` | does the flag follow AUTH and DEAU? | mailbox of 3 | **violated** |

The four violations are disagreements between the code and what its own
comments say; `PROJECT.json` quotes them under `findings`:

* `gw_stale_flag`: `register_node` gives up by its count before it looks at
  `is_registered`. A registration in its last nap of 100 ms sets the flag for the
  *next* command, which then reports a node that never registered. The run
  (`NapSpec`) admits registrations only while `register_node` naps, so that
  this is the way it finds. Under `Spec` there is a shorter, narrower one: a
  registration accepted after the name is published and before the test whether
  the node is known (`gateway_shell.c:101-102`) makes the command end with
  "already authorized" and leaves the flag set too.
* `gw_disengaged`: `ht_wdt` stores `is_timeout` after `deactivate_alarm` has
  cleared it. The alarm rings at once when it is next engaged.
* `sn_lost_wakeup`: AUTH between the test of `connection_status` and
  `thread_sleep` wakes nobody. The sensor then reports itself alive, so that
  the gateway notices nothing, and never detects again.
* `an_deaf`: after its first ON an actuator recognizes neither AUTH nor DEAU.

### Bounds, and why they are enough

* Two sensors show every interference between two handlers' names; the
  counters of silence run over their full range 0..3 in all runs. Three
  actuators give a first, a middle and a last cell; `MaxCells` bounds the cells
  ever allocated in one behaviour, so that an actuator can be added again after
  its removal within it.
* `RegisterPolls` is 50 in the code and 0 or 1 in the runs: only "not yet
  expired" and "expired" differ, and the proofs hold for every value.
* Three names in one slot give each of the four branches of `ht_del` and every
  position in a chain; three cells force the heap to reuse what was freed.
* `WarmUp` is 100 in the code and 1 in the runs (before, at and after the limit).
  `ReqSlots` of 1 makes the stack refuse packets often. `Sides` has one
  member besides `NO_CHANGE`: a new side and the old one.
* A mailbox of three holds an ON behind another and a word behind both.
* `gw_log` has the queue's real size. One nap of `register_node` in place of 51
  gives a command that waits and goes on, and one that gives up.
* `hb_silence`: a tick is a second. What happens within a tick happens in any
  order, so that even with `Jitter` 0 a status may be almost two ticks after the
  one before, and four sweeps fall within three and a bit; the refinement is
  proved for every `Period` and `Jitter`. An answer is waited for two to three
  ticks, as in the stack, and once repeated (four to six). `LossGap` 4 is the
  least for which `SpacedLossIsQuiet` holds in this instance: with 3, two lost
  packets keep both slots and the statuses in between are refused. With one slot,
  the default of the stack, it fails.
* Symmetry is used for sensors and for actuators in the safety runs of
  `Gateway`, and for names and cells in `st_registry`; the liveness runs have
  none.

### Fairness

Liveness is checked under `FairSpec`. Timers expire and the stack transmits
(weak fairness). The most urgent thread of each program runs when it is ready
(weak). The other threads run in the gaps the urgent ones leave, and these come
again and again, since every urgent thread waits for a timer, a packet or a line
of input in each of its rounds: strong fairness. `EventLog` says it by name, as two
of its threads share the highest priority: again and again no thread above the
watchdog can run. In `Heartbeat` time passes, rounds begin when they are due and
the stack repeats; strong fairness of `Tick` says that operator, taps and
restarts do not fill a second for ever. Nothing is assumed of the network there:
`CleanIsQuiet` has its healing as a premise. What this assumes of the
environment is that packets do not saturate the processor. Nothing is assumed of
the operator, of the network's delivery, or of the buttons. For the actuator not
even the first is assumed: `an_ring` allows a gateway that rings without a
pause.

## Proofs

`GatewayProofs` proves `TypeCorrect`: `Spec => []TypeOK`, for every set of
sensors, actuators, commands and buttons, every number of polls and cells. The
assumption is `GatewayAssumption` alone (NULL is no name, commands and buttons
are the known ones, the two bounds are natural numbers). `TypeOK` is inductive:
it contains that pointers of the list stay within the allocated cells, that each
thread is at one of its own labels, that `register_node` counts no further than its
limit, and that only `shell` and `alarm` ever block in a
send. One lemma per group of actions (`DataStep`, `ThreadsStep`, `ListStep`).

Its other results are about what interleavings could break. Each is an invariant
of its own on top of `TypeInv`.

* `TimeoutsAreDue` (`TimeoutOnlyForSilent`). Between the test of a counter and
  the store of `is_timeout` the sweep holds `ht_lock`. The invariant `LockInv`
  says that whoever is inside one of the `Sections` owns the lock, that owner
  and waiters are at a place where they asked for it, and that nobody waits for
  himself; with it no other thread can change table or counters in between.
* `TableUsedAsRegistry` (`KeepsToRegistry`), also from `LockInv`: each step that
  changes the table is the operation of `SensorRegistry` of that name, outside
  sweep and deletion. That `RegisterSet` is `Set` needs `UnknownAtZero`, a
  counter that is zero while its sensor is not in the table.
* `DisengagedStaysUnfired` (`FiredOnlyWhileEngaged`, without the disengage
  button). A tap handler past its test is the most urgent ready thread, so the
  shell takes no step before the handler has stored the flag
  (`HandlerBeforeShell`). With the button the statement is false of the code:
  an interrupt can come in between.
* `OnlyTheNamedIsAccepted` (`AcceptedMeansNamed`). While a command on a node
  runs, the published name is the command's argument or has been cleared;
  outside commands it is NULL, so nobody is accepted.
* `InsertedBeforeLookup` (`AnnouncedBeforeLookup`). Between announcing a sensor
  and inserting it the handler may have to wait for `ht_lock`. `LookupInv` says
  what the shell can find then: it naps, and the watchdog's sweep that held the
  lock hands it to the more urgent handler first; the shell can queue for its
  look-up only behind a sweep that began before its last nap was over, and what
  was announced by then is inserted or about to be (`KnownOrPending`).
* `NoActuatorTwice`, `DeletesWhatItFound` and `WalkReachesTheRest`
  (`ListedOnce`, `UnlinkIsExact`, `NoLiveActuatorSkipped`), for the list that has
  no lock. `ListInv` adds the reason: a cell leads to an older one
  only, since insertion is at the head and unlinking skips one. So no walk
  returns to a cell (`Descends`), an insertion changes nothing behind the head,
  and a cell that is unlinked under a walk still leads to everything that was
  behind it.

What is needed of a walk is in `LinkedCellsProofs`: `Reach` is defined as the
smallest closed set that has its start, so that "every cell met has P" follows
from one closed set, without induction over the length of a list.

`SensorTableProofs` proves, for any names, any hash, any number of slots and
cells, `TableTypeCorrect`, `NothingDangles` and `NamedOnce` (`TypeOK`,
`NoDanglingEntry`, `OneEntryPerName`), and `ChainsImplementRegistry`: `Spec`
implements `SensorRegistry`. The invariant `TableInv` also has `WellChained` (no
chain leads back to a cell of it: without that `ht_del` would unlink one of two links
to the cell it frees) and `SweepOK` (the entry that `ht_wdt` stands on is in the
chain of the slot it is in, so that the rest of the chain is what is left to
count). One lemma per operation shows that it keeps the invariant, and one that
it is a step of the registry: `ht_set` is `Set`, `ht_get` is `Get`,
`ht_update_time` is `Heard`, `ht_del` is `Delete`, the start of a sweep and each
visit are `Sweep` and `Visit`; going on to the next slot is `SweepEnds` after the
last and otherwise a stutter, like the `free` at the end of `ht_del`.

`EventLogProofs` proves `LogTypeCorrect`, `WrittenInTurn` and `StillWhilePrinted`
(`TypeOK`, `EachLineOnce`, `PrintsWhole`) for a queue of any size. In `LogInv`,
`LocksOK` says that exactly the threads between a lock and its unlock own it or
wait for it, and `InOrder` that the lines of each sender, at the places where a
line can be (in the hands of `log_thread`, in the queue, in a blocked send),
are numbered from one up in the order of these places. So the line being written is always the
oldest of its sender. The bound on the lines of one sender is the number of
these places (`RankedBound`, a count of distinct places).

`HeartbeatProofs` proves `HeartbeatTypeCorrect` and `CounterDetectsSilence`:
`Spec` implements `SilenceDetector` with `Least` three seconds and `Most` four
rounds, for every length and lateness of a second, every number of slots and
repetitions, and every loss. The invariant relates the counter to the clock in
both directions: `NotAhead`, the counter has not run further than the seconds
since the last status allow, so a counter above 2 means three seconds; and
`NotBehind`, the silence is no longer than the rounds counted and the one under
way, so the fourth round reports. Each of the steps of `Heartbeat` is then shown
to be a step or a stutter of the detector. The only assumption is
`HeartbeatAssumption`, on the constants.

`SpacedLossNeverAlarms` proves `SpacedLossIsQuiet` under `LossesAreSpaced`: there
are at least two slots, the lateness is below half a second, and losses are further apart
than a round and than the longest time to a first repetition. Then the packet
lost before is repeated and answered before the next can be lost, so that a loss
never finds an open request (`OneAtATime`) and a status always a slot; and of two
successive statuses one is heard (`StaysHeard`), so the counter cannot see three
seconds. The instance of `hb_silence` satisfies the condition. TLC finds a false
alarm when the lateness is half a second, with one slot, and with losses three
ticks apart.

`TapDetectorProofs` proves for every sequence of samples of 16 bits that the
filter stays within 16 bits (`FilterFits`); that samples below 600 do not carry it
over the threshold of 500, because the truncation takes up to one and the pull
of a sample is a hundredth of the distance, and are no taps
(`FilterIgnoresWeakForce`); and that a board at rest on one side keeps it
(`FilterIgnoresStillness`). `Weak` (the filter at or below 500, the last sample
below 600) is what a weak sample leads back to, so `FilterIgnoresWeakForce` holds
along any row of them, also after a time on a side. If there are no others at all,
`Weak` is an invariant and nothing is ever reported (`WeakForceNeverFires`); the
bound is sharp, as samples of 600 can carry it to 501. Lemmas bound one step of `Filtered`; the theorems use
only these bounds.

`SensorNodeProofs` and `ActuatorNodeProofs` prove `TypeOK` of the nodes
(`SensorTypeCorrect`, `ActuatorTypeCorrect`): for the sensor with the
strengthening that threads busy with a packet never outnumber the open requests,
since a thread that is ready is not busy and takes a slot of its own.

Checked by TLC only: the liveness properties, since fairness and `ENABLED` are out
of TLAPS's reach. Every invariant and every action property of a passing run,
and both refinements, are theorems; two of them have a condition in their
statement that the run's instance satisfies, `DisengagedStaysUnfired` (no
disengage button) and `SpacedLossNeverAlarms`. `TapDetector` is the other way round: proved,
and checked by TLC only on small instances during its development.

## Not modelled

* The text of log lines and the size of the log: it overflows after enough lines
  whatever the interleaving.
* The contents of packets, the addresses of nodes, the response callbacks. With
  them the name of ten characters, whose terminator falls into the address
  (`hazards`).
* The request slots of the gateway's own client. With its default of two, and an
  actuator that answers ON only after its beep, which actuators of a long list
  are refused depends on five seconds of the stack against one of the alarm; in
  `Gateway` every packet is taken, and `TapRings` says this of it.
* Loss of ON and restarts of an actuator: the gateway rings again every second as
  long as the cause stands and expects no answer.
* The heap of the handlers, which leak a copy of each packet.
* The shells of the nodes, which set names and addresses and print.
* Start-up before `init` has returned, and the driver of the accelerometer.
* `show-actuators` and `traverse_and_off`, which print and which nobody calls.

## Plan

Done: every component of the gateway with its log, both kinds of node by
themselves, the composition of sensor, network and gateway in time, the
arithmetic of the tap sensor. Proved: type correctness of every state machine but
the abstract ones, the safety of the gateway's flags, registration and list, the
table and its registry, the order of the log, the detector of silence, false
alarms by spaced losses, the filter.

What is left is to bring `EventLog` and `Gateway` closer together: that the calls
which `EventLog` has for a handler or a command are the ones its steps in
`Gateway` make, in that order, is read off the source and stated by neither.
