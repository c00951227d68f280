# SPSI master: a TLA+ model

The SPSI master is the firmware of a device (STM32, RT-Thread) that watches a
pressure switch, tells its state to a slave over two radios (433 MHz and
406.8 MHz, one AX5043 chip each), supervises both radio links, shows their state
on LEDs, a buzzer and two alarm outputs, and keeps a log in flash.  The
program's own code is in `src/applications`, `src/radio` and `src/filesystem`;
the rest (`rt-thread`, `libraries`, `drivers`, `cubemx`, `packages`) is vendored
or generated.  The repository has no documentation and no tests: what the code
says about itself is in its comments and log messages.

## 1. Inventory

| Component (source) | State | Operations | Talks to |
|---|---|---|---|
| Link supervision (`heart.c`) | `rf_info` of each radio (retry, alive, received, testreceived, startup), `rf_now`, `heart_mode`, `rf_lock`, 3 semaphores, 2 timers | heart thread (prio 7): connect, send, check, random waits; button-test thread (7); timer callbacks (4); `rf_offline`, `radio_refresh` | send queue (enqueue), receive path (flags), warning thread (`rf_event`), log, alarm counters |
| Receive path (`Radio_Decoder.c`) | `received`, `testreceived`, rssi | `Solve_433`, `Solve_4068` in the radio threads (8) | supervision, warning thread, valve status, LEDs, log |
| Send queue (`Radio_Encoder.c`) | `NowNum`, `TargetNum`, 100 slots per radio, no lock | enqueue, urgent enqueue (callers of prio 4, 7, 11, 20), dequeue threads (9) | radio driver |
| Record log (`file.c`, `flashwork.c`, `little.c`) | `Global_Nums`, keys `id`, `boot_times`, two csv files, `spsi_read_mutex` | `ID_Init`, `File_Output`, `spsiread1/2`, shell `csv_*_init` | littlefs, EasyFlash |
| Button (`button.c`) | none | click: a test; long press: factory reset and reboot | supervision, log |
| Warning thread (`warn.c`, prio 12) | `rf_event` | take all events, handle one of them | panel, buzzer |
| Panel and buzzer (`psi.c`, `led.c`) | `PSI_Status`, `Valve_Status`, `Psi_Lost`, `Psi_Counter`, `beep_mode` | switch detection (irq, thread 11, timer), lamps | send queue, agile_led |
| Alarm outputs (`seg.c`, prio 10) | four saturating counters, two levels | increase, resume, poll every 500 ms | pins |
| Radio driver (`Radio_433.c`, `Radio_4068.c`, `Radio_Common.c`, `Radio_Drv.c`) | `ubRFState`, buffers, send timer | interrupt-driven state machine, send, restart, start-up calibration | AX5043 over SPI |
| Start-up (`main.c`) | none | initialisation in order | all |

What is hard here: two threads of one priority share retry counters, the
selected radio and a lock that one of them only tries to take; a queue without
a lock is used by threads of five priorities; answers of the peer are lost,
late or repeated; power fails between two flash writes; events that arrive close
together are merged; four threads write the registers of a radio chip that
answers by interrupts and may stop answering.  `PROJECT.json` lists these hazards with their lines.

What makes each part correct:

* supervision: exactly one heartbeat is always to come; each radio is supervised
  again and again; a silent peer is reported once; `rf_lock` is not leaked; the
  radio that is judged, by a heartbeat or by a test, is the one that was asked and
  the one that is recorded;
* send queue: an accepted message is sent once, in order, urgent ones first; the
  indices stay within the arrays; the counters come back to 0;
* log: the last records survive any power failure; numbers go up; an upload sees
  a stable file;
* panel: it shows "lost" exactly when both links are dead, and shows the current
  status again after they recover;
* alarm outputs: on after five weak messages or two failed rounds, off again;
* driver: after a send, or its timeout, the radio returns to reception.

## 2. Plan

1. `RfLink`, `Heart`, `HeartProofs`: supervision, its abstract contract, proofs. *Done.*
2. `RadioQueue`: the send queue, and `AbsQueue`, the queue it implements while
   operations do not overlap; `RadioQueueProofs` (every schedule) and
   `RadioQueueRefines` (the refinement). *Done.*
3. `FileLog`: the record log with power failures; `FileLogProofs`. *Done.*
4. `Warn`: the warning thread with bars and buzzer, driven by `RfLink` (what
   supervision promises) instead of `Heart`; `Panel`: the pressure switch and
   the status lamps; `WarnProofs`, `PanelProofs`. *Done.*
5. `Seg`: alarm counters with the signal levels of the receive path; `SegProofs`.
   *Done; its composition with `Heart` is left.*
6. `Ax5043`: the radio driver with interrupts, the send timeout and a chip that may
   hang; `Ax5043Proofs`. *Done; of its invariants `NeverDeaf` is only model-checked.*
7. The loads of the register tables of both radios, whose loop index is shared
   (`Radio_Common.c:80`), register by register. *Left.*

Modules meant for proofs use no RECURSIVE operator; helpers on sequences come
from the community modules.

## 3. Modules

### RfLink
The contract between supervision and the warning thread: `alive`, `startup` and
the event set, and the four things that may happen to them.  A radio goes
offline with an event, and only if it was alive or never classified.

### Heart
State: the fields of the two `rf_info` records as functions of the radio (0 is
the 4068 radio, 1 the 433 radio, as in `rf_now`); the timers as "running or
not"; the semaphores as counters; for each thread its place in the loop (`hpc`,
`bpc`) and its `info_temp` (`htemp`, `binfo`); `rf_lock` as owner and count with
RT-Thread's rule that only the owner can release.

Both threads have priority 7 and slices of 10 ticks, so either may get between any two
accesses of the other.  A test, a load, a store and an operation on `rf_lock` are
therefore steps of their own; what has been loaded and not yet stored is in `hreg` and
`breg`:

| Code | Actions |
|---|---|
| `connect_timer_callback`, `heart_timer_callback` | `ConnectTick`, `HeartTick` |
| `heart_callback`, connect branch | `HConnect`, `HConnectWake`, `HConnected`, `HTurn`, `HTurned` |
| case `send` | `HSend` (choice of `info_temp`), `HAsk` (argument of `heart_request`), `HAsked` (the request), `HLock` |
| case `check`, retry 0..2, answered | `HAnswered`, `HOk`, `HTurn`, `HTurned` (`rf_now = !rf_now`) |
| case `check`, retry 0..2, not answered | `HMissed` (the test), `HCount`, `HCounted` (`retry++`) |
| case `check`, retry 3 | `HFinal`, then `HOk` ... or `HFinalFail`, `HFlip` (`rf_now = !rf_now`), `HTest`, `HOff` (`rf_offline`) |
| case `check`, retry past 3; its end | `HNoCase`; `HUnlock` |
| `randtime_7`, `randtime_8` | `HRand` |
| `buttontest_callback`, the request | `BSelect`, `BTake` (argument of `button_request`), `BAsk` (its store to `rf_now`, without `rf_lock`), `BSwitch` |
| ... answered | `BWake`, `BOk`, `BTry`, `BFlip`, `BFlipped`, `BFree` |
| ... not answered | `BMissed`, `BCounted` (`retry++`); the last time `BFinalFail`, `BFlip`, `BFlipped`, `BFree`, `BTest`, `BOff` |
| `Solve_433`, `Solve_4068`, `heart_single`, `rt_event_recv` | `Solve`, `Click`, `WarnRecv` |

Stores that follow one another without a test are one step (`Refresh`; the rest of
`rf_offline` after its test of `alive`, with `retry = 0`).  The threads of the radios
(8, 9), the button and the warning thread (12) have a lower priority and run only
while both threads are blocked (`BothBlocked`), so they see no half of such a step; and no
test of the other thread reads two of the fields, so that stores of both threads, however
they mix, leave what one call after the other leaves.

Time is abstracted: an armed timer or a delay ends at any moment, so every relative speed
of the two threads is covered, also some that cannot occur.  Durations are used in three
places.  `ConnectTick`: its period (5 s) exceeds a pass of the connect branch (2 s).
`spent`: a thread that blocks, for 100 ms at least, while the other is ready is not back
before the other has blocked too; the code in between runs for far less.
`HeartTick`: an attempt of the button test (2 s and one log record) that was under way when
the third miss of a heartbeat was counted is over when the fourth attempt is judged, 1 s, a
random wait and 2 s later (`Overtaken`).  Without the last two `retry` could exceed 4, or
the counter of a stalled heartbeat be reset, only by a thread held up for seconds.
The peer is arbitrary: any message at any time.  LEDs, log records and alarm counters are
outputs that this code does not read back.

### AbsQueue and RadioQueue
`AbsQueue` is what callers rely on: a message is accepted behind the ones that wait
or, if urgent, in front of them, the first one is taken, and that very message is
sent later.  `RadioQueue` implements it (`IsQueue`, by INSTANCE ... WITH) as long as
operations neither overlap nor leave the arrays.  The refinement mapping reads the
waiting messages off the slots after `NowNum` up to `TargetNum`, one slot further up
between the shift for an urgent message and `TargetNum++`, and none between the two
assignments of the reset; `ReadNum`, `Write`, `Load`, `Check`, `ResetNow` and
`ResetTarget` are stutters, `Store` is `Enqueue` or `UrgentEnqueue`, `Pick` is `Take`.

The queue of one radio; the code for the two radios is the same but for the
delay.  Every read and write of the counters is a step (the build is not
optimised); the copying of one message into its slot, which only the caller
does, is one.  The scheduler is RT-Thread's: no step of a thread while one of
higher priority is in the middle of an operation.  `spent` expresses that a
thread does not start again while a preempted operation is waiting: a call takes
microseconds, the calls of one thread are at least 50 ms apart.

The arrays have 100 elements and the limit admits index 100.  What is written
there reads back either as written or changed.  One consequence is outside the
module: the byte written behind `Queue_433.Data` may belong to another object,
`Queue_4068` among others; the module is therefore about the queue of the 433
radio, behind no other queue.

### FileLog
littlefs and EasyFlash are external; each closed append, unlink and change of a
key is atomic, and power may fail between any two.  A file is the sequence of
its lines, a line the number of its record or the title.  `Half` stands for
200000.  The reader is the shell thread, which also has the commands
`csv_top_init` and `csv_down_init`; these do not take the mutex.  A call that finds
the mutex taken (`Busy`) changes nothing: its record is lost, although `file.c:75`
logs "write again later".  `cut` and `erased` are history: a power failure inside
`ID_Init` after the number was cleared; the last number that the operator may
have erased.

### Warn
Extends `RfLink`: supervision and the peer take its steps `LinkRefresh`,
`LinkOffline` and `LinkOnline`, the warning thread its `LinkRecv`.  Since
`HeartImplementsLink` is proved, what is shown of `Warn` is about the real
supervision.  One action is the code of `warn_callback` between two reads of
shared state; everything else has a higher priority and may run in between.
A message is one step (`Message`) but for manual control (command 2), which is written
to the log between the Online event and the start of the bar: the thread of the radio
blocks there (`solving`) and goes on in `Solved`, and a button test may fail, and be
handled, in between.  The bar of the dead radio is then started once more, in the colour
of the message.  `Manual` is the set of radios on which the peer sends such messages.
Bars and buzzer are the mode they were last started in; levels 3, 4 and 5 differ
only in the bar and are one level.  `heard` (dead radios with a message since they
failed) and `unshown` (the other dead radios whose Offline event was merged with that of the
other radio and dropped, or that failed while a message was being logged) are history;
`DeadRadioIsRed` excepts the second, and only until the radio is refreshed, heard or fails
again.  The first limits
`AllDeadIsShown`: a single message of a dead radio makes the panel show a link
again, and as `rf_offline` reports a dead radio once, later failed rounds do not
take that back.  The long press (`Hold`) takes the buzzer over for three seconds and
restarts the device (`Reboot`).

### Panel
| Code | Actions |
|---|---|
| `psi_pin_callback` | `Edge` |
| `psi_thread_callback`, `psi_open` | `Poll`, `Open`, `OpenLamp`, `Arm`, `Enable` |
| `psi_timer_callback`, `psi_close` | `TimerClose` |
| `receiver_blink`, `valve_control` on a message | `Message` |
| `receiver_close` of a button test | `receiver_close` |
| `psi_led_lost` | `psi_led_lost` |
| `psi_led_resume` | `Resume`, `ResumeLamp`, `ResumeValve`, `ResumeCall`, `ResumeCallLamp` |

A lamp is a red and a green LED.  A LED that is started is dark for 300 ms and
then lit (`agile_led_start`, `agile_led_process`: `Off`, `Lit`, `Settle`); `agile_led_off` does not
end the start.  Two calls within 300 ms may therefore leave a LED lit, and
overlapping handlers the wrong one; `clean` (history) says that neither has
happened, and the two lamp invariants are stated under it.

### Seg
The counters of both radios, with reads and writes as separate steps; radio threads,
reporters (heart thread and button test) and the thread of the outputs under
RT-Thread's priorities, the two reporters being of the same one.  `weak` and
`fails` are history: what has really happened, against which the counters are
compared.  A reporter may clear a counter between the read and the write of a
radio thread: the old count comes back, so `WeakEarned` counts weak messages
since the last strong one, failed rounds notwithstanding.  `OutageShown` says of an
outage both that output 2 goes on and that the count of weak messages, which would
drive output 1, gives way to it.

### Ax5043
One radio: the driver, and what it relies on in the chip (external).  What a thread
has still to do is a sequence of operations, one for each access of the chip, of
`ubRFState`, of the send timer; a step takes the first.  Of the registers the model
has those the control flow depends on.

| Code | Definitions |
|---|---|
| `rf_433_init`, `rf_startup`, `RadioXtalON`, autoranging | `rf_startup`, `RadioXtalON`, `PllRanging` (thread main) |
| `rf_433_task_callback` | `Take`, `Handler` |
| `ReceiveData`, `Ax5043Receiver_Continuous`, `Ax5043ReceiverON` | of the same names, `Drain`, `ClearFifo` |
| `rf_433_send`, `transmit_packet_task` | `Send`, `Normal_send` |
| `TransmitData` | `Transmit`, `AfterPreamble`, `PktEnd`, `Commit`; the look at `ubRFState` and the store of the next state are two steps, and a restart may fall between them |
| case `trxstate_tx_waitdone` | `LeaveIfBusy`, `rf_restart` |
| `rf_433_send_timer_callback` | `Timeout` |
| the interrupt pin | `Pin`, `Edge`, `RaisePin` (PINFUNCIRQ = 1, 0, 3) |
| the chip | `XtalStarts`, `RangingEnds`, `PacketArrives`, `PacketSent`, `Hang` |

Both radios have the same code but for the priority of the task, which is chosen in
`Init`: 8 (433), above the dequeue thread, or 9 (4068), equal to it.

Durations the model uses (`Rest`, `TimerDue`): transmissions of one radio begin at least
300 ms apart (500 ms on the 4068 radio), the send timer runs for 1000 ms, a packet
(some 312 bits at 600 bit/s) is on the air for about 520 ms; what threads and crystal
do after an interrupt takes a few milliseconds.  So all of them come to rest between
two transmissions, but a second transmission may begin while the first packet is on
the air, and cuts it off.  Packets that are received are on the air for as long as those
that are sent, so all work also comes to rest between two of them (`heard`).

History: `orderly` (each transmission began at rest, and no interrupt and no timeout
fell into it), `met` (a reset fell into `transmit_packet_task`, or a transmission began
before the crystal ran after a reset), `aired` (packets that went out with the registers
for sending).  What the properties leave out with them does go wrong:

* 4068 radio: an interrupt of the reception that the task handles in the middle of
  `transmit_packet_task` leaves the masks or the registers of one in the other; the
  packet is lost and the radio may be deaf until the next transmission.
* Both: an interrupt between `Ax5043SetRegisters_TX` and the change of `ubRFState`
  makes the packet go out with the registers for reception.
* 4068 radio: opening IRQMASK0 for the FIFO threshold raises an interrupt that is taken
  in state waitdone and stops the send timer (`Radio_433.c:149`).  On the 433 radio this
  is over before `rt_timer_start`; on the 4068 radio it normally comes after it, so a
  chip that hangs on the air is not restarted before the next transmission.
* Both: if a restart meets the beginning of a transmission, a packet that arrives while
  IRQMASK1 still holds the pin high gives no edge.

`NeverStranded` needs none of this: whatever falls into what, threads that are done leave
`ubRFState` in reception, in one of the two states of a transmission that an interrupt
ends, or in a loop of the start-up, and the 433 radio waits for the crystal only with the
send timer running.  It says nothing of the chip; that the interrupt really comes is
`NeverDeaf`.  `NeverDeaf` and `ReceptionReturns` are therefore stated separately for the two radios; for
the 433 radio they cover a chip that hangs, interrupts inside a transmission and
packets cut off.

## 4. Runs

| Run | Question | Result |
|---|---|---|
| `heart_safety` | one beat pending, lock discipline, retry bound, a stall is permanent; does Heart implement RfLink? | holds, 1,693,305 states |
| `heart_live` | a silent peer goes offline; each radio is supervised | holds, without clicks, 89,802 states |
| `heart_stall` | is every heartbeat judged? | violated: shared `retry` reaches 4 |
| `heart_asked` | is the radio asked the one that is judged, and the one that a result is recorded for, in a button test and in a heartbeat? | violated: `info_temp` of the test is stale.  The other two parts are violated too when they are checked alone: `rf_now` moves during the 2 s wait before `heart.c:276`; and between `heart.c:325` and 326, before the heart thread has `rf_lock`, so that a heartbeat is judged on a radio that was not asked |
| `queue` | does RadioQueue implement AbsQueue without overlap (order, no duplicates)? counters in order under every schedule; do they come back to 0, are accepted messages sent? | holds, 238,068 states |
| `queue_lost` | is an accepted message kept? | violated when calls overlap |
| `log_safety` | the last records, the numbers, the upload | holds, 705,023 states |
| `warn` | are dead radios shown and heard, whatever is merged or crosses a message being logged? do panel and buzzer recover? | holds, 435,003 states |
| `panel` | do the lamps come back to the status? is the end of the pulses detected while the link is up? | holds, 108,912 states |
| `panel_stuck` | and if the link is lost meanwhile? | violated: the one-shot timer is wasted |
| `seg` | is an output raised only with a cause, and do the outputs go on and off? | holds, 927,800 states |
| `radio` | does the radio return to reception, is the driver ever left where nothing wakes it, can the chip always wake it, does start-up end, does a packet go out, and only once? | holds, 231,498 states |

The safety properties of the queue about order and loss are stated as long as no
two operations have overlapped (`clean`); `NeverOvertaken` and `EventuallyReset`
are about every schedule.  `heart_live` needs `MaxPending = 0`, no clicks: with
clicks supervision may stall, which is what `heart_stall` shows and
`StallIsPermanent` says cannot be repaired.

### Bounds
* `MaxPending = 1` (Heart): clicks waiting in `button_sem`; a new click can arrive as
  soon as one is taken, so behaviours are unbounded in their number of tests.  With
  2 all properties hold too (2,524,000 states).  The theorems cover every value.
* `VIEW SeenFromRadioInUse` (MCHeart): after the connection the two radios are alike, so a
  state is seen with the radio in use first; a record that a thread will choose anew
  before it uses it is not seen; and of the event set, which no action but `WarnRecv`
  reads and no property but `LinkSpec` is about, only whether an Offline bit is waiting
  while a radio is being given up.  With everything told apart the properties
  hold too (8,144,935 states, too many for a run that is repeated often);
  `HeartImplementsLink` does not depend on it.
* `Cap = 3`, `MaxMsgs = 5`, three producers on both sides of the
  dequeue thread's priority: the queue fills, refuses a message, is shifted by an
  urgent one with two waiting, and is reset more than once.
* `Half = 2`, `MaxNum = 9`: each file is turned over twice; three power failures and
  two erasures or factory resets cover a failure during the recovery from another.
* `Levels = {2, 3}` (Warn): the code tells only 2 (weak) from more.  `Manual = {1}`: the peer
  sends manual control on the 433 radio; the code for the other one is the same.  With both
  the invariants hold too (1,482,335 states).
* `Limit = 2` (Panel; 4 in the code): pulses are counted, the count is cut off and
  taken to the end.  `panel_stuck` uses 1.
* `WeakLimit = 2`, `FailLimit = 2` (Seg; 5 and 2 in the code): a count below the
  limit, at it, and one beyond; an old count that comes back differs from a new one.
* `MaxSends = 2`, `MaxPackets = 2`, `MaxHangs = 1` (Ax5043): a transmission that meets the
  rest of another one or its timeout, packets that arrive before, in and after it, and
  a chip that hangs in one of them.  With 3 transmissions and 2 hangs the
  invariants hold too (1,021,633 states).  With the bounds at 40 and a VIEW without the
  four counters TLC finds 53,427 states and in none of them is a bound reached, so a
  property that names no counter, as `NeverDeaf`, does not depend on the bounds.  The
  theorems cover every value.
* Runs with CHECK_DEADLOCK FALSE: a stalled Heart without clicks, and FileLog and
  Ax5043 when their bounds are used up, really stop.

### Fairness
`Heart`: weak fairness of the two timers and the two threads.  The timer thread (4)
and the two threads (7) are the highest priorities of the application and their
delays end.  Nothing is assumed of the peer, the button and the warning thread.
`RadioQueue`: weak fairness of the dequeue thread and of each call that has begun;
producers need not call at all.
`Warn`: weak fairness of the warning thread, which polls every 100 ms, and of a radio
thread that writes a message to the log (`Solved`); nothing else is
assumed of radios and supervision but what a property names.
`Panel`: weak fairness of the psi thread, the timer and the warning thread; none of
the switch or the peer.
`Ax5043`: weak fairness of each thread (none of higher priority runs for ever), of the
timers, and of the chip's own steps, which `Hang` disables until the next reset; none
of packets that arrive.  `Warn` also: a long press ends in the reboot.
`Seg`: a call takes microseconds and calls are seconds apart, so again and again
none is under way; then the thread of the outputs runs (strong fairness).

## 5. Proofs

Each `...Proofs` module extends the module it is about.  All have the same plan: an
inductive invariant, the conjunction of named parts; a lemma for the initial states; one
lemma or step for each action, with a step for each part that it can disturb; the
properties as consequences.  The inductive invariants were also checked by TLC, with the
constants of the runs.  The assumptions are those on the constants, next to their
declaration, which TLC evaluates in the runs.

### HeartProofs
For every `MaxPending \in Nat`, the only assumption:

* `Invariance`: `Spec => []HeartInv`.  `OneBeatPending` is not inductive alone: a
  failed attempt keeps the beat only if the thread is in mode check with retry below
  4, and the release of `rf_lock` is balanced only if the heart thread took it in the same
  exchange.  `HeartInv` is the conjunction of the type, the phase (`PhaseInv`: before and
  after the connection is made, and where a thread can be in it), the beat, the lock,
  `CountInv` and `JudgedAlone`.
* `RetryNeverRunsAway`: `retry <= 4`, whoever is between test, load and store.  `CountInv` is
  the argument: the counter and the threads that have passed the test and are still going
  to count come to 4 at most (`HeartCounts`, `ButtonCounts`), and so do the value a thread
  has loaded, its own increment and the other thread.  A thread that finds 3 where it had
  tested for less has been overtaken by the other one, which is then blocked (`spent`) or
  has not been judged again.
* `TypeCorrect`, `BeatsNeverDouble`, `LockNeverLeaks` follow.
* `StallNeverEnds`: an action property.  A stalled heartbeat has its counter at 4; by
  `CountInv` the button test is not about to store it, and by `JudgedAlone` it is in no
  attempt on that radio that would reset it.
* `HeartImplementsLink`: every step of Heart is a step of RfLink or leaves its
  variables alone.  `alive => startup` makes `rf_offline` of a live radio an allowed
  step; if the other thread has given the radio up since the test of `alive`, its event is
  still waiting, as the warning thread does not run in between, and the step is a stutter.

### RadioQueueProofs
For every finite set of producers (urgent or not), all priorities, every `Cap` and
`MaxMsgs`, and every schedule:

* `RadioQueueTypeOK`: no counter or index passes `Cap` by more than the number of
  producers.  The limit is tested on a value read earlier, so the bound is not local to
  a call: `LimitInv` counts the producers that have run since all threads were last
  blocked, each of which has moved `TargetNum` by one at most.
* `NowNeverOvertakes`: `NeverOvertaken` is lost by a producer that stores an old
  value of `TargetNum`; `OvertakeInv` says that the dequeue thread has moved `NowNum` at
  most once since that value was read, and that it is `spent` if it has.

### RadioQueueRefines
* `QueueRefines`: `RadioQueue` implements `AbsQueue` for the same constants.  While no
  operations overlap (`clean`), `SoleInv` leaves one thread inside an operation,
  `ProducerInv` keeps its copy of `TargetNum` current and its message new, and
  `SlotInv` keeps messages in the slots that wait.  The refinement mapping is a slice of
  the array; lemmas on slices say what an append, a shift for an urgent message and a
  removal do to it.  There is one lemma for each action; once `clean` is lost the
  abstract queue is `broken` and allows anything.

### FileLogProofs
For every set of writers, every `Half` above 0, and every bound on numbers, power
failures, and erasures:

* `LastRecordsAreKept`.  `KeptInv` says in which file each of the last `Half` records is.
  The one step that could lose them deletes the file that the next record starts;
  the lemma `FilesTakeTurns`, by arithmetic of remainders, says that the `Half` records
  before such a number are in the other file.  `StageInv` says that a file is only
  deleted by a record that starts it, and that a number is saved only when its record is
  on flash; `NumberInv` that the files are set up anew only with the number at 0.
* `NumbersAreCurrent` is part of `NumberInv`; it needs `MutexInv`, the agreement of the
  mutex's owner with where the threads are.
* `NumbersAlwaysGoUp`.  A file is read by position: line `j` `Follows` line `i` if only
  titles are between them.  `OrderInv` adds what is known of the end of the file that
  the next record goes to.  `EndInv`: it ends with the record before it, or with a first
  copy of it that a power failure left behind, or is blank where that record starts the
  file.  `BelowInv`: no file has a record beyond the next number, so such a copy is the
  only one.  `RepeatInv`: as long as nobody is about to save the number of a record that is
  on flash, some power failure is not accounted for by a repetition; this is what
  keeps `Cardinality(Repeats(...)) <= crashes` when the record is written again.  `SetUpInv`
  carries it through `ID_Init`, whose two files are blank one after the other.  `LogInv`
  supplies who is in the section (one writer at a time) and `SavedNumberCurrent`.
* `UploadsAreStable`: an action property; with the mutex in the reader's hands no writer is
  in its section, and the shell does not erase while it uploads.

### WarnProofs
For every set of levels and of radios with manual control that the assumptions of `Warn`
admit:

* `AllDeadAreShown`, `DeadAreAudible`, `DeadRadiosAreRed`.  The properties are about the
  thread at rest; `AudibleInv`, `ShownInv` and `RedInv` extend them to every place of the
  thread through `KnownDead` (dead, not heard since, its event taken), and `OnlineInv` says
  that an Online event that still waits never comes from before the death of a radio that
  is known to be dead.  `RedInv` also says that a message being logged is of a radio that
  has been heard since it failed, or that failed meanwhile (in `unshown`): no other bar of a
  dead radio is started late.

### PanelProofs
For every `Limit`:

* `PanelTypeOK` includes that `psi_sem` does not exceed two (`SemInv`: the interrupt is off
  from a pulse until the psi thread has taken it).
* `LampFollows`, `ReceiverRight`: `TransmitterInv` and `ReceiverInv` say what the lamps show
  also while a handler is under way, under `clean` as the properties.

### SegProofs
For all limits:

* `SegTypeOK`: test, read and write of `alive_count` are separate steps of two threads, and
  yet it goes at most one beyond the limit: `LimitInv` says that a thread which is past the
  test and finds the limit is alone.
* `OutagesAreEarned`: `DoneInv`, `OwnInv` and `BothInv` give each increment, done or under
  way, a failed round of its own.
* `WeakWarningsAreEarned`: `WeakInv` does so for weak messages.

### Ax5043Proofs
For both radios and every number of transmissions, packets and hangs; nothing is assumed of
the chip.

What a thread has still to do is a sequence, so the proofs are about the order of
operations in a sequence: `Then(s, X, y)`, each operation of `X` is followed by `y`, and
`NotAfter(s, X, Y)`.  Lemmas say that both stay when the first operation is taken off and
when programs are put together (`PktEnd` before the rest of a handler); `Orders`
collects those the invariant needs, and each program of the driver has them:
state off, and the two states main waits in, are followed by state rx; the state
in which a transmission waits for the crystal by the start of the timer; nothing of
a packet comes after a restart has begun, and a packet is handed over once; a state that
`TransmitData` is about to store (`Loads`) is followed by its next look at the state.

`Inv`, whose parts were checked by TLC first:

* `ProgInv`: each thread has a program of its own operations ahead, in order.
* `StartInv`: before main has left the start-up no other thread sends, and the states of
  the start-up, or a handler that is about to set one, imply that main has still to set
  rx.  A handler of the start-up cannot outlive main, as the task has the higher priority.
* `OffInv`: in state off some thread has still to set rx and cannot return before
  (`LeaveIfBusy`).  Not the thread that set it: the timer, the task and main may restart
  the radio across each other.
* `PacketInv`: in a state of the packet the task has still to transmit or to leave it.
* `TimerInv`: the 433 radio waits for the crystal with the timer running, about to be
  started, or about to restart the radio.  Another handler could stop the timer in between;
  it does not, because the task has the higher priority and finishes first.  This is
  where the priorities matter, and why nothing of the kind holds of the 4068 radio.
* `PacketsInv`: packets that are out, in the FIFO, in preparation by the task and to be begun
  by the dequeue thread are together no more than the transmissions.  `aired <= sends`
  alone is not inductive: a packet could be prepared twice.

* `RadioTypeOK` and `NeverLeftStranded` follow.  For the second: when no thread is ready,
  only main can have anything to do (`OnlyMainWaits`), so none of the operations that
  the parts of `Inv` promise is still to come, and their states are excluded.

### Only model-checked
* The liveness properties and those of the form "always ... leads to for ever"
  (`SilentPeerGoesOffline`, `EachRadioSupervised`, `EventuallyReset`, `AcceptedIsSent`,
  `ReceptionReturns`, `StartUpEnds`, `SendGoesOut`, `PanelRecovers`, `AlarmCeases`,
  `OpenEnds`, `OutageShown`, `OutageEnds`): out of the prover's reach.
* `NeverDeaf` of `Ax5043`: beyond `NeverStranded` it is about the registers of the chip and
  the interrupts that wait; its invariant would have to say, for each pair of places in
  the programs of four threads, what masks, power mode and pin are.  As above, TLC's
  result does not depend on the bounds.

## 6. Not modelled

* Of the radio driver: register values, the decoding of FIFO chunks, the calibration of
  the VCO (`axradio_phy_vcocalib` is 0 for both radios) and the wait for the scratch
  register in `Ax5043_Reset`.  A load of a register table is one step; that the static
  index of these loops is shared by both radios (`Radio_Common.c:54, 80, 90`), so that one
  load may cut another one short, is left for the plan.
* Mounting of the file system and the flash ports (pure I/O).
* The kernel, the HAL and the packages, which are vendored or generated and make up
  almost all lines of the repository.  What the program relies on in them is in the
  modules: the ownership rule of `rt_mutex`, priorities, soft timers, `agile_led`.
* `led_rf433_stop`, `led_rf4068_stop`, `ChangeMaxPower`, `BackNormalPower`: called by nothing.
