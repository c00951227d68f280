------------------------------- MODULE Ax5043 -------------------------------
(***************************************************************************)
(* The driver of one radio (src/radio/Radio_Common.c, Radio_433.c,         *)
(* Radio_4068.c) and what it relies on in the AX5043 chip.                 *)
(*                                                                         *)
(* Four threads write the registers of the chip over SPI: main, which      *)
(* starts the radio up; the task of the radio, woken by the interrupts of  *)
(* the chip; the dequeue thread, which starts a transmission; and the      *)
(* timer thread, which restarts a radio whose transmission does not end.   *)
(* They share ubRFState and have no lock.  The code is the same for both   *)
(* radios but for the priority of the task: 8 for the 433 radio, so that   *)
(* it preempts the dequeue thread, 9 for the 4068 radio, so that it takes  *)
(* turns with it.                                                          *)
(*                                                                         *)
(* What a thread has still to do is a sequence of operations, each one     *)
(* access of the chip, of ubRFState, of the timer or of IRQ_Sem; a step    *)
(* takes the first one.  Registers are reduced to those the control flow   *)
(* depends on: the power mode, the two interrupt masks, the mask of radio  *)
(* events, and which of the register tables is in force.                   *)
(***************************************************************************)
EXTENDS Naturals, Sequences

CONSTANTS
    MaxSends,    \* bound on the transmissions
    MaxPackets,  \* bound on the packets that are received
    MaxHangs     \* bound on the times the chip stops answering

ASSUME RadioAssumption == MaxSends \in Nat /\ MaxPackets \in Nat /\ MaxHangs \in Nat

VARIABLES
    taskPrio,    \* the priority of the task: which of the two radios this is
    chip,        \* the chip
    ubRFState,   \* the state of the driver
    IRQ_Sem,     \* interrupts the task has not taken yet
    sendTimer,   \* the send timer: off, on, or due: it may run out
    todo,        \* what each thread has still to do
    rested,      \* all work has come to rest since the last transmission began
    heard,       \* a packet has been received since all work last came to rest
    sends, packets, hangs,   \* bounds
    orderly,     \* history: transmissions began at rest and were not disturbed
    met,         \* history: a restart met the beginning of a transmission
    aired        \* history: packets that went out with the registers for sending

vars == <<taskPrio, chip, ubRFState, IRQ_Sem, sendTimer, todo,
          rested, heard, sends, packets, hangs, orderly, met, aired>>

Threads == {"timer", "task", "dequeue", "main"}

-----------------------------------------------------------------------------
(* The chip.                                                               *)

ChipAfterReset ==
    [pwr |-> "down", mask0 |-> "none", mask1 |-> "none", revmask |-> "none",
     regs |-> "none", xtal |-> FALSE, rng |-> "none", rx |-> FALSE,
     tx |-> "empty", done |-> FALSE, hung |-> FALSE]

FifoOn(c) == c.pwr \in {"fifo", "rx", "tx"}

(* The level of the interrupt pin. *)
Pin(c) ==
    \/ c.mask0 = "rx" /\ c.rx
    \/ c.mask0 = "free" /\ FifoOn(c)
    \/ c.mask0 = "radio" /\ c.revmask = "done" /\ c.done
    \/ c.mask1 = "xtal" /\ c.xtal
    \/ c.mask1 = "pll" /\ c.rng = "done"

(* RADIOSTATE is 0 when a transmission has ended; what it is when there    *)
(* was nothing to send is left open.                                       *)
MayBeBusy(c) == c.pwr \in {"down", "rx"} \/ (c.pwr = "tx" /\ c.tx # "sent")
MayBeIdle(c) == c.pwr \in {"xtal", "fifo"} \/ (c.pwr = "tx" /\ c.tx # "queued")

OnAir(c) == c.pwr = "tx" /\ c.tx = "queued"

(* A register is written; without power there is neither crystal nor FIFO. *)
Write(c, reg, value) ==
    LET d == [c EXCEPT ![reg] = value]
    IN  [d EXCEPT !.xtal = @ /\ d.pwr # "down",
                  !.rx = @ /\ FifoOn(d),
                  !.tx = IF FifoOn(d) THEN @ ELSE "empty"]

(* The interrupt is the rising edge of the pin. *)
Edge(c, d) == IF Pin(d) /\ ~Pin(c) THEN 1 ELSE 0

-----------------------------------------------------------------------------
(* What the functions of the driver do, as sequences of operations.        *)

Preamble == {"tx_longpreamble", "tx_shortpreamble"}

(* The state that TransmitData goes on to. *)
AfterPreamble(s) == IF s = "tx_longpreamble" THEN "tx_shortpreamble" ELSE "tx_packet"

Sending == Preamble \cup {"tx_xtalwait", "tx_packet", "tx_waitdone"}

Set(reg, value) == <<reg, value>>
State(s) == <<"state", s>>
Do(what) == <<what, "">>

Ax5043_OFF ==
    <<Set("mask0", "none"), Set("mask1", "none"), Set("pwr", "xtal"),
      State("off"), Set("pwr", "down")>>

(* Mutant of Kick: the pin is not moved. *)
NoKick == << >>

(* PINFUNCIRQ = 1, 0, 3: the driver itself raises the pin once. *)
Kick == <<Do("kick")>>

Ax5043_Reset == <<Do("reset"), Set("pwr", "down")>> \o Kick

(* Mutant of rf_restart: the state is left at off. *)
RestartStaysOff == Ax5043_OFF \o Ax5043_Reset \o <<Set("regs", "init")>>

(* The radio is off, is reset and gets its registers; reception is         *)
(* switched on by the task when it takes the interrupt of the kick.        *)
rf_restart ==
    Ax5043_OFF \o Ax5043_Reset \o <<Set("regs", "init"), State("rx")>>

ReceiveData == <<Set("done", FALSE), Do("drain")>>

Ax5043Receiver_Continuous ==
    <<Set("revmask", "rx"), Set("mask0", "rx"), Do("clear"),
      Set("pwr", "rx"), State("rx"), Set("mask1", "none")>>

Ax5043ReceiverON ==
    <<Do("clear"), Set("pwr", "rx"), State("rx"), Set("mask0", "rx"),
      Set("mask1", "none")>>

(* Mutant of RadioXtalON: the state follows the interrupt mask. *)
RadioXtalONLate ==
    <<Set("mask1", "xtal"), Set("pwr", "xtal"), State("wait_xtal"),
      <<"while", "wait_xtal">>>>

RadioXtalON ==
    <<State("wait_xtal"), Set("mask1", "xtal"), Set("pwr", "xtal"),
      <<"while", "wait_xtal">>>>

PllRanging ==
    <<State("pll_ranging"), Set("mask1", "pll"), Set("rng", "busy"),
      <<"while", "pll_ranging">>, State("off"), Set("mask1", "none")>>

(* rf_startup, then the end of rf_433_init. *)
rf_startup ==
    Ax5043_OFF \o Ax5043_Reset
        \o <<Set("regs", "init"), Set("regs", "tx"), Set("pwr", "xtal")>>
        \o RadioXtalON \o PllRanging
        \o <<Set("pwr", "down"), Set("regs", "init"), Set("regs", "rx"),
             State("rx"), Set("regs", "rx")>>
        \o Ax5043ReceiverON

(* Mutant of Normal_send: the send timer is not started. *)
NormalSendUntimed ==
    <<Set("pwr", "xtal"), Set("pwr", "fifo"), Set("regs", "tx"),
      State("tx_xtalwait"), Set("mask0", "none"), Set("mask1", "xtal")>>

(* Mutant of Normal_send: the registers for sending are not written. *)
NormalSendOldRegs ==
    <<Set("pwr", "xtal"), Set("pwr", "fifo"), State("tx_xtalwait"),
      Set("mask0", "none"), Set("mask1", "xtal"), <<"timer", "on">>>>

(* Normal_send, then the start of the send timer (rf_433_send). *)
Normal_send ==
    <<Set("pwr", "xtal"), Set("pwr", "fifo"), Set("regs", "tx"),
      State("tx_xtalwait"), Set("mask0", "none"), Set("mask1", "xtal"),
      <<"timer", "on">>>>

(* Mutant of PktEnd: the state stays that of the packet. *)
PktEndAgain ==
    <<Do("commit"), Set("revmask", "done"), Set("mask0", "radio")>>

(* The end of TransmitData. *)
PktEnd ==
    <<Do("commit"), State("tx_waitdone"), Set("revmask", "done"),
      Set("mask0", "radio")>>

(* What the task does with an interrupt in state s. *)
Handler(s) ==
    CASE s = "rx" ->
             ReceiveData \o <<Set("regs", "rx")>> \o Ax5043Receiver_Continuous
      [] s = "wait_xtal" -> <<Set("mask1", "none"), State("xtal_ready")>>
      [] s = "pll_ranging" -> <<Set("mask1", "none"), State("pll_ranging_done")>>
      [] s = "tx_xtalwait" ->
             <<Set("done", FALSE), Do("clear"), Set("mask1", "none"),
               Set("mask0", "free"), State("tx_longpreamble"),
               Do("transmit"), Set("pwr", "tx")>>
      [] s = "pll_settling" -> <<Set("revmask", "none"), State("pll_settled")>>
      [] s \in Preamble \cup {"tx_packet"} ->
             <<Do("transmit")>>
      [] s = "tx_waitdone" ->
             <<<<"timer", "off">>, Set("done", FALSE), Do("leave_if_busy"),
               Set("revmask", "none")>> \o rf_restart
      [] OTHER -> <<Set("mask1", "none"), Set("mask0", "none")>>

-----------------------------------------------------------------------------
(* The scheduler: a thread runs only when none of higher priority is ready.*)

Prio == [timer |-> 4, task |-> taskPrio, dequeue |-> 9, main |-> 10]

Idle(t) == todo[t] = << >>
Waits(t) == ~Idle(t) /\ Head(todo[t]) = <<"while", ubRFState>>
Ready(t) ==
    \/ ~Idle(t) /\ ~Waits(t)
    \/ t = "task" /\ IRQ_Sem > 0
Runs(t) == \A u \in Threads : Prio[u] < Prio[t] => ~Ready(u)
(* The dequeue thread is in the middle of Normal_send. *)
Preparing == Len(todo["dequeue"]) > 1

Quiet == \A t \in Threads : ~Ready(t)

(* main has left the start-up of the radio. *)
Started == Idle("main")

Init ==
    /\ taskPrio \in {8, 9}
    /\ chip = ChipAfterReset /\ ubRFState = "off"
    /\ IRQ_Sem = 0 /\ sendTimer = "off"
    /\ todo = [t \in Threads |-> IF t = "main" THEN rf_startup ELSE << >>]
    /\ rested = FALSE /\ heard = FALSE /\ sends = 0 /\ packets = 0 /\ hangs = 0
    /\ orderly = TRUE /\ met = FALSE /\ aired = 0

-----------------------------------------------------------------------------
(* One operation of thread t.                                              *)

(* The chip changes; a rising edge of the pin releases IRQ_Sem. *)
ChipBecomes(c) ==
    /\ chip' = c
    /\ IRQ_Sem' = IRQ_Sem + Edge(chip, c)

Continue(t) == todo' = [todo EXCEPT ![t] = Tail(@)]

(* A register of the chip is written, or read with a side effect. *)
Access(t, op) ==
    /\ op[1] \in DOMAIN chip
    /\ ChipBecomes(Write(chip, op[1], op[2]))
    /\ Continue(t)
    /\ UNCHANGED <<ubRFState, sendTimer>>

SetState(t, op) ==
    /\ op[1] = "state"
    /\ ubRFState' = op[2]
    /\ Continue(t)
    /\ UNCHANGED <<chip, IRQ_Sem, sendTimer>>

SetTimer(t, op) ==
    /\ op[1] = "timer"
    /\ sendTimer' = op[2]
    /\ Continue(t)
    /\ UNCHANGED <<chip, ubRFState, IRQ_Sem>>

(* The loop that sleeps while ubRFState has not moved. *)
LeaveWhile(t, op) ==
    /\ op[1] = "while" /\ ~Waits(t)
    /\ Continue(t)
    /\ UNCHANGED <<chip, ubRFState, IRQ_Sem, sendTimer>>

SpiReset(t, op) ==
    /\ op[1] = "reset"
    /\ ChipBecomes(ChipAfterReset)
    /\ Continue(t)
    /\ UNCHANGED <<ubRFState, sendTimer>>

RaisePin(t, op) ==
    /\ op[1] = "kick"
    /\ IRQ_Sem' = IRQ_Sem + 1
    /\ Continue(t)
    /\ UNCHANGED <<chip, ubRFState, sendTimer>>

(* FIFOSTAT = 3. *)
ClearFifo(t, op) ==
    /\ op[1] = "clear"
    /\ ChipBecomes([chip EXCEPT !.rx = FALSE, !.tx = "empty"])
    /\ Continue(t)
    /\ UNCHANGED <<ubRFState, sendTimer>>

(* The loop of ReceiveData: a packet switches its interrupt off. *)
Drain(t, op) ==
    /\ op[1] = "drain"
    /\ ChipBecomes([chip EXCEPT !.rx = FALSE,
                        !.mask0 = IF chip.rx /\ @ = "rx" THEN "none" ELSE @])
    /\ Continue(t)
    /\ UNCHANGED <<ubRFState, sendTimer>>

(* One turn of the loop of TransmitData: switch(ubRFState), and the next   *)
(* state is stored when the preamble, or its end, is in the FIFO.  The     *)
(* preamble and the packet need less than the FIFO holds; without power it *)
(* takes nothing.                                                          *)
Transmit(t, op) ==
    /\ op[1] = "transmit"
    /\ \/ /\ ubRFState \in Preamble /\ FifoOn(chip)
          /\ todo' = [todo EXCEPT ![t] = <<State(AfterPreamble(ubRFState))>> \o @]
       \/ /\ ubRFState = "tx_packet" \/ (ubRFState \in Preamble /\ ~FifoOn(chip))
          /\ todo' = [todo EXCEPT ![t] = PktEnd \o Tail(@)]
       \/ /\ ubRFState \notin Preamble \cup {"tx_packet"}
          /\ Continue(t)
    /\ UNCHANGED <<chip, ubRFState, IRQ_Sem, sendTimer>>

Commit(t, op) ==
    /\ op[1] = "commit"
    /\ ChipBecomes([chip EXCEPT !.tx = IF FifoOn(chip) THEN "queued" ELSE @])
    /\ Continue(t)
    /\ UNCHANGED <<ubRFState, sendTimer>>

(* case trxstate_tx_waitdone leaves if RADIOSTATE is not 0. *)
LeaveIfBusy(t, op) ==
    /\ op[1] = "leave_if_busy"
    /\ \/ MayBeBusy(chip) /\ todo' = [todo EXCEPT ![t] = << >>]
       \/ MayBeIdle(chip) /\ Continue(t)
    /\ UNCHANGED <<chip, ubRFState, IRQ_Sem, sendTimer>>

Step(t) ==
    /\ ~Idle(t) /\ Runs(t)
    /\ LET op == Head(todo[t])
       IN  \/ Access(t, op) \/ SetState(t, op) \/ SetTimer(t, op)
           \/ LeaveWhile(t, op) \/ SpiReset(t, op) \/ RaisePin(t, op)
           \/ ClearFifo(t, op) \/ Drain(t, op) \/ Transmit(t, op)
           \/ Commit(t, op) \/ LeaveIfBusy(t, op)
    /\ met' = (met \/ (Head(todo[t])[1] = "reset" /\ Preparing))
    /\ UNCHANGED <<taskPrio, rested, heard, sends, packets, hangs, orderly, aired>>

-----------------------------------------------------------------------------
(* What makes a thread start.                                              *)

(* The task takes an interrupt. *)
Take ==
    /\ Idle("task") /\ IRQ_Sem > 0 /\ Runs("task")
    /\ IRQ_Sem' = IRQ_Sem - 1
    /\ todo' = [todo EXCEPT !["task"] = Handler(ubRFState)]
    /\ orderly' = (orderly /\ ~Preparing)
    /\ UNCHANGED <<taskPrio, chip, ubRFState, sendTimer, rested, heard, sends,
                   packets, hangs, met, aired>>

TimerDue ==
    IF sendTimer = "on" /\ (OnAir(chip) => chip.hung) THEN "due" ELSE sendTimer

(* Durations: transmissions begin at least 300 ms apart, the send timer    *)
(* runs for 1000 ms and a packet is on the air for some 500 ms, while what *)
(* the threads do after an interrupt and the start of the crystal take a   *)
(* few: they come to rest between two transmissions and between two        *)
(* packets that are received, and so does the chip before the timer runs   *)
(* out, unless it hangs.                                                   *)
Rest ==
    /\ ~rested \/ heard \/ TimerDue # sendTimer
    /\ Started /\ Quiet
    /\ chip.xtal \/ chip.hung
    /\ rested' = TRUE /\ heard' = FALSE
    /\ sendTimer' = TimerDue
    /\ UNCHANGED <<taskPrio, chip, ubRFState, IRQ_Sem, todo, sends,
                   packets, hangs, orderly, met, aired>>

(* The dequeue thread has a message. *)
Send ==
    /\ Started /\ Idle("dequeue") /\ Runs("dequeue") /\ rested
    /\ sends < MaxSends
    /\ rested' = FALSE
    /\ sends' = sends + 1
    /\ todo' = [todo EXCEPT !["dequeue"] = Normal_send]
    /\ orderly' = (orderly /\ Idle("task") /\ IRQ_Sem = 0 /\ chip.xtal /\ ~OnAir(chip))
    /\ met' = (met \/ ~chip.xtal)
    /\ UNCHANGED <<taskPrio, chip, ubRFState, IRQ_Sem, sendTimer, heard,
                   packets, hangs, aired>>

(* The send timer runs out. *)
Timeout ==
    /\ sendTimer = "due" /\ Idle("timer")
    /\ sendTimer' = "off"
    /\ todo' = [todo EXCEPT !["timer"] =
                    IF ubRFState = "rx" THEN << >>
                    ELSE <<Set("revmask", "none")>> \o rf_restart]
    /\ orderly' = (orderly /\ Quiet)
    /\ UNCHANGED <<taskPrio, chip, ubRFState, IRQ_Sem, rested, heard, sends,
                   packets, hangs, met, aired>>

-----------------------------------------------------------------------------
(* What the chip does.                                                     *)

ChipOnly == UNCHANGED <<taskPrio, ubRFState, sendTimer, todo, rested, sends, orderly,
                     met>>

XtalStarts ==
    /\ ~chip.hung /\ chip.pwr # "down" /\ ~chip.xtal
    /\ ChipBecomes([chip EXCEPT !.xtal = TRUE])
    /\ ChipOnly /\ UNCHANGED <<heard, packets, hangs, aired>>

RangingEnds ==
    /\ ~chip.hung /\ chip.xtal /\ chip.rng = "busy"
    /\ ChipBecomes([chip EXCEPT !.rng = "done"])
    /\ ChipOnly /\ UNCHANGED <<heard, packets, hangs, aired>>

PacketArrives ==
    /\ ~chip.hung /\ chip.xtal /\ chip.pwr = "rx" /\ chip.regs = "rx" /\ ~chip.rx
    /\ packets < MaxPackets /\ ~heard
    /\ packets' = packets + 1 /\ heard' = TRUE
    /\ ChipBecomes([chip EXCEPT !.rx = TRUE, !.done = TRUE])
    /\ ChipOnly /\ UNCHANGED <<hangs, aired>>

PacketSent ==
    /\ ~chip.hung /\ chip.xtal /\ OnAir(chip)
    /\ ChipBecomes([chip EXCEPT !.tx = "sent", !.done = TRUE])
    /\ aired' = IF chip.regs = "tx" THEN aired + 1 ELSE aired
    /\ ChipOnly /\ UNCHANGED <<heard, packets, hangs>>

(* Fault: the chip stops in the middle of a transmission, until its reset. *)
Hang ==
    /\ ubRFState \in Sending /\ chip.pwr \in {"fifo", "tx"} /\ ~chip.hung
    /\ hangs < MaxHangs
    /\ hangs' = hangs + 1
    /\ ChipBecomes([chip EXCEPT !.hung = TRUE])
    /\ ChipOnly /\ UNCHANGED <<heard, packets, aired>>

ChipSteps == XtalStarts \/ RangingEnds \/ PacketSent

Next ==
    \/ \E t \in Threads : Step(t)
    \/ Take \/ Rest \/ Send \/ Timeout
    \/ ChipSteps \/ PacketArrives \/ Hang

(* Threads that are ready run, a delay ends, and the chip does what it was *)
(* told unless it hangs.                                                   *)
Fairness ==
    /\ \A t \in Threads : WF_vars(Step(t))
    /\ WF_vars(Take) /\ WF_vars(Rest) /\ WF_vars(Timeout)
    /\ WF_vars(XtalStarts) /\ WF_vars(RangingEnds) /\ WF_vars(PacketSent)

Spec == Init /\ [][Next]_vars
FairSpec == Spec /\ Fairness

-----------------------------------------------------------------------------
(* Properties.                                                             *)

StartStates == {"wait_xtal", "xtal_ready", "pll_ranging", "pll_ranging_done"}

(* Types; the states of the start-up never return and no other thread is   *)
(* at work before its end; and no transmission puts a second packet on the *)
(* air, whatever restarts and interrupts fall into it (TransmitData leaves *)
(* the states of the packet once, Radio_Common.c).                         *)
TypeOK ==
    /\ taskPrio \in {8, 9} /\ IRQ_Sem \in Nat
    /\ ubRFState \in {"off", "rx"} \cup (IF Started THEN Sending ELSE StartStates)
    /\ chip \in [pwr : {"down", "xtal", "fifo", "rx", "tx"},
                 mask0 : {"none", "rx", "free", "radio"},
                 mask1 : {"none", "xtal", "pll"}, revmask : {"none", "rx", "done"},
                 regs : {"none", "init", "rx", "tx"}, xtal : BOOLEAN,
                 rng : {"none", "busy", "done"}, rx : BOOLEAN,
                 tx : {"empty", "queued", "sent"}, done : BOOLEAN, hung : BOOLEAN]
    /\ sendTimer \in {"off", "on", "due"} /\ DOMAIN todo = Threads
    /\ sends \in 0..MaxSends /\ packets \in 0..MaxPackets /\ hangs \in 0..MaxHangs
    /\ {rested, heard, orderly, met} \subseteq BOOLEAN /\ aired \in 0..sends

(* The driver is never left in a state that no interrupt and no timer gets *)
(* it out of: when no thread has anything to do it is in reception, waits  *)
(* for the crystal or for the end of a packet, or main waits in one of the *)
(* two loops of the start-up.  Without any assumption on the chip and on   *)
(* what falls into what; state off, in which the task would switch all     *)
(* interrupts off, is always left by the thread that set it or by another. *)
(* And the 433 radio never waits for the crystal without the send timer.   *)
NeverStranded ==
    Quiet =>
        IF Started
        THEN /\ ubRFState \in {"rx", "tx_xtalwait", "tx_waitdone"}
             /\ taskPrio = 8 /\ ubRFState = "tx_xtalwait" => sendTimer # "off"
        ELSE ubRFState \in {"wait_xtal", "pll_ranging"}

(* The radio is in reception, with the registers for it. *)
Hearing == ubRFState = "rx" /\ chip.pwr = "rx" /\ chip.regs = "rx" /\ ~chip.hung

(* The next packet raises the pin: the interrupt is on and the pin low. *)
Listening == Hearing /\ chip.mask0 = "rx" /\ ~Pin(chip)

(* A packet is on the air and its end raises the pin. *)
AwaitsDone ==
    /\ ubRFState = "tx_waitdone" /\ OnAir(chip)
    /\ chip.mask0 = "radio" /\ chip.revmask = "done" /\ ~Pin(chip)

(* Whenever no thread has anything to do and no timer runs, the chip will  *)
(* wake the task: it listens, or a packet is on the air whose end is an    *)
(* interrupt.  For the 433 radio this needs only that no restart met the   *)
(* beginning of a transmission, and the chip never hangs without a timer;  *)
(* for the 4068 radio, whose task takes turns with the dequeue thread,     *)
(* that no transmission was disturbed, and a chip may hang without a timer *)
(* (case trxstate_tx_waitdone stops it before the packet is out).  And it  *)
(* is not woken over and over: the interrupts that it has still to take do *)
(* not pile up, however many the driver causes itself.                     *)
NeverDeaf ==
    /\ Started /\ Quiet /\ sendTimer = "off" /\ (IF taskPrio = 8 THEN ~met ELSE orderly)
        => Listening \/ (AwaitsDone /\ (chip.hung => taskPrio = 9))
    /\ IRQ_Sem <= 4

(* After the last transmission the radio returns to reception for good.    *)
(* The send timer achieves that on the 433 radio even if the chip stops in *)
(* the middle and whatever interrupts come while Normal_send is under way; *)
(* the 4068 radio needs undisturbed transmissions and a chip that answers. *)
ReceptionReturns ==
    [](IF taskPrio = 8 THEN chip.hung => ~met ELSE orderly /\ ~chip.hung)
        => <>[]Hearing

(* The two loops of the start-up that wait without a limit come to an end  *)
(* if the chip answers: no interrupt is taken too early or lost.           *)
StartUpEnds == <>Started

(* A transmission that is not disturbed goes out, with the registers for   *)
(* sending.                                                                *)
SendGoesOut == [](orderly /\ hangs = 0) => <>[](aired = sends)

=============================================================================
