-------------------------------- MODULE Rtc --------------------------------
(***************************************************************************)
(* The interrupt controllers and the real-time clock: the masks and the    *)
(* acknowledgement of i8259.c, add_irq (idt.c), the device start-up that   *)
(* entry() runs, the three interrupt handlers as far as the controllers    *)
(* see them, and rtc_read and rtc_write (rtc.c), called by the processes   *)
(* of several terminals with interrupts on.                                *)
(*                                                                         *)
(* A handler runs with interrupts off: `isr' says which one runs and where *)
(* it is, and no process moves before it ends.                             *)
(*                                                                         *)
(* rtc_write reaches a clock register through two ports: it selects the    *)
(* register at one and reads or writes it at the other.  rtc_handler uses  *)
(* the same two ports.                                                     *)
(***************************************************************************)
EXTENDS Integers

CONSTANTS
    Terminals,   \* terminals whose processes use the clock
    MaxAsked,    \* bound on the frequencies that programs ask for
    Freqs        \* frequencies that programs ask for

ASSUME RtcAssumption == /\ MaxAsked \in Nat /\ MaxAsked >= 1024
                        /\ Freqs \subseteq 0..MaxAsked

MAX_RTC_RATE == 9
MAX_RTC_FREQ == 1024
IRQ_PIT == 0
IRQ_KEYBOARD == 1
IRQ_SLAVE_8259 == 2
IRQ_RTC == 8
IRQs == 0..15

VARIABLES
    boot,        \* how far entry() is with the devices
    masked,      \* IRQs whose bit is 1 in master_mask or slave_mask
    handlers,    \* IRQs with a handler in irq_handler_jumptable
    inservice,   \* IRQs delivered and not yet acknowledged
    isr,         \* the handler that runs, and its next statement
    index,       \* clock register selected at RTC_PORT
    regA,        \* register A: divider and rate nibbles
    armed,       \* register C was read: the clock may interrupt again
    rtc_flag,    \* rtc_flag[]: a process of the terminal waits for a tick
    pc,          \* control point of each terminal's process
    freq,        \* its argument of rtc_write
    prev,        \* its local prev: the divider nibble it read
    want,        \* history: frequency of the last write
    hit          \* history: an interrupt used the ports during a write

vars == <<boot, masked, handlers, inservice, isr, index, regA, armed, rtc_flag,
          pc, freq, prev, want, hit>>

WritePCs == {"mask", "select", "get", "reselect", "put", "unmask"}
Midway == {"get", "reselect", "put"}    \* a register is selected or half used

NoIsr == [irq |-> 16, at |-> "none"]    \* 16 is no IRQ: no handler runs
Running(n, at) == isr = [irq |-> n, at |-> at]

-----------------------------------------------------------------------------
(* The rate of a frequency, rtc_write lines 84-91 and powerOfTwo *)

\* What is left of n when it is shifted right while it is even.
OddPart[n \in 1..MaxAsked] == IF n % 2 = 1 THEN n ELSE OddPart[n \div 2]
powerOfTwo(n) == OddPart[n] = 1

\* How often n can be shifted right before it is 0.
Shifts[n \in 0..MaxAsked] == IF n = 0 THEN 0 ELSE 1 + Shifts[n \div 2]

Accepted(f) == IF powerOfTwo(f) /\ f <= MAX_RTC_FREQ THEN f ELSE 512

Rate(f) ==
    LET n == Shifts[Accepted(f) \div 4] IN
    IF n < MAX_RTC_RATE THEN n ELSE MAX_RTC_RATE

\* Line 98: (~rate) & MASK_R.
RateNibble(f) == 15 - Rate(f)

\* The clock's own rule: 32768 Hz shifted right by the nibble less one.
Hertz(nibble) == 32768 \div 2 ^ (nibble - 1)

\* Masks are sets of IRQs and register A holds one of the rates rtc_write can
\* compute (rtc.c 84-98).
TypeOK ==
    /\ boot \in 0..5
    /\ masked \subseteq IRQs /\ handlers \subseteq IRQs /\ inservice \subseteq IRQs
    /\ isr \in [irq : 0..16, at : {"none", "eoi", "work"}]
    /\ index \in {"none", "A", "B", "C"}
    /\ regA \in [div : BOOLEAN, rate : 6..15]
    /\ armed \in BOOLEAN
    /\ rtc_flag \in [Terminals -> 0..1]
    /\ pc \in [Terminals -> {"idle", "spin", "loop"} \cup WritePCs]
    /\ freq \in [Terminals -> 0..MaxAsked]
    /\ prev \in [Terminals -> BOOLEAN]
    /\ want \in 1..MaxAsked
    /\ hit \in BOOLEAN

\* Both controllers start masked; the clock starts at 1024 Hz, divider right.
Init ==
    /\ boot = 0
    /\ masked = IRQs
    /\ handlers = {}
    /\ inservice = {}
    /\ isr = NoIsr
    /\ index = "none"
    /\ regA = [div |-> TRUE, rate |-> 6]
    /\ armed = FALSE
    /\ rtc_flag = [t \in Terminals |-> 0]
    /\ pc = [t \in Terminals |-> "idle"]
    /\ freq = [t \in Terminals |-> 2]
    /\ prev = [t \in Terminals |-> TRUE]
    /\ want = 1024
    /\ hit = FALSE

-----------------------------------------------------------------------------
(* i8259.c *)

enable_irq_Master(n) == masked' = masked \ {n % 8}    \* mutant: always the master
enable_irq(n) == masked' = masked \ {n}

\* The mask of n's controller is ANDed with n's bit: the bit keeps its value
\* and every other bit of that controller becomes 0.
disable_irq(n) ==
    masked' = {m \in masked : m = n \/ (m < 8) # (n < 8)}

\* Acknowledging an IRQ of the slave also acknowledges the cascade.
send_eoi(n) == IF n < 8 THEN {n} ELSE {n, IRQ_SLAVE_8259}

\* What the controllers deliver: unmasked on the whole way, and nothing of the
\* same or of a higher priority in service.
Deliverable(n) ==
    /\ n \notin masked
    /\ \A m \in inservice : (m < 8) = (n < 8) => n < m
    /\ n >= 8 => /\ IRQ_SLAVE_8259 \notin masked
                 /\ \A m \in inservice : m < 8 => IRQ_SLAVE_8259 < m

\* The controllers interrupt the processor: interrupts are on since the sti()
\* of rtc_init, the device has a handler, and the clock asks again only after
\* its register C was read.
InterruptsOn == boot >= 3 /\ isr = NoIsr
InServiceFor(n) == IF n < 8 THEN {n} ELSE {n, IRQ_SLAVE_8259}
Deliver(n) ==
    /\ InterruptsOn
    /\ n \in handlers /\ Deliverable(n)
    /\ n = IRQ_RTC => armed
    /\ inservice' = inservice \cup InServiceFor(n)
    /\ isr' = [irq |-> n, at |-> "eoi"]
    /\ armed' = (armed /\ n # IRQ_RTC)
    /\ UNCHANGED <<boot, masked, handlers, index, regA, rtc_flag, pc, freq, prev,
                   want, hit>>

add_irq(n) == handlers' = handlers \cup {n} /\ enable_irq(n)

-----------------------------------------------------------------------------
(* Start-up, kernel.c 153 and 161-163 *)

devices == <<inservice, isr, regA, rtc_flag, pc, freq, prev, want, hit>>

\* entry() goes on from one call to the next when no handler runs.
BootStep(from) == isr = NoIsr /\ boot = from /\ boot' = from + 1

i8259_init ==
    /\ BootStep(0)
    /\ enable_irq(IRQ_SLAVE_8259)
    /\ UNCHANGED <<handlers, index, armed, devices>>

keyboard_init ==
    /\ BootStep(1)
    /\ add_irq(IRQ_KEYBOARD)
    /\ UNCHANGED <<index, armed, devices>>

\* Up to its sti(), and its call of add_irq.
rtc_init ==
    /\ BootStep(2)
    /\ index' = "B"
    /\ armed' = TRUE
    /\ UNCHANGED <<masked, handlers, devices>>

rtc_init_add ==
    /\ BootStep(3)
    /\ add_irq(IRQ_RTC)
    /\ UNCHANGED <<index, armed, devices>>

pit_init ==
    /\ BootStep(4)
    /\ add_irq(IRQ_PIT)
    /\ UNCHANGED <<index, armed, devices>>

-----------------------------------------------------------------------------
(* The handlers: each acknowledges its IRQ, then does its work and ends. *)

tasks == <<boot, masked, handlers, regA, pc, freq, prev, want>>

Acknowledge(n) ==
    /\ inservice' = inservice \ send_eoi(n)
    /\ isr' = [isr EXCEPT !.at = "work"]
    /\ UNCHANGED <<tasks, index, armed, rtc_flag, hit>>

pit_handler_eoi == Running(IRQ_PIT, "eoi") /\ Acknowledge(IRQ_PIT)

\* Mutant: the line of pit_handler, unchanged.
keyboard_handler_eoi_Pit == Running(IRQ_KEYBOARD, "eoi") /\ Acknowledge(IRQ_PIT)
keyboard_handler_eoi == Running(IRQ_KEYBOARD, "eoi") /\ Acknowledge(IRQ_KEYBOARD)

rtc_handler_eoi == Running(IRQ_RTC, "eoi") /\ Acknowledge(IRQ_RTC)

\* What the timer and the keyboard do next is the business of other modules;
\* both turn interrupts on at the end, in this process or in another.
OtherWork ==
    /\ Running(IRQ_PIT, "work") \/ Running(IRQ_KEYBOARD, "work")
    /\ isr' = NoIsr
    /\ UNCHANGED <<tasks, inservice, index, armed, rtc_flag, hit>>

\* Mutant: the loop of lines 57-59 stops early.
rtc_handler_One ==
    /\ Running(IRQ_RTC, "work")
    /\ isr' = NoIsr
    /\ index' = "C"
    /\ armed' = TRUE
    /\ rtc_flag' = [rtc_flag EXCEPT ![CHOOSE t \in Terminals : TRUE] = 0]
    /\ hit' = (hit \/ \E t \in Terminals : pc[t] \in Midway)
    /\ UNCHANGED <<tasks, inservice>>

\* It selects and reads register C and releases every waiting process.
rtc_handler ==
    /\ Running(IRQ_RTC, "work")
    /\ isr' = NoIsr
    /\ index' = "C"
    /\ armed' = TRUE
    /\ rtc_flag' = [t \in Terminals |-> 0]
    /\ hit' = (hit \/ \E t \in Terminals : pc[t] \in Midway)
    /\ UNCHANGED <<tasks, inservice>>

-----------------------------------------------------------------------------
(* rtc.c *)

rest == <<boot, handlers, inservice, isr, armed, hit>>
Step(t, from, to) ==
    isr = NoIsr /\ pc[t] = from /\ pc' = [pc EXCEPT ![t] = to]

\* rtc_read line 71, and the end of its loop.
ReadStart(t) ==
    /\ boot = 5
    /\ Step(t, "idle", "spin")
    /\ rtc_flag' = [rtc_flag EXCEPT ![t] = 1]
    /\ UNCHANGED <<rest, masked, index, regA, freq, prev, want>>

ReadEnd(t) ==
    /\ rtc_flag[t] = 0
    /\ Step(t, "spin", "idle")
    /\ UNCHANGED <<rest, masked, index, regA, rtc_flag, freq, prev, want>>

\* rtc_write, also from rtc_open with 2 Hz.  The loop of powerOfTwo (line 130)
\* shifts until the lowest bit is 1, and there is none in 0.
WriteStart(t, f) ==
    /\ boot = 5
    /\ Step(t, "idle", IF f = 0 THEN "loop" ELSE "mask")
    /\ freq' = [freq EXCEPT ![t] = f]
    /\ UNCHANGED <<rest, masked, index, regA, rtc_flag, prev, want>>

\* Line 94.
WriteMask(t) ==
    /\ Step(t, "mask", "select")
    /\ disable_irq(IRQ_RTC)
    /\ UNCHANGED <<rest, index, regA, rtc_flag, freq, prev, want>>

\* Line 95.
WriteSelect(t) ==
    /\ Step(t, "select", "get")
    /\ index' = "A"
    /\ UNCHANGED <<rest, masked, regA, rtc_flag, freq, prev, want>>

\* Line 96: the register read is the one selected now; read from C, which the
\* handler has just cleared, the divider bits are wrong.
WriteGet(t) ==
    /\ Step(t, "get", "reselect")
    /\ prev' = [prev EXCEPT ![t] = index = "A" /\ regA.div]
    /\ UNCHANGED <<rest, masked, index, regA, rtc_flag, freq, want>>

\* Line 97.
WriteReselect(t) ==
    /\ Step(t, "reselect", "put")
    /\ index' = "A"
    /\ UNCHANGED <<rest, masked, regA, rtc_flag, freq, prev, want>>

\* Line 98; register C cannot be written.
WritePut_Shifted(t) ==      \* mutant: the rate nibble is one too small
    /\ Step(t, "put", "unmask")
    /\ regA' = [div |-> prev[t], rate |-> RateNibble(freq[t]) - 1]
    /\ want' = freq[t]
    /\ UNCHANGED <<rest, masked, index, rtc_flag, freq, prev>>

WritePut(t) ==
    /\ Step(t, "put", "unmask")
    /\ regA' = IF index = "A"
               THEN [div |-> prev[t], rate |-> RateNibble(freq[t])]
               ELSE regA
    /\ want' = freq[t]
    /\ UNCHANGED <<rest, masked, index, rtc_flag, freq, prev>>

\* Line 99, and the return: the locals are gone.
WriteUnmask(t) ==
    /\ Step(t, "unmask", "idle")
    /\ enable_irq(IRQ_RTC)
    /\ freq' = [freq EXCEPT ![t] = 2] /\ prev' = [prev EXCEPT ![t] = TRUE]
    /\ UNCHANGED <<rest, index, regA, rtc_flag, want>>

-----------------------------------------------------------------------------
Boot == i8259_init \/ keyboard_init \/ rtc_init \/ rtc_init_add \/ pit_init
HandlerStep == \/ pit_handler_eoi \/ keyboard_handler_eoi \/ rtc_handler_eoi
               \/ OtherWork \/ rtc_handler
ReadStep(t) == ReadStart(t) \/ ReadEnd(t)
WriteWork(t) == \/ WriteMask(t) \/ WriteSelect(t) \/ WriteGet(t)
                \/ WriteReselect(t) \/ WritePut(t) \/ WriteUnmask(t)

Next == \/ Boot \/ HandlerStep
        \/ \E n \in handlers : Deliver(n)
        \/ \E t \in Terminals : \/ ReadStep(t) \/ WriteWork(t)
                               \/ \E f \in Freqs : WriteStart(t, f)
Spec == Init /\ [][Next]_vars

\* A handler runs to its end.  The clock's request stays until it is delivered
\* and a process inside a call is scheduled again, although other handlers
\* keep stopping both.
FairSpec ==
    /\ Spec /\ WF_vars(HandlerStep) /\ SF_vars(Deliver(IRQ_RTC))
    /\ \A t \in Terminals : SF_vars(ReadEnd(t)) /\ SF_vars(WriteWork(t))

-----------------------------------------------------------------------------
(* Properties *)

\* All variables keep their types, and once the system is up no IRQ that has a
\* handler is ever masked between two calls of rtc_write (i8259.c 49-96, rtc.c
\* 94 and 99).
HandledOpen ==
    /\ TypeOK
    /\ (boot = 5 /\ \A t \in Terminals : pc[t] = "idle")
        => (handlers \cup {IRQ_SLAVE_8259}) \cap masked = {}

\* Only a mask or a handler that runs can hold up an interrupt: between two
\* handlers the controllers would deliver every IRQ that has a handler and is
\* not masked, none being left in service and the cascade open for the clock
\* (send_eoi, i8259.c 99-113; pit.c 36, keyboard.c 213, rtc.c 47).
NoneHeldUp ==
    isr = NoIsr => \A n \in handlers \ masked : Deliverable(n)

\* The frequency programs get: what they asked for when it is a power of two
\* from 2 to 1024.
Promised(f) == IF f \in {2, 4, 8, 16, 32, 64, 128, 256, 512, 1024} THEN f
               ELSE IF f = 1 THEN 2 ELSE 512

\* After a write the clock runs at the frequency written (rtc.c 77 and 98).
RateSet ==
    (\A t \in Terminals : pc[t] \notin WritePCs)
        => regA.div /\ Hertz(regA.rate) = Promised(want)
\* The same until an interrupt or another write hit the register selection.
RateSetUnlessHit == ~hit => RateSet

\* disable_irq masks the IRQ (i8259.c 74): until enable_irq the clock does not
\* interrupt the write.
DisableMasks ==
    \A t \in Terminals : pc[t] \in WritePCs \ {"mask"} => IRQ_RTC \in masked

\* An IRQ that is let through has a handler of its own; the default entry of
\* the jump table stops the machine (i8259.c 10-12, handler_in_asbly.S 8-11).
OnlyHandledOpen == (IRQs \ masked) \subseteq (handlers \cup {IRQ_SLAVE_8259})

\* Every rtc_read returns (rtc.c 65-73).
ReadReturns == \A t \in Terminals : (pc[t] = "spin") ~> (pc[t] = "idle")

\* powerOfTwo answers for every number (rtc.c 125-126), so every rtc_write
\* returns.
WriteReturns ==
    \A t \in Terminals : (pc[t] \in WritePCs \cup {"loop"}) ~> (pc[t] = "idle")

=============================================================================
