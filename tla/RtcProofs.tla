------------------------------ MODULE RtcProofs ------------------------------
(***************************************************************************)
(* The interrupt masks and the rate of the clock, for every set of         *)
(* terminals and of frequencies.  The loops of rtc_write are recursive     *)
(* functions in the model; what they compute is proved by induction, as    *)
(* the absence of a least counterexample.                                  *)
(***************************************************************************)
EXTENDS Rtc, WellFoundedInduction, TLAPS

-----------------------------------------------------------------------------
(* Induction *)

\* A set of natural numbers that is not empty has a least element.
LEMMA LeastNat ==
    ASSUME NEW S, S \subseteq Nat, S # {}
    PROVE  \E i \in S : \A j \in S : i <= j
<1>1. PICK i \in S : \A j \in S : ~ (<<j, i>> \in OpToRel(<, Nat))
    BY NatLessThanWellFounded, WFMin
<1>2. \A j \in S : ~(j < i)
    BY <1>1 DEF OpToRel
<1> QED BY <1>2

-----------------------------------------------------------------------------
(* The loops of rtc_write and powerOfTwo *)

OddBody(g, k) == [n \in 1..k |-> IF n % 2 = 1 THEN n ELSE g[n \div 2]]
ShiftBody(g, k) == [n \in 0..k |-> IF n = 0 THEN 0 ELSE 1 + g[n \div 2]]

\* Half of an even number is a smaller number.
LEMMA Halves ==
    ASSUME NEW n \in Nat \ {0}
    PROVE  /\ n \div 2 \in Nat /\ n \div 2 < n
           /\ n % 2 # 1 => n \div 2 >= 1 /\ n = 2 * (n \div 2)
BY SMT

\* The loop of powerOfTwo ends on every number from 1: it defines a function.
LEMMA OddPartDef == OddPart = OddBody(OddPart, MaxAsked)
<1> DEFINE Bad == {k \in Nat : ~ \E g : g = OddBody(g, k)}
<1>1. Bad = {}
  <2> SUFFICES ASSUME Bad # {} PROVE FALSE
    OBVIOUS
  <2>1. PICK k \in Bad : \A j \in Bad : k <= j
    BY LeastNat
  <2>2. k # 0
    <3>1. \E g : g = OddBody(g, 0)
      <4>1. \A g : OddBody(g, 0) = [n \in {} |-> 0]
        BY DEF OddBody
      <4> QED BY <4>1
    <3> QED BY <3>1
  <2>3. k - 1 \in Nat /\ k - 1 \notin Bad
    BY <2>1, <2>2
  <2>4. PICK g : g = OddBody(g, k - 1)
    BY <2>3
  <2> DEFINE h == [n \in 1..k |-> IF n < k THEN g[n]
                                  ELSE IF n % 2 = 1 THEN n ELSE g[n \div 2]]
  <2>5. \A n \in 1..k : h[n] = IF n % 2 = 1 THEN n ELSE h[n \div 2]
    <3> SUFFICES ASSUME NEW n \in 1..k
                 PROVE  h[n] = IF n % 2 = 1 THEN n ELSE h[n \div 2]
        OBVIOUS
    <3>1. n % 2 # 1 => n \div 2 \in 1..k /\ n \div 2 < k /\ h[n \div 2] = g[n \div 2]
        BY Halves
    <3>2. CASE n = k
        BY <3>1, <3>2
    <3>3. CASE n < k
      <4>1. n \in 1..(k - 1)
        BY <3>3
      <4>2. g[n] = IF n % 2 = 1 THEN n ELSE g[n \div 2]
        BY <2>4, <4>1 DEF OddBody
      <4> QED BY <3>1, <3>3, <4>2
    <3> QED BY <2>1, <3>2, <3>3
  <2>6. h = OddBody(h, k)
    <3> HIDE DEF h
    <3>1. h = [n \in 1..k |-> h[n]]
        BY DEF h
    <3> QED BY <2>5, <3>1 DEF OddBody
  <2> QED BY <2>1, <2>6
<1>2. \A k \in Nat : \E g : g = OddBody(g, k)
    BY <1>1
<1>3. MaxAsked \in Nat
    BY RtcAssumption
<1> HIDE DEF Bad
<1>4. \E g : g = OddBody(g, MaxAsked)
    BY <1>2, <1>3, SMT
<1> QED BY <1>4, Zenon DEF OddPart, OddBody

\* The loop of lines 87-91 ends on every number: it defines a function.
LEMMA ShiftsDef == Shifts = ShiftBody(Shifts, MaxAsked)
<1> DEFINE Bad == {k \in Nat : ~ \E g : g = ShiftBody(g, k)}
<1>1. Bad = {}
  <2> SUFFICES ASSUME Bad # {} PROVE FALSE
    OBVIOUS
  <2>1. PICK k \in Bad : \A j \in Bad : k <= j
    BY LeastNat
  <2>2. k # 0
    <3> DEFINE z == [n \in 0..0 |-> 0]
    <3>1. z = ShiftBody(z, 0)
        BY DEF ShiftBody
    <3> QED BY <3>1
  <2>3. k - 1 \in Nat /\ k - 1 \notin Bad
    BY <2>1, <2>2
  <2>4. PICK g : g = ShiftBody(g, k - 1)
    BY <2>3
  <2> DEFINE h == [n \in 0..k |-> IF n < k THEN g[n] ELSE 1 + g[n \div 2]]
  <2>5. \A n \in 0..k : h[n] = IF n = 0 THEN 0 ELSE 1 + h[n \div 2]
    <3> SUFFICES ASSUME NEW n \in 0..k
                 PROVE  h[n] = IF n = 0 THEN 0 ELSE 1 + h[n \div 2]
        OBVIOUS
    <3>1. n # 0 => n \div 2 \in 0..k /\ n \div 2 < k /\ h[n \div 2] = g[n \div 2]
        BY Halves
    <3>2. CASE n = k
        BY <2>2, <3>1, <3>2
    <3>3. CASE n < k
      <4>1. n \in 0..(k - 1)
        BY <3>3
      <4>2. g[n] = IF n = 0 THEN 0 ELSE 1 + g[n \div 2]
        BY <2>4, <4>1 DEF ShiftBody
      <4> QED BY <3>1, <3>3, <4>2
    <3> QED BY <2>1, <3>2, <3>3
  <2>6. h = ShiftBody(h, k)
    <3> HIDE DEF h
    <3>1. h = [n \in 0..k |-> h[n]]
        BY DEF h
    <3> QED BY <2>5, <3>1 DEF ShiftBody
  <2> QED BY <2>1, <2>6
<1>2. \A k \in Nat : \E g : g = ShiftBody(g, k)
    BY <1>1
<1>3. MaxAsked \in Nat
    BY RtcAssumption
<1> HIDE DEF Bad
<1>4. \E g : g = ShiftBody(g, MaxAsked)
    BY <1>2, <1>3, SMT
<1> QED BY <1>4, Zenon DEF Shifts, ShiftBody

Powers == {1, 2, 4, 8, 16, 32, 64, 128, 256, 512, 1024}

\* One pass of each loop.
LEMMA Unroll ==
    /\ \A n \in 1..MaxAsked : OddPart[n] = IF n % 2 = 1 THEN n ELSE OddPart[n \div 2]
    /\ \A n \in 0..MaxAsked : Shifts[n] = IF n = 0 THEN 0 ELSE 1 + Shifts[n \div 2]
<1>1. \A n \in 1..MaxAsked :
        OddBody(OddPart, MaxAsked)[n] = IF n % 2 = 1 THEN n ELSE OddPart[n \div 2]
    BY DEF OddBody
<1>2. \A n \in 0..MaxAsked :
        ShiftBody(Shifts, MaxAsked)[n] = IF n = 0 THEN 0 ELSE 1 + Shifts[n \div 2]
    BY DEF ShiftBody
<1> QED BY <1>1, <1>2, OddPartDef, ShiftsDef

\* Doubling a number adds one pass to each loop.
LEMMA Doubled ==
    ASSUME NEW m \in Nat, m >= 1, 2 * m <= MaxAsked
    PROVE  OddPart[2 * m] = OddPart[m] /\ Shifts[2 * m] = 1 + Shifts[m]
<1>1. 2 * m \in 1..MaxAsked /\ 2 * m \in 0..MaxAsked
    BY RtcAssumption
<1>2. (2 * m) % 2 # 1 /\ (2 * m) \div 2 = m
    OBVIOUS
<1> QED BY <1>1, <1>2, Unroll

\* Up to 1024, powerOfTwo accepts the powers of two and nothing else.
LEMMA PowersOfTwo ==
    ASSUME NEW n \in 1..MaxAsked, n <= 1024
    PROVE  powerOfTwo(n) <=> n \in Powers
<1>1. ASSUME OddPart[n] = 1 PROVE n \in Powers
  <2> DEFINE Bad == {m \in 1..MaxAsked : m <= 1024 /\ OddPart[m] = 1 /\ m \notin Powers}
  <2> SUFFICES ASSUME Bad # {} PROVE FALSE
    BY <1>1
  <2>0. Bad \subseteq Nat
    BY RtcAssumption
  <2> HIDE DEF Bad
  <2>1. PICK k \in Bad : \A j \in Bad : k <= j
    BY <2>0, LeastNat
  <2> USE DEF Bad
  <2>2. k \in Nat \ {0} /\ k \in 1..MaxAsked /\ k <= 1024 /\ k \notin Powers
    BY <2>1
  <2>3. k % 2 # 1
    <3>1. k % 2 = 1 => OddPart[k] = k
        BY <2>2, Unroll
    <3>2. k # 1
        BY <2>2 DEF Powers
    <3> QED BY <2>1, <3>1, <3>2
  <2>4. k \div 2 \in Nat /\ k \div 2 >= 1 /\ k \div 2 < k /\ k = 2 * (k \div 2)
    BY <2>2, <2>3, Halves
  <2>5. OddPart[k \div 2] = 1
    BY <2>1, <2>3, Unroll
  <2>6. k \div 2 \in Powers
    BY <2>1, <2>2, <2>4, <2>5, RtcAssumption
  <2> QED BY <2>2, <2>4, <2>6 DEF Powers
<1>2. \A p \in Powers : OddPart[p] = 1
  <2>1. OddPart[1] = 1
    <3>1. 1 \in 1..MaxAsked
        BY RtcAssumption
    <3> QED BY <3>1, Unroll
  <2>2. \A m \in Nat : m >= 1 /\ 2 * m <= MaxAsked => OddPart[2 * m] = OddPart[m]
    BY Doubled
  <2> QED BY <2>1, <2>2, RtcAssumption DEF Powers
<1> QED BY <1>1, <1>2 DEF powerOfTwo

\* What the shifting loop counts for the powers of two it is called with.
LEMMA ShiftCounts ==
    /\ Shifts[0] = 0 /\ Shifts[1] = 1 /\ Shifts[2] = 2 /\ Shifts[4] = 3
    /\ Shifts[8] = 4 /\ Shifts[16] = 5 /\ Shifts[32] = 6 /\ Shifts[64] = 7
    /\ Shifts[128] = 8 /\ Shifts[256] = 9
<1>1. 0 \in 0..MaxAsked /\ 1 \in 0..MaxAsked /\ 1 \div 2 = 0
    BY RtcAssumption
<1>2. Shifts[0] = 0
    BY <1>1, Unroll
<1>3. Shifts[1] = 1
    BY <1>1, <1>2, Unroll
<1>4. \A m \in Nat : m >= 1 /\ 2 * m <= MaxAsked => Shifts[2 * m] = 1 + Shifts[m]
    BY Doubled
<1> QED BY <1>2, <1>3, <1>4, RtcAssumption

\* The rate rtc_write computes for a frequency, and the frequency the clock
\* runs at with it: what is promised, for every frequency from 1.
LEMMA RateIsRight ==
    ASSUME NEW f \in 1..MaxAsked
    PROVE  RateNibble(f) \in 6..15 /\ Hertz(RateNibble(f)) = Promised(f)
<1>2. Accepted(f) = IF f \in Powers THEN f ELSE 512
    BY PowersOfTwo DEF Accepted, MAX_RTC_FREQ, Powers
<1>3. /\ 1 \div 4 = 0 /\ 2 \div 4 = 0 /\ 4 \div 4 = 1 /\ 8 \div 4 = 2
      /\ 16 \div 4 = 4 /\ 32 \div 4 = 8 /\ 64 \div 4 = 16 /\ 128 \div 4 = 32
      /\ 256 \div 4 = 64 /\ 512 \div 4 = 128 /\ 1024 \div 4 = 256
    OBVIOUS
<1>4. Promised(f) = IF f \in Powers \ {1} THEN f ELSE IF f = 1 THEN 2 ELSE 512
    BY DEF Promised, Powers
<1>5. CASE f \in {1, 2}
  <2>1. RateNibble(f) = 15 /\ Promised(f) = 2
    BY <1>2, <1>3, <1>4, <1>5, ShiftCounts DEF RateNibble, Rate, MAX_RTC_RATE, Powers
  <2>2. 2 ^ (15 - 1) = 16384
    OBVIOUS
  <2> QED BY <2>1, <2>2 DEF Hertz
<1>6. CASE f = 4
  <2>1. RateNibble(f) = 14 /\ Promised(f) = 4
    BY <1>2, <1>3, <1>4, <1>6, ShiftCounts DEF RateNibble, Rate, MAX_RTC_RATE, Powers
  <2>2. 2 ^ (14 - 1) = 8192
    OBVIOUS
  <2> QED BY <2>1, <2>2 DEF Hertz
<1>7. CASE f = 8
  <2>1. RateNibble(f) = 13 /\ Promised(f) = 8
    BY <1>2, <1>3, <1>4, <1>7, ShiftCounts DEF RateNibble, Rate, MAX_RTC_RATE, Powers
  <2>2. 2 ^ (13 - 1) = 4096
    OBVIOUS
  <2> QED BY <2>1, <2>2 DEF Hertz
<1>8. CASE f = 16
  <2>1. RateNibble(f) = 12 /\ Promised(f) = 16
    BY <1>2, <1>3, <1>4, <1>8, ShiftCounts DEF RateNibble, Rate, MAX_RTC_RATE, Powers
  <2>2. 2 ^ (12 - 1) = 2048
    OBVIOUS
  <2> QED BY <2>1, <2>2 DEF Hertz
<1>9. CASE f = 32
  <2>1. RateNibble(f) = 11 /\ Promised(f) = 32
    BY <1>2, <1>3, <1>4, <1>9, ShiftCounts DEF RateNibble, Rate, MAX_RTC_RATE, Powers
  <2>2. 2 ^ (11 - 1) = 1024
    OBVIOUS
  <2> QED BY <2>1, <2>2 DEF Hertz
<1>10. CASE f = 64
  <2>1. RateNibble(f) = 10 /\ Promised(f) = 64
    BY <1>2, <1>3, <1>4, <1>10, ShiftCounts DEF RateNibble, Rate, MAX_RTC_RATE, Powers
  <2>2. 2 ^ (10 - 1) = 512
    OBVIOUS
  <2> QED BY <2>1, <2>2 DEF Hertz
<1>11. CASE f = 128
  <2>1. RateNibble(f) = 9 /\ Promised(f) = 128
    BY <1>2, <1>3, <1>4, <1>11, ShiftCounts DEF RateNibble, Rate, MAX_RTC_RATE, Powers
  <2>2. 2 ^ (9 - 1) = 256
    OBVIOUS
  <2> QED BY <2>1, <2>2 DEF Hertz
<1>12. CASE f = 256
  <2>1. RateNibble(f) = 8 /\ Promised(f) = 256
    BY <1>2, <1>3, <1>4, <1>12, ShiftCounts DEF RateNibble, Rate, MAX_RTC_RATE, Powers
  <2>2. 2 ^ (8 - 1) = 128
    OBVIOUS
  <2> QED BY <2>1, <2>2 DEF Hertz
<1>13. CASE f = 512 \/ f \notin Powers
  <2>1. RateNibble(f) = 7 /\ Promised(f) = 512
    BY <1>2, <1>3, <1>4, <1>13, ShiftCounts DEF RateNibble, Rate, MAX_RTC_RATE, Powers
  <2>2. 2 ^ (7 - 1) = 64
    OBVIOUS
  <2> QED BY <2>1, <2>2 DEF Hertz
<1>14. CASE f = 1024
  <2>1. RateNibble(f) = 6 /\ Promised(f) = 1024
    BY <1>2, <1>3, <1>4, <1>14, ShiftCounts DEF RateNibble, Rate, MAX_RTC_RATE, Powers
  <2>2. 2 ^ (6 - 1) = 32
    OBVIOUS
  <2> QED BY <2>1, <2>2 DEF Hertz
<1> QED BY <1>5, <1>6, <1>7, <1>8, <1>9, <1>10, <1>11, <1>12, <1>13, <1>14 DEF Powers

-----------------------------------------------------------------------------
(* The inductive invariant *)

\* No write is under way before the devices are up, and a write that passed the
\* loop of powerOfTwo has a frequency of at least 1.
WritersUp ==
    /\ boot < 5 => \A t \in Terminals : pc[t] = "idle"
    /\ \A t \in Terminals : pc[t] \in WritePCs => freq[t] >= 1

\* A handled IRQ, and the cascade from i8259_init on, is unmasked at all times:
\* disable_irq never sets a bit.
MasksOpen == /\ handlers \cap masked = {}
             /\ boot >= 1 => IRQ_SLAVE_8259 \notin masked

\* The IRQs with a handler.
Devices == {IRQ_PIT, IRQ_KEYBOARD, IRQ_RTC}

\* Exactly what the handler that runs has yet to acknowledge is in service, and
\* handlers come after the cascade is open.
Served ==
    /\ \/ isr = NoIsr /\ inservice = {}
       \/ \E n \in Devices : isr = [irq |-> n, at |-> "eoi"]
                             /\ inservice = InServiceFor(n)
       \/ \E n \in Devices : isr = [irq |-> n, at |-> "work"] /\ inservice = {}
    /\ handlers \subseteq Devices
    /\ boot = 0 => handlers = {}

\* As long as no interrupt came between the two ports, a writer that is midway
\* finds register A selected, carries the right divider, and the clock runs as
\* the last write asked.
PortsKept ==
    ~hit => /\ (\E t \in Terminals : pc[t] \in Midway) => index = "A"
            /\ \A t \in Terminals : pc[t] \in {"reselect", "put"} => prev[t]
            /\ regA.div
            /\ Hertz(regA.rate) = Promised(want)

RInv == TypeOK /\ WritersUp /\ MasksOpen /\ Served /\ PortsKept

\* The machine starts with everything masked and the clock at 1024 Hz.
LEMMA RInit == Init => RInv
<1> SUFFICES ASSUME Init PROVE RInv
    OBVIOUS
<1>1. TypeOK
  <2>0. /\ masked \subseteq IRQs /\ handlers \subseteq IRQs
        /\ inservice \subseteq IRQs /\ armed \in BOOLEAN /\ hit \in BOOLEAN
    BY Zenon DEF Init
  <2>1. boot \in 0..5 /\ index \in {"none", "A", "B", "C"}
    BY DEF Init
  <2>5. isr \in [irq : 0..16, at : {"none", "eoi", "work"}]
    BY DEF Init, NoIsr
  <2>2. regA \in [div : BOOLEAN, rate : 6..15]
    BY DEF Init
  <2>3. /\ rtc_flag \in [Terminals -> 0..1]
        /\ pc \in [Terminals -> {"idle", "spin", "loop"} \cup WritePCs]
        /\ prev \in [Terminals -> BOOLEAN]
    BY DEF Init
  <2>4. freq \in [Terminals -> 0..MaxAsked] /\ want \in 1..MaxAsked
    <3>1. 2 \in 0..MaxAsked /\ 1024 \in 1..MaxAsked
      BY RtcAssumption
    <3> QED BY <3>1 DEF Init
  <2> QED BY <2>0, <2>1, <2>2, <2>3, <2>4, <2>5 DEF TypeOK
<1>2. WritersUp /\ MasksOpen /\ Served
    BY DEF Init, WritersUp, MasksOpen, Served, WritePCs
<1>3. PortsKept
  <2>1. 2 ^ (6 - 1) = 32
    OBVIOUS
  <2>2. Hertz(6) = 1024 /\ Promised(1024) = 1024
    BY <2>1 DEF Hertz, Promised
  <2> QED BY <2>2 DEF Init, PortsKept, Midway
<1> QED BY <1>1, <1>2, <1>3 DEF RInv

\* Every step keeps the types; the rate a write stores is one of the clock's.
LEMMA RType == TypeOK /\ WritersUp /\ [Next]_vars => TypeOK'
<1> SUFFICES ASSUME TypeOK, WritersUp, [Next]_vars PROVE TypeOK'
    OBVIOUS
<1> USE DEF TypeOK
<1>1. CASE Boot
  <2>1. /\ boot' \in 0..5 /\ masked' \subseteq IRQs /\ handlers' \subseteq IRQs
        /\ index' \in {"none", "A", "B", "C"} /\ armed' \in BOOLEAN
    <3> USE DEF BootStep, add_irq, enable_irq
    <3>1. CASE i8259_init
      BY <3>1 DEF i8259_init
    <3>2. CASE keyboard_init
      BY <3>2 DEF keyboard_init, IRQs, IRQ_KEYBOARD
    <3>3. CASE rtc_init
      BY <3>3 DEF rtc_init
    <3>4. CASE rtc_init_add
      BY <3>4 DEF rtc_init_add, IRQs, IRQ_RTC
    <3>5. CASE pit_init
      BY <3>5 DEF pit_init, IRQs, IRQ_PIT
    <3> QED BY <1>1, <3>1, <3>2, <3>3, <3>4, <3>5 DEF Boot
  <2>2. UNCHANGED devices
    BY <1>1 DEF Boot, i8259_init, keyboard_init, rtc_init, rtc_init_add, pit_init
  <2> QED BY <2>1, <2>2 DEF devices
<1>2. CASE HandlerStep
  <2>1. CASE pit_handler_eoi \/ keyboard_handler_eoi \/ rtc_handler_eoi
    BY <2>1 DEF pit_handler_eoi, keyboard_handler_eoi, rtc_handler_eoi, Acknowledge,
                tasks
  <2>2. CASE OtherWork
    BY <2>2 DEF OtherWork, NoIsr, tasks
  <2>3. CASE rtc_handler
    <3>1. hit' \in BOOLEAN
      BY <2>3, Zenon DEF rtc_handler
    <3> QED BY <2>3, <3>1 DEF rtc_handler, NoIsr, tasks
  <2> QED BY <1>2, <2>1, <2>2, <2>3 DEF HandlerStep
<1>7. ASSUME NEW n \in handlers, Deliver(n) PROVE TypeOK'
  <2>1. n \in 0..16 /\ n \in IRQs /\ IRQ_SLAVE_8259 \in IRQs
    BY DEF IRQs, IRQ_SLAVE_8259
  <2>2. inservice' \subseteq IRQs
    BY <1>7, <2>1 DEF Deliver, InServiceFor
  <2>3. armed' \in BOOLEAN
    BY <1>7, Zenon DEF Deliver
  <2> QED BY <1>7, <2>1, <2>2, <2>3 DEF Deliver
<1>3. ASSUME NEW t \in Terminals, ReadStep(t) PROVE TypeOK'
    BY <1>3 DEF ReadStep, ReadStart, ReadEnd, Step, rest, WritePCs
<1>4. ASSUME NEW t \in Terminals, WriteWork(t) PROVE TypeOK'
  <2>1. CASE WriteMask(t)
    BY <2>1 DEF WriteMask, Step, rest, WritePCs, disable_irq
  <2>2. CASE WriteSelect(t) \/ WriteReselect(t)
    BY <2>2 DEF WriteSelect, WriteReselect, Step, rest, WritePCs
  <2>3. CASE WriteGet(t)
    <3>1. prev' \in [Terminals -> BOOLEAN]
      <4>1. (index = "A" /\ regA.div) \in BOOLEAN
        BY Zenon
      <4> QED BY <2>3, <4>1 DEF WriteGet
    <3> QED BY <2>3, <3>1 DEF WriteGet, Step, rest, WritePCs
  <2>4. CASE WritePut(t)
    <3>1. freq[t] \in 1..MaxAsked
      BY <2>4, RtcAssumption DEF WritePut, Step, WritersUp, WritePCs
    <3>2. RateNibble(freq[t]) \in 6..15
      BY <3>1, RateIsRight
    <3>3. regA' \in [div : BOOLEAN, rate : 6..15]
      BY <2>4, <3>2 DEF WritePut
    <3> QED BY <2>4, <3>1, <3>3 DEF WritePut, Step, rest, WritePCs
  <2>5. CASE WriteUnmask(t)
    <3>1. 2 \in 0..MaxAsked
      BY RtcAssumption
    <3> QED BY <2>5, <3>1 DEF WriteUnmask, Step, rest, WritePCs, enable_irq
  <2> QED BY <1>4, <2>1, <2>2, <2>3, <2>4, <2>5 DEF WriteWork
<1>5. ASSUME NEW t \in Terminals, NEW f \in Freqs, WriteStart(t, f) PROVE TypeOK'
  <2>1. f \in 0..MaxAsked
    BY RtcAssumption
  <2> QED BY <1>5, <2>1 DEF WriteStart, Step, rest, WritePCs
<1>6. CASE UNCHANGED vars
    BY <1>6 DEF vars
<1> QED BY <1>1, <1>2, <1>3, <1>4, <1>5, <1>6, <1>7 DEF Next

\* Every step keeps the rest of the invariant.
LEMMA RStep == RInv /\ [Next]_vars => RInv'
<1> SUFFICES ASSUME RInv, [Next]_vars PROVE RInv'
    OBVIOUS
<1>0. TypeOK /\ TypeOK'
    BY RType DEF RInv
<1>1. CASE Boot
  <2> USE DEF Boot, i8259_init, keyboard_init, rtc_init, rtc_init_add, pit_init,
              BootStep
  <2>1. \A t \in Terminals : pc[t] = "idle"
    BY <1>0, <1>1 DEF RInv, WritersUp
  <2>2. UNCHANGED <<inservice, isr, regA, pc, freq, prev, want, hit>>
    BY <1>1 DEF devices
  <2>3. WritersUp' /\ PortsKept'
    BY <2>1, <2>2 DEF RInv, WritersUp, PortsKept, WritePCs, Midway
  <2>4. MasksOpen'
    BY <1>0, <1>1 DEF add_irq, enable_irq, RInv, MasksOpen, TypeOK, devices
  <2>5. Served'
    <3>1. isr = NoIsr /\ inservice = {}
      BY <1>1 DEF RInv, Served, NoIsr
    <3>2. handlers' \subseteq Devices /\ boot' # 0
      BY <1>0, <1>1 DEF add_irq, RInv, Served, Devices, TypeOK
    <3> QED BY <2>2, <3>1, <3>2 DEF Served
  <2> QED BY <1>0, <2>3, <2>4, <2>5 DEF RInv
<1>2. CASE HandlerStep
  <2>1. UNCHANGED tasks
    BY <1>2 DEF HandlerStep, pit_handler_eoi, keyboard_handler_eoi, rtc_handler_eoi,
                Acknowledge, OtherWork, rtc_handler
  <2>2. Served'
    <3> USE DEF RInv, Served, Running, NoIsr
    <3>1. CASE pit_handler_eoi \/ keyboard_handler_eoi \/ rtc_handler_eoi
      BY <2>1, <3>1 DEF pit_handler_eoi, keyboard_handler_eoi, rtc_handler_eoi,
         Acknowledge, send_eoi, InServiceFor, Devices, IRQ_PIT, IRQ_KEYBOARD,
         IRQ_RTC, IRQ_SLAVE_8259, tasks
    <3>2. CASE OtherWork \/ rtc_handler
      BY <2>1, <3>2 DEF OtherWork, rtc_handler, tasks
    <3> QED BY <1>2, <3>1, <3>2 DEF HandlerStep
  <2>3. PortsKept'
    <3>1. CASE rtc_handler
      <4>1. ~hit' => ~hit /\ \A t \in Terminals : pc[t] \notin Midway
        BY <3>1 DEF rtc_handler
      <4> QED BY <2>1, <4>1 DEF RInv, PortsKept, tasks
    <3>2. CASE ~rtc_handler
      BY <1>2, <2>1, <3>2 DEF HandlerStep, pit_handler_eoi, keyboard_handler_eoi,
         rtc_handler_eoi, Acknowledge, OtherWork, RInv, PortsKept, tasks
    <3> QED BY <3>1, <3>2
  <2> QED BY <1>0, <2>1, <2>2, <2>3 DEF RInv, WritersUp, MasksOpen, tasks
<1>6. ASSUME NEW n \in handlers, Deliver(n) PROVE RInv'
  <2>1. Served'
    BY <1>6 DEF Deliver, InterruptsOn, RInv, Served, NoIsr
  <2> QED BY <1>0, <1>6, <2>1 DEF Deliver, RInv, WritersUp, MasksOpen, PortsKept
<1>3. ASSUME NEW t \in Terminals,
             ReadStep(t) \/ \E f \in Freqs : WriteStart(t, f)
      PROVE  RInv'
  <2>2. UNCHANGED <<boot, handlers, inservice, isr, hit, masked, index, regA, prev,
                    want>>
    BY <1>3 DEF ReadStep, ReadStart, ReadEnd, WriteStart, Step, rest
  <2>3. /\ \E p \in {"idle", "spin", "loop", "mask"} : pc' = [pc EXCEPT ![t] = p]
        /\ boot = 5
        /\ pc'[t] = "mask" => freq'[t] >= 1
        /\ \A u \in Terminals \ {t} : freq'[u] = freq[u]
    BY <1>0, <1>3, RtcAssumption
        DEF ReadStep, ReadStart, ReadEnd, WriteStart, Step, rest, TypeOK, RInv, WritersUp
  <2>4. WritersUp'
    BY <1>0, <2>2, <2>3 DEF RInv, WritersUp, WritePCs, TypeOK
  <2>5. PortsKept'
    BY <1>0, <2>2, <2>3 DEF RInv, PortsKept, Midway, TypeOK
  <2> QED BY <1>0, <2>2, <2>4, <2>5 DEF RInv, MasksOpen, Served
<1>4. ASSUME NEW t \in Terminals, WriteWork(t) PROVE RInv'
  <2>1. /\ UNCHANGED <<boot, handlers, inservice, isr, hit>>
        /\ boot = 5
        /\ pc[t] \in WritePCs
        /\ \E p \in {"idle"} \cup WritePCs : pc' = [pc EXCEPT ![t] = p]
        /\ masked' \subseteq masked
        /\ freq' = freq \/ freq' = [freq EXCEPT ![t] = 2]
    BY <1>0, <1>4 DEF WriteWork, WriteMask, WriteSelect, WriteGet, WriteReselect, WritePut,
                WriteUnmask, Step, rest, WritePCs, disable_irq, enable_irq, RInv,
                WritersUp, TypeOK
  <2>2. WritersUp'
    BY <1>0, <2>1 DEF RInv, WritersUp, TypeOK
  <2>3. MasksOpen'
    BY <2>1 DEF RInv, MasksOpen
  <2>4. PortsKept'
    <3> SUFFICES ASSUME ~hit' PROVE PortsKept'
      BY DEF PortsKept
    <3>0. /\ (\E u \in Terminals : pc[u] \in Midway) => index = "A"
          /\ \A u \in Terminals : pc[u] \in {"reselect", "put"} => prev[u]
          /\ regA.div
          /\ Hertz(regA.rate) = Promised(want)
      BY <2>1 DEF RInv, PortsKept
    <3> USE DEF PortsKept, Midway, TypeOK
    <3>1. CASE WriteMask(t) \/ WriteUnmask(t)
      BY <1>0, <3>0, <3>1 DEF WriteMask, WriteUnmask, Step, rest
    <3>2. CASE WriteSelect(t) \/ WriteReselect(t)
      BY <1>0, <3>0, <3>2 DEF WriteSelect, WriteReselect, Step, rest
    <3>3. CASE WriteGet(t)
      <4>1. index = "A" /\ regA.div
        BY <3>0, <3>3 DEF WriteGet, Step
      <4> QED BY <1>0, <3>0, <3>3, <4>1 DEF WriteGet, Step, rest
    <3>4. CASE WritePut(t)
      <4>1. index = "A" /\ prev[t]
        BY <3>0, <3>4 DEF WritePut, Step
      <4>2. freq[t] \in 1..MaxAsked
        BY <1>0, <3>4, RtcAssumption DEF WritePut, Step, RInv, WritersUp, WritePCs
      <4>3. Hertz(RateNibble(freq[t])) = Promised(freq[t])
        BY <4>2, RateIsRight
      <4>4. regA'.div /\ regA'.rate = RateNibble(freq[t]) /\ want' = freq[t]
        BY <3>4, <4>1 DEF WritePut
      <4>5. Hertz(regA'.rate) = Promised(want')
        BY <4>3, <4>4
      <4> QED BY <1>0, <3>0, <3>4, <4>4, <4>5 DEF WritePut, Step, rest
    <3> QED BY <1>4, <3>1, <3>2, <3>3, <3>4 DEF WriteWork
  <2> QED BY <1>0, <2>1, <2>2, <2>3, <2>4 DEF RInv, Served
<1>5. CASE UNCHANGED vars
    BY <1>0, <1>5 DEF vars, RInv, WritersUp, MasksOpen, Served, PortsKept
<1> QED BY <1>1, <1>2, <1>3, <1>4, <1>5, <1>6 DEF Next

-----------------------------------------------------------------------------
(* Theorems *)

\* The inductive invariant holds at all times.
THEOREM RInvariance == Spec => []RInv
BY RInit, RStep, PTL DEF Spec

\* At all times no IRQ with a handler is masked between two calls of rtc_write,
\* for any number of terminals and any frequencies (add_irq, enable_irq and
\* disable_irq, i8259.c 49-96).
THEOREM HandledStaysOpen == Spec => []HandledOpen
<1>1. RInv => HandledOpen
    BY DEF RInv, HandledOpen, MasksOpen
<1> QED BY <1>1, RInvariance, PTL

\* At all times, for any number of terminals: between two handlers nothing is
\* left in service and the cascade is open, so that every IRQ with a handler
\* that is not masked can be delivered (send_eoi, i8259.c 99-113, as called by
\* the handlers of the timer, the keyboard and the clock).
THEOREM NothingHeldUp == Spec => []NoneHeldUp
<1>1. RInv => NoneHeldUp
  <2> SUFFICES ASSUME RInv, isr = NoIsr, NEW n \in handlers \ masked
               PROVE  Deliverable(n)
    BY DEF NoneHeldUp
  <2>1. inservice = {}
    BY DEF RInv, Served, NoIsr
  <2>2. IRQ_SLAVE_8259 \notin masked
    BY DEF RInv, Served, MasksOpen, TypeOK
  <2> QED BY <2>1, <2>2 DEF Deliverable
<1> QED BY <1>1, RInvariance, PTL

\* Without an interrupt between the two ports the clock runs at the frequency
\* promised for the last one written, whatever was asked and however the writes
\* of several terminals interleave (rtc_write, rtc.c 82-101).
THEOREM RateAsWritten == Spec => []RateSetUnlessHit
<1>1. RInv => RateSetUnlessHit
    BY DEF RInv, PortsKept, RateSetUnlessHit, RateSet
<1> QED BY <1>1, RInvariance, PTL

=============================================================================
