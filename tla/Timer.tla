--------------------------------- MODULE Timer ---------------------------------
(***************************************************************************)
(* DIV and TIMA (timer_tick of core/ppu.c), which are caught up by the     *)
(* cycles elapsed at each ppu_tick, and the part of the dispatcher that    *)
(* decides when that is: the service before each block and the inner loop  *)
(* of a halted processor, which calls ppu_tick only at the LCD's deadline. *)
(*                                                                         *)
(* A model cycle is one machine cycle, 4 of cpu->cycles.  `ref` is not in  *)
(* the program: it is a timer moved by every cycle.                        *)
(***************************************************************************)
EXTENDS Integers

CONSTANTS
  ByteMod,      \* 2^8, the width of DIV and TIMA
  DivPeriod,    \* cycles per increment of DIV
  Periods,      \* tima_period_lookup, by the rates a guest selects
  TmaValues,    \* the reload values a guest stores
  MaxBlock,     \* the most cycles between two services
  Deadlines,    \* how far ahead of a ppu_tick the LCD's next event can be
  LongestDeadline, \* the most of them: LCD_FRAME_CYCLES, with the LCD off
  RateChange    \* whether a guest changes the rate whatever TIMA has accumulated

Off == 0        \* TAC with its enable bit clear
Rates == DOMAIN Periods

ASSUME TimerAssumption ==
  /\ {ByteMod, DivPeriod, MaxBlock} \subseteq Nat \ {0}
  /\ Rates \subseteq Nat \ {Off} /\ Rates # {}
  /\ \A r \in Rates : Periods[r] \in Nat \ {0}
  /\ TmaValues \subseteq 0..(ByteMod - 1) /\ 0 \in TmaValues
  /\ LongestDeadline \in Nat \ {0}
  /\ Deadlines \subseteq 1..LongestDeadline /\ Deadlines # {}
  /\ RateChange \in BOOLEAN

VARIABLES
  pc,        \* "service", "exec": a block runs, "halt": the inner loop
  div, tima, tma, tac,  \* the timer's registers
  divAcc,    \* timer_div_acc
  timaAcc,   \* timer_tima_acc
  since,     \* cpu->cycles - timer_last_cycles
  irq,       \* the timer's bit of IF
  ahead,     \* ppu_next_event_cycles - cpu->cycles, 0 when reached
  halted, ime, \* the processor's
  ref,       \* the reference
  late       \* cycles the halted processor has slept past a due interrupt

timerVars == <<div, tima, divAcc, timaAcc, since>>
regVars == <<tma, tac>>
cpuVars == <<halted, ime>>
vars == <<pc, timerVars, regVars, irq, ahead, cpuVars, ref, late>>

LateBound == LongestDeadline + 1

-----------------------------------------------------------------------------
\* The reference over one cycle: prescalers that count up and start again.
RefCycle(t) ==
  LET divs == t.divPhase + 1 = DivPeriod
      on == tac # Off
      timas == on /\ t.timaPhase + 1 >= Periods[tac]
      over == timas /\ t.tima = ByteMod - 1
  IN [div |-> IF divs THEN (t.div + 1) % ByteMod ELSE t.div,
      divPhase |-> IF divs THEN 0 ELSE t.divPhase + 1,
      tima |-> IF over THEN tma ELSE IF timas THEN t.tima + 1 ELSE t.tima,
      timaPhase |-> IF timas THEN 0 ELSE IF on THEN t.timaPhase + 1 ELSE t.timaPhase,
      due |-> t.due \/ over]

Init ==
  /\ pc = "service"
  /\ div = 0 /\ tima = 0 /\ tma = 0 /\ tac = Off
  /\ divAcc = 0 /\ timaAcc = 0 /\ since = 0 /\ irq = FALSE
  /\ ahead = 0 /\ halted = FALSE /\ ime = FALSE
  /\ ref = [div |-> 0, divPhase |-> 0, tima |-> 0, timaPhase |-> 0, due |-> FALSE]
  /\ late = 0

\* The deadline, a cycle later.
Nearer == IF ahead = 0 THEN 0 ELSE ahead - 1

\* How often TIMA is incremented over d cycles: timer_tick returns early when none
\* have passed, whatever has accumulated.
Increments(d) == IF tac = Off \/ d = 0 THEN 0 ELSE (timaAcc + d) \div Periods[tac]

\* Mutated Bumped: nothing is reloaded.
BumpedOver(k) == tima + k

\* What k increments leave in TIMA: an overflow reloads TMA.
Bumped(k) ==
  LET past == tima + k - ByteMod
  IN  IF past < 0 THEN tima + k ELSE tma + (past % (ByteMod - tma))

\* Mutated Overflows: the wrap to 0 is not one.
OverflowsPast(d) == tima + Increments(d) > ByteMod

\* Whether one of them overflows.
Overflows(d) == tima + Increments(d) >= ByteMod

\* Mutated TimerTick: what is left of a DIV period is dropped.
TimerTickRounding(d) ==
  /\ div' = (div + (divAcc + d) \div DivPeriod) % ByteMod
  /\ divAcc' = IF divAcc + d >= DivPeriod THEN 0 ELSE divAcc + d
  /\ tima' = Bumped(Increments(d))
  /\ timaAcc' = IF tac = Off \/ d = 0 THEN timaAcc ELSE (timaAcc + d) % Periods[tac]
  /\ since' = 0

\* timer_tick, d cycles after the last one; IF is left to the caller.
TimerTick(d) ==
  /\ div' = (div + (divAcc + d) \div DivPeriod) % ByteMod
  /\ divAcc' = (divAcc + d) % DivPeriod
  /\ tima' = Bumped(Increments(d))
  /\ timaAcc' = IF tac = Off \/ d = 0 THEN timaAcc ELSE (timaAcc + d) % Periods[tac]
  /\ since' = 0

\* ppu_tick: the timer, then the LCD, whose deadline n moves on once reached.
PpuTick(d, n) ==
  /\ TimerTick(d)
  /\ IF n = 0 THEN ahead' \in Deadlines ELSE ahead' = n

\* Mutated Take: only an interrupt that is taken ends halt mode.
TakeIfEnabled(i, r) ==
  LET taken == i /\ ime
  IN  /\ irq' = (i /\ ~taken)
      /\ halted' = (halted /\ ~taken)
      /\ ime' = (ime /\ ~taken)
      /\ ref' = [r EXCEPT !.due = @ /\ ~taken]

\* The rest of sm83_service_interrupts, where IF & IE is the timer's bit i and r
\* the reference: halt mode ends, and the interrupt is taken if IME is set.
Take(i, r) ==
  LET taken == i /\ ime
  IN  /\ irq' = (i /\ ~taken)
      /\ halted' = (halted /\ ~i)
      /\ ime' = (ime /\ ~taken)
      /\ ref' = [r EXCEPT !.due = @ /\ ~taken]

\* The top of the dispatcher's loop.
Service ==
  /\ pc = "service"
  /\ PpuTick(since, ahead)
  /\ Take(irq \/ Overflows(since), ref)
  /\ late' = IF halted' THEN late ELSE 0
  /\ pc' = IF halted' THEN "halt" ELSE "exec"
  /\ UNCHANGED regVars

\* One pass of the inner loop: a cycle, ppu_tick if the LCD's deadline is reached,
\* and the service if an interrupt is requested.  It ends then, or when the
\* caller's cycle budget does.
HaltStep ==
  LET d == since + 1
      ticks == Nearer = 0 \/ irq
      i == irq \/ (ticks /\ Overflows(d))
  IN
  /\ pc = "halt"
  /\ IF ticks THEN PpuTick(d, Nearer)
     ELSE since' = d /\ ahead' = Nearer /\ UNCHANGED <<div, tima, divAcc, timaAcc>>
  /\ Take(i, RefCycle(ref))
  /\ late' = IF i THEN 0 ELSE IF ref.due /\ late < LateBound THEN late + 1 ELSE late
  /\ pc' \in IF i THEN {"service"} ELSE {"halt", "service"}
  /\ UNCHANGED regVars

\* The block executes for a cycle.
Cycle ==
  /\ pc = "exec" /\ since < MaxBlock
  /\ since' = since + 1 /\ ahead' = Nearer
  /\ ref' = RefCycle(ref)
  /\ UNCHANGED <<pc, div, tima, divAcc, timaAcc, regVars, irq, cpuVars, late>>

\* The block ends, after at least a cycle; its last instruction may have been
\* HALT, or one that sets or clears IME.
EndBlock ==
  /\ pc = "exec" /\ since > 0
  /\ pc' = "service"
  /\ \/ halted' = TRUE /\ UNCHANGED ime
     \/ ime' \in BOOLEAN /\ UNCHANGED halted
  /\ UNCHANGED <<timerVars, regVars, irq, ahead, ref, late>>

\* mmu_write8 to the timer's registers, in an instruction sm83_step began with
\* ppu_tick, which leaves the flush before DIV and TIMA nothing to do.
Writing == pc = "exec" /\ since = 0

WriteDiv ==
  /\ Writing
  /\ div' = 0 /\ divAcc' = 0
  /\ ref' = [ref EXCEPT !.div = 0, !.divPhase = 0]
  /\ UNCHANGED <<pc, tima, timaAcc, since, regVars, irq, ahead, cpuVars, late>>

WriteTima(v) ==
  /\ Writing
  /\ tima' = v /\ timaAcc' = 0
  /\ ref' = [ref EXCEPT !.tima = v, !.timaPhase = 0]
  /\ UNCHANGED <<pc, div, divAcc, since, regVars, irq, ahead, cpuVars, late>>

WriteTma(v) ==
  /\ Writing
  /\ tma' = v
  /\ UNCHANGED <<pc, timerVars, tac, irq, ahead, cpuVars, ref, late>>

WriteTac(r) ==
  /\ Writing
  /\ (r # Off /\ ~RateChange) => timaAcc < Periods[r]
  /\ tac' = r
  /\ UNCHANGED <<pc, timerVars, tma, irq, ahead, cpuVars, ref, late>>

Next ==
  \/ Service \/ HaltStep \/ Cycle \/ EndBlock
  \/ WriteDiv
  \/ \E v \in TmaValues : WriteTima(v) \/ WriteTma(v)
  \/ \E r \in Rates \union {Off} : WriteTac(r)

\* The dispatcher's loops keep running; what the guest does is its own affair.
Fairness == WF_vars(Service) /\ WF_vars(HaltStep)

Spec == Init /\ [][Next]_vars /\ Fairness

-----------------------------------------------------------------------------
TypeOK ==
  /\ pc \in {"service", "exec", "halt"}
  /\ div \in 0..(ByteMod - 1) /\ tima \in 0..(ByteMod - 1) /\ tma \in 0..(ByteMod - 1)
  /\ tac \in Rates \union {Off}
  /\ divAcc \in 0..(DivPeriod - 1) /\ timaAcc \in Nat
  /\ since \in 0..(MaxBlock + LongestDeadline)
  /\ ahead \in 0..LongestDeadline
  /\ irq \in BOOLEAN /\ halted \in BOOLEAN /\ ime \in BOOLEAN
  /\ ref \in [div : 0..(ByteMod - 1), divPhase : 0..(DivPeriod - 1),
              tima : 0..(ByteMod - 1), timaPhase : Nat, due : BOOLEAN]
  /\ late \in 0..LateBound

\* Counting elapsed cycles in one go is counting them one by one: what the guest
\* finds in DIV, TIMA and IF after a ppu_tick is what a timer moved by every cycle
\* holds (timer_tick's accumulators, kept across rate changes and reloads).
TimerOnTime ==
  pc = "exec" /\ since = 0 =>
    div = ref.div /\ tima = ref.tima /\ irq = ref.due

\* A halted processor whose timer interrupt is due sleeps on at most until the
\* LCD's next deadline.
SleepBound == late < LongestDeadline

\* A processor that halts with the timer running does not sleep for ever (IE
\* allows the timer's interrupt, IME or not).
Wakes == halted /\ tac # Off ~> ~halted
================================================================================
