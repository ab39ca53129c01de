------------------------------- MODULE PpuThread -------------------------------
(***************************************************************************)
(* The LCD controller on the other core (core/ppu_thread.c).  In a build   *)
(* with GBJIT_PPU_ASYNC a task on Core 1 calls ppu_tick over and over,     *)
(* while Core 0 runs the dispatcher, moves the clock and serves            *)
(* interrupts; IF is shared and moved by atomic instructions.  Without it  *)
(* Core 0 calls ppu_tick itself.  Two places of Core 0 call into the       *)
(* controller in either build: the HALT loop, and the flush before a store *)
(* to a register of the LCD.                                               *)
(*                                                                         *)
(* Each step is one access to shared memory, or a few that nothing else    *)
(* can tell apart.  The scanline machine, Ppu's subject, is a count of     *)
(* cycles and a line here, with the LCD on.                                *)
(***************************************************************************)
EXTENDS Integers, FiniteSets

CONSTANTS
  CycleMod,    \* values of a cycle stamp: 2^32
  CountMod,    \* values of ppu_lcd_count: 2^16
  LineCycles,  \* LCD_LINE_CYCLES
  Lines,       \* LCD_VERT_LINES
  Height,      \* LCD_HEIGHT, where VBlank begins
  MaxStep,     \* longest block, in cycles
  MaxLag,      \* how far past the LCD's deadline Core 0 runs
  Tasks,       \* FreeRTOS tasks
  Builds       \* builds, and what is done with them; see below

\* The most cycles between two counts: to a deadline that is itself late.
Longest == LineCycles + 2 * (MaxLag + MaxStep)

\* async: GBJIT_PPU_ASYNC.  intrudes: the guest halts or stores to registers
\* of the LCD.  shares: it stores to IF and uses the serial port.  restarts:
\* ppu_thread_stop is called.
ASSUME PpuThreadAssumption ==
  /\ {CountMod, LineCycles, Lines, MaxStep, MaxLag} \subseteq Nat \ {0}
  /\ Height \in 1..(Lines - 1)
  /\ CycleMod \in Nat /\ CycleMod > 2 * (LineCycles + MaxLag + MaxStep)
  /\ CycleMod > Longest
  /\ CountMod > LineCycles + Longest
  /\ Builds \subseteq [async : BOOLEAN, intrudes : BOOLEAN, shares : BOOLEAN,
                      restarts : BOOLEAN]
  /\ "core0" \notin Tasks /\ "none" \notin Tasks

Tickers == {"core0"} \union Tasks
Bits    == {"vblank", "serial"}

VARIABLES
  build,
  cycles,   \* the low word of cpu->cycles
  last,     \* ppu_last_cpu_cycles
  event,    \* ppu_next_event_cycles
  count,    \* ppu_lcd_count
  line,     \* io[LY]
  ifr,      \* io[IF], as the set of its bits
  ime, halted,
  core0,    \* where Core 0 is, when it is not in ppu_tick
  seen,     \* cpu->if_reg, while an interrupt is dispatched
  taking,   \* the interrupt sm83_service_interrupts is dispatching
  at,       \* where each caller of ppu_tick is; "idle": in no call
  delta,    \* its local variables: the cycles to count and
  stamp,    \* what it read from the clock
  alive,    \* tasks that run ppu_task
  handle,   \* s_ppu_task
  run,      \* s_ppu_run
  owed,     \* cycles that passed less cycles counted: a history variable
  asked     \* bits of IF set since they were dispatched or stored, likewise

core0Vars  == <<ime, halted, core0, seen, taking>>
tickVars   == <<at, delta, stamp>>
lineVars   == <<last, event, count, line>>
threadVars == <<alive, handle, run>>
vars == <<build, cycles, lineVars, ifr, core0Vars, tickVars, threadVars, owed,
          asked>>

-----------------------------------------------------------------------------
(* ppu_tick, called by k *)

\* gb_cycles_reached
Reached(now, deadline) == (now - deadline) % CycleMod < CycleMod \div 2

\* Core 0 is at a point of its own code, and in no call of ppu_tick.
At0(label) == core0 = label /\ at["core0"] = "idle"

Goto(k, label) == at' = [at EXCEPT ![k] = label]

\* The early return, or the call of ppu_advance.
Look(k) ==
  /\ at[k] = "look"
  /\ Goto(k, IF Reached(cycles, event) THEN "measure" ELSE "idle")
  /\ UNCHANGED <<build, cycles, lineVars, ifr, core0Vars, delta, stamp,
                 threadVars, owed, asked>>

Measure(k) ==
  /\ at[k] = "measure" /\ Goto(k, "stamp")
  /\ delta' = [delta EXCEPT ![k] = (cycles - last) % CycleMod]
  /\ stamp' = [stamp EXCEPT ![k] = cycles]
  /\ UNCHANGED <<build, cycles, lineVars, ifr, core0Vars, threadVars, owed,
                 asked>>

\* Mutated Stamped: the clock is read a second time.
StampedAgain(k) == cycles

Stamped(k) == stamp[k]

Stamp(k) ==
  /\ at[k] = "stamp" /\ Goto(k, "add")
  /\ last' = Stamped(k) /\ stamp' = [stamp EXCEPT ![k] = 0]
  /\ UNCHANGED <<build, cycles, event, count, line, ifr, core0Vars, delta,
                 threadVars, owed, asked>>

\* Owed stays -1 once a cycle is counted twice, and is at most Longest + 1.
Owing(n) == IF owed < 0 \/ n < 0 THEN -1 ELSE IF n > Longest THEN Longest + 1 ELSE n

\* Mutated Counted: the sum is not cut to 16 bits.
CountedWide(k) == count + delta[k]

Counted(k) == (count + delta[k]) % CountMod

Add(k) ==
  /\ at[k] = "add" /\ Goto(k, "drain")
  /\ count' = Counted(k)
  /\ owed' = Owing(owed - delta[k])
  /\ delta' = [delta EXCEPT ![k] = 0]
  /\ UNCHANGED <<build, cycles, last, event, line, ifr, core0Vars, stamp,
                 threadVars, asked>>

\* One round of the loop of ppu_advance; VBlank is requested by an atomic OR.
Transition(k) ==
  LET next   == (line + 1) % Lines
      raised == IF next = Height THEN {"vblank"} ELSE {}
  IN /\ at[k] = "drain" /\ count >= LineCycles
     /\ count' = count - LineCycles
     /\ line' = next
     /\ ifr' = ifr \union raised /\ asked' = asked \union raised
     /\ UNCHANGED <<build, cycles, last, event, core0Vars, tickVars,
                    threadVars, owed>>

\* ppu_recompute_next_event
Settle(k) ==
  /\ at[k] = "drain" /\ count < LineCycles /\ Goto(k, "idle")
  /\ event' = (cycles + LineCycles - count) % CycleMod
  /\ UNCHANGED <<build, cycles, last, count, line, ifr, core0Vars, delta,
                 stamp, threadVars, owed, asked>>

Tick(k) == Look(k) \/ Measure(k) \/ Stamp(k) \/ Add(k) \/ Transition(k)
           \/ Settle(k)

-----------------------------------------------------------------------------
(* Core 1 *)

\* ppu_thread_start, which app_main calls before the dispatcher.
ThreadStart ==
  /\ build.async /\ (At0("boot") \/ At0("run")) /\ handle = "none"
  /\ \E t \in Tasks \ alive : handle' = t /\ alive' = alive \union {t}
  /\ run' = TRUE /\ core0' = "run"
  /\ UNCHANGED <<build, cycles, lineVars, ifr, ime, halted, seen, taking,
                 tickVars, owed, asked>>

\* ppu_thread_stop does not wait for the task.
ThreadStop ==
  /\ build.restarts /\ At0("run") /\ handle # "none"
  /\ run' = FALSE /\ handle' = "none"
  /\ UNCHANGED <<build, cycles, lineVars, ifr, core0Vars, tickVars, alive, owed,
                 asked>>

\* The loop of ppu_task: another call, or the end of the task.
TaskLoop(t) ==
  /\ t \in alive /\ at[t] = "idle"
  /\ IF run THEN Goto(t, "look") /\ UNCHANGED alive
     ELSE alive' = alive \ {t} /\ UNCHANGED at
  /\ UNCHANGED <<build, cycles, lineVars, ifr, core0Vars, delta, stamp, handle,
                 run, owed, asked>>

-----------------------------------------------------------------------------
(* Core 0 *)

\* Time passes, whatever ppu_tick makes of it.
Passed(n) == /\ ~Reached(cycles, event + MaxLag)
             /\ cycles' = (cycles + n) % CycleMod
             /\ owed' = Owing(owed + n)

\* A block, or an interpreted instruction.
Block ==
  /\ At0("run") /\ ~halted /\ core0' = "top"
  /\ \E n \in 1..MaxStep : Passed(n)
  /\ UNCHANGED <<build, lineVars, ifr, ime, halted, seen, taking, tickVars,
                 threadVars, asked>>

\* mmu_write8 to a register of the LCD, DIV or TIMA calls ppu_flush.
FlushingStore ==
  /\ At0("run") /\ ~halted /\ build.intrudes
  /\ Goto("core0", "measure")
  /\ UNCHANGED <<build, cycles, lineVars, ifr, core0Vars, delta, stamp,
                 threadVars, owed, asked>>

\* A transfer on the serial port completes at once.
Serial ==
  /\ At0("run") /\ ~halted /\ build.shares
  /\ ifr' = ifr \union {"serial"} /\ asked' = asked \union {"serial"}
  /\ UNCHANGED <<build, cycles, lineVars, core0Vars, tickVars, threadVars, owed>>

StoreIf ==
  /\ At0("run") /\ ~halted /\ build.shares
  /\ \E b \in SUBSET Bits : ifr' = b /\ asked' = b
  /\ UNCHANGED <<build, cycles, lineVars, core0Vars, tickVars, threadVars, owed>>

EnableInterrupts ==
  /\ At0("run") /\ ~halted /\ ~ime /\ ime' = TRUE
  /\ UNCHANGED <<build, cycles, lineVars, ifr, halted, core0, seen, taking,
                 tickVars, threadVars, owed, asked>>

Halt ==
  /\ At0("run") /\ ~halted /\ build.intrudes
  /\ halted' = TRUE /\ core0' = "top"
  /\ UNCHANGED <<build, cycles, lineVars, ifr, ime, seen, taking, tickVars,
                 threadVars, owed, asked>>

\* sm83_service_interrupts: ppu_tick, in a build without the task; then IF is
\* read; then the bit dispatched is cleared.
Top ==
  /\ At0("top") /\ core0' = "read"
  /\ IF build.async THEN UNCHANGED at ELSE Goto("core0", "look")
  /\ UNCHANGED <<build, cycles, lineVars, ifr, ime, halted, seen, taking, delta,
                 stamp, threadVars, owed, asked>>

\* Mutated Wakes: a request wakes the processor only if it is dispatched.
WakesIfEnabled(pending) == pending # {} /\ ime

Woken(pending) == pending # {}

First(pending) == IF "vblank" \in pending THEN "vblank" ELSE "serial"

Read ==
  /\ At0("read")
  /\ halted' = (halted /\ ~Woken(ifr))
  /\ IF ifr # {} /\ ime
     THEN ime' = FALSE /\ seen' = ifr /\ taking' = First(ifr) /\ core0' = "clear"
     ELSE /\ core0' = (IF halted' THEN "halt" ELSE "run")
          /\ UNCHANGED <<ime, seen, taking>>
  /\ UNCHANGED <<build, cycles, lineVars, ifr, tickVars, threadVars, owed, asked>>

\* Mutated Cleared: a plain store of what was read, in every build.
ClearedPlainly == seen \ {taking}

\* An atomic AND, or in a build without the task a plain store.
Cleared == IF build.async THEN ifr \ {taking} ELSE seen \ {taking}

Clear ==
  /\ At0("clear") /\ core0' = "run"
  /\ ifr' = Cleared /\ asked' = asked \ {taking}
  /\ taking' = "none" /\ seen' = {}
  /\ UNCHANGED <<build, cycles, lineVars, ime, halted, tickVars,
                 threadVars, owed>>

\* The HALT loop: a step of the clock, ppu_tick at the deadline, in either
\* build, and a look at IF.
HaltStep ==
  /\ At0("halt") /\ core0' = "poll"
  /\ Passed(1)
  /\ IF Reached(cycles', event) THEN Goto("core0", "look") ELSE UNCHANGED at
  /\ UNCHANGED <<build, lineVars, ifr, ime, halted, seen, taking, delta, stamp,
                 threadVars, asked>>

HaltPoll ==
  /\ At0("poll") /\ core0' = (IF ifr # {} THEN "top" ELSE "halt")
  /\ UNCHANGED <<build, cycles, lineVars, ifr, ime, halted, seen, taking,
                 tickVars, threadVars, owed, asked>>

-----------------------------------------------------------------------------

Init ==
  /\ build \in Builds
  /\ cycles = 0 /\ last = 0 /\ event = 0 /\ count = 0 /\ line = 0
  /\ ifr = {} /\ ime = FALSE /\ halted = FALSE
  /\ core0 = (IF build.async THEN "boot" ELSE "run")
  /\ seen = {} /\ taking = "none"
  /\ at = [k \in Tickers |-> "idle"]
  /\ delta = [k \in Tickers |-> 0] /\ stamp = [k \in Tickers |-> 0]
  /\ alive = {} /\ handle = "none" /\ run = FALSE
  /\ owed = 0 /\ asked = {}

Service == Top \/ Read \/ Clear \/ HaltStep \/ HaltPoll
Guest   == Block \/ FlushingStore \/ Serial \/ StoreIf \/ EnableInterrupts \/ Halt
Core1   == \E t \in Tasks : TaskLoop(t) \/ Tick(t)

Next == Guest \/ Service \/ Tick("core0") \/ ThreadStart \/ ThreadStop \/ Core1

\* Core 0 does not stop inside the dispatcher or in ppu_tick, and FreeRTOS
\* gives every task of Core 1 its turn.
Fairness == /\ WF_vars(Service) /\ WF_vars(Tick("core0"))
            /\ WF_vars(ThreadStart)
            /\ \A t \in Tasks : WF_vars(TaskLoop(t) \/ Tick(t))

Spec == Init /\ [][Next]_vars /\ Fairness

-----------------------------------------------------------------------------
(* Properties *)

\* Every field keeps its width, and a task that was not deleted its call.
TypeOK ==
  /\ build \in Builds
  /\ {cycles, last, event} \subseteq 0..(CycleMod - 1)
  /\ count \in 0..(CountMod - 1) /\ line \in 0..(Lines - 1)
  /\ ifr \subseteq Bits /\ seen \subseteq Bits /\ asked \subseteq Bits
  /\ ime \in BOOLEAN /\ halted \in BOOLEAN /\ run \in BOOLEAN
  /\ core0 \in {"boot", "run", "top", "read", "clear", "halt", "poll"}
  /\ taking \in Bits \union {"none"}
  /\ at \in [Tickers -> {"idle", "look", "measure", "stamp", "add", "drain"}]
  /\ delta \in [Tickers -> 0..(CycleMod - 1)]
  /\ stamp \in [Tickers -> 0..(CycleMod - 1)]
  /\ alive \subseteq Tasks /\ handle \in Tasks \union {"none"}
  /\ \A t \in Tasks \ alive : at[t] = "idle"
  /\ owed \in -1..(Longest + 1)

\* A request stays in IF until it is dispatched or overwritten by the guest,
\* whatever the cores do to the register's other bits at the same time
\* (sm83_interp.c 219-230, ppu.c 685-689).
NoLostRequest == asked \subseteq ifr

\* The controller counts every cycle that passed, and none twice: what it has
\* not counted is on its way in a call, or passed since last (ppu.c 617-633).
CountedOnce ==
  LET measured == {k \in Tickers : at[k] = "add"}
      waiting  == IF measured = {} THEN 0 ELSE delta[CHOOSE k \in measured : TRUE]
      stamped  == {k \in Tickers : at[k] = "stamp"}
  IN stamped = {} => owed = ((cycles - last) % CycleMod) + waiting

\* The same where one thread alone calls ppu_tick.
CountedOnceAlone ==
  (build.async => ~build.intrudes /\ ~build.restarts) => CountedOnce

\* A request wakes a halted processor, from whichever core it comes and however
\* it falls into the steps of the HALT loop (dispatcher.c 852-863).
RequestWakes == halted /\ asked # {} ~> ~halted
=============================================================================
