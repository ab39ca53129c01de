------------------------------- MODULE BlockExec ------------------------------
(***************************************************************************)
(* How the JIT executes the guest: the shape of the block the compiler     *)
(* makes at an address (gbjit_compile_block, jit/codegen.c), the registers *)
(* compiled code keeps pc and cycles in, its calls of sm83_step, and the   *)
(* run loop around it (gbjit_dispatcher_run_until, jit/dispatcher.c) with  *)
(* its HALT loop, EI path, self-loop spin and chain batch.                 *)
(*                                                                         *)
(* The cache is Dispatcher's subject: here the block at an address is what *)
(* the compiler makes there, and the batch finds a successor or not.  The  *)
(* cycle budget of run_until may be used up wherever the loop tests it;    *)
(* returning to the caller and being called again changes nothing here.    *)
(***************************************************************************)
EXTENDS Sm83Ops, FiniteSetsExt

CONSTANTS
  MaxOps,    \* instructions of a block: MAX_OPS_PER_BLOCK
  SpinMax,   \* entries of a self-loop: GBJIT_SELFLOOP_MAX
  Batches,   \* values of GBJIT_DISPATCHER_CHAIN_BATCH considered
  HaltStep,  \* cycles of a step of the HALT loop: GBJIT_HALT_STEP_CYCLES
  RunMax     \* as in Sm83

ASSUME LimitsAssumption ==
  /\ MaxOps \in Nat \ {0} /\ SpinMax \in Nat \ {0}
  /\ Batches \subseteq Nat /\ HaltStep \in Nat \ {0}

\* A block is shorter than the address space, and the reference can pass the
\* polling loop, and the DEC A loop for every A, at once.
ASSUME ReferenceAssumption ==
  /\ MaxOps < Size
  /\ RunMax \in Nat /\ RunMax >= 3 /\ RunMax >= 2 * ByteSize

VARIABLES
  code,    \* the guest program
  build,   \* [jit: the run loop or sm83_run_until, batch: chain batch limit]
  cpu,     \* cpu_state
  irq,     \* is an enabled interrupt requested?
  phase,   \* where the run loop is
  blk,     \* the block being executed, or executed last
  again,   \* [kind, left]: how the loop re-enters blocks
  parked,  \* cpu->halted was set by a polling loop, not by HALT
  stale,   \* an I/O register changed since ppu_tick last ran
  late     \* instructions compiled code executed since it should have
           \* been interrupted

vars == <<code, build, cpu, irq, phase, blk, again, parked, stale, late>>

-----------------------------------------------------------------------------
(* The compiler *)

Terminates(i) ==
  i.op \in Jumps \union {"call", "ret", "reti", "ei", "halt", "stop"}

\* LDH to LCDC, STAT, LYC or DMA ends the block as a branch does.
EndsBlock(i) == Terminates(i) \/ i.op = "stio"

PcOf(pc, k) == (pc + k - 1) % Size

\* Mutated BlockLen: the block goes on after a store to an I/O register.
BranchLen(pc) ==
  Min({k \in 1..MaxOps : k = MaxOps \/ Terminates(code[PcOf(pc, k)])})

\* The k-th instruction of the block at pc, and how many there are.
OpOf(pc, k)  == code[PcOf(pc, k)]
BlockLen(pc) == Min({k \in 1..MaxOps : k = MaxOps \/ EndsBlock(OpOf(pc, k))})

Shape(pc)     == [k \in 1..BlockLen(pc) |-> OpOf(pc, k).op]
LoopsBack(pc) == LET last == OpOf(pc, BlockLen(pc))
                 IN last.op \in {"jrz", "jrnz"} /\ last.to = pc

\* DEC A; JR NZ,-3: compiled to its result.
IsDecLoop(pc) == Shape(pc) = <<"dec", "jrnz">> /\ LoopsBack(pc)

\* LDH A,(n8); AND A; JR Z,-5 on high RAM: compiled to a HALT when it spins.
IsPollLoop(pc) == /\ Shape(pc) = <<"lda", "tst", "jrz">>
                  /\ LoopsBack(pc) /\ ~OpOf(pc, 1).slow

\* op_touches_mmu, with the exception for LDH A,(n8) from high RAM.  INC (HL)
\* is missing from its list.
TouchesMmu(i) == i.op \in {"sta", "ldio", "stio"} \/ (i.op = "lda" /\ i.slow)

\* b->self_loop
SelfLoop(pc) ==
  /\ BlockLen(pc) >= 2 /\ LoopsBack(pc)
  /\ \A k \in 1..(BlockLen(pc) - 1) : ~TouchesMmu(OpOf(pc, k))

\* Does inline_op emit code for the instruction that does without a call of
\* sm83_step?
Inlined(i) ==
  i.op \notin {"incm", "stio", "reti", "ei", "di", "stop"} /\ ~i.slow

\* What the emitted code adds to a12.
InlineCycles(i, taken) ==
  CASE i.op \in {"inc", "dec", "tst", "halt"} -> 1
    [] i.op = "ld"                            -> 2
    [] i.op \in {"lda", "sta", "ldio"}        -> 3
    [] i.op \in Jumps                         -> IF taken THEN 3 ELSE 2
    [] i.op = "call"                          -> 6
    [] i.op = "ret"                           -> 4

-----------------------------------------------------------------------------
(* A block being executed *)

\* The prologue.  blk.at is the instruction to execute next, a11 and a12 hold
\* pc and the cycles since the last call.
Entered(pc) ==
  [start |-> pc, at |-> 1, depth |-> Len(cpu.stack), a11 |-> pc, a12 |-> 0]

\* emit_sync_state
Synced == [cpu EXCEPT !.pc = blk.a11, !.clock = Ticked(cpu.clock, blk.a12)]

\* Mutated Reloaded: a12 is not cleared, so its cycles are counted twice.
ReloadedKeeping(c) == [blk EXCEPT !.at = blk.at + 1, !.a11 = c.pc]

\* emit_reload_state, after a call that left the processor in c
Reloaded(c) == [blk EXCEPT !.at = blk.at + 1, !.a11 = c.pc, !.a12 = 0]

\* Cycles of the DEC A loop entered with a in the register.
DecLoopCycles(a) == IF a = 0 THEN 4 * ByteSize - 1 ELSE 4 * a - 1

InBlock == phase = "block" /\ blk.at <= BlockLen(blk.start)
Current == OpOf(blk.start, blk.at)

\* Instructions compiled code may execute between two services.
LateMax == MaxOps * (1 + Max({SpinMax, build.batch}))
Delays  == late' = IF irq /\ cpu.ime THEN Min({late + 1, LateMax + 1}) ELSE 0

\* What sm83_service_interrupts does, for the processor in c, to the request
\* and to what is known of it.
Serve(c) == /\ irq' = (irq /\ ~c.ime)
            /\ parked' = (parked /\ ~irq)
            /\ late' = 0

\* A call of sm83_step for the processor in c: ppu_tick, then the instruction.
CallStep(c) == /\ cpu' = Step(code, c, irq)
               /\ Serve(c)
               /\ stale' = (Executes(c, irq) /\ code[c.pc].op = "stio")

DecLoop ==
  /\ InBlock /\ IsDecLoop(blk.start)
  /\ cpu' = [cpu EXCEPT !.a = 0, !.z = TRUE]
  /\ blk' = [blk EXCEPT !.at = 3, !.a11 = After(After(blk.a11)),
                        !.a12 = blk.a12 + DecLoopCycles(cpu.a)]
  /\ Delays
  /\ UNCHANGED <<code, build, irq, phase, again, parked, stale>>

\* Emitted code knows the address it was compiled from; only jumps load it
\* into a11, the other instructions count a11 up.
InlineOp ==
  LET here  == [cpu EXCEPT !.pc = PcOf(blk.start, blk.at)]
      taken == Taken(cpu, Current)
      parks == IsPollLoop(blk.start) /\ Current.op = "jrz" /\ taken
  IN /\ InBlock /\ ~IsDecLoop(blk.start) /\ Inlined(Current)
     /\ cpu' = [Data(cpu, Current) EXCEPT
                  !.stack  = Stacked(here, Current),
                  !.halted = cpu.halted \/ Current.op = "halt" \/ parks]
     /\ blk' = [blk EXCEPT
                  !.at  = blk.at + 1,
                  !.a11 = IF Terminates(Current) /\ Current.op # "halt"
                          THEN Goes(here, Current) ELSE After(blk.a11),
                  !.a12 = blk.a12 + InlineCycles(Current, taken)]
     /\ parked' = (parked \/ parks)
     /\ Delays
     /\ UNCHANGED <<code, build, irq, phase, again, stale>>

\* The helper fallback, and the slow path of an inlined access.
HelperOp ==
  /\ InBlock /\ ~IsDecLoop(blk.start) /\ ~Inlined(Current)
  /\ CallStep(Synced)
  /\ blk' = Reloaded(cpu')
  /\ UNCHANGED <<code, build, phase, again>>

Epilogue ==
  /\ phase = "block" /\ ~InBlock
  /\ cpu' = Synced
  /\ blk' = [blk EXCEPT !.at = 1, !.a11 = blk.start, !.a12 = 0]
  /\ phase' = "after"
  /\ UNCHANGED <<code, build, irq, again, parked, stale, late>>

-----------------------------------------------------------------------------
(* The run loop *)

Once == [kind |-> "once", left |-> 0]

\* ppu_tick, the timer, the joypad or the other core sets a bit of IF.
Raise == /\ ~irq /\ irq' = TRUE
         /\ UNCHANGED <<code, build, cpu, phase, blk, again, parked, stale,
                        late>>

\* The top of an iteration.
ServiceFirst ==
  /\ build.jit /\ phase = "top"
  /\ cpu' = Service(cpu, irq) /\ Serve(cpu) /\ stale' = FALSE
  /\ phase' = "checked"
  /\ UNCHANGED <<code, build, blk, again>>

\* One round of the HALT loop; the budget may be used up after it.
HaltLoop ==
  LET c == [cpu EXCEPT !.clock = Ticked(cpu.clock, HaltStep)]
  IN /\ phase = "checked" /\ cpu.halted
     /\ cpu' = Service(c, irq)
     /\ IF irq THEN Serve(c) /\ stale' = FALSE /\ phase' = "top"
        ELSE UNCHANGED <<irq, parked, late, stale>>
             /\ phase' \in {"checked", "top"}
     /\ UNCHANGED <<code, build, blk, again>>

\* After EI, and where the compiler failed or interp_fallback is set, the
\* loop interprets one instruction.
InterpretOne ==
  /\ phase = "checked" /\ ~cpu.halted
  /\ CallStep(cpu)
  /\ phase' = "top"
  /\ UNCHANGED <<code, build, blk, again>>

Enter ==
  /\ phase = "checked" /\ ~cpu.halted /\ ~cpu.pend
  /\ blk' = Entered(cpu.pc) /\ again' = Once
  /\ phase' = "block"
  /\ UNCHANGED <<code, build, cpu, irq, parked, stale, late>>

Returned == cpu.pc = blk.start /\ Len(cpu.stack) = blk.depth

SpinGate == /\ SelfLoop(blk.start) /\ Returned
            /\ ~cpu.halted /\ ~cpu.pend /\ ~cpu.stopped /\ ~irq

\* Mutated Reentry: every block starts a new batch.
ReentryRestarted ==
  IF SpinGate THEN [kind |-> "spin", left |-> SpinMax]
  ELSE [kind |-> "batch", left |-> build.batch]

\* How many blocks may still be entered without an iteration of the loop.
Reentry ==
  IF again.kind # "once" THEN again
  ELSE IF SpinGate THEN [kind |-> "spin", left |-> SpinMax]
  ELSE [kind |-> "batch", left |-> build.batch]

\* The self-loop spin, and the chain batch where it predicts a successor.
Reenter ==
  /\ phase = "after" /\ Reentry.left > 0
  /\ IF Reentry.kind = "spin" THEN Returned ELSE ~cpu.halted /\ ~cpu.pend
  /\ again' = [Reentry EXCEPT !.left = Reentry.left - 1]
  /\ blk' = Entered(cpu.pc)
  /\ phase' = "block"
  /\ UNCHANGED <<code, build, cpu, irq, parked, stale, late>>

\* No re-entry: none is left, predicted or allowed, or the budget is used up.
\* A stopped processor makes run_until return; its caller calls it again.
Leave ==
  /\ phase = "after" /\ phase' = "top" /\ again' = Once
  /\ UNCHANGED <<code, build, cpu, irq, blk, parked, stale, late>>

\* sm83_run_until
RunInterpreter ==
  /\ ~build.jit
  /\ CallStep(cpu)
  /\ UNCHANGED <<code, build, phase, blk, again>>

-----------------------------------------------------------------------------

Init ==
  /\ code \in Programs
  /\ build \in [jit : {TRUE}, batch : Batches] \union [jit : {FALSE}, batch : {0}]
  /\ cpu = Reset /\ irq = FALSE
  /\ phase = "top" /\ blk = Entered(Reset.pc) /\ again = Once
  /\ parked = FALSE /\ stale = FALSE /\ late = 0

Next ==
  \/ Raise \/ ServiceFirst \/ HaltLoop \/ InterpretOne \/ Enter
  \/ DecLoop \/ InlineOp \/ HelperOp \/ Epilogue
  \/ Reenter \/ Leave \/ RunInterpreter

Spec == Init /\ [][Next]_vars

-----------------------------------------------------------------------------
(* Properties *)

\* Every register keeps its range: a block's a12 what its instructions can
\* cost, the re-entry counter its limits, the guest's stack its depth.
TypeOK ==
  /\ code \in Programs /\ irq \in BOOLEAN /\ parked \in BOOLEAN
  /\ stale \in BOOLEAN /\ late \in 0..(LateMax + 1)
  /\ cpu \in CpuState /\ Len(cpu.stack) <= StackMax
  /\ phase \in {"top", "checked", "block", "after"}
  /\ blk.start \in Addr /\ blk.a11 \in Addr
  /\ blk.at \in 1..(MaxOps + 1)
  /\ blk.a12 \in 0..Max({6 * MaxOps, 4 * ByteSize - 1})
  /\ again.kind \in {"once", "spin", "batch"}
  /\ again.left \in 0..Max({SpinMax, build.batch})

Returns == {"ret", "reti"}

\* The guest's pc: inside a block it is in a11.
GuestPc  == IF phase = "block" THEN blk.a11 ELSE cpu.pc
AtReturn == code[GuestPc].op \in Returns \/ (InBlock /\ Current.op \in Returns)

\* The guest returns only from what was called or interrupted, and calls no
\* deeper than StackMax.  (The model's stack has a bottom, the guest's wraps.)
Balanced == Len(cpu.stack) <= StackMax /\ (AtReturn => cpu.stack # << >>)

\* sm83_step, called from inside a block, dispatches no interrupt but at the
\* last instruction, where the block ends anyway (codegen.c 2085-2090).
Undisturbed == phase = "block" /\ blk.at < BlockLen(blk.start)
                 /\ ~Inlined(Current) => ~(irq /\ cpu.ime)

\* EI is executed only while interrupts are disabled.
Calm == ~(cpu.ime /\ cpu.pend)

\* What the guests of a run have in common.  The first and the last part are
\* the guest's doing, the second the compiler's as well: the blocks in which
\* an interrupt may be due must call the interpreter only at their end.
Conforms == Balanced /\ Undisturbed /\ Calm

\* What control depends on: all of a processor but its data and its clock.
Control(s) == [pc |-> s.pc, ime |-> s.ime, pend |-> s.pend, stack |-> s.stack]

\* A processor under control g whose flag is z.
Under(g, z) == [Reset EXCEPT !.pc = g.pc, !.ime = g.ime, !.pend = g.pend,
                             !.stack = g.stack, !.z = z]

\* Under control g a program p returns to a caller, has room on the stack, does
\* not enable interrupts a second time and, with interrupts enabled, leaves the
\* block with the instructions that call the interpreter.
Admits(p, g) ==
  /\ Len(g.stack) <= StackMax
  /\ p[g.pc].op \in Returns => g.stack # << >>
  /\ ~(g.ime /\ g.pend)
  /\ g.ime => Inlined(p[g.pc]) \/ EndsBlock(p[g.pc])

\* G holds every control that p reaches when each jump may be taken or not and an
\* interrupt may come after every instruction, and p behaves in all of them.  It
\* speaks of the program as the interpreter executes it, and not of blocks.
Charts(p, G) ==
  /\ Control(Reset) \in G
  /\ \A g \in G :
       /\ Admits(p, g)
       /\ \A z \in BOOLEAN : Control(Exec(p, Under(g, z))) \in G
       /\ g.ime => Control(Dispatched(Under(g, FALSE))) \in G

\* The processor as a guest sees it: in a block its pc and its clock are in
\* a11 and a12, and a polling loop is not halted.
Guest ==
  LET c == IF phase = "block" THEN Synced ELSE cpu
  IN [c EXCEPT !.halted = cpu.halted /\ ~parked]

Reference == INSTANCE Sm83 WITH m <- Guest

\* Blocks with cached pc and cycles, calls of the interpreter from inside
\* them, the DEC A loop's closed form, the poll that becomes a HALT, spins,
\* batches and the EI path execute, in order and at its cost, the program the
\* reference interpreter executes (codegen.c, dispatcher.c, sm83_interp.c).
ImplementsSm83 == Reference!Spec

\* A requested and enabled interrupt waits for a bounded number of compiled
\* instructions, whichever way the loop re-enters blocks (dispatcher.c
\* 1023-1098).
BoundedLatency == late <= LateMax

\* Code that reads an I/O register by itself finds it as ppu_tick left it
\* after the last store to one (codegen.c 1821-1843).
ReadsFresh == InBlock /\ Current.op = "ldio" => ~stale

\* The same where the loop does not enter a second block by itself.
ReadsFreshUnbatched == build.batch = 0 => ReadsFresh
=============================================================================
