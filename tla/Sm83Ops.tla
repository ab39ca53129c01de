------------------------------- MODULE Sm83Ops --------------------------------
(***************************************************************************)
(* One instruction of the guest processor, as the reference interpreter    *)
(* sm83_step (core/sm83_interp.c) executes it.                             *)
(*                                                                         *)
(* The control of an instruction is kept: where it goes, the interrupt     *)
(* master enable and its delay, HALT, STOP, the return stack and the cycle *)
(* count.  The data are one register, one flag and one byte of high RAM,   *)
(* enough for every loop the compiler treats in a special way.  A program  *)
(* is a function from addresses to instructions of length 1, time is in    *)
(* machine cycles of 4 clocks, and an interrupt is requested or is not.    *)
(***************************************************************************)
EXTENDS Integers, Sequences

CONSTANTS
  Size,      \* guest addresses are 0..Size-1
  Vector,    \* where an interrupt is dispatched to
  ByteSize,  \* values of a byte: 256
  Clock,     \* values of the low word of cpu->cycles: 2^32
  StackMax,  \* deepest stack of the programs considered
  Programs   \* the programs considered

Addr == 0..(Size - 1)
Byte == 0..(ByteSize - 1)

Jumps   == {"jr", "jrz", "jrnz"}
Ops     == Jumps \union
           {"ld", "inc", "dec", "tst", "lda", "sta", "incm", "ldio", "stio",
            "call", "ret", "reti", "ei", "di", "halt", "stop"}

\* An instruction: a jump's target, a load's operand, and whether the memory
\* it uses lies outside the regions that compiled code reaches by itself.
Instr   == [op : Ops, to : Addr, n : Byte, slow : BOOLEAN]

\* cpu_state, without what the IF and IE registers say.
CpuState == [pc : Addr, a : Byte, z : BOOLEAN, mem : Byte,
             ime : BOOLEAN, pend : BOOLEAN, halted : BOOLEAN,
             stopped : BOOLEAN, stack : Seq(Addr), clock : 0..(Clock - 1)]

ASSUME SizeAssumption ==
  /\ Size \in Nat \ {0} /\ ByteSize \in Nat \ {0} /\ Clock \in Nat \ {0}
  /\ StackMax \in Nat /\ Vector \in Addr
ASSUME ProgramsAssumption == Programs \subseteq [Addr -> Instr]

Reset == [pc |-> 0, a |-> 0, z |-> FALSE, mem |-> 0, ime |-> FALSE,
          pend |-> FALSE, halted |-> FALSE, stopped |-> FALSE,
          stack |-> << >>, clock |-> 0]

After(pc) == (pc + 1) % Size

\* Mutated Ticked: a carry goes beyond the low word.
TickedWide(t, n) == t + n

\* The low word of cpu->cycles wraps.
Ticked(t, n) == (t + n) % Clock

-----------------------------------------------------------------------------
(* The instruction itself *)

\* Is the jump taken?  Calls and returns here are unconditional.
Taken(s, i) == \/ i.op = "jr"
               \/ i.op = "jrz" /\ s.z
               \/ i.op = "jrnz" /\ ~s.z

\* cycles_notaken and cycles_taken of the decoder's table.
Cycles(i, taken) ==
  CASE i.op \in {"inc", "dec", "tst", "halt", "stop", "ei", "di"} -> 1
    [] i.op = "ld"                                                -> 2
    [] i.op \in {"lda", "sta", "incm", "ldio", "stio"}            -> 3
    [] i.op \in Jumps                     -> IF taken THEN 3 ELSE 2
    [] i.op = "call"                                              -> 6
    [] i.op \in {"ret", "reti"}                                   -> 4

\* What the instruction does to the registers, the flag and the byte.  What
\* an I/O register holds is left out.
Data(s, i) ==
  LET Flagged(t, v) == [t EXCEPT !.z = (v = 0)]
      up   == (s.a + 1) % ByteSize
      down == (s.a + ByteSize - 1) % ByteSize
      more == (s.mem + 1) % ByteSize
  IN CASE i.op = "ld"   -> [s EXCEPT !.a = i.n]
       [] i.op = "lda"  -> [s EXCEPT !.a = s.mem]
       [] i.op = "sta"  -> [s EXCEPT !.mem = s.a]
       [] i.op = "inc"  -> Flagged([s EXCEPT !.a = up], up)
       [] i.op = "dec"  -> Flagged([s EXCEPT !.a = down], down)
       [] i.op = "tst"  -> Flagged(s, s.a)
       [] i.op = "incm" -> Flagged([s EXCEPT !.mem = more], more)
       [] OTHER         -> s

\* Where the instruction goes, and what it leaves on the stack.
Goes(s, i) ==
  IF Taken(s, i) \/ i.op = "call" THEN i.to
  ELSE IF i.op \in {"ret", "reti"} THEN Head(s.stack) ELSE After(s.pc)

Stacked(s, i) ==
  CASE i.op = "call"            -> <<After(s.pc)>> \o s.stack
    [] i.op \in {"ret", "reti"} -> Tail(s.stack)
    [] OTHER                    -> s.stack

\* An enable that was pending before the instruction takes effect after it.
Promoted(s, pending) ==
  IF pending THEN [s EXCEPT !.ime = TRUE, !.pend = FALSE] ELSE s

\* The switch of sm83_step, for the instruction at pc.
Exec(p, s) ==
  LET i == p[s.pc]
  IN Promoted([Data(s, i) EXCEPT
       !.pc      = Goes(s, i),
       !.stack   = Stacked(s, i),
       !.clock   = Ticked(s.clock, Cycles(i, Taken(s, i))),
       !.ime     = i.op = "reti" \/ (s.ime /\ i.op # "di"),
       !.pend    = i.op = "ei" \/ (s.pend /\ i.op # "di"),
       !.halted  = s.halted \/ i.op = "halt",
       !.stopped = s.stopped \/ i.op = "stop"], s.pend)

-----------------------------------------------------------------------------
(* Interrupts *)

Dispatched(s) ==
  [s EXCEPT !.halted = FALSE, !.ime = FALSE, !.stack = <<s.pc>> \o s.stack,
            !.pc = Vector, !.clock = Ticked(s.clock, 5)]

Woken(s, irq) == [s EXCEPT !.halted = s.halted /\ ~irq]

\* sm83_service_interrupts with a request iff irq.
Service(s, irq) == IF irq /\ s.ime THEN Dispatched(s) ELSE Woken(s, irq)

\* sm83_step: an interrupt, or else 4 clocks of a halted processor, or else
\* the instruction at pc.
Executes(s, irq) == ~(irq /\ s.ime) /\ ~Woken(s, irq).halted

Step(p, s, irq) ==
  IF irq /\ s.ime THEN Promoted(Service(s, irq), s.pend)
  ELSE IF Executes(s, irq) THEN Exec(p, Service(s, irq))
  ELSE Promoted([s EXCEPT !.clock = Ticked(s.clock, 1)], s.pend)
=============================================================================
