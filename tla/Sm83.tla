--------------------------------- MODULE Sm83 ---------------------------------
(***************************************************************************)
(* What both ways of running a guest program promise: the processor        *)
(* executes the instruction at its pc, again and again, and counts its     *)
(* cycles; a requested interrupt is dispatched only between instructions,  *)
(* only while interrupts are enabled and never in the instruction that     *)
(* follows EI; and a processor that is halted, or that polls a byte only   *)
(* an interrupt handler can change, may let time pass.  When the interrupt *)
(* comes is left open: a compiled block does not look for one after every  *)
(* instruction.                                                            *)
(***************************************************************************)
EXTENDS Sm83Ops

CONSTANT RunMax    \* instructions that may pass at once: the longest loop
                   \* the compiler replaces by its result

VARIABLES code,    \* the guest program
          m,       \* the processor, a CpuState
          irq      \* is an enabled interrupt requested?

vars == <<code, m, irq>>

Init == code \in Programs /\ m = Reset /\ irq = FALSE

\* The processor after k instructions.
Run[k \in 0..RunMax] ==
  IF k = 0 THEN Woken(m, irq) ELSE Exec(code, Run[k - 1])

\* Time passes in halt mode, or in a loop that changes nothing else.
Spins == /\ ~m.halted
         /\ \E k \in 1..RunMax : Run[k] = [m EXCEPT !.clock = Run[k].clock]

Waits(t) == t = m.clock \/ m.halted \/ Spins

Idle ==
  /\ \E t \in 0..(Clock - 1) : m' = [m EXCEPT !.clock = t] /\ Waits(t)
  /\ UNCHANGED <<code, irq>>

Execute ==
  /\ \E k \in 1..RunMax : /\ m' = Run[k]
                          /\ \A j \in 0..(k - 1) : ~Run[j].halted
  /\ UNCHANGED <<code, irq>>

Dispatch ==
  /\ irq /\ m.ime /\ ~m.pend
  /\ \E t \in 0..(Clock - 1) :
       m' = Dispatched([m EXCEPT !.clock = t]) /\ Waits(t)
  /\ irq' = FALSE
  /\ UNCHANGED code

Wake ==
  /\ irq /\ m.halted
  /\ \E t \in 0..(Clock - 1) : m' = Woken([m EXCEPT !.clock = t], irq)
  /\ UNCHANGED <<code, irq>>

Raise == ~irq /\ irq' = TRUE /\ UNCHANGED <<code, m>>

Next == Raise \/ Dispatch \/ Wake \/ Idle \/ Execute

Spec == Init /\ [][Next]_vars
=============================================================================
