----------------------------- MODULE MCBlockExec ------------------------------
(* Programs of fourteen instructions for BlockExec.  The handler is at 10.   *)
EXTENDS BlockExec

I(op)      == [op |-> op, to |-> 0, n |-> 0, slow |-> FALSE]
Slow(op)   == [I(op) EXCEPT !.slow = TRUE]
To(op, pc) == [I(op) EXCEPT !.to = pc]
Ld(v)      == [I("ld") EXCEPT !.n = v]

Program(s) == [pc \in 0..13 |-> s[pc + 1]]

\* Polls a byte that its handler sets.
Poll == Program(<<
  I("ei"), I("lda"), I("tst"), To("jrz", 1), Ld(0), I("sta"), To("jr", 1),
  I("inc"), I("inc"), I("inc"),
  Ld(1), I("sta"), I("reti"), I("inc")>>)

\* The same with interrupts disabled: a request wakes it in vain.
PollMasked == [Poll EXCEPT ![0] = I("di")]

\* Sleeps, stores to an I/O register and reads one in the next block; its
\* handler ends with EI; RET.
Sleep == Program(<<
  I("ei"), I("halt"), I("stio"), I("ldio"), To("jr", 1),
  I("inc"), I("inc"), I("inc"), I("inc"), I("inc"),
  I("inc"), I("ei"), I("ret"), I("inc")>>)

\* Both counting loops and a call; its handler is longer than a block and
\* calls the interpreter from inside one.
Count == Program(<<
  I("ei"), Ld(3), I("dec"), To("jrnz", 2), I("inc"), To("jrnz", 4),
  To("call", 8), To("jr", 1), I("inc"), I("ret"),
  I("di"), I("incm"), I("dec"), I("reti")>>)

\* Interrupts stay disabled: calls of the interpreter anywhere in a block,
\* one of them in a self-loop.
Masked == Program(<<
  Slow("sta"), I("incm"), Slow("lda"), I("dec"), To("jrnz", 0), I("incm"),
  To("jrnz", 5), [To("call", 11) EXCEPT !.slow = TRUE], I("halt"), I("stop"),
  To("jr", 0), I("di"), Slow("ret"), I("inc")>>)

\* Interrupts are enabled and a call of the interpreter is followed, in its
\* block, by another instruction.
Store == Program(<<
  I("ei"), Slow("sta"), I("inc"), To("jr", 1), I("inc"), I("inc"), I("inc"),
  I("inc"), I("inc"), I("inc"),
  I("dec"), I("reti"), I("inc"), I("inc")>>)

Conforming == {Poll, PollMasked, Sleep, Count, Masked}
JustStore  == {Store}
JustSleep  == {Sleep}

\* The controls that program p reaches: those of Rounds rounds of instructions and
\* interrupts.
Rounds == 30
Onward(p, G) ==
  G \union {Control(Exec(p, Under(g, z))) : g \in G, z \in BOOLEAN}
    \union {Control(Dispatched(Under(g, FALSE))) : g \in {h \in G : h.ime}}
Reaches(p) == FoldSet(LAMBDA k, G : Onward(p, G), {Control(Reset)}, 1..Rounds)

\* The programs of the run satisfy the hypothesis of the theorems on programs.
ASSUME ConformingCharted == \A p \in Conforming : Charts(p, Reaches(p))

=============================================================================
