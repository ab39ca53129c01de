--------------------------------- MODULE Inline ---------------------------------
(***************************************************************************)
(* The code that inline_op (jit/codegen.c) emits for one instruction: on   *)
(* the fast path it works on the structs itself, on the slow path it is a  *)
(* call of sm83_step.  Is it the instruction?                              *)
(*                                                                         *)
(* The emitted code has no comparisons: a flag is a bit extracted from a   *)
(* sum or difference of 32 bits, a region a shift and a subtraction.       *)
(* Blocks, interrupts and cached registers are in BlockExec; here compiled *)
(* instructions follow one another on a machine.                           *)
(***************************************************************************)
EXTENDS Sm83Data

CONSTANTS
  Mixes,       \* by name: starting states, instructions that follow, how many
  Straddling,  \* whether a stack access crosses the end of work RAM
  Unguarded    \* whether a store without the SMC guard hits compiled code

ASSUME MixAssumption ==
  /\ Straddling \in BOOLEAN /\ Unguarded \in BOOLEAN
  /\ \A x \in DOMAIN Mixes : /\ Mixes[x].steps \in Nat /\ Mixes[x].ops \subseteq Instrs
                             /\ Mixes[x].starts \subseteq Machine

VARIABLES
  mix,   \* which of the mixes runs
  m,     \* the machine
  last,  \* the instruction executed last
  left   \* instructions to go

vars == <<mix, m, last, left>>

-----------------------------------------------------------------------------
(* Flags and results *)

\* EXTUI of one bit, w its value: of a negative number too.
Bit(x, w) == (x \div w) % 2

\* emit_zflag: bit 8 of v - 1.
ZBit(v) == Bit(v - 1, ByteSize)

FlagBits(z, n, h, c) == [z |-> z, n |-> n, h |-> h, c |-> c]

\* ALU_INLINE, a sum and a difference with a carry.
FastPlus(a, v, c) ==
  LET sum == a + v + c  res == sum % ByteSize
  IN [a |-> res,
      f |-> FlagBits(ZBit(res), 0, Bit(Nibble(a) + Nibble(v) + c, Half), Bit(sum, ByteSize))]

\* Mutated FastMinus: the half carry of SUB is used for SBC.
FastMinusNoBorrow(a, v, c) ==
  LET dif == a - v - c  res == dif % ByteSize
  IN [a |-> res,
      f |-> FlagBits(ZBit(res), 1, Bit(Nibble(a) - Nibble(v), Half), Bit(dif, ByteSize))]

FastMinus(a, v, c) ==
  LET dif == a - v - c  res == dif % ByteSize
  IN [a |-> res,
      f |-> FlagBits(ZBit(res), 1, Bit(Nibble(a) - Nibble(v) - c, Half), Bit(dif, ByteSize))]

FastLogic(v, h) == [a |-> v, f |-> FlagBits(ZBit(v), 0, h, 0)]

FastAlu(op, a, v, c) ==
  CASE op = "add" -> FastPlus(a, v, 0)
    [] op = "adc" -> FastPlus(a, v, c)
    [] op = "sub" -> FastMinus(a, v, 0)
    [] op = "sbc" -> FastMinus(a, v, c)
    [] op = "and" -> FastLogic(And(a, v), 1)
    [] op = "xor" -> FastLogic(Xor(a, v), 0)
    [] op = "or"  -> FastLogic(Or(a, v), 0)
    [] op = "cp"  -> [FastMinus(a, v, 0) EXCEPT !.a = a]

FastStepped(op, v, c) ==
  LET up == (v + 1) % ByteSize  down == (v - 1) % ByteSize
  IN IF op = "inc" THEN [v |-> up, f |-> FlagBits(ZBit(up), 0, Bit(Nibble(v) + 1, Half), c)]
     ELSE [v |-> down, f |-> FlagBits(ZBit(down), 1, Bit(Nibble(v) - 1, Half), c)]

\* Mutated FastShifted: RLC without the last EXTUI.
FastShiftedWide(op, v, c) == [v |-> 2 * v + Bit(v, Top), c |-> Bit(v, Top)]

\* The shifts, and RLCA, RRCA, RLA and RRA.
FastShifted(op, v, c) ==
  CASE op = "rlc"  -> [v |-> (2 * v + Bit(v, Top)) % ByteSize, c |-> Bit(v, Top)]
    [] op = "rrc"  -> [v |-> (v \div 2) + Bit(v, 1) * Top, c |-> Bit(v, 1)]
    [] op = "rl"   -> [v |-> (2 * v + c) % ByteSize, c |-> Bit(v, Top)]
    [] op = "rr"   -> [v |-> (v \div 2) + c * Top, c |-> Bit(v, 1)]
    [] op = "sla"  -> [v |-> (2 * v) % ByteSize, c |-> Bit(v, Top)]
    [] op = "sra"  -> [v |-> (v \div 2) + Bit(v, Top) * Top, c |-> Bit(v, 1)]
    [] op = "swap" -> [v |-> ((v * Half) % ByteSize) + (v \div Half), c |-> 0]
    [] op = "srl"  -> [v |-> v \div 2, c |-> Bit(v, 1)]

FastSumHl(hl, w, z) ==
  [w |-> (hl + w) % Size,
   f |-> FlagBits(z, 0, Bit(Low12(hl) + Low12(w), ByteSize * Half), Bit(hl + w, Size))]

\* JR cc and JP cc mask one flag and branch on zero.
FastTaken(f, cc) ==
  LET bit == IF cc \in {"nz", "z"} THEN f.z ELSE f.c
  IN CASE cc \in {"nz", "nc"} -> bit = 0
       [] cc \in {"z", "c"}   -> bit # 0
       [] OTHER               -> TRUE

-----------------------------------------------------------------------------
(* Memory *)

\* The range check: an address shifted right is 6.
InWram(a) == a \div Eighth = 6

\* emit_smc_guard.
Guarded(s, a) == s.page[Page(a)] = 0

Pushes == {"push", "call", "rst"}
Pops   == {"pop", "ret"}
NewSp(s) == (s.sp + Size - 2) % Size

\* The byte behind a byte of wram; behind the last one is oam.
Behind(a) == IF a + 1 < Base.echo THEN a + 1 ELSE Base.oam

FastWord(s) == s.mem[s.sp] + s.mem[Behind(s.sp)] * ByteSize
FastPush(s, w) ==
  Put(Put([s EXCEPT !.sp = NewSp(s)], NewSp(s), Low(w)), Behind(NewSp(s)), High(w))

FastOperand(s, y, n) ==
  CASE y = "(hl)" -> s.mem[Pair(s, "hl")] [] y = "n" -> n [] OTHER -> s.r[y]
FastSet(s, x, v) ==
  IF x = "(hl)" THEN Put(s, Pair(s, "hl"), v)
  ELSE [s EXCEPT !.r = [s.r EXCEPT ![x] = v]]

-----------------------------------------------------------------------------
(* The emitted instruction *)

\* inlinable_byte_addr, and what LDH reaches: not the joypad, not IE.
Direct(i) ==
  \/ i.y = "nn" /\ i.n \in Wram \union Hram
  \/ i.y = "n" /\ i.op = "lda" /\ Base.io + i.n \in (IoPort \ {Io.joyp}) \union Hram
  \/ i.y = "n" /\ i.op = "sta" /\ Base.io + i.n \in Hram
  \/ i.y \in {"hl+", "hl-"}

\* Does inline_op emit code for it, or only a call?
Inlines(i) ==
  /\ i.op \in {"lda", "sta"} => Direct(i)
  /\ i.op \in {"inc", "dec", "shift", "bit", "res", "set"} => i.x # "(hl)"
  /\ i.op \in {"call", "ret"} => i.x = "always"
  /\ i.op \notin {"daa", "stsp", "addsp", "ldhlsp", "ldsphl"}

\* Code that needs a literal is not emitted when the pool is full.
UsesLiteral(i) ==
  i.op \in {"lda", "sta"} \union Pushes \union Pops \/ "(hl)" \in {i.x, i.y}

\* Does the emitted code stay off the slow path?
OnFastPath(s, i) ==
  /\ i.op \in {"ld", "alu"} /\ i.y = "(hl)" => InWram(Pair(s, "hl"))
  /\ i.op = "ld" /\ i.x = "(hl)" => InWram(Pair(s, "hl")) /\ Guarded(s, Pair(s, "hl"))
  /\ i.op \in {"lda", "sta"} /\ i.y \in {"hl+", "hl-"} => InWram(Pair(s, "hl"))
  /\ i.op = "sta" /\ i.y \in {"n", "nn"} => Guarded(s, Address(s, i))
  /\ i.op \in Pushes => InWram(NewSp(s))
  /\ i.op \in Pops => InWram(s.sp)

\* The arguments of emit_advance, in bytes and machine cycles; a jump's are
\* those of the way it goes.
FastLen(i) ==
  CASE i.op \in {"jp", "call", "ldw"} \/ i.y = "nn" -> 3
    [] i.op \in {"jr", "shift", "bit", "res", "set"} \/ i.y = "n" -> 2
    [] OTHER -> 1
FastCycles(s, i) ==
  CASE i.op = "ld" -> IF i.y = "n" THEN (IF i.x = "(hl)" THEN 3 ELSE 2)
                      ELSE IF "(hl)" \in {i.x, i.y} THEN 2 ELSE 1
    [] i.op = "alu" -> IF i.y \in {"n", "(hl)"} THEN 2 ELSE 1
    [] i.op \in {"lda", "sta"} -> IF i.y = "nn" THEN 4 ELSE IF i.y = "n" THEN 3 ELSE 2
    [] i.op \in {"shift", "bit", "res", "set", "inc16", "dec16", "addhl"} -> 2
    [] i.op \in {"ldw", "pop"} -> 3
    [] i.op \in {"push", "rst", "ret"} -> 4
    [] i.op = "call" -> 6
    [] i.op = "jr" -> IF FastTaken(s.f, i.x) THEN 3 ELSE 2
    [] i.op = "jp" -> IF FastTaken(s.f, i.x) THEN 4 ELSE 3
    [] OTHER -> 1

FastNext(s, i) == (s.pc + FastLen(i)) % Size
FastGoes(s, i) ==
  CASE i.op \in {"rst", "call"} \/ (i.op = "jp" /\ FastTaken(s.f, i.x)) -> i.n
    [] i.op = "jr" /\ FastTaken(s.f, i.x) -> (s.pc + 2 + Signed(i.n)) % Size
    [] i.op = "ret"  -> FastWord(s)
    [] i.op = "jphl" -> Pair(s, "hl")
    [] OTHER         -> FastNext(s, i)

FastByte(s, i) ==
  LET alu == FastAlu(i.x, s.r["a"], FastOperand(s, i.y, i.n), s.f.c)
      stepped == FastStepped(i.op, s.r[i.x], s.f.c)
      shifted == FastShifted(i.y, s.r[i.x], s.f.c)
      rotated == FastShifted(i.y, s.r["a"], s.f.c)
  IN CASE i.op = "ld"    -> FastSet(s, i.x, FastOperand(s, i.y, i.n))
       [] i.op = "alu"   -> SetA([s EXCEPT !.f = alu.f], alu.a)
       [] i.op \in {"inc", "dec"} -> FastSet([s EXCEPT !.f = stepped.f], i.x, stepped.v)
       [] i.op = "shift" ->
            FastSet([s EXCEPT !.f = FlagBits(ZBit(shifted.v), 0, 0, shifted.c)], i.x, shifted.v)
       [] i.op = "rota"  -> SetA([s EXCEPT !.f = FlagBits(0, 0, 0, rotated.c)], rotated.v)
       [] i.op = "bit"   -> [s EXCEPT !.f = FlagBits(ZBit(Bit(s.r[i.x], i.n)), 0, 1, s.f.c)]
       [] i.op = "res"   -> FastSet(s, i.x, And(s.r[i.x], Full - i.n))
       [] i.op = "set"   -> FastSet(s, i.x, Or(s.r[i.x], i.n))
       [] i.op = "cpl"   ->
            SetA([s EXCEPT !.f = FlagBits(s.f.z, 1, 1, s.f.c)], Xor(s.r["a"], Full) % ByteSize)
       [] i.op = "scf"   -> [s EXCEPT !.f = FlagBits(s.f.z, 0, 0, 1)]
       [] i.op = "ccf"   -> [s EXCEPT !.f = FlagBits(s.f.z, 0, 0, 1 - s.f.c)]

FastWords(s, i) ==
  LET sum == FastSumHl(Pair(s, "hl"), Pair(s, i.x), s.f.z)
  IN CASE i.op = "ldw"   -> SetPair(s, i.x, i.n)
       [] i.op = "inc16" -> SetPair(s, i.x, (Pair(s, i.x) + 1) % Size)
       [] i.op = "dec16" -> SetPair(s, i.x, (Pair(s, i.x) - 1) % Size)
       [] i.op = "addhl" -> SetPair([s EXCEPT !.f = sum.f], "hl", sum.w)
       [] i.op = "push" /\ i.x = "af" -> FastPush(s, s.r["a"] * ByteSize + FByte(s.f))
       [] i.op = "push" /\ i.x # "af" -> FastPush(s, Pair(s, i.x))
       [] i.op = "pop" /\ i.x = "af" ->
            SetA([Popped(s) EXCEPT !.f = FOf(Low(FastWord(s)))], High(FastWord(s)))
       [] i.op = "pop" /\ i.x # "af" -> SetPair(Popped(s), i.x, FastWord(s))

FastEffect(s, i) ==
  CASE i.op = "lda" -> Bumped(SetA(s, s.mem[Address(s, i)]), i.y)
    [] i.op = "sta" -> Bumped(Put(s, Address(s, i), s.r["a"]), i.y)
    [] i.op \in {"rst", "call"} -> FastPush(s, FastNext(s, i))
    [] i.op = "ret" -> Popped(s)
    [] i.op \in {"ld", "alu", "inc", "dec", "shift", "rota", "bit", "res", "set",
                 "cpl", "scf", "ccf"} -> FastByte(s, i)
    [] i.op \in {"ldw", "inc16", "dec16", "addhl", "push", "pop"} -> FastWords(s, i)
    [] OTHER -> s

FastPath(s, i) ==
  [FastEffect(s, i) EXCEPT !.pc = FastGoes(s, i), !.took = s.took + FastCycles(s, i)]

-----------------------------------------------------------------------------
(* Compiled instructions, one after the other *)

\* The two bytes of a stack access are the last of wram and the first of oam.
Straddles(s, i) ==
  \/ i.op \in Pushes /\ NewSp(s) + 1 = Base.echo
  \/ i.op \in Pops /\ s.sp + 1 = Base.echo

\* An inlined store has no guard and hits a page with compiled code.
Unmarked(s, i) ==
  \/ i.op = "sta" /\ i.y \in {"hl+", "hl-"} /\ s.page[Page(Pair(s, "hl"))] = 1
  \/ i.op \in Pushes /\ (s.page[Page(NewSp(s))] = 1 \/ s.page[Page(NewSp(s) + 1)] = 1)

Idle == [op |-> "nop", x |-> "-", y |-> "-", n |-> 0]

Init ==
  /\ mix \in DOMAIN Mixes
  /\ m \in Mixes[mix].starts
  /\ last = Idle
  /\ left = Mixes[mix].steps

Executed(i) == last' = i /\ left' = left - 1 /\ UNCHANGED mix

\* The emitted code, on its fast path.
InlinedOp ==
  \E i \in Mixes[mix].ops :
    /\ left > 0
    /\ Inlines(i) /\ OnFastPath(m, i)
    /\ Straddles(m, i) => Straddling
    /\ Unmarked(m, i) => Unguarded
    /\ m' = FastPath(m, i)
    /\ Executed(i)

\* The call of sm83_step: no code for it, no literal left, or the slow path.
HelperOp ==
  \E i \in Mixes[mix].ops :
    /\ left > 0
    /\ ~(Inlines(i) /\ OnFastPath(m, i)) \/ UsesLiteral(i)
    /\ m' = Exec(m, i)
    /\ Executed(i)

Next == InlinedOp \/ HelperOp
Spec == Init /\ [][Next]_vars

-----------------------------------------------------------------------------
(* Properties *)

\* Registers, flags and memory keep their widths, and the bank is one that
\* MBC1 can select.
TypeOK ==
  /\ mix \in DOMAIN Mixes
  /\ last \in Mixes[mix].ops \union {Idle} /\ left \in 0..Mixes[mix].steps
  /\ m \in Machine

\* A compiled instruction leaves registers, flags, memory, pc, cycles and the
\* code-page states as the interpreter would, for every operand: the bit
\* extractions are the comparisons they stand for, the shifted address is in
\* work RAM, the struct's cells are what mmu_read8 and mmu_write8 use.
SameAsInterpreter == [][m' = Exec(m, last')]_vars

\* Where compiled code may have been made from and its bytes may change.
CodeAddr == Window \union Vram \union Wram \union Echo \union Hram

\* The flags the dispatcher looks at are raised for a change of the byte at a.
Flagged(s, t, a) ==
  IF a \in Window THEN t.switched
  ELSE LET p == Page(Canonical(a))
       IN /\ s.page[p] = 1 => t.page[p] = 2 /\ t.smc
          /\ s.page[p] = 2 => t.page[p] = 2

\* No instruction changes a byte of compiled code, in RAM, through its echo,
\* or by mapping another bank, without raising the flag for it.
CodeFlagged ==
  [][\A a \in CodeAddr : Read(m', a) # Read(m, a) => Flagged(m, m', a)]_vars
===============================================================================
