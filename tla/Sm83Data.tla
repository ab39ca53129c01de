------------------------------- MODULE Sm83Data --------------------------------
(***************************************************************************)
(* What an instruction of the guest does to registers, flags and memory:   *)
(* the switch of sm83_step (core/sm83_interp.c) and its helpers.           *)
(*                                                                         *)
(* Sm83Ops has the other half of sm83_step: interrupts, EI, DI, RETI, HALT *)
(* and STOP.  An instruction is decoded: op names its family, x and y its  *)
(* operands, n its immediate: a byte, an address, or the value of a bit.   *)
(* Time is in machine cycles of 4 clocks.                                  *)
(***************************************************************************)
EXTENDS Memory

CONSTANTS
  Digit,        \* the largest decimal digit: 9
  Bits,         \* the values of a byte's bits
  Xor(_, _)     \* of bytes, bit by bit

ASSUME XorAssumption ==
  \A v, w \in Byte : Xor(v, w) \in Byte /\ Xor(v, Full) = Full - v
ASSUME DigitAssumption == Digit \in 1..(Half - 1) /\ Bits \subseteq 1..Full

Reg8   == {"a", "b", "c", "d", "e", "h", "l"}
AluOps == {"add", "adc", "sub", "sbc", "and", "xor", "or", "cp"}
Shifts == {"rlc", "rrc", "rl", "rr", "sla", "sra", "swap", "srl"}
Rotates == {"rlc", "rrc", "rl", "rr"}
Conditions == {"always", "nz", "z", "nc", "c"}
Pairs == {"bc", "de", "hl", "sp"}
Place == Reg8 \union {"(hl)"}      \* the operands a 3-bit field names

Flags == [z : 0..1, n : 0..1, h : 0..1, c : 0..1]
Carts == [len : 0..RomSize, capacity : Nat \ {0}, banks : Nat, mbc1 : BOOLEAN]

\* cpu_state, and what Memory uses of mmu.
Machine ==
  [r : [Reg8 -> Byte], f : Flags, sp : Addr, pc : Addr, took : Nat,
   mem : [Stored -> Byte], page : [Byte -> 0..2], smc : BOOLEAN,
   bank : 0..(LowBanks * HighBanks - 1),
   switched : BOOLEAN, cart : Carts, keys : [pad : 0..Joyp.all, action : 0..Joyp.all]]

\* The instructions, by the shape of their operands.
Of(ops, xs, ys, ns) == [op : ops, x : xs, y : ys, n : ns]
None == {"-"}

Instrs ==
  UNION {Of({"ld"}, Place, Reg8 \union {"n"}, Byte), Of({"ld"}, Reg8, {"(hl)"}, {0}),
         Of({"lda", "sta"}, None, {"bc", "de", "hl+", "hl-", "c"}, {0}),
         Of({"lda", "sta"}, None, {"n"}, Byte), Of({"lda", "sta"}, None, {"nn"}, Addr),
         Of({"alu"}, AluOps, Place \union {"n"}, Byte),
         Of({"inc", "dec"}, Place, None, {0}),
         Of({"inc16", "dec16", "addhl"}, Pairs, None, {0}), Of({"ldw"}, Pairs, None, Addr),
         Of({"shift"}, Place, Shifts, {0}), Of({"rota"}, None, Rotates, {0}),
         Of({"bit", "res", "set"}, Place, None, Bits),
         Of({"nop", "cpl", "scf", "ccf", "daa", "jphl", "ldsphl"}, None, None, {0}),
         Of({"push", "pop"}, {"bc", "de", "hl", "af"}, None, {0}),
         Of({"jr"}, Conditions, None, Byte), Of({"jp", "call"}, Conditions, None, Addr),
         Of({"ret"}, Conditions, None, {0}), Of({"rst"}, {"always"}, None, Byte),
         Of({"stsp"}, None, None, Addr), Of({"addsp", "ldhlsp"}, None, None, Byte)}

-----------------------------------------------------------------------------
(* Operands *)

Truth(p) == IF p THEN 1 ELSE 0
Flag(z, n, h, c) == [z |-> Truth(z), n |-> n, h |-> Truth(h), c |-> Truth(c)]

\* The flags as the byte F; the bits below them are 0 in it.
FByte(f) == f.z * (ByteSize \div 2) + f.n * (ByteSize \div 4)
              + f.h * (ByteSize \div 8) + f.c * (ByteSize \div 16)
FOf(v) == [z |-> (v \div (ByteSize \div 2)) % 2, n |-> (v \div (ByteSize \div 4)) % 2,
           h |-> (v \div (ByteSize \div 8)) % 2, c |-> (v \div (ByteSize \div 16)) % 2]

Condition(f, cc) ==
  CASE cc = "nz" -> f.z = 0  [] cc = "z" -> f.z = 1
    [] cc = "nc" -> f.c = 0  [] cc = "c" -> f.c = 1
    [] OTHER -> TRUE

High8(p) == CASE p = "bc" -> "b" [] p = "de" -> "d" [] p = "hl" -> "h"
Low8(p)  == CASE p = "bc" -> "c" [] p = "de" -> "e" [] p = "hl" -> "l"

Pair(m, p) ==
  IF p = "sp" THEN m.sp ELSE m.r[High8(p)] * ByteSize + m.r[Low8(p)]
SetPair(m, p, w) ==
  IF p = "sp" THEN [m EXCEPT !.sp = w]
  ELSE [m EXCEPT !.r = [m.r EXCEPT ![High8(p)] = High(w), ![Low8(p)] = Low(w)]]
SetA(m, v) == [m EXCEPT !.r = [m.r EXCEPT !["a"] = v]]

\* reg8_read and reg8_write, and an immediate byte.
Operand(m, y, n) ==
  CASE y = "(hl)" -> Read(m, Pair(m, "hl")) [] y = "n" -> n [] OTHER -> m.r[y]
SetPlace(m, x, v) ==
  IF x = "(hl)" THEN Write(m, Pair(m, "hl"), v)
  ELSE [m EXCEPT !.r = [m.r EXCEPT ![x] = v]]

\* The address a load or store of A uses, and HL after it.
Address(m, i) ==
  CASE i.y = "nn"            -> i.n
    [] i.y = "n"             -> Base.io + i.n
    [] i.y = "c"             -> Base.io + m.r["c"]
    [] i.y \in {"bc", "de"}  -> Pair(m, i.y)
    [] i.y \in {"hl+", "hl-"} -> Pair(m, "hl")
Bumped(m, y) ==
  CASE y = "hl+" -> SetPair(m, "hl", (Pair(m, "hl") + 1) % Size)
    [] y = "hl-" -> SetPair(m, "hl", (Pair(m, "hl") + Size - 1) % Size)
    [] OTHER     -> m

Signed(n) == IF n < ByteSize \div 2 THEN n ELSE n - ByteSize

Push(m, w) ==
  LET sp == (m.sp + Size - 2) % Size IN Write16([m EXCEPT !.sp = sp], sp, w)
Popped(m) == [m EXCEPT !.sp = (m.sp + 2) % Size]

-----------------------------------------------------------------------------
(* Arithmetic: results and flags *)

Nibble(v) == v % Half

Plus(a, v, c) ==
  [a |-> (a + v + c) % ByteSize,
   f |-> Flag((a + v + c) % ByteSize = 0, 0, Nibble(a) + Nibble(v) + c >= Half,
              a + v + c >= ByteSize)]
Minus(a, v, c) ==
  [a |-> (a - v - c) % ByteSize,
   f |-> Flag((a - v - c) % ByteSize = 0, 1, Nibble(a) - Nibble(v) - c < 0, a - v - c < 0)]
Logic(v, h) == [a |-> v, f |-> Flag(v = 0, 0, h, FALSE)]

\* alu_add .. alu_cp.
Alu(op, a, v, c) ==
  CASE op = "add" -> Plus(a, v, 0)
    [] op = "adc" -> Plus(a, v, c)
    [] op = "sub" -> Minus(a, v, 0)
    [] op = "sbc" -> Minus(a, v, c)
    [] op = "and" -> Logic(And(a, v), TRUE)
    [] op = "xor" -> Logic(Xor(a, v), FALSE)
    [] op = "or"  -> Logic(Or(a, v), FALSE)
    [] op = "cp"  -> [Minus(a, v, 0) EXCEPT !.a = a]

\* alu_inc8 and alu_dec8; the carry stays.
Stepped(op, v, c) ==
  LET up == (v + 1) % ByteSize  down == (v - 1) % ByteSize
  IN IF op = "inc" THEN [v |-> up, f |-> Flag(up = 0, 0, Nibble(v) + 1 >= Half, c = 1)]
     ELSE [v |-> down, f |-> Flag(down = 0, 1, Nibble(v) = 0, c = 1)]

\* op_rlc .. op_srl: the new value and the bit shifted out.
Top == ByteSize \div 2
Shifted(op, v, c) ==
  LET top == v \div Top  bottom == v % 2
  IN CASE op = "rlc"  -> [v |-> (2 * v + top) % ByteSize, c |-> top]
       [] op = "rrc"  -> [v |-> (v \div 2) + bottom * Top, c |-> bottom]
       [] op = "rl"   -> [v |-> (2 * v + c) % ByteSize, c |-> top]
       [] op = "rr"   -> [v |-> (v \div 2) + c * Top, c |-> bottom]
       [] op = "sla"  -> [v |-> (2 * v) % ByteSize, c |-> top]
       [] op = "sra"  -> [v |-> (v \div 2) + top * Top, c |-> bottom]
       [] op = "swap" -> [v |-> ((v \div Half) + v * Half) % ByteSize, c |-> 0]
       [] op = "srl"  -> [v |-> v \div 2, c |-> bottom]

\* alu_add_hl on 16 bits, the half carry out of the lower 12.
Low12(w) == w % (ByteSize * Half)
SumHl(hl, w, z) ==
  [w |-> (hl + w) % Size,
   f |-> [z |-> z, n |-> 0, h |-> Truth(Low12(hl) + Low12(w) >= ByteSize * Half),
          c |-> Truth(hl + w >= Size)]]

\* alu_add_sp_r8: the flags of the low byte, the offset as it is.
SumSp(sp, n) ==
  [w |-> (sp + Signed(n)) % Size,
   f |-> Flag(FALSE, 0, Nibble(Low(sp)) + Nibble(n) >= Half, Low(sp) + n >= ByteSize)]

\* op_daa.
Decimal(a, f) ==
  LET six  == Half - 1 - Digit
      tens == f.c = 1 \/ (f.n = 0 /\ a > Digit * Half + Digit)
      sign == IF f.n = 1 THEN -1 ELSE 1
      first == IF tens THEN (a + sign * six * Half) % ByteSize ELSE a
      ones == f.h = 1 \/ (f.n = 0 /\ Nibble(first) > Digit)
      res  == IF ones THEN (first + sign * six) % ByteSize ELSE first
  IN [a |-> res, f |-> Flag(res = 0, f.n, FALSE, tens)]

-----------------------------------------------------------------------------
(* Instructions *)

\* length of the decoder's table.
Len(i) ==
  CASE i.op \in {"jp", "call", "ldw", "stsp"} \/ i.y = "nn" -> 3
    [] i.op \in {"jr", "shift", "bit", "res", "set", "addsp", "ldhlsp"}
       \/ i.y = "n" -> 2
    [] OTHER -> 1

After(m, i) == (m.pc + Len(i)) % Size

Taken(m, i) == i.op \in {"jp", "jr", "call", "ret"} /\ Condition(m.f, i.x)

\* cycles_notaken and cycles_taken, and the extra cycles of exec_cb.
Cycles(m, i) ==
  LET hl == "(hl)" \in {i.x, i.y}
      taken == Taken(m, i)
  IN CASE i.op = "ld"    -> IF hl /\ i.y = "n" THEN 3 ELSE IF hl \/ i.y = "n" THEN 2 ELSE 1
       [] i.op = "alu"   -> IF hl \/ i.y = "n" THEN 2 ELSE 1
       [] i.op \in {"lda", "sta"} -> CASE i.y = "nn" -> 4 [] i.y = "n" -> 3 [] OTHER -> 2
       [] i.op \in {"inc", "dec", "bit"} ->
            IF hl THEN 3 ELSE IF i.op = "bit" THEN 2 ELSE 1
       [] i.op \in {"shift", "res", "set"} -> IF hl THEN 4 ELSE 2
       [] i.op \in {"inc16", "dec16", "addhl", "ldsphl"} -> 2
       [] i.op \in {"ldw", "pop", "ldhlsp"} -> 3
       [] i.op \in {"push", "rst", "addsp"} -> 4
       [] i.op = "stsp"  -> 5
       [] i.op = "jr"    -> IF taken THEN 3 ELSE 2
       [] i.op = "jp"    -> IF taken THEN 4 ELSE 3
       [] i.op = "call"  -> IF taken THEN 6 ELSE 3
       [] i.op = "ret"   -> IF i.x = "always" THEN 4 ELSE IF taken THEN 5 ELSE 2
       [] OTHER -> 1

Goes(m, i) ==
  CASE i.op = "rst" \/ (i.op \in {"jp", "call"} /\ Taken(m, i)) -> i.n
    [] i.op = "jr" /\ Taken(m, i)  -> (m.pc + 2 + Signed(i.n)) % Size
    [] i.op = "ret" /\ Taken(m, i) -> Read16(m, m.sp)
    [] i.op = "jphl"               -> Pair(m, "hl")
    [] OTHER                       -> After(m, i)

\* The families of the switch: what they do to bytes, ...
ByteEffect(m, i) ==
  LET v == Operand(m, i.x, 0)
      Set(w, f) == SetPlace([m EXCEPT !.f = f], i.x, w)
      alu == Alu(i.x, m.r["a"], Operand(m, i.y, i.n), m.f.c)
      stepped == Stepped(i.op, v, m.f.c)
      shifted == Shifted(i.y, v, m.f.c)
      rotated == Shifted(i.y, m.r["a"], m.f.c)
      decimal == Decimal(m.r["a"], m.f)
  IN CASE i.op = "ld"    -> SetPlace(m, i.x, Operand(m, i.y, i.n))
       [] i.op = "alu"   -> SetA([m EXCEPT !.f = alu.f], alu.a)
       [] i.op \in {"inc", "dec"} -> Set(stepped.v, stepped.f)
       [] i.op = "shift" -> Set(shifted.v, Flag(shifted.v = 0, 0, FALSE, shifted.c = 1))
       [] i.op = "rota"  -> SetA([m EXCEPT !.f = Flag(FALSE, 0, FALSE, rotated.c = 1)], rotated.v)
       [] i.op = "bit"   -> [m EXCEPT !.f = Flag((v \div i.n) % 2 = 0, 0, TRUE, m.f.c = 1)]
       [] i.op = "res"   -> SetPlace(m, i.x, And(v, Full - i.n))
       [] i.op = "set"   -> SetPlace(m, i.x, Or(v, i.n))
       [] i.op = "cpl"   -> SetA([m EXCEPT !.f = Flag(m.f.z = 1, 1, TRUE, m.f.c = 1)], Full - m.r["a"])
       [] i.op = "scf"   -> [m EXCEPT !.f = Flag(m.f.z = 1, 0, FALSE, TRUE)]
       [] i.op = "ccf"   -> [m EXCEPT !.f = Flag(m.f.z = 1, 0, FALSE, m.f.c = 0)]
       [] i.op = "daa"   -> SetA([m EXCEPT !.f = decimal.f], decimal.a)

\* ... to words and the stack, ...
WordEffect(m, i) ==
  LET sum == SumHl(Pair(m, "hl"), Pair(m, i.x), m.f.z)
      off == SumSp(m.sp, i.n)
      word == Read16(m, m.sp)
  IN CASE i.op = "ldw"   -> SetPair(m, i.x, i.n)
       [] i.op = "inc16" -> SetPair(m, i.x, (Pair(m, i.x) + 1) % Size)
       [] i.op = "dec16" -> SetPair(m, i.x, (Pair(m, i.x) + Size - 1) % Size)
       [] i.op = "addhl" -> SetPair([m EXCEPT !.f = sum.f], "hl", sum.w)
       [] i.op = "ldsphl" -> [m EXCEPT !.sp = Pair(m, "hl")]
       [] i.op = "addsp"  -> [m EXCEPT !.sp = off.w, !.f = off.f]
       [] i.op = "ldhlsp" -> SetPair([m EXCEPT !.f = off.f], "hl", off.w)
       [] i.op = "stsp"   -> Write16(m, i.n, m.sp)
       [] i.op = "push" /\ i.x = "af" -> Push(m, m.r["a"] * ByteSize + FByte(m.f))
       [] i.op = "push" /\ i.x # "af" -> Push(m, Pair(m, i.x))
       [] i.op = "pop" /\ i.x = "af" ->
            SetA([Popped(m) EXCEPT !.f = FOf(Low(word))], High(word))
       [] i.op = "pop" /\ i.x # "af" -> SetPair(Popped(m), i.x, word)

\* ... and the jumps' to the stack.
Effect(m, i) ==
  CASE i.op = "lda" -> Bumped(SetA(m, Read(m, Address(m, i))), i.y)
    [] i.op = "sta" -> Bumped(Write(m, Address(m, i), m.r["a"]), i.y)
    [] i.op = "rst" \/ (i.op = "call" /\ Taken(m, i)) -> Push(m, After(m, i))
    [] i.op = "ret" /\ Taken(m, i) -> Popped(m)
    [] i.op \in {"ld", "alu", "inc", "dec", "shift", "rota", "bit", "res", "set",
                 "cpl", "scf", "ccf", "daa"} -> ByteEffect(m, i)
    [] i.op \in {"ldw", "inc16", "dec16", "addhl", "ldsphl", "addsp", "ldhlsp",
                 "stsp", "push", "pop"} -> WordEffect(m, i)
    [] OTHER -> m

Exec(m, i) ==
  [Effect(m, i) EXCEPT !.pc = Goes(m, i), !.took = m.took + Cycles(m, i)]
===============================================================================
