----------------------------- MODULE InlineProofs -----------------------------
(***************************************************************************)
(* Theorems about Inline, for every width of a byte, every layout of the   *)
(* address space, every cartridge and every sequence of instructions.      *)
(***************************************************************************)
EXTENDS Inline, Quotients, TLAPS

-----------------------------------------------------------------------------
(* Widths.                                                                 *)

\* A byte has four bits or more, and the sizes are powers of it.
LEMMA Widths ==
  /\ Half \in Nat \ {0} /\ ByteSize \in Nat \ {0} /\ Size \in Nat \ {0}
  /\ ByteSize = Half * Half /\ Size = ByteSize * ByteSize
  /\ ByteSize >= 16 /\ Half >= 4
<1>1. Half \in Nat /\ Half >= 4
  BY SizeAssumption
<1>2. Half * Half >= 4 * Half
  BY <1>1
<1>3. ByteSize \in Nat /\ ByteSize >= 16 /\ ByteSize = Half * Half
  BY <1>1, <1>2 DEF ByteSize
<1>4. ByteSize * ByteSize \in Nat /\ ByteSize * ByteSize > 0
  BY <1>3
<1> QED
  BY <1>1, <1>3, <1>4 DEF Size

\* The widths divide as powers of two do.
LEMMA Halves ==
  /\ Top \in Nat \ {0} /\ ByteSize = 2 * Top
  /\ \E q \in Nat \ {0} : /\ ByteSize = 16 * q /\ ByteSize \div 2 = 8 * q
                          /\ ByteSize \div 4 = 4 * q /\ ByteSize \div 8 = 2 * q
                          /\ ByteSize \div 16 = q
  /\ Eighth \in Nat \ {0} /\ Size = 8 * Eighth
<1>1. PICK h \in Nat \ {0} : Half = 4 * h
  <2>1. Half \in Nat /\ Half = 4 * (Half \div 4) + (Half % 4) /\ Half \div 4 \in Nat
    BY SizeAssumption, Division
  <2>2. Half = 4 * (Half \div 4) /\ Half \div 4 # 0
    BY <2>1, Widths, SizeAssumption
  <2> QED
    BY <2>1, <2>2
<1> DEFINE q == h * h
<1>2. q \in Nat \ {0}
  <2>1. h * h >= h
    BY <1>1
  <2> QED
    BY <2>1, <1>1
<1>3. ByteSize = 16 * q
  <2>1. ByteSize = (4 * h) * (4 * h)
    BY <1>1, Widths
  <2> QED
    BY <2>1, <1>1
<1> HIDE DEF q
<1>4. Size = 8 * (32 * (q * q)) /\ q * q \in Nat \ {0}
  <2>1. Size = (16 * q) * (16 * q)
    BY <1>3, Widths
  <2>2. q * q >= q
    BY <1>2
  <2> QED
    BY <2>1, <2>2, <1>2
<1>5. Eighth = 32 * (q * q)
  <2> DEFINE e == 32 * (q * q)
  <2>1. e \in Nat /\ Size = 8 * e + 0 /\ Size \in Int
    BY <1>4
  <2> HIDE DEF e
  <2>2. Size \div 8 = e
    BY <2>1, IntDivisionIs
  <2> QED
    BY <2>2 DEF e, Eighth
<1>6. /\ ByteSize \div 2 = 8 * q /\ ByteSize \div 4 = 4 * q /\ ByteSize \div 8 = 2 * q
      /\ ByteSize \div 16 = q
  BY <1>2, <1>3
<1> QED
  BY <1>2, <1>3, <1>4, <1>5, <1>6 DEF Top

-----------------------------------------------------------------------------
(* A bit of a number is a comparison.                                      *)

\* EXTUI on a sum, or on a difference that may be negative.
LEMMA BitIs ==
  ASSUME NEW w \in Nat \ {0}, NEW x \in Int
  PROVE  /\ x \in 0..(w - 1) => Bit(x, w) = 0
         /\ x \in w..(2 * w - 1) => Bit(x, w) = 1
         /\ x \in (-w)..(-1) => Bit(x, w) = 1
         /\ Bit(x, w) \in 0..1
<1>1. x \in 0..(w - 1) => x \div w = 0
  BY DivisionSmall
<1>2. x \in w..(2 * w - 1) => x \div w = 1
  BY DivisionNear
<1>3. x \in (-w)..(-1) => x \div w = -1
  BY DivisionNear
<1>4. x \div w \in Int
  BY IntDivision
<1> QED
  BY <1>1, <1>2, <1>3, <1>4 DEF Bit

\* emit_zflag.
LEMMA ZBitIs ==
  ASSUME NEW v \in Byte
  PROVE  ZBit(v) = Truth(v = 0)
<1>1. v \in 0..(ByteSize - 1) /\ ByteSize \in Nat \ {0} /\ v - 1 \in Int
  BY Widths DEF Byte
<1>2. CASE v = 0
  <2>1. v - 1 \in (-ByteSize)..(-1)
    BY <1>1, <1>2
  <2> QED
    BY <2>1, <1>1, <1>2, BitIs DEF ZBit, Truth
<1>3. CASE v # 0
  <2>1. v - 1 \in 0..(ByteSize - 1)
    BY <1>1, <1>3
  <2> QED
    BY <2>1, <1>1, <1>3, BitIs DEF ZBit, Truth
<1> QED
  BY <1>2, <1>3

\* The carry out of a sum of two numbers and a carry.
LEMMA SumBit ==
  ASSUME NEW w \in Nat \ {0}, NEW a \in 0..(w - 1), NEW v \in 0..(w - 1), NEW c \in 0..1
  PROVE  Bit(a + v + c, w) = IF a + v + c >= w THEN 1 ELSE 0
<1>1. a + v + c \in Int /\ a + v + c \in 0..(2 * w - 1)
  OBVIOUS
<1>2. CASE a + v + c >= w
  <2>1. a + v + c \in w..(2 * w - 1)
    BY <1>1, <1>2
  <2> QED
    BY <2>1, <1>1, <1>2, BitIs
<1>3. CASE ~(a + v + c >= w)
  <2>1. a + v + c \in 0..(w - 1)
    BY <1>1, <1>3
  <2> QED
    BY <2>1, <1>1, <1>3, BitIs
<1> QED
  BY <1>2, <1>3

\* The borrow of a difference.
LEMMA DifferenceBit ==
  ASSUME NEW w \in Nat \ {0}, NEW a \in 0..(w - 1), NEW v \in 0..(w - 1), NEW c \in 0..1
  PROVE  Bit(a - v - c, w) = IF a - v - c < 0 THEN 1 ELSE 0
<1>1. a - v - c \in Int /\ a - v - c \in (-w)..(w - 1)
  OBVIOUS
<1>2. CASE a - v - c < 0
  <2>1. a - v - c \in (-w)..(-1)
    BY <1>1, <1>2
  <2> QED
    BY <2>1, <1>1, <1>2, BitIs
<1>3. CASE ~(a - v - c < 0)
  <2>1. a - v - c \in 0..(w - 1)
    BY <1>1, <1>3
  <2> QED
    BY <2>1, <1>1, <1>3, BitIs
<1> QED
  BY <1>2, <1>3

-----------------------------------------------------------------------------
(* Arithmetic.                                                             *)

\* A byte is below the modulus, and its nibble below half of it.
LEMMA BytesAre ==
  /\ \A x \in Int : x % ByteSize \in Byte
  /\ \A x \in Byte : x \in Nat /\ x < ByteSize /\ x % ByteSize = x
                    /\ Nibble(x) \in 0..(Half - 1) /\ x \in 0..(ByteSize - 1)
  /\ 0 \in Byte /\ Full \in Byte
<1>1. ByteSize \in Nat \ {0} /\ Half \in Nat \ {0}
  BY Widths
<1>2. ASSUME NEW x \in Int PROVE x % ByteSize \in Byte
  BY <1>1, IntDivision DEF Byte
<1>3. ASSUME NEW x \in Byte
      PROVE  x \in Nat /\ x < ByteSize /\ x \in 0..(ByteSize - 1)
  BY <1>1 DEF Byte
<1>4. ASSUME NEW x \in Byte PROVE x % ByteSize = x
  BY <1>1, <1>3, DivisionSmall
<1>5. ASSUME NEW x \in Byte PROVE Nibble(x) \in 0..(Half - 1)
  <2>1. x \in Int
    BY <1>3
  <2> QED
    BY <2>1, <1>1, IntDivision DEF Nibble
<1>6. 0 \in Byte /\ Full \in Byte
  BY <1>1 DEF Byte, Full
<1> QED
  BY <1>2, <1>3, <1>4, <1>5, <1>6

\* A masked byte is a byte no greater than the mask.
LEMMA AndByte ==
  ASSUME NEW a \in Byte, NEW b \in Byte
  PROVE  And(a, b) \in Byte /\ And(a, b) \in 0..b
<1>1. And(a, b) \in 0..b
  BY BitsAssumption
<1> QED
  BY <1>1, Widths DEF Byte

\* ADD and ADC.
LEMMA PlusSame ==
  ASSUME NEW a \in Byte, NEW v \in Byte, NEW c \in 0..1
  PROVE  FastPlus(a, v, c) = Plus(a, v, c) /\ Plus(a, v, c) \in [a : Byte, f : Flags]
<1> DEFINE sum == a + v + c
           nib == Nibble(a) + Nibble(v) + c
<1>0. /\ a \in 0..(ByteSize - 1) /\ v \in 0..(ByteSize - 1)
      /\ Nibble(a) \in 0..(Half - 1) /\ Nibble(v) \in 0..(Half - 1)
  BY BytesAre
<1>1. sum \in Int /\ sum % ByteSize \in Byte
  BY <1>0, BytesAre
<1>2. Bit(nib, Half) = Truth(nib >= Half)
  BY <1>0, Widths, SumBit DEF Truth
<1>3. Bit(sum, ByteSize) = Truth(sum >= ByteSize)
  BY <1>0, Widths, SumBit DEF Truth
<1>4. ZBit(sum % ByteSize) = Truth(sum % ByteSize = 0)
  BY <1>1, ZBitIs
<1>5. Flag(sum % ByteSize = 0, 0, nib >= Half, sum >= ByteSize)
        = FlagBits(ZBit(sum % ByteSize), 0, Bit(nib, Half), Bit(sum, ByteSize))
  BY <1>2, <1>3, <1>4 DEF Flag, FlagBits
<1>6. Flag(sum % ByteSize = 0, 0, nib >= Half, sum >= ByteSize) \in Flags
  BY DEF Flag, Flags, Truth
<1> QED
  BY <1>1, <1>5, <1>6 DEF FastPlus, Plus

\* SUB, SBC and CP: the borrow is the sign.
LEMMA MinusSame ==
  ASSUME NEW a \in Byte, NEW v \in Byte, NEW c \in 0..1
  PROVE  FastMinus(a, v, c) = Minus(a, v, c) /\ Minus(a, v, c) \in [a : Byte, f : Flags]
<1> DEFINE dif == a - v - c
           nib == Nibble(a) - Nibble(v) - c
<1>0. /\ a \in 0..(ByteSize - 1) /\ v \in 0..(ByteSize - 1)
      /\ Nibble(a) \in 0..(Half - 1) /\ Nibble(v) \in 0..(Half - 1)
  BY BytesAre
<1>1. dif \in Int /\ dif % ByteSize \in Byte
  BY <1>0, BytesAre
<1>2. Bit(nib, Half) = Truth(nib < 0)
  BY <1>0, Widths, DifferenceBit DEF Truth
<1>3. Bit(dif, ByteSize) = Truth(dif < 0)
  BY <1>0, Widths, DifferenceBit DEF Truth
<1>4. ZBit(dif % ByteSize) = Truth(dif % ByteSize = 0)
  BY <1>1, ZBitIs
<1>5. Flag(dif % ByteSize = 0, 1, nib < 0, dif < 0)
        = FlagBits(ZBit(dif % ByteSize), 1, Bit(nib, Half), Bit(dif, ByteSize))
  BY <1>2, <1>3, <1>4 DEF Flag, FlagBits
<1>6. Flag(dif % ByteSize = 0, 1, nib < 0, dif < 0) \in Flags
  BY DEF Flag, Flags, Truth
<1> QED
  BY <1>1, <1>5, <1>6 DEF FastMinus, Minus

\* AND, OR and XOR.
LEMMA LogicSame ==
  ASSUME NEW v \in Byte
  PROVE  /\ FastLogic(v, 1) = Logic(v, TRUE) /\ FastLogic(v, 0) = Logic(v, FALSE)
         /\ Logic(v, TRUE) \in [a : Byte, f : Flags]
         /\ Logic(v, FALSE) \in [a : Byte, f : Flags]
<1>1. /\ FlagBits(ZBit(v), 0, 1, 0) = Flag(v = 0, 0, TRUE, FALSE)
      /\ FlagBits(ZBit(v), 0, 0, 0) = Flag(v = 0, 0, FALSE, FALSE)
  <2>1. ZBit(v) = Truth(v = 0)
    BY ZBitIs
  <2> QED
    BY <2>1 DEF Flag, FlagBits, Truth
<1>2. Flag(v = 0, 0, TRUE, FALSE) \in Flags /\ Flag(v = 0, 0, FALSE, FALSE) \in Flags
  BY DEF Flag, Flags, Truth
<1> QED
  BY <1>1, <1>2 DEF FastLogic, Logic

\* ALU_INLINE computes what alu_add .. alu_cp compute.
LEMMA AluSame ==
  ASSUME NEW op \in AluOps, NEW a \in Byte, NEW v \in Byte, NEW c \in 0..1
  PROVE  FastAlu(op, a, v, c) = Alu(op, a, v, c) /\ Alu(op, a, v, c) \in [a : Byte, f : Flags]
<1>1. /\ FastPlus(a, v, c) = Plus(a, v, c) /\ FastPlus(a, v, 0) = Plus(a, v, 0)
      /\ Plus(a, v, c) \in [a : Byte, f : Flags] /\ Plus(a, v, 0) \in [a : Byte, f : Flags]
  BY PlusSame
<1>2. /\ FastMinus(a, v, c) = Minus(a, v, c) /\ FastMinus(a, v, 0) = Minus(a, v, 0)
      /\ Minus(a, v, c) \in [a : Byte, f : Flags] /\ Minus(a, v, 0) \in [a : Byte, f : Flags]
  BY MinusSame
<1>3. [Minus(a, v, 0) EXCEPT !.a = a] \in [a : Byte, f : Flags]
  BY <1>2
<1>4. /\ And(a, v) \in Byte /\ Xor(a, v) \in Byte /\ Or(a, v) \in Byte
  BY AndByte, XorAssumption, BitsAssumption
<1>5. /\ FastLogic(And(a, v), 1) = Logic(And(a, v), TRUE)
      /\ FastLogic(Xor(a, v), 0) = Logic(Xor(a, v), FALSE)
      /\ FastLogic(Or(a, v), 0) = Logic(Or(a, v), FALSE)
      /\ Logic(And(a, v), TRUE) \in [a : Byte, f : Flags]
      /\ Logic(Xor(a, v), FALSE) \in [a : Byte, f : Flags]
      /\ Logic(Or(a, v), FALSE) \in [a : Byte, f : Flags]
  BY <1>4, LogicSame
<1> QED
  BY <1>1, <1>2, <1>3, <1>5 DEF FastAlu, Alu, AluOps

\* INC and DEC.
LEMMA SteppedSame ==
  ASSUME NEW op \in {"inc", "dec"}, NEW v \in Byte, NEW c \in 0..1
  PROVE  /\ FastStepped(op, v, c) = Stepped(op, v, c)
         /\ Stepped(op, v, c) \in [v : Byte, f : Flags]
<1> DEFINE up == (v + 1) % ByteSize
           down == (v - 1) % ByteSize
<1>1. up \in Byte /\ down \in Byte /\ Truth(c = 1) = c /\ Nibble(v) \in 0..(Half - 1)
  BY BytesAre DEF Truth
<1>2. ZBit(up) = Truth(up = 0) /\ ZBit(down) = Truth(down = 0)
  BY <1>1, ZBitIs
<1>3. Bit(Nibble(v) + 1, Half) = Truth(Nibble(v) + 1 >= Half)
  <2>1. Bit(Nibble(v) + 0 + 1, Half) = IF Nibble(v) + 0 + 1 >= Half THEN 1 ELSE 0
    BY <1>1, Widths, SumBit
  <2>2. Nibble(v) + 0 + 1 = Nibble(v) + 1
    BY <1>1
  <2> QED
    BY <2>1, <2>2 DEF Truth
<1>4. Bit(Nibble(v) - 1, Half) = Truth(Nibble(v) = 0)
  <2>1. CASE Nibble(v) = 0
    <3>1. Nibble(v) - 1 \in (-Half)..(-1) /\ Nibble(v) - 1 \in Int
      BY <2>1, Widths
    <3> QED
      BY <3>1, <2>1, Widths, BitIs DEF Truth
  <2>2. CASE Nibble(v) # 0
    <3>1. Nibble(v) - 1 \in 0..(Half - 1) /\ Nibble(v) - 1 \in Int
      BY <2>2, <1>1, Widths
    <3> QED
      BY <3>1, <2>2, Widths, BitIs DEF Truth
  <2> QED
    BY <2>1, <2>2
<1> HIDE DEF up, down
<1>5. /\ Flag(up = 0, 0, Nibble(v) + 1 >= Half, c = 1)
           = FlagBits(ZBit(up), 0, Bit(Nibble(v) + 1, Half), c)
      /\ Flag(down = 0, 1, Nibble(v) = 0, c = 1)
           = FlagBits(ZBit(down), 1, Bit(Nibble(v) - 1, Half), c)
  BY <1>1, <1>2, <1>3, <1>4 DEF Flag, FlagBits
<1>6. {Flag(up = 0, 0, Nibble(v) + 1 >= Half, c = 1), Flag(down = 0, 1, Nibble(v) = 0, c = 1)}
        \subseteq Flags
  BY DEF Flag, Flags, Truth
<1> QED
  BY <1>1, <1>5, <1>6 DEF FastStepped, Stepped, up, down

\* A byte's top bit, its other bits and its lower half.
LEMMA ByteParts ==
  ASSUME NEW v \in Byte
  PROVE  /\ v \div Top \in 0..1 /\ v % 2 \in 0..1 /\ v \div 2 \in 0..(Top - 1)
         /\ Bit(v, Top) = v \div Top /\ Bit(v, 1) = v % 2
         /\ (v * Half) % ByteSize = (v % Half) * Half
         /\ v \div Half \in 0..(Half - 1)
         /\ ((v % Half) * Half) + (v \div Half) \in Byte
         /\ ((v \div Half) + v * Half) % ByteSize = ((v % Half) * Half) + (v \div Half)
<1>1. v \in Nat /\ v < ByteSize /\ ByteSize \in Nat /\ Half \in Nat \ {0} /\ ByteSize = Half * Half
  BY BytesAre, Widths
<1>2. Top \in Nat \ {0} /\ ByteSize = 2 * Top
  BY Halves
<1>3. v \div Top \in 0..1
  <2>1. v \in 0..(Top - 1) => v \div Top = 0
    BY <1>2, DivisionSmall
  <2>2. v \in Top..(2 * Top - 1) => v \div Top = 1
    BY <1>1, <1>2, DivisionNear
  <2> QED
    BY <2>1, <2>2, <1>1, <1>2
<1>4. v % 2 \in 0..1 /\ v \div 2 \in 0..(Top - 1)
  BY <1>1, <1>2
<1>5. Bit(v, Top) = v \div Top /\ Bit(v, 1) = v % 2
  <2>1. (v \div Top) % 2 = v \div Top
    BY <1>3
  <2>2. v \div 1 = v
    BY <1>1
  <2> QED
    BY <2>1, <2>2 DEF Bit
<1> DEFINE q == v \div Half
           r == v % Half
<1>6. q \in Nat /\ r \in 0..(Half - 1) /\ v = Half * q + r
  BY <1>1, Division
<1> HIDE DEF q, r
<1>7. q \in 0..(Half - 1)
  <2>1. q < Half
    <3>1. SUFFICES ASSUME q >= Half PROVE FALSE
      BY <1>1, <1>6
    <3>2. Half * q >= Half * Half
      BY <3>1, <1>1, <1>6
    <3> QED
      BY <3>2, <1>1, <1>6
  <2> QED
    BY <2>1, <1>1, <1>6
<1>8. r * Half \in Nat /\ r * Half <= (Half - 1) * Half /\ (Half - 1) * Half = ByteSize - Half
  BY <1>1, <1>6
<1>9. v * Half = ByteSize * q + r * Half
  BY <1>1, <1>6
<1>10. (v * Half) % ByteSize = r * Half
  <2>1. r * Half \in 0..(ByteSize - 1) /\ v * Half \in Nat /\ ByteSize \in Nat \ {0}
    BY <1>1, <1>8
  <2> QED
    BY <2>1, <1>9, <1>6, DivisionIs
<1>11. r * Half + q \in 0..(ByteSize - 1)
  BY <1>1, <1>7, <1>8
<1>12. (q + v * Half) % ByteSize = r * Half + q
  <2>1. q + v * Half = ByteSize * q + (r * Half + q) /\ q + v * Half \in Nat
    BY <1>9, <1>1, <1>6
  <2>2. ByteSize \in Nat \ {0}
    BY Widths
  <2> QED
    BY <2>1, <2>2, <1>11, <1>6, DivisionIs
<1> QED
  BY <1>3, <1>4, <1>5, <1>7, <1>10, <1>11, <1>12 DEF q, r, Byte

\* The emitted shifts are op_rlc .. op_srl.
LEMMA ShiftedSame ==
  ASSUME NEW op \in Shifts, NEW v \in Byte, NEW c \in 0..1
  PROVE  /\ FastShifted(op, v, c) = Shifted(op, v, c)
         /\ Shifted(op, v, c) \in [v : Byte, c : 0..1]
<1> DEFINE top == v \div Top
           bottom == v % 2
<1>1. /\ top \in 0..1 /\ bottom \in 0..1 /\ v \div 2 \in 0..(Top - 1)
      /\ Bit(v, Top) = top /\ Bit(v, 1) = bottom /\ v \in Nat
  BY ByteParts, BytesAre
<1>2. /\ (2 * v + top) % ByteSize \in Byte /\ (2 * v + c) % ByteSize \in Byte
      /\ (2 * v) % ByteSize \in Byte
  BY <1>1, BytesAre
<1>3. ASSUME NEW b \in 0..1 PROVE (v \div 2) + b * Top \in Byte
  BY <1>1, Halves DEF Byte
<1>4. /\ ((v \div Half) + v * Half) % ByteSize = ((v * Half) % ByteSize) + (v \div Half)
      /\ ((v \div Half) + v * Half) % ByteSize \in Byte
  BY ByteParts
<1>5. v \div 2 \in Byte
  BY <1>1, Halves DEF Byte
<1> HIDE DEF top, bottom
<1>6. /\ (v \div 2) + bottom * Top \in Byte /\ (v \div 2) + c * Top \in Byte
      /\ (v \div 2) + top * Top \in Byte
  BY <1>3, <1>1
<1>7. FastShifted(op, v, c) = Shifted(op, v, c)
  BY <1>1, <1>4 DEF FastShifted, Shifted, Shifts, top, bottom
<1>8. Shifted(op, v, c) \in [v : Byte, c : 0..1]
  BY <1>1, <1>2, <1>4, <1>5, <1>6 DEF Shifted, Shifts, top, bottom
<1> QED
  BY <1>7, <1>8

\* Words and their bytes.
LEMMA WordParts ==
  /\ \A h, l \in Byte : h * ByteSize + l \in Addr
  /\ \A w \in Addr : Low(w) \in Byte /\ High(w) \in Byte /\ w \in Nat /\ w < Size
  /\ \A w \in Int : w % Size \in Addr
  /\ \A w \in Addr : w % Size = w
<1>1. /\ ByteSize \in Nat \ {0} /\ Size \in Nat \ {0} /\ Size = ByteSize * ByteSize
  BY Widths
<1>2. ASSUME NEW h \in Byte, NEW l \in Byte PROVE h * ByteSize + l \in Addr
  <2>1. h \in Nat /\ l \in Nat /\ h <= ByteSize - 1 /\ l <= ByteSize - 1
    BY BytesAre, <1>1
  <2>2. h * ByteSize <= (ByteSize - 1) * ByteSize
    BY <2>1, <1>1
  <2>3. (ByteSize - 1) * ByteSize = Size - ByteSize /\ h * ByteSize \in Nat
    BY <2>1, <1>1
  <2> QED
    BY <2>1, <2>2, <2>3, <1>1 DEF Addr
<1>3. ASSUME NEW w \in Addr
      PROVE  Low(w) \in Byte /\ High(w) \in Byte /\ w \in Nat /\ w < Size
  <2>1. w \in Nat /\ w < Size
    BY <1>1 DEF Addr
  <2> DEFINE q == w \div ByteSize
             r == w % ByteSize
  <2>2. q \in Nat /\ r \in 0..(ByteSize - 1) /\ w = ByteSize * q + r
    BY <2>1, <1>1, Division
  <2> HIDE DEF q, r
  <2>3. q < ByteSize
    <3>1. SUFFICES ASSUME q >= ByteSize PROVE FALSE
      BY <2>2, <1>1
    <3>2. ByteSize * q >= ByteSize * ByteSize
      BY <3>1, <2>2, <1>1
    <3> QED
      BY <3>2, <2>1, <2>2, <1>1
  <2>4. q \in Byte /\ r \in Byte
    BY <2>2, <2>3, <1>1 DEF Byte
  <2> QED
    BY <2>1, <2>4 DEF q, r, Low, High
<1>4. ASSUME NEW w \in Int PROVE w % Size \in Addr
  BY <1>1, IntDivision DEF Addr
<1>5. ASSUME NEW w \in Addr PROVE w % Size = w
  BY <1>1, DivisionSmall DEF Addr
<1> QED
  BY <1>2, <1>3, <1>4, <1>5

\* ADD HL.
LEMMA SumHlSame ==
  ASSUME NEW hl \in Addr, NEW w \in Addr, NEW z \in 0..1
  PROVE  FastSumHl(hl, w, z) = SumHl(hl, w, z) /\ SumHl(hl, w, z) \in [w : Addr, f : Flags]
<1> DEFINE d == ByteSize * Half
<1>1. d \in Nat \ {0} /\ Size \in Nat \ {0}
  <2>1. ByteSize * Half > 0
    BY Widths
  <2> QED
    BY <2>1, Widths
<1>2. hl \in 0..(Size - 1) /\ w \in 0..(Size - 1) /\ (hl + w) % Size \in Addr
  <2>1. hl \in 0..(Size - 1) /\ w \in 0..(Size - 1)
    BY DEF Addr
  <2>2. hl + w \in Int
    BY <2>1, <1>1
  <2> QED
    BY <2>1, <2>2, WordParts
<1>3. Low12(hl) \in 0..(d - 1) /\ Low12(w) \in 0..(d - 1)
  <2>1. hl \in Int /\ w \in Int
    BY <1>1, <1>2
  <2> QED
    BY <2>1, <1>1, IntDivision DEF Low12
<1> HIDE DEF d
<1>4. Bit(Low12(hl) + Low12(w), d) = IF Low12(hl) + Low12(w) >= d THEN 1 ELSE 0
  <2>1. Bit(Low12(hl) + Low12(w) + 0, d) = IF Low12(hl) + Low12(w) + 0 >= d THEN 1 ELSE 0
    BY <1>1, <1>3, SumBit
  <2>2. Low12(hl) + Low12(w) + 0 = Low12(hl) + Low12(w)
    BY <1>1, <1>3
  <2> QED
    BY <2>1, <2>2
<1>5. Bit(hl + w, Size) = IF hl + w >= Size THEN 1 ELSE 0
  <2>1. Bit(hl + w + 0, Size) = IF hl + w + 0 >= Size THEN 1 ELSE 0
    BY <1>1, <1>2, SumBit
  <2>2. hl + w + 0 = hl + w
    BY <1>1, <1>2
  <2> QED
    BY <2>1, <2>2
<1> QED
  BY <1>2, <1>4, <1>5 DEF FastSumHl, SumHl, FlagBits, Truth, Flags, d

\* The flags fit into a byte, and any byte gives flags.
LEMMA FlagBytes ==
  /\ \A f \in Flags : FByte(f) \in Byte
  /\ \A v \in Byte : FOf(v) \in Flags
<1>1. PICK q \in Nat \ {0} :
        /\ ByteSize = 16 * q /\ ByteSize \div 2 = 8 * q
        /\ ByteSize \div 4 = 4 * q /\ ByteSize \div 8 = 2 * q
        /\ ByteSize \div 16 = q
  BY Halves
<1>2. ASSUME NEW f \in Flags PROVE FByte(f) \in Byte
  <2>1. f.z \in 0..1 /\ f.n \in 0..1 /\ f.h \in 0..1 /\ f.c \in 0..1
    BY DEF Flags
  <2>2. /\ f.z * (8 * q) \in {0, 8 * q} /\ f.n * (4 * q) \in {0, 4 * q}
        /\ f.h * (2 * q) \in {0, 2 * q} /\ f.c * q \in {0, q}
    BY <2>1, <1>1
  <2>3. FByte(f) = f.z * (8 * q) + f.n * (4 * q) + f.h * (2 * q) + f.c * q
    BY <1>1 DEF FByte
  <2> QED
    BY <2>2, <2>3, <1>1 DEF Byte
<1>3. ASSUME NEW v \in Byte PROVE FOf(v) \in Flags
  <2>1. ASSUME NEW d \in Nat \ {0} PROVE (v \div d) % 2 \in 0..1
    <3>1. v \div d \in Nat
      BY BytesAre, Division
    <3> QED
      BY <3>1
  <2>2. /\ (v \div (8 * q)) % 2 \in 0..1 /\ (v \div (4 * q)) % 2 \in 0..1
        /\ (v \div (2 * q)) % 2 \in 0..1 /\ (v \div q) % 2 \in 0..1
    <3>1. {8 * q, 4 * q, 2 * q, q} \subseteq Nat \ {0}
      BY <1>1
    <3> QED
      BY <3>1, <2>1
  <2> QED
    BY <2>2, <1>1 DEF FOf, Flags
<1> QED
  BY <1>2, <1>3

-----------------------------------------------------------------------------
(* Memory.                                                                 *)

\* The regions, in the order of their addresses.
LEMMA Regions ==
  /\ \A x \in DOMAIN Base : Base[x] \in Addr
  /\ {Base.window, Base.vram, Base.ext, Base.wram, Base.echo, Base.oam, Base.void, Base.io,
      Base.hram, Base.ie} \subseteq Nat
  /\ 0 < Base.window /\ Base.window < Base.vram /\ Base.vram < Base.ext
  /\ Base.ext < Base.wram /\ Base.wram < Base.echo /\ Base.echo < Base.oam
  /\ Base.oam < Base.void /\ Base.void <= Base.io /\ Base.io < Base.hram
  /\ Base.hram < Base.ie /\ Base.ie = Size - 1
  BY BaseAssumption, Widths DEF Addr

\* Every address is in one region, and a cell is kept for every one with memory.
LEMMA Cells ==
  ASSUME NEW a \in Addr
  PROVE  /\ a \in Fixed \/ a \in Window \/ a \in Ext \union Void \/ Canonical(a) \in Stored
         /\ a \in Vram \union Wram \union Echo \union Hram => Canonical(a) \in Stored
         /\ a \notin Echo => Canonical(a) = a
         /\ a \in Echo => Canonical(a) \in Wram
         /\ Canonical(a) \in Addr /\ Page(Canonical(a)) \in Byte /\ Page(a) \in Byte
<1>1. a \in 0..(Size - 1) /\ Size \in Nat /\ Eighth \in Nat \ {0} /\ Size = 8 * Eighth
  BY Widths, Halves DEF Addr
<1>2. a \in Echo => a - Base.echo + Base.wram \in Wram
  BY <1>1, Regions, BaseAssumption DEF Echo, Wram
<1>3. Canonical(a) \in Addr
  BY <1>1, <1>2, Regions DEF Canonical, Wram, Addr
<1>4. Page(Canonical(a)) \in Byte /\ Page(a) \in Byte
  BY <1>3, WordParts DEF Page, High
<1>5. a \notin Fixed \union Window \union Ext \union Void \union Echo => a \in Stored
  BY <1>1, Regions
     DEF Fixed, Window, Vram, Ext, Wram, Echo, Oam, Void, IoPort, Hram, Stored
<1>6. a \in Vram \union Wram \union Hram => a \in Stored
  BY DEF Stored
<1> QED
  BY <1>2, <1>3, <1>4, <1>5, <1>6 DEF Canonical, Stored

\* The struct's cells are addresses.
LEMMA StoredAddr ==
  /\ Stored \subseteq Addr /\ IoPort \subseteq Stored /\ Oam \subseteq Addr
  /\ \A x \in DOMAIN Io : Io[x] \in Stored /\ Io[x] \in Addr
<1>1. Stored \subseteq Addr
  BY Regions, Widths DEF Stored, Vram, Wram, Oam, IoPort, Hram, Addr
<1> QED
  BY <1>1, IoAssumption DEF Stored

\* The parts of a machine.
LEMMA Parts ==
  ASSUME NEW s \in Machine
  PROVE  /\ s.r \in [Reg8 -> Byte] /\ s.f \in Flags /\ s.sp \in Addr /\ s.pc \in Addr
         /\ s.took \in Nat /\ s.mem \in [Stored -> Byte] /\ s.page \in [Byte -> 0..2]
         /\ s.smc \in BOOLEAN /\ s.bank \in 0..(LowBanks * HighBanks - 1)
         /\ s.switched \in BOOLEAN /\ s.cart \in Carts
         /\ s.keys \in [pad : 0..Joyp.all, action : 0..Joyp.all]
  BY DEF Machine

\* A machine with one part changed.
LEMMA Changed ==
  ASSUME NEW s \in Machine
  PROVE  /\ \A r \in [Reg8 -> Byte] : [s EXCEPT !.r = r] \in Machine
         /\ \A f \in Flags : [s EXCEPT !.f = f] \in Machine
         /\ \A a \in Addr : [s EXCEPT !.sp = a] \in Machine
         /\ \A a \in Addr, n \in Nat : [s EXCEPT !.pc = a, !.took = n] \in Machine
         /\ \A mem \in [Stored -> Byte] : [s EXCEPT !.mem = mem] \in Machine
         /\ \A page \in [Byte -> 0..2], b \in BOOLEAN :
               [s EXCEPT !.page = page, !.smc = b] \in Machine
         /\ \A n \in 0..(LowBanks * HighBanks - 1), b \in BOOLEAN :
               [s EXCEPT !.switched = b, !.bank = n] \in Machine
  BY DEF Machine

\* mmu_read8 returns a byte.
LEMMA ReadByte ==
  ASSUME NEW s \in Machine, NEW a \in Addr
  PROVE  Read(s, a) \in Byte
<1>1. ASSUME NEW off \in Nat PROVE RomByte(s, off) \in Byte
  <2>1. s.cart.len \in 0..RomSize
    BY Parts DEF Carts
  <2>2. off < s.cart.len => off \in 0..(RomSize - 1)
    BY <2>1, RomAssumption
  <2> QED
    BY <2>2, RomAssumption, BytesAre DEF RomByte
<1>2. a \in Nat /\ (a \in Window => Offset(s, a) \in Nat)
  <2>1. a \in Nat
    BY WordParts
  <2>2. SUFFICES ASSUME a \in Window PROVE Offset(s, a) \in Nat
    BY <2>1
  <2> DEFINE off == s.bank * BankSize + (a - Base.window)
  <2>3. off \in Nat
    <3>1. s.bank \in Nat /\ BankSize \in Nat
      BY Parts, Regions, SizeAssumption DEF BankSize
    <3>2. a - Base.window \in Nat /\ s.bank * BankSize \in Nat
      BY <3>1, <2>1, <2>2, Regions DEF Window
    <3> QED
      BY <3>2
  <2> HIDE DEF off
  <2>4. s.cart.capacity \in Nat \ {0}
    BY Parts DEF Carts
  <2>5. off % s.cart.capacity \in Nat
    <3>1. off % s.cart.capacity \in 0..(s.cart.capacity - 1)
      BY <2>3, <2>4, Division
    <3> QED
      BY <3>1, <2>4
  <2> QED
    BY <2>3, <2>5 DEF Offset, off
<1>3. JoypRead(s) \in Byte
  <2>1. s.mem[Io.joyp] \in Byte
    BY Parts, StoredAddr, IoAssumption
  <2>2. /\ Joyp.always \in Nat /\ Joyp.all \in Byte /\ Joyp.pad \in Nat /\ Joyp.action \in Nat
        /\ Joyp.pad + Joyp.action \in Byte
        /\ Joyp.always + (Joyp.pad + Joyp.action) + Joyp.all = Full
    BY JoypAssumption, Widths DEF Byte, Full
  <2>3. /\ Joyp.all - s.keys.pad \in Byte /\ Joyp.all - s.keys.action \in 0..Joyp.all
        /\ Joyp.all - s.keys.action \in Byte
    <3> DEFINE p == s.keys.pad
               c == s.keys.action
               j == Joyp.all
    <3>1. p \in 0..j /\ c \in 0..j
      BY Parts
    <3>2. j \in Nat /\ j \in Byte /\ ByteSize \in Nat
      BY <2>2, Widths DEF Byte
    <3> HIDE DEF p, c, j
    <3>3. j - p \in Byte /\ j - c \in 0..j /\ j - c \in Byte
      BY <3>1, <3>2 DEF Byte
    <3> QED
      BY <3>3 DEF p, c, j
  <2>4. And(s.mem[Io.joyp], Joyp.pad + Joyp.action) \in 0..(Joyp.pad + Joyp.action)
    BY <2>1, <2>2, AndByte
  <2> DEFINE one == IF And(s.mem[Io.joyp], Joyp.pad) = 0 THEN Joyp.all - s.keys.pad ELSE Joyp.all
             two == IF And(s.mem[Io.joyp], Joyp.action) = 0 THEN Joyp.all - s.keys.action
                    ELSE Joyp.all
  <2>5. one \in Byte /\ two \in Byte /\ two \in 0..Joyp.all
    BY <2>2, <2>3, BytesAre
  <2> HIDE DEF one, two
  <2>6. And(one, two) \in 0..two
    BY <2>5, AndByte
  <2> DEFINE sel == And(s.mem[Io.joyp], Joyp.pad + Joyp.action)
             nib == And(one, two)
             rows == Joyp.pad + Joyp.action
  <2>7. /\ sel \in 0..rows /\ nib \in 0..two /\ rows \in Byte
        /\ Joyp.always + rows + Joyp.all = Full
    BY <2>2, <2>4, <2>6
  <2> HIDE DEF sel, nib, rows
  <2>8. /\ rows \in Nat /\ Full \in Nat /\ Joyp.always \in Nat /\ Joyp.all \in Nat
        /\ two \in 0..Joyp.all
    BY <2>2, <2>5, <2>7, BytesAre
  <2>10. Joyp.always + sel + nib \in 0..Full
    BY <2>7, <2>8
  <2>9. JoypRead(s) = Joyp.always + sel + nib
    BY DEF JoypRead, one, two, sel, nib
  <2> QED
    BY <2>9, <2>10 DEF Byte, Full
<1>4. Canonical(a) \in Stored => s.mem[Canonical(a)] \in Byte
  BY Parts
<1> QED
  BY <1>1, <1>2, <1>3, <1>4, Cells, BytesAre DEF Read

\* mmu_read16 returns a word.
LEMMA Read16Word ==
  ASSUME NEW s \in Machine, NEW a \in Addr
  PROVE  Read16(s, a) \in Addr
<1>1. (a + 1) % Size \in Addr
  <2>1. a + 1 \in Int
    BY WordParts
  <2> QED
    BY <2>1, WordParts
<1>2. Read(s, a) \in Byte /\ Read(s, (a + 1) % Size) \in Byte
  BY <1>1, ReadByte
<1> DEFINE lo == Read(s, a)
           hi == Read(s, (a + 1) % Size)
<1> HIDE DEF lo, hi
<1>3. lo + hi * ByteSize = hi * ByteSize + lo
  BY <1>2, BytesAre, Widths DEF lo, hi
<1> QED
  BY <1>2, <1>3, WordParts DEF Read16, lo, hi

\* Put, the marks and the bank register keep a machine one.
LEMMA PutMachine ==
  ASSUME NEW s \in Machine, NEW a \in Stored, NEW v \in Byte
  PROVE  Put(s, a, v) \in Machine
<1>1. [s.mem EXCEPT ![a] = v] \in [Stored -> Byte]
  BY Parts
<1>2. Put(s, a, v) = [s EXCEPT !.mem = [s.mem EXCEPT ![a] = v]]
  BY DEF Put
<1> QED
  BY <1>1, <1>2, Changed

\* Marking a page leaves a machine.
LEMMA SmcMachine ==
  ASSUME NEW s \in Machine, NEW a \in Addr
  PROVE  SmcMark(s, a) \in Machine
<1>1. [s.page EXCEPT ![Page(a)] = 2] \in [Byte -> 0..2]
  <2>1. s.page \in [Byte -> 0..2] /\ 2 \in 0..2
    BY Parts
  <2> QED
    BY <2>1
<1>2. SmcMark(s, a) = IF s.page[Page(a)] = 1
                      THEN [s EXCEPT !.page = [s.page EXCEPT ![Page(a)] = 2], !.smc = TRUE]
                      ELSE s
  BY DEF SmcMark
<1> QED
  BY <1>1, <1>2, Changed

\* MBC1 selects a bank there is.
LEMMA SelectedMachine ==
  ASSUME NEW s \in Machine, NEW b \in 0..(LowBanks * HighBanks - 1)
  PROVE  Selected(s, b) \in Machine
<1> DEFINE next == IF s.cart.banks = 0 THEN b ELSE b % s.cart.banks
<1>1. next \in 0..(LowBanks * HighBanks - 1)
  <2>1. s.cart.banks \in Nat /\ LowBanks * HighBanks \in Nat
    BY Parts, SizeAssumption DEF Carts
  <2>2. CASE s.cart.banks # 0
    <3>1. b % s.cart.banks \in Nat /\ b % s.cart.banks <= b
      <4>0. b \in Nat /\ s.cart.banks \in Nat \ {0}
        BY <2>1, <2>2
      <4>1. /\ b \in Nat /\ b \div s.cart.banks \in Nat
            /\ b % s.cart.banks \in 0..(s.cart.banks - 1)
            /\ b = s.cart.banks * (b \div s.cart.banks) + (b % s.cart.banks)
        BY <4>0, Division
      <4>2. \A n, q \in Nat : n * q \in Nat
        OBVIOUS
      <4>3. s.cart.banks * (b \div s.cart.banks) \in Nat
        BY <4>0, <4>1, <4>2
      <4> QED
        BY <2>1, <4>1, <4>3
    <3> QED
      BY <3>1, <2>1, <2>2
  <2> QED
    BY <2>1, <2>2
<1>2. Selected(s, b) = [s EXCEPT !.switched = s.switched \/ next # s.bank, !.bank = next]
  BY DEF Selected
<1> HIDE DEF next
<1> DEFINE moved == s.switched \/ next # s.bank
<1>3. moved \in BOOLEAN
  BY Parts
<1> HIDE DEF moved
<1>4. [s EXCEPT !.switched = moved, !.bank = next] \in Machine
  BY <1>1, <1>3, Changed
<1> QED
  BY <1>2, <1>4 DEF moved

\* mmu_write8 leaves a machine.
LEMMA WriteMachine ==
  ASSUME NEW s \in Machine, NEW a \in Addr, NEW v \in Byte
  PROVE  Write(s, a, v) \in Machine
<1>1. BankControl(s, a, v) \in Machine
  <2> DEFINE low  == v % LowBanks
             some == IF low = 0 THEN 1 ELSE low
             top  == (s.bank \div LowBanks) % HighBanks
             vtop == v % HighBanks
  <2>1. v \in Nat /\ s.bank \in Nat /\ LowBanks \in Nat \ {0, 1} /\ HighBanks \in Nat \ {0}
    BY BytesAre, Parts, SizeAssumption
  <2>2. /\ some \in 0..(LowBanks - 1) /\ s.bank % LowBanks \in 0..(LowBanks - 1)
    <3>1. v % LowBanks \in 0..(LowBanks - 1) /\ s.bank % LowBanks \in 0..(LowBanks - 1)
      BY <2>1, Division
    <3> QED
      BY <3>1, <2>1
  <2>3. top \in 0..(HighBanks - 1) /\ vtop \in 0..(HighBanks - 1)
    <3>1. s.bank \div LowBanks \in Nat
      BY <2>1, Division
    <3> QED
      BY <2>1, <3>1, Division
  <2> HIDE DEF some, top, vtop
  <2>4. ASSUME NEW x \in 0..(LowBanks - 1), NEW y \in 0..(HighBanks - 1)
        PROVE  y * LowBanks + x \in 0..(LowBanks * HighBanks - 1)
    <3>1. y * LowBanks <= (HighBanks - 1) * LowBanks
      BY <2>1
    <3>2. (HighBanks - 1) * LowBanks = LowBanks * HighBanks - LowBanks /\ y * LowBanks \in Nat
      BY <2>1
    <3> QED
      BY <3>1, <3>2, <2>1
  <2>5. top * LowBanks + some \in 0..(LowBanks * HighBanks - 1)
    BY <2>2, <2>3, <2>4
  <2>6. (s.bank % LowBanks) + vtop * LowBanks \in 0..(LowBanks * HighBanks - 1)
    <3>1. vtop * LowBanks + (s.bank % LowBanks) \in 0..(LowBanks * HighBanks - 1)
      BY <2>2, <2>3, <2>4
    <3>2. vtop * LowBanks \in Nat /\ s.bank % LowBanks \in Nat
      BY <2>1, <2>2, <2>3
    <3>3. vtop * LowBanks + (s.bank % LowBanks) = (s.bank % LowBanks) + vtop * LowBanks
      BY <3>2
    <3> QED
      BY <3>1, <3>3
  <2>7. /\ Selected(s, top * LowBanks + some) \in Machine
        /\ Selected(s, (s.bank % LowBanks) + vtop * LowBanks) \in Machine
    BY <2>5, <2>6, SelectedMachine
  <2> QED
    BY <2>7 DEF BankControl, some, top, vtop
<1>2. a \in IoPort => StoreIo(s, a, v) \in Machine
  <2>1. SUFFICES ASSUME a \in IoPort PROVE StoreIo(s, a, v) \in Machine
    OBVIOUS
  <2>2. a \in Stored /\ Put(s, a, v) \in Machine /\ Put(s, a, 0) \in Machine
    BY <2>1, StoredAddr, BytesAre, PutMachine
  <2>3. StartsSerial(a, v) => Serial(s, v) \in Machine
    <3>1. SUFFICES ASSUME v >= ByteSize \div 2 PROVE Serial(s, v) \in Machine
      BY DEF StartsSerial
    <3>2. /\ v - ByteSize \div 2 \in Byte /\ Full \in Byte
          /\ Or(s.mem[Io.irq], SerialBit) \in Byte
      <4>1. ByteSize \div 2 = Top /\ Top \in Nat /\ v \in Nat /\ v < ByteSize /\ ByteSize \in Nat
        BY Halves, BytesAre, Widths DEF Top
      <4>2. s.mem[Io.irq] \in Byte
        BY Parts, StoredAddr, IoAssumption
      <4>3. v - ByteSize \div 2 \in Byte
        BY <4>1, <3>1 DEF Byte
      <4>4. Or(s.mem[Io.irq], SerialBit) \in Byte
        BY <4>2, BitsAssumption, SizeAssumption
      <4> QED
        BY <4>3, <4>4, BytesAre
    <3> DEFINE mem == [s.mem EXCEPT ![Io.sb] = Full, ![Io.sc] = v - ByteSize \div 2,
                                    ![Io.irq] = Or(s.mem[Io.irq], SerialBit)]
    <3>3. mem \in [Stored -> Byte]
      BY <3>2, Parts
    <3>4. Serial(s, v) = [s EXCEPT !.mem = mem]
      BY DEF Serial
    <3> HIDE DEF mem
    <3> QED
      BY <3>3, <3>4, Changed
  <2>4. ASSUME NEW t \in Machine PROVE Transfer(t, v) \in Machine
    <3>1. ASSUME NEW b \in Oam
          PROVE  Read(t, (v * ByteSize + (b - Base.oam)) % Size) \in Byte
      <4>1. v \in Nat /\ b \in Nat /\ ByteSize \in Nat /\ Base.oam \in Nat
        BY BytesAre, StoredAddr, WordParts, Widths, Regions
      <4>2. v * ByteSize \in Int
        BY <4>1
      <4>3. v * ByteSize + (b - Base.oam) \in Int
        BY <4>1, <4>2
      <4>4. (v * ByteSize + (b - Base.oam)) % Size \in Addr
        BY <4>3, WordParts
      <4> QED
        BY <4>4, ReadByte
    <3> DEFINE mem == [b \in Stored |->
                 IF b \in Oam THEN Read(t, (v * ByteSize + (b - Base.oam)) % Size) ELSE t.mem[b]]
    <3>2. mem \in [Stored -> Byte]
      BY <3>1, Parts
    <3>3. Transfer(t, v) = [t EXCEPT !.mem = mem]
      BY DEF Transfer
    <3> HIDE DEF mem
    <3> QED
      BY <3>2, <3>3, Changed
  <2> QED
    BY <2>2, <2>3, <2>4 DEF StoreIo
<1>3. a \in Vram \union Wram \union Echo \union Hram
        => Put(SmcMark(s, Canonical(a)), Canonical(a), v) \in Machine
  <2>1. SmcMark(s, Canonical(a)) \in Machine
    BY Cells, SmcMachine
  <2> QED
    BY <2>1, Cells, PutMachine
<1>4. a \in Stored => Put(s, a, v) \in Machine
  BY PutMachine
<1>5. a \notin Fixed \union Window \union Vram \union Wram \union Echo \union Hram
        \union Ext \union Void \union IoPort => a \in Stored
  BY Cells DEF Canonical
<1> QED
  BY <1>1, <1>2, <1>3, <1>4, <1>5 DEF Write

-----------------------------------------------------------------------------
(* Operands and addresses.                                                 *)

\* An instruction's operands are those of its shape.
LEMMA OfIs ==
  ASSUME NEW ops, NEW xs, NEW ys, NEW ns, NEW i \in Of(ops, xs, ys, ns)
  PROVE  i.op \in ops /\ i.x \in xs /\ i.y \in ys /\ i.n \in ns
  BY DEF Of

\* The operands of each family.
LEMMA Shapes ==
  ASSUME NEW i \in Instrs
  PROVE  /\ i.op = "ld" =>
              \/ i.x \in Place /\ i.y \in Reg8 \union {"n"} /\ i.n \in Byte
              \/ i.x \in Reg8 /\ i.y = "(hl)" /\ i.n = 0
         /\ i.op \in {"lda", "sta"} =>
              \/ i.x = "-" /\ i.y \in {"bc", "de", "hl+", "hl-", "c"}
              \/ i.x = "-" /\ i.y = "n" /\ i.n \in Byte
              \/ i.x = "-" /\ i.y = "nn" /\ i.n \in Addr
         /\ i.op = "alu" => i.x \in AluOps /\ i.y \in Place \union {"n"} /\ i.n \in Byte
         /\ i.op \in {"inc", "dec"} => i.x \in Place /\ i.y = "-"
         /\ i.op \in {"inc16", "dec16", "addhl"} => i.x \in Pairs /\ i.y = "-"
         /\ i.op = "ldw" => i.x \in Pairs /\ i.y = "-" /\ i.n \in Addr
         /\ i.op = "shift" => i.x \in Place /\ i.y \in Shifts
         /\ i.op = "rota" => i.x = "-" /\ i.y \in Rotates
         /\ i.op \in {"bit", "res", "set"} => i.x \in Place /\ i.y = "-" /\ i.n \in Bits
         /\ i.op \in {"nop", "cpl", "scf", "ccf", "daa", "jphl", "ldsphl"} => i.x = "-" /\ i.y = "-"
         /\ i.op \in {"push", "pop"} => i.x \in {"bc", "de", "hl", "af"} /\ i.y = "-"
         /\ i.op = "jr" => i.x \in Conditions /\ i.y = "-" /\ i.n \in Byte
         /\ i.op \in {"jp", "call"} => i.x \in Conditions /\ i.y = "-" /\ i.n \in Addr
         /\ i.op = "ret" => i.x \in Conditions /\ i.y = "-"
         /\ i.op = "rst" => i.x = "always" /\ i.y = "-" /\ i.n \in Byte
         /\ i.op = "stsp" => i.x = "-" /\ i.y = "-" /\ i.n \in Addr
         /\ i.op \in {"addsp", "ldhlsp"} => i.x = "-" /\ i.y = "-" /\ i.n \in Byte
         /\ i.op \in {"ld", "lda", "sta", "alu", "inc", "dec", "inc16", "dec16", "addhl", "ldw",
                      "shift", "rota", "bit", "res", "set", "nop", "cpl", "scf", "ccf", "daa",
                      "jphl", "ldsphl", "push", "pop", "jr", "jp", "call", "ret", "rst", "stsp",
                      "addsp", "ldhlsp"}
<1>1. \/ i \in Of({"ld"}, Place, Reg8 \union {"n"}, Byte)
      \/ i \in Of({"ld"}, Reg8, {"(hl)"}, {0})
      \/ i \in Of({"lda", "sta"}, None, {"bc", "de", "hl+", "hl-", "c"}, {0})
      \/ i \in Of({"lda", "sta"}, None, {"n"}, Byte)
      \/ i \in Of({"lda", "sta"}, None, {"nn"}, Addr)
      \/ i \in Of({"alu"}, AluOps, Place \union {"n"}, Byte)
      \/ i \in Of({"inc", "dec"}, Place, None, {0})
      \/ i \in Of({"inc16", "dec16", "addhl"}, Pairs, None, {0})
      \/ i \in Of({"ldw"}, Pairs, None, Addr)
      \/ i \in Of({"shift"}, Place, Shifts, {0})
      \/ i \in Of({"rota"}, None, Rotates, {0})
      \/ i \in Of({"bit", "res", "set"}, Place, None, Bits)
      \/ i \in Of({"nop", "cpl", "scf", "ccf", "daa", "jphl", "ldsphl"}, None, None, {0})
      \/ i \in Of({"push", "pop"}, {"bc", "de", "hl", "af"}, None, {0})
      \/ i \in Of({"jr"}, Conditions, None, Byte)
      \/ i \in Of({"jp", "call"}, Conditions, None, Addr)
      \/ i \in Of({"ret"}, Conditions, None, {0})
      \/ i \in Of({"rst"}, {"always"}, None, Byte)
      \/ i \in Of({"stsp"}, None, None, Addr)
      \/ i \in Of({"addsp", "ldhlsp"}, None, None, Byte)
  BY DEF Instrs
<1>2. CASE i \in Of({"ld"}, Place, Reg8 \union {"n"}, Byte)
  <2>1. i.op \in {"ld"} /\ i.x \in Place /\ i.y \in Reg8 \union {"n"} /\ i.n \in Byte
    BY <1>2, OfIs
  <2> QED
    BY <2>1 DEF None
<1>3. CASE i \in Of({"ld"}, Reg8, {"(hl)"}, {0})
  <2>1. i.op \in {"ld"} /\ i.x \in Reg8 /\ i.y \in {"(hl)"} /\ i.n \in {0}
    BY <1>3, OfIs
  <2> QED
    BY <2>1 DEF None
<1>4. CASE i \in Of({"lda", "sta"}, None, {"bc", "de", "hl+", "hl-", "c"}, {0})
  <2>1. i.op \in {"lda", "sta"} /\ i.x \in None /\ i.y \in {"bc", "de", "hl+", "hl-", "c"} /\ i.n \in {0}
    BY <1>4, OfIs
  <2> QED
    BY <2>1 DEF None
<1>5. CASE i \in Of({"lda", "sta"}, None, {"n"}, Byte)
  <2>1. i.op \in {"lda", "sta"} /\ i.x \in None /\ i.y \in {"n"} /\ i.n \in Byte
    BY <1>5, OfIs
  <2> QED
    BY <2>1 DEF None
<1>6. CASE i \in Of({"lda", "sta"}, None, {"nn"}, Addr)
  <2>1. i.op \in {"lda", "sta"} /\ i.x \in None /\ i.y \in {"nn"} /\ i.n \in Addr
    BY <1>6, OfIs
  <2> QED
    BY <2>1 DEF None
<1>7. CASE i \in Of({"alu"}, AluOps, Place \union {"n"}, Byte)
  <2>1. i.op \in {"alu"} /\ i.x \in AluOps /\ i.y \in Place \union {"n"} /\ i.n \in Byte
    BY <1>7, OfIs
  <2> QED
    BY <2>1 DEF None
<1>8. CASE i \in Of({"inc", "dec"}, Place, None, {0})
  <2>1. i.op \in {"inc", "dec"} /\ i.x \in Place /\ i.y \in None /\ i.n \in {0}
    BY <1>8, OfIs
  <2> QED
    BY <2>1 DEF None
<1>9. CASE i \in Of({"inc16", "dec16", "addhl"}, Pairs, None, {0})
  <2>1. i.op \in {"inc16", "dec16", "addhl"} /\ i.x \in Pairs /\ i.y \in None /\ i.n \in {0}
    BY <1>9, OfIs
  <2> QED
    BY <2>1 DEF None
<1>10. CASE i \in Of({"ldw"}, Pairs, None, Addr)
  <2>1. i.op \in {"ldw"} /\ i.x \in Pairs /\ i.y \in None /\ i.n \in Addr
    BY <1>10, OfIs
  <2> QED
    BY <2>1 DEF None
<1>11. CASE i \in Of({"shift"}, Place, Shifts, {0})
  <2>1. i.op \in {"shift"} /\ i.x \in Place /\ i.y \in Shifts /\ i.n \in {0}
    BY <1>11, OfIs
  <2> QED
    BY <2>1 DEF None
<1>12. CASE i \in Of({"rota"}, None, Rotates, {0})
  <2>1. i.op \in {"rota"} /\ i.x \in None /\ i.y \in Rotates /\ i.n \in {0}
    BY <1>12, OfIs
  <2> QED
    BY <2>1 DEF None
<1>13. CASE i \in Of({"bit", "res", "set"}, Place, None, Bits)
  <2>1. i.op \in {"bit", "res", "set"} /\ i.x \in Place /\ i.y \in None /\ i.n \in Bits
    BY <1>13, OfIs
  <2> QED
    BY <2>1 DEF None
<1>14. CASE i \in Of({"nop", "cpl", "scf", "ccf", "daa", "jphl", "ldsphl"}, None, None, {0})
  <2>1. i.op \in {"nop", "cpl", "scf", "ccf", "daa", "jphl", "ldsphl"} /\ i.x \in None /\ i.y \in None /\ i.n \in {0}
    BY <1>14, OfIs
  <2> QED
    BY <2>1 DEF None
<1>15. CASE i \in Of({"push", "pop"}, {"bc", "de", "hl", "af"}, None, {0})
  <2>1. i.op \in {"push", "pop"} /\ i.x \in {"bc", "de", "hl", "af"} /\ i.y \in None /\ i.n \in {0}
    BY <1>15, OfIs
  <2> QED
    BY <2>1 DEF None
<1>16. CASE i \in Of({"jr"}, Conditions, None, Byte)
  <2>1. i.op \in {"jr"} /\ i.x \in Conditions /\ i.y \in None /\ i.n \in Byte
    BY <1>16, OfIs
  <2> QED
    BY <2>1 DEF None
<1>17. CASE i \in Of({"jp", "call"}, Conditions, None, Addr)
  <2>1. i.op \in {"jp", "call"} /\ i.x \in Conditions /\ i.y \in None /\ i.n \in Addr
    BY <1>17, OfIs
  <2> QED
    BY <2>1 DEF None
<1>18. CASE i \in Of({"ret"}, Conditions, None, {0})
  <2>1. i.op \in {"ret"} /\ i.x \in Conditions /\ i.y \in None /\ i.n \in {0}
    BY <1>18, OfIs
  <2> QED
    BY <2>1 DEF None
<1>19. CASE i \in Of({"rst"}, {"always"}, None, Byte)
  <2>1. i.op \in {"rst"} /\ i.x \in {"always"} /\ i.y \in None /\ i.n \in Byte
    BY <1>19, OfIs
  <2> QED
    BY <2>1 DEF None
<1>20. CASE i \in Of({"stsp"}, None, None, Addr)
  <2>1. i.op \in {"stsp"} /\ i.x \in None /\ i.y \in None /\ i.n \in Addr
    BY <1>20, OfIs
  <2> QED
    BY <2>1 DEF None
<1>21. CASE i \in Of({"addsp", "ldhlsp"}, None, None, Byte)
  <2>1. i.op \in {"addsp", "ldhlsp"} /\ i.x \in None /\ i.y \in None /\ i.n \in Byte
    BY <1>21, OfIs
  <2> QED
    BY <2>1 DEF None
<1> QED
  BY <1>1, <1>2, <1>3, <1>4, <1>5, <1>6, <1>7, <1>8, <1>9, <1>10, <1>11,
     <1>12, <1>13, <1>14, <1>15, <1>16, <1>17, <1>18, <1>19, <1>20, <1>21

\* Pairs of registers, and a machine with one of them set.
LEMMA PairAddr ==
  ASSUME NEW s \in Machine, NEW p \in Pairs
  PROVE  /\ Pair(s, p) \in Addr
         /\ \A w \in Addr : SetPair(s, p, w) \in Machine
<1>1. p = "sp" \/ p \in {"bc", "de", "hl"}
  BY DEF Pairs
<1>2. p # "sp" => High8(p) \in Reg8 /\ Low8(p) \in Reg8
  BY <1>1 DEF High8, Low8, Reg8
<1>3. s.r \in [Reg8 -> Byte] /\ s.sp \in Addr
  BY Parts
<1>4. Pair(s, p) \in Addr
  <2>1. CASE p # "sp"
    <3>1. s.r[High8(p)] \in Byte /\ s.r[Low8(p)] \in Byte
      BY <1>2, <1>3, <2>1
    <3>2. s.r[High8(p)] * ByteSize + s.r[Low8(p)] \in Addr
      BY <3>1, WordParts
    <3> QED
      BY <3>2, <2>1 DEF Pair
  <2> QED
    BY <2>1, <1>3 DEF Pair
<1>5. ASSUME NEW w \in Addr PROVE SetPair(s, p, w) \in Machine
  <2>1. CASE p # "sp"
    <3> DEFINE r == [s.r EXCEPT ![High8(p)] = High(w), ![Low8(p)] = Low(w)]
    <3>1. r \in [Reg8 -> Byte]
      BY <1>3, WordParts
    <3>2. SetPair(s, p, w) = [s EXCEPT !.r = r]
      BY <2>1 DEF SetPair
    <3> HIDE DEF r
    <3> QED
      BY <3>1, <3>2, Changed
  <2>2. CASE p = "sp"
    BY <2>2, Changed DEF SetPair
  <2> QED
    BY <2>1, <2>2
<1> QED
  BY <1>4, <1>5

\* Operands are bytes, and setting one leaves a machine.
LEMMA PlaceByte ==
  ASSUME NEW s \in Machine
  PROVE  /\ \A y \in Place : \A n : Operand(s, y, n) \in Byte
         /\ \A n \in Byte : Operand(s, "n", n) \in Byte
         /\ \A x \in Place, v \in Byte : SetPlace(s, x, v) \in Machine
         /\ \A v \in Byte : SetA(s, v) \in Machine
         /\ s.r["a"] \in Byte /\ s.f.c \in 0..1 /\ s.f.z \in 0..1
<1>1. Pair(s, "hl") \in Addr /\ s.r \in [Reg8 -> Byte] /\ s.f \in Flags
  BY PairAddr, Parts DEF Pairs
<1>2. Read(s, Pair(s, "hl")) \in Byte
  BY <1>1, ReadByte
<1>3. \A y \in Place : \A n : Operand(s, y, n) \in Byte
  BY <1>1, <1>2 DEF Operand, Place, Reg8
<1>4. \A n \in Byte : Operand(s, "n", n) \in Byte
  BY DEF Operand
<1>5. ASSUME NEW x \in Place, NEW v \in Byte PROVE SetPlace(s, x, v) \in Machine
  <2>1. x = "(hl)" => SetPlace(s, x, v) \in Machine
    BY <1>1, WriteMachine DEF SetPlace
  <2>2. [s.r EXCEPT ![x] = v] \in [Reg8 -> Byte]
    BY <1>1
  <2>3. x # "(hl)" => SetPlace(s, x, v) = [s EXCEPT !.r = [s.r EXCEPT ![x] = v]]
    BY DEF SetPlace
  <2> QED
    BY <2>1, <2>2, <2>3, Changed
<1>6. ASSUME NEW v \in Byte PROVE SetA(s, v) \in Machine
  <2>1. [s.r EXCEPT !["a"] = v] \in [Reg8 -> Byte]
    BY <1>1
  <2> QED
    BY <2>1, Changed DEF SetA
<1>7. s.r["a"] \in Byte /\ s.f.c \in 0..1 /\ s.f.z \in 0..1
  BY <1>1 DEF Reg8, Flags
<1> QED
  BY <1>3, <1>4, <1>5, <1>6, <1>7

\* The stack.
LEMMA StackMachine ==
  ASSUME NEW s \in Machine
  PROVE  /\ \A a, w \in Addr : Write16(s, a, w) \in Machine
         /\ \A w \in Addr : Push(s, w) \in Machine
         /\ Popped(s) \in Machine
         /\ NewSp(s) \in Addr /\ (s.sp + 1) % Size \in Addr
<1>1. \A a \in Addr : (a + 1) % Size \in Addr /\ (a + 2) % Size \in Addr
                       /\ (a + Size - 2) % Size \in Addr
  <2> SUFFICES ASSUME NEW a \in Addr
               PROVE  /\ (a + 1) % Size \in Addr /\ (a + 2) % Size \in Addr
                      /\ (a + Size - 2) % Size \in Addr
    OBVIOUS
  <2>1. a \in Nat /\ Size \in Nat
    BY WordParts, Widths
  <2>2. a + 1 \in Int /\ a + 2 \in Int /\ a + Size - 2 \in Int
    BY <2>1
  <2> QED
    BY <2>2, WordParts
<1>2. ASSUME NEW t \in Machine, NEW a \in Addr, NEW w \in Addr
      PROVE  Write16(t, a, w) \in Machine
  <2>1. Write(t, a, Low(w)) \in Machine
    BY WordParts, WriteMachine
  <2>2. Write(Write(t, a, Low(w)), (a + 1) % Size, High(w)) \in Machine
    BY <1>1, <2>1, WordParts, WriteMachine
  <2> QED
    BY <2>2 DEF Write16
<1>3. s.sp \in Addr /\ NewSp(s) \in Addr
  BY <1>1, Parts DEF NewSp
<1>4. [s EXCEPT !.sp = NewSp(s)] \in Machine
  BY <1>3, Changed
<1>5. ASSUME NEW w \in Addr PROVE Push(s, w) \in Machine
  <2>1. Push(s, w) = Write16([s EXCEPT !.sp = NewSp(s)], NewSp(s), w)
    BY DEF Push, NewSp
  <2> QED
    BY <2>1, <1>2, <1>3, <1>4
<1>6. Popped(s) \in Machine
  BY <1>1, <1>3, Changed DEF Popped
<1> QED
  BY <1>1, <1>2, <1>3, <1>5, <1>6

\* The address of a load or store of A, and what becomes of HL.
LEMMA AddressAddr ==
  ASSUME NEW s \in Machine, NEW i \in Instrs, i.op \in {"lda", "sta"}
  PROVE  /\ Address(s, i) \in Addr
         /\ \A t \in Machine : Bumped(t, i.y) \in Machine
<1>1. \/ i.y \in {"bc", "de", "hl+", "hl-", "c"}
      \/ i.y = "n" /\ i.n \in Byte
      \/ i.y = "nn" /\ i.n \in Addr
  BY Shapes
<1>2. ASSUME NEW v \in Byte PROVE Base.io + v \in Addr
  <2>1. v \in Nat /\ v < ByteSize /\ Base.io = Size - ByteSize /\ Base.io \in Nat
        /\ Size \in Nat /\ ByteSize \in Nat
    BY BytesAre, BaseAssumption, Regions, Widths
  <2> QED
    BY <2>1 DEF Addr
<1>3. s.r["c"] \in Byte /\ Pair(s, "bc") \in Addr /\ Pair(s, "de") \in Addr /\ Pair(s, "hl") \in Addr
  BY Parts, PairAddr DEF Reg8, Pairs
<1>4. Address(s, i) \in Addr
  <2>1. CASE i.y = "nn"
    BY <2>1, <1>1 DEF Address
  <2>2. CASE i.y = "n"
    BY <2>2, <1>1, <1>2 DEF Address
  <2>3. CASE i.y = "c"
    BY <2>3, <1>2, <1>3 DEF Address
  <2>4. CASE i.y \in {"bc", "de"}
    BY <2>4, <1>3 DEF Address
  <2>5. CASE i.y \in {"hl+", "hl-"}
    BY <2>5, <1>3 DEF Address
  <2> QED
    BY <1>1, <2>1, <2>2, <2>3, <2>4, <2>5
<1>5. ASSUME NEW t \in Machine PROVE Bumped(t, i.y) \in Machine
  <2>1. Pair(t, "hl") \in Addr /\ "hl" \in Pairs
    BY PairAddr DEF Pairs
  <2>2. Pair(t, "hl") + 1 \in Int /\ Pair(t, "hl") + Size - 1 \in Int
    <3>1. Pair(t, "hl") \in Nat /\ Size \in Nat
      BY <2>1, WordParts, Widths
    <3> QED
      BY <3>1
  <2>3. /\ (Pair(t, "hl") + 1) % Size \in Addr
        /\ (Pair(t, "hl") + Size - 1) % Size \in Addr
    BY <2>2, WordParts
  <2>4. /\ SetPair(t, "hl", (Pair(t, "hl") + 1) % Size) \in Machine
        /\ SetPair(t, "hl", (Pair(t, "hl") + Size - 1) % Size) \in Machine
    BY <2>1, <2>3, PairAddr
  <2> QED
    BY <2>4 DEF Bumped
<1> QED
  BY <1>4, <1>5

-----------------------------------------------------------------------------
(* The flags for changed code.                                             *)

\* What no step takes back: a page is marked, and the flags stay raised.
Kept(s, t) ==
  /\ \A p \in Byte : /\ s.page[p] = 1 => t.page[p] = 1 \/ (t.page[p] = 2 /\ t.smc)
                     /\ s.page[p] = 2 => t.page[p] = 2
  /\ s.smc => t.smc
  /\ s.switched => t.switched

\* From s to t every change of code is flagged.
Marks(s, t) ==
  Kept(s, t) /\ \A a \in CodeAddr : Read(t, a) # Read(s, a) => Flagged(s, t, a)

\* Where code may be, a byte of RAM is its cell, one of ROM depends on the bank.
LEMMA CodeFacts ==
  ASSUME NEW a \in CodeAddr
  PROVE  /\ a \in Addr
         /\ a \notin Window => /\ \A s : Read(s, a) = s.mem[Canonical(a)]
                               /\ Canonical(a) \in Vram \union Wram \union Hram
                               /\ Canonical(a) \in Stored /\ Page(Canonical(a)) \in Byte
         /\ a \in Window => \A s : Read(s, a) = RomByte(s, Offset(s, a))
<1>1. a \in Nat /\ a < Size
  BY Regions, Widths DEF CodeAddr, Window, Vram, Wram, Echo, Hram
<1>2. a \in Addr
  BY <1>1, Widths DEF Addr
<1>3. a \notin Window => a \notin Fixed \union Window \union Ext \union Void /\ a # Io.joyp
  <2>1. Io.joyp \in IoPort
    BY IoAssumption
  <2> QED
    BY <1>1, <2>1, Regions
       DEF CodeAddr, Fixed, Window, Vram, Ext, Wram, Echo, Void, IoPort, Hram
<1>4. a \in Window => a \notin Fixed \union Ext \union Void /\ a # Io.joyp
  <2>1. Io.joyp \in IoPort
    BY IoAssumption
  <2> QED
    BY <2>1, Regions DEF Window, Fixed, Ext, Void, IoPort
<1>5. a \notin Window => /\ Canonical(a) \in Stored /\ Page(Canonical(a)) \in Byte
                        /\ Canonical(a) \in Vram \union Wram \union Hram
  <2>1. a \in Echo => Canonical(a) \in Wram
    BY <1>2, Cells
  <2>2. a \notin Echo => Canonical(a) = a
    BY <1>2, Cells
  <2> QED
    BY <1>2, <2>1, <2>2, Cells DEF CodeAddr
<1>6. ASSUME a \notin Window, NEW s PROVE Read(s, a) = s.mem[Canonical(a)]
  BY <1>3, <1>6 DEF Read
<1>7. ASSUME a \in Window, NEW s PROVE Read(s, a) = RomByte(s, Offset(s, a))
  BY <1>4, <1>7 DEF Read
<1> QED
  BY <1>2, <1>5, <1>6, <1>7

\* Two stores in a row.
LEMMA MarksTwice ==
  ASSUME NEW s, NEW t, NEW u, Marks(s, t), Marks(t, u)
  PROVE  Marks(s, u)
<1>1. Kept(s, u)
  BY DEF Marks, Kept
<1>2. ASSUME NEW a \in CodeAddr, Read(u, a) # Read(s, a)
      PROVE  Flagged(s, u, a)
  <2>1. Flagged(s, t, a) \/ Flagged(t, u, a)
    BY <1>2 DEF Marks
  <2>2. CASE a \in Window
    BY <2>1, <2>2 DEF Flagged, Marks, Kept
  <2>3. CASE a \notin Window
    <3>1. Page(Canonical(a)) \in Byte
      BY <2>3, CodeFacts
    <3> QED
      BY <2>1, <2>3, <3>1 DEF Flagged, Marks, Kept
  <2> QED
    BY <2>2, <2>3
<1> QED
  BY <1>1, <1>2 DEF Marks

\* Memory and flags are left alone.
Quiet(s, t) ==
  /\ t.mem = s.mem /\ t.bank = s.bank /\ t.cart = s.cart /\ t.page = s.page
  /\ t.smc = s.smc /\ t.switched = s.switched

\* A step that changes neither code nor flags.
LEMMA QuietMarks ==
  ASSUME NEW s, NEW t, Quiet(s, t)
  PROVE  Marks(s, t)
<1>1. ASSUME NEW a \in CodeAddr PROVE Read(t, a) = Read(s, a)
  <2>1. CASE a \in Window
    BY <2>1, CodeFacts DEF Quiet, RomByte, Offset
  <2>2. CASE a \notin Window
    BY <2>2, CodeFacts DEF Quiet
  <2> QED
    BY <2>1, <2>2
<1>2. Kept(s, t)
  BY DEF Quiet, Kept
<1> QED
  BY <1>1, <1>2 DEF Marks

\* Registers, flags, SP and PC are no part of memory.
LEMMA RegistersQuiet ==
  ASSUME NEW s \in Machine
  PROVE  /\ \A f : Quiet(s, [s EXCEPT !.f = f])
         /\ \A r : Quiet(s, [s EXCEPT !.r = r])
         /\ \A a : Quiet(s, [s EXCEPT !.sp = a])
         /\ \A a, n : Quiet(s, [s EXCEPT !.pc = a, !.took = n])
         /\ \A v : Quiet(s, SetA(s, v))
         /\ \A p, w : Quiet(s, SetPair(s, p, w))
         /\ \A y : Quiet(s, Bumped(s, y))
         /\ Quiet(s, Popped(s))
<1>1. /\ \A f : Quiet(s, [s EXCEPT !.f = f])
      /\ \A r : Quiet(s, [s EXCEPT !.r = r])
      /\ \A a : Quiet(s, [s EXCEPT !.sp = a])
      /\ \A a, n : Quiet(s, [s EXCEPT !.pc = a, !.took = n])
      /\ Quiet(s, s)
  BY DEF Quiet, Machine
<1>2. \A v : Quiet(s, SetA(s, v))
  BY <1>1 DEF SetA
<1>3. \A p, w : Quiet(s, SetPair(s, p, w))
  BY <1>1 DEF SetPair
<1>4. \A y : Quiet(s, Bumped(s, y))
  BY <1>1, <1>3 DEF Bumped
<1>5. Quiet(s, Popped(s))
  BY <1>1 DEF Popped
<1> QED
  BY <1>1, <1>2, <1>3, <1>4, <1>5

\* The cells code is made from are left alone.
Elsewhere(s, t) ==
  /\ t.bank = s.bank /\ t.cart = s.cart /\ t.page = s.page
  /\ t.smc = s.smc /\ t.switched = s.switched
  /\ \A c \in Vram \union Wram \union Hram : t.mem[c] = s.mem[c]

\* A store elsewhere needs no mark.
LEMMA ElsewhereMarks ==
  ASSUME NEW s, NEW t, Elsewhere(s, t)
  PROVE  Marks(s, t)
<1> USE DEF Elsewhere
<1>1. ASSUME NEW a \in CodeAddr PROVE Read(t, a) = Read(s, a)
  <2>1. CASE a \in Window
    BY <2>1, CodeFacts DEF RomByte, Offset
  <2>2. CASE a \notin Window
    BY <2>2, CodeFacts
  <2> QED
    BY <2>1, <2>2
<1>2. Kept(s, t)
  BY DEF Kept
<1> QED
  BY <1>1, <1>2 DEF Marks

\* A store where code may be: the page of the cell is marked.
LEMMA CodeStoreMarks ==
  ASSUME NEW s \in Machine, NEW c \in Stored, NEW v
  PROVE  Marks(s, Put(SmcMark(s, c), c, v))
<1> DEFINE t == Put(SmcMark(s, c), c, v)
<1>1. c \in Addr /\ Page(c) \in Byte
  BY StoredAddr, Cells
<1>2. /\ t.bank = s.bank /\ t.cart = s.cart /\ t.switched = s.switched
      /\ t.mem = [s.mem EXCEPT ![c] = v]
      /\ t.page = IF s.page[Page(c)] = 1 THEN [s.page EXCEPT ![Page(c)] = 2] ELSE s.page
      /\ t.smc = (s.smc \/ s.page[Page(c)] = 1)
  <2>1. CASE s.page[Page(c)] = 1
    BY <2>1 DEF Put, SmcMark, Machine
  <2>2. CASE s.page[Page(c)] # 1
    BY <2>2 DEF Put, SmcMark, Machine
  <2> QED
    BY <2>1, <2>2
<1> HIDE DEF t
<1>3. s.page \in [Byte -> 0..2] /\ s.mem \in [Stored -> Byte]
  BY Parts
<1>4. Kept(s, t)
  BY <1>1, <1>2, <1>3 DEF Kept
<1>5. ASSUME NEW a \in CodeAddr, Read(t, a) # Read(s, a) PROVE Flagged(s, t, a)
  <2>1. a \notin Window
    BY <1>2, <1>5, CodeFacts DEF RomByte, Offset
  <2>2. Canonical(a) = c
    <3>1. Canonical(a) \in Stored /\ t.mem[Canonical(a)] # s.mem[Canonical(a)]
      BY <1>5, <2>1, CodeFacts
    <3> QED
      BY <1>2, <1>3, <3>1
  <2>3. s.page[Page(c)] = 1 => t.page[Page(c)] = 2 /\ t.smc
    BY <1>1, <1>2, <1>3
  <2>4. s.page[Page(c)] = 2 => t.page[Page(c)] = 2
    BY <1>1, <1>2, <1>3
  <2> QED
    BY <2>1, <2>2, <2>3, <2>4 DEF Flagged
<1> QED
  BY <1>4, <1>5 DEF Marks, t

\* A new bank raises its flag.
LEMMA SelectedMarks ==
  ASSUME NEW s \in Machine, NEW b
  PROVE  Marks(s, Selected(s, b))
<1> DEFINE t == Selected(s, b)
<1>1. /\ t.mem = s.mem /\ t.cart = s.cart /\ t.page = s.page /\ t.smc = s.smc
      /\ t.switched = (s.switched \/ t.bank # s.bank)
  BY DEF Selected, Machine
<1> HIDE DEF t
<1>2. Kept(s, t)
  BY <1>1 DEF Kept
<1>3. ASSUME NEW a \in CodeAddr, Read(t, a) # Read(s, a) PROVE Flagged(s, t, a)
  <2>1. a \in Window
    BY <1>1, <1>3, CodeFacts
  <2>2. t.bank # s.bank
    BY <1>1, <1>3, <2>1, CodeFacts DEF RomByte, Offset
  <2> QED
    BY <1>1, <2>1, <2>2 DEF Flagged
<1> QED
  BY <1>2, <1>3 DEF Marks, t

\* mmu_write8 by region.
LEMMA WriteIs ==
  ASSUME NEW s, NEW a, NEW v
  PROVE  /\ a \in Fixed \union Window => Write(s, a, v) = BankControl(s, a, v)
         /\ a \in Vram \union Wram \union Echo \union Hram =>
              Write(s, a, v) = Put(SmcMark(s, Canonical(a)), Canonical(a), v)
         /\ a \in Ext \union Void => Write(s, a, v) = s
         /\ a \in IoPort => Write(s, a, v) = StoreIo(s, a, v)
         /\ a \notin Fixed \union Window \union Vram \union Wram \union Echo \union Hram
                     \union Ext \union Void \union IoPort => Write(s, a, v) = Put(s, a, v)
<1>1. /\ a \in Fixed \union Window =>
           a \notin Vram \union Wram \union Echo \union Hram \union Ext \union Void \union IoPort
      /\ a \in Vram \union Wram \union Echo \union Hram =>
           a \notin Fixed \union Window \union Ext \union Void \union IoPort
      /\ a \in Ext \union Void =>
           a \notin Fixed \union Window \union Vram \union Wram \union Echo \union Hram \union IoPort
  BY Regions DEF Fixed, Window, Vram, Ext, Wram, Echo, Void, IoPort, Hram
<1>2. CASE a \in Fixed \union Window
  BY <1>1, <1>2 DEF Write
<1>3. CASE a \in Vram \union Wram \union Echo \union Hram
  BY <1>1, <1>3 DEF Write
<1>4. CASE a \in Ext \union Void
  BY <1>1, <1>4 DEF Write
<1>5. CASE a \in IoPort
  BY <1>1, <1>5 DEF Write
<1>6. CASE a \notin Fixed \union Window \union Vram \union Wram \union Echo \union Hram
                     \union Ext \union Void \union IoPort
  BY <1>6 DEF Write
<1> QED
  BY <1>1, <1>2, <1>3, <1>4, <1>5, <1>6

\* mmu_write8: a store to code marks its page, a new bank raises the flag, and
\* the other stores change no code.
LEMMA StoreMarks ==
  ASSUME NEW s \in Machine, NEW a \in Addr, NEW v \in Byte
  PROVE  Marks(s, Write(s, a, v))
<1>1. Marks(s, s)
  BY QuietMarks DEF Quiet
<1>2. CASE a \in Fixed \union Window
  <2>1. Marks(s, BankControl(s, a, v))
    BY <1>1, SelectedMarks DEF BankControl
  <2> QED
    BY <1>2, <2>1, WriteIs
<1>3. CASE a \in Vram \union Wram \union Echo \union Hram
  BY <1>3, Cells, CodeStoreMarks, WriteIs
<1>4. CASE a \in Ext \union Void
  BY <1>1, <1>4, WriteIs
<1>5. CASE a \in IoPort
  <2> DEFINE t == StoreIo(s, a, v)
  <2>1. a \notin Vram \union Wram \union Hram
    BY <1>5, Regions DEF IoPort, Vram, Wram, Hram
  <2>2. \A x \in DOMAIN Io : Io[x] \notin Vram \union Wram \union Hram
    BY IoAssumption, Regions DEF IoPort, Vram, Wram, Hram
  <2>3. /\ Io.sb \notin Vram \union Wram \union Hram
        /\ Io.sc \notin Vram \union Wram \union Hram
        /\ Io.irq \notin Vram \union Wram \union Hram
    BY <2>2, IoAssumption
  <2>4. s.mem \in [Stored -> Byte]
    BY Parts
  <2>5. ASSUME NEW w
        PROVE  Marks(s, Put(s, a, w))
    <3>1. /\ Put(s, a, w).mem = [s.mem EXCEPT ![a] = w]
          /\ Put(s, a, w).bank = s.bank /\ Put(s, a, w).cart = s.cart
          /\ Put(s, a, w).page = s.page /\ Put(s, a, w).smc = s.smc
          /\ Put(s, a, w).switched = s.switched
      BY DEF Put, Machine
    <3>2. \A c \in Vram \union Wram \union Hram : Put(s, a, w).mem[c] = s.mem[c]
      BY <2>1, <2>4, <3>1 DEF Stored
    <3>3. Elsewhere(s, Put(s, a, w))
      BY <3>1, <3>2 DEF Elsewhere
    <3> QED
      BY <3>3, ElsewhereMarks
  <2>6. Marks(s, Serial(s, v))
    <3> DEFINE u == Serial(s, v)
    <3>1. /\ u.mem = [s.mem EXCEPT ![Io.sb] = Full, ![Io.sc] = v - ByteSize \div 2,
                                   ![Io.irq] = Or(s.mem[Io.irq], SerialBit)]
          /\ u.bank = s.bank /\ u.cart = s.cart
          /\ u.page = s.page /\ u.smc = s.smc /\ u.switched = s.switched
      BY DEF Serial, Machine
    <3> HIDE DEF u
    <3>2. \A c \in Vram \union Wram \union Hram : u.mem[c] = s.mem[c]
      BY <2>3, <2>4, <3>1 DEF Stored
    <3>3. Elsewhere(s, u)
      BY <3>1, <3>2 DEF Elsewhere
    <3> QED
      BY <3>3, ElsewhereMarks DEF u
  <2>7. Marks(s, Transfer(Put(s, a, v), v))
    <3> DEFINE p == Put(s, a, v)
               u == Transfer(p, v)
    <3>1. /\ p.mem = [s.mem EXCEPT ![a] = v] /\ p.bank = s.bank /\ p.cart = s.cart
          /\ p.page = s.page /\ p.smc = s.smc /\ p.switched = s.switched
          /\ p = [s EXCEPT !.mem = [s.mem EXCEPT ![a] = v]]
      BY DEF Put, Machine
    <3>2. p \in Machine
      BY <1>5, StoredAddr, PutMachine
    <3> HIDE DEF p
    <3>3. /\ u.bank = p.bank /\ u.cart = p.cart
          /\ u.page = p.page /\ u.smc = p.smc /\ u.switched = p.switched
          /\ \A c \in Stored : c \notin Oam => u.mem[c] = p.mem[c]
      BY <3>2 DEF Transfer, Machine
    <3>4. ASSUME NEW c \in Vram \union Wram \union Hram PROVE u.mem[c] = s.mem[c]
      <4>1. c \notin Oam /\ c \in Stored
        BY Regions DEF Oam, Vram, Wram, Hram, Stored
      <4>2. p.mem[c] = s.mem[c]
        BY <2>1, <2>4, <3>1, <4>1
      <4> QED
        BY <3>3, <4>1, <4>2
    <3>5. Elsewhere(s, u)
      BY <3>1, <3>3, <3>4 DEF Elsewhere
    <3> QED
      BY <3>5, ElsewhereMarks DEF p
  <2>8. Marks(s, StoreIo(s, a, v))
    BY <2>5, <2>6, <2>7 DEF StoreIo
  <2> QED
    BY <1>5, <2>8, WriteIs
<1>6. CASE a \notin Fixed \union Window \union Vram \union Wram \union Echo \union Hram
                     \union Ext \union Void \union IoPort
  <2> DEFINE t == Put(s, a, v)
  <2>1. /\ t.mem = [s.mem EXCEPT ![a] = v] /\ t.bank = s.bank /\ t.cart = s.cart
        /\ t.page = s.page /\ t.smc = s.smc /\ t.switched = s.switched
    BY DEF Put, Machine
  <2>2. s.mem \in [Stored -> Byte]
    BY Parts
  <2>3. \A c \in Vram \union Wram \union Hram : t.mem[c] = s.mem[c]
    BY <1>6, <2>1, <2>2 DEF Stored
  <2>4. Elsewhere(s, t)
    BY <2>1, <2>3 DEF Elsewhere
  <2> HIDE DEF t
  <2>5. Marks(s, t)
    BY <2>4, ElsewhereMarks
  <2> QED
    BY <1>6, <2>5, WriteIs DEF t
<1> QED
  BY <1>2, <1>3, <1>4, <1>5, <1>6

\* Writes of bytes and words, SP moved first or not.
LEMMA StackMarks ==
  ASSUME NEW s \in Machine
  PROVE  /\ \A a, w \in Addr : Marks(s, Write16(s, a, w))
         /\ \A w \in Addr : Marks(s, Push(s, w))
<1>1. ASSUME NEW t \in Machine, NEW a \in Addr, NEW w \in Addr
      PROVE  Marks(t, Write16(t, a, w))
  <2> DEFINE u == Write(t, a, Low(w))
  <2>1. Low(w) \in Byte /\ High(w) \in Byte /\ (a + 1) % Size \in Addr
    <3>1. a + 1 \in Int
      BY WordParts
    <3> QED
      BY <3>1, WordParts
  <2>2. u \in Machine /\ Marks(t, u)
    BY <2>1, WriteMachine, StoreMarks
  <2> HIDE DEF u
  <2>3. Marks(u, Write(u, (a + 1) % Size, High(w)))
    BY <2>1, <2>2, StoreMarks
  <2>4. Marks(t, Write(u, (a + 1) % Size, High(w)))
    BY <2>2, <2>3, MarksTwice
  <2> QED
    BY <2>4 DEF Write16, u
<1>2. ASSUME NEW w \in Addr PROVE Marks(s, Push(s, w))
  <2> DEFINE t == [s EXCEPT !.sp = NewSp(s)]
  <2>1. NewSp(s) \in Addr
    BY StackMachine
  <2>2. t \in Machine /\ Marks(s, t)
    BY <2>1, Changed, RegistersQuiet, QuietMarks
  <2>3. Push(s, w) = Write16(t, NewSp(s), w)
    BY DEF Push, NewSp
  <2> HIDE DEF t
  <2>4. Marks(t, Write16(t, NewSp(s), w))
    BY <1>1, <2>1, <2>2
  <2> QED
    BY <2>2, <2>3, <2>4, MarksTwice
<1> QED
  BY <1>1, <1>2

\* An operand set.
LEMMA PlaceMarks ==
  ASSUME NEW s \in Machine, NEW x \in Place, NEW v \in Byte
  PROVE  Marks(s, SetPlace(s, x, v))
<1>1. CASE x = "(hl)"
  <2>1. Pair(s, "hl") \in Addr
    BY PairAddr DEF Pairs
  <2> QED
    BY <1>1, <2>1, StoreMarks DEF SetPlace
<1>2. CASE x # "(hl)"
  <2> DEFINE r == [s.r EXCEPT ![x] = v]
  <2>1. SetPlace(s, x, v) = [s EXCEPT !.r = r]
    BY <1>2 DEF SetPlace
  <2> HIDE DEF r
  <2>2. Quiet(s, [s EXCEPT !.r = r])
    BY RegistersQuiet
  <2> QED
    BY <2>1, <2>2, QuietMarks
<1> QED
  BY <1>1, <1>2

-----------------------------------------------------------------------------
(* Instructions leave a machine, and every change of code is flagged.      *)

\* The machines a step from s may lead to.
Onward(s) == {t \in Machine : Marks(s, t)}

\* One step after the other.
LEMMA OnwardTwice ==
  ASSUME NEW s, NEW t \in Onward(s), NEW u \in Onward(t)
  PROVE  u \in Onward(s)
  BY MarksTwice DEF Onward

\* The ways an instruction changes one part of the machine.
LEMMA OnwardParts ==
  ASSUME NEW s \in Machine
  PROVE  /\ \A f \in Flags : [s EXCEPT !.f = f] \in Onward(s)
         /\ \A a \in Addr : [s EXCEPT !.sp = a] \in Onward(s)
         /\ \A a \in Addr, n \in Nat : [s EXCEPT !.pc = a, !.took = n] \in Onward(s)
         /\ \A v \in Byte : SetA(s, v) \in Onward(s)
         /\ \A x \in Place, v \in Byte : SetPlace(s, x, v) \in Onward(s)
         /\ \A q \in Pairs, w \in Addr : SetPair(s, q, w) \in Onward(s)
         /\ \A a \in Addr, v \in Byte : Write(s, a, v) \in Onward(s)
         /\ \A a, w \in Addr : Write16(s, a, w) \in Onward(s)
         /\ \A w \in Addr : Push(s, w) \in Onward(s)
         /\ Popped(s) \in Onward(s)
         /\ s \in Onward(s)
<1>1. /\ \A f \in Flags : [s EXCEPT !.f = f] \in Onward(s)
      /\ \A a \in Addr : [s EXCEPT !.sp = a] \in Onward(s)
      /\ \A a \in Addr, n \in Nat : [s EXCEPT !.pc = a, !.took = n] \in Onward(s)
  BY Changed, RegistersQuiet, QuietMarks DEF Onward
<1>2. ASSUME NEW v \in Byte PROVE SetA(s, v) \in Onward(s)
  BY PlaceByte, RegistersQuiet, QuietMarks DEF Onward
<1>3. ASSUME NEW x \in Place, NEW v \in Byte PROVE SetPlace(s, x, v) \in Onward(s)
  BY PlaceByte, PlaceMarks DEF Onward
<1>4. ASSUME NEW q \in Pairs, NEW w \in Addr PROVE SetPair(s, q, w) \in Onward(s)
  BY PairAddr, RegistersQuiet, QuietMarks DEF Onward
<1>5. /\ \A a \in Addr, v \in Byte : Write(s, a, v) \in Onward(s)
      /\ \A a, w \in Addr : Write16(s, a, w) \in Onward(s)
      /\ \A w \in Addr : Push(s, w) \in Onward(s)
  BY WriteMachine, StoreMarks, StackMachine, StackMarks DEF Onward
<1>6. Popped(s) \in Onward(s)
  BY StackMachine, RegistersQuiet, QuietMarks DEF Onward
<1>7. s \in Onward(s)
  BY QuietMarks DEF Quiet, Onward
<1> QED
  BY <1>1, <1>2, <1>3, <1>4, <1>5, <1>6, <1>7

\* Two parts.
LEMMA OnwardFlags ==
  ASSUME NEW s \in Machine, NEW f \in Flags
  PROVE  /\ \A v \in Byte : SetA([s EXCEPT !.f = f], v) \in Onward(s)
         /\ \A x \in Place, v \in Byte : SetPlace([s EXCEPT !.f = f], x, v) \in Onward(s)
         /\ \A q \in Pairs, w \in Addr : SetPair([s EXCEPT !.f = f], q, w) \in Onward(s)
<1> DEFINE t == [s EXCEPT !.f = f]
<1>1. t \in Onward(s)
  BY OnwardParts
<1> HIDE DEF t
<1>2. t \in Machine
  BY <1>1 DEF Onward
<1>3. /\ \A v \in Byte : SetA(t, v) \in Onward(t)
      /\ \A x \in Place, v \in Byte : SetPlace(t, x, v) \in Onward(t)
      /\ \A q \in Pairs, w \in Addr : SetPair(t, q, w) \in Onward(t)
  BY <1>2, OnwardParts
<1>4. /\ \A v \in Byte : SetA(t, v) \in Onward(s)
      /\ \A x \in Place, v \in Byte : SetPlace(t, x, v) \in Onward(s)
      /\ \A q \in Pairs, w \in Addr : SetPair(t, q, w) \in Onward(s)
  BY <1>1, <1>3, OnwardTwice
<1> QED
  BY <1>4 DEF t

\* DAA, and the sums with SP.
LEMMA DecimalType ==
  ASSUME NEW a \in Byte, NEW f \in Flags
  PROVE  Decimal(a, f) \in [a : Byte, f : Flags]
<1> DEFINE six  == Half - 1 - Digit
           tens == f.c = 1 \/ (f.n = 0 /\ a > Digit * Half + Digit)
           sign == IF f.n = 1 THEN -1 ELSE 1
           first == IF tens THEN (a + sign * six * Half) % ByteSize ELSE a
           ones == f.h = 1 \/ (f.n = 0 /\ Nibble(first) > Digit)
           res  == IF ones THEN (first + sign * six) % ByteSize ELSE first
<1>1. six \in Int /\ sign \in Int /\ Half \in Int /\ f.n \in 0..1
  BY DigitAssumption, Widths DEF Flags
<1>2. first \in Byte
  <2>1. sign * six * Half \in Int
    BY <1>1
  <2>2. a + sign * six * Half \in Int
    BY <2>1, BytesAre
  <2> QED
    BY <2>2, BytesAre
<1> HIDE DEF first
<1>3. res \in Byte
  <2>1. sign * six \in Int
    BY <1>1
  <2>2. first + sign * six \in Int
    BY <2>1, <1>2, BytesAre
  <2> QED
    BY <2>2, <1>2, BytesAre
<1> DEFINE flags == Flag(res = 0, f.n, FALSE, tens)
<1>4. Decimal(a, f) = [a |-> res, f |-> flags]
  BY DEF Decimal, first
<1> HIDE DEF res, tens
<1>5. flags \in Flags
  BY <1>1 DEF Flag, Flags, Truth
<1> HIDE DEF flags
<1> QED
  BY <1>3, <1>4, <1>5

\* ADD SP and LD HL,SP+n.
LEMMA SumSpType ==
  ASSUME NEW sp \in Addr, NEW n \in Byte
  PROVE  SumSp(sp, n) \in [w : Addr, f : Flags]
<1>1. Signed(n) \in Int
  BY BytesAre, Widths DEF Signed
<1>2. sp + Signed(n) \in Int
  BY <1>1, WordParts
<1>3. (sp + Signed(n)) % Size \in Addr
  BY <1>2, WordParts
<1>4. Flag(FALSE, 0, Nibble(Low(sp)) + Nibble(n) >= Half, Low(sp) + n >= ByteSize) \in Flags
  BY DEF Flag, Flags, Truth
<1> QED
  BY <1>3, <1>4 DEF SumSp

\* The families of the switch that work on bytes.
ByteOps == {"ld", "alu", "inc", "dec", "shift", "rota", "bit", "res", "set",
            "cpl", "scf", "ccf", "daa"}

\* The instructions on bytes.
LEMMA ByteMachine ==
  ASSUME NEW s \in Machine, NEW i \in Instrs, i.op \in ByteOps
  PROVE  ByteEffect(s, i) \in Onward(s)
<1> USE DEF ByteOps
<1>1. /\ s.r \in [Reg8 -> Byte] /\ s.f \in Flags /\ s.r["a"] \in Byte
      /\ s.f.c \in 0..1 /\ s.f.z \in 0..1
  BY Parts, PlaceByte
<1>2. \A f \in Flags : [s EXCEPT !.f = f] \in Onward(s)
  BY OnwardParts
<1>3. ASSUME NEW f \in Flags, NEW v \in Byte
      PROVE  /\ SetA([s EXCEPT !.f = f], v) \in Onward(s)
             /\ \A x \in Place : SetPlace([s EXCEPT !.f = f], x, v) \in Onward(s)
  BY OnwardFlags
<1>4. /\ i.x \in Place => Operand(s, i.x, 0) \in Byte
      /\ i.y \in Place => Operand(s, i.y, i.n) \in Byte
      /\ i.y = "n" /\ i.n \in Byte => Operand(s, i.y, i.n) \in Byte
  BY PlaceByte
<1>5. CASE i.op = "ld"
  <2>1. i.x \in Place /\ Operand(s, i.y, i.n) \in Byte
    BY <1>5, <1>4, Shapes DEF Place
  <2>2. SetPlace(s, i.x, Operand(s, i.y, i.n)) \in Onward(s)
    BY <2>1, OnwardParts
  <2> QED
    BY <2>2, <1>5 DEF ByteEffect
<1>6. CASE i.op = "alu"
  <2> DEFINE alu == Alu(i.x, s.r["a"], Operand(s, i.y, i.n), s.f.c)
  <2>1. i.x \in AluOps /\ Operand(s, i.y, i.n) \in Byte
    BY <1>6, <1>4, Shapes
  <2>2. alu \in [a : Byte, f : Flags]
    BY <2>1, <1>1, AluSame
  <2> HIDE DEF alu
  <2>3. SetA([s EXCEPT !.f = alu.f], alu.a) \in Onward(s)
    BY <2>2, <1>3
  <2> QED
    BY <2>3, <1>6 DEF ByteEffect, alu
<1>7. CASE i.op \in {"inc", "dec"}
  <2> DEFINE stepped == Stepped(i.op, Operand(s, i.x, 0), s.f.c)
  <2>1. i.x \in Place /\ Operand(s, i.x, 0) \in Byte
    BY <1>7, <1>4, Shapes
  <2>2. stepped \in [v : Byte, f : Flags]
    BY <2>1, <1>1, <1>7, SteppedSame
  <2> HIDE DEF stepped
  <2>3. SetPlace([s EXCEPT !.f = stepped.f], i.x, stepped.v) \in Onward(s)
    BY <2>1, <2>2, <1>3
  <2> QED
    BY <2>3, <1>7 DEF ByteEffect, stepped
<1>8. CASE i.op = "shift"
  <2> DEFINE shifted == Shifted(i.y, Operand(s, i.x, 0), s.f.c)
             f == Flag(shifted.v = 0, 0, FALSE, shifted.c = 1)
  <2>1. i.x \in Place /\ i.y \in Shifts /\ Operand(s, i.x, 0) \in Byte
    BY <1>8, <1>4, Shapes
  <2>2. shifted \in [v : Byte, c : 0..1]
    BY <2>1, <1>1, ShiftedSame
  <2>3. f \in Flags
    BY DEF Flag, Flags, Truth
  <2>4. ByteEffect(s, i) = SetPlace([s EXCEPT !.f = f], i.x, shifted.v)
    BY <1>8 DEF ByteEffect
  <2> HIDE DEF shifted, f
  <2> QED
    BY <2>1, <2>2, <2>3, <2>4, <1>3
<1>9. CASE i.op = "rota"
  <2> DEFINE rotated == Shifted(i.y, s.r["a"], s.f.c)
             f == Flag(FALSE, 0, FALSE, rotated.c = 1)
  <2>1. i.y \in Shifts
    BY <1>9, Shapes DEF Rotates, Shifts
  <2>2. rotated \in [v : Byte, c : 0..1]
    BY <2>1, <1>1, ShiftedSame
  <2>3. f \in Flags
    BY DEF Flag, Flags, Truth
  <2>4. ByteEffect(s, i) = SetA([s EXCEPT !.f = f], rotated.v)
    BY <1>9 DEF ByteEffect
  <2> HIDE DEF rotated, f
  <2> QED
    BY <2>2, <2>3, <2>4, <1>3
<1>10. CASE i.op = "bit"
  <2> DEFINE f == Flag((Operand(s, i.x, 0) \div i.n) % 2 = 0, 0, TRUE, s.f.c = 1)
  <2>1. f \in Flags
    BY DEF Flag, Flags, Truth
  <2>2. ByteEffect(s, i) = [s EXCEPT !.f = f]
    BY <1>10 DEF ByteEffect
  <2> HIDE DEF f
  <2> QED
    BY <2>1, <2>2, <1>2
<1>11. CASE i.op \in {"res", "set"}
  <2>1. i.x \in Place /\ Operand(s, i.x, 0) \in Byte /\ i.n \in Byte /\ Full - i.n \in Byte
    <3>1. i.x \in Place /\ i.n \in 1..Full
      BY <1>11, Shapes, DigitAssumption
    <3>2. i.n \in Byte /\ Full - i.n \in Byte
      BY <3>1, Widths DEF Byte, Full
    <3> QED
      BY <3>1, <3>2, <1>4
  <2>2. And(Operand(s, i.x, 0), Full - i.n) \in Byte /\ Or(Operand(s, i.x, 0), i.n) \in Byte
    BY <2>1, AndByte, BitsAssumption
  <2>3. /\ SetPlace(s, i.x, And(Operand(s, i.x, 0), Full - i.n)) \in Onward(s)
        /\ SetPlace(s, i.x, Or(Operand(s, i.x, 0), i.n)) \in Onward(s)
    BY <2>1, <2>2, OnwardParts
  <2> QED
    BY <2>3, <1>11 DEF ByteEffect
<1>12. CASE i.op = "cpl"
  <2> DEFINE f == Flag(s.f.z = 1, 1, TRUE, s.f.c = 1)
  <2>1. f \in Flags
    BY DEF Flag, Flags, Truth
  <2>2. Full - s.r["a"] \in Byte
    BY <1>1, Widths DEF Byte, Full
  <2>3. ByteEffect(s, i) = SetA([s EXCEPT !.f = f], Full - s.r["a"])
    BY <1>12 DEF ByteEffect
  <2> HIDE DEF f
  <2> QED
    BY <2>1, <2>2, <2>3, <1>3
<1>13. CASE i.op \in {"scf", "ccf"}
  <2> DEFINE f == Flag(s.f.z = 1, 0, FALSE, TRUE)
             g == Flag(s.f.z = 1, 0, FALSE, s.f.c = 0)
  <2>1. f \in Flags /\ g \in Flags
    BY DEF Flag, Flags, Truth
  <2>2. ByteEffect(s, i) = [s EXCEPT !.f = f] \/ ByteEffect(s, i) = [s EXCEPT !.f = g]
    BY <1>13 DEF ByteEffect
  <2> HIDE DEF f, g
  <2> QED
    BY <2>1, <2>2, <1>2
<1>14. CASE i.op = "daa"
  <2> DEFINE decimal == Decimal(s.r["a"], s.f)
  <2>1. decimal \in [a : Byte, f : Flags]
    BY <1>1, DecimalType
  <2>2. ByteEffect(s, i) = SetA([s EXCEPT !.f = decimal.f], decimal.a)
    BY <1>14 DEF ByteEffect
  <2> HIDE DEF decimal
  <2> QED
    BY <2>1, <2>2, <1>3
<1> QED
  BY <1>5, <1>6, <1>7, <1>8, <1>9, <1>10, <1>11, <1>12, <1>13, <1>14

\* The families of the switch that work on words.
WordOps == {"ldw", "inc16", "dec16", "addhl", "ldsphl", "addsp", "ldhlsp", "stsp", "push", "pop"}

\* The instructions on words.
LEMMA WordMachine ==
  ASSUME NEW s \in Machine, NEW i \in Instrs, i.op \in WordOps
  PROVE  WordEffect(s, i) \in Onward(s)
<1> USE DEF WordOps
<1>1. /\ s.sp \in Addr /\ s.f \in Flags /\ s.r \in [Reg8 -> Byte]
      /\ s.r["a"] \in Byte /\ s.f.z \in 0..1 /\ Pair(s, "hl") \in Addr
      /\ "hl" \in Pairs
  BY Parts, PlaceByte, PairAddr DEF Pairs
<1>2. i.op \in {"ldw", "inc16", "dec16", "addhl"} => i.x \in Pairs /\ Pair(s, i.x) \in Addr
  BY Shapes, PairAddr
<1>3. \A f \in Flags : [s EXCEPT !.f = f] \in Onward(s)
  BY OnwardParts
<1>4. CASE i.op = "ldw"
  BY <1>2, <1>4, Shapes, OnwardParts DEF WordEffect
<1>5. CASE i.op \in {"inc16", "dec16"}
  <2>1. (Pair(s, i.x) + 1) % Size \in Addr /\ (Pair(s, i.x) + Size - 1) % Size \in Addr
    <3>1. Pair(s, i.x) \in Nat /\ Size \in Nat
      BY <1>2, <1>5, WordParts, Widths
    <3>2. Pair(s, i.x) + 1 \in Int /\ Pair(s, i.x) + Size - 1 \in Int
      BY <3>1
    <3> QED
      BY <3>2, WordParts
  <2> QED
    BY <1>2, <1>5, <2>1, OnwardParts DEF WordEffect
<1>6. CASE i.op = "addhl"
  <2> DEFINE sum == SumHl(Pair(s, "hl"), Pair(s, i.x), s.f.z)
  <2>1. sum \in [w : Addr, f : Flags]
    BY <1>1, <1>2, <1>6, SumHlSame
  <2>2. WordEffect(s, i) = SetPair([s EXCEPT !.f = sum.f], "hl", sum.w)
    BY <1>6 DEF WordEffect
  <2> HIDE DEF sum
  <2> QED
    BY <2>1, <2>2, <1>1, OnwardFlags
<1>7. CASE i.op = "ldsphl"
  BY <1>1, <1>7, OnwardParts DEF WordEffect
<1>8. CASE i.op \in {"addsp", "ldhlsp"}
  <2> DEFINE off == SumSp(s.sp, i.n)
  <2>1. off \in [w : Addr, f : Flags]
    BY <1>1, <1>8, Shapes, SumSpType
  <2>2. /\ i.op = "addsp" => WordEffect(s, i) = [[s EXCEPT !.sp = off.w] EXCEPT !.f = off.f]
        /\ i.op = "ldhlsp" => WordEffect(s, i) = SetPair([s EXCEPT !.f = off.f], "hl", off.w)
    BY <1>8 DEF WordEffect
  <2> HIDE DEF off
  <2>3. [s EXCEPT !.sp = off.w] \in Onward(s)
    BY <2>1, OnwardParts
  <2>4. [[s EXCEPT !.sp = off.w] EXCEPT !.f = off.f] \in Onward(s)
    <3> DEFINE t == [s EXCEPT !.sp = off.w]
    <3> HIDE DEF t
    <3>1. t \in Machine /\ t \in Onward(s)
      BY <2>3 DEF Onward, t
    <3>2. [t EXCEPT !.f = off.f] \in Onward(t)
      BY <2>1, <3>1, OnwardParts
    <3>3. [t EXCEPT !.f = off.f] \in Onward(s)
      BY <3>1, <3>2, OnwardTwice
    <3> QED
      BY <3>3 DEF t
  <2>5. SetPair([s EXCEPT !.f = off.f], "hl", off.w) \in Onward(s)
    BY <2>1, <1>1, OnwardFlags
  <2> QED
    BY <1>8, <2>2, <2>4, <2>5
<1>9. CASE i.op = "stsp"
  BY <1>1, <1>9, Shapes, OnwardParts DEF WordEffect
<1>10. CASE i.op = "push"
  <2>1. s.r["a"] * ByteSize + FByte(s.f) \in Addr
    BY <1>1, FlagBytes, WordParts
  <2>2. i.x # "af" => Pair(s, i.x) \in Addr
    <3>1. i.x # "af" => i.x \in Pairs
      BY <1>10, Shapes DEF Pairs
    <3> QED
      BY <3>1, PairAddr
  <2>3. i.x = "af" => WordEffect(s, i) = Push(s, s.r["a"] * ByteSize + FByte(s.f))
    BY <1>10 DEF WordEffect
  <2>4. i.x # "af" => WordEffect(s, i) = Push(s, Pair(s, i.x))
    BY <1>10 DEF WordEffect
  <2> QED
    BY <2>1, <2>2, <2>3, <2>4, OnwardParts
<1>11. CASE i.op = "pop"
  <2> DEFINE word == Read16(s, s.sp)
             t == Popped(s)
  <2>1. word \in Addr /\ t \in Onward(s)
    BY <1>1, Read16Word, OnwardParts
  <2>2. i.x = "af" => WordEffect(s, i) = SetA([t EXCEPT !.f = FOf(Low(word))], High(word))
    BY <1>11 DEF WordEffect
  <2>3. i.x # "af" => WordEffect(s, i) = SetPair(t, i.x, word)
    BY <1>11 DEF WordEffect
  <2> HIDE DEF word, t
  <2>4. FOf(Low(word)) \in Flags /\ High(word) \in Byte
    BY <2>1, WordParts, FlagBytes
  <2>5. t \in Machine
    BY <2>1 DEF Onward
  <2>6. i.x # "af" => i.x \in Pairs
    BY <1>11, Shapes DEF Pairs
  <2>7. i.x = "af" => WordEffect(s, i) \in Onward(t)
    BY <2>2, <2>4, <2>5, OnwardFlags
  <2>8. i.x # "af" => WordEffect(s, i) \in Onward(t)
    BY <2>1, <2>3, <2>5, <2>6, OnwardParts
  <2> QED
    BY <2>1, <2>7, <2>8, OnwardTwice
<1> QED
  BY <1>4, <1>5, <1>6, <1>7, <1>8, <1>9, <1>10, <1>11

\* The instruction that follows, and where a jump goes.
LEMMA GoesAddr ==
  ASSUME NEW s \in Machine, NEW i \in Instrs
  PROVE  Goes(s, i) \in Addr /\ After(s, i) \in Addr /\ Cycles(s, i) \in Nat
<1>1. s.pc \in Nat /\ s.pc \in Addr /\ s.sp \in Addr /\ Size \in Nat /\ ByteSize \in Nat
  BY Parts, WordParts, Widths
<1>2. Len(i) \in 1..3
  BY DEF Len
<1>3. After(s, i) \in Addr
  <2>1. s.pc + Len(i) \in Int
    BY <1>1, <1>2
  <2> QED
    BY <2>1, WordParts DEF After
<1>4. Cycles(s, i) \in Nat
  BY DEF Cycles
<1>5. i.op \in {"rst", "jp", "call"} => i.n \in Addr
  <2>1. \A v \in Byte : v \in Addr
    <3>1. Size >= ByteSize
      <4>1. ByteSize * ByteSize >= ByteSize
        BY Widths
      <4> QED
        BY <4>1, Widths
    <3>2. ByteSize \in Nat /\ Size \in Nat
      BY Widths
    <3> QED
      BY <3>1, <3>2 DEF Byte, Addr
  <2> QED
    BY <2>1, Shapes
<1>6. i.op = "jr" => (s.pc + 2 + Signed(i.n)) % Size \in Addr
  <2> SUFFICES ASSUME i.op = "jr" PROVE (s.pc + 2 + Signed(i.n)) % Size \in Addr
    OBVIOUS
  <2>1. i.n \in Byte
    BY Shapes
  <2>2. Signed(i.n) \in Int
    BY <2>1, BytesAre, <1>1 DEF Signed
  <2>3. s.pc + 2 + Signed(i.n) \in Int
    BY <1>1, <2>2
  <2> QED
    BY <2>3, WordParts
<1>7. Read16(s, s.sp) \in Addr /\ Pair(s, "hl") \in Addr
  BY <1>1, Read16Word, PairAddr DEF Pairs
<1>8. Goes(s, i) \in Addr
  BY <1>3, <1>5, <1>6, <1>7 DEF Goes
<1> QED
  BY <1>3, <1>4, <1>8

\* HL moved after the access.
LEMMA BumpedOnward ==
  ASSUME NEW s, NEW t \in Onward(s), NEW i \in Instrs, i.op \in {"lda", "sta"}
  PROVE  Bumped(t, i.y) \in Onward(s)
<1>1. t \in Machine
  BY DEF Onward
<1>2. Bumped(t, i.y) \in Machine /\ Quiet(t, Bumped(t, i.y))
  BY <1>1, AddressAddr, RegistersQuiet
<1>3. Bumped(t, i.y) \in Onward(t)
  BY <1>2, QuietMarks DEF Onward
<1> QED
  BY <1>3, OnwardTwice

\* sm83_step leaves a machine, and changes no code without a flag.
LEMMA ExecMachine ==
  ASSUME NEW s \in Machine, NEW i \in Instrs
  PROVE  Exec(s, i) \in Onward(s)
<1>1. Effect(s, i) \in Onward(s)
  <2>1. CASE i.op = "lda"
    <3> DEFINE t == SetA(s, Read(s, Address(s, i)))
    <3>1. t \in Onward(s)
      BY <2>1, AddressAddr, ReadByte, OnwardParts
    <3>2. Effect(s, i) = Bumped(t, i.y)
      BY <2>1 DEF Effect
    <3> HIDE DEF t
    <3> QED
      BY <2>1, <3>1, <3>2, BumpedOnward
  <2>2. CASE i.op = "sta"
    <3> DEFINE t == Write(s, Address(s, i), s.r["a"])
    <3>1. t \in Onward(s)
      BY <2>2, AddressAddr, PlaceByte, OnwardParts
    <3>2. Effect(s, i) = Bumped(t, i.y)
      BY <2>2 DEF Effect
    <3> HIDE DEF t
    <3> QED
      BY <2>2, <3>1, <3>2, BumpedOnward
  <2>3. CASE i.op \in {"rst", "call", "ret"}
    <3>1. Push(s, After(s, i)) \in Onward(s) /\ Popped(s) \in Onward(s) /\ s \in Onward(s)
      BY GoesAddr, OnwardParts
    <3> QED
      BY <3>1, <2>3 DEF Effect
  <2>4. CASE i.op \in ByteOps
    BY <2>4, ByteMachine DEF Effect, ByteOps
  <2>5. CASE i.op \in WordOps
    BY <2>5, WordMachine DEF Effect, WordOps
  <2>6. CASE i.op \in {"nop", "jphl", "jr", "jp"}
    BY <2>6, OnwardParts DEF Effect
  <2> QED
    BY <2>1, <2>2, <2>3, <2>4, <2>5, <2>6, Shapes DEF ByteOps, WordOps
<1>2. Goes(s, i) \in Addr /\ s.took + Cycles(s, i) \in Nat
  BY GoesAddr, Parts
<1> DEFINE done == Effect(s, i)
           goes == Goes(s, i)
           took == s.took + Cycles(s, i)
<1>3. Exec(s, i) = [done EXCEPT !.pc = goes, !.took = took]
  BY DEF Exec
<1>4. done \in Machine /\ done \in Onward(s) /\ goes \in Addr /\ took \in Nat
  BY <1>1, <1>2 DEF Onward
<1> HIDE DEF done, goes, took
<1>5. [done EXCEPT !.pc = goes, !.took = took] \in Onward(done)
  BY <1>4, OnwardParts
<1> QED
  BY <1>3, <1>4, <1>5, OnwardTwice

-----------------------------------------------------------------------------
(* The fast path.                                                          *)

\* An address whose shifted value is 6 is in work RAM.
LEMMA ShiftedAddress ==
  ASSUME NEW a \in Addr
  PROVE  InWram(a) <=> a \in Wram
<1>1. a \in Nat /\ Eighth \in Nat \ {0} /\ Base.wram = 6 * Eighth /\ Base.echo = 7 * Eighth
  BY WordParts, Halves, BaseAssumption
<1>2. a \in Wram => a \div Eighth = 6
  <2> SUFFICES ASSUME a \in Wram PROVE a \div Eighth = 6
    OBVIOUS
  <2>1. a = Eighth * 6 + (a - Base.wram) /\ a - Base.wram \in 0..(Eighth - 1)
    BY <1>1 DEF Wram
  <2> QED
    BY <2>1, <1>1, DivisionIs
<1>3. a \div Eighth = 6 => a \in Wram
  <2>1. a = Eighth * (a \div Eighth) + (a % Eighth) /\ a % Eighth \in 0..(Eighth - 1)
    BY <1>1, Division
  <2> QED
    BY <2>1, <1>1 DEF Wram
<1> QED
  BY <1>2, <1>3 DEF InWram

\* The regions do not overlap.
LEMMA Apart ==
  ASSUME NEW a \in Addr
  PROVE  /\ a \in Wram => /\ a \notin Fixed \union Window \union Ext \union Void
                           /\ a \notin Echo \union IoPort \union Hram
                           /\ a \in Stored /\ Canonical(a) = a
         /\ a \in Hram => /\ a \notin Fixed \union Window \union Ext \union Void
                           /\ a \notin Echo \union IoPort
                           /\ a \in Stored /\ Canonical(a) = a
         /\ a \in IoPort => /\ a \notin Fixed \union Window \union Ext \union Void
                             /\ a \notin Echo
                             /\ a \in Stored /\ Canonical(a) = a
<1>1. a \in Nat
  BY WordParts
<1>2. a \in Wram => a \notin Fixed \union Window \union Ext \union Void \union Echo \union IoPort \union Hram
  BY <1>1, Regions DEF Fixed, Window, Ext, Wram, Echo, Void, IoPort, Hram
<1>3. a \in Hram => a \notin Fixed \union Window \union Ext \union Void \union Echo \union IoPort
  BY <1>1, Regions DEF Fixed, Window, Ext, Echo, Void, IoPort, Hram
<1>4. a \in IoPort => a \notin Fixed \union Window \union Ext \union Void \union Echo
  BY <1>1, Regions DEF Fixed, Window, Ext, Echo, Void, IoPort
<1> QED
  BY <1>2, <1>3, <1>4, Cells DEF Stored

\* The cell the emitted code loads from is what mmu_read8 returns.
LEMMA CellRead ==
  ASSUME NEW s \in Machine, NEW a \in Addr,
         a \in Wram \union Hram \union (IoPort \ {Io.joyp})
  PROVE  s.mem[a] = Read(s, a)
<1>1. Io.joyp \notin Wram \union Hram /\ Io.joyp \in Addr
  BY IoAssumption, StoredAddr, Apart
<1> QED
  BY <1>1, Apart DEF Read

\* A store without a mark is what mmu_write8 does to a page without code.
LEMMA CellWrite ==
  ASSUME NEW s, NEW a \in Addr, NEW v, a \in Wram \union Hram, s.page[Page(a)] # 1
  PROVE  Put(s, a, v) = Write(s, a, v)
<1>1. SmcMark(s, a) = s
  BY DEF SmcMark
<1> QED
  BY <1>1, Apart DEF Write

\* A stack access does not go round the end of the address space.
LEMMA BehindIs ==
  ASSUME NEW a \in Addr, InWram(a), a + 1 # Base.echo
  PROVE  /\ a \in Wram /\ Behind(a) = a + 1 /\ (a + 1) % Size = a + 1
         /\ a + 1 \in Wram /\ a + 1 \in Addr
<1>1. a \in Wram /\ a \in Nat
  BY ShiftedAddress, WordParts
<1>2. a + 1 \in Wram /\ a + 1 < Base.echo /\ a + 1 < Size
  BY <1>1, Regions, Widths DEF Wram
<1>3. a + 1 \in Addr
  BY <1>1, <1>2, Widths DEF Addr
<1> QED
  BY <1>1, <1>2, <1>3, WordParts DEF Behind

\* An inlined POP or RET reads the word mmu_read16 would.
LEMMA PopSame ==
  ASSUME NEW s \in Machine, InWram(s.sp), s.sp + 1 # Base.echo
  PROVE  FastWord(s) = Read16(s, s.sp)
<1>1. s.sp \in Addr
  BY Parts
<1>2. /\ s.sp \in Wram /\ Behind(s.sp) = s.sp + 1 /\ (s.sp + 1) % Size = s.sp + 1
      /\ s.sp + 1 \in Wram /\ s.sp + 1 \in Addr
  BY <1>1, BehindIs
<1>3. s.mem[s.sp] = Read(s, s.sp) /\ s.mem[s.sp + 1] = Read(s, s.sp + 1)
  BY <1>1, <1>2, CellRead
<1> QED
  BY <1>2, <1>3 DEF FastWord, Read16

\* An inlined PUSH, CALL or RST stores what mmu_write16 would.
LEMMA PushSame ==
  ASSUME NEW s \in Machine, NEW w \in Addr, InWram(NewSp(s)), NewSp(s) + 1 # Base.echo,
         s.page[Page(NewSp(s))] # 1, s.page[Page(NewSp(s) + 1)] # 1
  PROVE  FastPush(s, w) = Push(s, w)
<1> DEFINE sp == NewSp(s)
           t  == [s EXCEPT !.sp = sp]
           u  == Put(t, sp, Low(w))
<1>1. sp \in Addr
  BY StackMachine
<1>2. /\ sp \in Wram /\ Behind(sp) = sp + 1 /\ (sp + 1) % Size = sp + 1
      /\ sp + 1 \in Wram /\ sp + 1 \in Addr
  BY <1>1, BehindIs
<1>3. t.page = s.page
  BY DEF Machine
<1>4. u = Write(t, sp, Low(w))
  BY <1>1, <1>2, <1>3, CellWrite
<1>5. u.page = s.page
  <2>1. t \in Machine
    BY <1>1, Changed
  <2> QED
    BY <1>3, <2>1 DEF Put, Machine
<1>6. Push(s, w) = Write(Write(t, sp, Low(w)), (sp + 1) % Size, High(w))
  BY DEF Push, Write16, NewSp
<1>7. FastPush(s, w) = Put(u, Behind(sp), High(w))
  BY DEF FastPush
<1> HIDE DEF sp, t, u
<1>8. s.page[Page(sp + 1)] # 1
  BY DEF sp
<1>9. Put(u, sp + 1, High(w)) = Write(u, sp + 1, High(w))
  BY <1>2, <1>5, <1>8, CellWrite
<1> QED
  BY <1>2, <1>4, <1>6, <1>7, <1>9

\* The branch on a masked flag.
LEMMA TakenSame ==
  ASSUME NEW f \in Flags, NEW cc \in Conditions
  PROVE  FastTaken(f, cc) <=> Condition(f, cc)
<1>1. f.z \in 0..1 /\ f.c \in 0..1
  BY DEF Flags
<1>2. CASE cc = "nz"
  BY <1>1, <1>2 DEF FastTaken, Condition
<1>3. CASE cc = "z"
  BY <1>1, <1>3 DEF FastTaken, Condition
<1>4. CASE cc = "nc"
  BY <1>1, <1>4 DEF FastTaken, Condition
<1>5. CASE cc = "c"
  BY <1>1, <1>5 DEF FastTaken, Condition
<1>6. CASE cc = "always"
  BY <1>6 DEF FastTaken, Condition
<1> QED
  BY <1>2, <1>3, <1>4, <1>5, <1>6 DEF Conditions

\* What is assumed of an instruction that stays on its fast path.
Fast(s, i) ==
  Inlines(i) /\ OnFastPath(s, i) /\ ~Straddles(s, i) /\ ~Unmarked(s, i)

\* Loads and stores at HL.
LEMMA PlaceSame ==
  ASSUME NEW s \in Machine
  PROVE  /\ \A y \in Reg8 \union {"n"} : \A n : FastOperand(s, y, n) = Operand(s, y, n)
         /\ \A n : InWram(Pair(s, "hl")) => FastOperand(s, "(hl)", n) = Operand(s, "(hl)", n)
         /\ \A x \in Reg8 : \A v : FastSet(s, x, v) = SetPlace(s, x, v)
         /\ \A x \in Reg8 : Operand(s, x, 0) = s.r[x]
         /\ \A v : InWram(Pair(s, "hl")) /\ Guarded(s, Pair(s, "hl"))
                   => FastSet(s, "(hl)", v) = SetPlace(s, "(hl)", v)
<1>1. Pair(s, "hl") \in Addr
  BY PairAddr DEF Pairs
<1>2. InWram(Pair(s, "hl")) => Pair(s, "hl") \in Wram
  BY <1>1, ShiftedAddress
<1>3. ASSUME InWram(Pair(s, "hl")), NEW n
      PROVE  FastOperand(s, "(hl)", n) = Operand(s, "(hl)", n)
  <2>1. s.mem[Pair(s, "hl")] = Read(s, Pair(s, "hl"))
    BY <1>1, <1>2, <1>3, CellRead
  <2> QED
    BY <2>1 DEF FastOperand, Operand
<1>4. ASSUME InWram(Pair(s, "hl")), Guarded(s, Pair(s, "hl")), NEW v
      PROVE  FastSet(s, "(hl)", v) = SetPlace(s, "(hl)", v)
  <2>1. s.page[Page(Pair(s, "hl"))] # 1
    BY <1>4 DEF Guarded
  <2>2. Put(s, Pair(s, "hl"), v) = Write(s, Pair(s, "hl"), v)
    BY <1>1, <1>2, <1>4, <2>1, CellWrite
  <2> QED
    BY <2>2 DEF FastSet, SetPlace
<1>5. \A y \in Reg8 \union {"n"} : \A n : FastOperand(s, y, n) = Operand(s, y, n)
  BY DEF FastOperand, Operand, Reg8
<1>6. /\ \A x \in Reg8 : \A v : FastSet(s, x, v) = SetPlace(s, x, v)
      /\ \A x \in Reg8 : Operand(s, x, 0) = s.r[x]
  BY DEF FastSet, SetPlace, Operand, Reg8
<1> QED
  BY <1>3, <1>4, <1>5, <1>6

\* Instructions on bytes.
LEMMA FastByteSame ==
  ASSUME NEW s \in Machine, NEW i \in Instrs, Fast(s, i), i.op \in ByteOps
  PROVE  FastByte(s, i) = ByteEffect(s, i)
<1>1. /\ s.f \in Flags /\ s.r \in [Reg8 -> Byte] /\ s.r["a"] \in Byte
      /\ s.f.c \in 0..1 /\ s.f.z \in 0..1
  BY Parts, PlaceByte
<1>2. i.op # "daa"
  BY DEF Fast, Inlines
<1>3. ASSUME NEW f \in Flags, NEW x \in Reg8, NEW v
      PROVE  FastSet([s EXCEPT !.f = f], x, v) = SetPlace([s EXCEPT !.f = f], x, v)
  <2>1. [s EXCEPT !.f = f] \in Machine
    BY Changed
  <2> QED
    BY <2>1, PlaceSame
<1>4. \A y \in Place : \A n : Operand(s, y, n) \in Byte
  BY PlaceByte
<1>5. i.op \in {"inc", "dec", "shift", "bit", "res", "set"} =>
        /\ i.x \in Reg8 /\ Operand(s, i.x, 0) = s.r[i.x] /\ s.r[i.x] \in Byte
  <2> SUFFICES ASSUME i.op \in {"inc", "dec", "shift", "bit", "res", "set"}
               PROVE  i.x \in Reg8 /\ Operand(s, i.x, 0) = s.r[i.x] /\ s.r[i.x] \in Byte
    OBVIOUS
  <2>1. i.x \in Place /\ i.x # "(hl)"
    BY Shapes DEF Fast, Inlines
  <2>2. i.x \in Reg8
    BY <2>1 DEF Place
  <2> QED
    BY <2>2, <1>1, PlaceSame
<1>6. CASE i.op = "ld"
  <2>1. FastOperand(s, i.y, i.n) = Operand(s, i.y, i.n)
    <3>1. i.y \in Reg8 \union {"n"} \/ (i.y = "(hl)" /\ InWram(Pair(s, "hl")))
      BY <1>6, Shapes DEF Fast, OnFastPath
    <3> QED
      BY <3>1, PlaceSame
  <2>2. \A v : FastSet(s, i.x, v) = SetPlace(s, i.x, v)
    <3>1. i.x \in Reg8 \/ (i.x = "(hl)" /\ i.y # "(hl)")
      BY <1>6, Shapes DEF Place, Reg8
    <3>2. i.x = "(hl)" => InWram(Pair(s, "hl")) /\ Guarded(s, Pair(s, "hl"))
      BY <1>6, <3>1 DEF Fast, OnFastPath, Reg8
    <3> QED
      BY <3>1, <3>2, PlaceSame
  <2> QED
    BY <1>6, <2>1, <2>2 DEF FastByte, ByteEffect
<1>7. CASE i.op = "alu"
  <2>1. FastOperand(s, i.y, i.n) = Operand(s, i.y, i.n)
    <3>1. i.y \in Reg8 \union {"n"} \/ (i.y = "(hl)" /\ InWram(Pair(s, "hl")))
      BY <1>7, Shapes DEF Fast, OnFastPath, Place
    <3> QED
      BY <3>1, PlaceSame
  <2>2. i.x \in AluOps /\ Operand(s, i.y, i.n) \in Byte
    <3>1. i.x \in AluOps /\ (i.y \in Place \/ (i.y = "n" /\ i.n \in Byte))
      BY <1>7, Shapes
    <3> QED
      BY <3>1, PlaceByte
  <2>3. FastAlu(i.x, s.r["a"], FastOperand(s, i.y, i.n), s.f.c)
          = Alu(i.x, s.r["a"], Operand(s, i.y, i.n), s.f.c)
    BY <2>1, <2>2, <1>1, AluSame
  <2> QED
    BY <1>7, <2>3 DEF FastByte, ByteEffect
<1>8. CASE i.op \in {"inc", "dec"}
  <2> DEFINE stepped == Stepped(i.op, s.r[i.x], s.f.c)
  <2>1. FastStepped(i.op, s.r[i.x], s.f.c) = stepped /\ stepped \in [v : Byte, f : Flags]
    BY <1>1, <1>5, <1>8, SteppedSame
  <2>2. FastByte(s, i) = FastSet([s EXCEPT !.f = stepped.f], i.x, stepped.v)
    BY <1>8, <2>1 DEF FastByte
  <2>3. ByteEffect(s, i) = SetPlace([s EXCEPT !.f = stepped.f], i.x, stepped.v)
    BY <1>8, <1>5 DEF ByteEffect
  <2> HIDE DEF stepped
  <2> QED
    BY <1>8, <1>5, <2>1, <2>2, <2>3, <1>3
<1>9. CASE i.op = "shift"
  <2> DEFINE shifted == Shifted(i.y, s.r[i.x], s.f.c)
             f == Flag(shifted.v = 0, 0, FALSE, shifted.c = 1)
             g == FlagBits(ZBit(shifted.v), 0, 0, shifted.c)
  <2>1. i.y \in Shifts
    BY <1>9, Shapes
  <2>2. FastShifted(i.y, s.r[i.x], s.f.c) = shifted /\ shifted \in [v : Byte, c : 0..1]
    BY <1>1, <1>5, <1>9, <2>1, ShiftedSame
  <2>3. FastByte(s, i) = FastSet([s EXCEPT !.f = g], i.x, shifted.v)
    BY <1>9, <2>2 DEF FastByte
  <2>4. ByteEffect(s, i) = SetPlace([s EXCEPT !.f = f], i.x, shifted.v)
    BY <1>9, <1>5 DEF ByteEffect
  <2> HIDE DEF shifted
  <2>5. ZBit(shifted.v) = Truth(shifted.v = 0) /\ Truth(shifted.c = 1) = shifted.c
    BY <2>2, ZBitIs DEF Truth
  <2>6. f = g /\ f \in Flags
    BY <2>5 DEF Flag, FlagBits, Flags, Truth
  <2> HIDE DEF f, g
  <2> QED
    BY <1>9, <1>5, <2>3, <2>4, <2>6, <1>3
<1>10. CASE i.op = "rota"
  <2> DEFINE rotated == Shifted(i.y, s.r["a"], s.f.c)
  <2>1. i.y \in Shifts
    BY <1>10, Shapes DEF Rotates, Shifts
  <2>2. FastShifted(i.y, s.r["a"], s.f.c) = rotated /\ rotated \in [v : Byte, c : 0..1]
    BY <1>1, <2>1, ShiftedSame
  <2>3. FastByte(s, i) = SetA([s EXCEPT !.f = FlagBits(0, 0, 0, rotated.c)], rotated.v)
    BY <1>10, <2>2 DEF FastByte
  <2>4. ByteEffect(s, i) = SetA([s EXCEPT !.f = Flag(FALSE, 0, FALSE, rotated.c = 1)], rotated.v)
    BY <1>10 DEF ByteEffect
  <2> HIDE DEF rotated
  <2>5. FlagBits(0, 0, 0, rotated.c) = Flag(FALSE, 0, FALSE, rotated.c = 1)
    BY <2>2 DEF Flag, FlagBits, Truth
  <2> QED
    BY <2>3, <2>4, <2>5
<1>11. CASE i.op = "bit"
  <2> DEFINE bit == (s.r[i.x] \div i.n) % 2
  <2>1. i.n \in Nat \ {0}
    <3>1. i.n \in 1..Full
      BY <1>11, Shapes, DigitAssumption
    <3> QED
      BY <3>1
  <2>2. bit \in 0..1 /\ bit = Bit(s.r[i.x], i.n)
    <3>1. s.r[i.x] \in Int
      BY <1>5, <1>11, BytesAre
    <3> QED
      BY <2>1, <3>1, BitIs DEF Bit
  <2>3. FastByte(s, i) = [s EXCEPT !.f = FlagBits(ZBit(bit), 0, 1, s.f.c)]
    BY <1>11, <2>2 DEF FastByte
  <2>4. ByteEffect(s, i) = [s EXCEPT !.f = Flag(bit = 0, 0, TRUE, s.f.c = 1)]
    BY <1>11, <1>5 DEF ByteEffect
  <2> HIDE DEF bit
  <2>5. bit \in Byte
    BY <2>2, Widths DEF Byte
  <2>6. ZBit(bit) = Truth(bit = 0)
    BY <2>5, ZBitIs
  <2>7. FlagBits(ZBit(bit), 0, 1, s.f.c) = Flag(bit = 0, 0, TRUE, s.f.c = 1)
    BY <2>6, <1>1 DEF Flag, FlagBits, Truth
  <2> QED
    BY <2>3, <2>4, <2>7
<1>12. CASE i.op \in {"res", "set"}
  BY <1>5, <1>12, PlaceSame DEF FastByte, ByteEffect
<1>13. CASE i.op = "cpl"
  <2>1. Xor(s.r["a"], Full) % ByteSize = Full - s.r["a"]
    <3>1. Xor(s.r["a"], Full) = Full - s.r["a"] /\ Xor(s.r["a"], Full) \in Byte
      BY <1>1, BytesAre, XorAssumption
    <3> QED
      BY <3>1, BytesAre
  <2>2. FlagBits(s.f.z, 1, 1, s.f.c) = Flag(s.f.z = 1, 1, TRUE, s.f.c = 1)
    BY <1>1 DEF FlagBits, Flag, Truth
  <2> QED
    BY <1>13, <2>1, <2>2 DEF FastByte, ByteEffect
<1>14. CASE i.op = "scf"
  <2>1. FlagBits(s.f.z, 0, 0, 1) = Flag(s.f.z = 1, 0, FALSE, TRUE)
    BY <1>1 DEF FlagBits, Flag, Truth
  <2> QED
    BY <1>14, <2>1 DEF FastByte, ByteEffect
<1>15. CASE i.op = "ccf"
  <2>1. FlagBits(s.f.z, 0, 0, 1 - s.f.c) = Flag(s.f.z = 1, 0, FALSE, s.f.c = 0)
    <3>1. Truth(s.f.z = 1) = s.f.z /\ Truth(s.f.c = 0) = 1 - s.f.c /\ Truth(FALSE) = 0
      BY <1>1 DEF Truth
    <3> QED
      BY <3>1 DEF FlagBits, Flag
  <2> QED
    BY <1>15, <2>1 DEF FastByte, ByteEffect
<1> QED
  BY <1>2, <1>6, <1>7, <1>8, <1>9, <1>10, <1>11, <1>12, <1>13, <1>14, <1>15 DEF ByteOps

\* What a push or a pop on its fast path may rely on.
LEMMA StackFast ==
  ASSUME NEW s \in Machine, NEW i \in Instrs, Fast(s, i)
  PROVE  /\ i.op \in Pushes => \A w \in Addr : FastPush(s, w) = Push(s, w)
         /\ i.op \in Pops => FastWord(s) = Read16(s, s.sp)
<1>1. ASSUME i.op \in Pushes, NEW w \in Addr PROVE FastPush(s, w) = Push(s, w)
  <2>1. InWram(NewSp(s)) /\ NewSp(s) + 1 # Base.echo
    BY <1>1 DEF Fast, OnFastPath, Straddles
  <2>2. s.page[Page(NewSp(s))] # 1 /\ s.page[Page(NewSp(s) + 1)] # 1
    BY <1>1 DEF Fast, Unmarked
  <2> QED
    BY <2>1, <2>2, PushSame
<1>2. ASSUME i.op \in Pops PROVE FastWord(s) = Read16(s, s.sp)
  <2>1. InWram(s.sp) /\ s.sp + 1 # Base.echo
    BY <1>2 DEF Fast, OnFastPath, Straddles
  <2> QED
    BY <2>1, PopSame
<1> QED
  BY <1>1, <1>2

\* Instructions on words.
LEMMA FastWordsSame ==
  ASSUME NEW s \in Machine, NEW i \in Instrs, Fast(s, i), i.op \in WordOps
  PROVE  FastWords(s, i) = WordEffect(s, i)
<1>1. i.op \notin {"ldsphl", "addsp", "ldhlsp", "stsp"}
  BY DEF Fast, Inlines
<1>2. /\ s.sp \in Addr /\ s.f \in Flags /\ s.r["a"] \in Byte /\ s.f.z \in 0..1
      /\ Pair(s, "hl") \in Addr
  BY Parts, PlaceByte, PairAddr DEF Pairs
<1>3. i.op \in {"ldw", "inc16", "dec16", "addhl"} => i.x \in Pairs /\ Pair(s, i.x) \in Addr
  BY Shapes, PairAddr
<1>4. CASE i.op \in {"ldw", "inc16"}
  BY <1>4 DEF FastWords, WordEffect
<1>5. CASE i.op = "dec16"
  <2>1. (Pair(s, i.x) - 1) % Size = (Pair(s, i.x) + Size - 1) % Size
    <3> DEFINE w == Pair(s, i.x)
    <3>1. w \in Nat /\ w < Size /\ Size \in Nat \ {0}
      BY <1>3, <1>5, WordParts, Widths
    <3> SUFFICES (w - 1) % Size = (w + Size - 1) % Size
      OBVIOUS
    <3> HIDE DEF w
    <3>2. CASE w = 0
      <4>1. (w - 1) % Size = Size - 1
        <5>1. w - 1 \in (-Size)..(-1) /\ w - 1 \in Int
          BY <3>1, <3>2
        <5>2. (w - 1) % Size = (w - 1) + Size
          BY <5>1, <3>1, DivisionNear
        <5> QED
          BY <5>2, <3>1, <3>2
      <4>2. (w + Size - 1) % Size = Size - 1
        <5>1. w + Size - 1 = Size - 1 /\ Size - 1 \in 0..(Size - 1)
          BY <3>1, <3>2
        <5> QED
          BY <5>1, <3>1, DivisionSmall
      <4> QED
        BY <4>1, <4>2
    <3>3. CASE w # 0
      <4>1. (w - 1) % Size = w - 1
        <5>1. w - 1 \in 0..(Size - 1)
          BY <3>1, <3>3
        <5> QED
          BY <5>1, <3>1, DivisionSmall
      <4>2. (w + Size - 1) % Size = w - 1
        <5>1. w + Size - 1 \in Size..(2 * Size - 1) /\ w + Size - 1 \in Int
          BY <3>1, <3>3
        <5>2. (w + Size - 1) % Size = (w + Size - 1) - Size
          BY <5>1, <3>1, DivisionNear
        <5> QED
          BY <5>2, <3>1
      <4> QED
        BY <4>1, <4>2
    <3> QED
      BY <3>1, <3>2, <3>3
  <2> QED
    BY <1>5, <2>1 DEF FastWords, WordEffect
<1>6. CASE i.op = "addhl"
  <2>1. FastSumHl(Pair(s, "hl"), Pair(s, i.x), s.f.z) = SumHl(Pair(s, "hl"), Pair(s, i.x), s.f.z)
    BY <1>2, <1>3, <1>6, SumHlSame
  <2> QED
    BY <1>6, <2>1 DEF FastWords, WordEffect
<1>7. CASE i.op = "push"
  <2>1. s.r["a"] * ByteSize + FByte(s.f) \in Addr
    BY <1>2, FlagBytes, WordParts
  <2>2. i.x # "af" => Pair(s, i.x) \in Addr
    <3>1. i.x # "af" => i.x \in Pairs
      BY <1>7, Shapes DEF Pairs
    <3> QED
      BY <3>1, PairAddr
  <2>3. \A w \in Addr : FastPush(s, w) = Push(s, w)
    BY <1>7, StackFast DEF Pushes
  <2>4. CASE i.x = "af"
    BY <1>7, <2>1, <2>3, <2>4 DEF FastWords, WordEffect
  <2>5. CASE i.x # "af"
    BY <1>7, <2>2, <2>3, <2>5 DEF FastWords, WordEffect
  <2> QED
    BY <2>4, <2>5
<1>8. CASE i.op = "pop"
  <2>1. FastWord(s) = Read16(s, s.sp)
    BY <1>8, StackFast DEF Pops
  <2> QED
    BY <1>8, <2>1 DEF FastWords, WordEffect
<1> QED
  BY <1>1, <1>4, <1>5, <1>6, <1>7, <1>8 DEF WordOps

\* LDA and STA.
LEMMA FastAccumulatorSame ==
  ASSUME NEW s \in Machine, NEW i \in Instrs, Fast(s, i), i.op \in {"lda", "sta"}
  PROVE  FastEffect(s, i) = Effect(s, i)
<1> DEFINE a == Address(s, i)
<1>1. a \in Addr
  BY AddressAddr
<1>2. Direct(i)
  BY DEF Fast, Inlines
<1>3. i.y \in {"hl+", "hl-"} => a \in Wram
  <2>1. i.y \in {"hl+", "hl-"} => InWram(Pair(s, "hl")) /\ a = Pair(s, "hl")
    BY DEF Fast, OnFastPath, Address
  <2> QED
    BY <2>1, <1>1, ShiftedAddress
<1>4. a \in Wram \union Hram \union (IoPort \ {Io.joyp})
  <2>1. i.y = "nn" => a \in Wram \union Hram
    BY <1>2 DEF Direct, Address
  <2>2. i.y = "n" => a \in Hram \union (IoPort \ {Io.joyp})
    BY <1>2 DEF Direct, Address
  <2> QED
    BY <1>2, <1>3, <2>1, <2>2 DEF Direct
<1>5. i.op = "sta" => a \in Wram \union Hram /\ s.page[Page(a)] # 1
  <2> SUFFICES ASSUME i.op = "sta" PROVE a \in Wram \union Hram /\ s.page[Page(a)] # 1
    OBVIOUS
  <2>1. CASE i.y \in {"n", "nn"}
    <3>1. a \in Wram \union Hram
      BY <1>2, <2>1 DEF Direct, Address
    <3>2. Guarded(s, a)
      BY <2>1 DEF Fast, OnFastPath
    <3> QED
      BY <3>1, <3>2 DEF Guarded
  <2>2. CASE i.y \in {"hl+", "hl-"}
    <3>1. a = Pair(s, "hl")
      BY <2>2 DEF Address
    <3>2. s.page[Page(Pair(s, "hl"))] # 1
      BY <2>2 DEF Fast, Unmarked
    <3> QED
      BY <3>1, <3>2, <1>3, <2>2
  <2> QED
    BY <1>2, <2>1, <2>2 DEF Direct
<1> HIDE DEF a
<1>6. CASE i.op = "lda"
  <2>1. s.mem[a] = Read(s, a)
    BY <1>1, <1>4, CellRead
  <2> QED
    BY <1>6, <2>1 DEF FastEffect, Effect, a
<1>7. CASE i.op = "sta"
  <2>1. Put(s, a, s.r["a"]) = Write(s, a, s.r["a"])
    BY <1>1, <1>5, <1>7, CellWrite
  <2> QED
    BY <1>7, <2>1 DEF FastEffect, Effect, a
<1> QED
  BY <1>6, <1>7

\* Lengths, cycles and where the instruction goes.
LEMMA FastGoesSame ==
  ASSUME NEW s \in Machine, NEW i \in Instrs, Fast(s, i)
  PROVE  /\ FastNext(s, i) = After(s, i)
         /\ FastGoes(s, i) = Goes(s, i)
         /\ FastCycles(s, i) = Cycles(s, i)
         /\ i.op \in {"call", "ret"} => Taken(s, i)
<1>1. s.f \in Flags
  BY Parts
<1>2. i.op \in {"jr", "jp", "call", "ret"} => (FastTaken(s.f, i.x) <=> Taken(s, i))
  <2>1. i.op \in {"jr", "jp", "call", "ret"} => i.x \in Conditions
    BY Shapes
  <2>2. i.op \in {"jr", "jp", "call", "ret"} => (Taken(s, i) <=> Condition(s.f, i.x))
    BY DEF Taken
  <2> QED
    BY <1>1, <2>1, <2>2, TakenSame
<1>3. i.op \in {"call", "ret"} => Taken(s, i) /\ i.x = "always"
  <2>1. i.op \in {"call", "ret"} => i.x = "always"
    BY DEF Fast, Inlines
  <2> QED
    BY <2>1 DEF Taken, Condition
<1>4. FastLen(i) = Len(i)
  <2>1. i.op # "stsp" /\ i.op \notin {"addsp", "ldhlsp"}
    BY DEF Fast, Inlines
  <2> QED
    BY <2>1 DEF FastLen, Len
<1>5. FastNext(s, i) = After(s, i)
  BY <1>4 DEF FastNext, After
<1>6. FastGoes(s, i) = Goes(s, i)
  <2>1. CASE i.op = "ret"
    <3>1. FastWord(s) = Read16(s, s.sp)
      BY <2>1, StackFast DEF Pops
    <3> QED
      BY <1>3, <2>1, <3>1 DEF FastGoes, Goes
  <2>2. CASE i.op \in {"rst", "call"}
    BY <1>3, <2>2 DEF FastGoes, Goes
  <2>3. CASE i.op \in {"jp", "jr"}
    BY <1>2, <1>5, <2>3 DEF FastGoes, Goes
  <2>4. CASE i.op \notin {"ret", "rst", "call", "jp", "jr"}
    BY <1>5, <2>4 DEF FastGoes, Goes
  <2> QED
    BY <2>1, <2>2, <2>3, <2>4
<1>7. FastCycles(s, i) = Cycles(s, i)
  <2>1. CASE i.op \in {"jr", "jp"}
    BY <1>2, <2>1 DEF FastCycles, Cycles
  <2>2. CASE i.op \in {"call", "ret"}
    BY <1>3, <2>2 DEF FastCycles, Cycles
  <2>3. CASE i.op \in {"inc", "dec", "shift", "bit", "res", "set"}
    <3>1. i.x # "(hl)" /\ i.y # "(hl)"
      BY <2>3, Shapes DEF Fast, Inlines, Shifts
    <3> QED
      BY <2>3, <3>1 DEF FastCycles, Cycles
  <2>4. CASE i.op = "ld"
    BY <2>4, Shapes DEF FastCycles, Cycles, Place, Reg8
  <2>5. CASE i.op = "alu"
    BY <2>5, Shapes DEF FastCycles, Cycles, AluOps
  <2>6. CASE i.op \notin {"jr", "jp", "call", "ret", "inc", "dec", "shift", "bit", "res", "set",
                         "ld", "alu"}
    <3>1. i.op \notin {"daa", "stsp", "addsp", "ldhlsp", "ldsphl"}
      BY DEF Fast, Inlines
    <3> QED
      BY <2>6, <3>1 DEF FastCycles, Cycles
  <2> QED
    BY <2>1, <2>2, <2>3, <2>4, <2>5, <2>6
<1> QED
  BY <1>3, <1>5, <1>6, <1>7

\* An emitted instruction on its fast path is the instruction.
LEMMA FastSame ==
  ASSUME NEW s \in Machine, NEW i \in Instrs, Fast(s, i)
  PROVE  FastPath(s, i) = Exec(s, i)
<1>1. FastEffect(s, i) = Effect(s, i)
  <2>1. CASE i.op \in {"lda", "sta"}
    BY <2>1, FastAccumulatorSame
  <2>2. CASE i.op \in {"rst", "call"}
    <3>1. FastPush(s, After(s, i)) = Push(s, After(s, i))
      BY <2>2, GoesAddr, StackFast DEF Pushes
    <3>2. FastEffect(s, i) = FastPush(s, FastNext(s, i))
      BY <2>2 DEF FastEffect
    <3>3. Effect(s, i) = Push(s, After(s, i))
      BY <2>2, FastGoesSame DEF Effect
    <3> QED
      BY <3>1, <3>2, <3>3, FastGoesSame
  <2>3. CASE i.op = "ret"
    BY <2>3, FastGoesSame DEF FastEffect, Effect
  <2>4. CASE i.op \in ByteOps
    <3>1. FastByte(s, i) = ByteEffect(s, i) /\ i.op # "daa"
      BY <2>4, FastByteSame DEF Fast, Inlines
    <3> QED
      BY <2>4, <3>1 DEF FastEffect, Effect, ByteOps
  <2>5. CASE i.op \in WordOps
    <3>1. FastWords(s, i) = WordEffect(s, i)
      BY <2>5, FastWordsSame
    <3>2. i.op \notin {"stsp", "addsp", "ldhlsp", "ldsphl"}
      BY DEF Fast, Inlines
    <3> QED
      BY <2>5, <3>1, <3>2 DEF FastEffect, Effect, WordOps
  <2>6. CASE i.op \in {"nop", "jphl", "jr", "jp"}
    BY <2>6 DEF FastEffect, Effect
  <2> QED
    BY <2>1, <2>2, <2>3, <2>4, <2>5, <2>6, Shapes DEF ByteOps, WordOps
<1> QED
  BY <1>1, FastGoesSame DEF FastPath, Exec

-----------------------------------------------------------------------------
(* The specification.                                                      *)

\* What a step may assume and must keep: no access straddles the end of work
\* RAM and no unguarded store hits compiled code.
LEMMA StepExec ==
  ASSUME ~Straddling, ~Unguarded, TypeOK, Next
  PROVE  /\ m' = Exec(m, last') /\ m' \in Onward(m)
         /\ mix' = mix /\ last' \in Mixes[mix].ops /\ left' \in 0..Mixes[mix].steps
<1>1. m \in Machine /\ mix \in DOMAIN Mixes /\ left \in 0..Mixes[mix].steps
  BY DEF TypeOK
<1>2. Mixes[mix].steps \in Nat /\ Mixes[mix].ops \subseteq Instrs
  BY <1>1, MixAssumption
<1>3. ASSUME NEW i \in Mixes[mix].ops, left > 0, m' = Exec(m, i), Executed(i)
      PROVE  /\ m' = Exec(m, last') /\ m' \in Onward(m)
             /\ mix' = mix /\ last' \in Mixes[mix].ops /\ left' \in 0..Mixes[mix].steps
  <2>1. i \in Instrs
    BY <1>2
  <2>2. m' \in Onward(m)
    BY <1>1, <1>3, <2>1, ExecMachine
  <2>3. left' \in 0..Mixes[mix].steps
    BY <1>1, <1>2, <1>3 DEF Executed
  <2> QED
    BY <1>3, <2>2, <2>3 DEF Executed
<1>4. CASE InlinedOp
  <2>1. PICK i \in Mixes[mix].ops :
          /\ left > 0 /\ Inlines(i) /\ OnFastPath(m, i) /\ ~Straddles(m, i) /\ ~Unmarked(m, i)
          /\ m' = FastPath(m, i) /\ Executed(i)
    BY <1>4 DEF InlinedOp
  <2>2. i \in Instrs /\ Fast(m, i)
    BY <1>2, <2>1 DEF Fast
  <2>3. m' = Exec(m, i)
    BY <1>1, <2>1, <2>2, FastSame
  <2> QED
    BY <1>3, <2>1, <2>3
<1>5. CASE HelperOp
  BY <1>3, <1>5 DEF HelperOp
<1> QED
  BY <1>4, <1>5 DEF Next

\* Registers, flags, memory and the selected bank keep their ranges through
\* interpreted and inlined instructions (cpu_state, mmu and the structs the
\* emitted code writes to).
THEOREM InlineTypes == ASSUME ~Straddling, ~Unguarded PROVE Spec => []TypeOK
<1>1. Init => TypeOK
  <2>1. SUFFICES ASSUME Init PROVE TypeOK
    OBVIOUS
  <2>2. mix \in DOMAIN Mixes /\ Mixes[mix].steps \in Nat /\ Mixes[mix].starts \subseteq Machine
    BY <2>1, MixAssumption DEF Init
  <2> QED
    BY <2>1, <2>2 DEF Init, TypeOK
<1>2. TypeOK /\ [Next]_vars => TypeOK'
  <2>1. CASE TypeOK /\ Next
    <3>1. m' \in Machine /\ mix' = mix /\ last' \in Mixes[mix].ops
          /\ left' \in 0..Mixes[mix].steps
      BY <2>1, StepExec DEF Onward
    <3> QED
      BY <2>1, <3>1 DEF TypeOK
  <2>2. CASE TypeOK /\ UNCHANGED vars
    BY <2>2 DEF TypeOK, vars
  <2> QED
    BY <2>1, <2>2
<1> QED
  BY <1>1, <1>2, PTL DEF Spec

\* The code inline_op emits leaves the machine as sm83_step would, whatever the
\* operands, the widths and the bytes in memory.
THEOREM InlineExact == ASSUME ~Straddling, ~Unguarded PROVE Spec => SameAsInterpreter
<1>1. TypeOK /\ [Next]_vars => [m' = Exec(m, last')]_vars
  BY StepExec
<1> QED
  BY <1>1, InlineTypes, PTL DEF Spec, SameAsInterpreter

\* No instruction, inlined or interpreted, changes a byte code may have been
\* compiled from without raising the flag the dispatcher looks at.
THEOREM InlineFlagged == ASSUME ~Straddling, ~Unguarded PROVE Spec => CodeFlagged
<1>1. TypeOK /\ Next =>
        \A a \in CodeAddr : Read(m', a) # Read(m, a) => Flagged(m, m', a)
  BY StepExec DEF Onward, Marks
<1>2. TypeOK /\ [Next]_vars =>
        [\A a \in CodeAddr : Read(m', a) # Read(m, a) => Flagged(m, m', a)]_vars
  BY <1>1
<1> QED
  BY <1>2, InlineTypes, PTL DEF Spec, CodeFlagged

===============================================================================
