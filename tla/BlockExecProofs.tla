---------------------------- MODULE BlockExecProofs ----------------------------
(***************************************************************************)
(* Theorems about BlockExec, for every guest program, size of a block,     *)
(* number of re-entries and width of the registers.                        *)
(***************************************************************************)
EXTENDS BlockExec, Quotients, WellFoundedInduction, TLAPS

-----------------------------------------------------------------------------
(* Numbers *)

LEMMA MinIs ==
  ASSUME NEW S \in SUBSET Nat, S # {}
  PROVE  Min(S) \in S /\ \A y \in S : Min(S) <= y
<1>1. PICK i \in S : \A j \in S : << j, i >> \notin OpToRel(<, Nat)
  BY WFMin, NatLessThanWellFounded
<1>2. \A j \in S : ~(j < i)
  BY <1>1 DEF OpToRel
<1>3. \E x \in S : \A y \in S : x =< y
  BY <1>2
<1> QED
  BY <1>3 DEF Min

LEMMA MinOfTwo ==
  ASSUME NEW a \in Nat, NEW b \in Nat
  PROVE  Min({a, b}) = IF a <= b THEN a ELSE b
<1> DEFINE S == {a, b}
<1>1. Min(S) \in S /\ \A y \in S : Min(S) <= y
  BY MinIs
<1> QED
  BY <1>1

LEMMA MaxOfTwo ==
  ASSUME NEW a \in Nat, NEW b \in Nat
  PROVE  Max({a, b}) = IF a <= b THEN b ELSE a
<1> DEFINE S == {a, b}
<1>1. \E x \in S : \A y \in S : x >= y
  OBVIOUS
<1>2. Max(S) \in S /\ \A y \in S : Max(S) >= y
  BY <1>1 DEF Max
<1> QED
  BY <1>2

LEMMA Times ==
  ASSUME NEW n \in Nat, NEW a \in Nat, NEW b \in Nat, a <= b
  PROVE  /\ n * a \in Nat /\ n * a <= n * b
         /\ n * (a + 1) = n * a + n
<1>1. n * b = n * a + n * (b - a) /\ n * (b - a) >= 0
  OBVIOUS
<1> QED
  BY <1>1

-----------------------------------------------------------------------------
(* The compiler *)

\* A block ends with the first instruction that ends blocks, or when it is full.
LEMMA BlockLenIs ==
  ASSUME NEW pc
  PROVE  /\ BlockLen(pc) \in 1..MaxOps
         /\ BlockLen(pc) = MaxOps \/ EndsBlock(OpOf(pc, BlockLen(pc)))
         /\ \A k \in 1..(BlockLen(pc) - 1) : ~EndsBlock(OpOf(pc, k))
<1> DEFINE S == {k \in 1..MaxOps : k = MaxOps \/ EndsBlock(OpOf(pc, k))}
<1>1. MaxOps \in Nat \ {0}
  BY LimitsAssumption
<1>2. S \in SUBSET Nat /\ MaxOps \in S
  BY <1>1
<1>3. BlockLen(pc) = Min(S)
  BY DEF BlockLen
<1>4. BlockLen(pc) \in S /\ \A k \in S : BlockLen(pc) <= k
  BY <1>2, <1>3, MinIs
<1>5. \A k \in 1..(BlockLen(pc) - 1) : ~EndsBlock(OpOf(pc, k))
  <2> SUFFICES ASSUME NEW k \in 1..(BlockLen(pc) - 1), EndsBlock(OpOf(pc, k)) PROVE FALSE
    OBVIOUS
  <2>1. BlockLen(pc) \in 1..MaxOps
    BY <1>4
  <2>2. k \in 1..MaxOps /\ k < BlockLen(pc)
    BY <1>1, <2>1
  <2>3. k \in S
    BY <2>2
  <2> QED
    BY <1>4, <2>1, <2>2, <2>3
<1> QED
  BY <1>4, <1>5

\* The loop that is compiled to its result has two instructions.
LEMMA DecLoopLen ==
  ASSUME NEW pc, IsDecLoop(pc)
  PROVE  BlockLen(pc) = 2
<1> DEFINE n == BlockLen(pc)
<1>1. n \in 1..MaxOps /\ MaxOps \in Nat
  BY BlockLenIs, LimitsAssumption
<1>2. [k \in 1..n |-> OpOf(pc, k).op] = <<"dec", "jrnz">>
  BY DEF IsDecLoop, Shape
<1> HIDE DEF n
<1>3. 1..n = 1..2
  <2>1. DOMAIN [k \in 1..n |-> OpOf(pc, k).op] = 1..n
    OBVIOUS
  <2>2. DOMAIN <<"dec", "jrnz">> = 1..2
    OBVIOUS
  <2> QED
    BY <1>2, <2>1, <2>2
<1>4. n = 2
  BY <1>1, <1>3
<1> QED
  BY <1>4 DEF n

-----------------------------------------------------------------------------
(* Interrupts *)

\* The blocks entered since the loop last looked for an interrupt.
Begun ==
  CASE again.kind = "once" -> 1
    [] again.kind = "spin" -> 1 + SpinMax - again.left
    [] again.kind = "batch" -> 1 + build.batch - again.left

\* How the loop re-enters blocks, and how often it still may.
AgainOK ==
  /\ build \in [jit : BOOLEAN, batch : Nat]
  /\ again.kind \in {"once", "spin", "batch"} /\ again.left \in Nat
  /\ again.kind = "spin" => again.left <= SpinMax
  /\ again.kind = "batch" => again.left <= build.batch
  /\ again.kind = "once" => again.left = 0

\* An interrupt waits for at most one instruction for each that was executed in the
\* blocks begun since the last service.
Waited ==
  /\ phase \in {"top", "checked", "block", "after"}
  /\ blk.at \in 1..(MaxOps + 1)
  /\ late \in Nat /\ late <= LateMax
  /\ phase = "checked" => late = 0
  /\ phase = "block" => late <= MaxOps * (Begun - 1) + (blk.at - 1)
  /\ phase = "after" => late <= MaxOps * Begun

LEMMA BegunBounds ==
  ASSUME AgainOK
  PROVE  /\ Begun \in Nat \ {0} /\ Begun - 1 \in Nat /\ MaxOps \in Nat \ {0}
         /\ MaxOps * (Begun - 1) \in Nat /\ MaxOps * Begun \in Nat
         /\ MaxOps * (Begun - 1) + MaxOps = MaxOps * Begun
         /\ MaxOps * Begun <= LateMax /\ LateMax \in Nat
<1> DEFINE m == Max({SpinMax, build.batch})
           g == Begun
<1>1. /\ SpinMax \in Nat /\ MaxOps \in Nat \ {0} /\ build.batch \in Nat
      /\ again.kind \in {"once", "spin", "batch"} /\ again.left \in Nat
      /\ again.kind = "spin" => again.left <= SpinMax
      /\ again.kind = "batch" => again.left <= build.batch
  BY LimitsAssumption DEF AgainOK
<1>2. m \in Nat /\ SpinMax <= m /\ build.batch <= m
  BY <1>1, MaxOfTwo
<1>3. LateMax = MaxOps * (1 + m)
  BY DEF LateMax
<1> HIDE DEF m
<1>4. g \in Nat \ {0} /\ g <= 1 + m
  BY <1>1, <1>2 DEF Begun
<1> HIDE DEF g
<1>5. g - 1 \in Nat /\ g \in Nat /\ 1 + m \in Nat /\ (g - 1) + 1 = g
  BY <1>2, <1>4
<1>6. MaxOps * g \in Nat /\ MaxOps * g <= MaxOps * (1 + m)
  BY <1>1, <1>4, <1>5, Times
<1>7. MaxOps * (1 + m) \in Nat
  BY <1>1, <1>5, Times
<1>8. MaxOps * (g - 1) \in Nat /\ MaxOps * g = MaxOps * (g - 1) + MaxOps
  <2>1. MaxOps * ((g - 1) + 1) = MaxOps * (g - 1) + MaxOps /\ MaxOps * (g - 1) \in Nat
    BY <1>1, <1>5, Times
  <2> QED
    BY <1>5, <2>1
<1> QED
  BY <1>1, <1>3, <1>4, <1>5, <1>6, <1>7, <1>8 DEF g

\* One instruction of compiled code more.
LEMMA DelaysBy ==
  ASSUME Waited, AgainOK, Delays
  PROVE  late' \in Nat /\ late' <= late + 1
<1>1. late \in Nat /\ LateMax \in Nat
  BY BegunBounds DEF Waited
<1>2. late + 1 \in Nat /\ LateMax + 1 \in Nat
  BY <1>1
<1>3. late' = 0 \/ late' = Min({late + 1, LateMax + 1})
  BY DEF Delays
<1> QED
  BY <1>1, <1>2, <1>3, MinOfTwo

LEMMA InitWaited == Init => AgainOK /\ Waited
<1> SUFFICES ASSUME Init PROVE AgainOK /\ Waited
  OBVIOUS
<1>1. build \in [jit : BOOLEAN, batch : Nat]
  <2>1. Batches \subseteq Nat /\ {0} \subseteq Nat
    BY LimitsAssumption
  <2>2. /\ [jit : {TRUE}, batch : Batches] \subseteq [jit : BOOLEAN, batch : Nat]
        /\ [jit : {FALSE}, batch : {0}] \subseteq [jit : BOOLEAN, batch : Nat]
    BY <2>1
  <2> QED
    BY <2>2 DEF Init
<1>2. AgainOK
  BY <1>1 DEF Init, Once, AgainOK
<1>3. MaxOps \in Nat \ {0} /\ LateMax \in Nat
  BY <1>2, BegunBounds
<1>4. blk.at = 1 /\ phase = "top" /\ late = 0
  BY DEF Init, Entered
<1> QED
  BY <1>2, <1>3, <1>4 DEF Waited

\* Compiled code executes an instruction.
LEMMA InsideWaited ==
  ASSUME AgainOK, Waited, InBlock, blk'.at \in 1..(MaxOps + 1), blk'.at >= blk.at + 1,
         Delays, UNCHANGED <<build, phase, again>>
  PROVE  (AgainOK /\ Waited)'
<1> DEFINE n == MaxOps * (Begun - 1)
<1>1. late' \in Nat /\ late' <= late + 1
  BY DelaysBy
<1>2. /\ phase = "block" /\ phase' = "block" /\ late <= n + (blk.at - 1) /\ late \in Nat
      /\ blk.at \in Nat /\ blk.at <= MaxOps
  BY BlockLenIs, LimitsAssumption DEF InBlock, Waited
<1>3. AgainOK' /\ Begun' = Begun /\ LateMax' = LateMax
  BY DEF AgainOK, Begun, LateMax
<1>4. n \in Nat /\ n + MaxOps <= LateMax /\ LateMax \in Nat /\ MaxOps \in Nat
  BY BegunBounds
<1>5. MaxOps * (Begun' - 1) = n
  BY <1>3
<1> HIDE DEF n
<1>6. late' <= n + (blk'.at - 1) /\ late' <= LateMax
  BY <1>1, <1>2, <1>4
<1> QED
  BY <1>1, <1>2, <1>3, <1>5, <1>6 DEF Waited

LEMMA SameWaited ==
  ASSUME AgainOK, Waited, UNCHANGED <<build, again, phase, late>>, blk'.at = blk.at
  PROVE  (AgainOK /\ Waited)'
<1>1. AgainOK' /\ Begun' = Begun /\ LateMax' = LateMax
  BY DEF AgainOK, Begun, LateMax
<1> QED
  BY <1>1 DEF Waited

\* The loop, or a call from inside a block, has looked for an interrupt.
LEMMA ServedWaited ==
  ASSUME AgainOK, Waited, late' = 0, UNCHANGED <<build, again>>,
         phase' \in {"top", "checked", "block"}, blk'.at \in 1..(MaxOps + 1)
  PROVE  (AgainOK /\ Waited)'
<1>1. AgainOK' /\ Begun' = Begun /\ LateMax' = LateMax
  BY DEF AgainOK, Begun, LateMax
<1>2. MaxOps * (Begun - 1) \in Nat /\ LateMax \in Nat
  BY BegunBounds
<1> DEFINE n == MaxOps * (Begun - 1)
<1>3. MaxOps * (Begun' - 1) = n
  BY <1>1
<1> HIDE DEF n
<1>4. late' <= n + (blk'.at - 1) /\ late' <= LateMax
  BY <1>2 DEF n
<1> QED
  BY <1>1, <1>3, <1>4 DEF Waited

LEMMA WaitedStep == AgainOK /\ Waited /\ [Next]_vars => (AgainOK /\ Waited)'
<1> SUFFICES ASSUME AgainOK, Waited, [Next]_vars PROVE (AgainOK /\ Waited)'
  OBVIOUS
<1>1. MaxOps \in Nat \ {0} /\ blk.at \in 1..(MaxOps + 1)
  BY LimitsAssumption DEF Waited
<1>2. CASE UNCHANGED vars
  BY <1>2, SameWaited DEF vars
<1>3. CASE Raise
  BY <1>3, SameWaited DEF Raise
<1>4. CASE ServiceFirst
  BY <1>1, <1>4, ServedWaited DEF ServiceFirst, Serve
<1>5. CASE HaltLoop
  <2>1. UNCHANGED <<build, blk, again>> /\ phase' \in {"checked", "top"} /\ phase = "checked"
    BY <1>5 DEF HaltLoop
  <2>2. late' = 0
    BY <1>5, <2>1 DEF HaltLoop, Serve, Waited
  <2> QED
    BY <1>1, <2>1, <2>2, ServedWaited
<1>6. CASE InterpretOne
  BY <1>1, <1>6, ServedWaited DEF InterpretOne, CallStep, Serve
<1>7. CASE Enter
  <2>1. /\ phase = "checked" /\ phase' = "block" /\ blk'.at = 1 /\ again' = Once
        /\ UNCHANGED <<build, late>>
    BY <1>7 DEF Enter, Entered
  <2>2. AgainOK'
    BY <2>1 DEF AgainOK, Once
  <2>3. late' = 0
    BY <2>1 DEF Waited
  <2>4. MaxOps * (Begun - 1)' \in Nat /\ LateMax' \in Nat
    <3>1. Begun' = 1 /\ LateMax' = LateMax
      BY <2>1 DEF Begun, Once, LateMax
    <3>2. LateMax \in Nat
      BY BegunBounds
    <3> QED
      BY <1>1, <3>1, <3>2
  <2> DEFINE n == MaxOps * (Begun - 1)'
  <2> HIDE DEF n
  <2>5. late' <= n + (blk'.at - 1) /\ late' <= LateMax'
    BY <2>1, <2>3, <2>4 DEF n
  <2>6. Waited'
    BY <1>1, <2>1, <2>3, <2>4, <2>5 DEF Waited, n
  <2> QED
    BY <2>2, <2>6
<1>8. CASE DecLoop
  <2>1. InBlock /\ IsDecLoop(blk.start) /\ blk'.at = 3 /\ Delays /\ UNCHANGED <<build, phase, again>>
    BY <1>8 DEF DecLoop
  <2>2. BlockLen(blk.start) = 2 /\ BlockLen(blk.start) \in 1..MaxOps
    BY <2>1, BlockLenIs, DecLoopLen
  <2>3. blk'.at \in 1..(MaxOps + 1) /\ blk'.at >= blk.at + 1
    BY <1>1, <2>1, <2>2 DEF InBlock
  <2> QED
    BY <2>1, <2>3, InsideWaited
<1>9. CASE InlineOp
  <2>1. InBlock /\ blk'.at = blk.at + 1 /\ Delays /\ UNCHANGED <<build, phase, again>>
    BY <1>9 DEF InlineOp
  <2>2. blk'.at \in 1..(MaxOps + 1) /\ blk'.at >= blk.at + 1
    BY <1>1, <2>1, BlockLenIs DEF InBlock
  <2> QED
    BY <2>1, <2>2, InsideWaited
<1>10. CASE HelperOp
  <2>1. /\ InBlock /\ blk'.at = blk.at + 1 /\ late' = 0 /\ phase' = "block"
        /\ UNCHANGED <<build, again>>
    BY <1>10 DEF HelperOp, CallStep, Serve, Reloaded, InBlock
  <2>2. blk'.at \in 1..(MaxOps + 1)
    BY <1>1, <2>1, BlockLenIs DEF InBlock
  <2> QED
    BY <2>1, <2>2, ServedWaited
<1>11. CASE Epilogue
  <2>1. /\ phase = "block" /\ blk'.at = 1 /\ phase' = "after"
        /\ UNCHANGED <<build, again, late>>
    BY <1>11 DEF Epilogue
  <2>2. AgainOK' /\ Begun' = Begun /\ LateMax' = LateMax
    BY <2>1 DEF AgainOK, Begun, LateMax
  <2> DEFINE n == MaxOps * (Begun - 1)
             k == MaxOps * Begun
  <2>3. n \in Nat /\ k \in Nat /\ n + MaxOps = k
    BY BegunBounds
  <2>4. MaxOps * Begun' = k
    BY <2>2
  <2>5. late <= n + (blk.at - 1) /\ late \in Nat
    BY <2>1 DEF Waited
  <2> HIDE DEF n, k
  <2>6. late <= k
    BY <1>1, <2>3, <2>5
  <2> QED
    BY <1>1, <2>1, <2>2, <2>4, <2>6 DEF Waited
<1>12. CASE Reenter
  <2>1. /\ phase = "after" /\ phase' = "block" /\ blk'.at = 1 /\ Reentry.left > 0
        /\ again' = [Reentry EXCEPT !.left = Reentry.left - 1]
        /\ UNCHANGED <<build, late>>
    BY <1>12 DEF Reenter, Entered
  <2>2. SpinMax \in Nat /\ build.batch \in Nat
    BY LimitsAssumption DEF AgainOK
  <2>3. AgainOK' /\ (Begun - 1)' = Begun
    <3>1. CASE again.kind = "once"
      <4>1. \/ Reentry = [kind |-> "spin", left |-> SpinMax]
            \/ Reentry = [kind |-> "batch", left |-> build.batch]
        BY <3>1 DEF Reentry
      <4>2. \/ again'.kind = "spin" /\ again'.left = SpinMax - 1 /\ SpinMax > 0
            \/ again'.kind = "batch" /\ again'.left = build.batch - 1 /\ build.batch > 0
        BY <2>1, <4>1
      <4>3. AgainOK'
        BY <2>1, <2>2, <4>2 DEF AgainOK
      <4>4. Begun' = 2 /\ Begun = 1
        BY <2>1, <2>2, <3>1, <4>2 DEF Begun
      <4> QED
        BY <4>3, <4>4
    <3>2. CASE again.kind # "once"
      <4>1. Reentry = again
        BY <3>2 DEF Reentry
      <4>2. again'.kind = again.kind /\ again'.left = again.left - 1 /\ again.left > 0
        BY <2>1, <4>1
      <4>3. AgainOK'
        BY <2>1, <2>2, <4>2 DEF AgainOK
      <4>4. Begun' = Begun + 1
        BY <2>1, <2>2, <3>2, <4>2 DEF Begun, AgainOK
      <4> QED
        BY <4>3, <4>4, BegunBounds
    <3> QED
      BY <3>1, <3>2
  <2> DEFINE k == MaxOps * Begun
  <2>4. MaxOps * (Begun - 1)' = k /\ k \in Nat
    BY <2>3, BegunBounds
  <2>5. late <= k /\ late \in Nat /\ late <= LateMax /\ LateMax' = LateMax
    BY <2>1 DEF Waited, LateMax
  <2> HIDE DEF k
  <2>6. late' <= MaxOps * (Begun - 1)' + (blk'.at - 1)
    BY <2>1, <2>4, <2>5
  <2> QED
    BY <1>1, <2>1, <2>3, <2>5, <2>6 DEF Waited
<1>13. CASE Leave
  <2>1. phase' = "top" /\ again' = Once /\ UNCHANGED <<build, blk, late>>
    BY <1>13 DEF Leave
  <2>2. AgainOK' /\ LateMax' = LateMax
    BY <2>1 DEF AgainOK, Once, LateMax
  <2> QED
    BY <1>1, <2>1, <2>2 DEF Waited
<1>14. CASE RunInterpreter
  <2>1. late' = 0 /\ UNCHANGED <<build, again, phase, blk>>
    BY <1>14 DEF RunInterpreter, CallStep, Serve
  <2>2. CASE phase = "after"
    <3>1. AgainOK' /\ Begun' = Begun /\ LateMax' = LateMax
      BY <2>1 DEF AgainOK, Begun, LateMax
    <3>2. MaxOps * Begun \in Nat /\ LateMax \in Nat
      BY BegunBounds
    <3> QED
      BY <1>1, <2>1, <2>2, <3>1, <3>2 DEF Waited
  <2>3. CASE phase # "after"
    BY <1>1, <2>1, <2>3, ServedWaited DEF Waited
  <2> QED
    BY <2>2, <2>3
<1> QED
  BY <1>2, <1>3, <1>4, <1>5, <1>6, <1>7, <1>8, <1>9, <1>10, <1>11, <1>12, <1>13, <1>14 DEF Next

\* A requested and enabled interrupt waits for no more instructions than fit into the
\* blocks of one batch or spin (the loop of gbjit_dispatcher_run_until), for every guest,
\* also where a call of the interpreter changes the control inside a block.
THEOREM InterruptsServed == Spec => []BoundedLatency
<1>1. Init => AgainOK /\ Waited
  BY InitWaited
<1>2. AgainOK /\ Waited /\ [Next]_vars => (AgainOK /\ Waited)'
  BY WaitedStep
<1>3. AgainOK /\ Waited => BoundedLatency
  BY DEF Waited, BoundedLatency
<1> QED
  BY <1>1, <1>2, <1>3, PTL DEF Spec

-----------------------------------------------------------------------------
(* The processor *)

LEMMA AddrFacts ==
  /\ Size \in Nat \ {0} /\ Vector \in Addr /\ 0 \in Addr
  /\ \A pc \in Addr : pc \in Nat /\ After(pc) \in Addr
  /\ \A pc \in Addr : \A k \in Nat \ {0} : PcOf(pc, k) \in Addr
<1>1. Size \in Nat \ {0} /\ Vector \in Addr
  BY SizeAssumption
<1>2. \A n \in Nat : n % Size \in Addr
  BY <1>1, Division DEF Addr
<1>3. \A pc \in Addr : pc \in Nat
  BY <1>1 DEF Addr
<1>4. ASSUME NEW pc \in Addr PROVE After(pc) \in Addr
  <2>1. pc + 1 \in Nat
    BY <1>3
  <2> QED
    BY <1>2, <2>1 DEF After
<1>5. ASSUME NEW pc \in Addr, NEW k \in Nat \ {0} PROVE PcOf(pc, k) \in Addr
  <2>1. pc + k - 1 \in Nat
    BY <1>3
  <2> QED
    BY <1>2, <2>1 DEF PcOf
<1>6. 0 \in Addr
  BY <1>1 DEF Addr
<1> QED
  BY <1>1, <1>3, <1>4, <1>5, <1>6

LEMMA ByteFacts ==
  /\ ByteSize \in Nat \ {0} /\ 0 \in Byte
  /\ \A a \in Byte : a \in Nat /\ (a + 1) % ByteSize \in Byte
                     /\ (a + ByteSize - 1) % ByteSize \in Byte
<1>1. ByteSize \in Nat \ {0}
  BY SizeAssumption
<1>2. \A n \in Nat : n % ByteSize \in Byte
  BY <1>1, Division DEF Byte
<1>3. \A a \in Byte : a \in Nat /\ a + 1 \in Nat /\ a + ByteSize - 1 \in Nat
  BY <1>1 DEF Byte
<1> QED
  BY <1>1, <1>2, <1>3 DEF Byte

Clocks == 0..(Clock - 1)

LEMMA TickedTypes ==
  ASSUME NEW t \in Nat, NEW n \in Nat
  PROVE  Ticked(t, n) \in Clocks /\ Clocks \subseteq Nat
<1>1. Clock \in Nat \ {0} /\ t + n \in Nat
  BY SizeAssumption
<1> QED
  BY <1>1, Division DEF Ticked, Clocks

LEMMA CpuFacts ==
  ASSUME NEW s \in CpuState
  PROVE  /\ s.pc \in Addr /\ s.a \in Byte /\ s.z \in BOOLEAN /\ s.mem \in Byte
         /\ s.ime \in BOOLEAN /\ s.pend \in BOOLEAN /\ s.halted \in BOOLEAN
         /\ s.stopped \in BOOLEAN /\ s.stack \in Seq(Addr) /\ s.clock \in Clocks
         /\ s.clock \in Nat
<1>1. Clocks \subseteq Nat
  BY SizeAssumption DEF Clocks
<1> QED
  BY <1>1 DEF CpuState, Clocks

LEMMA InstrFacts ==
  ASSUME NEW p \in [Addr -> Instr], NEW pc \in Addr
  PROVE  p[pc] \in Instr /\ p[pc].op \in Ops /\ p[pc].to \in Addr /\ p[pc].n \in Byte
         /\ p[pc].slow \in BOOLEAN
  BY DEF Instr

\* s and d differ in the register, the flag and the byte only.
Kept(s, d) ==
  /\ d \in CpuState /\ d.pc = s.pc /\ d.stack = s.stack /\ d.clock = s.clock
  /\ d.ime = s.ime /\ d.pend = s.pend /\ d.halted = s.halted /\ d.stopped = s.stopped

LEMMA DataTypes ==
  ASSUME NEW s \in CpuState, NEW i \in Instr
  PROVE  Kept(s, Data(s, i))
<1> DEFINE up == (s.a + 1) % ByteSize
           down == (s.a + ByteSize - 1) % ByteSize
           more == (s.mem + 1) % ByteSize
           Flagged(t, v) == [t EXCEPT !.z = (v = 0)]
<1>1. /\ up \in Byte /\ down \in Byte /\ more \in Byte /\ i.n \in Byte
      /\ s.mem \in Byte /\ s.a \in Byte
  BY ByteFacts, CpuFacts DEF Instr
<1>2. \A v \in Byte : Kept(s, [s EXCEPT !.a = v]) /\ Kept(s, [s EXCEPT !.mem = v])
  BY DEF CpuState, Kept
<1>3. \A d, v : Kept(s, d) => Kept(s, Flagged(d, v))
  BY DEF CpuState, Kept
<1>4. Kept(s, s)
  BY DEF Kept
<1>5. Data(s, i) =
        CASE i.op = "ld"   -> [s EXCEPT !.a = i.n]
          [] i.op = "lda"  -> [s EXCEPT !.a = s.mem]
          [] i.op = "sta"  -> [s EXCEPT !.mem = s.a]
          [] i.op = "inc"  -> Flagged([s EXCEPT !.a = up], up)
          [] i.op = "dec"  -> Flagged([s EXCEPT !.a = down], down)
          [] i.op = "tst"  -> Flagged(s, s.a)
          [] i.op = "incm" -> Flagged([s EXCEPT !.mem = more], more)
          [] OTHER         -> s
  BY DEF Data
<1>6. /\ Kept(s, [s EXCEPT !.a = i.n]) /\ Kept(s, [s EXCEPT !.a = s.mem])
      /\ Kept(s, [s EXCEPT !.mem = s.a]) /\ Kept(s, Flagged([s EXCEPT !.a = up], up))
      /\ Kept(s, Flagged([s EXCEPT !.a = down], down)) /\ Kept(s, Flagged(s, s.a))
      /\ Kept(s, Flagged([s EXCEPT !.mem = more], more))
  <2> HIDE DEF up, down, more, Flagged
  <2> QED
    BY <1>1, <1>2, <1>3, <1>4
<1> DEFINE Ld == [s EXCEPT !.a = i.n]
           Lda == [s EXCEPT !.a = s.mem]
           Sta == [s EXCEPT !.mem = s.a]
           Inc == Flagged([s EXCEPT !.a = up], up)
           Dec == Flagged([s EXCEPT !.a = down], down)
           Tst == Flagged(s, s.a)
           Incm == Flagged([s EXCEPT !.mem = more], more)
<1>7. Data(s, i) \in {Ld, Lda, Sta, Inc, Dec, Tst, Incm, s}
  <2>1. Data(s, i) =
          CASE i.op = "ld"   -> Ld
            [] i.op = "lda"  -> Lda
            [] i.op = "sta"  -> Sta
            [] i.op = "inc"  -> Inc
            [] i.op = "dec"  -> Dec
            [] i.op = "tst"  -> Tst
            [] i.op = "incm" -> Incm
            [] OTHER         -> s
    BY <1>5
  <2> HIDE DEF Ld, Lda, Sta, Inc, Dec, Tst, Incm
  <2> QED
    BY <2>1
<1>8. Kept(s, Ld) /\ Kept(s, Lda) /\ Kept(s, Sta) /\ Kept(s, Inc) /\ Kept(s, Dec)
      /\ Kept(s, Tst) /\ Kept(s, Incm)
  BY <1>6
<1> HIDE DEF Ld, Lda, Sta, Inc, Dec, Tst, Incm
<1> QED
  BY <1>4, <1>7, <1>8

\* Two processors that agree in every register are the same.
LEMMA SameCpu ==
  ASSUME NEW s \in CpuState, NEW t \in CpuState,
         s.pc = t.pc, s.a = t.a, s.z = t.z, s.mem = t.mem, s.ime = t.ime, s.pend = t.pend,
         s.halted = t.halted, s.stopped = t.stopped, s.stack = t.stack, s.clock = t.clock
  PROVE  s = t
  BY DEF CpuState

\* Data reads the register and the byte, and nothing else but the flag it keeps.
LEMMA DataReads ==
  ASSUME NEW s \in CpuState, NEW t \in CpuState, NEW i,
         s.a = t.a, s.z = t.z, s.mem = t.mem
  PROVE  /\ Data(s, i).a = Data(t, i).a /\ Data(s, i).z = Data(t, i).z
         /\ Data(s, i).mem = Data(t, i).mem
  BY DEF Data, CpuState

LEMMA CyclesTypes ==
  ASSUME NEW i \in Instr, NEW t \in BOOLEAN
  PROVE  Cycles(i, t) \in 1..6 /\ (Inlined(i) => InlineCycles(i, t) = Cycles(i, t))
<1>1. i.op \in Ops /\ i.slow \in BOOLEAN
  BY DEF Instr
<1>2. Cycles(i, t) \in 1..6
  BY <1>1 DEF Ops, Jumps, Cycles
<1>3. ASSUME Inlined(i) PROVE InlineCycles(i, t) = Cycles(i, t)
  BY <1>1, <1>3 DEF Ops, Jumps, Cycles, InlineCycles, Inlined
<1> QED
  BY <1>2, <1>3

LEMMA FlowTypes ==
  ASSUME NEW s \in CpuState, NEW i \in Instr, i.op \in Returns => s.stack # << >>
  PROVE  Goes(s, i) \in Addr /\ Stacked(s, i) \in Seq(Addr) /\ Taken(s, i) \in BOOLEAN
<1>1. After(s.pc) \in Addr /\ s.stack \in Seq(Addr) /\ i.to \in Addr
  BY AddrFacts, CpuFacts DEF Instr
<1>2. s.stack # << >> => Head(s.stack) \in Addr /\ Tail(s.stack) \in Seq(Addr)
  BY <1>1
<1>3. <<After(s.pc)>> \o s.stack \in Seq(Addr)
  BY <1>1
<1>4. Goes(s, i) \in Addr
  BY <1>1, <1>2 DEF Goes, Returns
<1>5. Stacked(s, i) \in Seq(Addr)
  BY <1>1, <1>2, <1>3 DEF Stacked, Returns
<1>6. Taken(s, i) \in BOOLEAN
  BY DEF Taken
<1> QED
  BY <1>4, <1>5, <1>6

LEMMA PromotedTypes ==
  ASSUME NEW s \in CpuState, NEW b \in BOOLEAN
  PROVE  LET e == Promoted(s, b) IN
         /\ e \in CpuState /\ e.pc = s.pc /\ e.a = s.a /\ e.z = s.z /\ e.mem = s.mem
         /\ e.stack = s.stack /\ e.clock = s.clock /\ e.halted = s.halted
         /\ e.stopped = s.stopped /\ e.ime = (s.ime \/ b) /\ e.pend = (s.pend /\ ~b)
  BY DEF Promoted, CpuState

LEMMA ServiceTypes ==
  ASSUME NEW s \in CpuState, NEW b \in BOOLEAN
  PROVE  /\ Dispatched(s) \in CpuState /\ Woken(s, b) \in CpuState /\ Service(s, b) \in CpuState
         /\ Woken(s, FALSE) = s
         /\ \A t \in Clocks : [s EXCEPT !.clock = t] \in CpuState
<1>1. Vector \in Addr /\ Ticked(s.clock, 5) \in Clocks /\ s.clock \in Nat
  BY AddrFacts, CpuFacts, TickedTypes
<1>2. <<s.pc>> \o s.stack \in Seq(Addr)
  BY CpuFacts
<1>3. Dispatched(s) \in CpuState
  BY <1>1, <1>2 DEF Dispatched, CpuState, Clocks
<1>4. Woken(s, b) \in CpuState /\ Woken(s, FALSE) = s
  BY DEF Woken, CpuState
<1>5. \A t \in Clocks : [s EXCEPT !.clock = t] \in CpuState
  BY DEF CpuState, Clocks
<1> QED
  BY <1>3, <1>4, <1>5 DEF Service

\* What one instruction leaves in each register.
LEMMA ExecTypes ==
  ASSUME NEW p \in [Addr -> Instr], NEW s \in CpuState,
         p[s.pc].op \in Returns => s.stack # << >>
  PROVE  LET i == p[s.pc]
             d == Data(s, i)
             e == Exec(p, s) IN
         /\ e \in CpuState /\ e.pc = Goes(s, i) /\ e.stack = Stacked(s, i)
         /\ e.clock = Ticked(s.clock, Cycles(i, Taken(s, i)))
         /\ e.a = d.a /\ e.z = d.z /\ e.mem = d.mem
         /\ e.ime = (i.op = "reti" \/ (s.ime /\ i.op # "di") \/ s.pend)
         /\ e.pend = (i.op = "ei" /\ ~s.pend)
         /\ e.halted = (s.halted \/ i.op = "halt") /\ e.stopped = (s.stopped \/ i.op = "stop")
<1> DEFINE i == p[s.pc]
           d == Data(s, i)
           t == Ticked(s.clock, Cycles(i, Taken(s, i)))
           ime == i.op = "reti" \/ (s.ime /\ i.op # "di")
           pend == i.op = "ei" \/ (s.pend /\ i.op # "di")
           r == [d EXCEPT !.pc = Goes(s, i), !.stack = Stacked(s, i), !.clock = t,
                          !.ime = ime, !.pend = pend, !.halted = s.halted \/ i.op = "halt",
                          !.stopped = s.stopped \/ i.op = "stop"]
<1>1. s.pc \in Addr /\ i \in Instr /\ s.pend \in BOOLEAN /\ s.clock \in Nat
  BY CpuFacts, InstrFacts
<1>2. d \in CpuState /\ Goes(s, i) \in Addr /\ Stacked(s, i) \in Seq(Addr)
  BY <1>1, DataTypes, FlowTypes DEF Kept
<1>3. Cycles(i, Taken(s, i)) \in Nat
  BY <1>1, CyclesTypes, FlowTypes
<1>4. t \in Clocks
  BY <1>1, <1>3, TickedTypes
<1>5. ime \in BOOLEAN /\ pend \in BOOLEAN
  BY <1>1
<1>6. Exec(p, s) = Promoted(r, s.pend)
  BY DEF Exec
<1>7. /\ (s.halted \/ i.op = "halt") \in BOOLEAN /\ (s.stopped \/ i.op = "stop") \in BOOLEAN
  OBVIOUS
<1>8. (ime \/ s.pend) = (i.op = "reti" \/ (s.ime /\ i.op # "di") \/ s.pend)
  OBVIOUS
<1>9. (pend /\ ~s.pend) = (i.op = "ei" /\ ~s.pend)
  OBVIOUS
<1> DEFINE g == Goes(s, i)
           k == Stacked(s, i)
           h == (s.halted \/ i.op = "halt")
           o == (s.stopped \/ i.op = "stop")
<1>10. r = [d EXCEPT !.pc = g, !.stack = k, !.clock = t, !.ime = ime, !.pend = pend,
                     !.halted = h, !.stopped = o]
  OBVIOUS
<1>11. g \in Addr /\ k \in Seq(Addr) /\ h \in BOOLEAN /\ o \in BOOLEAN
  BY <1>2, <1>7
<1> HIDE DEF r, d, t, ime, pend, i, g, k, h, o
<1>12. /\ r \in CpuState /\ r.pc = g /\ r.stack = k /\ r.clock = t /\ r.a = d.a /\ r.z = d.z
       /\ r.mem = d.mem /\ r.ime = ime /\ r.pend = pend /\ r.halted = h /\ r.stopped = o
  BY <1>2, <1>4, <1>5, <1>10, <1>11 DEF CpuState, Clocks
<1>13. LET e == Exec(p, s) IN
       /\ e \in CpuState /\ e.pc = g /\ e.stack = k /\ e.clock = t /\ e.a = d.a /\ e.z = d.z
       /\ e.mem = d.mem /\ e.ime = (ime \/ s.pend) /\ e.pend = (pend /\ ~s.pend)
       /\ e.halted = h /\ e.stopped = o
  BY <1>1, <1>6, <1>12, PromotedTypes
<1> QED
  BY <1>8, <1>9, <1>13 DEF g, k, t, h, o, d, i

LEMMA StepTypes ==
  ASSUME NEW p \in [Addr -> Instr], NEW s \in CpuState, NEW b \in BOOLEAN,
         Executes(s, b) => (p[s.pc].op \in Returns => s.stack # << >>)
  PROVE  Step(p, s, b) \in CpuState
<1>1. /\ Service(s, b) \in CpuState /\ Woken(s, b) \in CpuState /\ s.pend \in BOOLEAN
      /\ s.clock \in Nat
  BY ServiceTypes, CpuFacts
<1>2. Ticked(s.clock, 1) \in Clocks
  BY <1>1, TickedTypes
<1>3. [s EXCEPT !.clock = Ticked(s.clock, 1)] \in CpuState
  BY <1>2, ServiceTypes
<1>4. CASE b /\ s.ime
  BY <1>1, <1>4, PromotedTypes DEF Step
<1>5. CASE Executes(s, b)
  <2>1. Service(s, b) = Woken(s, b) /\ Woken(s, b).pc = s.pc /\ Woken(s, b).stack = s.stack
    BY <1>5 DEF Executes, Service, Woken, CpuState
  <2>2. Exec(p, Woken(s, b)) \in CpuState
    BY <1>1, <1>5, <2>1, ExecTypes
  <2>3. Step(p, s, b) = Exec(p, Woken(s, b))
    BY <1>5, <2>1 DEF Step, Executes
  <2> QED
    BY <2>2, <2>3
<1>6. CASE ~(b /\ s.ime) /\ ~Executes(s, b)
  BY <1>1, <1>3, <1>6, PromotedTypes DEF Step
<1> QED
  BY <1>4, <1>5, <1>6

-----------------------------------------------------------------------------
(* The registers of compiled code *)

\* The program is never written.
LEMMA SameCode ==
  ASSUME code' = code
  PROVE  \A pc : /\ (BlockLen(pc))' = BlockLen(pc) /\ (IsDecLoop(pc))' = IsDecLoop(pc)
                 /\ (IsPollLoop(pc))' = IsPollLoop(pc) /\ (SelfLoop(pc))' = SelfLoop(pc)
                 /\ \A k : (OpOf(pc, k))' = OpOf(pc, k)
<1>1. \A pc : (BlockLen(pc))' = BlockLen(pc)
  BY DEF BlockLen, OpOf
<1>2. \A pc : (IsDecLoop(pc))' = IsDecLoop(pc)
  BY <1>1 DEF IsDecLoop, Shape, LoopsBack, OpOf
<1>3. \A pc : (IsPollLoop(pc))' = IsPollLoop(pc)
  BY <1>1 DEF IsPollLoop, Shape, LoopsBack, OpOf
<1>4. \A pc : (SelfLoop(pc))' = SelfLoop(pc)
  BY <1>1 DEF SelfLoop, LoopsBack, OpOf
<1>5. \A pc : \A k : (OpOf(pc, k))' = OpOf(pc, k)
  BY DEF OpOf
<1> QED
  BY <1>1, <1>2, <1>3, <1>4, <1>5

BlkState == [start : Addr, at : 1..(MaxOps + 1), depth : Nat, a11 : Addr, a12 : Nat]

\* a12 holds at most what the instructions before blk.at can cost, or the whole loop.
CyclesOK ==
  IF IsDecLoop(blk.start)
  THEN (blk.at = 1 /\ blk.a12 = 0) \/ (blk.at = 3 /\ blk.a12 <= 4 * ByteSize - 1)
  ELSE blk.a12 <= 6 * (blk.at - 1)

Typed ==
  /\ code \in Programs /\ cpu \in CpuState
  /\ irq \in BOOLEAN /\ parked \in BOOLEAN /\ stale \in BOOLEAN
  /\ blk \in BlkState /\ CyclesOK

\* The block goes on with instruction n, at pc and after c cycles.
Moved(b, n, pc, c) == [b EXCEPT !.at = n, !.a11 = pc, !.a12 = c]

LEMMA BlkTypes ==
  ASSUME NEW b \in BlkState, NEW n \in 1..(MaxOps + 1), NEW pc \in Addr, NEW c \in Nat
  PROVE  LET u == Moved(b, n, pc, c) IN
         /\ u \in BlkState /\ u.start = b.start /\ u.at = n /\ u.a11 = pc /\ u.a12 = c
         /\ u.depth = b.depth
<1> DEFINE ats == 1..(MaxOps + 1)
<1>1. BlkState = [start : Addr, at : ats, depth : Nat, a11 : Addr, a12 : Nat] /\ n \in ats
  BY DEF BlkState
<1> HIDE DEF ats
<1> QED
  BY <1>1 DEF Moved

LEMMA EnteredTypes ==
  ASSUME NEW pc \in Addr, cpu \in CpuState
  PROVE  /\ Entered(pc) \in BlkState /\ Entered(pc).at = 1 /\ Entered(pc).a12 = 0
         /\ Entered(pc).start = pc /\ Entered(pc).a11 = pc
<1>1. Len(cpu.stack) \in Nat /\ MaxOps \in Nat \ {0}
  BY CpuFacts, LimitsAssumption
<1> QED
  BY <1>1 DEF Entered, BlkState

\* A block begins.
LEMMA BegunTyped ==
  ASSUME blk \in BlkState, blk.at = 1, blk.a12 = 0
  PROVE  CyclesOK
  BY DEF CyclesOK

LEMMA SyncedTypes ==
  ASSUME Typed
  PROVE  /\ Synced \in CpuState /\ Synced.pc = blk.a11 /\ Synced.a = cpu.a /\ Synced.z = cpu.z
         /\ Synced.mem = cpu.mem /\ Synced.ime = cpu.ime /\ Synced.pend = cpu.pend
         /\ Synced.halted = cpu.halted /\ Synced.stopped = cpu.stopped
         /\ Synced.stack = cpu.stack /\ Synced.clock = Ticked(cpu.clock, blk.a12)
<1>1. cpu \in CpuState /\ blk.a11 \in Addr /\ blk.a12 \in Nat /\ cpu.clock \in Nat
  BY CpuFacts DEF Typed, BlkState
<1>2. Ticked(cpu.clock, blk.a12) \in Clocks
  BY <1>1, TickedTypes
<1> QED
  BY <1>1, <1>2 DEF Synced, CpuState, Clocks

LEMMA OpTypes ==
  ASSUME Typed
  PROVE  /\ code \in [Addr -> Instr]
         /\ \A pc \in Addr : \A k \in Nat \ {0} : OpOf(pc, k) \in Instr
         /\ Current \in Instr /\ PcOf(blk.start, blk.at) \in Addr
<1>1. code \in [Addr -> Instr]
  BY ProgramsAssumption DEF Typed
<1>2. ASSUME NEW pc \in Addr, NEW k \in Nat \ {0} PROVE OpOf(pc, k) \in Instr
  BY <1>1, <1>2, AddrFacts DEF OpOf
<1>3. blk.start \in Addr /\ blk.at \in Nat \ {0}
  BY LimitsAssumption DEF Typed, BlkState
<1> QED
  BY <1>1, <1>2, <1>3, AddrFacts DEF Current

LEMMA SameBlockTyped ==
  ASSUME Typed, UNCHANGED <<code, blk>>, cpu' \in CpuState, irq' \in BOOLEAN,
         parked' \in BOOLEAN, stale' \in BOOLEAN
  PROVE  Typed'
<1>1. CyclesOK'
  BY SameCode DEF Typed, CyclesOK
<1> QED
  BY <1>1 DEF Typed

LEMMA NewBlockTyped ==
  ASSUME Typed, UNCHANGED <<code, cpu, irq, parked, stale>>, blk' = Entered(cpu.pc)
  PROVE  Typed'
<1>1. cpu.pc \in Addr
  BY CpuFacts DEF Typed
<1>2. blk' \in BlkState /\ blk'.at = 1 /\ blk'.a12 = 0
  BY <1>1, EnteredTypes DEF Typed
<1>3. CyclesOK'
  BY <1>2 DEF CyclesOK
<1> QED
  BY <1>2, <1>3 DEF Typed

LEMMA ServeTypes ==
  ASSUME Typed, NEW c, Serve(c)
  PROVE  irq' \in BOOLEAN /\ parked' \in BOOLEAN
  BY DEF Serve, Typed

LEMMA CallTyped ==
  ASSUME Typed, NEW c \in CpuState, CallStep(c),
         code[c.pc].op \in Returns => c.stack # << >>
  PROVE  cpu' \in CpuState /\ irq' \in BOOLEAN /\ parked' \in BOOLEAN /\ stale' \in BOOLEAN
<1>1. cpu' = Step(code, c, irq) /\ Serve(c) /\ stale' \in BOOLEAN
  BY DEF CallStep
<1>2. cpu' \in CpuState
  BY <1>1, OpTypes, StepTypes DEF Typed
<1> QED
  BY <1>1, <1>2, ServeTypes

LEMMA InitTyped == Init => Typed
<1> SUFFICES ASSUME Init PROVE Typed
  OBVIOUS
<1>1. 0 \in Addr /\ 0 \in Byte /\ 0 \in 0..(Clock - 1)
  BY AddrFacts, ByteFacts, SizeAssumption
<1>2. cpu \in CpuState
  BY <1>1 DEF Init, Reset, CpuState
<1>3. blk \in BlkState /\ blk.at = 1 /\ blk.a12 = 0
  BY <1>1, <1>2, EnteredTypes DEF Init, Reset
<1>4. CyclesOK
  BY <1>3, BegunTyped
<1> QED
  BY <1>2, <1>3, <1>4 DEF Init, Typed

LEMMA InlineTyped ==
  ASSUME Typed, Balanced, InlineOp
  PROVE  Typed'
<1> DEFINE i == Current
           here == [cpu EXCEPT !.pc = PcOf(blk.start, blk.at)]
           taken == Taken(cpu, i)
           parks == IsPollLoop(blk.start) /\ i.op = "jrz" /\ taken
           stack == Stacked(here, i)
           halted == cpu.halted \/ i.op = "halt" \/ parks
           pc == IF Terminates(i) /\ i.op # "halt" THEN Goes(here, i) ELSE After(blk.a11)
           n == InlineCycles(i, taken)
<1>1. /\ InBlock /\ ~IsDecLoop(blk.start) /\ Inlined(i)
      /\ cpu' = [Data(cpu, i) EXCEPT !.stack = stack, !.halted = halted]
      /\ blk' = [blk EXCEPT !.at = blk.at + 1, !.a11 = pc, !.a12 = blk.a12 + n]
      /\ parked' = (parked \/ parks) /\ UNCHANGED <<code, irq, stale>>
  BY DEF InlineOp
<1>2. i \in Instr /\ PcOf(blk.start, blk.at) \in Addr
  BY OpTypes
<1>3. cpu \in CpuState /\ here \in CpuState /\ here.stack = cpu.stack
  BY <1>2 DEF Typed, CpuState
<1>4. i.op \in Returns => here.stack # << >>
  BY <1>1, <1>3 DEF Balanced, AtReturn
<1>5. stack \in Seq(Addr) /\ Goes(here, i) \in Addr /\ taken \in BOOLEAN
  BY <1>2, <1>3, <1>4, FlowTypes DEF Taken
<1>6. pc \in Addr
  BY <1>5, AddrFacts DEF Typed, BlkState
<1>7. n \in 1..6
  BY <1>1, <1>2, <1>5, CyclesTypes
<1>8. Data(cpu, i) \in CpuState
  BY <1>2, <1>3, DataTypes DEF Kept
<1>9. halted \in BOOLEAN /\ (parked \/ parks) \in BOOLEAN
  <2>1. cpu.halted \in BOOLEAN
    BY <1>3, CpuFacts
  <2> QED
    OBVIOUS
<1>10. /\ blk \in BlkState /\ blk.at + 1 \in 1..(MaxOps + 1) /\ blk.at \in Nat
       /\ blk.a12 \in Nat /\ blk.a12 <= 6 * (blk.at - 1)
  BY <1>1, BlockLenIs, LimitsAssumption DEF Typed, BlkState, InBlock, CyclesOK
<1>11. parked' \in BOOLEAN /\ irq' \in BOOLEAN /\ stale' \in BOOLEAN /\ code' \in Programs
  BY <1>1, <1>9 DEF Typed
<1> HIDE DEF stack, halted, pc, n, i
<1>12. cpu' \in CpuState
  BY <1>1, <1>5, <1>8, <1>9 DEF CpuState
<1>13. /\ blk' \in BlkState /\ blk'.start = blk.start /\ blk'.at = blk.at + 1
       /\ blk'.a12 = blk.a12 + n
  <2>1. blk.a12 + n \in Nat
    BY <1>7, <1>10
  <2>2. blk' = Moved(blk, blk.at + 1, pc, blk.a12 + n)
    BY <1>1 DEF Moved
  <2> QED
    BY <1>6, <1>10, <2>1, <2>2, BlkTypes
<1>14. ~IsDecLoop(blk.start)'
  BY <1>1, <1>13, SameCode
<1>15. blk'.a12 <= 6 * (blk'.at - 1)
  BY <1>7, <1>10, <1>13
<1> QED
  BY <1>11, <1>12, <1>13, <1>14, <1>15 DEF Typed, CyclesOK

LEMMA DecTyped ==
  ASSUME Typed, DecLoop
  PROVE  Typed'
<1> DEFINE n == DecLoopCycles(cpu.a)
<1>1. /\ IsDecLoop(blk.start) /\ InBlock
      /\ cpu' = [cpu EXCEPT !.a = 0, !.z = TRUE]
      /\ blk' = [blk EXCEPT !.at = 3, !.a11 = After(After(blk.a11)), !.a12 = blk.a12 + n]
      /\ UNCHANGED <<code, irq, parked, stale>>
  BY DEF DecLoop
<1>2. BlockLen(blk.start) = 2 /\ MaxOps \in Nat /\ 2 <= MaxOps
  BY <1>1, DecLoopLen, BlockLenIs, LimitsAssumption
<1>3. blk \in BlkState /\ blk.at = 1 /\ blk.a12 = 0
  BY <1>1, <1>2 DEF Typed, CyclesOK, InBlock
<1>4. n \in Nat /\ n <= 4 * ByteSize - 1
  <2>1. cpu.a \in Nat /\ cpu.a < ByteSize /\ ByteSize \in Nat
    BY ByteFacts, CpuFacts DEF Typed, Byte
  <2> QED
    BY <2>1 DEF DecLoopCycles
<1>5. cpu' \in CpuState
  BY <1>1, ByteFacts DEF Typed, CpuState
<1>6. After(After(blk.a11)) \in Addr
  BY <1>3, AddrFacts DEF BlkState
<1> HIDE DEF n
<1>7. blk' \in BlkState /\ blk'.start = blk.start /\ blk'.at = 3 /\ blk'.a12 = n
  <2>1. 3 \in 1..(MaxOps + 1) /\ blk.a12 + n \in Nat /\ blk.a12 + n = n
    BY <1>2, <1>3, <1>4
  <2>2. blk' = Moved(blk, 3, After(After(blk.a11)), blk.a12 + n)
    BY <1>1 DEF Moved
  <2> QED
    BY <1>3, <1>6, <2>1, <2>2, BlkTypes
<1>8. IsDecLoop(blk.start)'
  BY <1>1, <1>7, SameCode
<1> QED
  BY <1>1, <1>4, <1>5, <1>7, <1>8 DEF Typed, CyclesOK

LEMMA HelperTyped ==
  ASSUME Typed, Balanced, HelperOp
  PROVE  Typed'
<1>1. /\ InBlock /\ ~IsDecLoop(blk.start) /\ CallStep(Synced) /\ code' = code
      /\ blk' = [blk EXCEPT !.at = blk.at + 1, !.a11 = cpu'.pc, !.a12 = 0]
  BY DEF HelperOp, Reloaded
<1>2. Synced \in CpuState /\ Synced.pc = blk.a11 /\ Synced.stack = cpu.stack
  BY SyncedTypes
<1>3. code[blk.a11].op \in Returns => cpu.stack # << >>
  BY <1>1 DEF Balanced, AtReturn, GuestPc, InBlock
<1>4. cpu' \in CpuState /\ irq' \in BOOLEAN /\ parked' \in BOOLEAN /\ stale' \in BOOLEAN
  BY <1>1, <1>2, <1>3, CallTyped
<1>5. cpu'.pc \in Addr
  BY <1>4 DEF CpuState
<1>6. blk \in BlkState /\ blk.at + 1 \in 1..(MaxOps + 1) /\ blk.at \in Nat
  BY <1>1, BlockLenIs, LimitsAssumption DEF Typed, BlkState, InBlock
<1>7. /\ blk' \in BlkState /\ blk'.start = blk.start /\ blk'.at = blk.at + 1
      /\ blk'.a12 = 0
  BY <1>1, <1>5, <1>6 DEF BlkState
<1>8. ~IsDecLoop(blk.start)'
  BY <1>1, <1>7, SameCode
<1>9. blk'.a12 <= 6 * (blk'.at - 1)
  BY <1>6, <1>7
<1> QED
  BY <1>1, <1>4, <1>7, <1>8, <1>9 DEF Typed, CyclesOK

\* Without the compiler the run loop stays where it is.
Interpreted == build.jit \/ phase = "top"

LEMMA InterpretedStep == Interpreted /\ [Next]_vars => Interpreted'
  BY DEF Interpreted, Next, vars, Raise, ServiceFirst, HaltLoop, InterpretOne, Enter, DecLoop,
         InlineOp, HelperOp, Epilogue, Reenter, Leave, RunInterpreter, InBlock

LEMMA TypedStep == Typed /\ Interpreted /\ Balanced /\ [Next]_vars => Typed'
<1> SUFFICES ASSUME Typed, Interpreted, Balanced, [Next]_vars PROVE Typed'
  OBVIOUS
<1>1. /\ cpu \in CpuState /\ irq \in BOOLEAN /\ parked \in BOOLEAN /\ stale \in BOOLEAN
      /\ cpu.clock \in Nat /\ HaltStep \in Nat
  BY CpuFacts, LimitsAssumption DEF Typed
<1>2. CASE UNCHANGED vars
  BY <1>1, <1>2, SameBlockTyped DEF vars
<1>3. CASE Raise
  BY <1>1, <1>3, SameBlockTyped DEF Raise
<1>4. CASE ServiceFirst
  <2>1. cpu' = Service(cpu, irq) /\ Serve(cpu) /\ stale' = FALSE /\ UNCHANGED <<code, blk>>
    BY <1>4 DEF ServiceFirst
  <2> QED
    BY <1>1, <2>1, ServiceTypes, ServeTypes, SameBlockTyped
<1>5. CASE HaltLoop
  <2> DEFINE c == [cpu EXCEPT !.clock = Ticked(cpu.clock, HaltStep)]
  <2>1. /\ cpu' = Service(c, irq) /\ UNCHANGED <<code, blk>>
        /\ (Serve(c) /\ stale' = FALSE) \/ UNCHANGED <<irq, parked, stale>>
    BY <1>5 DEF HaltLoop
  <2>2. c \in CpuState
    BY <1>1, TickedTypes, ServiceTypes
  <2> HIDE DEF c
  <2>3. cpu' \in CpuState
    BY <1>1, <2>1, <2>2, ServiceTypes
  <2> QED
    BY <1>1, <2>1, <2>3, ServeTypes, SameBlockTyped
<1>6. CASE InterpretOne
  <2>1. CallStep(cpu) /\ UNCHANGED <<code, blk>> /\ phase = "checked"
    BY <1>6 DEF InterpretOne
  <2>2. code[cpu.pc].op \in Returns => cpu.stack # << >>
    BY <2>1 DEF Balanced, AtReturn, GuestPc
  <2> QED
    BY <1>1, <2>1, <2>2, CallTyped, SameBlockTyped
<1>7. CASE Enter
  BY <1>7, NewBlockTyped DEF Enter
<1>8. CASE DecLoop
  BY <1>8, DecTyped
<1>9. CASE InlineOp
  BY <1>9, InlineTyped
<1>10. CASE HelperOp
  BY <1>10, HelperTyped
<1>11. CASE Epilogue
  <2>1. /\ cpu' = Synced /\ blk' = [blk EXCEPT !.at = 1, !.a11 = blk.start, !.a12 = 0]
        /\ UNCHANGED <<code, irq, parked, stale>>
    BY <1>11 DEF Epilogue
  <2>2. blk \in BlkState /\ 1 \in 1..(MaxOps + 1)
    BY LimitsAssumption DEF Typed
  <2>3. blk' \in BlkState /\ blk'.at = 1 /\ blk'.a12 = 0
    BY <2>1, <2>2 DEF BlkState
  <2>4. CyclesOK'
    BY <2>3 DEF CyclesOK
  <2> QED
    BY <1>1, <2>1, <2>3, <2>4, SyncedTypes DEF Typed
<1>12. CASE Reenter
  BY <1>12, NewBlockTyped DEF Reenter
<1>13. CASE Leave
  BY <1>1, <1>13, SameBlockTyped DEF Leave
<1>14. CASE RunInterpreter
  <2>1. CallStep(cpu) /\ UNCHANGED <<code, blk>> /\ phase # "block"
    BY <1>14 DEF RunInterpreter, Interpreted
  <2>2. code[cpu.pc].op \in Returns => cpu.stack # << >>
    BY <2>1 DEF Balanced, AtReturn, GuestPc
  <2> QED
    BY <1>1, <2>1, <2>2, CallTyped, SameBlockTyped
<1> QED
  BY <1>2, <1>3, <1>4, <1>5, <1>6, <1>7, <1>8, <1>9, <1>10, <1>11, <1>12, <1>13, <1>14 DEF Next

LEMMA TypedIsTypeOK == Typed /\ AgainOK /\ Waited /\ Balanced => TypeOK
<1> SUFFICES ASSUME Typed, AgainOK, Waited, Balanced PROVE TypeOK
  OBVIOUS
<1>1. late \in 0..(LateMax + 1)
  <2>1. LateMax \in Nat
    BY BegunBounds
  <2> QED
    BY <2>1 DEF Waited
<1>2. blk.a12 \in 0..Max({6 * MaxOps, 4 * ByteSize - 1})
  <2> DEFINE m == 6 * MaxOps
             n == 4 * ByteSize - 1
             k == Max({m, n})
  <2>1. m \in Nat /\ n \in Nat
    BY LimitsAssumption, SizeAssumption
  <2>2. k \in Nat /\ m <= k /\ n <= k
    <3> HIDE DEF m, n
    <3> QED
      BY <2>1, MaxOfTwo
  <2>3. blk.a12 \in Nat /\ blk.at \in 1..(MaxOps + 1) /\ MaxOps \in Nat
    BY LimitsAssumption DEF Typed, BlkState
  <2>4. blk.a12 <= m \/ blk.a12 <= n
    BY <2>3 DEF Typed, CyclesOK
  <2> HIDE DEF k
  <2>5. blk.a12 <= k
    <3> HIDE DEF m, n
    <3> QED
      BY <2>1, <2>2, <2>3, <2>4
  <2>6. blk.a12 \in 0..k
    BY <2>2, <2>3, <2>5
  <2> QED
    BY <2>6 DEF k
<1>3. again.left \in 0..Max({SpinMax, build.batch})
  <2> DEFINE k == Max({SpinMax, build.batch})
  <2>1. SpinMax \in Nat /\ build.batch \in Nat
    BY LimitsAssumption DEF AgainOK
  <2>2. k \in Nat /\ SpinMax <= k /\ build.batch <= k
    BY <2>1, MaxOfTwo
  <2> HIDE DEF k
  <2>3. again.left \in 0..k
    BY <2>1, <2>2 DEF AgainOK
  <2> QED
    BY <2>3 DEF k
<1> QED
  BY <1>1, <1>2, <1>3 DEF TypeOK, Typed, AgainOK, Waited, Balanced, BlkState

\* For guests that return only from what was called: every register of the processor and of
\* compiled code keeps its range, wherever a call of sm83_step leaves a block (a12 of
\* codegen.c is at most what a block costs, or the loop compiled to its result).
THEOREM BlockTypes == Spec /\ []Balanced => []TypeOK
<1> DEFINE I == Typed /\ Interpreted /\ AgainOK /\ Waited
<1>1. Init => I
  BY InitTyped, InitWaited DEF Init, Interpreted
<1>2. I /\ Balanced /\ [Next]_vars => I'
  BY TypedStep, InterpretedStep, WaitedStep
<1>3. I /\ Balanced => TypeOK
  BY TypedIsTypeOK
<1> QED
  BY <1>1, <1>2, <1>3, PTL DEF Spec

-----------------------------------------------------------------------------
(* Where compiled code is *)

LEMMA RemainderOfSum ==
  ASSUME NEW m \in Nat, NEW n \in Nat, NEW d \in Nat \ {0}
  PROVE  ((m % d) + n) % d = (m + n) % d
<1> DEFINE q == m \div d
           r == m % d
           p == (r + n) \div d
           s == (r + n) % d
<1>1. q \in Nat /\ r \in 0..(d - 1) /\ m = d * q + r
  BY Division
<1>2. r + n \in Nat
  BY <1>1
<1>3. p \in Nat /\ s \in 0..(d - 1) /\ r + n = d * p + s
  BY <1>2, Division
<1> HIDE DEF q, r, p, s
<1>4. d * (q + p) = d * q + d * p /\ q + p \in Int
  BY <1>1, <1>3
<1>5. m + n = d * (q + p) + s
  BY <1>1, <1>3, <1>4
<1>6. m + n \in Nat
  OBVIOUS
<1>7. (m + n) % d = s
  BY <1>3, <1>4, <1>5, <1>6, DivisionIs
<1> QED
  BY <1>7 DEF s, r

LEMMA TickedTwice ==
  ASSUME NEW t \in Nat, NEW m \in Nat, NEW n \in Nat
  PROVE  Ticked(Ticked(t, m), n) = Ticked(t, m + n)
<1>1. Clock \in Nat \ {0} /\ t + m \in Nat
  BY SizeAssumption
<1>2. (((t + m) % Clock) + n) % Clock = ((t + m) + n) % Clock
  BY <1>1, RemainderOfSum
<1>3. (t + m) + n = t + (m + n)
  OBVIOUS
<1> QED
  BY <1>2, <1>3 DEF Ticked

LEMMA TickedNone ==
  ASSUME NEW t \in Clocks
  PROVE  Ticked(t, 0) = t
<1>1. Clock \in Nat \ {0} /\ t \in 0..(Clock - 1) /\ t + 0 = t
  BY SizeAssumption DEF Clocks
<1> QED
  BY <1>1, DivisionSmall DEF Ticked

LEMMA NextPc ==
  ASSUME NEW pc \in Addr
  PROVE  /\ PcOf(pc, 1) = pc
         /\ \A k \in Nat \ {0} : After(PcOf(pc, k)) = PcOf(pc, k + 1)
         /\ \A k \in 1..MaxOps : PcOf(pc, k + 1) # pc
<1>1. Size \in Nat \ {0} /\ pc \in Nat /\ pc < Size /\ MaxOps \in Nat /\ MaxOps < Size
  BY AddrFacts, ReferenceAssumption, LimitsAssumption DEF Addr
<1>2. PcOf(pc, 1) = pc
  <2>1. pc + 1 - 1 = pc /\ pc \in 0..(Size - 1)
    BY <1>1
  <2> QED
    BY <1>1, <2>1, DivisionSmall DEF PcOf
<1>3. ASSUME NEW k \in Nat \ {0} PROVE After(PcOf(pc, k)) = PcOf(pc, k + 1)
  <2>1. pc + k - 1 \in Nat /\ (pc + k - 1) + 1 = pc + (k + 1) - 1
    BY <1>1
  <2>2. (((pc + k - 1) % Size) + 1) % Size = ((pc + k - 1) + 1) % Size
    BY <1>1, <2>1, RemainderOfSum
  <2> QED
    BY <2>1, <2>2 DEF After, PcOf
<1>4. ASSUME NEW k \in 1..MaxOps PROVE PcOf(pc, k + 1) # pc
  <2>1. pc + (k + 1) - 1 = pc + k /\ pc + k \in Nat /\ k \in Nat /\ k >= 1 /\ k < Size
    BY <1>1
  <2>2. CASE pc + k < Size
    <3>1. pc + k \in 0..(Size - 1)
      BY <1>1, <2>1, <2>2
    <3>2. (pc + k) % Size = pc + k
      BY <1>1, <3>1, DivisionSmall
    <3> QED
      BY <1>1, <2>1, <3>2 DEF PcOf
  <2>3. CASE pc + k >= Size
    <3>1. pc + k = Size * 1 + (pc + k - Size) /\ pc + k - Size \in 0..(Size - 1)
      BY <1>1, <2>1, <2>3
    <3>2. (pc + k) % Size = pc + k - Size
      BY <1>1, <2>1, <3>1, DivisionIs
    <3> QED
      BY <1>1, <2>1, <3>2 DEF PcOf
  <2> QED
    BY <1>1, <2>1, <2>2, <2>3
<1> QED
  BY <1>2, <1>3, <1>4

LEMMA PollLoopIs ==
  ASSUME NEW pc, IsPollLoop(pc)
  PROVE  /\ BlockLen(pc) = 3 /\ OpOf(pc, 1).op = "lda" /\ OpOf(pc, 2).op = "tst"
         /\ OpOf(pc, 3).op = "jrz" /\ OpOf(pc, 3).to = pc /\ ~OpOf(pc, 1).slow
         /\ ~IsDecLoop(pc)
<1> DEFINE n == BlockLen(pc)
<1>1. n \in 1..MaxOps /\ MaxOps \in Nat
  BY BlockLenIs, LimitsAssumption
<1>2. [k \in 1..n |-> OpOf(pc, k).op] = <<"lda", "tst", "jrz">> /\ ~OpOf(pc, 1).slow
  BY DEF IsPollLoop, Shape
<1>3. OpOf(pc, n).to = pc
  BY DEF IsPollLoop, LoopsBack
<1> HIDE DEF n
<1>4. 1..n = 1..3
  <2>1. DOMAIN [k \in 1..n |-> OpOf(pc, k).op] = 1..n
    OBVIOUS
  <2>2. DOMAIN <<"lda", "tst", "jrz">> = 1..3
    OBVIOUS
  <2> QED
    BY <1>2, <2>1, <2>2
<1>5. n = 3
  BY <1>1, <1>4
<1>6. ~IsDecLoop(pc)
  <2>1. IsDecLoop(pc) => BlockLen(pc) = 2
    BY DecLoopLen
  <2> QED
    BY <1>5, <2>1 DEF n
<1>7. OpOf(pc, 1).op = "lda" /\ OpOf(pc, 2).op = "tst" /\ OpOf(pc, 3).op = "jrz"
  <2> DEFINE f == [k \in 1..n |-> OpOf(pc, k).op]
  <2>1. f[1] = OpOf(pc, 1).op /\ f[2] = OpOf(pc, 2).op /\ f[3] = OpOf(pc, 3).op
    BY <1>5
  <2>2. f = <<"lda", "tst", "jrz">>
    BY <1>2
  <2> HIDE DEF f
  <2> QED
    BY <2>1, <2>2
<1> QED
  BY <1>2, <1>3, <1>5, <1>6, <1>7 DEF n

LEMMA DecLoopIs ==
  ASSUME NEW pc, IsDecLoop(pc)
  PROVE  /\ BlockLen(pc) = 2 /\ OpOf(pc, 1).op = "dec" /\ OpOf(pc, 2).op = "jrnz"
         /\ OpOf(pc, 2).to = pc
<1> DEFINE n == BlockLen(pc)
           f == [k \in 1..n |-> OpOf(pc, k).op]
<1>1. n = 2
  BY DecLoopLen
<1>2. f = <<"dec", "jrnz">>
  BY DEF IsDecLoop, Shape
<1>3. OpOf(pc, 2).to = pc
  BY <1>1 DEF IsDecLoop, LoopsBack
<1>4. f[1] = OpOf(pc, 1).op /\ f[2] = OpOf(pc, 2).op
  BY <1>1
<1> HIDE DEF n, f
<1>5. OpOf(pc, 1).op = "dec" /\ OpOf(pc, 2).op = "jrnz"
  BY <1>2, <1>4
<1> QED
  BY <1>1, <1>3, <1>5 DEF n

\* What sm83_step does, in its three cases.
LEMMA StepIs ==
  ASSUME NEW p, NEW s \in CpuState, NEW b \in BOOLEAN
  PROVE  /\ b /\ s.ime => /\ ~Executes(s, b)
                          /\ Step(p, s, b) = Promoted(Dispatched(s), s.pend)
         /\ ~(b /\ s.ime) /\ s.halted /\ ~b =>
              /\ ~Executes(s, b)
              /\ Step(p, s, b) = Promoted([s EXCEPT !.clock = Ticked(s.clock, 1)], s.pend)
         /\ ~(b /\ s.ime) /\ (s.halted => b) =>
              /\ Executes(s, b)
              /\ Step(p, s, b) = Exec(p, [s EXCEPT !.halted = FALSE])
<1>1. s.halted \in BOOLEAN /\ Woken(s, b).halted = (s.halted /\ ~b)
  BY CpuFacts DEF Woken, CpuState
<1>2. ASSUME s.halted => b PROVE Woken(s, b) = [s EXCEPT !.halted = FALSE]
  <2>1. (s.halted /\ ~b) = FALSE
    BY <1>1, <1>2
  <2> QED
    BY <2>1 DEF Woken
<1> QED
  BY <1>1, <1>2 DEF Step, Executes, Service

\* Compiled code puts the processor into halt mode at the end of the loop.
Parks(pc) == IsPollLoop(pc) /\ ~OpOf(pc, 3).slow

\* The EI path promotes what is pending before the processor can sleep.
HaltOK == cpu.halted => ~cpu.pend

\* A processor that compiled code halted is at the loop, and would spin there.
ParkOK == parked => /\ cpu.halted /\ IsPollLoop(GuestPc)
                    /\ cpu.a = 0 /\ cpu.mem = 0 /\ cpu.z = TRUE

\* In a block, a11 is the address blk.at was compiled from.
InsideOK ==
  InBlock => /\ blk.a11 = PcOf(blk.start, blk.at) /\ ~cpu.halted /\ ~cpu.pend
             /\ IsPollLoop(blk.start) =>
                  /\ blk.at >= 2 => cpu.a = cpu.mem
                  /\ blk.at >= 3 => cpu.z = (cpu.a = 0)

\* The loop that parks has not gone round without.
EndOK ==
  /\ phase = "block" /\ ~InBlock /\ Parks(blk.start) /\ blk.a11 = blk.start => cpu.halted
  /\ phase = "after" /\ Parks(blk.start) /\ cpu.pc = blk.start => cpu.halted

\* The loop spins on self-loops only, which neither sleep nor enable interrupts.
SpinOK ==
  /\ phase \in {"top", "checked"} => again.kind = "once"
  /\ again.kind = "spin" => /\ SelfLoop(blk.start) /\ ~Parks(blk.start)
                            /\ ~cpu.halted /\ ~cpu.pend

Tracked == HaltOK /\ ParkOK /\ InsideOK /\ EndOK /\ SpinOK

LEMMA SameParks ==
  ASSUME code' = code
  PROVE  \A pc : (Parks(pc))' = Parks(pc)
  BY SameCode DEF Parks

LEMMA InitTracked == Init => Tracked
<1> SUFFICES ASSUME Init PROVE Tracked
  OBVIOUS
<1>1. ~cpu.halted /\ ~cpu.pend /\ phase = "top" /\ ~parked /\ again.kind = "once"
  BY DEF Init, Reset, Once
<1> QED
  BY <1>1 DEF Tracked, HaltOK, ParkOK, InsideOK, EndOK, SpinOK, InBlock

LEMMA SameTracked ==
  ASSUME Tracked, UNCHANGED <<code, cpu, phase, blk, again, parked>>
  PROVE  Tracked'
<1>1. HaltOK' /\ ParkOK'
  BY SameCode DEF Tracked, HaltOK, ParkOK, GuestPc
<1>2. InBlock' = InBlock
  BY SameCode DEF InBlock
<1>3. InsideOK'
  BY <1>2, SameCode DEF Tracked, InsideOK
<1>4. EndOK' /\ SpinOK'
  BY <1>2, SameCode, SameParks DEF Tracked, EndOK, SpinOK
<1> QED
  BY <1>1, <1>3, <1>4 DEF Tracked

\* The loop outside blocks.
LEMMA LoopTracked ==
  ASSUME Tracked, phase \in {"top", "checked"}, phase' \in {"top", "checked"},
         again' = again, HaltOK', ParkOK'
  PROVE  Tracked'
<1>1. again'.kind = "once"
  BY DEF Tracked, SpinOK
<1>2. phase' # "block" /\ phase' # "after"
  OBVIOUS
<1> QED
  BY <1>1, <1>2 DEF Tracked, InsideOK, EndOK, SpinOK, InBlock

\* A block is entered.
LEMMA NewTracked ==
  ASSUME Typed, Tracked, UNCHANGED <<code, cpu, parked>>, blk' = Entered(cpu.pc),
         phase' = "block", ~cpu.halted, ~cpu.pend,
         again'.kind = "spin" => SelfLoop(cpu.pc) /\ ~Parks(cpu.pc)
  PROVE  Tracked'
<1>1. cpu.pc \in Addr
  BY CpuFacts DEF Typed
<1>2. blk'.start = cpu.pc /\ blk'.a11 = cpu.pc /\ blk'.at = 1
  BY <1>1, EnteredTypes DEF Typed
<1>3. PcOf(cpu.pc, 1) = cpu.pc
  BY <1>1, NextPc
<1>4. InBlock'
  <2>1. 1 <= BlockLen(cpu.pc)
    BY BlockLenIs, LimitsAssumption
  <2> QED
    BY <1>2, <2>1, SameCode DEF InBlock
<1>5. HaltOK' /\ ParkOK'
  BY DEF Tracked, HaltOK, ParkOK
<1>6. InsideOK'
  BY <1>2, <1>3 DEF InsideOK
<1>7. EndOK'
  BY <1>4 DEF EndOK
<1>8. SpinOK'
  BY <1>2, SameCode, SameParks DEF SpinOK
<1> QED
  BY <1>5, <1>6, <1>7, <1>8 DEF Tracked

\* sm83_service_interrupts, called by the loop.
LEMMA ServiceTracked ==
  ASSUME Typed, Tracked, NEW c \in CpuState, cpu' = Service(c, irq), code' = code,
         Serve(c) \/ (~irq /\ parked' = parked), phase \in {"top", "checked"},
         phase' \in {"top", "checked"}, c.pc = cpu.pc, c.a = cpu.a, c.mem = cpu.mem,
         c.z = cpu.z, c.ime = cpu.ime, c.pend = cpu.pend, c.halted = cpu.halted
  PROVE  HaltOK' /\ ParkOK'
<1>1. irq \in BOOLEAN /\ cpu.halted \in BOOLEAN
  BY CpuFacts DEF Typed
<1>2. HaltOK'
  <2>1. CASE irq /\ c.ime
    <3>1. cpu'.halted = FALSE
      BY <2>1 DEF Service, Dispatched, CpuState
    <3> QED
      BY <3>1 DEF HaltOK
  <2>2. CASE ~(irq /\ c.ime)
    <3>1. cpu'.pend = c.pend /\ cpu'.halted = (c.halted /\ ~irq)
      BY <2>2 DEF Service, Woken, CpuState
    <3> QED
      BY <3>1 DEF HaltOK, Tracked
  <2> QED
    BY <2>1, <2>2
<1>3. ParkOK'
  <2>1. CASE ~parked'
    BY <2>1 DEF ParkOK
  <2>2. CASE parked'
    <3>1. ~irq /\ parked
      BY <2>2 DEF Serve
    <3>2. cpu' = c
      <4>1. irq = FALSE
        BY <1>1, <3>1
      <4>2. cpu' = Woken(c, FALSE)
        BY <4>1 DEF Service
      <4> QED
        BY <4>2, ServiceTypes
    <3>3. GuestPc = cpu.pc /\ GuestPc' = cpu.pc
      BY <3>2 DEF GuestPc
    <3> QED
      BY <3>1, <3>2, <3>3, SameCode DEF ParkOK, Tracked
  <2> QED
    BY <2>1, <2>2
<1> QED
  BY <1>2, <1>3

\* sm83_step, for a processor that is halted only where nothing is pending.
LEMMA StepTracked ==
  ASSUME NEW p \in [Addr -> Instr], NEW s \in CpuState, NEW b \in BOOLEAN,
         p[s.pc].op \in Returns => s.stack # << >>, s.halted => ~s.pend
  PROVE  LET c == Step(p, s, b) IN
         /\ c.halted => ~c.pend
         /\ s.halted /\ ~b => /\ c.pc = s.pc /\ c.a = s.a /\ c.mem = s.mem /\ c.z = s.z
                              /\ c.halted
         /\ ~s.halted /\ ~s.pend /\ c.halted => p[s.pc].op = "halt"
         /\ ~s.halted /\ ~s.pend /\ c.pend => p[s.pc].op = "ei"
<1> DEFINE c == Step(p, s, b)
<1>1. s.halted \in BOOLEAN /\ s.pend \in BOOLEAN /\ s.clock \in Nat
  BY CpuFacts
<1>2. CASE b /\ s.ime
  <2>1. c = Promoted(Dispatched(s), s.pend)
    BY <1>2, StepIs
  <2>2. Dispatched(s) \in CpuState /\ Dispatched(s).halted = FALSE /\ Dispatched(s).pend = s.pend
    BY ServiceTypes DEF Dispatched, CpuState
  <2>3. c.halted = FALSE /\ c.pend = (s.pend /\ ~s.pend)
    BY <1>1, <2>1, <2>2, PromotedTypes
  <2> QED
    BY <1>2, <2>3
<1>3. CASE ~(b /\ s.ime) /\ s.halted /\ ~b
  <2> DEFINE t == [s EXCEPT !.clock = Ticked(s.clock, 1)]
  <2>1. c = Promoted(t, s.pend)
    BY <1>3, StepIs
  <2>2. /\ t \in CpuState /\ t.pc = s.pc /\ t.a = s.a /\ t.mem = s.mem /\ t.z = s.z
        /\ t.halted = s.halted /\ t.pend = s.pend
    BY <1>1, TickedTypes DEF CpuState, Clocks
  <2> HIDE DEF t
  <2>3. /\ c.pc = s.pc /\ c.a = s.a /\ c.mem = s.mem /\ c.z = s.z /\ c.halted = s.halted
        /\ c.pend = (s.pend /\ ~s.pend)
    BY <1>1, <2>1, <2>2, PromotedTypes
  <2> QED
    BY <1>3, <2>3
<1>4. CASE ~(b /\ s.ime) /\ (s.halted => b)
  <2> DEFINE t == [s EXCEPT !.halted = FALSE]
  <2>1. c = Exec(p, t)
    BY <1>4, StepIs
  <2>2. /\ t \in CpuState /\ t.pc = s.pc /\ t.stack = s.stack /\ t.pend = s.pend
        /\ t.halted = FALSE
    BY DEF CpuState
  <2> HIDE DEF t
  <2>3. /\ c.halted = (t.halted \/ p[s.pc].op = "halt")
        /\ c.pend = (p[s.pc].op = "ei" /\ ~s.pend)
    BY <2>1, <2>2, ExecTypes
  <2> QED
    BY <1>1, <1>4, <2>2, <2>3
<1> QED
  BY <1>1, <1>2, <1>3, <1>4

\* A call of sm83_step by the loop.
LEMMA CallTracked ==
  ASSUME Typed, Tracked, Balanced, CallStep(cpu), code' = code,
         phase \in {"top", "checked"}, phase' \in {"top", "checked"}
  PROVE  HaltOK' /\ ParkOK'
<1>1. /\ code \in [Addr -> Instr] /\ cpu \in CpuState /\ irq \in BOOLEAN
      /\ cpu.halted \in BOOLEAN
  BY OpTypes, CpuFacts DEF Typed
<1>2. GuestPc = cpu.pc /\ GuestPc' = cpu'.pc
  BY DEF GuestPc
<1>3. code[cpu.pc].op \in Returns => cpu.stack # << >>
  BY <1>2 DEF Balanced, AtReturn
<1>4. cpu' = Step(code, cpu, irq) /\ Serve(cpu)
  BY DEF CallStep
<1>5. HaltOK'
  BY <1>1, <1>3, <1>4, StepTracked DEF HaltOK, Tracked
<1>6. CASE ~parked'
  BY <1>5, <1>6 DEF ParkOK
<1>7. CASE parked'
  <2>1. parked /\ ~irq /\ cpu.halted
    BY <1>4, <1>7 DEF Serve, Tracked, ParkOK
  <2>2. /\ cpu'.pc = cpu.pc /\ cpu'.a = cpu.a /\ cpu'.mem = cpu.mem /\ cpu'.z = cpu.z
        /\ cpu'.halted
    BY <1>1, <1>3, <1>4, <2>1, StepTracked DEF HaltOK, Tracked
  <2> QED
    BY <1>2, <1>5, <2>1, <2>2, SameCode DEF Tracked, ParkOK
<1> QED
  BY <1>6, <1>7, <1>5

\* What a block is made of, at the instruction it is about to execute.
LEMMA InsideFacts ==
  ASSUME Typed, InBlock
  PROVE  /\ blk \in BlkState /\ blk.start \in Addr /\ blk.at \in 1..MaxOps /\ blk.at \in Nat \ {0}
         /\ BlockLen(blk.start) \in Nat /\ blk.at <= BlockLen(blk.start) /\ phase = "block"
         /\ blk.at < BlockLen(blk.start) =>
              /\ ~EndsBlock(Current)
              /\ Current.op \notin Jumps \union {"call", "ret", "reti", "ei", "halt", "stop", "stio"}
         /\ SelfLoop(blk.start) => Current.op \notin {"halt", "ei"}
         /\ IsPollLoop(blk.start) =>
              /\ Current.op = "jrz" => blk.at = 3 /\ Current.to = blk.start
              /\ blk.at = 1 => Current.op = "lda" /\ ~Current.slow
              /\ blk.at = 2 => Current.op = "tst"
              /\ blk.at = 3 => Current.op = "jrz"
              /\ blk.at \in {1, 2, 3} /\ BlockLen(blk.start) = 3 /\ ~IsDecLoop(blk.start)
<1> DEFINE n == BlockLen(blk.start)
<1>1. /\ blk \in BlkState /\ blk.start \in Addr /\ blk.at \in 1..(MaxOps + 1)
      /\ n \in 1..MaxOps /\ MaxOps \in Nat /\ blk.at <= n /\ phase = "block"
  BY BlockLenIs, LimitsAssumption DEF Typed, BlkState, InBlock
<1>2. ASSUME blk.at < n PROVE ~EndsBlock(Current)
  <2>1. blk.at \in 1..(n - 1)
    BY <1>1, <1>2
  <2> QED
    BY <2>1, BlockLenIs DEF Current
<1>3. blk.at < n =>
        Current.op \notin Jumps \union {"call", "ret", "reti", "ei", "halt", "stop", "stio"}
  BY <1>2 DEF EndsBlock, Terminates
<1>4. ASSUME SelfLoop(blk.start) PROVE Current.op \notin {"halt", "ei"}
  <2>1. CASE blk.at < n
    BY <1>3, <2>1
  <2>2. CASE blk.at = n
    BY <1>4, <2>2 DEF SelfLoop, LoopsBack, Current
  <2> QED
    BY <1>1, <2>1, <2>2
<1>5. ASSUME IsPollLoop(blk.start)
      PROVE  /\ Current.op = "jrz" => blk.at = 3 /\ Current.to = blk.start
             /\ blk.at = 1 => Current.op = "lda" /\ ~Current.slow
             /\ blk.at = 2 => Current.op = "tst"
             /\ blk.at = 3 => Current.op = "jrz"
             /\ blk.at \in {1, 2, 3} /\ n = 3 /\ ~IsDecLoop(blk.start)
  <2>1. n = 3 /\ ~IsDecLoop(blk.start)
    BY <1>5, PollLoopIs
  <2>2. blk.at \in {1, 2, 3}
    BY <1>1, <2>1
  <2> HIDE DEF n
  <2> QED
    BY <1>5, <2>1, <2>2, PollLoopIs DEF Current
<1> QED
  BY <1>1, <1>2, <1>3, <1>4, <1>5

LEMMA HelperTracked ==
  ASSUME Typed, Tracked, Balanced, Undisturbed, HelperOp
  PROVE  Tracked'
<1> DEFINE n == BlockLen(blk.start)
<1>1. /\ InBlock /\ ~Inlined(Current) /\ CallStep(Synced) /\ UNCHANGED <<code, phase, again>>
      /\ blk' = [blk EXCEPT !.at = blk.at + 1, !.a11 = cpu'.pc, !.a12 = 0]
  BY DEF HelperOp, Reloaded
<1>2. /\ blk.a11 = PcOf(blk.start, blk.at) /\ ~cpu.halted /\ ~cpu.pend /\ ~parked
      /\ code[blk.a11] = Current
  BY <1>1 DEF Tracked, InsideOK, ParkOK, Current, OpOf
<1>3. /\ Synced \in CpuState /\ Synced.pc = blk.a11 /\ Synced.stack = cpu.stack
      /\ ~Synced.halted /\ ~Synced.pend /\ Synced.a = cpu.a /\ Synced.mem = cpu.mem
      /\ Synced.z = cpu.z /\ Synced.ime = cpu.ime
  BY <1>2, SyncedTypes
<1>4. Current.op \in Returns => cpu.stack # << >>
  BY <1>1 DEF Balanced, AtReturn
<1>5. cpu' = Step(code, Synced, irq) /\ ~parked'
  BY <1>1, <1>2 DEF CallStep, Serve
<1>6. (cpu'.halted => Current.op = "halt") /\ (cpu'.pend => Current.op = "ei")
  BY <1>2, <1>3, <1>4, <1>5, OpTypes, StepTracked DEF Typed
<1>7. /\ blk'.start = blk.start /\ blk'.at = blk.at + 1 /\ blk'.a11 = cpu'.pc
  <2>1. blk \in BlkState
    BY DEF Typed
  <2> QED
    BY <1>1, <2>1 DEF BlkState
<1>8. HaltOK' /\ ParkOK'
  BY <1>5, <1>6 DEF HaltOK, ParkOK
<1>9. SpinOK'
  <2>1. phase' = "block"
    BY <1>1, InsideFacts
  <2>2. again.kind = "spin" => SelfLoop(blk.start) /\ ~Parks(blk.start)
    BY DEF Tracked, SpinOK
  <2>3. again.kind = "spin" => ~cpu'.halted /\ ~cpu'.pend
    BY <1>1, <1>6, <2>2, InsideFacts
  <2> QED
    BY <1>1, <1>7, <2>1, <2>2, <2>3, SameCode, SameParks DEF SpinOK
<1>10. CASE blk.at < n
  <2>1. ~(irq /\ cpu.ime)
    BY <1>1, <1>10, InsideFacts DEF Undisturbed
  <2>2. cpu' = Exec(code, Synced)
    <3>1. [Synced EXCEPT !.halted = FALSE] = Synced
      BY <1>3 DEF CpuState
    <3> QED
      BY <1>3, <1>5, <2>1, <3>1, StepIs DEF Typed
  <2>3. ~EndsBlock(Current) /\ Current.op \notin Returns /\ Current.op # "call" /\ Current.op \notin Jumps
    BY <1>1, <1>10, InsideFacts DEF Returns
  <2>4. /\ cpu'.pc = Goes(Synced, Current) /\ cpu'.a = Data(Synced, Current).a
        /\ cpu'.z = Data(Synced, Current).z /\ cpu'.mem = Data(Synced, Current).mem
    BY <1>2, <1>3, <2>2, <2>3, OpTypes, ExecTypes
  <2>5. cpu'.pc = After(blk.a11)
    BY <1>3, <2>3, <2>4 DEF Goes, Taken, Jumps, Returns
  <2>6. cpu'.pc = PcOf(blk.start, blk.at + 1)
    BY <1>1, <1>2, <2>5, InsideFacts, NextPc
  <2>7. ~cpu'.halted /\ ~cpu'.pend
    BY <1>1, <1>6, <1>10, InsideFacts
  <2>8. InBlock'
    <3>1. blk.at + 1 <= n /\ phase' = "block"
      BY <1>1, <1>10, InsideFacts
    <3> QED
      BY <1>1, <1>7, <3>1, SameCode DEF InBlock
  <2>9. ASSUME IsPollLoop(blk.start)
        PROVE  cpu'.a = cpu'.mem /\ cpu'.z = (cpu'.a = 0) /\ blk.at = 2
    <3>1. blk.at # 1
      BY <1>1, <2>9, InsideFacts DEF Inlined
    <3>2. blk.at = 2 /\ Current.op = "tst"
      BY <1>1, <1>10, <2>9, <3>1, InsideFacts
    <3>3. cpu.a = cpu.mem
      BY <1>1, <2>9, <3>2 DEF Tracked, InsideOK
    <3>4. Data(Synced, Current) = [Synced EXCEPT !.z = (Synced.a = 0)]
      BY <3>2 DEF Data
    <3>5. cpu'.a = Synced.a /\ cpu'.mem = Synced.mem /\ cpu'.z = (Synced.a = 0)
      BY <1>3, <2>4, <3>4 DEF CpuState
    <3> QED
      BY <1>3, <3>2, <3>3, <3>5
  <2>10. InsideOK'
    <3>1. (IsPollLoop(blk.start))' = IsPollLoop(blk.start)
      BY <1>1, <1>7, SameCode
    <3> QED
      BY <1>7, <2>6, <2>7, <2>9, <3>1 DEF InsideOK
  <2>11. EndOK'
    BY <1>1, <2>8, InsideFacts DEF EndOK
  <2> QED
    BY <1>8, <1>9, <2>10, <2>11 DEF Tracked
<1>11. CASE blk.at = n
  <2>1. ~InBlock'
    <3>1. ~(blk.at + 1 <= n)
      BY <1>1, <1>11, InsideFacts
    <3> QED
      BY <1>1, <1>7, <3>1, SameCode DEF InBlock
  <2>2. ~Parks(blk.start)
    <3>1. Parks(blk.start) => Inlined(Current)
      BY <1>1, <1>11, InsideFacts DEF Parks, Inlined, Current
    <3> QED
      BY <1>1, <3>1
  <2>3. InsideOK'
    BY <2>1 DEF InsideOK
  <2>4. EndOK'
    BY <1>1, <1>7, <2>2, SameParks DEF EndOK
  <2> QED
    BY <1>8, <1>9, <2>3, <2>4 DEF Tracked
<1> QED
  BY <1>1, <1>10, <1>11, InsideFacts

LEMMA DecTracked ==
  ASSUME Typed, Tracked, DecLoop
  PROVE  Tracked'
<1>1. /\ InBlock /\ IsDecLoop(blk.start) /\ UNCHANGED <<code, phase, again, parked>>
      /\ cpu' = [cpu EXCEPT !.a = 0, !.z = TRUE]
      /\ blk' = [blk EXCEPT !.at = 3, !.a11 = After(After(blk.a11)),
                            !.a12 = blk.a12 + DecLoopCycles(cpu.a)]
  BY DEF DecLoop
<1>2. cpu'.halted = cpu.halted /\ cpu'.pend = cpu.pend /\ ~cpu.halted /\ ~cpu.pend /\ ~parked
  BY <1>1 DEF Typed, CpuState, Tracked, InsideOK, ParkOK
<1>3. blk'.start = blk.start /\ blk'.at = 3
  BY <1>1 DEF Typed, BlkState
<1>4. BlockLen(blk.start) = 2 /\ ~Parks(blk.start)
  BY <1>1, DecLoopIs, PollLoopIs DEF Parks
<1>5. ~InBlock'
  <2>1. ~(3 <= BlockLen(blk.start))
    BY <1>4
  <2> QED
    BY <1>1, <1>3, <2>1, SameCode DEF InBlock
<1>6. HaltOK' /\ ParkOK' /\ InsideOK'
  BY <1>1, <1>2, <1>5 DEF HaltOK, ParkOK, InsideOK
<1>7. EndOK'
  BY <1>1, <1>3, <1>4, SameParks DEF EndOK
<1>8. SpinOK'
  BY <1>1, <1>2, <1>3, <1>4, SameCode, SameParks DEF Tracked, SpinOK, InBlock
<1> QED
  BY <1>6, <1>7, <1>8 DEF Tracked

\* What an inlined instruction leaves in the registers.
LEMMA InlineIs ==
  ASSUME Typed, Tracked, Balanced, InlineOp
  PROVE  LET here == [cpu EXCEPT !.pc = PcOf(blk.start, blk.at)]
             taken == Taken(cpu, Current)
             parks == IsPollLoop(blk.start) /\ Current.op = "jrz" /\ taken IN
         /\ cpu' \in CpuState /\ here \in CpuState /\ Current \in Instr
         /\ here.pc = PcOf(blk.start, blk.at) /\ here.z = cpu.z /\ here.stack = cpu.stack
         /\ cpu'.a = Data(cpu, Current).a /\ cpu'.z = Data(cpu, Current).z
         /\ cpu'.mem = Data(cpu, Current).mem /\ cpu'.stack = Stacked(here, Current)
         /\ cpu'.halted = (Current.op = "halt" \/ parks) /\ ~cpu'.pend
         /\ cpu'.ime = cpu.ime /\ cpu'.stopped = cpu.stopped /\ cpu'.clock = cpu.clock
         /\ parked' = parks /\ taken \in BOOLEAN
         /\ blk' \in BlkState /\ blk'.start = blk.start /\ blk'.at = blk.at + 1
         /\ blk'.a11 = IF Terminates(Current) /\ Current.op # "halt"
                       THEN Goes(here, Current) ELSE After(blk.a11)
         /\ blk'.a12 = blk.a12 + InlineCycles(Current, taken)
         /\ UNCHANGED <<code, irq, phase, again>> /\ InBlock /\ Inlined(Current)
         /\ ~cpu.halted /\ ~cpu.pend /\ ~parked
<1> DEFINE i == Current
           here == [cpu EXCEPT !.pc = PcOf(blk.start, blk.at)]
           taken == Taken(cpu, i)
           parks == IsPollLoop(blk.start) /\ i.op = "jrz" /\ taken
           stack == Stacked(here, i)
           halted == cpu.halted \/ i.op = "halt" \/ parks
           pc == IF Terminates(i) /\ i.op # "halt" THEN Goes(here, i) ELSE After(blk.a11)
           c == blk.a12 + InlineCycles(i, taken)
           d == Data(cpu, i)
<1>1. /\ InBlock /\ Inlined(i) /\ UNCHANGED <<code, irq, phase, again>>
      /\ cpu' = [d EXCEPT !.stack = stack, !.halted = halted]
      /\ blk' = [blk EXCEPT !.at = blk.at + 1, !.a11 = pc, !.a12 = c]
      /\ parked' = (parked \/ parks)
  BY DEF InlineOp
<1>2. i \in Instr /\ PcOf(blk.start, blk.at) \in Addr /\ cpu \in CpuState
  BY OpTypes DEF Typed
<1>3. Kept(cpu, d)
  BY <1>2, DataTypes
<1>4. ~cpu.halted /\ ~cpu.pend /\ ~parked
  BY <1>1 DEF Tracked, InsideOK, ParkOK
<1>5. here \in CpuState /\ here.pc = PcOf(blk.start, blk.at) /\ here.z = cpu.z /\ here.stack = cpu.stack
  BY <1>2 DEF CpuState
<1>6. halted = (i.op = "halt" \/ parks) /\ parked' = parks
  BY <1>1, <1>4
<1>7. cpu' \in CpuState /\ blk \in BlkState /\ blk' \in BlkState
  BY InlineTyped DEF Typed
<1>8. taken \in BOOLEAN
  BY DEF Taken
<1>9. blk'.start = blk.start /\ blk'.at = blk.at + 1 /\ blk'.a11 = pc /\ blk'.a12 = c
  <2> HIDE DEF pc, c
  <2> QED
    BY <1>1, <1>7 DEF BlkState
<1>10. /\ cpu'.a = d.a /\ cpu'.z = d.z /\ cpu'.mem = d.mem /\ cpu'.stack = stack
       /\ cpu'.halted = halted /\ cpu'.pend = d.pend /\ cpu'.ime = d.ime
       /\ cpu'.stopped = d.stopped /\ cpu'.clock = d.clock
  <2> HIDE DEF d, stack, halted
  <2> QED
    BY <1>1, <1>3 DEF CpuState, Kept
<1> HIDE DEF d, stack, halted, here, pc, c, i, taken
<1>11. ~cpu'.pend /\ cpu'.ime = cpu.ime /\ cpu'.stopped = cpu.stopped /\ cpu'.clock = cpu.clock
  BY <1>3, <1>4, <1>10 DEF Kept
<1> QED
  BY <1>1, <1>2, <1>4, <1>5, <1>6, <1>7, <1>8, <1>9, <1>10, <1>11
  DEF d, stack, here, pc, c, i, taken

LEMMA InlineTracked ==
  ASSUME Typed, Tracked, Balanced, InlineOp
  PROVE  Tracked'
<1> DEFINE n == BlockLen(blk.start)
           i == Current
           here == [cpu EXCEPT !.pc = PcOf(blk.start, blk.at)]
           taken == Taken(cpu, i)
           parks == IsPollLoop(blk.start) /\ i.op = "jrz" /\ taken
<1>1. /\ cpu'.a = Data(cpu, i).a /\ cpu'.z = Data(cpu, i).z /\ cpu'.mem = Data(cpu, i).mem
      /\ cpu'.halted = (i.op = "halt" \/ parks) /\ ~cpu'.pend /\ parked' = parks
      /\ blk'.start = blk.start /\ blk'.at = blk.at + 1
      /\ blk'.a11 = IF Terminates(i) /\ i.op # "halt" THEN Goes(here, i) ELSE After(blk.a11)
      /\ UNCHANGED <<code, phase, again>> /\ InBlock /\ Inlined(i) /\ here.z = cpu.z
      /\ here.pc = PcOf(blk.start, blk.at)
  BY InlineIs
<1>2. /\ blk.a11 = PcOf(blk.start, blk.at)
      /\ IsPollLoop(blk.start) => /\ blk.at >= 2 => cpu.a = cpu.mem
                                  /\ blk.at >= 3 => cpu.z = (cpu.a = 0)
  BY <1>1 DEF Tracked, InsideOK
<1> HIDE DEF i, here
<1>3. Taken(here, i) = taken
  BY <1>1 DEF Taken
<1>4. HaltOK'
  BY <1>1 DEF HaltOK
<1>5. ASSUME ~parks PROVE ParkOK'
  BY <1>1, <1>5 DEF ParkOK
<1>6. ASSUME parks
      PROVE  blk.at = 3 /\ i.to = blk.start /\ cpu.z = TRUE /\ cpu.a = 0 /\ cpu.mem = 0
             /\ blk'.a11 = blk.start /\ Parks(blk.start)
  <2>1. IsPollLoop(blk.start) /\ i.op = "jrz" /\ taken
    BY <1>6
  <2>2. blk.at = 3 /\ i.to = blk.start
    BY <1>1, <2>1, InsideFacts DEF i
  <2>3. cpu.z = TRUE /\ cpu.a = 0 /\ cpu.mem = 0
    <3>1. cpu.z
      BY <2>1 DEF Taken
    <3>2. cpu.z \in BOOLEAN
      BY CpuFacts DEF Typed
    <3>3. 3 >= 2 /\ 3 >= 3
      OBVIOUS
    <3>4. cpu.a = cpu.mem /\ cpu.z = (cpu.a = 0)
      BY <1>2, <2>1, <2>2, <3>3, Zenon
    <3> QED
      BY <3>1, <3>2, <3>4
  <2>4. blk'.a11 = blk.start
    BY <1>1, <1>3, <2>1, <2>2 DEF Terminates, Jumps, Goes
  <2>5. Parks(blk.start)
    BY <1>1, <2>1, <2>2 DEF Parks, Inlined, i, Current
  <2> QED
    BY <2>2, <2>3, <2>4, <2>5
<1>7. ParkOK'
  <2>1. CASE parks
    <3>1. Data(cpu, i) = cpu
      BY <2>1 DEF Data
    <3>2. cpu'.a = 0 /\ cpu'.mem = 0 /\ cpu'.z = TRUE /\ cpu'.halted
      BY <1>1, <1>6, <2>1, <3>1
    <3>3. GuestPc' = blk.start /\ IsPollLoop(blk.start)
      BY <1>1, <1>6, <2>1, InsideFacts DEF GuestPc
    <3>4. (IsPollLoop(GuestPc))'
      BY <1>1, <3>3, SameCode
    <3> QED
      BY <3>2, <3>4 DEF ParkOK
  <2> QED
    BY <1>5, <2>1
<1>8. SpinOK'
  <2>1. phase' = "block"
    BY <1>1, InsideFacts
  <2>2. again.kind = "spin" => SelfLoop(blk.start) /\ ~Parks(blk.start)
    BY DEF Tracked, SpinOK
  <2>3. again.kind = "spin" => ~cpu'.halted
    BY <1>1, <1>6, <2>2, InsideFacts DEF i
  <2> QED
    BY <1>1, <2>1, <2>2, <2>3, SameCode, SameParks DEF SpinOK
<1>9. CASE blk.at < n
  <2>1. ~Terminates(i) /\ i.op \notin Jumps \union {"call", "ret", "reti", "ei", "halt"}
    BY <1>1, <1>9, InsideFacts DEF EndsBlock, i
  <2>2. blk'.a11 = PcOf(blk.start, blk.at + 1)
    BY <1>1, <1>2, <2>1, InsideFacts, NextPc
  <2>3. ~cpu'.halted
    BY <1>1, <2>1 DEF Jumps
  <2>4. InBlock'
    <3>1. blk.at + 1 <= n /\ phase' = "block"
      BY <1>1, <1>9, InsideFacts
    <3> QED
      BY <1>1, <3>1, SameCode DEF InBlock
  <2>5. ASSUME IsPollLoop(blk.start)
        PROVE  cpu'.a = cpu'.mem /\ (blk.at = 1 \/ cpu'.z = (cpu'.a = 0)) /\ blk.at \in {1, 2}
    <3>1. (blk.at = 1 /\ i.op = "lda") \/ (blk.at = 2 /\ i.op = "tst")
      BY <1>1, <1>9, <2>5, InsideFacts DEF i
    <3>2. cpu \in CpuState
      BY DEF Typed
    <3>3. CASE blk.at = 1 /\ i.op = "lda"
      <4>1. Data(cpu, i) = [cpu EXCEPT !.a = cpu.mem]
        BY <3>3 DEF Data
      <4> QED
        BY <1>1, <3>2, <3>3, <4>1 DEF CpuState
    <3>4. CASE blk.at = 2 /\ i.op = "tst"
      <4>1. Data(cpu, i) = [cpu EXCEPT !.z = (cpu.a = 0)]
        BY <3>4 DEF Data
      <4>2. cpu.a = cpu.mem
        BY <1>2, <2>5, <3>4
      <4> QED
        BY <1>1, <3>2, <3>4, <4>1, <4>2 DEF CpuState
    <3> QED
      BY <3>1, <3>3, <3>4
  <2>6. InsideOK'
    <3>1. (IsPollLoop(blk.start))' = IsPollLoop(blk.start)
      BY <1>1, SameCode
    <3>2. IsPollLoop(blk.start) /\ blk.at + 1 >= 3 => blk.at = 2
      BY <2>5
    <3> QED
      BY <1>1, <2>2, <2>3, <2>5, <3>1, <3>2 DEF InsideOK
  <2>7. EndOK'
    BY <1>1, <2>4, InsideFacts DEF EndOK
  <2> QED
    BY <1>4, <1>7, <1>8, <2>6, <2>7 DEF Tracked
<1>10. CASE blk.at = n
  <2>1. ~InBlock'
    <3>1. ~(blk.at + 1 <= n)
      BY <1>1, <1>10, InsideFacts
    <3> QED
      BY <1>1, <3>1, SameCode DEF InBlock
  <2>2. InsideOK'
    BY <2>1 DEF InsideOK
  <2>3. ASSUME Parks(blk.start), blk'.a11 = blk.start PROVE cpu'.halted
    <3>1. IsPollLoop(blk.start) /\ blk.at = 3 /\ i.op = "jrz" /\ BlockLen(blk.start) = 3
      BY <1>1, <1>10, <2>3, InsideFacts DEF Parks, i
    <3>2. CASE taken
      BY <1>1, <3>1, <3>2
    <3>3. CASE ~taken
      <4>1. blk'.a11 = After(PcOf(blk.start, blk.at))
        BY <1>1, <1>3, <3>1, <3>3 DEF Terminates, Jumps, Goes
      <4>2. blk'.a11 = PcOf(blk.start, blk.at + 1) /\ PcOf(blk.start, blk.at + 1) # blk.start
        BY <1>1, <4>1, InsideFacts, NextPc
      <4> QED
        BY <2>3, <4>2
    <3> QED
      BY <3>2, <3>3
  <2>4. EndOK'
    BY <1>1, <2>3, SameParks, InsideFacts DEF EndOK
  <2> QED
    BY <1>4, <1>7, <1>8, <2>2, <2>4 DEF Tracked
<1> QED
  BY <1>1, <1>9, <1>10, InsideFacts

LEMMA TrackedStep ==
  Typed /\ Interpreted /\ Waited /\ Tracked /\ Balanced /\ Undisturbed /\ [Next]_vars => Tracked'
<1> SUFFICES ASSUME Typed, Interpreted, Waited, Tracked, Balanced, Undisturbed, [Next]_vars
             PROVE  Tracked'
  OBVIOUS
<1>1. cpu \in CpuState /\ irq \in BOOLEAN /\ cpu.clock \in Nat /\ HaltStep \in Nat
  BY CpuFacts, LimitsAssumption DEF Typed
<1>2. CASE UNCHANGED vars
  BY <1>2, SameTracked DEF vars
<1>3. CASE Raise
  BY <1>3, SameTracked DEF Raise
<1>4. CASE ServiceFirst
  <2>1. /\ cpu' = Service(cpu, irq) /\ Serve(cpu) /\ UNCHANGED <<code, again>>
        /\ phase = "top" /\ phase' = "checked"
    BY <1>4 DEF ServiceFirst
  <2>2. HaltOK' /\ ParkOK'
    BY <1>1, <2>1, ServiceTracked
  <2> QED
    BY <2>1, <2>2, LoopTracked
<1>5. CASE HaltLoop
  <2> DEFINE c == [cpu EXCEPT !.clock = Ticked(cpu.clock, HaltStep)]
  <2>1. /\ cpu' = Service(c, irq) /\ UNCHANGED <<code, again>> /\ phase = "checked"
        /\ (Serve(c) \/ (~irq /\ parked' = parked))
    BY <1>5 DEF HaltLoop
  <2>2. c \in CpuState
    BY <1>1, TickedTypes, ServiceTypes
  <2>3. /\ c.pc = cpu.pc /\ c.a = cpu.a /\ c.mem = cpu.mem /\ c.z = cpu.z /\ c.ime = cpu.ime
        /\ c.pend = cpu.pend /\ c.halted = cpu.halted
    BY <1>1 DEF CpuState
  <2> HIDE DEF c
  <2>4. phase' \in {"top", "checked"}
    BY <1>5 DEF HaltLoop
  <2>5. HaltOK' /\ ParkOK'
    BY <2>1, <2>2, <2>3, <2>4, ServiceTracked
  <2> QED
    BY <2>1, <2>4, <2>5, LoopTracked
<1>6. CASE InterpretOne
  <2>1. CallStep(cpu) /\ UNCHANGED <<code, again>> /\ phase = "checked" /\ phase' = "top"
    BY <1>6 DEF InterpretOne
  <2> QED
    BY <2>1, CallTracked, LoopTracked
<1>7. CASE Enter
  <2>1. /\ UNCHANGED <<code, cpu, parked>> /\ blk' = Entered(cpu.pc) /\ phase' = "block"
        /\ ~cpu.halted /\ ~cpu.pend /\ again'.kind = "once"
    BY <1>7 DEF Enter, Once
  <2> QED
    BY <2>1, NewTracked
<1>8. CASE DecLoop
  BY <1>8, DecTracked
<1>9. CASE InlineOp
  BY <1>9, InlineTracked
<1>10. CASE HelperOp
  BY <1>10, HelperTracked
<1>11. CASE Epilogue
  <2>1. /\ cpu' = Synced /\ blk' = [blk EXCEPT !.at = 1, !.a11 = blk.start, !.a12 = 0]
        /\ phase = "block" /\ ~InBlock /\ phase' = "after" /\ UNCHANGED <<code, again, parked>>
    BY <1>11 DEF Epilogue
  <2>2. /\ cpu'.pc = blk.a11 /\ cpu'.a = cpu.a /\ cpu'.z = cpu.z /\ cpu'.mem = cpu.mem
        /\ cpu'.pend = cpu.pend /\ cpu'.halted = cpu.halted
    BY <2>1, SyncedTypes
  <2>3. blk'.start = blk.start
    BY <2>1 DEF Typed, BlkState
  <2>4. GuestPc = blk.a11 /\ GuestPc' = blk.a11
    BY <2>1, <2>2 DEF GuestPc
  <2>5. HaltOK' /\ ParkOK'
    BY <2>1, <2>2, <2>4, SameCode DEF Tracked, HaltOK, ParkOK
  <2>6. InsideOK'
    BY <2>1 DEF InsideOK, InBlock
  <2>7. EndOK'
    BY <2>1, <2>2, <2>3, SameParks DEF Tracked, EndOK
  <2>8. SpinOK'
    BY <2>1, <2>2, <2>3, SameCode, SameParks DEF Tracked, SpinOK
  <2> QED
    BY <2>5, <2>6, <2>7, <2>8 DEF Tracked
<1>12. CASE Reenter
  <2>1. /\ UNCHANGED <<code, cpu, parked>> /\ blk' = Entered(cpu.pc) /\ phase' = "block"
        /\ phase = "after" /\ again' = [Reentry EXCEPT !.left = Reentry.left - 1]
        /\ IF Reentry.kind = "spin" THEN Returned ELSE ~cpu.halted /\ ~cpu.pend
    BY <1>12 DEF Reenter
  <2>2. CASE again.kind = "spin"
    <3>1. Reentry = again
      BY <2>2 DEF Reentry
    <3>2. /\ SelfLoop(blk.start) /\ ~Parks(blk.start) /\ ~cpu.halted /\ ~cpu.pend
      BY <2>2 DEF Tracked, SpinOK
    <3>3. cpu.pc = blk.start
      BY <2>1, <2>2, <3>1 DEF Returned
    <3> QED
      BY <2>1, <3>2, <3>3, NewTracked
  <2>3. CASE again.kind # "spin" /\ Reentry.kind = "spin"
    <3>1. SpinGate
      BY <2>3 DEF Reentry
    <3>2. SelfLoop(blk.start) /\ cpu.pc = blk.start /\ ~cpu.halted /\ ~cpu.pend
      BY <3>1 DEF SpinGate, Returned
    <3>3. ~Parks(blk.start)
      BY <2>1, <3>2 DEF Tracked, EndOK
    <3> QED
      BY <2>1, <3>2, <3>3, NewTracked
  <2>4. CASE Reentry.kind # "spin"
    <3>1. again'.kind = Reentry.kind
      <4>1. again.kind # "once" => Reentry = again
        BY DEF Reentry
      <4>2. again.kind = "once" => Reentry \in [kind : {"spin", "batch"}, left : {SpinMax, build.batch}]
        BY DEF Reentry
      <4> QED
        BY <2>1, <4>1, <4>2
    <3> QED
      BY <2>1, <2>4, <3>1, NewTracked
  <2> QED
    BY <2>2, <2>3, <2>4
<1>13. CASE Leave
  <2>1. phase = "after" /\ phase' = "top" /\ again' = Once /\ UNCHANGED <<code, cpu, blk, parked>>
    BY <1>13 DEF Leave
  <2>2. HaltOK' /\ ParkOK'
    BY <2>1, SameCode DEF Tracked, HaltOK, ParkOK, GuestPc
  <2>3. InsideOK' /\ EndOK' /\ SpinOK'
    BY <2>1 DEF InsideOK, EndOK, SpinOK, InBlock, Once
  <2> QED
    BY <2>2, <2>3 DEF Tracked
<1>14. CASE RunInterpreter
  <2>1. CallStep(cpu) /\ UNCHANGED <<code, again, phase>> /\ phase = "top"
    BY <1>14 DEF RunInterpreter, Interpreted
  <2> QED
    BY <2>1, CallTracked, LoopTracked
<1> QED
  BY <1>2, <1>3, <1>4, <1>5, <1>6, <1>7, <1>8, <1>9, <1>10, <1>11, <1>12, <1>13, <1>14 DEF Next

-----------------------------------------------------------------------------
(* I/O registers *)

\* ppu_tick has run since the last store to an I/O register when the loop enters a block,
\* and the blocks it enters by itself are self-loops, unless it batches.
FreshOK ==
  /\ phase = "checked" => ~stale
  /\ InBlock /\ again.kind = "once" => ~stale
  /\ build.batch = 0 => again.kind # "batch"

LEMMA FreshRead == Typed /\ Tracked /\ AgainOK /\ FreshOK => ReadsFreshUnbatched
<1> SUFFICES ASSUME Typed, Tracked, AgainOK, FreshOK, build.batch = 0, InBlock,
                    Current.op = "ldio"
             PROVE  ~stale
  BY DEF ReadsFreshUnbatched, ReadsFresh
<1>1. CASE again.kind = "once"
  BY <1>1 DEF FreshOK
<1>2. CASE again.kind = "spin"
  <2>1. SelfLoop(blk.start)
    BY <1>2 DEF Tracked, SpinOK
  <2>2. /\ blk.at \in 1..MaxOps /\ blk.at <= BlockLen(blk.start)
        /\ BlockLen(blk.start) \in Nat /\ MaxOps \in Nat
    BY InsideFacts, LimitsAssumption
  <2>3. CASE blk.at \in 1..(BlockLen(blk.start) - 1)
    <3>1. ~TouchesMmu(Current)
      BY <2>1, <2>3 DEF SelfLoop, Current
    <3> QED
      BY <3>1 DEF TouchesMmu
  <2>4. CASE blk.at = BlockLen(blk.start)
    BY <2>1, <2>4 DEF SelfLoop, LoopsBack, Current
  <2> QED
    BY <2>2, <2>3, <2>4
<1> QED
  BY <1>1, <1>2 DEF FreshOK, AgainOK

LEMMA FreshStep ==
  Typed /\ Interpreted /\ AgainOK /\ Tracked /\ FreshOK /\ Undisturbed /\ [Next]_vars => FreshOK'
<1> SUFFICES ASSUME Typed, Interpreted, AgainOK, Tracked, FreshOK, Undisturbed, [Next]_vars
             PROVE  FreshOK'
  OBVIOUS
\* Steps that store to no I/O register and enter no block.
<1>1. ASSUME UNCHANGED <<code, build, again, phase, stale>>, InBlock' => InBlock PROVE FreshOK'
  BY <1>1 DEF FreshOK
<1>2. CASE UNCHANGED vars
  <2>1. InBlock' = InBlock
    BY <1>2, SameCode DEF vars, InBlock
  <2> QED
    BY <1>1, <1>2, <2>1 DEF vars
<1>3. CASE Raise
  <2>1. InBlock' = InBlock
    BY <1>3, SameCode DEF Raise, InBlock
  <2> QED
    BY <1>1, <1>3, <2>1 DEF Raise
<1>4. CASE ServiceFirst
  BY <1>4 DEF ServiceFirst, FreshOK, InBlock
<1>5. CASE HaltLoop
  <2>1. /\ UNCHANGED <<build, again>> /\ phase = "checked" /\ phase' # "block"
        /\ stale' = FALSE \/ stale' = stale
    BY <1>5 DEF HaltLoop
  <2> QED
    BY <2>1 DEF FreshOK, InBlock
<1>6. CASE InterpretOne
  BY <1>6 DEF InterpretOne, FreshOK, InBlock
<1>7. CASE Enter
  BY <1>7 DEF Enter, FreshOK, Once
<1>8. CASE DecLoop
  BY <1>1, <1>8 DEF DecLoop
<1>9. CASE InlineOp
  BY <1>1, <1>9 DEF InlineOp
<1>10. CASE HelperOp
  <2>1. /\ InBlock /\ ~Inlined(Current) /\ CallStep(Synced) /\ UNCHANGED <<code, build, phase, again>>
        /\ blk' = [blk EXCEPT !.at = blk.at + 1, !.a11 = cpu'.pc, !.a12 = 0]
    BY <1>10 DEF HelperOp, Reloaded
  <2>2. /\ blk'.start = blk.start /\ blk'.at = blk.at + 1
    BY <2>1 DEF Typed, BlkState
  <2>3. ASSUME InBlock' PROVE ~stale'
    <3>1. blk.at < BlockLen(blk.start)
      <4>1. blk.at + 1 <= BlockLen(blk.start)
        BY <2>1, <2>2, <2>3, SameCode DEF InBlock
      <4> QED
        BY <2>1, <4>1, InsideFacts
    <3>2. Current.op # "stio"
      BY <2>1, <3>1, InsideFacts
    <3>3. code[Synced.pc] = Current
      BY <2>1, SyncedTypes DEF Tracked, InsideOK, Current, OpOf
    <3> QED
      BY <2>1, <3>2, <3>3 DEF CallStep
  <2> QED
    BY <2>1, <2>3, InsideFacts DEF FreshOK
<1>11. CASE Epilogue
  BY <1>11 DEF Epilogue, FreshOK, InBlock
<1>12. CASE Reenter
  <2>1. /\ phase' = "block" /\ Reentry.left > 0 /\ build' = build
        /\ again' = [Reentry EXCEPT !.left = Reentry.left - 1]
    BY <1>12 DEF Reenter
  <2>2. /\ Reentry.kind \in {"spin", "batch"}
        /\ build.batch = 0 => Reentry.kind # "batch"
    <3>1. CASE again.kind # "once"
      <4>1. Reentry = again
        BY <3>1 DEF Reentry
      <4> QED
        BY <3>1, <4>1 DEF AgainOK, FreshOK
    <3>2. CASE again.kind = "once"
      <4>1. \/ Reentry = [kind |-> "spin", left |-> SpinMax]
            \/ Reentry = [kind |-> "batch", left |-> build.batch]
        BY <3>2 DEF Reentry
      <4> QED
        BY <2>1, <4>1
    <3> QED
      BY <3>1, <3>2
  <2>3. again'.kind = Reentry.kind
    <3>1. again.kind # "once" => Reentry = again
      BY DEF Reentry
    <3>2. again.kind = "once" => Reentry \in [kind : {"spin", "batch"}, left : {SpinMax, build.batch}]
      BY DEF Reentry
    <3> QED
      BY <2>1, <3>1, <3>2
  <2> QED
    BY <2>1, <2>2, <2>3 DEF FreshOK
<1>13. CASE Leave
  BY <1>13 DEF Leave, FreshOK, Once, InBlock
<1>14. CASE RunInterpreter
  <2>1. UNCHANGED <<build, again, phase>> /\ phase = "top"
    BY <1>14 DEF RunInterpreter, Interpreted
  <2> QED
    BY <2>1 DEF FreshOK, InBlock
<1> QED
  BY <1>2, <1>3, <1>4, <1>5, <1>6, <1>7, <1>8, <1>9, <1>10, <1>11, <1>12, <1>13, <1>14 DEF Next

\* What the processor state and compiled code are to each other.
Inside == Typed /\ Interpreted /\ AgainOK /\ Waited /\ Tracked

LEMMA InitInside == Init => Inside
  BY InitTyped, InitWaited, InitTracked DEF Init, Interpreted, Inside

LEMMA InsideStep == Inside /\ Balanced /\ Undisturbed /\ [Next]_vars => Inside'
  BY TypedStep, InterpretedStep, WaitedStep, TrackedStep DEF Inside

\* For guests that return only from what was called, and while sm83_step dispatches no
\* interrupt in the middle of a block: code that reads an I/O register by itself finds it
\* as ppu_tick left it after the last store to one, if the loop does not batch blocks
\* (EndsBlock and the self-loop spin, codegen.c and dispatcher.c).
THEOREM RegistersReadFresh == Spec /\ []Balanced /\ []Undisturbed => []ReadsFreshUnbatched
<1>1. Init => Inside /\ FreshOK
  <2>1. Init => phase = "top" /\ again.kind = "once"
    BY DEF Init, Once
  <2> QED
    BY <2>1, InitInside DEF FreshOK, InBlock
<1>2. Inside /\ FreshOK /\ Balanced /\ Undisturbed /\ [Next]_vars => (Inside /\ FreshOK)'
  BY InsideStep, FreshStep DEF Inside
<1>3. Inside /\ FreshOK => ReadsFreshUnbatched
  BY FreshRead DEF Inside
<1> QED
  BY <1>1, <1>2, <1>3, PTL DEF Spec

-----------------------------------------------------------------------------
(* The reference interpreter *)

\* f is a run of m instructions of p from s.
RunOf(p, s, m, f) == f = [k \in 0..m |-> IF k = 0 THEN s ELSE Exec(p, f[k - 1])]

LEMMA RunExists ==
  ASSUME NEW p, NEW s, NEW n \in Nat
  PROVE  \E f : RunOf(p, s, n, f)
<1> DEFINE Is(f, m) == f = [k \in 0..m |-> IF k = 0 THEN s ELSE Exec(p, f[k - 1])]
           S == {m \in Nat : ~ \E f : Is(f, m)}
<1>1. Is([k \in 0..0 |-> s], 0)
  OBVIOUS
<1>2. ASSUME NEW m \in Nat, NEW f, Is(f, m) PROVE \E g : Is(g, m + 1)
  <2> DEFINE g == [k \in 0..(m + 1) |-> IF k = m + 1 THEN Exec(p, f[m]) ELSE f[k]]
  <2>1. ASSUME NEW k \in 0..(m + 1) PROVE g[k] = IF k = 0 THEN s ELSE Exec(p, g[k - 1])
    <3>1. f = [j \in 0..m |-> IF j = 0 THEN s ELSE Exec(p, f[j - 1])]
      BY <1>2
    <3>2. CASE k = m + 1
      BY <3>2
    <3>3. CASE k # m + 1
      <4>1. k \in 0..m /\ g[k] = f[k] /\ (k # 0 => g[k - 1] = f[k - 1])
        BY <3>3
      <4>2. f[k] = IF k = 0 THEN s ELSE Exec(p, f[k - 1])
        BY <3>1, <4>1
      <4> QED
        BY <4>1, <4>2
    <3> QED
      BY <3>2, <3>3
  <2>2. g = [k \in 0..(m + 1) |-> g[k]]
    OBVIOUS
  <2> HIDE DEF g
  <2>3. Is(g, m + 1)
    BY <2>1, <2>2
  <2> QED
    BY <2>3
<1> HIDE DEF Is
<1>3. S = {}
  <2> SUFFICES ASSUME S # {} PROVE FALSE
    OBVIOUS
  <2>1. S \in SUBSET Nat
    OBVIOUS
  <2>2. Min(S) \in S /\ \A y \in S : Min(S) <= y
    BY <2>1, MinIs
  <2> DEFINE m == Min(S)
  <2>3. m \in Nat /\ ~ \E f : Is(f, m)
    BY <2>2
  <2>4. m # 0
    BY <1>1, <2>3
  <2>5. m - 1 \in Nat /\ (m - 1) + 1 = m /\ ~(m <= m - 1)
    BY <2>3, <2>4
  <2>6. m - 1 \notin S
    BY <2>2, <2>5
  <2>7. \E f : Is(f, m - 1)
    BY <2>5, <2>6
  <2> QED
    BY <1>2, <2>3, <2>5, <2>7
<1>4. \E f : Is(f, n)
  BY <1>3
<1> QED
  BY <1>4 DEF Is, RunOf

\* The abstract specification means by an instruction what BlockExec means by it.
LEMMA SameOps ==
  /\ \A p, s : Reference!Exec(p, s) = Exec(p, s)
  /\ \A s, b : Reference!Woken(s, b) = Woken(s, b)
  /\ \A s : Reference!Dispatched(s) = Dispatched(s)
<1>1. \A t, n : Reference!Ticked(t, n) = Ticked(t, n)
  BY DEF Reference!Ticked, Ticked
<1>2. \A pc : Reference!After(pc) = After(pc)
  BY DEF Reference!After, After
<1>3. \A s, i : Reference!Taken(s, i) = Taken(s, i)
  BY DEF Reference!Taken, Taken
<1>4. \A i, t : Reference!Cycles(i, t) = Cycles(i, t)
  BY DEF Reference!Cycles, Cycles, Reference!Jumps, Jumps
<1>5. \A s, i : Reference!Data(s, i) = Data(s, i)
  BY DEF Reference!Data, Data
<1>6. \A s, i : Reference!Goes(s, i) = Goes(s, i) /\ Reference!Stacked(s, i) = Stacked(s, i)
  BY <1>2, <1>3 DEF Reference!Goes, Goes, Reference!Stacked, Stacked
<1>7. \A s, b : Reference!Promoted(s, b) = Promoted(s, b)
  BY DEF Reference!Promoted, Promoted
<1>8. ASSUME NEW p, NEW s PROVE Reference!Exec(p, s) = Exec(p, s)
  <2> DEFINE i == p[s.pc]
             d == Data(s, i)
             q == Goes(s, i)
             k == Stacked(s, i)
             t == Ticked(s.clock, Cycles(i, Taken(s, i)))
             e == [d EXCEPT
                    !.pc      = q,
                    !.stack   = k,
                    !.clock   = t,
                    !.ime     = i.op = "reti" \/ (s.ime /\ i.op # "di"),
                    !.pend    = i.op = "ei" \/ (s.pend /\ i.op # "di"),
                    !.halted  = s.halted \/ i.op = "halt",
                    !.stopped = s.stopped \/ i.op = "stop"]
  <2>1. /\ Reference!Data(s, i) = d /\ Reference!Goes(s, i) = q /\ Reference!Stacked(s, i) = k
    BY <1>5, <1>6
  <2>2. Reference!Ticked(s.clock, Reference!Cycles(i, Reference!Taken(s, i))) = t
    BY <1>1, <1>3, <1>4
  <2>3. Exec(p, s) = Promoted(e, s.pend)
    BY DEF Exec
  <2> HIDE DEF i, d, q, k, t
  <2>4. Reference!Exec(p, s) = Reference!Promoted(e, s.pend)
    BY <2>1, <2>2 DEF Reference!Exec, i
  <2> HIDE DEF e
  <2> QED
    BY <1>7, <2>3, <2>4
<1>9. \A s, b : Reference!Woken(s, b) = Woken(s, b)
  BY DEF Reference!Woken, Woken
<1>10. \A s : Reference!Dispatched(s) = Dispatched(s)
  BY <1>1 DEF Reference!Dispatched, Dispatched
<1> QED
  BY <1>8, <1>9, <1>10

LEMMA RunIs ==
  /\ Reference!Run[0] = Woken(Guest, irq)
  /\ \A k \in 1..RunMax : Reference!Run[k] = Exec(code, Reference!Run[k - 1])
<1> DEFINE R == Reference!Run
           Q(f) == f = [k \in 0..RunMax |-> IF k = 0 THEN Reference!Woken(Guest, irq)
                                            ELSE Reference!Exec(code, f[k - 1])]
<1>1. RunMax \in Nat
  BY ReferenceAssumption
<1>2. PICK f : RunOf(code, Woken(Guest, irq), RunMax, f)
  BY <1>1, RunExists
<1>3. R = CHOOSE g : Q(g)
  BY DEF Reference!Run
<1>4. Q(f)
  BY <1>2, SameOps DEF RunOf
<1>5. Q(R)
  <2> HIDE DEF Q, R
  <2> QED
    BY <1>3, <1>4
<1>6. R = [k \in 0..RunMax |-> IF k = 0 THEN Reference!Woken(Guest, irq)
                               ELSE Reference!Exec(code, R[k - 1])]
  BY <1>5
<1> HIDE DEF R
<1>7. R[0] = Woken(Guest, irq)
  BY <1>1, <1>6, SameOps
<1>8. ASSUME NEW k \in 1..RunMax PROVE R[k] = Exec(code, R[k - 1])
  BY <1>1, <1>6, SameOps
<1> QED
  BY <1>7, <1>8 DEF R

\* The processor c as a guest sees it: a polling loop is not halted.
Seen(c, p) == [c EXCEPT !.halted = c.halted /\ ~p]

LEMMA SeenIs ==
  ASSUME NEW c \in CpuState, NEW p \in BOOLEAN
  PROVE  LET g == Seen(c, p) IN
         /\ g \in CpuState /\ g.pc = c.pc /\ g.a = c.a /\ g.z = c.z /\ g.mem = c.mem
         /\ g.ime = c.ime /\ g.pend = c.pend /\ g.halted = (c.halted /\ ~p)
         /\ g.stopped = c.stopped /\ g.stack = c.stack /\ g.clock = c.clock
         /\ (~c.halted => g = c) /\ (~p => g = c)
<1>1. c.halted \in BOOLEAN
  BY CpuFacts
<1>2. (c.halted /\ ~p) \in BOOLEAN
  OBVIOUS
<1>3. (~c.halted \/ ~p) => (c.halted /\ ~p) = c.halted
  BY <1>1
<1> QED
  BY <1>1, <1>2, <1>3 DEF Seen, CpuState

LEMMA GuestIs ==
  /\ phase = "block" => Guest = Seen(Synced, parked)
  /\ phase # "block" => Guest = Seen(cpu, parked)
<1>1. phase = "block" => Synced.halted = cpu.halted
  BY DEF Synced
<1>2. phase = "block" => Guest = [Synced EXCEPT !.halted = cpu.halted /\ ~parked]
  BY DEF Guest
<1>3. phase # "block" => Guest = [cpu EXCEPT !.halted = cpu.halted /\ ~parked]
  BY DEF Guest
<1> QED
  BY <1>1, <1>2, <1>3 DEF Seen

LEMMA GuestTypes ==
  ASSUME Typed
  PROVE  /\ Guest \in CpuState /\ Guest.pc = GuestPc /\ Guest.a = cpu.a /\ Guest.z = cpu.z
         /\ Guest.mem = cpu.mem /\ Guest.ime = cpu.ime /\ Guest.pend = cpu.pend
         /\ Guest.halted = (cpu.halted /\ ~parked) /\ Guest.stopped = cpu.stopped
         /\ Guest.stack = cpu.stack /\ Guest.clock \in Clocks
<1>1. cpu \in CpuState /\ parked \in BOOLEAN
  BY DEF Typed
<1>2. CASE phase = "block"
  <2>1. Guest = Seen(Synced, parked) /\ Synced \in CpuState
    BY <1>2, GuestIs, SyncedTypes
  <2>2. /\ Guest \in CpuState /\ Guest.pc = Synced.pc /\ Guest.a = Synced.a /\ Guest.z = Synced.z
        /\ Guest.mem = Synced.mem /\ Guest.ime = Synced.ime /\ Guest.pend = Synced.pend
        /\ Guest.halted = (Synced.halted /\ ~parked) /\ Guest.stopped = Synced.stopped
        /\ Guest.stack = Synced.stack /\ Guest.clock = Synced.clock
    BY <1>1, <2>1, SeenIs
  <2>3. GuestPc = blk.a11 /\ Guest.clock \in Clocks
    BY <1>2, <2>2, CpuFacts DEF GuestPc
  <2> QED
    BY <2>2, <2>3, SyncedTypes
<1>3. CASE phase # "block"
  <2>1. Guest = Seen(cpu, parked)
    BY <1>3, GuestIs
  <2>2. /\ Guest \in CpuState /\ Guest.pc = cpu.pc /\ Guest.a = cpu.a /\ Guest.z = cpu.z
        /\ Guest.mem = cpu.mem /\ Guest.ime = cpu.ime /\ Guest.pend = cpu.pend
        /\ Guest.halted = (cpu.halted /\ ~parked) /\ Guest.stopped = cpu.stopped
        /\ Guest.stack = cpu.stack /\ Guest.clock = cpu.clock
    BY <1>1, <2>1, SeenIs
  <2>3. GuestPc = cpu.pc /\ Guest.clock \in Clocks
    BY <1>3, <2>2, CpuFacts DEF GuestPc
  <2> QED
    BY <2>2, <2>3
<1> QED
  BY <1>2, <1>3

\* The loop that parks would spin.
LEMMA ParkedSpins ==
  ASSUME Inside, parked
  PROVE  Reference!Spins
<1> DEFINE R == Reference!Run
           g == Guest
           pc == GuestPc
<1>1. Typed /\ cpu.halted /\ ~cpu.pend /\ IsPollLoop(pc) /\ cpu.a = 0 /\ cpu.mem = 0 /\ cpu.z = TRUE
  BY DEF Inside, Tracked, ParkOK, HaltOK
<1>2. /\ g \in CpuState /\ g.pc = pc /\ g.a = 0 /\ g.z = TRUE /\ g.mem = 0 /\ ~g.pend
      /\ g.halted = FALSE /\ pc \in Addr /\ g.clock \in Nat
  BY <1>1, GuestTypes, CpuFacts
<1> HIDE DEF g, pc
<1>3. /\ R[0] = Woken(g, irq) /\ R[1] = Exec(code, R[0]) /\ R[2] = Exec(code, R[1])
      /\ R[3] = Exec(code, R[2]) /\ 3 \in 1..RunMax
  <2>1. RunMax \in Nat /\ RunMax >= 3
    BY ReferenceAssumption
  <2>2. 1 \in 1..RunMax /\ 2 \in 1..RunMax /\ 3 \in 1..RunMax /\ 1 - 1 = 0 /\ 2 - 1 = 1 /\ 3 - 1 = 2
    BY <2>1
  <2> QED
    BY <2>2, RunIs DEF g
<1>4. /\ code[pc].op = "lda" /\ code[PcOf(pc, 2)].op = "tst" /\ code[PcOf(pc, 3)].op = "jrz"
      /\ code[PcOf(pc, 3)].to = pc
  <2>1. PcOf(pc, 1) = pc
    BY <1>2, NextPc
  <2> QED
    BY <1>1, <2>1, PollLoopIs DEF OpOf
<1>5. After(pc) = PcOf(pc, 2) /\ After(PcOf(pc, 2)) = PcOf(pc, 3)
  <2>1. PcOf(pc, 1) = pc /\ 1 \in Nat \ {0} /\ 2 \in Nat \ {0} /\ 1 + 1 = 2 /\ 2 + 1 = 3
    BY <1>2, NextPc
  <2> QED
    BY <1>2, <2>1, NextPc
<1> HIDE DEF R
<1>6. code \in [Addr -> Instr] /\ irq \in BOOLEAN
  BY <1>1, OpTypes DEF Typed
<1> DEFINE Like(s) == /\ s \in CpuState /\ s.a = 0 /\ s.z = TRUE /\ s.mem = 0 /\ ~s.pend
                      /\ ~s.halted /\ s.stopped = g.stopped /\ s.stack = g.stack
                      /\ s.ime = g.ime
\* An instruction of the loop changes the pc and the clock.
<1>7. ASSUME NEW s, Like(s), code[s.pc].op \in {"lda", "tst", "jrz"}
      PROVE  /\ Like(Exec(code, s))
             /\ Exec(code, s).pc = Goes(s, code[s.pc])
  <2> DEFINE i == code[s.pc]
             d == Data(s, i)
             e == Exec(code, s)
  <2>1. /\ s \in CpuState /\ s.a = 0 /\ s.z = TRUE /\ s.mem = 0 /\ ~s.pend /\ ~s.halted
        /\ s.stopped = g.stopped /\ s.stack = g.stack /\ s.ime = g.ime
    BY <1>7
  <2>2. d.a = 0 /\ d.z = TRUE /\ d.mem = 0
    <3>1. \/ d = [s EXCEPT !.a = s.mem] \/ d = [s EXCEPT !.z = (s.a = 0)] \/ d = s
      BY <1>7 DEF Data
    <3> HIDE DEF d
    <3> QED
      BY <2>1, <3>1 DEF CpuState
  <2>3. /\ e \in CpuState /\ e.pc = Goes(s, i) /\ e.stack = Stacked(s, i)
        /\ e.a = d.a /\ e.z = d.z /\ e.mem = d.mem
        /\ e.ime = (i.op = "reti" \/ (s.ime /\ i.op # "di") \/ s.pend)
        /\ e.pend = (i.op = "ei" /\ ~s.pend)
        /\ e.halted = (s.halted \/ i.op = "halt") /\ e.stopped = (s.stopped \/ i.op = "stop")
    BY <1>6, <1>7, <2>1, ExecTypes DEF Returns
  <2>4. Stacked(s, i) = s.stack
    BY <1>7 DEF Stacked
  <2>5. s.ime \in BOOLEAN /\ s.stopped \in BOOLEAN
    BY <2>1, CpuFacts
  <2> HIDE DEF d, e
  <2>6. ~e.pend /\ ~e.halted /\ e.ime = s.ime /\ e.stopped = s.stopped
    BY <1>7, <2>1, <2>3, <2>5
  <2> QED
    BY <2>1, <2>2, <2>3, <2>4, <2>6 DEF e
<1>8. R[0] = g
  <2>1. (g.halted /\ ~irq) = g.halted
    BY <1>2
  <2> QED
    BY <1>2, <1>3, <2>1 DEF Woken, CpuState
<1>9. Like(R[0]) /\ R[0].pc = pc
  BY <1>2, <1>8
<1> HIDE DEF Like
<1>10. Like(R[1]) /\ R[1].pc = PcOf(pc, 2)
  <2>1. Goes(R[0], code[pc]) = PcOf(pc, 2)
    BY <1>4, <1>5, <1>9 DEF Goes, Taken
  <2> QED
    BY <1>3, <1>4, <1>7, <1>9, <2>1
<1>11. Like(R[2]) /\ R[2].pc = PcOf(pc, 3)
  <2>1. Goes(R[1], code[R[1].pc]) = PcOf(pc, 3)
    BY <1>4, <1>5, <1>10 DEF Goes, Taken
  <2> QED
    BY <1>3, <1>4, <1>7, <1>10, <2>1
<1>12. Like(R[3]) /\ R[3].pc = pc
  <2>1. R[2].z = TRUE
    BY <1>11 DEF Like
  <2>2. Goes(R[2], code[R[2].pc]) = pc
    BY <1>4, <1>11, <2>1 DEF Goes, Taken
  <2> QED
    BY <1>3, <1>4, <1>7, <1>11, <2>2
<1>13. R[3] = [g EXCEPT !.clock = R[3].clock]
  <2> DEFINE r == R[3]
             h == [g EXCEPT !.clock = r.clock]
  <2>1. r \in CpuState /\ r.clock \in Clocks
    BY <1>12, CpuFacts DEF Like
  <2>2. /\ h \in CpuState /\ h.pc = g.pc /\ h.a = g.a /\ h.z = g.z /\ h.mem = g.mem
        /\ h.ime = g.ime /\ h.pend = g.pend /\ h.halted = g.halted /\ h.stopped = g.stopped
        /\ h.stack = g.stack /\ h.clock = r.clock
    BY <1>2, <2>1 DEF CpuState, Clocks
  <2>3. r.pend = g.pend /\ r.halted = g.halted
    <3>1. r.pend \in BOOLEAN /\ g.pend \in BOOLEAN /\ r.halted \in BOOLEAN
      BY <1>2, <2>1, CpuFacts
    <3> QED
      BY <1>2, <1>12, <3>1 DEF Like
  <2> HIDE DEF h
  <2>4. r = h
    BY <1>2, <1>12, <2>1, <2>2, <2>3, SameCpu DEF Like
  <2> QED
    BY <2>4 DEF h
<1> QED
  BY <1>2, <1>3, <1>13 DEF Reference!Spins, R, g

\* The steps of the abstract specification, as they are needed below.

\* Time may pass for a guest that is halted, or that would spin.
LEMMA MayIdle ==
  ASSUME Inside, cpu.halted
  PROVE  Guest.halted \/ Reference!Spins
<1>1. CASE parked
  BY <1>1, ParkedSpins
<1>2. CASE ~parked
  BY <1>2, GuestTypes DEF Inside
<1> QED
  BY <1>1, <1>2

LEMMA ReferenceIdles ==
  ASSUME NEW t \in Clocks, Guest' = [Guest EXCEPT !.clock = t], UNCHANGED <<code, irq>>,
         Guest.halted \/ Reference!Spins
  PROVE  Reference!Next
<1>1. t \in 0..(Clock - 1)
  BY DEF Clocks
<1>2. Reference!Waits(t)
  BY DEF Reference!Waits
<1>3. Reference!Idle
  BY <1>1, <1>2 DEF Reference!Idle
<1> QED
  BY <1>3 DEF Reference!Next

LEMMA ReferenceExecutes ==
  ASSUME Guest' = Exec(code, Woken(Guest, irq)), ~Woken(Guest, irq).halted,
         UNCHANGED <<code, irq>>
  PROVE  Reference!Next
<1> DEFINE R == Reference!Run
<1>1. 1 \in 1..RunMax
  BY ReferenceAssumption
<1>2. R[0] = Woken(Guest, irq) /\ R[1] = Exec(code, R[1 - 1])
  BY <1>1, RunIs
<1>3. Guest' = R[1] /\ ~R[0].halted
  BY <1>2
<1> HIDE DEF R
<1>4. \A j \in 0..(1 - 1) : ~R[j].halted
  BY <1>3
<1>5. Reference!Execute
  BY <1>1, <1>3, <1>4 DEF Reference!Execute, R
<1> QED
  BY <1>5 DEF Reference!Next

LEMMA ReferenceDispatches ==
  ASSUME NEW t \in Clocks, Guest' = Dispatched([Guest EXCEPT !.clock = t]),
         irq, Guest.ime, ~Guest.pend, irq' = FALSE, code' = code,
         t = Guest.clock \/ Guest.halted \/ Reference!Spins
  PROVE  Reference!Next
<1>1. t \in 0..(Clock - 1)
  BY DEF Clocks
<1>2. Reference!Waits(t)
  BY DEF Reference!Waits
<1>3. Guest' = Reference!Dispatched([Guest EXCEPT !.clock = t])
  BY SameOps
<1>4. Reference!Dispatch
  BY <1>1, <1>2, <1>3 DEF Reference!Dispatch
<1> QED
  BY <1>4 DEF Reference!Next

LEMMA ReferenceWakes ==
  ASSUME NEW t \in Clocks, Guest' = Woken([Guest EXCEPT !.clock = t], irq),
         irq, Guest.halted, UNCHANGED <<code, irq>>
  PROVE  Reference!Next
<1>1. t \in 0..(Clock - 1)
  BY DEF Clocks
<1>2. Guest' = Reference!Woken([Guest EXCEPT !.clock = t], irq)
  BY SameOps
<1>3. Reference!Wake
  BY <1>1, <1>2 DEF Reference!Wake
<1> QED
  BY <1>3 DEF Reference!Next

\* Dispatching an interrupt ends halt mode.
LEMMA DispatchedSeen ==
  ASSUME NEW c \in CpuState, NEW p \in BOOLEAN, NEW q, NEW t \in Clocks
  PROVE  LET d == Dispatched([c EXCEPT !.clock = t]) IN
         /\ Dispatched([Seen(c, p) EXCEPT !.clock = t]) = d
         /\ Seen(d, q) = d /\ d \in CpuState /\ d.halted = FALSE /\ d.pend = c.pend
<1> DEFINE a == [c EXCEPT !.clock = t]
           b == [Seen(c, p) EXCEPT !.clock = t]
           d == Dispatched(a)
           e == Dispatched(b)
<1>1. Seen(c, p) \in CpuState /\ t \in 0..(Clock - 1)
  BY SeenIs DEF Clocks
<1>2. a \in CpuState /\ b \in CpuState
  BY <1>1 DEF CpuState
<1>3. /\ b.pc = a.pc /\ b.a = a.a /\ b.z = a.z /\ b.mem = a.mem /\ b.ime = a.ime
      /\ b.pend = a.pend /\ b.stopped = a.stopped /\ b.stack = a.stack /\ b.clock = a.clock
      /\ a.pend = c.pend
  <2> DEFINE g == Seen(c, p)
  <2>1. /\ g \in CpuState /\ g.pc = c.pc /\ g.a = c.a /\ g.z = c.z /\ g.mem = c.mem
        /\ g.ime = c.ime /\ g.pend = c.pend /\ g.stopped = c.stopped /\ g.stack = c.stack
    BY SeenIs
  <2>2. b = [g EXCEPT !.clock = t]
    OBVIOUS
  <2> HIDE DEF g, b
  <2> QED
    BY <2>1, <2>2 DEF CpuState
<1> HIDE DEF a, b
<1>4. d \in CpuState /\ e \in CpuState
  BY <1>2, ServiceTypes
<1>5. /\ d.pc = Vector /\ d.a = a.a /\ d.z = a.z /\ d.mem = a.mem /\ d.ime = FALSE
      /\ d.pend = a.pend /\ d.halted = FALSE /\ d.stopped = a.stopped
      /\ d.stack = <<a.pc>> \o a.stack /\ d.clock = Ticked(a.clock, 5)
  BY <1>2 DEF Dispatched, CpuState
<1>6. /\ e.pc = Vector /\ e.a = b.a /\ e.z = b.z /\ e.mem = b.mem /\ e.ime = FALSE
      /\ e.pend = b.pend /\ e.halted = FALSE /\ e.stopped = b.stopped
      /\ e.stack = <<b.pc>> \o b.stack /\ e.clock = Ticked(b.clock, 5)
  BY <1>2 DEF Dispatched, CpuState
<1> HIDE DEF d, e
<1>7. e = d
  <2>1. /\ e.pc = d.pc /\ e.a = d.a /\ e.z = d.z /\ e.mem = d.mem /\ e.ime = d.ime
        /\ e.pend = d.pend /\ e.halted = d.halted /\ e.stopped = d.stopped
        /\ e.stack = d.stack /\ e.clock = d.clock
    BY <1>3, <1>5, <1>6
  <2> QED
    BY <1>4, <2>1, SameCpu
<1>8. Seen(d, q) = d
  <2>1. (d.halted /\ ~q) = d.halted
    BY <1>5
  <2> QED
    BY <1>4, <2>1 DEF Seen, CpuState
<1> QED
  BY <1>3, <1>4, <1>5, <1>7, <1>8 DEF a, b, d, e

\* sm83_service_interrupts, called by the loop for c, after t cycles of halt mode.
LEMMA ServiceImplements ==
  ASSUME Inside, ~(cpu.ime /\ cpu.pend), NEW t \in Clocks, phase # "block", phase' # "block",
         code' = code, cpu' = Service([cpu EXCEPT !.clock = t], irq),
         IF irq THEN Serve(cpu) ELSE UNCHANGED <<irq, parked>>,
         t = cpu.clock \/ cpu.halted
  PROVE  Reference!Next \/ UNCHANGED <<code, Guest, irq>>
<1> DEFINE c == [cpu EXCEPT !.clock = t]
<1>1. cpu \in CpuState /\ parked \in BOOLEAN /\ irq \in BOOLEAN /\ cpu.halted \in BOOLEAN
      /\ cpu.ime \in BOOLEAN /\ (parked => cpu.halted)
  BY CpuFacts DEF Inside, Typed, Tracked, ParkOK
<1>2. Guest = Seen(cpu, parked) /\ Guest' = Seen(cpu', parked')
  BY GuestIs DEF Guest, Seen
<1>3. /\ Guest \in CpuState /\ Guest.ime = cpu.ime /\ Guest.pend = cpu.pend
      /\ Guest.halted = (cpu.halted /\ ~parked) /\ Guest.clock = cpu.clock
  <2>1. Guest.clock = cpu.clock
    BY <1>1, <1>2 DEF Seen, CpuState
  <2> QED
    BY <2>1, GuestTypes DEF Inside
<1>4. t = Guest.clock \/ Guest.halted \/ Reference!Spins
  BY <1>3, MayIdle
<1>5. c \in CpuState /\ c.halted = cpu.halted /\ c.ime = cpu.ime
  BY <1>1 DEF CpuState, Clocks
<1>6. CASE irq /\ cpu.ime
  <2>1. cpu' = Dispatched(c) /\ irq' = FALSE
    BY <1>1, <1>5, <1>6 DEF Service, Serve
  <2>2. Guest' = Dispatched([Guest EXCEPT !.clock = t])
    <3>1. Seen(Dispatched(c), parked') = Dispatched(c)
      BY <1>1, DispatchedSeen
    <3>2. Dispatched([Seen(cpu, parked) EXCEPT !.clock = t]) = Dispatched(c)
      BY <1>1, DispatchedSeen
    <3> QED
      BY <1>2, <2>1, <3>1, <3>2
  <2> QED
    BY <1>3, <1>4, <1>6, <2>1, <2>2, ReferenceDispatches
<1>7. CASE irq /\ ~cpu.ime
  <2>1. cpu' = Woken(c, irq) /\ irq' = irq /\ parked' = FALSE
    BY <1>1, <1>5, <1>7 DEF Service, Serve
  <2>2. Guest' = [c EXCEPT !.halted = FALSE]
    <3>1. (c.halted /\ ~irq) = FALSE /\ (FALSE /\ ~parked') = FALSE
      BY <1>7
    <3>2. cpu' = [c EXCEPT !.halted = FALSE]
      BY <2>1, <3>1 DEF Woken
    <3>3. cpu' \in CpuState /\ cpu'.halted = FALSE
      BY <1>5, <3>2 DEF CpuState
    <3>4. Guest' = cpu'
      BY <1>2, <2>1, <3>3, SeenIs
    <3> QED
      BY <3>2, <3>4
  <2>3. [[Guest EXCEPT !.clock = t] EXCEPT !.halted = FALSE] = [c EXCEPT !.halted = FALSE]
    BY <1>1, <1>2 DEF Seen, CpuState
  <2>4. CASE Guest.halted
    <3>1. Guest' = Woken([Guest EXCEPT !.clock = t], irq)
      <4> DEFINE h == [Guest EXCEPT !.clock = t]
      <4>1. (h.halted /\ ~irq) = FALSE
        BY <1>7
      <4>2. Woken(h, irq) = [h EXCEPT !.halted = FALSE]
        BY <4>1 DEF Woken
      <4> QED
        BY <2>2, <2>3, <4>2
    <3> QED
      BY <1>7, <2>1, <2>4, <3>1, ReferenceWakes
  <2>5. CASE ~Guest.halted
    <3>1. Guest' = [Guest EXCEPT !.clock = t]
      <4> DEFINE h == [Guest EXCEPT !.clock = t]
      <4>1. h \in CpuState /\ h.halted = FALSE
        BY <1>3, <2>5, CpuFacts DEF CpuState, Clocks
      <4>2. [h EXCEPT !.halted = FALSE] = h
        BY <4>1 DEF CpuState
      <4> QED
        BY <2>2, <2>3, <4>2
    <3>2. CASE t = cpu.clock
      <4>1. Guest' = Guest
        BY <1>3, <3>1, <3>2 DEF CpuState
      <4> QED
        BY <2>1, <4>1
    <3>3. CASE cpu.halted
      BY <2>1, <3>1, <3>3, MayIdle, ReferenceIdles
    <3> QED
      BY <3>2, <3>3
  <2> QED
    BY <2>4, <2>5
<1>8. CASE ~irq
  <2>1. irq = FALSE /\ irq' = irq /\ parked' = parked
    BY <1>1, <1>8
  <2>2. cpu' = c
    <3>1. cpu' = Woken(c, FALSE)
      BY <2>1 DEF Service
    <3> QED
      BY <1>5, <3>1, ServiceTypes
  <2>3. Guest' = [Guest EXCEPT !.clock = t]
    BY <1>1, <1>2, <2>1, <2>2 DEF Seen, CpuState
  <2>4. CASE t = cpu.clock
    <3>1. Guest' = Guest
      BY <1>3, <2>3, <2>4 DEF CpuState
    <3> QED
      BY <2>1, <3>1
  <2>5. CASE cpu.halted
    BY <2>1, <2>3, <2>5, MayIdle, ReferenceIdles
  <2> QED
    BY <2>4, <2>5
<1> QED
  BY <1>1, <1>6, <1>7, <1>8

\* A call of sm83_step, by the loop or from inside a block, for the processor in c.
LEMMA CallImplements ==
  ASSUME Inside, ~(cpu.ime /\ cpu.pend), NEW c \in CpuState, CallStep(c), code' = code,
         c.halted = cpu.halted, c.ime = cpu.ime, c.pend = cpu.pend,
         Guest = Seen(c, parked), Guest' = Seen(cpu', parked'), cpu' \in CpuState
  PROVE  Reference!Next \/ UNCHANGED <<code, Guest, irq>>
<1>1. /\ parked \in BOOLEAN /\ irq \in BOOLEAN /\ c.halted \in BOOLEAN /\ c.pend \in BOOLEAN
      /\ c.ime \in BOOLEAN /\ (parked => c.halted) /\ (c.halted => ~c.pend) /\ c.clock \in Clocks
      /\ c.clock \in Nat
  BY CpuFacts DEF Inside, Typed, Tracked, ParkOK, HaltOK
<1>2. cpu' = Step(code, c, irq) /\ irq' = (irq /\ ~c.ime) /\ parked' = (parked /\ ~irq)
  BY DEF CallStep, Serve
<1>3. /\ Guest \in CpuState /\ Guest.ime = c.ime /\ Guest.pend = c.pend
      /\ Guest.halted = (c.halted /\ ~parked) /\ Guest.clock = c.clock
  <2>1. Guest.clock = c.clock /\ Guest.ime = c.ime /\ Guest.pend = c.pend
    BY DEF Seen, CpuState
  <2> QED
    BY <2>1, GuestTypes DEF Inside
<1>4. CASE irq /\ c.ime
  <2> DEFINE d == Dispatched([c EXCEPT !.clock = c.clock])
  <2>1. c.pend = FALSE /\ irq' = FALSE
    BY <1>1, <1>2, <1>4
  <2>2. [c EXCEPT !.clock = c.clock] = c
    BY DEF CpuState
  <2>3. cpu' = d
    <3>1. cpu' = Promoted(Dispatched(c), FALSE)
      BY <1>1, <1>2, <1>4, <2>1, StepIs
    <3> QED
      BY <2>2, <3>1 DEF Promoted
  <2>4. Seen(d, parked') = d /\ Dispatched([Seen(c, parked) EXCEPT !.clock = c.clock]) = d
    <3> DEFINE t == c.clock
    <3>1. t \in Clocks /\ d = Dispatched([c EXCEPT !.clock = t])
      BY <1>1
    <3> HIDE DEF t, d
    <3>2. Seen(d, parked') = d
      <4>1. d \in CpuState /\ d.halted = FALSE
        BY <1>1, <3>1, DispatchedSeen
      <4>2. (d.halted /\ ~parked') = d.halted
        BY <4>1
      <4> QED
        BY <4>1, <4>2 DEF Seen, CpuState
    <3>3. Dispatched([Seen(c, parked) EXCEPT !.clock = t]) = d
      BY <1>1, <3>1, DispatchedSeen
    <3> QED
      BY <3>2, <3>3 DEF t
  <2> HIDE DEF d
  <2>5. Guest' = Dispatched([Guest EXCEPT !.clock = c.clock])
    BY <2>3, <2>4
  <2> QED
    BY <1>1, <1>3, <1>4, <2>1, <2>5, ReferenceDispatches
<1>5. CASE ~(irq /\ c.ime) /\ c.halted /\ ~irq
  <2> DEFINE t == Ticked(c.clock, 1)
  <2>1. c.pend = FALSE /\ irq' = irq /\ parked' = parked
    BY <1>1, <1>2, <1>5
  <2>2. t \in Clocks
    BY <1>1, TickedTypes
  <2>3. cpu' = [c EXCEPT !.clock = t]
    <3>1. cpu' = Promoted([c EXCEPT !.clock = t], FALSE)
      BY <1>1, <1>2, <1>5, <2>1, StepIs
    <3> QED
      BY <3>1 DEF Promoted
  <2> HIDE DEF t
  <2>4. Guest' = [Guest EXCEPT !.clock = t]
    BY <1>1, <2>1, <2>3 DEF Seen, CpuState
  <2>5. Guest.halted \/ Reference!Spins
    BY <1>5, MayIdle
  <2> QED
    BY <2>1, <2>2, <2>4, <2>5, ReferenceIdles
<1>6. CASE ~(irq /\ c.ime) /\ (c.halted => irq)
  <2> DEFINE w == [c EXCEPT !.halted = FALSE]
  <2>1. irq' = irq /\ parked' = FALSE
    BY <1>1, <1>2, <1>6
  <2>2. cpu' = Exec(code, w)
    BY <1>1, <1>2, <1>6, StepIs
  <2>3. Guest' = cpu'
    BY <2>1, SeenIs
  <2>4. Woken(Guest, irq) = w /\ w.halted = FALSE
    <3>1. (Guest.halted /\ ~irq) = FALSE
      BY <1>1, <1>3, <1>6
    <3>2. Woken(Guest, irq) = [Guest EXCEPT !.halted = FALSE]
      BY <3>1 DEF Woken
    <3> QED
      BY <3>2 DEF Seen, CpuState
  <2> HIDE DEF w
  <2> QED
    BY <2>1, <2>2, <2>3, <2>4, ReferenceExecutes
<1> QED
  BY <1>1, <1>4, <1>5, <1>6

\* Entering a block and leaving it change nothing that a guest can see.
LEMMA EnterStutters ==
  ASSUME Typed, phase # "block", phase' = "block", UNCHANGED <<code, cpu, irq, parked>>,
         blk' = Entered(cpu.pc)
  PROVE  UNCHANGED <<code, Guest, irq>>
<1>1. cpu \in CpuState /\ cpu.pc \in Addr /\ cpu.clock \in Clocks
  BY CpuFacts DEF Typed
<1>2. blk'.a11 = cpu.pc /\ blk'.a12 = 0
  BY <1>1, EnteredTypes
<1>3. Synced' = [cpu EXCEPT !.pc = cpu.pc, !.clock = Ticked(cpu.clock, 0)]
  BY <1>2 DEF Synced
<1>4. Ticked(cpu.clock, 0) = cpu.clock
  BY <1>1, TickedNone
<1>5. Synced' = cpu
  BY <1>1, <1>3, <1>4 DEF CpuState
<1>6. Guest = [cpu EXCEPT !.halted = cpu.halted /\ ~parked]
  BY DEF Guest
<1>7. Guest' = [Synced' EXCEPT !.halted = cpu'.halted /\ ~parked']
  BY DEF Guest
<1> QED
  BY <1>5, <1>6, <1>7

LEMMA EpilogueStutters ==
  ASSUME Typed, phase = "block", phase' # "block", UNCHANGED <<code, irq, parked>>, cpu' = Synced
  PROVE  UNCHANGED <<code, Guest, irq>>
<1>1. Guest = [Synced EXCEPT !.halted = cpu.halted /\ ~parked]
  BY DEF Guest
<1>2. Guest' = [cpu' EXCEPT !.halted = cpu'.halted /\ ~parked']
  BY DEF Guest
<1>3. cpu'.halted = cpu.halted
  BY SyncedTypes
<1> QED
  BY <1>1, <1>2, <1>3

LEMMA HelperImplements ==
  ASSUME Inside, Balanced, ~(cpu.ime /\ cpu.pend), HelperOp
  PROVE  Reference!Next \/ UNCHANGED <<code, Guest, irq>>
<1>1. /\ InBlock /\ CallStep(Synced) /\ UNCHANGED <<code, phase>> /\ phase = "block"
      /\ blk' = [blk EXCEPT !.at = blk.at + 1, !.a11 = cpu'.pc, !.a12 = 0]
  BY DEF HelperOp, Reloaded, InBlock
<1>2. /\ Synced \in CpuState /\ Synced.halted = cpu.halted /\ Synced.ime = cpu.ime
      /\ Synced.pend = cpu.pend
  BY SyncedTypes DEF Inside
<1>3. cpu' \in CpuState
  BY HelperTyped DEF Inside, Typed
<1>4. Guest = Seen(Synced, parked)
  BY <1>1, GuestIs
<1>5. Synced' = cpu'
  <2>1. blk'.a11 = cpu'.pc /\ blk'.a12 = 0
    BY <1>1 DEF Inside, Typed, BlkState
  <2>2. cpu'.clock \in Clocks
    BY <1>3, CpuFacts
  <2>3. Ticked(cpu'.clock, 0) = cpu'.clock
    BY <2>2, TickedNone
  <2>4. Synced' = [cpu' EXCEPT !.pc = cpu'.pc, !.clock = cpu'.clock]
    BY <2>1, <2>3 DEF Synced
  <2> QED
    BY <1>3, <2>4 DEF CpuState
<1>6. Guest' = Seen(cpu', parked')
  <2>1. Guest' = [Synced' EXCEPT !.halted = cpu'.halted /\ ~parked']
    BY <1>1 DEF Guest
  <2> QED
    BY <1>5, <2>1 DEF Seen
<1> QED
  BY <1>1, <1>2, <1>3, <1>4, <1>6, CallImplements

LEMMA InlineImplements ==
  ASSUME Inside, Balanced, InlineOp
  PROVE  Reference!Next
<1> DEFINE i == Current
           here == [cpu EXCEPT !.pc = PcOf(blk.start, blk.at)]
           taken == Taken(cpu, i)
           parks == IsPollLoop(blk.start) /\ i.op = "jrz" /\ taken
           s == Synced
           e == Exec(code, s)
           n == InlineCycles(i, taken)
<1>1. /\ cpu' \in CpuState /\ here \in CpuState /\ i \in Instr
      /\ here.pc = PcOf(blk.start, blk.at) /\ here.z = cpu.z /\ here.stack = cpu.stack
      /\ cpu'.a = Data(cpu, i).a /\ cpu'.z = Data(cpu, i).z
      /\ cpu'.mem = Data(cpu, i).mem /\ cpu'.stack = Stacked(here, i)
      /\ cpu'.halted = (i.op = "halt" \/ parks) /\ ~cpu'.pend
      /\ cpu'.ime = cpu.ime /\ cpu'.stopped = cpu.stopped /\ cpu'.clock = cpu.clock
      /\ parked' = parks /\ taken \in BOOLEAN
      /\ blk' \in BlkState
      /\ blk'.a11 = IF Terminates(i) /\ i.op # "halt" THEN Goes(here, i) ELSE After(blk.a11)
      /\ blk'.a12 = blk.a12 + n
      /\ UNCHANGED <<code, irq, phase>> /\ InBlock /\ Inlined(i)
      /\ ~cpu.halted /\ ~cpu.pend /\ ~parked
  BY InlineIs DEF Inside
<1>2. /\ cpu \in CpuState /\ blk.a11 = PcOf(blk.start, blk.at) /\ phase = "block"
      /\ code[blk.a11] = i /\ irq \in BOOLEAN /\ blk.a12 \in Nat /\ cpu.clock \in Nat
      /\ code \in [Addr -> Instr]
  BY <1>1, OpTypes, CpuFacts
  DEF Inside, Typed, Tracked, InsideOK, InBlock, Current, OpOf, BlkState
<1>3. /\ s \in CpuState /\ s.pc = blk.a11 /\ s.a = cpu.a /\ s.z = cpu.z /\ s.mem = cpu.mem
      /\ s.ime = cpu.ime /\ s.pend = cpu.pend /\ s.halted = cpu.halted /\ s.stopped = cpu.stopped
      /\ s.stack = cpu.stack /\ s.clock = Ticked(cpu.clock, blk.a12)
  BY SyncedTypes DEF Inside
<1>4. i.op \in Returns => cpu.stack # << >>
  BY <1>1 DEF Balanced, AtReturn
<1> HIDE DEF i, here, s
<1>5. /\ i.op \notin {"incm", "stio", "reti", "ei", "di", "stop"} /\ i.op \in Ops
  BY <1>1 DEF Inlined, Instr
<1>6. /\ e \in CpuState /\ e.pc = Goes(s, i) /\ e.stack = Stacked(s, i)
      /\ e.clock = Ticked(s.clock, Cycles(i, Taken(s, i)))
      /\ e.a = Data(s, i).a /\ e.z = Data(s, i).z /\ e.mem = Data(s, i).mem
      /\ e.ime = (i.op = "reti" \/ (s.ime /\ i.op # "di") \/ s.pend)
      /\ e.pend = (i.op = "ei" /\ ~s.pend)
      /\ e.halted = (s.halted \/ i.op = "halt") /\ e.stopped = (s.stopped \/ i.op = "stop")
  BY <1>2, <1>3, <1>4, ExecTypes
<1>7. Data(s, i).a = Data(cpu, i).a /\ Data(s, i).z = Data(cpu, i).z /\ Data(s, i).mem = Data(cpu, i).mem
  BY <1>2, <1>3, DataReads
<1>8. Taken(s, i) = taken /\ Taken(here, i) = taken
  BY <1>1, <1>3 DEF Taken
<1>9. e.pc = blk'.a11 /\ e.stack = cpu'.stack
  <2>1. Stacked(s, i) = Stacked(here, i)
    BY <1>1, <1>2, <1>3 DEF Stacked
  <2>2. Goes(s, i) = Goes(here, i)
    BY <1>1, <1>2, <1>3, <1>8 DEF Goes
  <2>3. ~(Terminates(i) /\ i.op # "halt") => Goes(s, i) = After(blk.a11)
    BY <1>3, <1>5 DEF Terminates, Goes, Taken, Jumps
  <2> QED
    BY <1>1, <1>6, <2>1, <2>2, <2>3
<1>10. e.clock = Ticked(cpu.clock, blk'.a12)
  <2>1. n = Cycles(i, taken) /\ n \in Nat
    BY <1>1, CyclesTypes
  <2> HIDE DEF n
  <2>2. Ticked(Ticked(cpu.clock, blk.a12), n) = Ticked(cpu.clock, blk.a12 + n)
    BY <1>2, <2>1, TickedTwice
  <2> QED
    BY <1>1, <1>3, <1>6, <1>8, <2>1, <2>2
<1>11. /\ e.ime = cpu.ime /\ e.pend = FALSE /\ e.halted = (i.op = "halt")
       /\ e.stopped = cpu.stopped
  <2>1. /\ cpu.ime \in BOOLEAN /\ cpu.stopped \in BOOLEAN
    BY <1>2, CpuFacts
  <2> QED
    BY <1>1, <1>3, <1>5, <1>6, <2>1
<1> DEFINE g == [cpu' EXCEPT !.pc = blk'.a11, !.clock = Ticked(cpu'.clock, blk'.a12),
                             !.halted = cpu'.halted /\ ~parked']
<1>12. Guest' = g
  <2>1. Guest' = [Synced' EXCEPT !.halted = cpu'.halted /\ ~parked']
    BY <1>1, <1>2 DEF Guest
  <2> QED
    BY <2>1 DEF Synced
<1>13. (cpu'.halted /\ ~parked') = (i.op = "halt")
  <2>1. parks => i.op # "halt"
    OBVIOUS
  <2> QED
    BY <1>1, <2>1
<1>14. Ticked(cpu'.clock, blk'.a12) = e.clock /\ e.clock \in Clocks /\ blk'.a11 \in Addr
  BY <1>1, <1>6, <1>10, CpuFacts DEF BlkState
<1>15. g = [cpu' EXCEPT !.pc = e.pc, !.clock = e.clock, !.halted = (i.op = "halt")]
  BY <1>9, <1>13, <1>14
<1> HIDE DEF e, g
<1>16. /\ g \in CpuState /\ g.pc = e.pc /\ g.a = cpu'.a /\ g.z = cpu'.z /\ g.mem = cpu'.mem
       /\ g.ime = cpu'.ime /\ g.pend = cpu'.pend /\ g.halted = (i.op = "halt")
       /\ g.stopped = cpu'.stopped /\ g.stack = cpu'.stack /\ g.clock = e.clock
  <2>1. e.pc \in Addr /\ e.clock \in 0..(Clock - 1) /\ (i.op = "halt") \in BOOLEAN
    BY <1>9, <1>14 DEF Clocks
  <2>2. cpu' \in CpuState
    BY <1>1
  <2> QED
    BY <1>15, <2>1, <2>2 DEF CpuState
<1>17. g = e
  <2>1. cpu'.pend = FALSE
    BY <1>1, CpuFacts
  <2>2. /\ g.pc = e.pc /\ g.a = e.a /\ g.z = e.z /\ g.mem = e.mem /\ g.ime = e.ime
        /\ g.pend = e.pend /\ g.halted = e.halted /\ g.stopped = e.stopped
        /\ g.stack = e.stack /\ g.clock = e.clock
    BY <1>1, <1>6, <1>7, <1>9, <1>11, <1>16, <2>1
  <2>3. g \in CpuState /\ e \in CpuState
    BY <1>6, <1>16
  <2> QED
    BY <2>2, <2>3, SameCpu
<1>18. Woken(Guest, irq) = s /\ ~s.halted
  <2>1. Guest = s
    <3>1. Guest = Seen(s, parked)
      BY <1>2, GuestIs DEF s
    <3> QED
      BY <1>1, <1>2, <1>3, <3>1, SeenIs DEF Inside, Typed
  <2>2. s.halted = FALSE /\ (s.halted /\ ~irq) = FALSE
    BY <1>1, <1>3, CpuFacts
  <2>3. Woken(s, irq) = [s EXCEPT !.halted = FALSE]
    BY <2>2 DEF Woken
  <2> QED
    BY <1>3, <2>1, <2>2, <2>3 DEF CpuState
<1> QED
  BY <1>1, <1>12, <1>17, <1>18, ReferenceExecutes DEF e

-----------------------------------------------------------------------------
(* DEC A; JR NZ,-3 *)

\* The processor g at pc, with the register, the flag and the clock of the loop.
Counted(g, pc, a, z, t) == [g EXCEPT !.pc = pc, !.a = a, !.z = z, !.clock = t]

LEMMA CountedIs ==
  ASSUME NEW g \in CpuState, NEW pc \in Addr, NEW a \in Byte, NEW z \in BOOLEAN, NEW t \in Clocks
  PROVE  LET s == Counted(g, pc, a, z, t) IN
         /\ s \in CpuState /\ s.pc = pc /\ s.a = a /\ s.z = z /\ s.clock = t
         /\ s.mem = g.mem /\ s.ime = g.ime /\ s.pend = g.pend /\ s.halted = g.halted
         /\ s.stopped = g.stopped /\ s.stack = g.stack
  BY DEF Counted, CpuState, Clocks

LEMMA CountedNot ==
  ASSUME NEW g \in CpuState
  PROVE  Counted(g, g.pc, g.a, g.z, g.clock) = g
  BY DEF Counted, CpuState

LEMMA CountedTwice ==
  ASSUME NEW g \in CpuState, NEW pc \in Addr, NEW a \in Byte, NEW z \in BOOLEAN, NEW t \in Clocks,
         NEW pd \in Addr, NEW b \in Byte, NEW y \in BOOLEAN, NEW u \in Clocks
  PROVE  Counted(Counted(g, pc, a, z, t), pd, b, y, u) = Counted(g, pd, b, y, u)
  BY DEF Counted, CpuState, Clocks

\* One instruction of the loop.
LEMMA LoopSteps ==
  ASSUME NEW p \in [Addr -> Instr], NEW s \in CpuState, ~s.halted, ~s.pend,
         p[s.pc].op \in {"dec", "jrnz"}
  PROVE  LET down == (s.a + ByteSize - 1) % ByteSize IN
         /\ p[s.pc].op = "dec" =>
              Exec(p, s) = Counted(s, After(s.pc), down, (down = 0), Ticked(s.clock, 1))
         /\ p[s.pc].op = "jrnz" =>
              Exec(p, s) = Counted(s, IF s.z THEN After(s.pc) ELSE p[s.pc].to, s.a, s.z,
                                   Ticked(s.clock, IF s.z THEN 2 ELSE 3))
<1> DEFINE i == p[s.pc]
           d == Data(s, i)
           e == Exec(p, s)
           down == (s.a + ByteSize - 1) % ByteSize
<1>1. /\ s.pc \in Addr /\ s.a \in Byte /\ s.z \in BOOLEAN /\ s.ime \in BOOLEAN
      /\ s.stopped \in BOOLEAN /\ s.halted = FALSE /\ s.pend = FALSE /\ s.clock \in Nat
      /\ s.stack \in Seq(Addr)
  BY CpuFacts
<1>2. i \in Instr /\ i.to \in Addr /\ After(s.pc) \in Addr /\ down \in Byte
  BY <1>1, InstrFacts, AddrFacts, ByteFacts
<1>3. /\ e \in CpuState /\ e.pc = Goes(s, i) /\ e.stack = Stacked(s, i)
      /\ e.clock = Ticked(s.clock, Cycles(i, Taken(s, i)))
      /\ e.a = d.a /\ e.z = d.z /\ e.mem = d.mem
      /\ e.ime = (i.op = "reti" \/ (s.ime /\ i.op # "di") \/ s.pend)
      /\ e.pend = (i.op = "ei" /\ ~s.pend)
      /\ e.halted = (s.halted \/ i.op = "halt") /\ e.stopped = (s.stopped \/ i.op = "stop")
  BY ExecTypes DEF Returns
<1>4. /\ e.ime = s.ime /\ e.pend = FALSE /\ e.halted = FALSE /\ e.stopped = s.stopped
      /\ e.stack = s.stack
  <2>1. Stacked(s, i) = s.stack
    BY DEF Stacked
  <2> HIDE DEF e, i
  <2> QED
    BY <1>1, <1>3, <2>1 DEF i
<1>5. /\ \A t \in Nat : Ticked(s.clock, t) \in Clocks
  BY <1>1, TickedTypes
<1>6. ASSUME i.op = "dec"
      PROVE  e = Counted(s, After(s.pc), down, (down = 0), Ticked(s.clock, 1))
  <2> DEFINE c == Counted(s, After(s.pc), down, (down = 0), Ticked(s.clock, 1))
  <2>1. d = [[s EXCEPT !.a = down] EXCEPT !.z = (down = 0)]
    BY <1>6 DEF Data
  <2>2. d.a = down /\ d.z = (down = 0) /\ d.mem = s.mem
    <3> HIDE DEF d, down
    <3> QED
      BY <2>1 DEF CpuState
  <2>3. Goes(s, i) = After(s.pc) /\ Cycles(i, Taken(s, i)) = 1
    <3>1. Goes(s, i) = After(s.pc)
      BY <1>6 DEF Goes, Taken
    <3>2. Cycles(i, Taken(s, i)) = 1
      BY <1>6 DEF Cycles, Jumps
    <3> QED
      BY <3>1, <3>2
  <2>4. (down = 0) \in BOOLEAN /\ Ticked(s.clock, 1) \in Clocks
    BY <1>5
  <2> DEFINE y == (down = 0)
             t == Ticked(s.clock, 1)
  <2>5. /\ c \in CpuState /\ c.pc = After(s.pc) /\ c.a = down /\ c.z = y
        /\ c.clock = t /\ c.mem = s.mem /\ c.ime = s.ime /\ c.pend = s.pend
        /\ c.halted = s.halted /\ c.stopped = s.stopped /\ c.stack = s.stack
    <3>1. y \in BOOLEAN /\ t \in Clocks /\ c = Counted(s, After(s.pc), down, y, t)
      BY <2>4
    <3> HIDE DEF c, y, t, down
    <3> QED
      BY <1>2, <3>1, CountedIs
  <2> HIDE DEF c, e, d, down
  <2>6. /\ e.pc = c.pc /\ e.a = c.a /\ e.z = c.z /\ e.mem = c.mem /\ e.ime = c.ime
        /\ e.pend = c.pend /\ e.halted = c.halted /\ e.stopped = c.stopped
        /\ e.stack = c.stack /\ e.clock = c.clock
    BY <1>1, <1>3, <1>4, <2>2, <2>3, <2>5
  <2>7. e = c
    BY <1>3, <2>5, <2>6, SameCpu
  <2> QED
    BY <2>7 DEF c
<1>7. ASSUME i.op = "jrnz"
      PROVE  e = Counted(s, IF s.z THEN After(s.pc) ELSE i.to, s.a, s.z,
                         Ticked(s.clock, IF s.z THEN 2 ELSE 3))
  <2> DEFINE q == IF s.z THEN After(s.pc) ELSE i.to
             k == IF s.z THEN 2 ELSE 3
             t == Ticked(s.clock, k)
             c == Counted(s, q, s.a, s.z, t)
  <2>1. d = s
    BY <1>7 DEF Data
  <2>2. Goes(s, i) = q /\ Cycles(i, Taken(s, i)) = k
    BY <1>7 DEF Goes, Taken, Cycles, Jumps
  <2>3. q \in Addr /\ k \in Nat
    BY <1>2
  <2>4. t \in Clocks
    BY <1>5, <2>3
  <2> HIDE DEF q, k
  <2>5. /\ c \in CpuState /\ c.pc = q /\ c.a = s.a /\ c.z = s.z
        /\ c.clock = t /\ c.mem = s.mem /\ c.ime = s.ime /\ c.pend = s.pend
        /\ c.halted = s.halted /\ c.stopped = s.stopped /\ c.stack = s.stack
    BY <1>1, <2>3, <2>4, CountedIs
  <2> HIDE DEF c, e, d
  <2>6. /\ e.pc = c.pc /\ e.a = c.a /\ e.z = c.z /\ e.mem = c.mem /\ e.ime = c.ime
        /\ e.pend = c.pend /\ e.halted = c.halted /\ e.stopped = c.stopped
        /\ e.stack = c.stack /\ e.clock = c.clock
    BY <1>1, <1>3, <1>4, <2>1, <2>2, <2>5
  <2>7. e = c
    BY <1>3, <2>5, <2>6, SameCpu
  <2> QED
    BY <2>7 DEF c, q, k
<1> QED
  BY <1>6, <1>7

LEMMA Down ==
  ASSUME NEW a \in Byte
  PROVE  (a + ByteSize - 1) % ByteSize = IF a = 0 THEN ByteSize - 1 ELSE a - 1
<1>1. ByteSize \in Nat \ {0} /\ a \in Nat /\ a < ByteSize
  BY ByteFacts DEF Byte
<1>2. CASE a = 0
  <2>1. a + ByteSize - 1 = ByteSize - 1 /\ ByteSize - 1 \in 0..(ByteSize - 1)
    BY <1>1, <1>2
  <2> QED
    BY <1>1, <1>2, <2>1, DivisionSmall
<1>3. CASE a # 0
  <2>1. /\ a + ByteSize - 1 \in Nat /\ a + ByteSize - 1 = ByteSize * 1 + (a - 1)
        /\ a - 1 \in 0..(ByteSize - 1) /\ 1 \in Int
    BY <1>1, <1>3
  <2> QED
    BY <1>1, <1>3, <2>1, DivisionIs
<1> QED
  BY <1>2, <1>3

\* Its two instructions, from a round that began in g.
LEMMA LoopDec ==
  ASSUME NEW p \in [Addr -> Instr], NEW g \in CpuState, ~g.halted, ~g.pend,
         NEW a \in Byte, NEW z \in BOOLEAN, NEW k \in Nat, NEW b \in Byte, NEW y \in BOOLEAN,
         p[g.pc].op = "dec", b = (a + ByteSize - 1) % ByteSize, y <=> b = 0
  PROVE  /\ Exec(p, Counted(g, g.pc, a, z, Ticked(g.clock, k)))
              = Counted(g, After(g.pc), b, y, Ticked(g.clock, k + 1))
         /\ ~Counted(g, g.pc, a, z, Ticked(g.clock, k)).halted
<1> DEFINE t == Ticked(g.clock, k)
           u == Ticked(g.clock, k + 1)
           s == Counted(g, g.pc, a, z, t)
<1>1. /\ g.pc \in Addr /\ After(g.pc) \in Addr /\ g.clock \in Nat
  BY CpuFacts, AddrFacts
<1>2. t \in Clocks /\ u \in Clocks /\ k + 1 \in Nat
  <2>1. k + 1 \in Nat
    OBVIOUS
  <2> QED
    BY <1>1, <2>1, TickedTypes
<1>3. Ticked(t, 1) = u
  <2>1. g.clock \in Nat /\ k \in Nat /\ 1 \in Nat
    BY <1>1
  <2> QED
    BY <2>1, TickedTwice
<1> HIDE DEF t, u
<1>4. /\ s \in CpuState /\ s.pc = g.pc /\ s.a = a /\ s.clock = t
      /\ s.halted = g.halted /\ s.pend = g.pend
  BY <1>1, <1>2, CountedIs
<1> HIDE DEF s
<1>5. Exec(p, s) = Counted(s, After(g.pc), b, y, u)
  <2>1. Exec(p, s) = Counted(s, After(s.pc), (s.a + ByteSize - 1) % ByteSize,
                             ((s.a + ByteSize - 1) % ByteSize = 0), Ticked(s.clock, 1))
    <3>1. p[s.pc].op = "dec" /\ ~s.halted /\ ~s.pend
      BY <1>4
    <3> QED
      BY <1>4, <3>1, LoopSteps
  <2>2. /\ (s.a + ByteSize - 1) % ByteSize = b /\ After(s.pc) = After(g.pc)
        /\ Ticked(s.clock, 1) = u
    BY <1>3, <1>4
  <2>3. ((s.a + ByteSize - 1) % ByteSize = 0) = y
    <3>1. CASE b = 0
      BY <2>2, <3>1
    <3>2. CASE b # 0
      BY <2>2, <3>2
    <3> QED
      BY <3>1, <3>2
  <2> QED
    BY <2>1, <2>2, <2>3
<1>6. Counted(s, After(g.pc), b, y, u) = Counted(g, After(g.pc), b, y, u)
  <2>1. s = Counted(g, g.pc, a, z, t)
    BY DEF s
  <2> QED
    BY <1>1, <1>2, <2>1, CountedTwice
<1> QED
  BY <1>4, <1>5, <1>6 DEF s, t, u

LEMMA LoopJump ==
  ASSUME NEW p \in [Addr -> Instr], NEW g \in CpuState, ~g.halted, ~g.pend,
         NEW a \in Byte, NEW z \in BOOLEAN, NEW k \in Nat, NEW q \in Addr, NEW c \in Nat,
         p[After(g.pc)].op = "jrnz", p[After(g.pc)].to = g.pc,
         q = (IF z THEN After(After(g.pc)) ELSE g.pc), c = (IF z THEN 2 ELSE 3)
  PROVE  /\ Exec(p, Counted(g, After(g.pc), a, z, Ticked(g.clock, k)))
              = Counted(g, q, a, z, Ticked(g.clock, k + c))
         /\ ~Counted(g, After(g.pc), a, z, Ticked(g.clock, k)).halted
<1> DEFINE t == Ticked(g.clock, k)
           u == Ticked(g.clock, k + c)
           s == Counted(g, After(g.pc), a, z, t)
<1>1. /\ g.pc \in Addr /\ After(g.pc) \in Addr /\ g.clock \in Nat
  BY CpuFacts, AddrFacts
<1>2. t \in Clocks /\ u \in Clocks
  <2>1. k + c \in Nat
    OBVIOUS
  <2> QED
    BY <1>1, <2>1, TickedTypes
<1>3. Ticked(t, c) = u
  BY <1>1, TickedTwice
<1> HIDE DEF t, u
<1>4. /\ s \in CpuState /\ s.pc = After(g.pc) /\ s.a = a /\ s.z = z /\ s.clock = t
      /\ s.halted = g.halted /\ s.pend = g.pend
  BY <1>1, <1>2, CountedIs
<1> HIDE DEF s
<1>5. Exec(p, s) = Counted(s, q, a, z, u)
  <2>1. Exec(p, s) = Counted(s, IF s.z THEN After(s.pc) ELSE p[s.pc].to, s.a, s.z,
                             Ticked(s.clock, IF s.z THEN 2 ELSE 3))
    <3>1. p[s.pc].op = "jrnz" /\ ~s.halted /\ ~s.pend
      BY <1>4
    <3> QED
      BY <1>4, <3>1, LoopSteps
  <2>2. /\ (IF s.z THEN After(s.pc) ELSE p[s.pc].to) = q
        /\ (IF s.z THEN 2 ELSE 3) = c
    BY <1>4
  <2>3. Ticked(s.clock, IF s.z THEN 2 ELSE 3) = u
    BY <1>3, <1>4, <2>2
  <2> QED
    BY <1>4, <2>1, <2>2, <2>3
<1>6. Counted(s, q, a, z, u) = Counted(g, q, a, z, u)
  <2>1. s = Counted(g, After(g.pc), a, z, t)
    BY DEF s
  <2> QED
    BY <1>1, <1>2, <2>1, CountedTwice
<1> QED
  BY <1>4, <1>5, <1>6 DEF s, t, u

\* The loop of n rounds, as the reference interpreter executes it from g: j
\* rounds done, and the first instruction of the next.
Top(g, n, j) == Counted(g, g.pc, IF j = 0 THEN g.a ELSE n - j, IF j = 0 THEN g.z ELSE FALSE,
                        Ticked(g.clock, 4 * j))
Mid(g, n, j) == Counted(g, After(g.pc), n - j - 1, (n - j - 1 = 0), Ticked(g.clock, 4 * j + 1))
Done(g, n)   == Counted(g, After(After(g.pc)), 0, TRUE, Ticked(g.clock, 4 * n - 1))

LEMMA RoundOf ==
  ASSUME NEW p \in [Addr -> Instr], NEW g \in CpuState, ~g.halted, ~g.pend,
         NEW n \in 1..ByteSize, n = (IF g.a = 0 THEN ByteSize ELSE g.a),
         p[g.pc].op = "dec", p[After(g.pc)].op = "jrnz", p[After(g.pc)].to = g.pc,
         NEW j \in 0..(n - 1)
  PROVE  /\ Exec(p, Top(g, n, j)) = Mid(g, n, j)
         /\ Exec(p, Mid(g, n, j)) = IF j = n - 1 THEN Done(g, n) ELSE Top(g, n, j + 1)
         /\ ~Top(g, n, j).halted /\ ~Mid(g, n, j).halted
<1> DEFINE a == IF j = 0 THEN g.a ELSE n - j
           z == IF j = 0 THEN g.z ELSE FALSE
           b == n - j - 1
           y == (n - j - 1 = 0)
           h == 4 * j
           k == 4 * j + 1
           q == IF y THEN After(After(g.pc)) ELSE g.pc
           c == IF y THEN 2 ELSE 3
<1>1. /\ g.pc \in Addr /\ g.a \in Byte /\ g.z \in BOOLEAN /\ g.clock \in Clocks /\ g.clock \in Nat
      /\ After(g.pc) \in Addr /\ After(After(g.pc)) \in Addr
  BY CpuFacts, AddrFacts
<1>2. /\ ByteSize \in Nat \ {0} /\ n \in Nat \ {0} /\ n <= ByteSize /\ g.a \in Nat
      /\ g.a < ByteSize /\ j \in Nat /\ j < n
  BY <1>1, ByteFacts DEF Byte
<1>3. a \in Byte /\ b \in Byte
  BY <1>1, <1>2 DEF Byte
<1>4. z \in BOOLEAN /\ y \in BOOLEAN /\ (y <=> b = 0)
  BY <1>1
<1>5. b = (a + ByteSize - 1) % ByteSize
  <2>1. (IF a = 0 THEN ByteSize - 1 ELSE a - 1) = b
    BY <1>2
  <2> HIDE DEF a, b
  <2> QED
    BY <1>3, <2>1, Down
<1>6. h \in Nat /\ k \in Nat /\ k = h + 1 /\ c \in Nat
  BY <1>2
<1>7. q \in Addr
  BY <1>1
<1>8. /\ Top(g, n, j) = Counted(g, g.pc, a, z, Ticked(g.clock, h))
      /\ Mid(g, n, j) = Counted(g, After(g.pc), b, y, Ticked(g.clock, k))
  BY DEF Top, Mid
<1>9. /\ y => Done(g, n) = Counted(g, q, b, y, Ticked(g.clock, k + c)) /\ j = n - 1
      /\ ~y => Top(g, n, j + 1) = Counted(g, q, b, y, Ticked(g.clock, k + c)) /\ j # n - 1
  <2>1. CASE n - j - 1 = 0
    <3>1. y = TRUE /\ b = 0 /\ k + c = 4 * n - 1 /\ q = After(After(g.pc)) /\ j = n - 1
      <4>1. n - j - 1 = 0 /\ j = n - 1 /\ 4 * j + 1 + 2 = 4 * n - 1
        <5>1. n = j + 1
          BY <1>2, <2>1
        <5>2. 4 * j + 1 + 2 = 4 * (j + 1) - 1
          BY <1>2
        <5> QED
          BY <1>2, <2>1, <5>1, <5>2
      <4>2. y = TRUE
        BY <4>1
      <4>3. c = 2 /\ q = After(After(g.pc))
        BY <4>1
      <4> HIDE DEF y, c, q
      <4> QED
        BY <4>1, <4>2, <4>3
    <3> HIDE DEF y, b, k, c, q
    <3> QED
      BY <3>1 DEF Done
  <2>2. CASE n - j - 1 # 0
    <3>1. /\ y = FALSE /\ b = n - (j + 1) /\ k + c = 4 * (j + 1) /\ q = g.pc /\ j # n - 1
          /\ j + 1 # 0
      BY <1>2, <2>2
    <3> HIDE DEF y, b, k, c, q
    <3> QED
      BY <3>1 DEF Top
  <2> QED
    BY <2>1, <2>2
<1>10. q = (IF y THEN After(After(g.pc)) ELSE g.pc) /\ c = (IF y THEN 2 ELSE 3)
  OBVIOUS
<1> HIDE DEF a, z, b, y, h, k, q, c
<1>11. /\ Exec(p, Counted(g, g.pc, a, z, Ticked(g.clock, h)))
              = Counted(g, After(g.pc), b, y, Ticked(g.clock, h + 1))
       /\ ~Counted(g, g.pc, a, z, Ticked(g.clock, h)).halted
  BY <1>3, <1>4, <1>5, <1>6, LoopDec
<1>12. /\ Exec(p, Counted(g, After(g.pc), b, y, Ticked(g.clock, k)))
              = Counted(g, q, b, y, Ticked(g.clock, k + c))
       /\ ~Counted(g, After(g.pc), b, y, Ticked(g.clock, k)).halted
  BY <1>3, <1>4, <1>6, <1>7, <1>10, LoopJump
<1> QED
  BY <1>4, <1>6, <1>8, <1>9, <1>11, <1>12

LEMMA CountsDown ==
  ASSUME NEW p \in [Addr -> Instr], NEW g \in CpuState, ~g.halted, ~g.pend, NEW R,
         NEW n \in 1..ByteSize, n = (IF g.a = 0 THEN ByteSize ELSE g.a),
         p[g.pc].op = "dec", p[After(g.pc)].op = "jrnz", p[After(g.pc)].to = g.pc,
         R[0] = g, \A k \in 1..(2 * n) : R[k] = Exec(p, R[k - 1])
  PROVE  /\ R[2 * n] = Done(g, n)
         /\ \A k \in 0..(2 * n - 1) : ~R[k].halted
<1>1. /\ ByteSize \in Nat \ {0} /\ n \in Nat \ {0} /\ n <= ByteSize
  BY ByteFacts
<1>2. \A j \in 0..(n - 1) :
        /\ Exec(p, Top(g, n, j)) = Mid(g, n, j)
        /\ Exec(p, Mid(g, n, j)) = IF j = n - 1 THEN Done(g, n) ELSE Top(g, n, j + 1)
        /\ ~Top(g, n, j).halted /\ ~Mid(g, n, j).halted
  BY RoundOf
<1>3. Top(g, n, 0) = g
  <2>1. g.clock \in Clocks
    BY CpuFacts
  <2>2. Ticked(g.clock, 4 * 0) = g.clock
    BY <2>1, TickedNone
  <2>3. Top(g, n, 0) = Counted(g, g.pc, g.a, g.z, g.clock)
    BY <2>2 DEF Top
  <2> QED
    BY <2>3, CountedNot
<1>4. ASSUME NEW j \in 0..(n - 1), R[2 * j] = Top(g, n, j)
      PROVE  /\ R[2 * j + 1] = Mid(g, n, j)
             /\ R[2 * j + 2] = IF j = n - 1 THEN Done(g, n) ELSE Top(g, n, j + 1)
  <2>1. /\ 2 * j + 1 \in 1..(2 * n) /\ (2 * j + 1) - 1 = 2 * j
        /\ 2 * j + 2 \in 1..(2 * n) /\ (2 * j + 2) - 1 = 2 * j + 1
    BY <1>1
  <2>2. R[2 * j + 1] = Exec(p, R[2 * j]) /\ R[2 * j + 2] = Exec(p, R[2 * j + 1])
    BY <2>1
  <2> QED
    BY <1>2, <1>4, <2>2
<1>5. \A j \in 0..(n - 1) : R[2 * j] = Top(g, n, j)
  <2> DEFINE S == {j \in Nat : j <= n - 1 /\ R[2 * j] # Top(g, n, j)}
  <2> SUFFICES ASSUME S # {} PROVE FALSE
    BY <1>1
  <2>1. Min(S) \in S /\ \A y \in S : Min(S) <= y
    BY MinIs
  <2> DEFINE m == Min(S)
  <2>2. m \in Nat /\ m <= n - 1 /\ R[2 * m] # Top(g, n, m)
    BY <2>1
  <2>3. m - 1 \notin S
    <3>1. m - 1 \in S => m <= m - 1
      BY <2>1
    <3> QED
      BY <2>2, <3>1
  <2> HIDE DEF m
  <2>4. m # 0
    BY <1>3, <2>2
  <2> DEFINE i == m - 1
  <2>5. i \in 0..(n - 1) /\ i \in Nat /\ i <= n - 1 /\ i # n - 1 /\ i + 1 = m /\ 2 * i + 2 = 2 * m
    BY <1>1, <2>2, <2>4
  <2>6. R[2 * i] = Top(g, n, i)
    BY <2>3, <2>5
  <2> HIDE DEF i
  <2>7. R[2 * i + 2] = Top(g, n, i + 1)
    BY <1>4, <2>5, <2>6
  <2> QED
    BY <2>2, <2>5, <2>7
<1>6. R[2 * n] = Done(g, n)
  <2> DEFINE j == n - 1
  <2>1. j \in 0..(n - 1) /\ j = n - 1 /\ 2 * j + 2 = 2 * n
    BY <1>1
  <2> HIDE DEF j
  <2> QED
    BY <1>4, <1>5, <2>1
<1>7. ASSUME NEW k \in 0..(2 * n - 1) PROVE ~R[k].halted
  <2>1. \E j \in 0..(n - 1) : k = 2 * j \/ k = 2 * j + 1
    <3>1. k \div 2 \in 0..(n - 1) /\ (k = 2 * (k \div 2) \/ k = 2 * (k \div 2) + 1)
      BY <1>1
    <3> QED
      BY <3>1
  <2>2. PICK j \in 0..(n - 1) : k = 2 * j \/ k = 2 * j + 1
    BY <2>1
  <2>3. R[2 * j] = Top(g, n, j) /\ R[2 * j + 1] = Mid(g, n, j)
    BY <1>4, <1>5
  <2> QED
    BY <1>2, <2>2, <2>3
<1> QED
  BY <1>6, <1>7

LEMMA DecImplements ==
  ASSUME Inside, DecLoop
  PROVE  Reference!Next
<1> DEFINE g == Guest
           pc == blk.start
           n == IF cpu.a = 0 THEN ByteSize ELSE cpu.a
           c == DecLoopCycles(cpu.a)
           R == Reference!Run
<1>1. /\ InBlock /\ phase = "block" /\ IsDecLoop(pc)
      /\ cpu' = [cpu EXCEPT !.a = 0, !.z = TRUE]
      /\ blk' = [blk EXCEPT !.at = 3, !.a11 = After(After(blk.a11)), !.a12 = blk.a12 + c]
      /\ UNCHANGED <<code, irq, phase, parked>>
  BY DEF DecLoop, InBlock
<1>2. /\ BlockLen(pc) = 2 /\ OpOf(pc, 1).op = "dec" /\ OpOf(pc, 2).op = "jrnz"
      /\ OpOf(pc, 2).to = pc
  BY <1>1, DecLoopIs
<1>3. /\ blk \in BlkState /\ blk.at = 1 /\ blk.a12 = 0 /\ pc \in Addr
      /\ cpu \in CpuState /\ irq \in BOOLEAN /\ parked \in BOOLEAN
  <2>1. ~(3 <= BlockLen(pc))
    BY <1>2
  <2> QED
    BY <1>1, <2>1 DEF Inside, Typed, CyclesOK, InBlock, BlkState
<1>4. PcOf(pc, 1) = pc /\ After(pc) = PcOf(pc, 2)
  <2>1. PcOf(pc, 1) = pc /\ After(PcOf(pc, 1)) = PcOf(pc, 1 + 1)
    BY <1>3, NextPc
  <2> QED
    BY <2>1
<1>5. blk.a11 = pc /\ cpu.halted = FALSE /\ cpu.pend = FALSE /\ parked = FALSE
  BY <1>1, <1>3, <1>4, CpuFacts DEF Inside, Tracked, InsideOK, ParkOK
<1>6. code[pc].op = "dec" /\ code[After(pc)].op = "jrnz" /\ code[After(pc)].to = pc
  BY <1>2, <1>4 DEF OpOf
<1>7. /\ cpu.a \in Byte /\ cpu.a \in Nat /\ cpu.a < ByteSize /\ ByteSize \in Nat \ {0}
      /\ cpu.clock \in Clocks /\ cpu.clock \in Nat /\ code \in [Addr -> Instr]
  BY <1>3, CpuFacts, ByteFacts, OpTypes DEF Inside, Byte
<1>8. /\ n \in 1..ByteSize /\ n \in Nat /\ c = 4 * n - 1 /\ c \in Nat /\ 0 + c = c
      /\ 2 * n \in 1..RunMax
  <2>1. RunMax \in Nat /\ RunMax >= 2 * ByteSize
    BY ReferenceAssumption
  <2>2. n \in 1..ByteSize /\ n \in Nat
    BY <1>7
  <2>3. c = 4 * n - 1
    BY DEF DecLoopCycles
  <2> HIDE DEF n, c
  <2> QED
    BY <1>7, <2>1, <2>2, <2>3
<1>9. /\ g \in CpuState /\ g.pc = pc /\ g.a = cpu.a /\ g.z = cpu.z /\ g.mem = cpu.mem
      /\ g.ime = cpu.ime /\ g.pend = FALSE /\ g.halted = FALSE /\ g.stopped = cpu.stopped
      /\ g.stack = cpu.stack /\ g.clock = cpu.clock
  <2>1. g = Seen(Synced, parked) /\ Synced \in CpuState
    BY <1>1, GuestIs, SyncedTypes DEF Inside
  <2>2. Synced.clock = Ticked(cpu.clock, 0)
    BY <1>3, SyncedTypes DEF Inside
  <2>3. g.clock = cpu.clock
    BY <1>3, <1>7, <2>1, <2>2, SeenIs, TickedNone
  <2> QED
    BY <1>1, <1>5, <2>3, GuestTypes DEF Inside, GuestPc
<1>10. R[0] = g /\ \A k \in 1..(2 * n) : R[k] = Exec(code, R[k - 1])
  <2>1. \A k \in 1..(2 * n) : k \in 1..RunMax
    <3>1. RunMax \in Nat
      BY ReferenceAssumption
    <3> HIDE DEF n
    <3> QED
      BY <1>8, <3>1
  <2>2. Woken(g, irq) = g
    <3>1. (g.halted /\ ~irq) = FALSE
      BY <1>9
    <3>2. Woken(g, irq) = [g EXCEPT !.halted = FALSE]
      BY <3>1 DEF Woken
    <3> QED
      BY <1>9, <3>2 DEF CpuState
  <2> QED
    BY <2>1, <2>2, RunIs
<1>11. n = (IF g.a = 0 THEN ByteSize ELSE g.a)
  BY <1>9
<1> HIDE DEF g, n, c, R, pc
<1>12. /\ R[2 * n] = Done(g, n)
       /\ \A k \in 0..(2 * n - 1) : ~R[k].halted
  BY <1>6, <1>7, <1>8, <1>9, <1>10, <1>11, CountsDown
<1> DEFINE q == After(After(pc))
           t == Ticked(cpu.clock, c)
           d == Done(g, n)
           h == Guest'
<1>13. q \in Addr /\ t \in Clocks /\ 0 \in Byte /\ TRUE \in BOOLEAN
  BY <1>3, <1>7, <1>8, AddrFacts, ByteFacts, TickedTypes
<1>14. d = Counted(g, q, 0, TRUE, t)
  BY <1>8, <1>9 DEF Done
<1>15. /\ cpu' \in CpuState /\ cpu'.a = 0 /\ cpu'.z = TRUE /\ cpu'.mem = cpu.mem
       /\ cpu'.ime = cpu.ime /\ cpu'.pend = FALSE /\ cpu'.halted = FALSE
       /\ cpu'.stopped = cpu.stopped /\ cpu'.stack = cpu.stack /\ cpu'.clock = cpu.clock
  BY <1>1, <1>3, <1>5, ByteFacts DEF CpuState
<1>16. h = [cpu' EXCEPT !.pc = q, !.clock = t]
  <2>1. blk'.a11 = q /\ blk'.a12 = c
    BY <1>1, <1>3, <1>5, <1>8 DEF BlkState
  <2>2. (cpu'.halted /\ ~parked') = cpu'.halted
    BY <1>15
  <2>3. h = [Synced' EXCEPT !.halted = cpu'.halted /\ ~parked']
    BY <1>1 DEF Guest
  <2>4. Synced' = [cpu' EXCEPT !.pc = q, !.clock = t]
    BY <1>15, <2>1 DEF Synced
  <2> HIDE DEF q, t, h
  <2> QED
    BY <1>15, <2>2, <2>3, <2>4 DEF CpuState
<1> HIDE DEF q, t, d, h
<1>17. /\ h \in CpuState /\ h.pc = q /\ h.a = 0 /\ h.z = TRUE /\ h.mem = cpu.mem
       /\ h.ime = cpu.ime /\ h.pend = FALSE /\ h.halted = FALSE
       /\ h.stopped = cpu.stopped /\ h.stack = cpu.stack /\ h.clock = t
  BY <1>13, <1>15, <1>16 DEF CpuState, Clocks
<1>18. /\ d \in CpuState /\ d.pc = q /\ d.a = 0 /\ d.z = TRUE /\ d.clock = t
       /\ d.mem = g.mem /\ d.ime = g.ime /\ d.pend = g.pend /\ d.halted = g.halted
       /\ d.stopped = g.stopped /\ d.stack = g.stack
  BY <1>9, <1>13, <1>14 DEF Counted, CpuState, Clocks
<1>19. h = d
  <2>1. /\ h.pc = d.pc /\ h.a = d.a /\ h.z = d.z /\ h.mem = d.mem /\ h.ime = d.ime
        /\ h.pend = d.pend /\ h.halted = d.halted /\ h.stopped = d.stopped
        /\ h.stack = d.stack /\ h.clock = d.clock
    BY <1>9, <1>17, <1>18
  <2> QED
    BY <1>17, <1>18, <2>1, SameCpu
<1>20. Reference!Execute
  <2>1. Guest' = R[2 * n]
    BY <1>12, <1>19 DEF h, d
  <2> DEFINE k == 2 * n
  <2>2. k \in 1..RunMax /\ Guest' = R[k] /\ \A j \in 0..(k - 1) : ~R[j].halted
    BY <1>8, <1>12, <2>1
  <2> HIDE DEF k
  <2> QED
    BY <1>1, <2>2 DEF Reference!Execute, R
<1> QED
  BY <1>20 DEF Reference!Next

-----------------------------------------------------------------------------
(* Every step *)

LEMMA InitImplements == Init => Reference!Init
<1> SUFFICES ASSUME Init PROVE Reference!Init
  OBVIOUS
<1>1. /\ code \in Programs /\ irq = FALSE /\ phase = "top" /\ parked = FALSE
      /\ cpu = Reset
  BY DEF Init
<1>2. Reference!Reset = Reset
  BY DEF Reference!Reset, Reset
<1>3. Guest = Seen(cpu, parked) /\ cpu \in CpuState
  BY <1>1, GuestIs, InitTyped DEF Typed
<1>4. Guest = Reset
  BY <1>1, <1>3, SeenIs
<1> QED
  BY <1>1, <1>2, <1>4 DEF Reference!Init

\* The loop's calls of sm83_step, between blocks.
LEMMA LoopCallImplements ==
  ASSUME Inside, Balanced, Calm, CallStep(cpu), code' = code, phase # "block", phase' # "block"
  PROVE  Reference!Next \/ UNCHANGED <<code, Guest, irq>>
<1>1. cpu \in CpuState
  BY DEF Inside, Typed
<1>2. code[cpu.pc].op \in Returns => cpu.stack # << >>
  BY DEF Balanced, AtReturn, GuestPc
<1>3. cpu' \in CpuState
  BY <1>1, <1>2, CallTyped DEF Inside
<1>4. Guest = Seen(cpu, parked) /\ Guest' = Seen(cpu', parked')
  BY GuestIs DEF Guest, Seen
<1> QED
  BY <1>1, <1>3, <1>4, CallImplements DEF Calm

LEMMA StepImplements ==
  Inside /\ Balanced /\ Calm /\ [Next]_vars => [Reference!Next]_(Reference!vars)
<1> SUFFICES ASSUME Inside, Balanced, Calm, [Next]_vars
             PROVE  Reference!Next \/ UNCHANGED <<code, Guest, irq>>
  BY DEF Reference!vars
<1>1. /\ cpu \in CpuState /\ cpu.clock \in Clocks /\ cpu.clock \in Nat /\ HaltStep \in Nat
      /\ (~build.jit => phase = "top")
  BY CpuFacts, LimitsAssumption DEF Inside, Typed, Interpreted
<1>2. CASE UNCHANGED vars
  <2>1. Guest' = Guest
    BY <1>2 DEF vars, Guest, Synced
  <2> QED
    BY <1>2, <2>1 DEF vars
<1>3. CASE Raise
  <2>1. Guest' = Guest
    BY <1>3 DEF Raise, Guest, Synced
  <2>2. Reference!Raise
    BY <1>3, <2>1 DEF Raise, Reference!Raise
  <2> QED
    BY <2>2 DEF Reference!Next
<1>4. CASE ServiceFirst
  <2> DEFINE t == cpu.clock
  <2>1. /\ phase # "block" /\ phase' # "block" /\ code' = code /\ cpu' = Service(cpu, irq)
        /\ Serve(cpu)
    BY <1>4 DEF ServiceFirst
  <2>2. [cpu EXCEPT !.clock = t] = cpu
    BY <1>1 DEF CpuState
  <2>3. IF irq THEN Serve(cpu) ELSE UNCHANGED <<irq, parked>>
    BY <2>1 DEF Serve, Inside, Typed
  <2>4. t \in Clocks /\ cpu' = Service([cpu EXCEPT !.clock = t], irq) /\ t = cpu.clock
    BY <1>1, <2>1, <2>2
  <2> HIDE DEF t
  <2> QED
    BY <2>1, <2>3, <2>4, ServiceImplements DEF Calm
<1>5. CASE HaltLoop
  <2> DEFINE t == Ticked(cpu.clock, HaltStep)
             c == [cpu EXCEPT !.clock = t]
  <2>1. /\ phase # "block" /\ code' = code /\ cpu' = Service(c, irq) /\ cpu.halted
        /\ IF irq THEN Serve(c) /\ phase' = "top"
           ELSE UNCHANGED <<irq, parked>> /\ phase' \in {"checked", "top"}
    BY <1>5 DEF HaltLoop
  <2>2. t \in Clocks
    BY <1>1, TickedTypes
  <2>3. c.ime = cpu.ime
    BY <1>1 DEF CpuState
  <2> HIDE DEF t, c
  <2>4. IF irq THEN Serve(cpu) ELSE UNCHANGED <<irq, parked>>
    BY <2>1, <2>3 DEF Serve
  <2>5. phase' # "block"
    BY <2>1
  <2> QED
    BY <2>1, <2>2, <2>4, <2>5, ServiceImplements DEF Calm, c
<1>6. CASE InterpretOne
  BY <1>6, LoopCallImplements DEF InterpretOne
<1>7. CASE RunInterpreter
  BY <1>1, <1>7, LoopCallImplements DEF RunInterpreter
<1>8. CASE Enter \/ Reenter
  BY <1>8, EnterStutters DEF Enter, Reenter, Inside
<1>9. CASE Epilogue
  BY <1>9, EpilogueStutters DEF Epilogue, Inside
<1>10. CASE Leave
  BY <1>10 DEF Leave, Guest
<1>11. CASE DecLoop
  BY <1>11, DecImplements
<1>12. CASE InlineOp
  BY <1>12, InlineImplements
<1>13. CASE HelperOp
  BY <1>13, HelperImplements DEF Calm
<1> QED
  BY <1>2, <1>3, <1>4, <1>5, <1>6, <1>7, <1>8, <1>9, <1>10, <1>11, <1>12, <1>13 DEF Next

\* Of guests that conform: blocks with cached pc and cycles, calls of the interpreter from
\* inside them, the DEC A loop's closed form, the poll that becomes a HALT, spins, batches
\* and the EI path execute the program as the reference interpreter does, for every program
\* and all limits (codegen.c, dispatcher.c, sm83_interp.c).
THEOREM BlocksImplementSm83 == Spec /\ []Conforms => ImplementsSm83
<1>1. Init => Inside /\ Reference!Init
  BY InitInside, InitImplements
<1>2. Inside /\ Conforms /\ [Next]_vars => Inside'
  BY InsideStep DEF Conforms
<1>3. Inside /\ Conforms /\ [Next]_vars => [Reference!Next]_(Reference!vars)
  BY StepImplements DEF Conforms
<1> QED
  BY <1>1, <1>2, <1>3, PTL DEF Spec, ImplementsSm83, Reference!Spec

-----------------------------------------------------------------------------
(* Guests that conform *)

LEMMA UnderIs ==
  ASSUME NEW s \in CpuState, NEW z \in BOOLEAN
  PROVE  LET u == Under(Control(s), z) IN
         /\ u \in CpuState /\ u.pc = s.pc /\ u.ime = s.ime /\ u.pend = s.pend
         /\ u.stack = s.stack /\ u.z = z /\ Control(u) = Control(s)
<1>1. 0 \in Addr /\ 0 \in Byte /\ 0 \in 0..(Clock - 1)
  BY AddrFacts, ByteFacts, SizeAssumption
<1>2. << >> \in Seq(Addr)
  OBVIOUS
<1>3. Reset \in CpuState
  BY <1>1, <1>2 DEF Reset, CpuState
<1>4. /\ s.pc \in Addr /\ s.ime \in BOOLEAN /\ s.pend \in BOOLEAN /\ s.stack \in Seq(Addr)
  BY CpuFacts
<1> DEFINE u == [Reset EXCEPT !.pc = s.pc, !.ime = s.ime, !.pend = s.pend,
                              !.stack = s.stack, !.z = z]
<1>5. /\ u \in CpuState /\ u.pc = s.pc /\ u.ime = s.ime /\ u.pend = s.pend
      /\ u.stack = s.stack /\ u.z = z
  BY <1>3, <1>4 DEF CpuState
<1>6. Under(Control(s), z) = u
  BY DEF Under, Control
<1> HIDE DEF u
<1>7. Control(u) = Control(s)
  BY <1>5 DEF Control
<1> QED
  BY <1>5, <1>6, <1>7

\* The control after an instruction depends on the control before it, and on the flag.
LEMMA ControlExec ==
  ASSUME NEW p \in [Addr -> Instr], NEW s \in CpuState, NEW t \in CpuState,
         Control(s) = Control(t), s.z = t.z,
         p[s.pc].op \in Returns => s.stack # << >>
  PROVE  Control(Exec(p, s)) = Control(Exec(p, t))
<1> DEFINE i == p[s.pc]
<1>1. s.pc = t.pc /\ s.ime = t.ime /\ s.pend = t.pend /\ s.stack = t.stack
  BY DEF Control
<1>2. Taken(s, i) = Taken(t, i)
  BY DEF Taken
<1>3. Goes(s, i) = Goes(t, i) /\ Stacked(s, i) = Stacked(t, i)
  BY <1>1, <1>2 DEF Goes, Stacked
<1>4. LET e == Exec(p, s) IN
      /\ e.pc = Goes(s, i) /\ e.stack = Stacked(s, i)
      /\ e.ime = (i.op = "reti" \/ (s.ime /\ i.op # "di") \/ s.pend)
      /\ e.pend = (i.op = "ei" /\ ~s.pend)
  BY ExecTypes
<1>5. LET e == Exec(p, t) IN
      /\ e.pc = Goes(t, i) /\ e.stack = Stacked(t, i)
      /\ e.ime = (i.op = "reti" \/ (t.ime /\ i.op # "di") \/ t.pend)
      /\ e.pend = (i.op = "ei" /\ ~t.pend)
  BY <1>1, ExecTypes
<1> HIDE DEF i
<1> QED
  BY <1>1, <1>3, <1>4, <1>5 DEF Control

\* A chart is closed under the instructions of every processor in it.
LEMMA ChartExec ==
  ASSUME NEW p \in [Addr -> Instr], NEW s \in CpuState, NEW G, Charts(p, G), Control(s) \in G
  PROVE  Exec(p, s) \in CpuState /\ Control(Exec(p, s)) \in G
<1> DEFINE g == Control(s)
           u == Under(g, s.z)
<1>1. s.z \in BOOLEAN
  BY CpuFacts
<1>2. Admits(p, g) /\ Control(Exec(p, u)) \in G
  BY <1>1 DEF Charts
<1>3. g.pc = s.pc /\ g.stack = s.stack
  BY DEF Control
<1>4. p[s.pc].op \in Returns => s.stack # << >>
  BY <1>2, <1>3 DEF Admits
<1>5. /\ u \in CpuState /\ Control(u) = Control(s) /\ u.z = s.z
  BY <1>1, UnderIs
<1>6. Control(Exec(p, s)) = Control(Exec(p, u))
  <2> HIDE DEF u, g
  <2> QED
    BY <1>4, <1>5, ControlExec
<1>7. Exec(p, s) \in CpuState
  BY <1>4, ExecTypes
<1> QED
  BY <1>2, <1>6, <1>7

\* Likewise under interrupts, at whatever time they come.
LEMMA ChartDispatched ==
  ASSUME NEW p, NEW s \in CpuState, NEW G, Charts(p, G), Control(s) \in G, s.ime
  PROVE  Control(Dispatched(s)) \in G
<1> DEFINE u == Under(Control(s), FALSE)
<1>1. Control(s).ime = s.ime
  BY DEF Control
<1>2. Control(Dispatched(u)) \in G
  BY <1>1 DEF Charts
<1>3. u \in CpuState /\ u.pc = s.pc /\ u.pend = s.pend /\ u.stack = s.stack
  BY UnderIs
<1> HIDE DEF u
<1>4. ASSUME NEW c \in CpuState
      PROVE  Control(Dispatched(c)) =
               [pc |-> Vector, ime |-> FALSE, pend |-> c.pend, stack |-> <<c.pc>> \o c.stack]
  BY DEF Control, Dispatched, CpuState
<1>5. Control(Dispatched(s)) = Control(Dispatched(u))
  BY <1>3, <1>4
<1> QED
  BY <1>2, <1>5

\* What the guest's program reaches from where it is.
LEMMA ChartRun ==
  ASSUME Typed, NEW G, Charts(code, G), Control(Guest) \in G
  PROVE  \A k \in 0..RunMax : Reference!Run[k] \in CpuState /\ Control(Reference!Run[k]) \in G
<1> DEFINE R == Reference!Run
           Q(k) == R[k] \in CpuState /\ Control(R[k]) \in G
           S == {k \in 0..RunMax : ~Q(k)}
<1>1. RunMax \in Nat /\ code \in [Addr -> Instr] /\ Guest \in CpuState /\ irq \in BOOLEAN
  BY ReferenceAssumption, ProgramsAssumption, GuestTypes DEF Typed
<1>2. R[0] = Woken(Guest, irq) /\ \A k \in 1..RunMax : R[k] = Exec(code, R[k - 1])
  BY RunIs
<1> HIDE DEF R
<1>3. Woken(Guest, irq) \in CpuState /\ Control(Woken(Guest, irq)) = Control(Guest)
  BY <1>1, ServiceTypes DEF Woken, Control, CpuState
<1>4. Q(0)
  BY <1>2, <1>3
<1>5. ASSUME NEW k \in 1..RunMax, Q(k - 1) PROVE Q(k)
  BY <1>1, <1>2, <1>5, ChartExec
<1> HIDE DEF Q
<1>6. S = {}
  <2> SUFFICES ASSUME S # {} PROVE FALSE
    OBVIOUS
  <2>1. S \in SUBSET Nat
    BY <1>1
  <2>2. Min(S) \in S /\ \A y \in S : Min(S) <= y
    BY <2>1, MinIs
  <2> DEFINE k == Min(S)
  <2>3. k \in 0..RunMax /\ ~Q(k)
    BY <2>2
  <2> HIDE DEF k
  <2>4. k \in 1..RunMax /\ k - 1 \in 0..RunMax /\ ~(k <= k - 1)
    BY <1>1, <1>4, <2>3
  <2>5. Q(k - 1)
    BY <2>2, <2>4 DEF k
  <2> QED
    BY <1>5, <2>3, <2>4, <2>5
<1>7. \A k \in 0..RunMax : Q(k)
  BY <1>6
<1> QED
  BY <1>7 DEF Q, R

\* A step of the reference stays in the chart.
LEMMA ChartStep ==
  ASSUME Typed, NEW G, Charts(code, G), Control(Guest) \in G, [Reference!Next]_(Reference!vars)
  PROVE  Control(Guest') \in G
<1>1. Guest \in CpuState /\ RunMax \in Nat
  BY GuestTypes, ReferenceAssumption
<1>2. ASSUME NEW t \in Clocks
      PROVE  LET c == [Guest EXCEPT !.clock = t] IN
             c \in CpuState /\ Control(c) = Control(Guest) /\ c.ime = Guest.ime
  BY <1>1, ServiceTypes DEF Control, CpuState
<1>3. CASE UNCHANGED <<code, Guest, irq>>
  BY <1>3
<1>4. CASE Reference!Raise
  BY <1>4 DEF Reference!Raise
<1>5. CASE Reference!Idle
  <2>1. PICK t \in Clocks : Guest' = [Guest EXCEPT !.clock = t]
    BY <1>5 DEF Reference!Idle, Clocks
  <2> QED
    BY <1>2, <2>1
<1>6. CASE Reference!Execute
  <2>1. PICK k \in 1..RunMax : Guest' = Reference!Run[k]
    BY <1>6 DEF Reference!Execute
  <2>2. k \in 0..RunMax
    BY <1>1
  <2> QED
    BY <2>1, <2>2, ChartRun
<1>7. CASE Reference!Dispatch
  <2>1. PICK t \in Clocks : Guest' = Reference!Dispatched([Guest EXCEPT !.clock = t])
    BY <1>7 DEF Reference!Dispatch, Clocks
  <2>2. Guest.ime
    BY <1>7 DEF Reference!Dispatch
  <2> DEFINE c == [Guest EXCEPT !.clock = t]
  <2>3. c \in CpuState /\ Control(c) \in G /\ c.ime
    BY <1>2, <2>2
  <2>4. Guest' = Dispatched(c)
    BY <2>1, SameOps
  <2> HIDE DEF c
  <2> QED
    BY <2>3, <2>4, ChartDispatched
<1>8. CASE Reference!Wake
  <2>1. PICK t \in Clocks : Guest' = Reference!Woken([Guest EXCEPT !.clock = t], irq)
    BY <1>8 DEF Reference!Wake, Clocks
  <2> DEFINE c == [Guest EXCEPT !.clock = t]
  <2>2. c \in CpuState /\ Control(c) \in G /\ Guest' = Woken(c, irq)
    BY <1>2, <2>1, SameOps
  <2> HIDE DEF c
  <2>3. Control(Woken(c, irq)) = Control(c)
    BY <2>2 DEF Control, Woken, CpuState
  <2> QED
    BY <2>2, <2>3
<1> QED
  BY <1>3, <1>4, <1>5, <1>6, <1>7, <1>8 DEF Reference!Next, Reference!vars

\* In a chart the guest behaves, in the middle of a block too.
LEMMA ChartConforms ==
  ASSUME Inside, NEW G, Charts(code, G), Control(Guest) \in G
  PROVE  Conforms
<1> DEFINE g == Control(Guest)
<1>1. Typed /\ Tracked
  BY DEF Inside
<1>2. Guest.pc = GuestPc /\ Guest.ime = cpu.ime /\ Guest.pend = cpu.pend
      /\ Guest.stack = cpu.stack
  BY <1>1, GuestTypes
<1>3. g.pc = GuestPc /\ g.ime = cpu.ime /\ g.pend = cpu.pend /\ g.stack = cpu.stack
  BY <1>2 DEF Control
<1>4. Admits(code, g)
  BY DEF Charts
<1> HIDE DEF g
<1>5. InBlock => Current = code[GuestPc]
  BY <1>1 DEF Tracked, InsideOK, InBlock, Current, OpOf, GuestPc
<1>6. Balanced
  BY <1>3, <1>4, <1>5 DEF Admits, Balanced, AtReturn
<1>7. Calm
  BY <1>3, <1>4 DEF Admits, Calm
<1>8. Undisturbed
  <2> SUFFICES ASSUME phase = "block", blk.at < BlockLen(blk.start), ~Inlined(Current), cpu.ime
               PROVE  FALSE
    BY DEF Undisturbed
  <2>1. blk.at \in Nat /\ BlockLen(blk.start) \in Nat
    BY <1>1, BlockLenIs DEF Typed, BlkState
  <2>2. InBlock
    BY <2>1 DEF InBlock
  <2>3. ~EndsBlock(Current)
    BY <1>1, <2>2, InsideFacts
  <2> QED
    BY <1>3, <1>4, <1>5, <2>2, <2>3 DEF Admits
<1> QED
  BY <1>6, <1>7, <1>8 DEF Conforms

Charted == \E G : Charts(code, G) /\ Control(Guest) \in G

LEMMA ChartedInit ==
  ASSUME \A p \in Programs : \E G : Charts(p, G)
  PROVE  Init => Inside /\ Charted
<1> SUFFICES ASSUME Init PROVE Inside /\ Charted
  OBVIOUS
<1>1. Inside
  BY InitInside
<1>2. PICK G : Charts(code, G)
  BY DEF Init
<1>3. Control(Guest) = Control(Reset)
  BY DEF Init, Guest, Control, Reset
<1> QED
  BY <1>1, <1>2, <1>3 DEF Charted, Charts

LEMMA ChartedStep == Inside /\ Charted /\ [Next]_vars => (Inside /\ Charted)'
<1> SUFFICES ASSUME Inside, Charted, [Next]_vars PROVE Inside' /\ Charted'
  OBVIOUS
<1>1. PICK G : Charts(code, G) /\ Control(Guest) \in G
  BY DEF Charted
<1>2. Conforms
  BY <1>1, ChartConforms
<1>3. Inside'
  BY <1>2, InsideStep DEF Conforms
<1>4. [Reference!Next]_(Reference!vars)
  BY <1>2, StepImplements DEF Conforms
<1>5. Control(Guest') \in G
  BY <1>1, <1>4, ChartStep DEF Inside
<1>6. code' = code
  BY DEF Next, vars, Raise, ServiceFirst, HaltLoop, InterpretOne, Enter, DecLoop, InlineOp,
         HelperOp, Epilogue, Reenter, Leave, RunInterpreter
<1> QED
  BY <1>1, <1>3, <1>5, <1>6 DEF Charted

\* A guest whose program, executed instruction by instruction with jumps taken or not and
\* interrupts at any time, has a chart conforms when it is compiled: whatever blocks,
\* spins and batches it runs in, no call of sm83_step dispatches an interrupt in the middle
\* of one, and its returns stay balanced (codegen.c 2085-2090).
THEOREM ChartedConform ==
  ASSUME \A p \in Programs : \E G : Charts(p, G)
  PROVE  Spec => []Conforms
<1>1. Init => Inside /\ Charted
  BY ChartedInit
<1>2. Inside /\ Charted /\ [Next]_vars => (Inside /\ Charted)'
  BY ChartedStep
<1>3. Inside /\ Charted => Conforms
  BY ChartConforms DEF Charted
<1> QED
  BY <1>1, <1>2, <1>3, PTL DEF Spec

\* Compiled code implements the reference processor for every program that has a chart:
\* the hypothesis is about the program alone.
THEOREM ChartedImplement ==
  ASSUME \A p \in Programs : \E G : Charts(p, G)
  PROVE  Spec => ImplementsSm83
BY ChartedConform, BlocksImplementSm83, PTL
===============================================================================
