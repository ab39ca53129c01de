---------------------------- MODULE PpuThreadProofs ----------------------------
(***************************************************************************)
(* Theorems about PpuThread: for every clock width, line length, lateness  *)
(* and number of tasks, and for every interleaving of the two cores.       *)
(***************************************************************************)
EXTENDS PpuThread, Quotients, TLAPS

-----------------------------------------------------------------------------
(* The constants *)

\* A clock, a count and a line are remainders of their widths.
LEMMA Widths ==
  /\ CycleMod \in Nat \ {0} /\ CountMod \in Nat \ {0} /\ Lines \in Nat \ {0}
  /\ LineCycles \in Nat \ {0} /\ MaxStep \in Nat \ {0} /\ MaxLag \in Nat \ {0}
  /\ Longest \in Nat
  /\ "core0" \in Tickers /\ Tasks \subseteq Tickers
  /\ "core0" \notin Tasks /\ "none" \notin Tasks
  BY PpuThreadAssumption DEF Longest, Tickers

LEMMA Remainders ==
  \A n \in Int : /\ n % CycleMod \in 0..(CycleMod - 1)
                 /\ n % CountMod \in 0..(CountMod - 1)
                 /\ n % Lines \in 0..(Lines - 1)
  BY Widths, IntDivision

\* The history variable is capped at both ends.
LEMMA OwingRange ==
  ASSUME NEW n \in Int
  PROVE  Owing(n) \in -1..(Longest + 1)
  BY Widths DEF Owing

-----------------------------------------------------------------------------
(* Types *)

\* A build without the task creates none.
Threads == ~build.async => alive = {}

\* One call changes where its caller is, and no other's place.
LEMMA TickTypes ==
  ASSUME TypeOK, NEW k \in Tickers, Tick(k)
  PROVE  /\ TypeOK'
         /\ at[k] # "idle"
<1>1. at[k] # "idle" /\ k \in Tickers
  BY DEF Tick, Look, Measure, Stamp, Add, Transition, Settle
<1>2. /\ {cycles, last, event} \subseteq Int /\ count \in Int /\ line \in Int
      /\ delta[k] \in Int /\ stamp[k] \in 0..(CycleMod - 1) /\ owed \in Int
      /\ 0 \in 0..(CycleMod - 1)
  BY Widths DEF TypeOK
<1>3. \A p \in {"idle", "look", "measure", "stamp", "add", "drain"} : Goto(k, p) =>
        /\ at' \in [Tickers -> {"idle", "look", "measure", "stamp", "add", "drain"}]
        /\ alive' = alive => \A t \in Tasks \ alive' : at'[t] = "idle"
  BY <1>1 DEF TypeOK, Goto, Tickers
<1>4. CASE Look(k)
  BY <1>3, <1>4 DEF Look, TypeOK, core0Vars, lineVars, threadVars
<1>5. CASE Measure(k)
  <2>1. (cycles - last) % CycleMod \in 0..(CycleMod - 1)
    BY <1>2, Remainders
  <2> QED
    BY <1>3, <1>5, <2>1 DEF Measure, TypeOK, core0Vars, lineVars, threadVars
<1>6. CASE Stamp(k)
  BY <1>2, <1>3, <1>6 DEF Stamp, Stamped, TypeOK, core0Vars, lineVars, threadVars
<1>7. CASE Add(k)
  <2>1. Counted(k) \in 0..(CountMod - 1)
    BY <1>2, Remainders DEF Counted
  <2>2. Owing(owed - delta[k]) \in -1..(Longest + 1)
    BY <1>2, OwingRange
  <2> QED
    BY <1>2, <1>3, <1>7, <2>1, <2>2 DEF Add, TypeOK, core0Vars, threadVars
<1>8. CASE Transition(k)
  <2>1. (line + 1) % Lines \in 0..(Lines - 1)
    BY <1>2, Remainders
  <2>2. count - LineCycles \in 0..(CountMod - 1)
    BY <1>8, Widths DEF Transition, TypeOK
  <2>3. ifr' \subseteq Bits /\ asked' \subseteq Bits
    BY <1>8 DEF Transition, TypeOK, Bits
  <2> QED
    BY <1>8, <2>1, <2>2, <2>3 DEF Transition, TypeOK, core0Vars, tickVars, threadVars
<1>9. CASE Settle(k)
  <2>1. (cycles + LineCycles - count) % CycleMod \in 0..(CycleMod - 1)
    <3>1. cycles + LineCycles - count \in Int
      BY <1>2, Widths
    <3> QED
      BY <3>1, Remainders
  <2> QED
    BY <1>3, <1>9, <2>1 DEF Settle, TypeOK, core0Vars, threadVars
<1> QED
  BY <1>1, <1>4, <1>5, <1>6, <1>7, <1>8, <1>9 DEF Tick

\* Time passes in steps of the clock.
LEMMA PassedTypes ==
  ASSUME TypeOK, NEW n \in Nat, Passed(n)
  PROVE  cycles' \in 0..(CycleMod - 1) /\ owed' \in -1..(Longest + 1)
<1>1. cycles + n \in Int /\ owed + n \in Int
  BY Widths DEF TypeOK
<1> QED
  BY <1>1, Remainders, OwingRange DEF Passed

\* Every step keeps the types.
LEMMA TypeStep ==
  ASSUME TypeOK, Threads, [Next]_vars
  PROVE  TypeOK' /\ Threads'
<1> USE DEF core0Vars, lineVars, tickVars, threadVars
<1>1. ASSUME Guest PROVE TypeOK' /\ Threads'
  <2>1. CASE Block
    <3>1. PICK n \in 1..MaxStep : Passed(n)
      BY <2>1 DEF Block
    <3>2. cycles' \in 0..(CycleMod - 1) /\ owed' \in -1..(Longest + 1)
      BY <3>1, PassedTypes, Widths
    <3>3. event' = event /\ last' = last
      BY <2>1 DEF Block
    <3> QED
      BY <2>1, <3>2, <3>3 DEF Block, TypeOK, Threads
  <2>2. CASE FlushingStore
    BY <2>2, Widths DEF FlushingStore, TypeOK, Threads, Goto
  <2>3. CASE Serial
    BY <2>3 DEF Serial, TypeOK, Threads, Bits
  <2>4. CASE StoreIf
    BY <2>4 DEF StoreIf, TypeOK, Threads
  <2>5. CASE EnableInterrupts
    BY <2>5 DEF EnableInterrupts, TypeOK, Threads
  <2>6. CASE Halt
    BY <2>6 DEF Halt, TypeOK, Threads
  <2> QED
    BY <1>1, <2>1, <2>2, <2>3, <2>4, <2>5, <2>6 DEF Guest
<1>2. ASSUME Service PROVE TypeOK' /\ Threads'
  <2>1. CASE Top
    BY <2>1, Widths DEF Top, TypeOK, Threads, Goto
  <2>2. CASE Read
    BY <2>2 DEF Read, TypeOK, Threads, First, Bits
  <2>3. CASE Clear
    BY <2>3 DEF Clear, Cleared, TypeOK, Threads
  <2>4. CASE HaltStep
    <3>1. cycles' \in 0..(CycleMod - 1) /\ owed' \in -1..(Longest + 1)
      BY <2>4, PassedTypes DEF HaltStep
    <3> QED
      BY <2>4, <3>1, Widths DEF HaltStep, TypeOK, Threads, Goto
  <2>5. CASE HaltPoll
    BY <2>5 DEF HaltPoll, TypeOK, Threads
  <2> QED
    BY <1>2, <2>1, <2>2, <2>3, <2>4, <2>5 DEF Service
<1>3. ASSUME NEW k \in Tickers, Tick(k) PROVE TypeOK' /\ Threads'
  <2>1. build' = build /\ alive' = alive
    BY <1>3 DEF Tick, Look, Measure, Stamp, Add, Transition, Settle
  <2> QED
    BY <1>3, <2>1, TickTypes DEF Threads
<1>4. CASE ThreadStart
  BY <1>4 DEF ThreadStart, TypeOK, Threads
<1>5. CASE ThreadStop
  BY <1>5 DEF ThreadStop, TypeOK, Threads
<1>6. ASSUME NEW t \in Tasks, TaskLoop(t) PROVE TypeOK' /\ Threads'
  BY <1>6, Widths DEF TaskLoop, TypeOK, Threads, Goto
<1>7. CASE UNCHANGED vars
  BY <1>7 DEF vars, TypeOK, Threads
<1> QED
  BY <1>1, <1>2, <1>3, <1>4, <1>5, <1>6, <1>7, Widths DEF Next, Core1

LEMMA InitTypes ==
  ASSUME Init
  PROVE  TypeOK /\ Threads
<1>1. 0 \in 0..(CycleMod - 1) /\ 0 \in 0..(CountMod - 1) /\ 0 \in 0..(Lines - 1)
  BY Widths
<1>2. {cycles, last, event} \subseteq 0..(CycleMod - 1) /\ owed \in -1..(Longest + 1)
  BY <1>1, Widths DEF Init
<1>3. /\ at \in [Tickers -> {"idle", "look", "measure", "stamp", "add", "drain"}]
      /\ \A t \in Tasks : at[t] = "idle"
  BY Widths DEF Init
<1>4. delta \in [Tickers -> 0..(CycleMod - 1)] /\ stamp \in [Tickers -> 0..(CycleMod - 1)]
  BY <1>1 DEF Init
<1> QED
  BY <1>1, <1>2, <1>3, <1>4 DEF Init, TypeOK, Threads

\* Every variable keeps its range, and only a task that runs is in a call, for
\* any interleaving of the cores (ppu_thread.c 20-60, ppu.c 617-700).
THEOREM PpuThreadTypes == Spec => []TypeOK
<1>1. Init => TypeOK /\ Threads
  BY InitTypes
<1>2. TypeOK /\ Threads /\ [Next]_vars => (TypeOK /\ Threads)'
  BY TypeStep
<1> QED
  BY <1>1, <1>2, PTL DEF Spec

-----------------------------------------------------------------------------
(* Requests *)

\* Core 0 calls ppu_tick at three places of its own code, and is at none of them
\* while it dispatches an interrupt.
Calls == at["core0"] # "idle" => core0 \in {"run", "read", "poll"}

\* Where nothing else runs, what was read from IF is still there to be stored.
Dispatching == core0 = "clear" /\ ~build.async => ifr = seen

RequestInv == TypeOK /\ Threads /\ Calls /\ Dispatching /\ NoLostRequest

\* A call made by either core only adds to IF.
LEMMA TickRequests ==
  ASSUME RequestInv, NEW k \in Tickers, Tick(k)
  PROVE  Calls' /\ Dispatching' /\ NoLostRequest'
<1>1. at[k] # "idle"
  BY TickTypes DEF RequestInv
<1>2. core0' = core0 /\ build' = build /\ seen' = seen
  BY DEF Tick, Look, Measure, Stamp, Add, Transition, Settle, core0Vars
<1>3. at["core0"] = "idle" => at'["core0"] = "idle"
  BY <1>1, Widths DEF Tick, Look, Measure, Stamp, Add, Transition, Settle, Goto, tickVars,
     RequestInv, TypeOK
<1>4. Calls'
  BY <1>2, <1>3 DEF Calls, RequestInv
<1>5. core0 = "clear" => build.async
  <2>1. SUFFICES ASSUME core0 = "clear", ~build.async PROVE FALSE
    OBVIOUS
  <2>2. k # "core0"
    BY <1>1, <2>1 DEF RequestInv, Calls
  <2>3. k \in Tasks \ alive
    BY <2>1, <2>2 DEF RequestInv, Threads, Tickers
  <2> QED
    BY <1>1, <2>3 DEF RequestInv, TypeOK
<1>6. NoLostRequest'
  <2>1. (ifr' = ifr /\ asked' = asked) \/ Transition(k)
    BY DEF Tick, Look, Measure, Stamp, Add, Settle
  <2>2. Transition(k) => \E r : ifr' = ifr \union r /\ asked' = asked \union r
    BY DEF Transition
  <2> QED
    BY <2>1, <2>2 DEF RequestInv, NoLostRequest
<1> QED
  BY <1>2, <1>4, <1>5, <1>6 DEF Dispatching

LEMMA RequestStep ==
  ASSUME RequestInv, [Next]_vars
  PROVE  RequestInv'
<1> USE DEF core0Vars, lineVars, tickVars, threadVars
<1>1. TypeOK' /\ Threads'
  BY TypeStep DEF RequestInv
<1> DEFINE Goal == Calls' /\ Dispatching' /\ NoLostRequest'
<1>2. ASSUME Guest PROVE Goal
  <2>1. CASE Block
    BY <2>1 DEF Block, RequestInv, Calls, Dispatching, NoLostRequest, At0, Passed
  <2>2. CASE FlushingStore
    BY <2>2 DEF FlushingStore, RequestInv, Calls, Dispatching, NoLostRequest, At0
  <2>3. CASE Serial
    BY <2>3 DEF Serial, RequestInv, Calls, Dispatching, NoLostRequest, At0
  <2>4. CASE StoreIf
    BY <2>4 DEF StoreIf, RequestInv, Calls, Dispatching, NoLostRequest, At0
  <2>5. CASE EnableInterrupts
    BY <2>5 DEF EnableInterrupts, RequestInv, Calls, Dispatching, NoLostRequest, At0
  <2>6. CASE Halt
    BY <2>6 DEF Halt, RequestInv, Calls, Dispatching, NoLostRequest, At0
  <2> QED
    BY <1>2, <2>1, <2>2, <2>3, <2>4, <2>5, <2>6 DEF Guest
<1>3. ASSUME Service PROVE Goal
  <2>1. CASE Top
    BY <2>1 DEF Top, RequestInv, Calls, Dispatching, NoLostRequest, At0
  <2>2. CASE Read
    BY <2>2 DEF Read, RequestInv, Calls, Dispatching, NoLostRequest, At0
  <2>3. CASE Clear
    <3>1. ifr' = ifr \ {taking} /\ asked' = asked \ {taking}
      BY <2>3 DEF Clear, Cleared, At0, RequestInv, Dispatching
    <3> QED
      BY <2>3, <3>1 DEF Clear, RequestInv, Calls, Dispatching, NoLostRequest, At0
  <2>4. CASE HaltStep
    BY <2>4 DEF HaltStep, RequestInv, Calls, Dispatching, NoLostRequest, At0, Passed
  <2>5. CASE HaltPoll
    BY <2>5 DEF HaltPoll, RequestInv, Calls, Dispatching, NoLostRequest, At0
  <2> QED
    BY <1>3, <2>1, <2>2, <2>3, <2>4, <2>5 DEF Service
<1>4. ASSUME NEW k \in Tickers, Tick(k) PROVE Goal
  BY <1>4, TickRequests
<1>5. ASSUME ThreadStart PROVE Goal
  BY <1>5 DEF ThreadStart, RequestInv, Calls, Dispatching, NoLostRequest, At0
<1>6. ASSUME ThreadStop PROVE Goal
  BY <1>6 DEF ThreadStop, RequestInv, Calls, Dispatching, NoLostRequest, At0
<1>7. ASSUME NEW t \in Tasks, TaskLoop(t) PROVE Goal
  <2>1. at'["core0"] = at["core0"]
    BY <1>7, Widths DEF TaskLoop, Goto, RequestInv, TypeOK
  <2> QED
    BY <1>7, <2>1 DEF TaskLoop, RequestInv, Calls, Dispatching, NoLostRequest
<1>8. ASSUME UNCHANGED vars PROVE Goal
  BY <1>8 DEF vars, RequestInv, Calls, Dispatching, NoLostRequest
<1>9. Goal
  BY <1>2, <1>3, <1>4, <1>5, <1>6, <1>7, <1>8, Widths DEF Next, Core1
<1> QED
  BY <1>1, <1>9 DEF RequestInv

\* The atomic instructions of the build with the task, and the fact that nothing
\* else runs in the other one, keep every request in IF until it is dispatched,
\* for any number of tasks (sm83_interp.c 219-230, ppu.c 685-689).
THEOREM PpuThreadRequests == Spec => []NoLostRequest
<1>1. Init => RequestInv
  <2>1. Init => TypeOK /\ Threads
    BY InitTypes
  <2>2. Init => Calls /\ Dispatching /\ NoLostRequest
    BY Widths DEF Init, Calls, Dispatching, NoLostRequest
  <2> QED
    BY <2>1, <2>2 DEF RequestInv
<1>2. RequestInv /\ [Next]_vars => RequestInv'
  BY RequestStep
<1>3. RequestInv => NoLostRequest
  BY DEF RequestInv
<1> QED
  BY <1>1, <1>2, <1>3, PTL DEF Spec

-----------------------------------------------------------------------------
(* The clock's arithmetic *)

\* How far past the LCD's deadline the clock may be.
Lateness == MaxLag + MaxStep

\* Cycles from a stamp to now, and cycles that may still pass.
Since(now, then)    == (now - then) % CycleMod
Room(now, deadline) == (deadline - now + Lateness) % CycleMod

Clock == 0..(CycleMod - 1)

LEMMA Bounds ==
  /\ Lateness \in Nat /\ Longest = LineCycles + 2 * Lateness
  /\ CycleMod > 2 * (LineCycles + Lateness) /\ CycleMod > Longest
  /\ CycleMod \in Nat \ {0} /\ LineCycles \in Nat \ {0}
  /\ MaxStep \in Nat \ {0} /\ MaxLag \in Nat \ {0} /\ Longest \in Nat
  BY PpuThreadAssumption DEF Lateness, Longest

LEMMA ClockRanges ==
  ASSUME NEW c \in Clock, NEW x \in Clock
  PROVE  Since(c, x) \in Clock /\ Room(c, x) \in Clock /\ Since(c, c) = 0
<1>1. c - x \in Int /\ x - c + Lateness \in Int /\ c - c = 0
  BY Bounds DEF Clock
<1>2. 0 % CycleMod = 0
  BY Bounds, DivisionSmall
<1> QED
  BY <1>1, <1>2, Bounds, IntDivision DEF Since, Room, Clock

\* A stamp grows older, and a deadline nearer, by what passes, across a wrap.
LEMMA ClockMoves ==
  ASSUME NEW c \in Clock, NEW x \in Clock, NEW n \in Nat
  PROVE  /\ Since(c, x) + n < CycleMod => Since((c + n) % CycleMod, x) = Since(c, x) + n
         /\ n <= Room(c, x) => Room((c + n) % CycleMod, x) = Room(c, x) - n
<1> DEFINE p == (c + n) \div CycleMod
           s == (c + n) % CycleMod
<1>1. p \in Int /\ s \in Clock /\ c + n = CycleMod * p + s
  BY Bounds, IntDivision DEF Clock
<1> HIDE DEF p, s
<1>2. ASSUME Since(c, x) + n < CycleMod PROVE Since(s, x) = Since(c, x) + n
  <2> DEFINE q == (c - x) \div CycleMod
             r == (c - x) % CycleMod
  <2>1. q \in Int /\ r \in Clock /\ c - x = CycleMod * q + r
    <3>1. c - x \in Int
      BY Bounds DEF Clock
    <3> QED
      BY <3>1, Bounds, IntDivision DEF Clock
  <2>2. r = Since(c, x)
    BY DEF Since
  <2> HIDE DEF q, r
  <2>3. s - x = CycleMod * (q - p) + (r + n)
    BY <1>1, <2>1, Bounds DEF Clock
  <2>4. r + n \in 0..(CycleMod - 1) /\ q - p \in Int /\ s - x \in Int
    BY <1>1, <1>2, <2>1, <2>2, Bounds DEF Clock
  <2>5. (s - x) % CycleMod = r + n
    BY <2>3, <2>4, Bounds, IntDivisionIs
  <2> QED
    BY <2>2, <2>5 DEF Since
<1>3. ASSUME n <= Room(c, x) PROVE Room(s, x) = Room(c, x) - n
  <2> DEFINE q == (x - c + Lateness) \div CycleMod
             r == (x - c + Lateness) % CycleMod
  <2>1. q \in Int /\ r \in Clock /\ x - c + Lateness = CycleMod * q + r
    <3>1. x - c + Lateness \in Int
      BY Bounds DEF Clock
    <3> QED
      BY <3>1, Bounds, IntDivision DEF Clock
  <2>2. r = Room(c, x)
    BY DEF Room
  <2> HIDE DEF q, r
  <2>3. x - s + Lateness = CycleMod * (q + p) + (r - n)
    BY <1>1, <2>1, Bounds DEF Clock
  <2>4. r - n \in 0..(CycleMod - 1) /\ q + p \in Int /\ x - s + Lateness \in Int
    BY <1>1, <1>3, <2>1, <2>2, Bounds DEF Clock
  <2>5. (x - s + Lateness) % CycleMod = r - n
    BY <2>3, <2>4, Bounds, IntDivisionIs
  <2> QED
    BY <2>2, <2>5 DEF Room
<1> QED
  BY <1>2, <1>3 DEF s

\* What gb_cycles_reached says of a deadline no line away, and of the latest
\* cycle that Core 0 runs to.
LEMMA Deadlines ==
  ASSUME NEW c \in Clock, NEW e \in Clock, Room(c, e) <= LineCycles + Lateness
  PROVE  /\ Reached(c, e) => Room(c, e) <= Lateness
         /\ ~Reached(c, e + MaxLag) => Room(c, e) > MaxStep
<1> DEFINE q == (e - c + Lateness) \div CycleMod
           r == (e - c + Lateness) % CycleMod
<1>1. q \in Int /\ r \in Clock /\ e - c + Lateness = CycleMod * q + r
  <2>1. e - c + Lateness \in Int
    BY Bounds DEF Clock
  <2> QED
    BY <2>1, Bounds, IntDivision DEF Clock
<1>2. r = Room(c, e)
  BY DEF Room
<1> HIDE DEF q, r
<1>3. CycleMod \div 2 \in Nat /\ 2 * (CycleMod \div 2) <= CycleMod
      /\ CycleMod <= 2 * (CycleMod \div 2) + 1
  BY Bounds
<1>4. ASSUME r > Lateness PROVE ~Reached(c, e)
  <2>1. c - e = CycleMod * (-q - 1) + (CycleMod + Lateness - r)
    BY <1>1, Bounds DEF Clock
  <2>2. /\ CycleMod + Lateness - r \in 0..(CycleMod - 1)
        /\ -q - 1 \in Int /\ c - e \in Int
    BY <1>1, <1>2, <1>4, Bounds DEF Clock
  <2>3. (c - e) % CycleMod = CycleMod + Lateness - r
    BY <2>1, <2>2, Bounds, IntDivisionIs
  <2> QED
    BY <1>1, <1>2, <1>3, <2>3, Bounds DEF Reached, Clock
<1>5. ASSUME r <= MaxStep PROVE Reached(c, e + MaxLag)
  <2>1. c - (e + MaxLag) = CycleMod * (-q) + (MaxStep - r)
    BY <1>1, Bounds DEF Clock, Lateness
  <2>2. MaxStep - r \in 0..(CycleMod - 1) /\ -q \in Int /\ c - (e + MaxLag) \in Int
    BY <1>1, <1>5, Bounds DEF Clock, Lateness
  <2>3. (c - (e + MaxLag)) % CycleMod = MaxStep - r
    BY <2>1, <2>2, Bounds, IntDivisionIs
  <2> QED
    BY <1>1, <1>3, <2>3, Bounds DEF Reached, Clock, Lateness
<1>6. r \in Int /\ Lateness \in Int /\ MaxStep \in Int
  BY <1>1, Bounds DEF Clock
<1> QED
  BY <1>2, <1>4, <1>5, <1>6

\* The deadline ppu_recompute_next_event sets.
LEMMA Settled ==
  ASSUME NEW c \in Clock, NEW n \in 0..(LineCycles - 1)
  PROVE  Room(c, (c + LineCycles - n) % CycleMod) = LineCycles - n + Lateness
<1> DEFINE p == (c + LineCycles - n) \div CycleMod
           s == (c + LineCycles - n) % CycleMod
<1>1. p \in Int /\ s \in Clock /\ c + LineCycles - n = CycleMod * p + s
  <2>1. c + LineCycles - n \in Int
    BY Bounds DEF Clock
  <2> QED
    BY <2>1, Bounds, IntDivision DEF Clock
<1> HIDE DEF p, s
<1>2. s - c + Lateness = CycleMod * (-p) + (LineCycles - n + Lateness)
  BY <1>1, Bounds DEF Clock
<1>3. /\ LineCycles - n + Lateness \in 0..(CycleMod - 1)
      /\ -p \in Int /\ s - c + Lateness \in Int
  BY <1>1, Bounds DEF Clock
<1>4. (s - c + Lateness) % CycleMod = LineCycles - n + Lateness
  BY <1>2, <1>3, Bounds, IntDivisionIs
<1> QED
  BY <1>4 DEF Room, s

-----------------------------------------------------------------------------
(* Cycles *)

\* The builds in which one thread alone calls ppu_tick, and that thread: in a
\* build with the task, Core 0 never halts and no second task is started.
Alone == build.async => ~build.intrudes /\ ~build.restarts

Lone ==
  build.async => /\ at["core0"] = "idle" /\ ~halted
                 /\ core0 \notin {"halt", "poll"} /\ alive \subseteq {handle}

\* A call in progress is n cycles behind: the clock of another core stays a
\* deadline's lateness ahead of it at most, and Core 0's own does not move.
Near(n) == IF build.async THEN n + Room(cycles, event) <= Lateness ELSE n = 0

\* Every cycle that passed is owed, from the stamp a call holds or from the last.
Timely ==
  /\ owed \in 0..Longest /\ owed + Room(cycles, event) <= Longest
  /\ Room(cycles, event) <= LineCycles + Lateness
  /\ (\A k \in Tickers : at[k] \notin {"stamp", "add"}) => owed = Since(cycles, last)
  /\ \A k \in Tickers :
       /\ at[k] = "measure" /\ build.async => Room(cycles, event) <= Lateness
       /\ at[k] = "stamp" => /\ owed = delta[k] + Since(cycles, stamp[k])
                             /\ Near(Since(cycles, stamp[k]))
       /\ at[k] = "add" => owed = delta[k] + Since(cycles, last)
       /\ at[k] \in {"add", "drain"} => Near(Since(cycles, last))

CountInv == TypeOK /\ Threads /\ Calls /\ (Alone => Lone /\ Timely)

\* Two threads are never in ppu_tick.
LEMMA OneCall ==
  ASSUME TypeOK, Threads, Alone, Lone, NEW k \in Tickers, at[k] # "idle"
  PROVE  \A j \in Tickers \ {k} : at[j] = "idle"
<1>1. \A t \in Tasks : at[t] # "idle" => t \in alive
  BY DEF TypeOK
<1>2. CASE build.async
  BY <1>1, <1>2 DEF Lone, Tickers
<1>3. CASE ~build.async
  BY <1>1, <1>3 DEF Threads, Tickers
<1> QED
  BY <1>2, <1>3

LEMMA ClockTypes ==
  ASSUME TypeOK
  PROVE  /\ cycles \in Clock /\ last \in Clock /\ event \in Clock
         /\ \A k \in Tickers : stamp[k] \in Clock /\ delta[k] \in Clock
         /\ Since(cycles, last) \in Clock /\ Room(cycles, event) \in Clock
         /\ \A k \in Tickers : Since(cycles, stamp[k]) \in Clock
<1>1. /\ cycles \in Clock /\ last \in Clock /\ event \in Clock
      /\ \A k \in Tickers : stamp[k] \in Clock /\ delta[k] \in Clock
  BY DEF TypeOK, Clock
<1> QED
  BY <1>1, ClockRanges

\* A step that leaves the clock, its stamps and what is owed alone.
LEMMA QuietTimely ==
  ASSUME TypeOK, Timely,
         UNCHANGED <<build, cycles, last, event, delta, stamp, owed>>,
         \A k \in Tickers :
           \/ at'[k] = at[k]
           \/ at[k] \in {"idle", "look"} /\ at'[k] \in {"idle", "look"}
           \/ at[k] = "idle" /\ at'[k] = "measure" /\ ~build.async
  PROVE  Timely'
<1>1. /\ owed' \in 0..Longest /\ owed' + Room(cycles', event') <= Longest
      /\ Room(cycles', event') <= LineCycles + Lateness
  BY DEF Timely
<1>2. (\A k \in Tickers : at'[k] \notin {"stamp", "add"}) => owed' = Since(cycles', last')
  <2>1. SUFFICES ASSUME \A k \in Tickers : at'[k] \notin {"stamp", "add"}
                 PROVE  owed' = Since(cycles', last')
    OBVIOUS
  <2>2. \A k \in Tickers : at[k] \notin {"stamp", "add"}
    BY <2>1
  <2> QED
    BY <2>2 DEF Timely
<1>3. ASSUME NEW k \in Tickers
      PROVE  /\ at'[k] = "measure" /\ build'.async => Room(cycles', event') <= Lateness
             /\ at'[k] = "stamp" => /\ owed' = delta'[k] + Since(cycles', stamp'[k])
                                    /\ Near(Since(cycles, stamp[k]))'
             /\ at'[k] = "add" => owed' = delta'[k] + Since(cycles', last')
             /\ at'[k] \in {"add", "drain"} => Near(Since(cycles, last))'
  BY <1>3 DEF Timely, Near
<1> QED
  BY <1>1, <1>2, <1>3 DEF Timely

\* Time passes, beside a task's call or between two calls of Core 0's own.
LEMMA PassedTimely ==
  ASSUME TypeOK, Timely, NEW n \in 1..MaxStep, Passed(n),
         UNCHANGED <<build, last, event, delta, stamp>>,
         \A k \in Tickers : at'[k] = at[k] \/ (at[k] = "idle" /\ at'[k] = "look"),
         ~build.async => \A k \in Tickers : at[k] = "idle"
  PROVE  Timely'
<1> DEFINE r == Room(cycles, event)
<1>1. n \in Nat /\ n <= MaxStep /\ r \in Nat
  BY Bounds, ClockTypes DEF Clock
<1>2. r > MaxStep
  BY ClockTypes, Deadlines DEF Passed, Timely
<1>3. n < r
  BY <1>1, <1>2, Bounds
<1>4. Room(cycles', event') = r - n
  BY <1>1, <1>3, ClockTypes, ClockMoves DEF Passed
<1> HIDE DEF r
<1>5. \A x \in Clock : Since(cycles, x) + n < CycleMod
                       => Since(cycles', x) = Since(cycles, x) + n
  BY <1>1, ClockTypes, ClockMoves DEF Passed
<1>6. owed \in Nat /\ owed + r <= Longest
  BY Bounds DEF Timely, r
<1>7. owed' = owed + n /\ owed' \in 0..Longest
  BY <1>1, <1>3, <1>6, Bounds DEF Passed, Owing
<1>8. owed' + Room(cycles', event') <= Longest /\ Room(cycles', event') <= LineCycles + Lateness
  BY <1>1, <1>3, <1>4, <1>6, <1>7, Bounds DEF Timely, r
<1>9. owed + n < CycleMod
  BY <1>1, <1>3, <1>6, Bounds
<1>10. (\A k \in Tickers : at'[k] \notin {"stamp", "add"}) => owed' = Since(cycles', last')
  <2>1. SUFFICES ASSUME \A k \in Tickers : at'[k] \notin {"stamp", "add"}
                 PROVE  owed' = Since(cycles', last')
    OBVIOUS
  <2>2. owed = Since(cycles, last)
    BY <2>1 DEF Timely
  <2> QED
    BY <2>2, <1>5, <1>7, <1>9, ClockTypes
<1>11. ASSUME NEW k \in Tickers
       PROVE  /\ at'[k] = "measure" /\ build'.async => Room(cycles', event') <= Lateness
              /\ at'[k] = "stamp" => /\ owed' = delta'[k] + Since(cycles', stamp'[k])
                                     /\ Near(Since(cycles, stamp[k]))'
              /\ at'[k] = "add" => owed' = delta'[k] + Since(cycles', last')
              /\ at'[k] \in {"add", "drain"} => Near(Since(cycles, last))'
  <2>1. CASE at[k] = "idle"
    BY <2>1, <1>11
  <2>2. CASE at[k] # "idle"
    <3>1. build.async /\ at'[k] = at[k]
      BY <2>2
    <3>2. ASSUME NEW x \in Clock, Since(cycles, x) + r <= Lateness
          PROVE  /\ Since(cycles', x) = Since(cycles, x) + n
                 /\ Since(cycles', x) + Room(cycles', event') <= Lateness
      <4>1. Since(cycles, x) \in Nat
        BY ClockTypes, ClockRanges DEF Clock
      <4>2. Since(cycles, x) + n < CycleMod
        BY <1>1, <1>3, <3>2, <4>1, Bounds
      <4> QED
        BY <1>1, <1>4, <1>5, <3>2, <4>1, <4>2, Bounds
    <3>3. at[k] = "measure" => Room(cycles', event') <= Lateness
      BY <3>1, <1>1, <1>3, <1>4, Bounds DEF Timely, r
    <3>4. ASSUME at[k] = "stamp"
          PROVE  /\ owed' = delta[k] + Since(cycles', stamp[k])
                 /\ Since(cycles', stamp[k]) + Room(cycles', event') <= Lateness
      <4>1. /\ owed = delta[k] + Since(cycles, stamp[k])
            /\ Since(cycles, stamp[k]) + r <= Lateness
        BY <3>1, <3>4 DEF Timely, Near, r
      <4>2. delta[k] \in Nat /\ Since(cycles, stamp[k]) \in Nat /\ stamp[k] \in Clock
        BY ClockTypes DEF Clock
      <4> QED
        BY <1>1, <1>7, <3>2, <4>1, <4>2
    <3>5. ASSUME at[k] \in {"add", "drain"}
          PROVE  /\ at[k] = "add" => owed' = delta[k] + Since(cycles', last)
                 /\ Since(cycles', last) + Room(cycles', event') <= Lateness
      <4>1. /\ at[k] = "add" => owed = delta[k] + Since(cycles, last)
            /\ Since(cycles, last) + r <= Lateness
        BY <3>1, <3>5 DEF Timely, Near, r
      <4>2. delta[k] \in Nat /\ Since(cycles, last) \in Nat /\ last \in Clock
        BY ClockTypes DEF Clock
      <4> QED
        BY <1>1, <1>7, <3>2, <4>1, <4>2
    <3> QED
      BY <3>1, <3>3, <3>4, <3>5 DEF Near
  <2> QED
    BY <2>1, <2>2
<1> QED
  BY <1>7, <1>8, <1>10, <1>11 DEF Timely

\* What Timely says when k alone is in ppu_tick, and is at p after the step.
LEMMA TimelyAt ==
  ASSUME NEW k \in Tickers, NEW p \in {"idle", "measure", "stamp", "add", "drain"},
         TypeOK, Goto(k, p), build' = build,
         \A j \in Tickers \ {k} : at[j] = "idle",
         owed' \in 0..Longest, owed' + Room(cycles', event') <= Longest,
         Room(cycles', event') <= LineCycles + Lateness,
         p \notin {"stamp", "add"} => owed' = Since(cycles', last'),
         p = "measure" /\ build.async => Room(cycles', event') <= Lateness,
         p = "stamp" => /\ owed' = delta'[k] + Since(cycles', stamp'[k])
                        /\ Near(Since(cycles, stamp[k]))',
         p = "add" => owed' = delta'[k] + Since(cycles', last'),
         p \in {"add", "drain"} => Near(Since(cycles, last))'
  PROVE  Timely'
<1>1. at'[k] = p /\ \A j \in Tickers \ {k} : at'[j] = "idle"
  BY DEF Goto, TypeOK
<1>2. \A j \in Tickers : j = k \/ at'[j] = "idle"
  BY <1>1
<1> QED
  BY <1>1, <1>2 DEF Timely

\* A call counts what it measured and leaves the rest owed.
LEMMA TickTimely ==
  ASSUME TypeOK, Threads, Alone, Lone, Timely, NEW k \in Tickers, Tick(k)
  PROVE  Timely'
<1> USE DEF core0Vars, lineVars, tickVars, threadVars
<1>1. at[k] # "idle"
  BY TickTypes
<1>2. \A j \in Tickers \ {k} : at[j] = "idle"
  BY <1>1, OneCall
<1>3. /\ owed \in 0..Longest /\ owed + Room(cycles, event) <= Longest
      /\ Room(cycles, event) <= LineCycles + Lateness
  BY DEF Timely
<1>4. at[k] \notin {"stamp", "add"} => owed = Since(cycles, last)
  <2>1. at[k] \notin {"stamp", "add"} => \A j \in Tickers : at[j] \notin {"stamp", "add"}
    BY <1>2
  <2> QED
    BY <2>1 DEF Timely
<1>5. ASSUME Look(k) PROVE Timely'
  <2>1. at[k] = "look" /\ UNCHANGED <<build, cycles, last, event, delta, stamp, owed>>
    BY <1>5 DEF Look
  <2>2. CASE Reached(cycles, event)
    <3>1. Goto(k, "measure")
      BY <1>5, <2>2 DEF Look
    <3>2. Room(cycles, event) <= Lateness
      BY <1>3, <2>2, ClockTypes, Deadlines
    <3> HIDE DEF lineVars, tickVars
    <3> QED
      BY <1>2, <1>3, <1>4, <2>1, <3>1, <3>2, TimelyAt
  <2>3. CASE ~Reached(cycles, event)
    <3>1. Goto(k, "idle")
      BY <1>5, <2>3 DEF Look
    <3> QED
      BY <1>2, <1>3, <1>4, <2>1, <3>1, TimelyAt
  <2> QED
    BY <2>2, <2>3
<1>6. ASSUME Measure(k) PROVE Timely'
  <2>1. at[k] = "measure" /\ UNCHANGED <<build, cycles, last, event, owed>> /\ Goto(k, "stamp")
    BY <1>6 DEF Measure
  <2>2. delta'[k] = owed /\ stamp'[k] = cycles
    BY <1>4, <1>6, <2>1 DEF Measure, TypeOK, Since
  <2>3. Since(cycles', stamp'[k]) = 0
    BY <2>1, <2>2, ClockTypes, ClockRanges
  <2>4. owed' = delta'[k] + Since(cycles', stamp'[k])
    BY <1>3, <2>1, <2>2, <2>3, Bounds
  <2>5. Near(Since(cycles, stamp[k]))'
    <3>1. build.async => 0 + Room(cycles, event) <= Lateness
      BY <2>1, ClockTypes DEF Timely, Clock
    <3> QED
      BY <2>1, <2>3, <3>1 DEF Near
  <2> QED
    BY <1>2, <1>3, <2>1, <2>4, <2>5, TimelyAt
<1>7. ASSUME Stamp(k) PROVE Timely'
  <2>1. /\ at[k] = "stamp" /\ UNCHANGED <<build, cycles, event, delta, owed>>
        /\ last' = stamp[k] /\ Goto(k, "add")
    BY <1>7 DEF Stamp, Stamped
  <2>2. owed' = delta'[k] + Since(cycles', last') /\ Near(Since(cycles, last))'
    BY <2>1 DEF Timely, Near
  <2> QED
    BY <1>2, <1>3, <2>1, <2>2, TimelyAt
<1>8. ASSUME Add(k) PROVE Timely'
  <2>1. /\ at[k] = "add" /\ UNCHANGED <<build, cycles, last, event>>
        /\ owed' = Owing(owed - delta[k]) /\ Goto(k, "drain")
    BY <1>8 DEF Add
  <2>2. owed = delta[k] + Since(cycles, last) /\ Near(Since(cycles, last))
    BY <2>1 DEF Timely
  <2>3. delta[k] \in Nat /\ Since(cycles, last) \in Nat /\ Room(cycles, event) \in Nat
    BY ClockTypes DEF Clock
  <2>4. owed' = Since(cycles, last) /\ owed' <= owed
    BY <1>3, <2>1, <2>2, <2>3, Bounds DEF Owing
  <2>5. owed' \in 0..Longest /\ owed' + Room(cycles', event') <= Longest
    BY <1>3, <2>1, <2>3, <2>4, Bounds
  <2>6. owed' = Since(cycles', last') /\ Near(Since(cycles, last))'
    BY <2>1, <2>2, <2>4 DEF Near
  <2> QED
    BY <1>2, <1>3, <2>1, <2>5, <2>6, TimelyAt
<1>9. ASSUME Transition(k) PROVE Timely'
  BY <1>9, QuietTimely DEF Transition
<1>10. ASSUME Settle(k) PROVE Timely'
  <2>1. /\ at[k] = "drain" /\ count < LineCycles /\ UNCHANGED <<build, cycles, last, owed>>
        /\ event' = (cycles + LineCycles - count) % CycleMod /\ Goto(k, "idle")
    BY <1>10 DEF Settle
  <2>2. count \in 0..(LineCycles - 1)
    BY <2>1, Bounds, Widths DEF TypeOK
  <2>3. Room(cycles', event') = LineCycles - count + Lateness
    BY <2>1, <2>2, ClockTypes, Settled
  <2>4. owed = Since(cycles, last) /\ owed \in 0..Lateness
    <3>1. owed = Since(cycles, last) /\ Near(owed)
      BY <1>4, <2>1 DEF Timely
    <3>2. Room(cycles, event) \in Nat
      BY ClockTypes DEF Clock
    <3> QED
      BY <1>3, <3>1, <3>2, Bounds DEF Near
  <2>5. owed' + Room(cycles', event') <= Longest /\ Room(cycles', event') <= LineCycles + Lateness
    BY <2>1, <2>2, <2>3, <2>4, Bounds
  <2> QED
    BY <1>2, <1>3, <2>1, <2>4, <2>5, TimelyAt
<1> QED
  BY <1>5, <1>6, <1>7, <1>8, <1>9, <1>10 DEF Tick

LEMMA CountStep ==
  ASSUME CountInv, [Next]_vars
  PROVE  CountInv'
<1> USE DEF core0Vars, lineVars, tickVars, threadVars
<1>1. TypeOK' /\ Threads'
  BY TypeStep DEF CountInv
<1> DEFINE Goal == Calls' /\ (Alone' => Lone' /\ Timely')
<1>2. build' = build
  BY DEF Next, Guest, Block, FlushingStore, Serial, StoreIf, EnableInterrupts, Halt, Service,
     Top, Read, Clear, HaltStep, HaltPoll, Tick, Look, Measure, Stamp, Add, Transition,
     Settle, ThreadStart, ThreadStop, Core1, TaskLoop, vars
<1>3. ~build.async /\ at["core0"] = "idle" => \A k \in Tickers : at[k] = "idle"
  BY DEF CountInv, TypeOK, Threads, Tickers
<1>4. Alone' => Alone /\ Lone /\ Timely
  BY <1>2 DEF Alone, CountInv
<1>5. ASSUME Guest PROVE Goal
  <2>1. CASE Block
    <3>1. PICK n \in 1..MaxStep : Passed(n)
      BY <2>1 DEF Block
    <3>2. Timely => Timely'
      BY <1>3, <2>1, <3>1, PassedTimely DEF Block, At0, CountInv
    <3> QED
      BY <1>4, <2>1, <3>2 DEF Block, At0, Calls, Lone
  <2>2. CASE FlushingStore
    <3>1. Alone => ~build.async
      BY <2>2 DEF FlushingStore, Alone
    <3>2. at'["core0"] = "measure" /\ \A k \in Tasks : at'[k] = at[k]
      BY <2>2, Widths DEF FlushingStore, Goto, CountInv, TypeOK
    <3>3. Alone /\ Timely => Timely'
      BY <2>2, <3>1, <3>2, QuietTimely DEF FlushingStore, At0, CountInv, Tickers
    <3> QED
      BY <1>2, <1>4, <2>2, <3>1, <3>3 DEF FlushingStore, At0, Calls, Lone
  <2>3. CASE Serial \/ StoreIf \/ EnableInterrupts
    <3>1. Timely => Timely'
      BY <2>3, QuietTimely DEF Serial, StoreIf, EnableInterrupts, CountInv
    <3> QED
      BY <1>4, <2>3, <3>1 DEF Serial, StoreIf, EnableInterrupts, CountInv, Calls, Lone
  <2>4. CASE Halt
    <3>1. Alone => ~build.async
      BY <2>4 DEF Halt, Alone
    <3>2. Timely => Timely'
      BY <2>4, QuietTimely DEF Halt, CountInv
    <3> QED
      BY <1>2, <1>4, <2>4, <3>1, <3>2 DEF Halt, At0, Calls, Lone
  <2> QED
    BY <1>5, <2>1, <2>2, <2>3, <2>4 DEF Guest
<1>6. ASSUME Service PROVE Goal
  <2>1. CASE Top
    <3>1. \A k \in Tickers : at'[k] = at[k] \/ (at[k] = "idle" /\ at'[k] = "look")
      BY <2>1 DEF Top, At0, Goto, CountInv, TypeOK
    <3>2. Timely => Timely'
      BY <2>1, <3>1, QuietTimely DEF Top, CountInv
    <3> QED
      BY <1>4, <2>1, <3>2 DEF Top, At0, Calls, Lone
  <2>2. CASE Read
    <3>1. Timely => Timely'
      BY <2>2, QuietTimely DEF Read, CountInv
    <3>2. Lone => Lone'
      BY <2>2 DEF Read, Lone
    <3> QED
      BY <1>4, <2>2, <3>1, <3>2 DEF Read, At0, Calls
  <2>3. CASE Clear
    <3>1. Timely => Timely'
      BY <2>3, QuietTimely DEF Clear, CountInv
    <3> QED
      BY <1>4, <2>3, <3>1 DEF Clear, At0, Calls, Lone
  <2>4. CASE HaltStep
    <3>1. \A k \in Tickers : at'[k] = at[k] \/ (at[k] = "idle" /\ at'[k] = "look")
      BY <2>4 DEF HaltStep, At0, Goto, CountInv, TypeOK
    <3>2. 1 \in 1..MaxStep
      BY Bounds
    <3>3. Timely => Timely'
      BY <1>3, <2>4, <3>1, <3>2, PassedTimely DEF HaltStep, At0, CountInv
    <3> QED
      BY <1>4, <2>4, <3>3 DEF HaltStep, At0, Calls, Lone
  <2>5. CASE HaltPoll
    <3>1. Timely => Timely'
      BY <2>5, QuietTimely DEF HaltPoll, CountInv
    <3> QED
      BY <1>4, <2>5, <3>1 DEF HaltPoll, At0, Calls, Lone
  <2> QED
    BY <1>6, <2>1, <2>2, <2>3, <2>4, <2>5 DEF Service
<1>7. ASSUME NEW k \in Tickers, Tick(k) PROVE Goal
  <2>1. at[k] # "idle"
    BY <1>7, TickTypes DEF CountInv
  <2>2. core0' = core0 /\ halted' = halted /\ alive' = alive /\ handle' = handle
    BY <1>7 DEF Tick, Look, Measure, Stamp, Add, Transition, Settle
  <2>3. at["core0"] = "idle" => at'["core0"] = "idle"
    BY <1>7, <2>1, Widths DEF Tick, Look, Measure, Stamp, Add, Transition, Settle, Goto,
       CountInv, TypeOK
  <2>4. Calls' /\ (Lone => Lone')
    BY <1>2, <2>2, <2>3 DEF Calls, Lone, CountInv
  <2>5. Alone /\ Lone /\ Timely => Timely'
    BY <1>7, TickTimely DEF CountInv
  <2> QED
    BY <1>4, <2>4, <2>5
<1>8. ASSUME ThreadStart PROVE Goal
  <2>1. Timely => Timely'
    BY <1>8, QuietTimely DEF ThreadStart, CountInv
  <2>2. Lone => Lone'
    BY <1>8, Widths DEF ThreadStart, At0, Lone, CountInv, TypeOK
  <2> QED
    BY <1>4, <1>8, <2>1, <2>2 DEF ThreadStart, At0, Calls
<1>9. ASSUME ThreadStop PROVE Goal
  <2>1. ~build.async \/ ~Alone
    BY <1>9 DEF ThreadStop, Alone
  <2>2. Timely => Timely'
    BY <1>9, QuietTimely DEF ThreadStop, CountInv
  <2> QED
    BY <1>2, <1>4, <1>9, <2>1, <2>2 DEF ThreadStop, At0, Calls, Lone
<1>10. ASSUME NEW t \in Tasks, TaskLoop(t) PROVE Goal
  <2>1. /\ at'["core0"] = at["core0"]
        /\ \A k \in Tickers : at'[k] = at[k] \/ (at[k] = "idle" /\ at'[k] = "look")
    BY <1>10, Widths DEF TaskLoop, Goto, CountInv, TypeOK
  <2>2. Timely => Timely'
    BY <1>10, <2>1, QuietTimely DEF TaskLoop, CountInv
  <2> QED
    BY <1>2, <1>4, <1>10, <2>1, <2>2 DEF TaskLoop, CountInv, Calls, Lone
<1>11. ASSUME UNCHANGED vars PROVE Goal
  <2>1. Timely => Timely'
    BY <1>11, QuietTimely DEF vars, CountInv
  <2> QED
    BY <1>4, <1>11, <2>1 DEF vars, CountInv, Calls, Lone
<1>12. Goal
  BY <1>5, <1>6, <1>7, <1>8, <1>9, <1>10, <1>11, Widths DEF Next, Core1
<1> QED
  BY <1>1, <1>12 DEF CountInv

\* One thread that calls ppu_tick alone counts every cycle once, however the
\* clock of the other core moves between its two reads of it, and across a wrap
\* of the 32-bit stamps (ppu.c 617-633).
THEOREM PpuThreadCounts == Spec => []CountedOnceAlone
<1>1. Init => CountInv
  <2> SUFFICES ASSUME Init PROVE CountInv
    OBVIOUS
  <2>1. TypeOK /\ Threads
    BY InitTypes
  <2>2. Calls /\ Lone
    BY Widths DEF Init, Calls, Lone
  <2>3. 0 \in Clock /\ cycles = 0 /\ last = 0 /\ event = 0 /\ owed = 0
    BY Bounds DEF Init, Clock
  <2>4. Since(cycles, last) = 0
    BY <2>3, ClockRanges
  <2>5. Room(cycles, event) = Lateness
    <3>1. 0 - 0 + Lateness = Lateness /\ Lateness \in 0..(CycleMod - 1)
      BY Bounds
    <3> QED
      BY <2>3, <3>1, Bounds, DivisionSmall DEF Room
  <2>6. \A k \in Tickers : at[k] = "idle"
    BY DEF Init
  <2>7. Timely
    BY <2>3, <2>4, <2>5, <2>6, Bounds DEF Timely
  <2> QED
    BY <2>1, <2>2, <2>7 DEF CountInv
<1>2. CountInv /\ [Next]_vars => CountInv'
  BY CountStep
<1>3. CountInv => CountedOnceAlone
  <2> SUFFICES ASSUME CountInv, Alone, \A k \in Tickers : at[k] # "stamp"
               PROVE  CountedOnce
    BY DEF CountedOnceAlone, CountedOnce, Alone
  <2> DEFINE measured == {k \in Tickers : at[k] = "add"}
  <2>1. Timely /\ TypeOK
    BY DEF CountInv
  <2>2. Since(cycles, last) \in Nat
    BY <2>1, ClockTypes DEF Clock
  <2>3. CASE measured = {}
    <3>1. owed = Since(cycles, last)
      BY <2>1, <2>3 DEF Timely
    <3>2. Since(cycles, last) + 0 = Since(cycles, last)
      BY <2>2
    <3> QED
      BY <2>3, <3>1, <3>2 DEF CountedOnce, Since
  <2>4. CASE measured # {}
    <3>1. (CHOOSE k \in measured : TRUE) \in measured
      BY <2>4
    <3>2. PICK k \in Tickers : k = (CHOOSE j \in measured : TRUE) /\ at[k] = "add"
      BY <3>1
    <3>3. owed = delta[k] + Since(cycles, last) /\ delta[k] \in Nat
      BY <2>1, <3>2, ClockTypes DEF Timely, Clock
    <3>4. owed = Since(cycles, last) + delta[k]
      BY <2>2, <3>3
    <3> QED
      BY <2>4, <3>2, <3>4 DEF CountedOnce, Since
  <2> QED
    BY <2>3, <2>4
<1> QED
  BY <1>1, <1>2, <1>3, PTL DEF Spec

================================================================================
