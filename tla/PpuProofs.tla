------------------------------- MODULE PpuProofs -------------------------------
(***************************************************************************)
(* Theorems about Ppu, for every length of a line and of its modes, number *)
(* of lines, widths of LY, of the count and of the cycle stamps, and       *)
(* guest: types and whole frames; and that a controller replayed late is   *)
(* the beam, because replaying the cycles that have elapsed leads to it    *)
(* (CatchesUp).                                                            *)
(***************************************************************************)
EXTENDS Ppu, Quotients, TLAPS

-----------------------------------------------------------------------------
(* The pace: how far the controller is behind the processor.               *)

\* How many cycles after the last ppu_advance the next transition comes, or with
\* the LCD off the next frame.
Deadline == IF lastLcdc THEN Span - count ELSE FrameCycles - offCount

\* No more than MaxGap cycles have passed since the controller was last known to
\* be before its deadline, so that differences of stamps are what they stand for.
PaceInRun ==
  /\ lag <= since
  /\ IF lcdc = lastLcdc
     THEN /\ since = lag \/ since - lag < Deadline
          /\ ahead = IF since <= Deadline THEN Deadline - since
                     ELSE CycleMod + Deadline - since
     ELSE since = lag
  /\ lastLcdc => count < Span

PaceInDrain ==
  /\ lag = 0 /\ since = 0 /\ lastLcdc = lcdc
  /\ lcdc => count < Span + MaxGap

Pace ==
  /\ pc = "run" => PaceInRun
  /\ pc = "drain" => PaceInDrain
  /\ count < LineCycles + MaxGap
  /\ ~lastLcdc => mode = HBLANK /\ ly = 0

\* A mode is at least one cycle long.
ModeOK == mode = TRANSFER => mode3 # 0

\* The lines of the frame that has begun are drawn one after the other.
Drawn ==
  lastLcdc => /\ mode \in {SEARCH_OAM, TRANSFER} => ly < Height /\ 0..(ly - 1) \subseteq drawn
              /\ mode = HBLANK => ly < Height /\ 0..ly \subseteq drawn

Base == TypeOK /\ Pace /\ ModeOK /\ Drawn
-----------------------------------------------------------------------------
(* The replay: what the loop of ppu_advance makes of elapsed cycles.        *)

LcdState ==
  [mode : Modes, ly : 0..LastLine, count : Nat,
   mode3 : {0} \union {TransferCycles + s : s \in ScrollValues},
   level : BOOLEAN, irq : SUBSET Interrupts, frame : 0..1]

SpanOf(s) ==
  CASE s.mode = SEARCH_OAM -> OamCycles
    [] s.mode = TRANSFER -> s.mode3
    [] s.mode = HBLANK -> LineCycles - OamCycles - s.mode3
    [] s.mode = VBLANK -> LineCycles

\* The level of the STAT line in mode m on line l, and the interrupts pending once
\* it is looked at.
High(m, l) == StatLevel(m, l = lyc, enable)

Raised(i, level, m, l) == IF High(m, l) /\ ~level THEN i \union {"lcdc"} ELSE i

\* The STAT line looked at.
Looked(s) == [s EXCEPT !.level = High(s.mode, s.ly),
                       !.irq = Raised(s.irq, s.level, s.mode, s.ly)]

\* A state whose mode, line, elapsed cycles and length of mode 3 are set.
Set(s, m, l, c, t) == [s EXCEPT !.mode = m, !.ly = l, !.count = c, !.mode3 = t]

\* A frame finished.
Published(s) == [s EXCEPT !.irq = s.irq \union {"vblank"}, !.frame = 1 - s.frame]

\* The transition that ends a mode.  LY becomes 0 before the last line ends.
Moved(s) ==
  LET c == s.count - SpanOf(s) IN
  CASE s.mode = SEARCH_OAM -> Looked(Set(s, TRANSFER, s.ly, c, Mode3Cycles))
    [] s.mode = TRANSFER -> Looked(Set(s, HBLANK, s.ly, c, s.mode3))
    [] s.mode = HBLANK /\ s.ly + 1 # Height ->
         Looked(Set(s, SEARCH_OAM, s.ly + 1, c, s.mode3))
    [] s.mode = HBLANK /\ s.ly + 1 = Height ->
         Looked(Set(Looked(Published(Set(s, VBLANK, s.ly, c, s.mode3))), VBLANK, Height, c, s.mode3))
    [] s.mode = VBLANK /\ s.ly \notin {0, LastLine} ->
         Looked(Set(s, VBLANK, s.ly + 1, c, s.mode3))
    [] s.mode = VBLANK /\ s.ly \in {0, LastLine} ->
         Looked(Set(Looked(Set(s, VBLANK, 0, c, s.mode3)), SEARCH_OAM, 0, c, s.mode3))

\* A cycle later.
Later(s) == Set(s, s.mode, s.ly, s.count + 1, s.mode3)

Ready(s) == s.count < SpanOf(s)

StateOf(m, l, c, t, v, i, f) ==
  [mode |-> m, ly |-> l, count |-> c, mode3 |-> t, level |-> v, irq |-> i, frame |-> f]

\* The first line after the LCD is switched on, c cycles after the store.
FirstLine(c) == StateOf(SEARCH_OAM, 0, OnCount + c, mode3, FALSE, irq, frameSeq)

\* The controller, with the cycles since the last ppu_advance; if the LCD has been
\* switched on since, at the beginning of its first line.
Now ==
  IF lastLcdc
  THEN StateOf(mode, ly, count + since, mode3, statLine, irq, frameSeq)
  ELSE Looked(FirstLine(since))

\* Modes 2, 3 and 0 belong to the visible lines, and the last two have a length.
Placed(m, l, t) ==
  /\ m # VBLANK => l < Height
  /\ m = VBLANK => l = 0 \/ l >= Height
  /\ m \in {TRANSFER, HBLANK} => t # 0

\* States the LCD can be in: the STAT line is the mode's and the line's.
Sound ==
  {s \in LcdState : /\ Placed(s.mode, s.ly, s.mode3)
                    /\ s.level = High(s.mode, s.ly)}

\* Where in its line a mode begins.
StartOf(s) ==
  CASE s.mode \in {SEARCH_OAM, VBLANK} -> 0
    [] s.mode = TRANSFER -> OamCycles
    [] s.mode = HBLANK -> OamCycles + s.mode3

\* The controller is where the beam is.
Alike(s, b) ==
  /\ s.mode = BeamMode(b)
  /\ s.ly = b.seen
  /\ s.level = b.level
  /\ s.irq = b.due /\ s.frame = b.frame

Matches(s, b) ==
  /\ Alike(s, b)
  /\ StartOf(s) + s.count = b.dot
  /\ s.ly = b.line \/ (s.ly = 0 /\ b.line = LastLine)
  /\ s.mode \in {TRANSFER, HBLANK} => s.mode3 = b.len

\* f is a replay of n transitions from s, after which none is due.
Replay(f, n, s) ==
  /\ f \in [0..n -> Sound] /\ f[0] = s /\ Ready(f[n])
  /\ \A i \in 0..(n - 1) : ~Ready(f[i]) /\ f[i + 1] = Moved(f[i])

\* Replaying what has elapsed leads to the beam.
CatchesUp(s, b) == \E n \in Nat : \E f : Replay(f, n, s) /\ Matches(f[n], b)

\* With the LCD off nothing is due but what was pending.
Dark(b) == b = [BeamOff EXCEPT !.due = irq, !.frame = frameSeq]

Lit == lcdc /\ lastLcdc

\* What has elapsed leads the controller to the beam.
Watched == IF lcdc THEN CatchesUp(Now, beam) ELSE Dark(beam)

\* The registers show the controller's mode and line.
Shown == Lit => /\ statMode = mode /\ (coinc <=> ly = lyc)
                /\ ly <= LastLine

\* The loop finds the last line only before its end.
LastLineOK == pc = "drain" /\ Lit /\ mode = VBLANK /\ ly = LastLine => count < LineCycles

\* Only the stores that make sense wait for a flush.
Waiting ==
  /\ pc = "run" => pending = NoWrite
  /\ pending.reg = "lcdc" => pending.val # lcdc
  /\ pending.reg \in {"lyc", "stat"} => ~lcdc

BeamOK == Watched /\ Shown /\ LastLineOK /\ Waiting

-----------------------------------------------------------------------------
(* Facts about the constants.                                              *)

LEMMA Numbers ==
  /\ LineCycles \in Nat \ {0} /\ OamCycles \in Nat \ {0} /\ TransferCycles \in Nat \ {0}
  /\ OnCount \in Nat \ {0} /\ Height \in Nat \ {0} /\ Lines \in Nat \ {0}
  /\ LyMod \in Nat \ {0} /\ CycleMod \in Nat \ {0} /\ MaxGap \in Nat \ {0}
  /\ OnCount < OamCycles /\ OamCycles < LineCycles
  /\ Height < LastLine /\ LastLine \in Nat /\ Lines = LastLine + 1 /\ LastLine < LyMod
  BY PpuAssumption DEF LastLine

LEMMA CountNumbers ==
  CountMod \in Nat \ {0} /\ CountMod > 2 * LineCycles
  BY PpuAssumption

\* A count is kept at its width, and is no greater for that.
LEMMA CountKept ==
  ASSUME NEW n \in Nat
  PROVE  /\ n % CountMod \in 0..(CountMod - 1) /\ n % CountMod <= n
         /\ n < CountMod => n % CountMod = n
<1>1. CountMod \in Nat \ {0}
  BY CountNumbers
<1>2. n % CountMod \in 0..(CountMod - 1)
  BY <1>1, Division
<1>3. n < CountMod => n % CountMod = n
  <2>1. n < CountMod => n \in 0..(CountMod - 1)
    BY <1>1
  <2> QED
    BY <1>1, <2>1, DivisionSmall
<1>4. n % CountMod <= n
  BY <1>1, <1>2, <1>3
<1> QED
  BY <1>2, <1>3, <1>4

LEMMA FrameNumbers ==
  FrameCycles \in Nat /\ LineCycles <= FrameCycles /\ CycleMod > 2 * (FrameCycles + MaxGap)
<1>1. LineCycles * Lines >= LineCycles * 1
  BY Numbers
<1>2. FrameCycles \in Nat
  BY Numbers DEF FrameCycles
<1> QED
  BY <1>1, <1>2, Numbers, PpuAssumption DEF FrameCycles

\* The lengths of mode 3.
Mode3Values == {0} \union {TransferCycles + s : s \in ScrollValues}

LEMMA Mode3Numbers ==
  /\ \A n \in Mode3Values : n \in Nat /\ OamCycles + n < LineCycles
  /\ 0 \in Mode3Values
  /\ \A s \in ScrollValues : TransferCycles + s \in Mode3Values /\ TransferCycles + s # 0
<1>1. \A s \in ScrollValues : s \in Nat /\ OamCycles + TransferCycles + s < LineCycles
  BY PpuAssumption
<1> QED
  BY <1>1, Numbers DEF Mode3Values

\* A mode takes a while, and no longer than a line.
LEMMA SpanBounds ==
  ASSUME TypeOK, ModeOK
  PROVE  /\ Span \in Nat \ {0} /\ Span <= LineCycles
         /\ mode = SEARCH_OAM => Span = OamCycles
         /\ mode = TRANSFER => Span = mode3
         /\ mode = HBLANK => Span = LineCycles - OamCycles - mode3
         /\ mode = VBLANK => Span = LineCycles
<1>1. mode3 \in Mode3Values /\ mode \in {0, 1, 2, 3}
  BY DEF TypeOK, Mode3Values, Modes, HBLANK, VBLANK, SEARCH_OAM, TRANSFER
<1>2. mode3 \in Nat /\ OamCycles + mode3 < LineCycles
  BY <1>1, Mode3Numbers
<1> QED
  BY <1>1, <1>2, Numbers
     DEF ModeOK, Span, HBLANK, VBLANK, SEARCH_OAM, TRANSFER

-----------------------------------------------------------------------------
(* Types, pace and lines drawn: one lemma for each action.                 *)

\* The deadline is at most a frame ahead.
LEMMA DeadlineBounds ==
  ASSUME TypeOK, ModeOK, pc = "run", PaceInRun
  PROVE  /\ Deadline \in Nat \ {0} /\ Deadline <= FrameCycles
         /\ since \in Nat /\ since < FrameCycles + MaxGap + 1 /\ since + 1 < CycleMod
<1>1. /\ count \in Nat /\ offCount \in Nat /\ offCount < FrameCycles
      /\ since \in Nat /\ lag \in Nat /\ lag <= MaxGap /\ lastLcdc \in BOOLEAN
  BY FrameNumbers, Numbers DEF TypeOK
<1>2. Deadline \in Nat \ {0} /\ Deadline <= FrameCycles
  BY <1>1, SpanBounds, FrameNumbers, Numbers DEF Deadline, PaceInRun
<1>3. since < FrameCycles + MaxGap + 1
  BY <1>1, <1>2, FrameNumbers, Numbers DEF PaceInRun
<1> QED
  BY <1>1, <1>2, <1>3, FrameNumbers, Numbers

\* The opposite of a stamp's difference, modulo the width.
LEMMA Negated ==
  ASSUME NEW a \in Int, NEW w \in Nat \ {0}, NEW q \in Int, NEW r \in 0..(w - 1),
         a = -(w * q) - r
  PROVE  (-a) % w = r
<1> DEFINE n == -a
<1>1. n \in Int /\ n = w * q + r
  BY Z3
<1> HIDE DEF n
<1>2. n % w = r
  BY <1>1, IntDivisionIs
<1> QED
  BY <1>2 DEF n

\* The signed comparison of stamps is the comparison of the times.
LEMMA ReachedIs ==
  ASSUME TypeOK, ModeOK, pc = "run", PaceInRun, lcdc = lastLcdc
  PROVE  Reached <=> since >= Deadline
<1> DEFINE d == Deadline
<1>1. /\ d \in Nat \ {0} /\ d <= FrameCycles /\ since \in Nat
      /\ since - d <= MaxGap
  <2>1. lag \in Nat /\ lag <= MaxGap
    BY Numbers DEF TypeOK
  <2>2. Deadline \in Nat \ {0} /\ Deadline <= FrameCycles /\ since \in Nat
    BY DeadlineBounds
  <2>3. since = lag \/ since - lag < Deadline
    BY DEF PaceInRun
  <2> QED
    BY <2>1, <2>2, <2>3, Numbers
<1>2. ahead = IF since <= d THEN d - since ELSE CycleMod + d - since
  BY DEF PaceInRun
<1>3. Reached <=> 2 * ((-ahead) % CycleMod) < CycleMod
  BY DEF Reached
<1>4. Deadline = d
  OBVIOUS
<1> HIDE DEF d
<1>5. FrameCycles \in Nat /\ CycleMod \in Nat \ {0} /\ MaxGap \in Nat
      /\ CycleMod > 2 * (FrameCycles + MaxGap)
  BY FrameNumbers, Numbers
<1>6. CASE since < d
  <2> DEFINE r == CycleMod - (d - since)
  <2>1. ahead = d - since
    BY <1>1, <1>2, <1>6
  <2>2. r \in 0..(CycleMod - 1) /\ ahead \in Int /\ ahead = -(CycleMod * (-1)) - r
    BY <1>1, <1>5, <1>6, <2>1
  <2>3. 2 * r >= CycleMod
    BY <1>1, <1>5, <1>6
  <2> HIDE DEF r
  <2>4. (-ahead) % CycleMod = r
    BY <2>2, <1>5, Negated
  <2> QED
    BY <1>1, <1>3, <1>4, <1>5, <1>6, <2>2, <2>3, <2>4
<1>7. CASE since >= d
  <2> DEFINE r == since - d
  <2> DEFINE q == IF since = d THEN 0 ELSE -1
  <2>1. /\ r \in 0..(CycleMod - 1) /\ ahead \in Int /\ q \in Int
        /\ ahead = -(CycleMod * q) - r
    <3>1. CASE since = d
      BY <1>1, <1>2, <1>5, <3>1
    <3>2. CASE since > d
      BY <1>1, <1>2, <1>5, <3>2
    <3> QED
      BY <1>1, <1>7, <3>1, <3>2
  <2>2. 2 * r < CycleMod
    BY <1>1, <1>5
  <2> HIDE DEF r, q
  <2>3. (-ahead) % CycleMod = r
    BY <2>1, <1>5, Negated
  <2> QED
    BY <1>3, <1>4, <1>7, <2>2, <2>3
<1> QED
  BY <1>1, <1>6, <1>7

\* The types of the beam, which moves on its own.
Beams == [line : 0..LastLine, dot : 0..(LineCycles - 1), seen : 0..LastLine,
          len : Mode3Values, level : BOOLEAN, due : SUBSET Interrupts, frame : 0..1]

LEMMA EnteredTypes ==
  ASSUME NEW b \in Beams, NEW l, NEW e
  PROVE  /\ Entered(b, l, e) \in Beams
         /\ Entered(b, l, e).line = b.line /\ Entered(b, l, e).dot = b.dot
         /\ Entered(b, l, e).seen = b.seen /\ Entered(b, l, e).len = b.len
         /\ Entered(b, l, e).frame = b.frame
         /\ Entered(b, l, e).level = StatLevel(BeamMode(b), b.seen = l, e)
         /\ Entered(b, l, e).due =
              IF StatLevel(BeamMode(b), b.seen = l, e) /\ ~b.level
              THEN b.due \union {"lcdc"} ELSE b.due
<1> DEFINE high == StatLevel(BeamMode(b), b.seen = l, e)
<1>1. high \in BOOLEAN
  BY DEF StatLevel
<1>2. Entered(b, l, e) = [b EXCEPT !.level = high,
                            !.due = IF high /\ ~b.level THEN b.due \union {"lcdc"} ELSE b.due]
  BY DEF Entered, Beams
<1> HIDE DEF high
<1>3. (IF high /\ ~b.level THEN b.due \union {"lcdc"} ELSE b.due) \in SUBSET Interrupts
  BY DEF Beams, Interrupts
<1>4. /\ Entered(b, l, e) \in Beams
      /\ Entered(b, l, e).line = b.line /\ Entered(b, l, e).dot = b.dot
      /\ Entered(b, l, e).seen = b.seen /\ Entered(b, l, e).len = b.len
      /\ Entered(b, l, e).frame = b.frame
      /\ Entered(b, l, e).level = high
      /\ Entered(b, l, e).due = IF high /\ ~b.level THEN b.due \union {"lcdc"} ELSE b.due
  BY <1>1, <1>2, <1>3 DEF Beams
<1> QED
  BY <1>4 DEF high

LEMMA BeamFacts ==
  ASSUME NEW b \in Beams
  PROVE  /\ b.line \in 0..LastLine /\ b.dot \in 0..(LineCycles - 1) /\ b.seen \in 0..LastLine
         /\ b.len \in Mode3Values /\ b.level \in BOOLEAN /\ b.due \in SUBSET Interrupts
         /\ b.frame \in 0..1
  BY DEF Beams

\* A beam moved to a dot of a line.
PutAt(b, l, d) == [b EXCEPT !.line = l, !.dot = d]

LEMMA PutTypes ==
  ASSUME NEW b \in Beams, NEW l \in 0..LastLine, NEW d \in 0..(LineCycles - 1)
  PROVE  /\ PutAt(b, l, d) \in Beams
         /\ PutAt(b, l, d).line = l /\ PutAt(b, l, d).dot = d
         /\ PutAt(b, l, d).seen = b.seen /\ PutAt(b, l, d).len = b.len
         /\ PutAt(b, l, d).level = b.level /\ PutAt(b, l, d).due = b.due
         /\ PutAt(b, l, d).frame = b.frame
  BY DEF Beams, PutAt

SawLine(b, n) == [b EXCEPT !.seen = n]

LEMMA SawTypes ==
  ASSUME NEW b \in Beams, NEW n \in 0..LastLine
  PROVE  /\ SawLine(b, n) \in Beams
         /\ SawLine(b, n).line = b.line /\ SawLine(b, n).dot = b.dot
         /\ SawLine(b, n).seen = n /\ SawLine(b, n).len = b.len
         /\ SawLine(b, n).level = b.level /\ SawLine(b, n).due = b.due
         /\ SawLine(b, n).frame = b.frame
  BY DEF Beams, SawLine

\* The beam at the end of a frame's visible lines.
Framed(b) == [b EXCEPT !.due = b.due \union {"vblank"}, !.frame = 1 - b.frame]

LEMMA FramedTypes ==
  ASSUME NEW b \in Beams
  PROVE  /\ Framed(b) \in Beams
         /\ Framed(b).line = b.line /\ Framed(b).dot = b.dot
         /\ Framed(b).seen = b.seen /\ Framed(b).len = b.len
         /\ Framed(b).level = b.level /\ Framed(b).due = b.due \union {"vblank"}
         /\ Framed(b).frame = 1 - b.frame
<1>1. b.due \union {"vblank"} \in SUBSET Interrupts /\ 1 - b.frame \in 0..1
  BY DEF Beams, Interrupts
<1> QED
  BY <1>1 DEF Beams, Framed

\* NextLine and NextDot, in these steps.
LEMMA NextLineIs ==
  ASSUME NEW b \in Beams
  PROVE  /\ b.line + 1 = Height =>
              NextLine(b) = Settle(SawLine(Settle(Framed(PutAt(b, Height, 0))), Height))
         /\ b.line = LastLine =>
              NextLine(b) = Settle(PutAt(Settle(SawLine(b, 0)), 0, 0))
         /\ b.line + 1 # Height /\ b.line # LastLine =>
              NextLine(b) = Settle(SawLine(PutAt(b, b.line + 1, 0), b.line + 1))
<1> DEFINE n == IF b.line = LastLine THEN 0 ELSE b.line + 1
           m == PutAt(b, n, 0)
<1>1. NextLine(b) =
        CASE n = Height -> Settle(SawLine(Settle(Framed(m)), n))
          [] n = 0 -> Settle(PutAt(Settle(SawLine(b, 0)), 0, 0))
          [] OTHER -> Settle(SawLine(m, n))
  <2>1. m \in Beams
    <3>1. n \in 0..LastLine /\ 0 \in 0..(LineCycles - 1)
      BY Numbers, BeamFacts
    <3> HIDE DEF n
    <3> QED
      BY <3>1, PutTypes
  <2>2. [m EXCEPT !.due = @ \union {"vblank"}, !.frame = 1 - @] = Framed(m)
    BY DEF Framed
  <2> QED
    BY <2>2, Zenon DEF NextLine, SawLine, PutAt
<1>2. b.line \in 0..LastLine /\ Height < LastLine /\ Height \in Nat \ {0} /\ LastLine \in Nat
  BY Numbers DEF Beams
<1>3. /\ b.line + 1 = Height => n = Height
      /\ b.line = LastLine => n = 0 /\ n # Height
      /\ b.line + 1 # Height /\ b.line # LastLine => n = b.line + 1 /\ n # 0 /\ n # Height
  BY <1>2
<1> HIDE DEF n
<1>4. CASE n = Height
  <2>1. NextLine(b) = Settle(SawLine(Settle(Framed(m)), n))
    BY <1>1, <1>2, <1>4
  <2> QED
    BY <1>3, <1>4, <2>1
<1>5. CASE n # Height /\ n = 0
  <2>1. NextLine(b) = Settle(PutAt(Settle(SawLine(b, 0)), 0, 0))
    BY <1>1, <1>5
  <2> QED
    BY <1>3, <1>5, <2>1
<1>6. CASE n # Height /\ n # 0
  <2>1. NextLine(b) = Settle(SawLine(m, n))
    BY <1>1, <1>6
  <2> QED
    BY <1>3, <1>6, <2>1
<1> QED
  BY <1>4, <1>5, <1>6

\* A dot on, on the same line.
NextDotOf(b) == [b EXCEPT !.dot = b.dot + 1,
                          !.len = IF b.dot + 1 = OamCycles THEN TransferCycles + scx ELSE b.len]

LEMMA NextDotOfTypes ==
  ASSUME NEW b \in Beams, scx \in ScrollValues, b.dot + 1 # LineCycles
  PROVE  /\ NextDotOf(b) \in Beams
         /\ NextDotOf(b).line = b.line /\ NextDotOf(b).dot = b.dot + 1
         /\ NextDotOf(b).seen = b.seen
         /\ NextDotOf(b).len = IF b.dot + 1 = OamCycles THEN TransferCycles + scx ELSE b.len
         /\ NextDotOf(b).level = b.level /\ NextDotOf(b).due = b.due
         /\ NextDotOf(b).frame = b.frame
<1>1. b.dot + 1 \in 0..(LineCycles - 1)
  BY BeamFacts, Numbers
<1>2. (IF b.dot + 1 = OamCycles THEN TransferCycles + scx ELSE b.len) \in Mode3Values
  BY Mode3Numbers, BeamFacts
<1> DEFINE w == IF b.dot + 1 = OamCycles THEN TransferCycles + scx ELSE b.len
           d == b.dot + 1
<1>3. NextDotOf(b) = [b EXCEPT !.dot = d, !.len = w]
  BY DEF NextDotOf
<1>4. d \in 0..(LineCycles - 1) /\ w \in Mode3Values
  BY <1>1, <1>2
<1> HIDE DEF w, d
<1>5. /\ NextDotOf(b) \in Beams
      /\ NextDotOf(b).line = b.line /\ NextDotOf(b).dot = d
      /\ NextDotOf(b).seen = b.seen /\ NextDotOf(b).len = w
      /\ NextDotOf(b).level = b.level /\ NextDotOf(b).due = b.due
      /\ NextDotOf(b).frame = b.frame
  BY <1>3, <1>4 DEF Beams
<1> QED
  BY <1>5 DEF w, d

LEMMA NextDotIs ==
  ASSUME NEW b \in Beams
  PROVE  NextDot(b) = IF b.dot + 1 = LineCycles THEN NextLine(b) ELSE Settle(NextDotOf(b))
  BY DEF NextDot, NextDotOf, Beams

LEMMA NextDotTypes ==
  ASSUME NEW b \in Beams, scx \in ScrollValues
  PROVE  NextDot(b) \in Beams
<1>1. 0 \in 0..LastLine /\ Height \in 0..LastLine /\ 0 \in 0..(LineCycles - 1)
  BY Numbers
<1>2. \A c \in Beams : Settle(c) \in Beams
  BY EnteredTypes DEF Settle
<1>3. CASE b.dot + 1 # LineCycles
  BY <1>2, <1>3, NextDotIs, NextDotOfTypes
<1>4. CASE b.dot + 1 = LineCycles
  <2>1. NextDot(b) = NextLine(b)
    BY <1>4, NextDotIs
  <2>2. \A c \in Beams : \A l \in 0..LastLine : PutAt(c, l, 0) \in Beams
    BY <1>1, PutTypes
  <2>3. \A c \in Beams : \A l \in 0..LastLine : SawLine(c, l) \in Beams
    BY SawTypes
  <2>4. \A c \in Beams : Framed(c) \in Beams
    BY FramedTypes
  <2>5. CASE b.line + 1 = Height
    <3>1. NextLine(b) = Settle(SawLine(Settle(Framed(PutAt(b, Height, 0))), Height))
      BY <2>5, NextLineIs
    <3>2. Settle(Framed(PutAt(b, Height, 0))) \in Beams
      BY <1>1, <1>2, <2>2, <2>4
    <3> QED
      BY <1>1, <1>2, <2>1, <2>3, <3>1, <3>2
  <2>6. CASE b.line = LastLine
    <3>1. NextLine(b) = Settle(PutAt(Settle(SawLine(b, 0)), 0, 0))
      BY <2>6, NextLineIs
    <3>2. Settle(SawLine(b, 0)) \in Beams
      BY <1>1, <1>2, <2>3
    <3> QED
      BY <1>1, <1>2, <2>1, <2>2, <3>1, <3>2
  <2>7. CASE b.line + 1 # Height /\ b.line # LastLine
    <3>1. b.line + 1 \in 0..LastLine
      BY <2>7, BeamFacts, Numbers
    <3>2. NextLine(b) = Settle(SawLine(PutAt(b, b.line + 1, 0), b.line + 1))
      BY <2>7, NextLineIs
    <3>3. PutAt(b, b.line + 1, 0) \in Beams
      BY <2>2, <3>1
    <3> QED
      BY <1>2, <2>1, <2>3, <3>1, <3>2, <3>3
  <2> QED
    BY <2>5, <2>6, <2>7
<1> QED
  BY <1>3, <1>4

LEMMA BeamsIs == TypeOK => beam \in Beams
  BY DEF TypeOK, Beams, Mode3Values

LEMMA SwitchTypes ==
  ASSUME NEW b \in Beams
  PROVE  SwitchedOn(b) \in Beams /\ SwitchedOff(b) \in Beams
<1> DEFINE c == [b EXCEPT !.line = 0, !.dot = OnCount, !.seen = 0, !.level = FALSE]
<1>1. OnCount \in 0..(LineCycles - 1) /\ 0 \in 0..LastLine /\ 0 \in 0..(LineCycles - 1)
  BY Numbers
<1>2. c \in Beams
  BY <1>1 DEF Beams
<1>3. SwitchedOn(b) = Entered(c, lyc, enable)
  BY DEF SwitchedOn, Settle
<1> HIDE DEF c
<1>4. SwitchedOn(b) \in Beams
  <2>1. \A x \in Beams : Entered(x, lyc, enable) \in Beams
    BY EnteredTypes
  <2> QED
    BY <1>2, <1>3, <2>1
<1>5. SwitchedOff(b) \in Beams
  BY <1>1, Mode3Numbers DEF Beams, SwitchedOff, BeamOff
<1> QED
  BY <1>4, <1>5

\* The next state, in the parts the lemmas speak of.
LEMMA InitBase == Init => Base
<1> SUFFICES ASSUME Init PROVE Base
  OBVIOUS
<1>1. /\ LineCycles \in Nat /\ CycleMod \in Nat \ {0} /\ MaxGap \in Nat \ {0} /\ LyMod \in Nat \ {0}
      /\ FrameCycles \in Nat \ {0} /\ CountMod \in Nat \ {0}
  BY Numbers, FrameNumbers, CountNumbers
<1>2. beam \in Beams
  <2>1. BeamOff \in Beams
    BY Numbers, Mode3Numbers DEF BeamOff, Beams
  <2> QED
    BY <2>1, SwitchTypes DEF Init
<1>3. TypeOK
  <2>1. /\ lcdc \in BOOLEAN /\ lastLcdc \in BOOLEAN /\ coinc \in BOOLEAN /\ statLine \in BOOLEAN
        /\ pc \in {"run", "drain"} /\ pending \in Writes \union {NoWrite}
        /\ enable \in StatValues /\ irq \subseteq Interrupts /\ drawn \subseteq 0..(Height - 1)
        /\ scx \in ScrollValues /\ lyc \in LycValues
    BY PpuAssumption DEF Init
  <2>2. /\ lag \in 0..MaxGap /\ ly \in 0..(LyMod - 1) /\ statMode \in Modes /\ mode \in Modes
        /\ count \in 0..(CountMod - 1) /\ offCount \in 0..(FrameCycles - 1) /\ frameSeq \in 0..1
        /\ since \in 0..(CycleMod - 1) /\ ahead \in 0..(CycleMod - 1)
        /\ mode3 \in {0} \union {TransferCycles + s : s \in ScrollValues}
    <3>1. /\ lag = 0 /\ ly = 0 /\ statMode = VBLANK /\ mode = HBLANK /\ count = 0
          /\ offCount = 0 /\ frameSeq = 0 /\ since = 0 /\ ahead = 0 /\ mode3 = 0
      BY DEF Init
    <3> QED
      BY <1>1, <3>1 DEF Modes, HBLANK, VBLANK
  <2> QED
    BY <1>2, <2>1, <2>2 DEF TypeOK, Beams, Mode3Values
<1>4. Pace
  <2>1. lcdc # lastLcdc /\ ~lastLcdc /\ pc = "run" /\ mode = HBLANK /\ ly = 0
    BY DEF Init
  <2>2. lag = 0 /\ since = 0 /\ count = 0
    BY DEF Init
  <2>3. lag <= since /\ since = lag /\ count < LineCycles + MaxGap
    BY <1>1, <2>2
  <2> QED
    BY <2>1, <2>3 DEF Pace, PaceInRun
<1> QED
  BY <1>3, <1>4 DEF Init, Base, ModeOK, Drawn, HBLANK, TRANSFER

LEMMA CycleBase == Base /\ Cycle => Base'
<1> SUFFICES ASSUME Base, Cycle PROVE Base'
  OBVIOUS
<1> USE DEF Base
<1>1. /\ pc = "run" /\ lag < MaxGap /\ PaceInRun
      /\ LineCycles \in Nat /\ CycleMod \in Nat \ {0} /\ MaxGap \in Nat \ {0}
      /\ lag \in Nat /\ since \in Nat
  BY Numbers DEF Cycle, Pace, TypeOK
<1>2. /\ since + 1 < CycleMod /\ Deadline \in Nat \ {0} /\ Deadline <= FrameCycles
      /\ FrameCycles \in Nat /\ CycleMod > 2 * (FrameCycles + MaxGap)
      /\ since < FrameCycles + MaxGap + 1
  BY <1>1, DeadlineBounds, FrameNumbers
<1>3. since' = since + 1
  BY <1>1, <1>2, DivisionSmall DEF Cycle
<1>4. Deadline' = Deadline
  BY DEF Cycle, lineVars, Deadline, Span
<1>5. ahead' \in 0..(CycleMod - 1)
  <2>1. ahead - 1 \in Int /\ ahead' = (ahead - 1) % CycleMod
    BY <1>1 DEF Cycle, TypeOK
  <2> QED
    BY <1>1, <2>1, IntDivision
<1>6. ASSUME lcdc = lastLcdc
      PROVE  ahead' = IF since' <= Deadline' THEN Deadline' - since'
                      ELSE CycleMod + Deadline' - since'
  <2> DEFINE d == Deadline
             a == ahead - 1
  <2>1. ahead = IF since <= d THEN d - since ELSE CycleMod + d - since
    BY <1>1, <1>6 DEF PaceInRun
  <2>2. ahead' = a % CycleMod /\ a = ahead - 1
    BY DEF Cycle
  <2>3. d \in Nat \ {0} /\ d <= FrameCycles
    BY <1>2
  <2>4. Deadline' = d
    BY <1>4
  <2> HIDE DEF d, a
  <2> SUFFICES ahead' = IF since + 1 <= d THEN d - (since + 1) ELSE CycleMod + d - (since + 1)
    BY <1>3, <2>4
  <2>5. CASE since < d
    <3>1. a \in 0..(CycleMod - 1) /\ a = d - since - 1
      BY <1>1, <1>2, <2>1, <2>2, <2>3, <2>5
    <3>2. ahead' = a
      BY <1>1, <2>2, <3>1, DivisionSmall
    <3> QED
      BY <1>1, <1>3, <2>3, <2>5, <3>1, <3>2
  <2>6. CASE since = d
    <3>1. a = CycleMod * (-1) + (CycleMod - 1) /\ CycleMod - 1 \in 0..(CycleMod - 1)
      BY <1>1, <1>2, <2>1, <2>2, <2>3, <2>6
    <3>2. ahead' = CycleMod - 1
      BY <1>1, <2>2, <3>1, IntDivisionIs
    <3> QED
      BY <1>1, <1>3, <2>3, <2>6, <3>2
  <2>7. CASE since > d
    <3>1. a \in 0..(CycleMod - 1) /\ a = CycleMod + d - since - 1
      BY <1>1, <1>2, <2>1, <2>2, <2>3, <2>7
    <3>2. ahead' = a
      BY <1>1, <2>2, <3>1, DivisionSmall
    <3> QED
      BY <1>1, <1>3, <2>3, <2>7, <3>1, <3>2
  <2> QED
    BY <1>1, <2>3, <2>5, <2>6, <2>7
<1>7. Pace'
  <2>1. lag' = lag + 1 /\ pc' = pc /\ lcdc' = lcdc /\ lastLcdc' = lastLcdc
    BY DEF Cycle
  <2>2. lag' <= since'
    BY <1>1, <1>3, <2>1 DEF PaceInRun
  <2>3. lcdc = lastLcdc => since' = lag' \/ since' - lag' < Deadline'
    BY <1>1, <1>2, <1>3, <1>4, <2>1 DEF PaceInRun
  <2>4. lcdc # lastLcdc => since' = lag'
    BY <1>1, <1>3, <2>1 DEF PaceInRun
  <2>5. lastLcdc' => (count < Span)'
    BY <1>1 DEF PaceInRun, Cycle, lineVars, Span
  <2>6. lcdc = lastLcdc =>
          ahead' = IF since' <= Deadline' THEN Deadline' - since' ELSE CycleMod + Deadline' - since'
    BY <1>4, <1>6
  <2>7. PaceInRun'
    BY <2>1, <2>2, <2>3, <2>4, <2>5, <2>6 DEF PaceInRun
  <2>8. (count < LineCycles + MaxGap)' /\ (~lastLcdc => mode = HBLANK /\ ly = 0)'
    BY DEF Pace, Cycle, lineVars
  <2>9. pc' = "run"
    BY <1>1, <2>1
  <2> QED
    BY <2>7, <2>8, <2>9 DEF Pace
<1>8. beam' \in Beams
  BY BeamsIs, NextDotTypes DEF Cycle, TypeOK
<1>9. lag' \in 0..MaxGap /\ since' \in 0..(CycleMod - 1)
  BY <1>1, <1>2, <1>3 DEF Cycle
<1>10. TypeOK'
  BY <1>5, <1>8, <1>9 DEF TypeOK, Cycle, lineVars, drawVars, Beams, Mode3Values
<1>11. (ModeOK /\ Drawn)'
  BY DEF Cycle, lineVars, drawVars, ModeOK, Drawn
<1> QED
  BY <1>7, <1>10, <1>11

LEMMA TickEarlyBase == Base /\ TickEarly => Base'
<1> SUFFICES ASSUME Base, TickEarly PROVE Base'
  OBVIOUS
<1> USE DEF Base
<1>1. /\ pc = "run" /\ lcdc = lastLcdc /\ PaceInRun /\ since \in Nat /\ ~(since >= Deadline)
  BY ReachedIs, Numbers DEF TickEarly, Pace, TypeOK
<1>2. Deadline \in Nat
  BY <1>1, DeadlineBounds
<1>3. /\ Deadline' = Deadline /\ since' = since /\ lag' = 0 /\ Span' = Span /\ ahead' = ahead
      /\ pc' = pc /\ lcdc' = lcdc /\ lastLcdc' = lastLcdc /\ count' = count
  BY DEF TickEarly, lineVars, edgeVars, Deadline, Span
<1>4. PaceInRun'
  BY <1>1, <1>2, <1>3 DEF PaceInRun
<1>5. Pace'
  BY <1>1, <1>3, <1>4 DEF Pace, TickEarly, lineVars
<1>6. TypeOK'
  <2>1. lag' \in 0..MaxGap
    BY <1>3, Numbers
  <2> QED
    BY <2>1 DEF TypeOK, TickEarly, lineVars, edgeVars, drawVars
<1>7. (ModeOK /\ Drawn)'
  BY DEF TickEarly, lineVars, drawVars, edgeVars, ModeOK, Drawn
<1> QED
  BY <1>5, <1>6, <1>7

\* The three cases of ppu_advance, in what they do to types and pace.
LEMMA AdvanceBase ==
  ASSUME Base, pc = "run", Advance, pending' \in Writes \union {NoWrite}, lag' = 0,
         lcdc = lastLcdc => since = lag \/ since < Deadline + MaxGap
  PROVE  Base'
<1> USE DEF Base
<1>1. /\ PaceInRun /\ since \in Nat /\ count \in Nat /\ lag \in Nat /\ lag <= MaxGap
      /\ MaxGap \in Nat \ {0} /\ OamCycles \in Nat /\ LineCycles \in Nat /\ OnCount \in Nat
      /\ lastLcdc \in BOOLEAN /\ lcdc \in BOOLEAN /\ CycleMod \in Nat \ {0} /\ FrameCycles \in Nat \ {0}
  BY Numbers, FrameNumbers DEF Pace, TypeOK
<1>2. /\ Span \in Nat \ {0} /\ Span <= LineCycles /\ LineCycles <= FrameCycles
      /\ CycleMod > 2 * (FrameCycles + MaxGap) /\ OnCount < OamCycles /\ OamCycles < LineCycles
  BY SpanBounds, FrameNumbers, Numbers
<1>3. CASE AdvanceOff
  <2>1. /\ ~lcdc /\ ~lcdc' /\ ~lastLcdc' /\ (lastLcdc = lcdc)' /\ pc' = "drain" /\ since' = 0
        /\ pc' # "run"
    BY <1>3 DEF AdvanceOff, Advance
  <2>2. (mode = HBLANK /\ ly = 0 /\ count < LineCycles + MaxGap)'
    <3>1. CASE lastLcdc
      BY <1>1, <1>3, <3>1 DEF AdvanceOff, OffEdge
    <3>2. CASE ~lastLcdc
      BY <1>1, <1>3, <3>2 DEF AdvanceOff, OffEdge, Pace
    <3> QED
      BY <3>1, <3>2
  <2>3. Pace'
    BY <2>1, <2>2 DEF Pace, PaceInDrain
  <2>4. offCount' \in 0..(FrameCycles - 1)
    <3>1. offCount \in Nat
      BY <1>1 DEF TypeOK
    <3>2. (IF lastLcdc THEN 0 ELSE offCount) + since \in Nat
      BY <1>1, <3>1
    <3> QED
      BY <1>1, <1>3, <3>2, Division DEF AdvanceOff
  <2>5. /\ ly' \in 0..(LyMod - 1) /\ mode' \in Modes /\ count' \in 0..(CountMod - 1) /\ statMode' \in Modes
        /\ coinc' \in BOOLEAN /\ statLine' \in BOOLEAN
    <3>1. CASE lastLcdc
      <4>1. ly' = 0 /\ mode' = HBLANK /\ count' = 0 /\ statMode' = 0
        BY <1>3, <3>1 DEF AdvanceOff, OffEdge
      <4>2. coinc' \in BOOLEAN /\ statLine' \in BOOLEAN
        BY <1>3, <3>1 DEF AdvanceOff, OffEdge
      <4> QED
        BY <1>1, <4>1, <4>2, Numbers, CountNumbers DEF Modes, HBLANK
    <3>2. CASE ~lastLcdc
      BY <1>1, <1>3, <3>2 DEF AdvanceOff, OffEdge, TypeOK
    <3> QED
      BY <3>1, <3>2
  <2>6. TypeOK'
    BY <1>1, <1>3, <2>1, <2>4, <2>5, Numbers DEF TypeOK, Advance, AdvanceOff, drawVars
  <2>7. (ModeOK /\ Drawn)'
    BY <2>1, <2>2 DEF ModeOK, Drawn, HBLANK, TRANSFER
  <2> QED
    BY <2>3, <2>6, <2>7
<1>4. CASE AdvanceOnEdge
  <2>1. /\ lcdc /\ ~lastLcdc /\ lastLcdc' /\ pc' = "drain" /\ since' = 0 /\ lcdc' = lcdc
        /\ ly' = 0 /\ mode' = SEARCH_OAM /\ count' = (OnCount + since) % CountMod /\ mode3' = mode3
    BY <1>4 DEF AdvanceOnEdge, Advance
  <2>2. since <= MaxGap /\ Span' = OamCycles
    <3>1. lcdc # lastLcdc
      BY <2>1
    <3>2. since = lag
      BY <1>1, <3>1 DEF PaceInRun
    <3>3. Span' = OamCycles
      BY <2>1 DEF Span, SEARCH_OAM, TRANSFER, HBLANK, VBLANK
    <3> QED
      BY <1>1, <3>2, <3>3
  <2>3. count' \in 0..(CountMod - 1) /\ count' <= OnCount + since
    <3>1. OnCount + since \in Nat
      BY <1>1
    <3> QED
      BY <2>1, <3>1, CountKept
  <2>4. Pace'
    BY <1>1, <1>2, <2>1, <2>2, <2>3, CountNumbers DEF Pace, PaceInDrain
  <2>5. /\ ly' \in 0..(LyMod - 1) /\ mode' \in Modes /\ count' \in 0..(CountMod - 1)
    BY <2>1, <2>3, Numbers DEF Modes
  <2>6. /\ statMode' \in Modes /\ coinc' \in BOOLEAN /\ statLine' \in BOOLEAN /\ irq' \subseteq Interrupts
    BY <1>4 DEF AdvanceOnEdge, Modes, TypeOK, Interrupts, StatLevel
  <2>7. TypeOK'
    BY <1>1, <1>4, <2>1, <2>5, <2>6, Numbers DEF TypeOK, Advance, AdvanceOnEdge, drawVars
  <2>8. (ModeOK /\ Drawn)'
    <3>1. 0..(0 - 1) = {} /\ Height > 0
      BY Numbers
    <3> QED
      BY <2>1, <3>1 DEF ModeOK, Drawn, SEARCH_OAM, HBLANK, TRANSFER
  <2> QED
    BY <2>4, <2>7, <2>8
<1>5. CASE AdvanceOn
  <2>1. /\ lcdc /\ lastLcdc /\ lastLcdc' /\ pc' = "drain" /\ since' = 0 /\ lcdc' = lcdc
        /\ mode' = mode /\ count' = (count + since) % CountMod /\ mode3' = mode3 /\ drawn' = drawn
        /\ statMode' = statMode /\ offCount' = offCount
    BY <1>5 DEF AdvanceOn, Advance, drawVars
  <2>2. count' \in 0..(CountMod - 1) /\ count' <= count + since
    <3>1. count + since \in Nat
      BY <1>1
    <3> QED
      BY <2>1, <3>1, CountKept
  <2>3. count + since < Span + MaxGap
    <3>1. Deadline = Span - count /\ count < Span
      BY <1>1, <2>1 DEF Deadline, PaceInRun
    <3> QED
      BY <1>1, <1>2, <2>1, <3>1
  <2>4. Span' = Span
    BY <2>1 DEF Span
  <2>5. Pace'
    BY <1>1, <1>2, <2>1, <2>3, <2>4, <2>2, CountNumbers DEF Pace, PaceInDrain
  <2>6. /\ ly' \in 0..(LyMod - 1) /\ coinc' \in BOOLEAN /\ statLine' \in BOOLEAN
        /\ irq' \subseteq Interrupts /\ beam' \in Beams /\ (mode # VBLANK => ly' = ly)
    <3>1. CASE mode = VBLANK /\ ly = LastLine
      <4>1. \A x \in Beams : Entered(x, lyc, enable) \in Beams
        BY EnteredTypes
      <4>2. [beam EXCEPT !.seen = 0] \in Beams
        BY BeamsIs, SawTypes, Numbers DEF SawLine
      <4>3. beam' \in Beams
        BY <1>5, <3>1, <4>1, <4>2, BeamsIs DEF AdvanceOn, Settle
      <4> QED
        BY <1>5, <3>1, <4>3, Numbers DEF AdvanceOn, UpdateStat, StatLevel, TypeOK, Interrupts
    <3>2. CASE ~(mode = VBLANK /\ ly = LastLine)
      BY <1>5, <3>2, BeamsIs DEF AdvanceOn, TypeOK
    <3> QED
      BY <3>1, <3>2
  <2>7. TypeOK'
    BY <1>1, <1>5, <2>1, <2>6, <2>2, Numbers
       DEF TypeOK, Advance, drawVars, Beams, Mode3Values
  <2>8. (ModeOK /\ Drawn)'
    <3>1. CASE mode = VBLANK
      BY <2>1, <3>1 DEF ModeOK, Drawn, HBLANK, VBLANK, SEARCH_OAM, TRANSFER
    <3>2. CASE mode # VBLANK
      <4>1. ly' = ly /\ mode' = mode /\ mode3' = mode3 /\ drawn' = drawn
        BY <2>1, <2>6, <3>2
      <4> QED
        BY <2>1, <4>1 DEF ModeOK, Drawn
    <3> QED
      BY <3>1, <3>2
  <2> QED
    BY <2>5, <2>7, <2>8
<1> QED
  BY <1>3, <1>4, <1>5 DEF Advance

\* How much a call of ppu_advance has to catch up.
LEMMA OwedBounds ==
  ASSUME Base, pc = "run", lcdc = lastLcdc
  PROVE  since = lag \/ since < Deadline + MaxGap
<1>1. /\ PaceInRun /\ lag \in Nat /\ lag <= MaxGap /\ MaxGap \in Nat
  BY Numbers DEF Base, Pace, TypeOK
<1>2. since \in Nat /\ Deadline \in Nat
  BY <1>1, DeadlineBounds DEF Base
<1> QED
  BY <1>1, <1>2 DEF PaceInRun

LEMMA TickAdvanceBase == Base /\ TickAdvance => Base'
<1> SUFFICES ASSUME Base, TickAdvance PROVE Base'
  OBVIOUS
<1>1. pc = "run" /\ Advance /\ lag' = 0 /\ pending' \in Writes \union {NoWrite}
  BY DEF TickAdvance, Base, TypeOK
<1> QED
  BY <1>1, AdvanceBase, OwedBounds

LEMMA WriteBase ==
  ASSUME Base, NEW w \in Writes, Write(w)
  PROVE  Base'
<1>1. pc = "run" /\ Advance /\ lag' = 0 /\ pending' \in Writes \union {NoWrite}
  BY DEF Write
<1> QED
  BY <1>1, AdvanceBase, OwedBounds

\* A transition takes its mode's time from what has elapsed.
LEMMA DrainBase ==
  ASSUME Base, pc = "drain", lcdc, count >= Span, count' = count - Span,
         UNCHANGED <<pc, lcdc, scx, lyc, enable, lag, pending, since, lastLcdc, offCount, ahead, beam>>,
         mode' \in Modes, statMode' \in Modes, mode3' \in Mode3Values,
         ly' \in 0..(LyMod - 1), coinc' \in BOOLEAN, statLine' \in BOOLEAN,
         irq' \subseteq Interrupts, frameSeq' \in 0..1, drawn' \subseteq 0..(Height - 1),
         ModeOK', Drawn'
  PROVE  Base'
<1>1. /\ PaceInDrain /\ count \in Nat /\ MaxGap \in Nat \ {0} /\ LineCycles \in Nat
      /\ CycleMod \in Nat \ {0} /\ FrameCycles \in Nat
      /\ LineCycles <= FrameCycles /\ CycleMod > 2 * (FrameCycles + MaxGap)
      /\ Span \in Nat \ {0} /\ Span <= LineCycles
  BY Numbers, FrameNumbers, SpanBounds DEF Base, Pace, TypeOK
<1>2. lastLcdc
  BY <1>1 DEF PaceInDrain
<1>3. /\ count' \in Nat /\ count' < MaxGap
  BY <1>1 DEF PaceInDrain
<1>4. count' \in 0..(CountMod - 1)
  <2>1. count \in 0..(CountMod - 1) /\ count' <= count
    BY <1>1 DEF Base, TypeOK
  <2> QED
    BY <1>3, <2>1, CountNumbers
<1>5. TypeOK'
  BY <1>4 DEF Base, TypeOK, Mode3Values
<1>6. Span' \in Nat \ {0}
  <2>1. TypeOK' /\ ModeOK' => Span' \in Nat \ {0}
    <3>1. mode3' \in Nat /\ OamCycles + mode3' < LineCycles
      BY Mode3Numbers
    <3>2. mode' \in {0, 1, 2, 3}
      BY DEF Modes, HBLANK, VBLANK, SEARCH_OAM, TRANSFER
    <3> QED
      BY <3>1, <3>2, Numbers DEF ModeOK, Span, HBLANK, VBLANK, SEARCH_OAM, TRANSFER
  <2> QED
    BY <1>5, <2>1
<1>7. PaceInDrain'
  <2>1. (lag = 0 /\ since = 0 /\ lastLcdc = lcdc)'
    BY <1>1 DEF PaceInDrain
  <2>2. (count < Span + MaxGap)'
    <3>1. \A x \in Nat : count' < x + MaxGap
      BY <1>1, <1>3
    <3> QED
      BY <1>6, <3>1
  <2> QED
    BY <2>1, <2>2 DEF PaceInDrain
<1>8. Pace'
  <2>1. pc' = "drain" /\ pc' # "run" /\ lastLcdc'
    BY <1>2
  <2>2. (count < LineCycles + MaxGap)'
    BY <1>1, <1>3
  <2> QED
    BY <1>7, <2>1, <2>2 DEF Pace
<1> QED
  BY <1>5, <1>8 DEF Base

\* What a transition leaves on the STAT line.
LEMMA UpdateStatTypes ==
  ASSUME NEW m, NEW c, UpdateStat(m, c), irq \subseteq Interrupts
  PROVE  statLine' \in BOOLEAN /\ irq' \subseteq Interrupts
<1>1. StatLevel(m, c, enable) \in BOOLEAN
  BY DEF StatLevel
<1> QED
  BY <1>1 DEF UpdateStat, Interrupts

LEMMA ModesAre ==
  /\ Modes = {0, 1, 2, 3} /\ HBLANK = 0 /\ VBLANK = 1 /\ SEARCH_OAM = 2 /\ TRANSFER = 3
  BY DEF Modes, HBLANK, VBLANK, SEARCH_OAM, TRANSFER

\* What holds in the loop of ppu_advance when a transition is due.
LEMMA DrainingFacts ==
  ASSUME Base, NEW m \in Modes, Draining(m)
  PROVE  /\ pc = "drain" /\ lcdc /\ lastLcdc /\ mode = m /\ count >= Span
         /\ ly \in 0..(LyMod - 1) /\ irq \subseteq Interrupts /\ coinc \in BOOLEAN
         /\ drawn \subseteq 0..(Height - 1) /\ frameSeq \in 0..1
         /\ scx \in ScrollValues /\ mode3 \in Mode3Values /\ statMode \in Modes
  BY DEF Draining, Base, Pace, PaceInDrain, TypeOK, Mode3Values

LEMMA ScanToTransferBase == Base /\ ScanToTransfer => Base'
<1> SUFFICES ASSUME Base, ScanToTransfer PROVE Base'
  OBVIOUS
<1>1. Draining(SEARCH_OAM) /\ SEARCH_OAM \in Modes
  BY ModesAre DEF ScanToTransfer
<1>2. Span = OamCycles
  BY <1>1, DrainingFacts, SpanBounds DEF Base
<1>3. statLine' \in BOOLEAN /\ irq' \subseteq Interrupts
  <2>1. UpdateStat(TRANSFER, coinc)
    BY DEF ScanToTransfer
  <2> QED
    BY <1>1, <2>1, DrainingFacts, UpdateStatTypes
<1>4. mode3' \in Mode3Values /\ mode3' # 0
  BY <1>1, DrainingFacts, Mode3Numbers DEF ScanToTransfer, Mode3Cycles
<1>5. ModeOK' /\ Drawn'
  BY <1>1, <1>4, ModesAre, DrainingFacts DEF ScanToTransfer, Base, ModeOK, Drawn, drawVars, edgeVars
<1> QED
  BY <1>1, <1>2, <1>3, <1>4, <1>5, ModesAre, DrainingFacts, DrainBase
     DEF ScanToTransfer, cpuVars, edgeVars, drawVars

LEMMA TransferToHBlankBase == Base /\ TransferToHBlank => Base'
<1> SUFFICES ASSUME Base, TransferToHBlank PROVE Base'
  OBVIOUS
<1>1. Draining(TRANSFER) /\ TRANSFER \in Modes
  BY ModesAre DEF TransferToHBlank
<1>2. Span = mode3
  BY <1>1, DrainingFacts, SpanBounds DEF Base
<1>3. statLine' \in BOOLEAN /\ irq' \subseteq Interrupts
  <2>1. UpdateStat(HBLANK, coinc)
    BY DEF TransferToHBlank
  <2> QED
    BY <1>1, <2>1, DrainingFacts, UpdateStatTypes
<1>4. /\ ly < Height /\ 0..(ly - 1) \subseteq drawn /\ ly \in Nat /\ Height \in Nat
  BY <1>1, DrainingFacts, ModesAre, Numbers DEF Base, Drawn
<1>5. drawn' = drawn \union {ly}
  BY <1>4 DEF TransferToHBlank
<1>6. drawn' \subseteq 0..(Height - 1) /\ 0..ly \subseteq drawn'
  BY <1>1, <1>4, <1>5, DrainingFacts
<1>7. ModeOK' /\ Drawn'
  BY <1>1, <1>4, <1>6, ModesAre DEF TransferToHBlank, ModeOK, Drawn
<1> QED
  BY <1>1, <1>2, <1>3, <1>6, <1>7, ModesAre, DrainingFacts, DrainBase
     DEF TransferToHBlank, cpuVars, edgeVars

\* LY counts up from a visible line.
LEMMA NextVisible ==
  ASSUME Base, Draining(HBLANK)
  PROVE  /\ (ly + 1) % LyMod = ly + 1 /\ ly \in Nat /\ ly < Height /\ 0..ly \subseteq drawn
         /\ ly + 1 \in 0..(LyMod - 1)
<1>1. ly \in Nat /\ ly < Height /\ 0..ly \subseteq drawn
  BY DrainingFacts, ModesAre DEF Base, Drawn
<1>2. ly + 1 \in 0..(LyMod - 1)
  BY <1>1, Numbers
<1> QED
  BY <1>1, <1>2, Numbers, DivisionSmall

LEMMA HBlankToScanBase == Base /\ HBlankToScan => Base'
<1> SUFFICES ASSUME Base, HBlankToScan PROVE Base'
  OBVIOUS
<1>1. Draining(HBLANK) /\ HBLANK \in Modes
  BY ModesAre DEF HBlankToScan
<1>2. ly' = ly + 1 /\ ly + 1 # Height /\ coinc' \in BOOLEAN
  BY <1>1, NextVisible DEF HBlankToScan
<1>3. statLine' \in BOOLEAN /\ irq' \subseteq Interrupts
  <2>1. UpdateStat(SEARCH_OAM, (ly + 1) % LyMod = lyc)
    BY DEF HBlankToScan
  <2> QED
    BY <1>1, <2>1, DrainingFacts, UpdateStatTypes
<1>4. ly' < Height /\ 0..(ly' - 1) \subseteq drawn /\ ly' \in 0..(LyMod - 1)
  <2>1. ly \in Nat /\ ly < Height /\ 0..ly \subseteq drawn /\ ly' - 1 = ly
    BY <1>1, <1>2, NextVisible
  <2>2. ly' < Height
    BY <2>1, <1>2, Numbers
  <2> QED
    BY <1>1, <1>2, <2>1, <2>2, NextVisible
<1>5. ModeOK' /\ Drawn'
  BY <1>1, <1>4, ModesAre DEF HBlankToScan, ModeOK, Drawn, drawVars
<1> QED
  BY <1>1, <1>2, <1>3, <1>4, <1>5, ModesAre, DrainingFacts, DrainBase
     DEF HBlankToScan, cpuVars, edgeVars, drawVars

LEMMA HBlankToVBlankBase == Base /\ HBlankToVBlank => Base'
<1> SUFFICES ASSUME Base, HBlankToVBlank PROVE Base'
  OBVIOUS
<1>1. Draining(HBLANK) /\ HBLANK \in Modes
  BY ModesAre DEF HBlankToVBlank
<1>2. ly' = ly + 1 /\ coinc' \in BOOLEAN
  BY <1>1, NextVisible DEF HBlankToVBlank
<1>3. statLine' \in BOOLEAN /\ irq' \subseteq Interrupts
  BY <1>1, DrainingFacts DEF HBlankToVBlank, StatLevel, Interrupts
<1>4. frameSeq' \in 0..1 /\ drawn' \subseteq 0..(Height - 1)
  <2>1. frameSeq \in 0..1 /\ frameSeq' = 1 - frameSeq /\ drawn' = {}
    BY <1>1, DrainingFacts DEF HBlankToVBlank
  <2> QED
    BY <2>1
<1>5. ModeOK' /\ Drawn'
  BY ModesAre DEF HBlankToVBlank, ModeOK, Drawn
<1> QED
  BY <1>1, <1>2, <1>3, <1>4, <1>5, ModesAre, DrainingFacts, NextVisible, DrainBase
     DEF HBlankToVBlank, cpuVars, edgeVars

LEMMA VBlankLineBase == Base /\ VBlankLine => Base'
<1> SUFFICES ASSUME Base, VBlankLine PROVE Base'
  OBVIOUS
<1>1. Draining(VBLANK) /\ VBLANK \in Modes
  BY ModesAre DEF VBlankLine
<1>2. Span = LineCycles
  BY <1>1, DrainingFacts, SpanBounds DEF Base
<1>3. statLine' \in BOOLEAN /\ irq' \subseteq Interrupts
  <2>1. UpdateStat(mode', ly' = lyc)
    BY DEF VBlankLine
  <2> QED
    BY <1>1, <2>1, DrainingFacts, UpdateStatTypes
<1>4. /\ mode' \in Modes /\ statMode' \in Modes /\ ly' \in 0..(LyMod - 1) /\ coinc' \in BOOLEAN
      /\ ModeOK' /\ Drawn'
  <2>1. CASE ly = 0
    <3>1. /\ mode' = SEARCH_OAM /\ statMode' = SEARCH_OAM /\ ly' = 0 /\ drawn' = drawn
          /\ coinc' \in BOOLEAN
      BY <2>1 DEF VBlankLine, drawVars
    <3>2. 0 < Height /\ 0..(0 - 1) = {} /\ LyMod \in Nat \ {0}
      BY Numbers
    <3> QED
      BY <3>1, <3>2, ModesAre DEF ModeOK, Drawn
  <2>2. CASE ly # 0
    <3>1. /\ mode' = mode /\ mode' = VBLANK /\ statMode' = statMode
          /\ ly' = (ly + 1) % LyMod /\ coinc' \in BOOLEAN
      BY <1>1, <2>2, DrainingFacts DEF VBlankLine
    <3>2. (ly + 1) % LyMod \in 0..(LyMod - 1)
      <4>1. ly + 1 \in Nat /\ LyMod \in Nat \ {0}
        BY <1>1, DrainingFacts, Numbers
      <4> QED
        BY <4>1, Division
    <3> QED
      BY <1>1, <3>1, <3>2, ModesAre, DrainingFacts DEF ModeOK, Drawn
  <2> QED
    BY <2>1, <2>2
<1> QED
  BY <1>1, <1>2, <1>3, <1>4, DrainingFacts, DrainBase
     DEF VBlankLine, cpuVars, edgeVars, drawVars

LEMMA DrainedBase == Base /\ Drained => Base'
<1> SUFFICES ASSUME Base, Drained PROVE Base'
  OBVIOUS
<1>1. /\ PaceInDrain /\ pc = "drain" /\ (lcdc => count < Span) /\ lastLcdc = lcdc
      /\ lastLcdc' = lastLcdc /\ since' = 0 /\ since = 0 /\ lag' = 0 /\ pc' = "run"
      /\ count' = count /\ mode' = mode /\ ly' = ly /\ mode3' = mode3 /\ offCount' = offCount
  BY DEF Base, Pace, PaceInDrain, Drained, edgeVars
<1>2. Deadline' = Deadline /\ Span' = Span
  BY <1>1 DEF Deadline, Span
<1>3. ahead' = Deadline
  BY <1>1 DEF Drained, Deadline
<1>4. /\ Deadline \in Nat \ {0} /\ Deadline <= FrameCycles /\ Deadline < CycleMod
  <2>1. /\ Span \in Nat \ {0} /\ Span <= LineCycles /\ FrameCycles \in Nat
        /\ LineCycles <= FrameCycles /\ CycleMod > 2 * (FrameCycles + MaxGap)
        /\ MaxGap \in Nat /\ CycleMod \in Nat /\ LineCycles \in Nat
    BY SpanBounds, FrameNumbers, Numbers DEF Base
  <2>2. count \in Nat /\ offCount \in Nat /\ offCount < FrameCycles
    BY <2>1 DEF Base, TypeOK
  <2>3. CASE lastLcdc
    BY <1>1, <2>1, <2>2, <2>3 DEF Deadline
  <2>4. CASE ~lastLcdc
    BY <1>1, <2>1, <2>2, <2>4 DEF Deadline
  <2> QED
    BY <2>3, <2>4
<1>5. PaceInRun'
  <2>1. (lag <= since /\ since = lag)'
    BY <1>1
  <2>2. ahead' = IF since' <= Deadline' THEN Deadline' - since' ELSE CycleMod + Deadline' - since'
    BY <1>1, <1>2, <1>3, <1>4
  <2>3. (lastLcdc => count < Span)'
    BY <1>1, <1>2
  <2> QED
    BY <2>1, <2>2, <2>3 DEF PaceInRun
<1>6. Pace'
  BY <1>1, <1>5 DEF Base, Pace
<1>7. TypeOK'
  <2>1. ahead' \in 0..(CycleMod - 1)
    BY <1>3, <1>4, Numbers
  <2>2. pending \in Writes \union {NoWrite}
    BY DEF Base, TypeOK
  <2>3. /\ lcdc' \in BOOLEAN /\ scx' \in ScrollValues /\ lyc' \in LycValues /\ enable' \in StatValues
        /\ statMode' \in Modes /\ coinc' \in BOOLEAN
    <3>1. /\ pending.reg = "lcdc" => pending.val \in BOOLEAN
          /\ pending.reg = "scx" => pending.val \in ScrollValues
          /\ pending.reg = "lyc" => pending.val \in LycValues
          /\ pending.reg = "stat" => pending.val \in StatValues
      BY <2>2 DEF Writes, NoWrite
    <3>2. /\ lcdc \in BOOLEAN /\ scx \in ScrollValues /\ lyc \in LycValues /\ enable \in StatValues
          /\ statMode \in Modes /\ coinc \in BOOLEAN
      BY DEF Base, TypeOK
    <3>3. lcdc' \in BOOLEAN
      BY <3>1, <3>2 DEF Drained, Store
    <3>4. scx' \in ScrollValues /\ lyc' \in LycValues
      BY <3>1, <3>2 DEF Drained, Store
    <3>5. enable' \in StatValues
      BY <3>1, <3>2 DEF Drained, Store
    <3>6. statMode' \in Modes /\ coinc' \in BOOLEAN
      BY <3>2, PpuAssumption DEF Drained, Store
    <3> QED
      BY <3>3, <3>4, <3>5, <3>6
  <2>4. beam' \in Beams
    <3>1. CASE pending.reg = "lcdc"
      BY <3>1, BeamsIs, SwitchTypes DEF Drained, Store, Base
    <3>2. CASE pending.reg \in {"lyc", "stat"} /\ lcdc
      <4>1. beam' = Entered(beam, lyc', enable')
        BY <3>2 DEF Drained, Store
      <4>2. \A l, e : Entered(beam, l, e) \in Beams
        BY BeamsIs, EnteredTypes DEF Base
      <4> QED
        BY <4>1, <4>2
    <3>3. CASE ~(pending.reg = "lcdc") /\ ~(pending.reg \in {"lyc", "stat"} /\ lcdc)
      <4>1. beam' = beam
        BY <3>3 DEF Drained, Store
      <4> QED
        BY <4>1, BeamsIs DEF Base
    <3> QED
      BY <3>1, <3>2, <3>3
  <2>5. pending' \in Writes \union {NoWrite} /\ pc' = "run"
    BY DEF Drained
  <2> QED
    BY <2>1, <2>3, <2>4, <2>5 DEF Drained, Base, TypeOK, Beams, Mode3Values, drawVars, edgeVars
<1>8. (ModeOK /\ Drawn)'
  BY <1>1 DEF Base, ModeOK, Drawn, Drained, drawVars
<1> QED
  BY <1>6, <1>7, <1>8 DEF Base

LEMMA AcknowledgeBase ==
  ASSUME Base, NEW i \in Interrupts, Acknowledge(i)
  PROVE  Base'
<1>1. beam' \in Beams /\ irq' \subseteq Interrupts
  <2>1. beam \in Beams /\ beam' = [beam EXCEPT !.due = beam.due \ {i}] /\ irq' = irq \ {i}
    BY BeamsIs DEF Acknowledge, Base
  <2> QED
    BY <2>1 DEF Beams, Base, TypeOK
<1>2. TypeOK'
  BY <1>1 DEF Acknowledge, Base, TypeOK, Beams, Mode3Values, cpuVars, edgeVars, drawVars
<1>3. (Pace /\ ModeOK /\ Drawn)'
  BY DEF Acknowledge, Base, Pace, PaceInRun, PaceInDrain, Deadline, Span, ModeOK, Drawn, cpuVars,
         edgeVars, drawVars
<1> QED
  BY <1>2, <1>3 DEF Base

LEMMA BaseStep == Base /\ [Next]_vars => Base'
<1> SUFFICES ASSUME Base, [Next]_vars PROVE Base'
  OBVIOUS
<1>1. CASE UNCHANGED vars
  <2>1. /\ Deadline' = Deadline /\ Span' = Span
    BY <1>1 DEF vars, Deadline, Span
  <2>2. TypeOK'
    BY <1>1 DEF vars, Base, TypeOK
  <2>3. (ModeOK /\ Drawn)'
    BY <1>1 DEF vars, Base, ModeOK, Drawn
  <2>4. (PaceInRun' <=> PaceInRun) /\ (PaceInDrain' <=> PaceInDrain)
    BY <1>1, <2>1 DEF vars, PaceInRun, PaceInDrain
  <2>5. Pace'
    BY <1>1, <2>4 DEF vars, Base, Pace
  <2> QED
    BY <2>2, <2>3, <2>5 DEF Base
<1>2. CASE Next
  BY <1>2, CycleBase, TickEarlyBase, TickAdvanceBase, WriteBase, ScanToTransferBase,
     TransferToHBlankBase, HBlankToScanBase, HBlankToVBlankBase, VBlankLineBase, DrainedBase,
     AcknowledgeBase DEF Next
<1> QED
  BY <1>1, <1>2

\* Every register of the controller and the beam keeps its range (core/ppu.c), whatever
\* the guest writes, also while the LCD is on, and however seldom ppu_tick is called.
THEOREM PpuTypes == Spec => []TypeOK
<1>1. Init => Base
  BY InitBase
<1>2. Base /\ [Next]_vars => Base'
  BY BaseStep
<1>3. Base => TypeOK
  BY DEF Base
<1> QED
  BY <1>1, <1>2, <1>3, PTL DEF Spec

\* A frame is published only at the end of the last visible line, and only when each line
\* has been drawn since the frame before (the loop of ppu_advance).
LEMMA PublishingStep ==
  ASSUME Base, [Next]_vars, frameSeq' # frameSeq
  PROVE  drawn = 0..(Height - 1)
<1>1. HBlankToVBlank
  BY DEF Next, vars, Cycle, TickEarly, TickAdvance, Write, Advance, ScanToTransfer, TransferToHBlank,
         HBlankToScan, VBlankLine, Drained, Acknowledge, drawVars
<1>2. Draining(HBLANK) /\ (ly + 1) % LyMod = Height
  BY <1>1 DEF HBlankToVBlank
<1>3. ly + 1 = Height /\ ly \in Nat /\ 0..ly \subseteq drawn
  BY <1>2, NextVisible
<1>4. drawn \subseteq 0..(Height - 1)
  BY DEF Base, TypeOK
<1>5. ly = Height - 1
  BY <1>3, Numbers
<1> QED
  BY <1>3, <1>4, <1>5

\* No half-drawn frame is handed to the display, whatever the LCD is switched off and on
\* in between and however late the transitions are replayed.
THEOREM FramesPublishedWhole == Spec => PublishedWhole
<1>1. Init => Base
  BY InitBase
<1>2. Base /\ [Next]_vars => Base'
  BY BaseStep
<1>3. Base /\ [Next]_vars => [frameSeq' # frameSeq => drawn = 0..(Height - 1)]_vars
  BY PublishingStep
<1> QED
  BY <1>1, <1>2, <1>3, PTL DEF Spec, PublishedWhole

-----------------------------------------------------------------------------
(* The replay of a state: what it does to each register.                    *)

LEMMA StateFacts ==
  ASSUME NEW s \in LcdState
  PROVE  /\ s.mode \in {0, 1, 2, 3} /\ s.ly \in 0..LastLine /\ s.count \in Nat
         /\ s.mode3 \in Mode3Values /\ s.level \in BOOLEAN /\ s.irq \in SUBSET Interrupts
         /\ s.frame \in 0..1
         /\ s.mode3 \in Nat /\ OamCycles + s.mode3 < LineCycles
<1>1. /\ s.mode \in {0, 1, 2, 3} /\ s.ly \in 0..LastLine /\ s.count \in Nat
      /\ s.mode3 \in Mode3Values /\ s.level \in BOOLEAN /\ s.irq \in SUBSET Interrupts
      /\ s.frame \in 0..1
  BY ModesAre DEF LcdState, Mode3Values
<1> QED
  BY <1>1, Mode3Numbers

LEMMA LookedFacts ==
  ASSUME NEW s \in LcdState
  PROVE  /\ Looked(s) \in LcdState
         /\ Looked(s).mode = s.mode /\ Looked(s).ly = s.ly /\ Looked(s).count = s.count
         /\ Looked(s).mode3 = s.mode3 /\ Looked(s).frame = s.frame
         /\ Looked(s).level = High(s.mode, s.ly)
         /\ Looked(s).irq = Raised(s.irq, s.level, s.mode, s.ly)
<1>1. High(s.mode, s.ly) \in BOOLEAN
  BY DEF StatLevel, High
<1>2. Raised(s.irq, s.level, s.mode, s.ly) \in SUBSET Interrupts
  BY StateFacts DEF Raised, Interrupts
<1> QED
  BY <1>1, <1>2 DEF LcdState, Looked

LEMMA SpanOfIs ==
  ASSUME NEW s \in LcdState
  PROVE  /\ SpanOf(s) \in Nat /\ SpanOf(s) <= LineCycles
         /\ s.mode = SEARCH_OAM => SpanOf(s) = OamCycles
         /\ s.mode = TRANSFER => SpanOf(s) = s.mode3
         /\ s.mode = HBLANK => SpanOf(s) = LineCycles - OamCycles - s.mode3
         /\ s.mode = VBLANK => SpanOf(s) = LineCycles
         /\ (s.mode = TRANSFER => s.mode3 # 0) => SpanOf(s) > 0
  BY StateFacts, ModesAre, Numbers DEF SpanOf

LEMMA SetFacts ==
  ASSUME NEW s \in LcdState, NEW m \in Modes, NEW l \in 0..LastLine, NEW c \in Nat,
         NEW t \in Mode3Values
  PROVE  /\ Set(s, m, l, c, t) \in LcdState
         /\ Set(s, m, l, c, t).mode = m /\ Set(s, m, l, c, t).ly = l
         /\ Set(s, m, l, c, t).count = c /\ Set(s, m, l, c, t).mode3 = t
         /\ Set(s, m, l, c, t).level = s.level /\ Set(s, m, l, c, t).irq = s.irq
         /\ Set(s, m, l, c, t).frame = s.frame
  BY DEF LcdState, Set, Mode3Values

LEMMA PublishedFacts ==
  ASSUME NEW s \in LcdState
  PROVE  /\ Published(s) \in LcdState
         /\ Published(s).mode = s.mode /\ Published(s).ly = s.ly /\ Published(s).count = s.count
         /\ Published(s).mode3 = s.mode3 /\ Published(s).level = s.level
         /\ Published(s).irq = s.irq \union {"vblank"} /\ Published(s).frame = 1 - s.frame
<1>1. s.irq \union {"vblank"} \in SUBSET Interrupts /\ 1 - s.frame \in 0..1
  BY StateFacts DEF Interrupts
<1> QED
  BY <1>1 DEF LcdState, Published

\* A transition, mode by mode.
LEMMA MovedIs ==
  ASSUME NEW s \in Sound, NEW c, c = s.count - SpanOf(s)
  PROVE  /\ s.mode = SEARCH_OAM => Moved(s) = Looked(Set(s, TRANSFER, s.ly, c, Mode3Cycles))
         /\ s.mode = TRANSFER => Moved(s) = Looked(Set(s, HBLANK, s.ly, c, s.mode3))
         /\ s.mode = HBLANK /\ s.ly + 1 # Height =>
              Moved(s) = Looked(Set(s, SEARCH_OAM, s.ly + 1, c, s.mode3))
         /\ s.mode = HBLANK /\ s.ly + 1 = Height =>
              Moved(s) = Looked(Set(Looked(Published(Set(s, VBLANK, s.ly, c, s.mode3))),
                                    VBLANK, Height, c, s.mode3))
         /\ s.mode = VBLANK /\ s.ly \notin {0, LastLine} =>
              Moved(s) = Looked(Set(s, VBLANK, s.ly + 1, c, s.mode3))
         /\ s.mode = VBLANK /\ s.ly \in {0, LastLine} =>
              Moved(s) = Looked(Set(Looked(Set(s, VBLANK, 0, c, s.mode3)), SEARCH_OAM, 0, c, s.mode3))
<1>1. CASE s.mode = SEARCH_OAM
  BY <1>1, ModesAre DEF Moved
<1>2. CASE s.mode = TRANSFER
  BY <1>2, ModesAre DEF Moved
<1>3. CASE s.mode = HBLANK
  <2>1. CASE s.ly + 1 = Height
    BY <1>3, <2>1, ModesAre DEF Moved
  <2>2. CASE s.ly + 1 # Height
    BY <1>3, <2>2, ModesAre DEF Moved
  <2> QED
    BY <2>1, <2>2
<1>4. CASE s.mode = VBLANK
  <2>1. CASE s.ly \in {0, LastLine}
    BY <1>4, <2>1, ModesAre DEF Moved
  <2>2. CASE s.ly \notin {0, LastLine}
    BY <1>4, <2>2, ModesAre DEF Moved
  <2> QED
    BY <2>1, <2>2
<1> QED
  BY <1>1, <1>2, <1>3, <1>4, StateFacts, ModesAre DEF Sound

LEMMA SoundFacts ==
  ASSUME NEW s \in Sound
  PROVE  /\ s \in LcdState /\ Placed(s.mode, s.ly, s.mode3)
         /\ s.level = High(s.mode, s.ly)
         /\ SpanOf(s) \in Nat \ {0} /\ SpanOf(s) <= LineCycles
<1>1. /\ s \in LcdState /\ Placed(s.mode, s.ly, s.mode3)
      /\ s.level = High(s.mode, s.ly)
  BY DEF Sound
<1>2. s.mode = TRANSFER => s.mode3 # 0
  BY <1>1 DEF Placed
<1> QED
  BY <1>1, <1>2, SpanOfIs

\* Looking at the STAT line of a state makes it sound.
LEMMA LookedSound ==
  ASSUME NEW s \in LcdState, Placed(s.mode, s.ly, s.mode3)
  PROVE  Looked(s) \in Sound
<1> DEFINE r == Looked(s)
<1>1. /\ r \in LcdState /\ r.mode = s.mode /\ r.ly = s.ly /\ r.mode3 = s.mode3
      /\ r.level = High(s.mode, s.ly)
  BY LookedFacts
<1> HIDE DEF r
<1>2. r.level = High(r.mode, r.ly)
  BY <1>1
<1>3. r \in Sound
  BY <1>1, <1>2 DEF Sound
<1> QED
  BY <1>3 DEF r

\* A register set and the STAT line looked at.
LEMMA LookedSet ==
  ASSUME NEW s \in LcdState, NEW m \in Modes, NEW l \in 0..LastLine, NEW c \in Nat,
         NEW t \in Mode3Values, Placed(m, l, t)
  PROVE  /\ Looked(Set(s, m, l, c, t)) \in Sound
         /\ Looked(Set(s, m, l, c, t)) \in LcdState
         /\ Looked(Set(s, m, l, c, t)).mode = m /\ Looked(Set(s, m, l, c, t)).ly = l
         /\ Looked(Set(s, m, l, c, t)).count = c /\ Looked(Set(s, m, l, c, t)).mode3 = t
         /\ Looked(Set(s, m, l, c, t)).frame = s.frame
         /\ Looked(Set(s, m, l, c, t)).level = High(m, l)
         /\ Looked(Set(s, m, l, c, t)).irq = Raised(s.irq, s.level, m, l)
<1> DEFINE r == Set(s, m, l, c, t)
<1>1. /\ r \in LcdState /\ r.mode = m /\ r.ly = l /\ r.count = c /\ r.mode3 = t
      /\ r.level = s.level /\ r.irq = s.irq /\ r.frame = s.frame
  BY SetFacts
<1> HIDE DEF r
<1>2. Looked(r) \in Sound
  BY <1>1, LookedSound
<1>3. /\ Looked(r) \in LcdState
      /\ Looked(r).mode = m /\ Looked(r).ly = l /\ Looked(r).count = c /\ Looked(r).mode3 = t
      /\ Looked(r).frame = s.frame
      /\ Looked(r).level = High(m, l)
      /\ Looked(r).irq = Raised(s.irq, s.level, m, l)
  BY <1>1, LookedFacts
<1> QED
  BY <1>2, <1>3 DEF r

\* The arguments of the settings that transitions make.
LEMMA MoveArguments ==
  ASSUME NEW s \in Sound, ~Ready(s), scx \in ScrollValues
  PROVE  /\ s \in LcdState /\ s.mode3 \in Mode3Values /\ s.ly \in 0..LastLine
         /\ s.mode \in Modes /\ s.count - SpanOf(s) \in Nat
         /\ 0 \in 0..LastLine /\ Height \in 0..LastLine
         /\ Mode3Cycles \in Mode3Values
         /\ s.mode = SEARCH_OAM => Placed(TRANSFER, s.ly, Mode3Cycles)
         /\ s.mode = TRANSFER => Placed(HBLANK, s.ly, s.mode3)
         /\ s.mode = HBLANK => s.ly + 1 \in 0..LastLine
         /\ s.mode = HBLANK /\ s.ly + 1 # Height => Placed(SEARCH_OAM, s.ly + 1, s.mode3)
         /\ Placed(VBLANK, Height, s.mode3)
         /\ s.mode = VBLANK /\ s.ly \notin {0, LastLine} =>
              s.ly + 1 \in 0..LastLine /\ Placed(VBLANK, s.ly + 1, s.mode3)
         /\ Placed(VBLANK, 0, s.mode3) /\ Placed(SEARCH_OAM, 0, s.mode3)
<1> DEFINE m == s.mode
           l == s.ly
           t == s.mode3
<1>1. /\ s \in LcdState /\ t \in Mode3Values /\ l \in 0..LastLine
      /\ m \in {0, 1, 2, 3} /\ s.count \in Nat /\ Placed(m, l, t) /\ SpanOf(s) \in Nat
  BY SoundFacts, StateFacts
<1>2. s.count - SpanOf(s) \in Nat
  BY <1>1 DEF Ready
<1>3. Mode3Cycles \in Mode3Values /\ Mode3Cycles # 0
  BY Mode3Numbers DEF Mode3Cycles
<1>4. Height \in Nat \ {0} /\ LastLine \in Nat /\ Height < LastLine
  BY Numbers
<1> HIDE DEF m, l, t
<1>5. /\ m = SEARCH_OAM => Placed(TRANSFER, l, Mode3Cycles)
      /\ m = TRANSFER => Placed(HBLANK, l, t)
  BY <1>1, <1>3, ModesAre DEF Placed
<1>6. /\ m = HBLANK => l + 1 \in 0..LastLine
      /\ m = HBLANK /\ l + 1 # Height => Placed(SEARCH_OAM, l + 1, t)
  BY <1>1, <1>4, ModesAre DEF Placed
<1>7. /\ m = VBLANK /\ l \notin {0, LastLine} =>
           l + 1 \in 0..LastLine /\ Placed(VBLANK, l + 1, t)
  BY <1>1, <1>4, ModesAre DEF Placed
<1>8. /\ Placed(VBLANK, Height, t) /\ Placed(VBLANK, 0, t) /\ Placed(SEARCH_OAM, 0, t)
      /\ 0 \in 0..LastLine /\ Height \in 0..LastLine
  BY <1>4, ModesAre DEF Placed
<1>9. m \in Modes
  BY <1>1, ModesAre
<1> QED
  BY <1>1, <1>2, <1>3, <1>5, <1>6, <1>7, <1>8, <1>9 DEF m, l, t

LEMMA MovedSound ==
  ASSUME NEW s \in Sound, ~Ready(s), scx \in ScrollValues
  PROVE  Moved(s) \in Sound /\ Moved(s).count = s.count - SpanOf(s)
<1> DEFINE c == s.count - SpanOf(s)
           l == s.ly
           t == s.mode3
<1>1. /\ c \in Nat /\ l \in 0..LastLine /\ t \in Mode3Values /\ s.mode \in Modes
      /\ s \in LcdState /\ 0 \in 0..LastLine /\ Height \in 0..LastLine
      /\ Mode3Cycles \in Mode3Values
  BY MoveArguments
<1>2. HBLANK \in Modes /\ VBLANK \in Modes /\ SEARCH_OAM \in Modes /\ TRANSFER \in Modes
  BY DEF Modes
<1>3. CASE s.mode = SEARCH_OAM
  <2>1. Placed(TRANSFER, l, Mode3Cycles)
    BY <1>3, MoveArguments
  <2>2. Moved(s) = Looked(Set(s, TRANSFER, l, c, Mode3Cycles))
    BY <1>3, MovedIs
  <2> HIDE DEF c, l, t
  <2>3. Moved(s) \in Sound /\ Moved(s).count = c
    BY <1>1, <1>2, <2>1, <2>2, LookedSet
  <2> QED
    BY <2>3 DEF c
<1>4. CASE s.mode = TRANSFER
  <2>1. Placed(HBLANK, l, t)
    BY <1>4, MoveArguments
  <2>2. Moved(s) = Looked(Set(s, HBLANK, l, c, t))
    BY <1>4, MovedIs
  <2> HIDE DEF c, l, t
  <2>3. Moved(s) \in Sound /\ Moved(s).count = c
    BY <1>1, <1>2, <2>1, <2>2, LookedSet
  <2> QED
    BY <2>3 DEF c
<1>5. CASE s.mode = HBLANK /\ s.ly + 1 # Height
  <2> DEFINE n == s.ly + 1
  <2>1. n \in 0..LastLine /\ Placed(SEARCH_OAM, n, t)
    BY <1>5, MoveArguments
  <2>2. Moved(s) = Looked(Set(s, SEARCH_OAM, n, c, t))
    BY <1>5, MovedIs
  <2> HIDE DEF c, n, l, t
  <2>3. Moved(s) \in Sound /\ Moved(s).count = c
    BY <1>1, <1>2, <2>1, <2>2, LookedSet
  <2> QED
    BY <2>3 DEF c
<1>6. CASE s.mode = HBLANK /\ s.ly + 1 = Height
  <2> DEFINE v == Looked(Published(Set(s, VBLANK, l, c, t)))
  <2>1. Placed(VBLANK, Height, t)
    BY MoveArguments
  <2>2. Moved(s) = Looked(Set(v, VBLANK, Height, c, t))
    BY <1>6, MovedIs
  <2> HIDE DEF c, l, t
  <2>3. v \in LcdState
    BY <1>1, <1>2, SetFacts, PublishedFacts, LookedFacts
  <2> HIDE DEF v
  <2>4. Moved(s) \in Sound /\ Moved(s).count = c
    BY <1>1, <1>2, <2>1, <2>2, <2>3, LookedSet
  <2> QED
    BY <2>4 DEF c
<1>7. CASE s.mode = VBLANK /\ s.ly \notin {0, LastLine}
  <2> DEFINE n == s.ly + 1
  <2>1. n \in 0..LastLine /\ Placed(VBLANK, n, t)
    BY <1>7, MoveArguments
  <2>2. Moved(s) = Looked(Set(s, VBLANK, n, c, t))
    BY <1>7, MovedIs
  <2> HIDE DEF c, n, l, t
  <2>3. Moved(s) \in Sound /\ Moved(s).count = c
    BY <1>1, <1>2, <2>1, <2>2, LookedSet
  <2> QED
    BY <2>3 DEF c
<1>8. CASE s.mode = VBLANK /\ s.ly \in {0, LastLine}
  <2> DEFINE v == Looked(Set(s, VBLANK, 0, c, t))
  <2>1. Placed(SEARCH_OAM, 0, t)
    BY MoveArguments
  <2>2. Moved(s) = Looked(Set(v, SEARCH_OAM, 0, c, t))
    BY <1>8, MovedIs
  <2> HIDE DEF c, l, t
  <2>3. v \in LcdState
    BY <1>1, <1>2, SetFacts, LookedFacts
  <2> HIDE DEF v
  <2>4. Moved(s) \in Sound /\ Moved(s).count = c
    BY <1>1, <1>2, <2>1, <2>2, <2>3, LookedSet
  <2> QED
    BY <2>4 DEF c
<1>9. s.mode \in {SEARCH_OAM, TRANSFER, HBLANK, VBLANK}
  BY <1>1 DEF Modes
<1> QED
  BY <1>3, <1>4, <1>5, <1>6, <1>7, <1>8, <1>9

\* A replay is the same a cycle later, until a transition is due that was not.
LEMMA LaterFacts ==
  ASSUME NEW s \in LcdState
  PROVE  /\ Later(s) \in LcdState
         /\ Later(s).mode = s.mode /\ Later(s).ly = s.ly /\ Later(s).count = s.count + 1
         /\ Later(s).mode3 = s.mode3 /\ Later(s).level = s.level /\ Later(s).irq = s.irq
         /\ Later(s).frame = s.frame /\ SpanOf(Later(s)) = SpanOf(s)
<1>1. s.mode \in Modes /\ s.ly \in 0..LastLine /\ s.count + 1 \in Nat /\ s.mode3 \in Mode3Values
  BY StateFacts, ModesAre
<1>2. /\ Later(s) \in LcdState
      /\ Later(s).mode = s.mode /\ Later(s).ly = s.ly /\ Later(s).count = s.count + 1
      /\ Later(s).mode3 = s.mode3 /\ Later(s).level = s.level /\ Later(s).irq = s.irq
      /\ Later(s).frame = s.frame
  BY <1>1, SetFacts DEF Later
<1> QED
  BY <1>2 DEF SpanOf

LEMMA LaterSound == ASSUME NEW s \in Sound PROVE Later(s) \in Sound
  BY LaterFacts, SoundFacts DEF Sound

\* Two states with the same registers are the same.
LEMMA SameState ==
  ASSUME NEW s \in LcdState, NEW t \in LcdState,
         s.mode = t.mode, s.ly = t.ly, s.count = t.count, s.mode3 = t.mode3,
         s.level = t.level, s.irq = t.irq, s.frame = t.frame
  PROVE  s = t
<1>1. /\ s = [mode |-> s.mode, ly |-> s.ly, count |-> s.count, mode3 |-> s.mode3,
              level |-> s.level, irq |-> s.irq, frame |-> s.frame]
      /\ t = [mode |-> t.mode, ly |-> t.ly, count |-> t.count, mode3 |-> t.mode3,
              level |-> t.level, irq |-> t.irq, frame |-> t.frame]
  BY DEF LcdState
<1> QED
  BY <1>1

LEMMA LookedLater ==
  ASSUME NEW s \in LcdState
  PROVE  Looked(Later(s)) = Later(Looked(s))
<1>1. Looked(Later(s)) \in LcdState /\ Later(Looked(s)) \in LcdState
  BY LookedFacts, LaterFacts
<1> QED
  BY <1>1, LookedFacts, LaterFacts, SameState

LEMMA SetLater ==
  ASSUME NEW s \in LcdState, NEW m \in Modes, NEW l \in 0..LastLine, NEW c \in Nat,
         NEW t \in Mode3Values
  PROVE  Set(Later(s), m, l, c + 1, t) = Later(Set(s, m, l, c, t))
<1>1. c + 1 \in Nat
  OBVIOUS
<1> DEFINE d == c + 1
           x == Later(s)
           y == Set(s, m, l, c, t)
           p == Set(x, m, l, d, t)
           q == Later(y)
<1>2. /\ x \in LcdState /\ x.level = s.level /\ x.irq = s.irq /\ x.frame = s.frame
      /\ y \in LcdState /\ y.mode = m /\ y.ly = l /\ y.count = c /\ y.mode3 = t
      /\ y.level = s.level /\ y.irq = s.irq /\ y.frame = s.frame
  BY SetFacts, LaterFacts
<1> HIDE DEF x, y
<1>3. /\ q \in LcdState /\ q.mode = m /\ q.ly = l /\ q.count = d /\ q.mode3 = t
      /\ q.level = s.level /\ q.irq = s.irq /\ q.frame = s.frame
  BY <1>2, LaterFacts
<1> HIDE DEF d
<1>4. /\ p \in LcdState /\ p.mode = m /\ p.ly = l /\ p.count = d /\ p.mode3 = t
      /\ p.level = s.level /\ p.irq = s.irq /\ p.frame = s.frame
  <2>1. d \in Nat
    BY <1>1 DEF d
  <2> QED
    BY <1>2, <2>1, SetFacts
<1> HIDE DEF p, q
<1>5. p = q
  BY <1>3, <1>4, SameState
<1> QED
  BY <1>5 DEF p, q, x, y, d

LEMMA PublishedLater ==
  ASSUME NEW s \in LcdState
  PROVE  Published(Later(s)) = Later(Published(s))
<1> DEFINE p == Published(s)
           q == Later(s)
<1>1. /\ p \in LcdState
      /\ p.mode = s.mode /\ p.ly = s.ly /\ p.count = s.count
      /\ p.mode3 = s.mode3 /\ p.level = s.level
      /\ p.irq = s.irq \union {"vblank"} /\ p.frame = 1 - s.frame
  BY PublishedFacts
<1>2. /\ q \in LcdState
      /\ q.mode = s.mode /\ q.ly = s.ly /\ q.count = s.count + 1
      /\ q.mode3 = s.mode3 /\ q.level = s.level /\ q.irq = s.irq /\ q.frame = s.frame
  BY LaterFacts
<1> HIDE DEF p, q
<1> DEFINE u == Published(q)
           v == Later(p)
<1>3. /\ u \in LcdState
      /\ u.mode = s.mode /\ u.ly = s.ly /\ u.count = s.count + 1
      /\ u.mode3 = s.mode3 /\ u.level = s.level
      /\ u.irq = s.irq \union {"vblank"} /\ u.frame = 1 - s.frame
  BY <1>2, PublishedFacts
<1>4. /\ v \in LcdState
      /\ v.mode = s.mode /\ v.ly = s.ly /\ v.count = s.count + 1
      /\ v.mode3 = s.mode3 /\ v.level = s.level
      /\ v.irq = s.irq \union {"vblank"} /\ v.frame = 1 - s.frame
  BY <1>1, LaterFacts
<1> HIDE DEF u, v
<1>5. u = v
  BY <1>3, <1>4, SameState
<1> QED
  BY <1>5 DEF u, v, p, q

\* A transition that is due is the same a cycle later.
LEMMA MovedLater ==
  ASSUME NEW s \in Sound, ~Ready(s), scx \in ScrollValues
  PROVE  Moved(Later(s)) = Later(Moved(s)) /\ ~Ready(Later(s))
<1> DEFINE c == s.count - SpanOf(s)
           l == s.ly
           t == s.mode3
           z == Later(s)
<1>1. /\ c \in Nat /\ l \in 0..LastLine /\ t \in Mode3Values /\ s.mode \in Modes
      /\ s \in LcdState /\ 0 \in 0..LastLine /\ Height \in 0..LastLine
      /\ Mode3Cycles \in Mode3Values /\ (s.mode = HBLANK => l + 1 \in 0..LastLine)
      /\ s.mode = VBLANK /\ l \notin {0, LastLine} => l + 1 \in 0..LastLine
  BY MoveArguments
<1>2. HBLANK \in Modes /\ VBLANK \in Modes /\ SEARCH_OAM \in Modes /\ TRANSFER \in Modes
  BY DEF Modes
<1>3. /\ z \in Sound /\ z.mode = s.mode /\ z.ly = s.ly /\ z.mode3 = s.mode3
      /\ z.count - SpanOf(z) = c + 1 /\ ~Ready(z)
  <2>1. s.count \in Nat /\ SpanOf(s) \in Nat
    BY <1>1, StateFacts, SpanOfIs
  <2>2. z.count = s.count + 1 /\ SpanOf(z) = SpanOf(s)
    BY <1>1, LaterFacts
  <2>3. z \in Sound /\ z.mode = s.mode /\ z.ly = s.ly /\ z.mode3 = s.mode3
    BY <1>1, LaterSound, LaterFacts
  <2> QED
    BY <2>1, <2>2, <2>3 DEF Ready
<1> DEFINE d == z.count - SpanOf(z)
<1>4. d = c + 1
  BY <1>3
<1>5. /\ s.mode = SEARCH_OAM => Moved(s) = Looked(Set(s, TRANSFER, l, c, Mode3Cycles))
      /\ s.mode = TRANSFER => Moved(s) = Looked(Set(s, HBLANK, l, c, t))
      /\ s.mode = HBLANK /\ l + 1 # Height => Moved(s) = Looked(Set(s, SEARCH_OAM, l + 1, c, t))
      /\ s.mode = HBLANK /\ l + 1 = Height =>
           Moved(s) = Looked(Set(Looked(Published(Set(s, VBLANK, l, c, t))), VBLANK, Height, c, t))
      /\ s.mode = VBLANK /\ l \notin {0, LastLine} => Moved(s) = Looked(Set(s, VBLANK, l + 1, c, t))
      /\ s.mode = VBLANK /\ l \in {0, LastLine} =>
           Moved(s) = Looked(Set(Looked(Set(s, VBLANK, 0, c, t)), SEARCH_OAM, 0, c, t))
  BY MovedIs
<1>6. /\ s.mode = SEARCH_OAM => Moved(z) = Looked(Set(z, TRANSFER, l, d, Mode3Cycles))
      /\ s.mode = TRANSFER => Moved(z) = Looked(Set(z, HBLANK, l, d, t))
      /\ s.mode = HBLANK /\ l + 1 # Height => Moved(z) = Looked(Set(z, SEARCH_OAM, l + 1, d, t))
      /\ s.mode = HBLANK /\ l + 1 = Height =>
           Moved(z) = Looked(Set(Looked(Published(Set(z, VBLANK, l, d, t))), VBLANK, Height, d, t))
      /\ s.mode = VBLANK /\ l \notin {0, LastLine} => Moved(z) = Looked(Set(z, VBLANK, l + 1, d, t))
      /\ s.mode = VBLANK /\ l \in {0, LastLine} =>
           Moved(z) = Looked(Set(Looked(Set(z, VBLANK, 0, d, t)), SEARCH_OAM, 0, d, t))
  BY <1>3, MovedIs
<1> SUFFICES Moved(z) = Later(Moved(s))
  BY <1>3
<1>7. \A x \in LcdState, m \in Modes, n \in 0..LastLine, w \in Mode3Values :
        /\ Set(x, m, n, c, w) \in LcdState
        /\ Set(Later(x), m, n, d, w) = Later(Set(x, m, n, c, w))
        /\ Looked(x) \in LcdState /\ Looked(Later(x)) = Later(Looked(x))
        /\ Published(x) \in LcdState /\ Published(Later(x)) = Later(Published(x))
  <2> SUFFICES ASSUME NEW x \in LcdState, NEW m \in Modes, NEW n \in 0..LastLine,
                      NEW w \in Mode3Values
               PROVE  /\ Set(x, m, n, c, w) \in LcdState
                      /\ Set(Later(x), m, n, d, w) = Later(Set(x, m, n, c, w))
                      /\ Looked(x) \in LcdState /\ Looked(Later(x)) = Later(Looked(x))
                      /\ Published(x) \in LcdState
                      /\ Published(Later(x)) = Later(Published(x))
    OBVIOUS
  <2>1. c \in Nat
    BY <1>1
  <2> HIDE DEF c, d
  <2>2. Set(x, m, n, c, w) \in LcdState /\ Looked(x) \in LcdState /\ Published(x) \in LcdState
    BY <2>1, SetFacts, LookedFacts, PublishedFacts
  <2>3. Set(Later(x), m, n, d, w) = Later(Set(x, m, n, c, w))
    BY <1>4, <2>1, SetLater
  <2>4. Looked(Later(x)) = Later(Looked(x)) /\ Published(Later(x)) = Later(Published(x))
    BY LookedLater, PublishedLater
  <2> QED
    BY <2>2, <2>3, <2>4
<1>8. z = Later(s)
  OBVIOUS
<1> HIDE DEF c, d, l, t, z
<1>9. CASE s.mode = SEARCH_OAM
  BY <1>1, <1>2, <1>5, <1>6, <1>7, <1>8, <1>9
<1>10. CASE s.mode = TRANSFER
  BY <1>1, <1>2, <1>5, <1>6, <1>7, <1>8, <1>10
<1>11. CASE s.mode = HBLANK /\ l + 1 # Height
  BY <1>1, <1>2, <1>5, <1>6, <1>7, <1>8, <1>11
<1>12. CASE s.mode = HBLANK /\ l + 1 = Height
  BY <1>1, <1>2, <1>5, <1>6, <1>7, <1>8, <1>12
<1>13. CASE s.mode = VBLANK /\ l \notin {0, LastLine}
  BY <1>1, <1>2, <1>5, <1>6, <1>7, <1>8, <1>13
<1>14. CASE s.mode = VBLANK /\ l \in {0, LastLine}
  BY <1>1, <1>2, <1>5, <1>6, <1>7, <1>8, <1>14
<1>15. s.mode \in {SEARCH_OAM, TRANSFER, HBLANK, VBLANK}
  BY <1>1 DEF Modes
<1> QED
  BY <1>9, <1>10, <1>11, <1>12, <1>13, <1>14, <1>15

-----------------------------------------------------------------------------
(* The controller and the beam, a cycle later.                              *)

LEMMA SettleFacts ==
  ASSUME NEW b \in Beams
  PROVE  /\ Settle(b) \in Beams
         /\ Settle(b).line = b.line /\ Settle(b).dot = b.dot
         /\ Settle(b).seen = b.seen /\ Settle(b).len = b.len
         /\ Settle(b).frame = b.frame
         /\ Settle(b).level = High(BeamMode(b), b.seen)
         /\ Settle(b).due = Raised(b.due, b.level, BeamMode(b), b.seen)
         /\ BeamMode(Settle(b)) = BeamMode(b)
<1>1. /\ Settle(b) \in Beams
      /\ Settle(b).line = b.line /\ Settle(b).dot = b.dot
      /\ Settle(b).seen = b.seen /\ Settle(b).len = b.len
      /\ Settle(b).frame = b.frame
      /\ Settle(b).level = StatLevel(BeamMode(b), b.seen = lyc, enable)
      /\ Settle(b).due = IF StatLevel(BeamMode(b), b.seen = lyc, enable) /\ ~b.level
                          THEN b.due \union {"lcdc"} ELSE b.due
  BY EnteredTypes DEF Settle
<1>2. BeamMode(Settle(b)) = BeamMode(b)
  BY <1>1 DEF BeamMode
<1>3. Settle(b).level = High(BeamMode(b), b.seen)
  BY <1>1 DEF High
<1>4. Settle(b).due = Raised(b.due, b.level, BeamMode(b), b.seen)
  BY <1>1 DEF High, Raised
<1> QED
  BY <1>1, <1>2, <1>3, <1>4

\* Alike, they stay so when the STAT line is looked at.
LEMMA AlikeLooked ==
  ASSUME NEW s \in LcdState, NEW b \in Beams, Alike(s, b)
  PROVE  Alike(Looked(s), Settle(b))
<1> DEFINE r == Looked(s)
           c == Settle(b)
<1>1. /\ r.mode = s.mode /\ r.ly = s.ly /\ r.frame = s.frame
      /\ r.level = High(s.mode, s.ly) /\ r.irq = Raised(s.irq, s.level, s.mode, s.ly)
  BY LookedFacts
<1>2. /\ c.seen = b.seen /\ c.frame = b.frame /\ BeamMode(c) = BeamMode(b)
      /\ c.level = High(BeamMode(b), b.seen)
      /\ c.due = Raised(b.due, b.level, BeamMode(b), b.seen)
  BY SettleFacts
<1> HIDE DEF r, c
<1>3. s.mode = BeamMode(b) /\ s.ly = b.seen /\ s.level = b.level /\ s.irq = b.due
      /\ s.frame = b.frame
  BY DEF Alike
<1>4. Alike(r, c)
  BY <1>1, <1>2, <1>3 DEF Alike
<1> QED
  BY <1>4 DEF r, c

LEMMA MatchesLooked ==
  ASSUME NEW s \in LcdState, NEW b \in Beams, Matches(s, b)
  PROVE  Matches(Looked(s), Settle(b))
<1> DEFINE r == Looked(s)
           c == Settle(b)
<1>1. r.mode = s.mode /\ r.ly = s.ly /\ r.mode3 = s.mode3 /\ r.count = s.count
  BY LookedFacts
<1>2. c.line = b.line /\ c.dot = b.dot /\ c.len = b.len
  BY SettleFacts
<1>3. Alike(r, c)
  BY AlikeLooked DEF Matches
<1> HIDE DEF r, c
<1>4. StartOf(r) = StartOf(s)
  BY <1>1 DEF StartOf
<1>5. Matches(r, c)
  BY <1>1, <1>2, <1>3, <1>4 DEF Matches
<1> QED
  BY <1>5 DEF r, c

\* A sound state is alike after the STAT line is looked at again.
LEMMA SettledAlready ==
  ASSUME NEW s \in Sound, NEW b \in Beams, Matches(s, b)
  PROVE  Looked(s) = s
<1> DEFINE r == Looked(s)
<1>1. /\ r \in LcdState /\ r.mode = s.mode /\ r.ly = s.ly /\ r.mode3 = s.mode3
      /\ r.count = s.count /\ r.frame = s.frame
      /\ r.level = High(s.mode, s.ly) /\ r.irq = Raised(s.irq, s.level, s.mode, s.ly)
  BY LookedFacts, SoundFacts
<1>2. s \in LcdState /\ s.level = High(s.mode, s.ly)
  BY DEF Sound
<1>3. Raised(s.irq, s.level, s.mode, s.ly) = s.irq
  BY <1>2 DEF Raised
<1> HIDE DEF r
<1>4. r = s
  BY <1>1, <1>2, <1>3, SameState
<1> QED
  BY <1>4 DEF r

\* Where a mode begins and ends.
LEMMA StartFacts ==
  ASSUME NEW s \in LcdState
  PROVE  /\ StartOf(s) \in Nat
         /\ s.mode \in {SEARCH_OAM, VBLANK} => StartOf(s) = 0
         /\ s.mode = TRANSFER => StartOf(s) = OamCycles
         /\ s.mode = HBLANK => StartOf(s) = OamCycles + s.mode3
         /\ s.mode = SEARCH_OAM => StartOf(s) + SpanOf(s) = OamCycles
         /\ s.mode = TRANSFER => StartOf(s) + SpanOf(s) = OamCycles + s.mode3
         /\ s.mode \in {HBLANK, VBLANK} => StartOf(s) + SpanOf(s) = LineCycles
         /\ StartOf(s) + SpanOf(s) <= LineCycles
<1>1. /\ s.mode \in {0, 1, 2, 3} /\ s.mode3 \in Nat /\ OamCycles + s.mode3 < LineCycles
      /\ SpanOf(s) \in Nat
      /\ s.mode = SEARCH_OAM => SpanOf(s) = OamCycles
      /\ s.mode = TRANSFER => SpanOf(s) = s.mode3
      /\ s.mode = HBLANK => SpanOf(s) = LineCycles - OamCycles - s.mode3
      /\ s.mode = VBLANK => SpanOf(s) = LineCycles
  BY StateFacts, SpanOfIs
<1>2. /\ s.mode \in {SEARCH_OAM, VBLANK} => StartOf(s) = 0
      /\ s.mode = TRANSFER => StartOf(s) = OamCycles
      /\ s.mode = HBLANK => StartOf(s) = OamCycles + s.mode3
  BY ModesAre DEF StartOf
<1> DEFINE m == s.mode
           w == s.mode3
           n == SpanOf(s)
           k == StartOf(s)
<1> HIDE DEF m, w, n, k
<1>3. /\ m \in {0, 1, 2, 3} /\ w \in Nat /\ OamCycles + w < LineCycles /\ n \in Nat
      /\ m = SEARCH_OAM => n = OamCycles /\ k = 0
      /\ m = TRANSFER => n = w /\ k = OamCycles
      /\ m = HBLANK => n = LineCycles - OamCycles - w /\ k = OamCycles + w
      /\ m = VBLANK => n = LineCycles /\ k = 0
  BY <1>1, <1>2 DEF m, w, n, k
<1>4. /\ k \in Nat
      /\ m = SEARCH_OAM => k + n = OamCycles
      /\ m = TRANSFER => k + n = OamCycles + w
      /\ m \in {HBLANK, VBLANK} => k + n = LineCycles
      /\ k + n <= LineCycles
  BY <1>3, ModesAre, Numbers
<1> QED
  BY <1>2, <1>4 DEF m, w, n, k

\* No transition: the beam moves on in the same mode.
LEMMA QuietDot ==
  ASSUME NEW y \in Sound, NEW b \in Beams, Matches(y, b), Ready(Later(y)), scx \in ScrollValues
  PROVE  Matches(Later(y), NextDot(b))
<1> DEFINE z == Later(y)
           e == NextDotOf(b)
           l == b.line
           d == b.dot
           w == b.len
           k == StartOf(y)
           n == SpanOf(y)
<1>1. /\ y \in LcdState /\ z \in Sound /\ z.mode = y.mode /\ z.ly = y.ly
      /\ z.count = y.count + 1 /\ z.mode3 = y.mode3 /\ z.level = y.level /\ z.irq = y.irq
      /\ z.frame = y.frame /\ z \in LcdState
  BY SoundFacts, LaterFacts, LaterSound
<1>2. /\ k \in Nat /\ n \in Nat /\ k + y.count = d /\ y.count \in Nat /\ y.count + 1 < n
      /\ k + n <= LineCycles
      /\ y.mode \in {SEARCH_OAM, VBLANK} => k = 0
      /\ y.mode = TRANSFER => k = OamCycles
      /\ y.mode = HBLANK => k = OamCycles + y.mode3
      /\ y.mode = SEARCH_OAM => k + n = OamCycles
      /\ y.mode = TRANSFER => k + n = OamCycles + y.mode3
  BY <1>1, StartFacts, SpanOfIs, StateFacts, LaterFacts DEF Ready, Matches
<1>3. /\ y.mode = BeamMode(b) /\ y.ly = b.seen /\ y.level = b.level /\ y.irq = b.due
      /\ y.frame = b.frame
      /\ y.ly = l \/ (y.ly = 0 /\ l = LastLine)
      /\ y.mode \in {TRANSFER, HBLANK} => y.mode3 = w
  BY DEF Matches, Alike
<1>4. l \in 0..LastLine /\ d \in 0..(LineCycles - 1) /\ w \in Mode3Values /\ w \in Nat
  BY BeamFacts, Mode3Numbers
<1>5. d + 1 < LineCycles
  <2> HIDE DEF k, n, d
  <2> QED
    BY <1>2, <1>4, Numbers
<1>6. /\ e \in Beams /\ e.line = l /\ e.dot = d + 1 /\ e.seen = b.seen
      /\ e.len = (IF d + 1 = OamCycles THEN TransferCycles + scx ELSE w)
      /\ e.level = b.level /\ e.due = b.due /\ e.frame = b.frame
  BY <1>4, <1>5, NextDotOfTypes, Numbers
<1> DEFINE m == y.mode
           t == y.mode3
<1>7. BeamMode(b) = IF l >= Height THEN VBLANK ELSE IF d < OamCycles THEN SEARCH_OAM
                    ELSE IF d < OamCycles + w THEN TRANSFER ELSE HBLANK
  BY DEF BeamMode
<1>8. BeamMode(e) = IF l >= Height THEN VBLANK ELSE IF d + 1 < OamCycles THEN SEARCH_OAM
                    ELSE IF d + 1 < OamCycles + e.len THEN TRANSFER ELSE HBLANK
  BY <1>6 DEF BeamMode
<1>9. m = BeamMode(b) /\ (m \in {TRANSFER, HBLANK} => t = w) /\ t \in Nat
      /\ (m \in {SEARCH_OAM, VBLANK} => k = 0) /\ (m = TRANSFER => k = OamCycles)
      /\ (m = HBLANK => k = OamCycles + t)
      /\ (m = SEARCH_OAM => k + n = OamCycles) /\ (m = TRANSFER => k + n = OamCycles + t)
  BY <1>1, <1>2, <1>3, StateFacts
<1> DEFINE c == y.count
           x == e.len
<1>10. c \in Nat /\ k + c = d /\ c + 1 < n /\ x = (IF d + 1 = OamCycles THEN TransferCycles + scx ELSE w)
       /\ k \in Nat /\ n \in Nat
  BY <1>2, <1>6
<1>11. scx \in Nat
  BY PpuAssumption
<1> DEFINE mb == BeamMode(b)
           me == BeamMode(e)
<1>12. me = mb /\ (mb \in {TRANSFER, HBLANK} => x = w)
  <2>1. /\ mb = IF l >= Height THEN VBLANK ELSE IF d < OamCycles THEN SEARCH_OAM
                 ELSE IF d < OamCycles + w THEN TRANSFER ELSE HBLANK
        /\ me = IF l >= Height THEN VBLANK ELSE IF d + 1 < OamCycles THEN SEARCH_OAM
                 ELSE IF d + 1 < OamCycles + x THEN TRANSFER ELSE HBLANK
        /\ m = mb
    BY <1>7, <1>8, <1>9
  <2> HIDE DEF mb, me, m, t, c, x, k, n, l, d, w
  <2> QED
    BY <2>1, <1>4, <1>9, <1>10, <1>11, ModesAre, Numbers
<1>13. Matches(z, e)
  <2>1. Alike(z, e)
    BY <1>1, <1>3, <1>6, <1>12 DEF Alike
  <2>2. StartOf(z) = StartOf(y)
    BY <1>1 DEF StartOf
  <2>3. StartOf(z) + z.count = e.dot
    <3> HIDE DEF z, e
    <3> QED
      BY <1>1, <1>6, <1>10, <2>2
  <2>4. z.ly = e.line \/ (z.ly = 0 /\ e.line = LastLine)
    BY <1>1, <1>3, <1>6
  <2>5. z.mode \in {TRANSFER, HBLANK} => z.mode3 = e.len
    BY <1>1, <1>3, <1>9, <1>12
  <2> QED
    BY <2>1, <2>3, <2>4, <2>5 DEF Matches
<1>14. Looked(z) = z
  BY <1>1, <1>6, <1>13, SettledAlready
<1>15. NextDot(b) = Settle(e)
  BY <1>4, <1>5, NextDotIs, Numbers
<1>16. Matches(Looked(z), Settle(e))
  BY <1>1, <1>6, <1>13, MatchesLooked
<1> QED
  BY <1>14, <1>15, <1>16

\* A transition is due exactly now, and the beam is a cycle behind.
AtEnd(z, b) ==
  /\ Alike(z, b)
  /\ z.count = SpanOf(z)
  /\ StartOf(z) + z.count = b.dot + 1
  /\ z.ly = b.line \/ (z.ly = 0 /\ b.line = LastLine)
  /\ z.mode \in {TRANSFER, HBLANK} => z.mode3 = b.len

LEMMA AtEndIs ==
  ASSUME NEW y \in Sound, NEW b \in Beams, Matches(y, b), Ready(y), ~Ready(Later(y))
  PROVE  Later(y) \in Sound /\ AtEnd(Later(y), b)
<1> DEFINE z == Later(y)
           k == StartOf(y)
           n == SpanOf(y)
           d == b.dot
           c == y.count
<1>1. /\ y \in LcdState /\ z \in Sound /\ z.mode = y.mode /\ z.ly = y.ly
      /\ z.count = c + 1 /\ z.mode3 = y.mode3 /\ z.level = y.level /\ z.irq = y.irq
      /\ z.frame = y.frame /\ SpanOf(z) = n
  BY SoundFacts, LaterFacts, LaterSound
<1>2. k \in Nat /\ n \in Nat /\ c \in Nat /\ k + c = d /\ c < n /\ ~(c + 1 < n)
  BY <1>1, StartFacts, SpanOfIs, StateFacts DEF Ready, Matches
<1>3. Alike(z, b)
  BY <1>1 DEF Alike, Matches
<1>4. StartOf(z) = k
  BY <1>1 DEF StartOf
<1>5. z.ly = b.line \/ (z.ly = 0 /\ b.line = LastLine)
  BY <1>1 DEF Matches
<1>6. z.mode \in {TRANSFER, HBLANK} => z.mode3 = b.len
  BY <1>1 DEF Matches
<1> HIDE DEF z, k, n, d, c
<1>7. z.count = n /\ k + z.count = d + 1
  BY <1>1, <1>2
<1>8. AtEnd(z, b)
  BY <1>1, <1>3, <1>4, <1>5, <1>6, <1>7 DEF AtEnd, d
<1> QED
  BY <1>1, <1>8 DEF z

\* Where the beam is when a transition is due.
LEMMA AtEndFacts ==
  ASSUME NEW z \in Sound, NEW b \in Beams, AtEnd(z, b)
  PROVE  /\ z \in LcdState /\ z.count - SpanOf(z) = 0 /\ 0 \in Nat
         /\ Alike(z, b) /\ z.mode \in Modes /\ z.mode3 \in Mode3Values
         /\ z.ly \in 0..LastLine /\ b.line \in 0..LastLine
         /\ z.mode # VBLANK => b.line = z.ly /\ b.line < Height
         /\ z.mode = VBLANK => b.line >= Height
         /\ z.mode = SEARCH_OAM => b.dot + 1 = OamCycles
         /\ z.mode = TRANSFER => b.dot + 1 = OamCycles + b.len
         /\ z.mode \in {TRANSFER, HBLANK} => z.mode3 = b.len /\ b.len # 0
         /\ z.mode \in {HBLANK, VBLANK} => b.dot + 1 = LineCycles
         /\ b.dot + 1 <= LineCycles
<1> DEFINE m == z.mode
           l == b.line
           d == b.dot
           w == b.len
           mb == BeamMode(b)
           k == StartOf(z)
           n == SpanOf(z)
           c == z.count
           t == z.mode3
           y == z.ly
<1>1. /\ z \in LcdState /\ Placed(z.mode, z.ly, z.mode3) /\ Alike(z, b)
      /\ y = l \/ (y = 0 /\ l = LastLine)
      /\ m \in {TRANSFER, HBLANK} => t = w
      /\ c = n /\ k + c = d + 1 /\ m = mb
  BY SoundFacts DEF AtEnd, Alike
<1>2. /\ m \in {0, 1, 2, 3} /\ m \in Modes /\ t \in Nat /\ t \in Mode3Values /\ n \in Nat
      /\ k \in Nat /\ y \in 0..LastLine
      /\ m = SEARCH_OAM => k + n = OamCycles
      /\ m = TRANSFER => k + n = OamCycles + t
      /\ m \in {HBLANK, VBLANK} => k + n = LineCycles
      /\ k + n <= LineCycles
  BY <1>1, StartFacts, StateFacts, SpanOfIs, ModesAre
<1>3. l \in 0..LastLine /\ d \in 0..(LineCycles - 1) /\ w \in Nat
  BY BeamFacts, Mode3Numbers
<1>4. mb = IF l >= Height THEN VBLANK ELSE IF d < OamCycles THEN SEARCH_OAM
           ELSE IF d < OamCycles + w THEN TRANSFER ELSE HBLANK
  BY DEF BeamMode
<1>5. /\ m # VBLANK => y < Height
      /\ m \in {TRANSFER, HBLANK} => t # 0
  BY <1>1 DEF Placed
<1> HIDE DEF m, l, d, w, mb, k, n, c, t, y
<1>6. /\ m # VBLANK => l = y /\ l < Height
      /\ m = VBLANK => l >= Height
      /\ m = SEARCH_OAM => d + 1 = OamCycles
      /\ m = TRANSFER => d + 1 = OamCycles + w
      /\ m \in {TRANSFER, HBLANK} => t = w /\ w # 0
      /\ m \in {HBLANK, VBLANK} => d + 1 = LineCycles
      /\ d + 1 <= LineCycles
      /\ c - n = 0
  BY <1>1, <1>2, <1>3, <1>4, <1>5, ModesAre, Numbers
<1> QED
  BY <1>1, <1>2, <1>3, <1>6 DEF m, l, d, w, mb, k, n, c, t, y

\* A mode that has just begun.
LEMMA BegunFacts ==
  ASSUME NEW s \in LcdState, NEW m \in Modes, NEW l \in 0..LastLine, NEW t \in Mode3Values
  PROVE  /\ Set(s, m, l, 0, t) \in LcdState
         /\ Set(s, m, l, 0, t).mode = m /\ Set(s, m, l, 0, t).ly = l
         /\ Set(s, m, l, 0, t).count = 0 /\ Set(s, m, l, 0, t).mode3 = t
         /\ Set(s, m, l, 0, t).level = s.level /\ Set(s, m, l, 0, t).irq = s.irq
         /\ Set(s, m, l, 0, t).frame = s.frame
<1>1. 0 \in Nat
  OBVIOUS
<1> QED
  BY <1>1, SetFacts

\* A state that has just begun and the beam on its first dot.
LEMMA BegunMatches ==
  ASSUME NEW s \in LcdState, NEW b \in Beams, NEW m \in Modes, NEW l \in 0..LastLine,
         NEW t \in Mode3Values, Placed(m, l, t), Alike(Set(s, m, l, 0, t), b),
         b.line = l, b.dot = StartOf(Set(s, m, l, 0, t)),
         m \in {TRANSFER, HBLANK} => t = b.len
  PROVE  LET r == Looked(Set(s, m, l, 0, t)) IN
           r \in Sound /\ Ready(r) /\ Matches(r, Settle(b))
<1> DEFINE q == Set(s, m, l, 0, t)
           r == Looked(q)
<1>1. q \in LcdState /\ q.mode = m /\ q.ly = l /\ q.count = 0 /\ q.mode3 = t
  BY BegunFacts
<1>2. r \in Sound /\ r.count = 0
  BY LookedSet
<1>3. Matches(q, b)
  <2> HIDE DEF q
  <2>1. StartOf(q) \in Nat
    BY <1>1, StartFacts
  <2> QED
    BY <1>1, <2>1 DEF Matches, q
<1> HIDE DEF q
<1>4. Matches(r, Settle(b))
  BY <1>1, <1>3, MatchesLooked
<1> HIDE DEF r
<1>5. Ready(r)
  BY <1>2, SoundFacts DEF Ready
<1> QED
  BY <1>2, <1>4, <1>5 DEF q, r

\* A transition: the beam goes into the mode the controller goes into.
LEMMA TransitionDot ==
  ASSUME NEW z \in Sound, NEW b \in Beams, AtEnd(z, b), scx \in ScrollValues
  PROVE  Moved(z) \in Sound /\ Ready(Moved(z)) /\ Matches(Moved(z), NextDot(b))
<1> DEFINE l == z.ly
           t == z.mode3
           m == z.mode
<1>1. /\ z \in LcdState /\ z.count - SpanOf(z) = 0 /\ Alike(z, b)
      /\ m \in Modes /\ t \in Mode3Values /\ l \in 0..LastLine /\ b.line \in 0..LastLine
      /\ m # VBLANK => b.line = l /\ b.line < Height
      /\ m = VBLANK => b.line >= Height
      /\ m = SEARCH_OAM => b.dot + 1 = OamCycles
      /\ m = TRANSFER => b.dot + 1 = OamCycles + b.len
      /\ m \in {TRANSFER, HBLANK} => t = b.len /\ b.len # 0
      /\ m \in {HBLANK, VBLANK} => b.dot + 1 = LineCycles
      /\ b.line = l \/ (l = 0 /\ b.line = LastLine)
  BY AtEndFacts DEF AtEnd
<1>2. HBLANK \in Modes /\ VBLANK \in Modes /\ SEARCH_OAM \in Modes /\ TRANSFER \in Modes
  BY DEF Modes
<1>3. ~Ready(z)
  BY <1>1, SpanOfIs, StateFacts DEF Ready
<1>4. /\ 0 \in 0..LastLine /\ Height \in 0..LastLine /\ Mode3Cycles \in Mode3Values
      /\ 0 \in 0..(LineCycles - 1) /\ Height # 0 /\ Height \in Nat
  BY <1>3, MoveArguments, Numbers
<1>5. /\ m = BeamMode(b) /\ l = b.seen /\ z.level = b.level /\ z.irq = b.due /\ z.frame = b.frame
  BY <1>1 DEF Alike
<1>6. z \in LcdState /\ t \in Mode3Values /\ l \in 0..LastLine
  BY <1>1
<1>7. Mode3Cycles \in Mode3Values
  BY <1>4
<1>8. 0 \in 0..LastLine
  BY <1>4
<1>9. Height \in 0..LastLine
  BY <1>4
<1>10. CASE m = SEARCH_OAM
  <2> DEFINE q == Set(z, TRANSFER, l, 0, Mode3Cycles)
             e == NextDotOf(b)
  <2>1. Moved(z) = Looked(q) /\ Placed(TRANSFER, l, Mode3Cycles)
    BY <1>1, <1>3, <1>10, MovedIs, MoveArguments
  <2>2. b.dot + 1 # LineCycles /\ b.dot \in Nat
    BY <1>1, <1>10, BeamFacts, Numbers
  <2>3. NextDot(b) = Settle(e)
    BY <2>2, NextDotIs
  <2>4. /\ e \in Beams /\ e.line = b.line /\ e.dot = b.dot + 1 /\ e.seen = b.seen
        /\ e.len = (IF b.dot + 1 = OamCycles THEN TransferCycles + scx ELSE b.len)
        /\ e.level = b.level /\ e.due = b.due /\ e.frame = b.frame
    BY <2>2, NextDotOfTypes
  <2>5. e.dot = OamCycles /\ e.len = Mode3Cycles /\ e.line < Height
    BY <1>1, <1>10, <2>4, ModesAre DEF Mode3Cycles
  <2>6. Mode3Cycles \in Nat /\ Mode3Cycles # 0
    BY <1>4, Mode3Numbers DEF Mode3Cycles
  <2>7. BeamMode(e) = TRANSFER
    BY <1>1, <2>4, <2>5, <2>6, Numbers DEF BeamMode
  <2>8. /\ q \in LcdState /\ q.mode = TRANSFER /\ q.ly = l /\ q.level = z.level /\ q.irq = z.irq
        /\ q.frame = z.frame
    BY <1>6, <1>2, <1>7, BegunFacts
  <2>9. Alike(q, e)
    BY <1>5, <2>4, <2>7, <2>8 DEF Alike
  <2>10. StartOf(q) = e.dot
    BY <2>5, <2>8, StartFacts
  <2>11. e.line = l /\ e.len = Mode3Cycles
    BY <1>1, <1>10, <2>4, <2>5, ModesAre
  <2> HIDE DEF e
  <2> QED
    BY <1>1, <1>2, <1>4, <2>1, <2>3, <2>4, <2>9, <2>10, <2>11, BegunMatches
<1>11. CASE m = TRANSFER
  <2> DEFINE q == Set(z, HBLANK, l, 0, t)
             e == NextDotOf(b)
  <2>1. Moved(z) = Looked(q) /\ Placed(HBLANK, l, t)
    BY <1>1, <1>3, <1>11, MovedIs, MoveArguments
  <2>2. b.dot + 1 # LineCycles /\ b.dot + 1 # OamCycles /\ b.dot \in Nat /\ b.len \in Nat
    BY <1>1, <1>11, BeamFacts, Numbers, Mode3Numbers
  <2>3. NextDot(b) = Settle(e)
    BY <2>2, NextDotIs
  <2>4. /\ e \in Beams /\ e.line = b.line /\ e.dot = b.dot + 1 /\ e.seen = b.seen
        /\ e.len = (IF b.dot + 1 = OamCycles THEN TransferCycles + scx ELSE b.len)
        /\ e.level = b.level /\ e.due = b.due /\ e.frame = b.frame
    BY <2>2, NextDotOfTypes
  <2>5. e.dot = OamCycles + e.len /\ e.len = t /\ e.line < Height
    BY <1>1, <1>11, <2>2, <2>4, ModesAre
  <2>6. t \in Nat /\ t # 0
    BY <1>1, <1>11, Mode3Numbers
  <2>7. BeamMode(e) = HBLANK
    BY <1>1, <2>4, <2>5, <2>6, Numbers DEF BeamMode
  <2>8. /\ q \in LcdState /\ q.mode = HBLANK /\ q.ly = l /\ q.level = z.level /\ q.irq = z.irq
        /\ q.frame = z.frame /\ q.mode3 = t
    BY <1>6, <1>2, BegunFacts
  <2>9. Alike(q, e)
    BY <1>5, <2>4, <2>7, <2>8 DEF Alike
  <2>10. StartOf(q) = e.dot
    BY <2>5, <2>8, StartFacts
  <2>11. e.line = l /\ e.len = t
    BY <1>1, <1>11, <2>4, <2>5, ModesAre
  <2> HIDE DEF e
  <2> QED
    BY <1>1, <1>2, <1>4, <2>1, <2>3, <2>4, <2>9, <2>10, <2>11, BegunMatches
<1>12. CASE m = HBLANK /\ l + 1 # Height
  <2> DEFINE n == l + 1
             q == Set(z, SEARCH_OAM, n, 0, t)
             e == SawLine(PutAt(b, n, 0), n)
  <2>1. Moved(z) = Looked(q) /\ Placed(SEARCH_OAM, n, t) /\ n \in 0..LastLine
    BY <1>1, <1>3, <1>12, MovedIs, MoveArguments
  <2>2. b.line = l /\ b.line < Height /\ b.dot + 1 = LineCycles
    BY <1>1, <1>12, ModesAre
  <2>3. b.line + 1 # Height /\ b.line # LastLine /\ n < Height
    BY <1>1, <1>12, <2>2, Numbers
  <2>4. NextDot(b) = Settle(e)
    BY <2>2, <2>3, NextDotIs, NextLineIs
  <2> DEFINE p == PutAt(b, n, 0)
  <2>5. /\ p \in Beams /\ p.line = n /\ p.dot = 0 /\ p.level = b.level /\ p.due = b.due
        /\ p.frame = b.frame /\ p.len = b.len
    BY <1>4, <2>1, PutTypes
  <2>6. /\ e \in Beams /\ e.line = n /\ e.dot = 0 /\ e.seen = n
        /\ e.level = b.level /\ e.due = b.due /\ e.frame = b.frame
    BY <2>1, <2>5, SawTypes
  <2>7. BeamMode(e) = SEARCH_OAM
    BY <2>1, <2>3, <2>6, Numbers DEF BeamMode
  <2>8. /\ q \in LcdState /\ q.mode = SEARCH_OAM /\ q.ly = n /\ q.level = z.level /\ q.irq = z.irq
        /\ q.frame = z.frame
    BY <1>6, <1>2, <2>1, BegunFacts
  <2>9. Alike(q, e)
    BY <1>5, <2>6, <2>7, <2>8 DEF Alike
  <2>10. StartOf(q) = e.dot
    BY <2>6, <2>8, StartFacts
  <2>11. SEARCH_OAM \notin {TRANSFER, HBLANK}
    BY ModesAre
  <2> HIDE DEF e, n
  <2> QED
    BY <1>1, <1>2, <1>4, <2>1, <2>4, <2>6, <2>9, <2>10, <2>11, BegunMatches
<1>13. CASE m = HBLANK /\ l + 1 = Height
  <2> DEFINE v == Published(Set(z, VBLANK, l, 0, t))
             c == Framed(PutAt(b, Height, 0))
             q == Set(Looked(v), VBLANK, Height, 0, t)
             e == SawLine(Settle(c), Height)
  <2>1. Moved(z) = Looked(q) /\ Placed(VBLANK, Height, t)
    BY <1>1, <1>3, <1>13, MovedIs, MoveArguments
  <2>2. b.line = l /\ b.dot + 1 = LineCycles
    BY <1>1, <1>13, ModesAre
  <2>3. NextDot(b) = Settle(e)
    BY <1>13, <2>2, NextDotIs, NextLineIs
  <2> DEFINE p == PutAt(b, Height, 0)
             s == Set(z, VBLANK, l, 0, t)
  <2>4. /\ p \in Beams /\ p.line = Height /\ p.dot = 0 /\ p.level = b.level /\ p.due = b.due
        /\ p.frame = b.frame /\ p.seen = b.seen
    BY <1>4, PutTypes
  <2>5. /\ c \in Beams /\ c.line = Height /\ c.dot = 0 /\ c.level = b.level
        /\ c.due = b.due \union {"vblank"} /\ c.frame = 1 - b.frame /\ c.seen = b.seen
    BY <2>4, FramedTypes
  <2>6. BeamMode(c) = VBLANK
    BY <1>4, <2>5 DEF BeamMode
  <2>7. /\ s \in LcdState /\ s.mode = VBLANK /\ s.ly = l /\ s.level = z.level /\ s.irq = z.irq
        /\ s.frame = z.frame
    BY <1>6, <1>2, BegunFacts
  <2>8. /\ v \in LcdState /\ v.mode = VBLANK /\ v.ly = l /\ v.level = z.level
        /\ v.irq = z.irq \union {"vblank"} /\ v.frame = 1 - z.frame
    BY <2>7, PublishedFacts
  <2> HIDE DEF v, c, p, s
  <2>9. Alike(v, c)
    BY <1>5, <2>5, <2>6, <2>8 DEF Alike
  <2>10. Alike(Looked(v), Settle(c))
    BY <2>5, <2>8, <2>9, AlikeLooked
  <2> DEFINE r == Looked(v)
             a == Settle(c)
  <2>11. r \in LcdState /\ a \in Beams /\ a.line = Height /\ a.dot = 0
    BY <2>5, <2>8, LookedFacts, SettleFacts
  <2>12. r.level = a.level /\ r.irq = a.due /\ r.frame = a.frame
    BY <2>10 DEF Alike
  <2> HIDE DEF r, a
  <2>13. /\ e \in Beams /\ e.line = Height /\ e.dot = 0 /\ e.seen = Height
         /\ e.level = a.level /\ e.due = a.due /\ e.frame = a.frame
    BY <1>4, <2>11, SawTypes DEF a
  <2>14. r \in LcdState
    BY <2>11
  <2>15. /\ q \in LcdState /\ q.mode = VBLANK /\ q.ly = Height /\ q.level = r.level
         /\ q.irq = r.irq /\ q.frame = r.frame
    BY <1>6, <1>2, <1>9, <2>14, BegunFacts DEF r
  <2>16. BeamMode(e) = VBLANK
    BY <1>4, <2>13 DEF BeamMode
  <2>17. Alike(q, e)
    BY <2>12, <2>13, <2>15, <2>16 DEF Alike
  <2>18. StartOf(q) = e.dot
    BY <2>13, <2>15, StartFacts
  <2>19. VBLANK \notin {TRANSFER, HBLANK}
    BY ModesAre
  <2>20. q = Set(r, VBLANK, Height, 0, t)
    BY DEF r
  <2> HIDE DEF e, q
  <2> QED
    BY <1>1, <1>2, <1>4, <2>1, <2>3, <2>11, <2>13, <2>17, <2>18, <2>19, <2>20, BegunMatches
<1>14. CASE m = VBLANK /\ l \notin {0, LastLine}
  <2> DEFINE n == l + 1
             q == Set(z, VBLANK, n, 0, t)
             e == SawLine(PutAt(b, n, 0), n)
  <2>1. Moved(z) = Looked(q) /\ Placed(VBLANK, n, t) /\ n \in 0..LastLine
    BY <1>1, <1>3, <1>14, MovedIs, MoveArguments
  <2>2. b.line = l /\ b.line >= Height /\ b.dot + 1 = LineCycles
    BY <1>1, <1>14, ModesAre
  <2>3. b.line + 1 # Height /\ b.line # LastLine /\ n >= Height
    BY <1>1, <1>14, <2>2, Numbers
  <2>4. NextDot(b) = Settle(e)
    BY <2>2, <2>3, NextDotIs, NextLineIs
  <2> DEFINE p == PutAt(b, n, 0)
  <2>5. /\ p \in Beams /\ p.line = n /\ p.dot = 0 /\ p.level = b.level /\ p.due = b.due
        /\ p.frame = b.frame /\ p.len = b.len
    BY <1>4, <2>1, PutTypes
  <2>6. /\ e \in Beams /\ e.line = n /\ e.dot = 0 /\ e.seen = n
        /\ e.level = b.level /\ e.due = b.due /\ e.frame = b.frame
    BY <2>1, <2>5, SawTypes
  <2>7. BeamMode(e) = VBLANK
    BY <2>1, <2>3, <2>6, Numbers DEF BeamMode
  <2>8. /\ q \in LcdState /\ q.mode = VBLANK /\ q.ly = n /\ q.level = z.level /\ q.irq = z.irq
        /\ q.frame = z.frame
    BY <1>6, <1>2, <2>1, BegunFacts
  <2>9. Alike(q, e)
    BY <1>5, <2>6, <2>7, <2>8 DEF Alike
  <2>10. StartOf(q) = e.dot
    BY <2>6, <2>8, StartFacts
  <2>11. VBLANK \notin {TRANSFER, HBLANK}
    BY ModesAre
  <2> HIDE DEF e, n
  <2> QED
    BY <1>1, <1>2, <1>4, <2>1, <2>4, <2>6, <2>9, <2>10, <2>11, BegunMatches
<1>15. CASE m = VBLANK /\ l \in {0, LastLine}
  <2> DEFINE v == Set(z, VBLANK, 0, 0, t)
             c == SawLine(b, 0)
             q == Set(Looked(v), SEARCH_OAM, 0, 0, t)
             e == PutAt(Settle(c), 0, 0)
  <2>1. Moved(z) = Looked(q) /\ Placed(SEARCH_OAM, 0, t)
    BY <1>1, <1>3, <1>15, MovedIs, MoveArguments
  <2>2. b.line = LastLine /\ b.dot + 1 = LineCycles
    BY <1>1, <1>4, <1>15, Numbers
  <2>3. NextDot(b) = Settle(e)
    BY <2>2, NextDotIs, NextLineIs
  <2>4. /\ c \in Beams /\ c.line = LastLine /\ c.seen = 0 /\ c.level = b.level /\ c.due = b.due
        /\ c.frame = b.frame
    BY <1>4, <2>2, SawTypes
  <2>5. BeamMode(c) = VBLANK
    BY <2>4, Numbers DEF BeamMode
  <2>6. /\ v \in LcdState /\ v.mode = VBLANK /\ v.ly = 0 /\ v.level = z.level /\ v.irq = z.irq
        /\ v.frame = z.frame
    BY <1>6, <1>2, <1>8, BegunFacts
  <2> HIDE DEF v, c
  <2>7. Alike(v, c)
    BY <1>5, <2>4, <2>5, <2>6 DEF Alike
  <2>8. Alike(Looked(v), Settle(c))
    BY <2>4, <2>6, <2>7, AlikeLooked
  <2> DEFINE r == Looked(v)
             a == Settle(c)
  <2>9. r \in LcdState /\ a \in Beams /\ a.seen = 0
    BY <2>4, <2>6, LookedFacts, SettleFacts
  <2>10. r.level = a.level /\ r.irq = a.due /\ r.frame = a.frame
    BY <2>8 DEF Alike
  <2> HIDE DEF r, a
  <2>11. /\ e \in Beams /\ e.line = 0 /\ e.dot = 0 /\ e.seen = 0
         /\ e.level = a.level /\ e.due = a.due /\ e.frame = a.frame
    BY <1>4, <2>9, PutTypes DEF a
  <2>12. r \in LcdState
    BY <2>9
  <2>13. /\ q \in LcdState /\ q.mode = SEARCH_OAM /\ q.ly = 0 /\ q.level = r.level
         /\ q.irq = r.irq /\ q.frame = r.frame
    BY <1>6, <1>2, <1>8, <2>12, BegunFacts DEF r
  <2>14. BeamMode(e) = SEARCH_OAM
    BY <1>4, <2>11, Numbers DEF BeamMode
  <2>15. Alike(q, e)
    BY <2>10, <2>11, <2>13, <2>14 DEF Alike
  <2>16. StartOf(q) = e.dot
    BY <2>11, <2>13, StartFacts
  <2>17. SEARCH_OAM \notin {TRANSFER, HBLANK}
    BY ModesAre
  <2>18. q = Set(r, SEARCH_OAM, 0, 0, t)
    BY DEF r
  <2> HIDE DEF e, q
  <2> QED
    BY <1>1, <1>2, <1>4, <2>1, <2>3, <2>9, <2>11, <2>15, <2>16, <2>17, <2>18, BegunMatches
<1>16. m \in {SEARCH_OAM, TRANSFER, HBLANK, VBLANK}
  BY <1>1 DEF Modes
<1> QED
  BY <1>10, <1>11, <1>12, <1>13, <1>14, <1>15, <1>16

-----------------------------------------------------------------------------
(* Replays.                                                                 *)

\* Nothing to replay.
LEMMA CatchesNow ==
  ASSUME NEW s \in Sound, NEW b, Ready(s), Matches(s, b)
  PROVE  CatchesUp(s, b)
<1> DEFINE f == [i \in 0..0 |-> s]
<1>1. f \in [0..0 -> Sound] /\ f[0] = s
  OBVIOUS
<1>2. \A i \in 0..(0 - 1) : ~Ready(f[i]) /\ f[i + 1] = Moved(f[i])
  OBVIOUS
<1> HIDE DEF f
<1>3. Replay(f, 0, s) /\ Matches(f[0], b)
  BY <1>1, <1>2 DEF Replay
<1> QED
  BY <1>3 DEF CatchesUp

LEMMA CatchesReady ==
  ASSUME NEW s, NEW b, CatchesUp(s, b)
  PROVE  /\ s \in Sound
         /\ Ready(s) => Matches(s, b)
<1>1. PICK n \in Nat : \E f : Replay(f, n, s) /\ Matches(f[n], b)
  BY DEF CatchesUp
<1>2. PICK f : Replay(f, n, s) /\ Matches(f[n], b)
  BY <1>1
<1>3. /\ f \in [0..n -> Sound] /\ f[0] = s /\ Ready(f[n])
      /\ \A i \in 0..(n - 1) : ~Ready(f[i])
  BY <1>2 DEF Replay
<1>4. s \in Sound
  BY <1>3
<1>5. Ready(s) => n = 0
  BY <1>3
<1> QED
  BY <1>2, <1>3, <1>4, <1>5

\* The first transition made, the rest are still to be replayed.
LEMMA CatchesMove ==
  ASSUME NEW s, NEW b, CatchesUp(s, b), ~Ready(s)
  PROVE  CatchesUp(Moved(s), b)
<1>1. PICK n \in Nat : \E f : Replay(f, n, s) /\ Matches(f[n], b)
  BY DEF CatchesUp
<1>2. PICK f : Replay(f, n, s) /\ Matches(f[n], b)
  BY <1>1
<1>3. /\ f \in [0..n -> Sound] /\ f[0] = s /\ Ready(f[n])
      /\ \A i \in 0..(n - 1) : ~Ready(f[i]) /\ f[i + 1] = Moved(f[i])
  BY <1>2 DEF Replay
<1>4. n # 0
  BY <1>3
<1> DEFINE k == n - 1
           g == [i \in 0..k |-> f[i + 1]]
<1>5. k \in Nat /\ k + 1 = n
  BY <1>4
<1>6. g \in [0..k -> Sound]
  BY <1>3, <1>5
<1>7. g[0] = Moved(s)
  <2>1. 0 \in 0..(n - 1) /\ 0 \in 0..k
    BY <1>5
  <2>2. f[0 + 1] = Moved(f[0])
    BY <1>3, <2>1
  <2> QED
    BY <1>3, <2>1, <2>2
<1>8. g[k] = f[n]
  BY <1>5
<1>9. \A i \in 0..(k - 1) : ~Ready(g[i]) /\ g[i + 1] = Moved(g[i])
  <2> SUFFICES ASSUME NEW i \in 0..(k - 1)
               PROVE  ~Ready(g[i]) /\ g[i + 1] = Moved(g[i])
    OBVIOUS
  <2>1. i + 1 \in 0..(n - 1) /\ i \in 0..k /\ i + 1 \in 0..k
    BY <1>5
  <2>2. ~Ready(f[i + 1]) /\ f[(i + 1) + 1] = Moved(f[i + 1])
    BY <1>3, <2>1
  <2> QED
    BY <2>1, <2>2
<1> HIDE DEF g, k
<1>10. Replay(g, k, Moved(s)) /\ Matches(g[k], b)
  BY <1>2, <1>3, <1>6, <1>7, <1>8, <1>9 DEF Replay
<1> QED
  BY <1>5, <1>10 DEF CatchesUp

LEMMA CatchesBack ==
  ASSUME NEW s \in Sound, NEW b, ~Ready(s), CatchesUp(Moved(s), b)
  PROVE  CatchesUp(s, b)
<1> DEFINE u == Moved(s)
<1>1. PICK n \in Nat : \E f : Replay(f, n, u) /\ Matches(f[n], b)
  BY DEF CatchesUp
<1>2. PICK f : Replay(f, n, u) /\ Matches(f[n], b)
  BY <1>1
<1>3. /\ f \in [0..n -> Sound] /\ f[0] = u /\ Ready(f[n])
      /\ \A i \in 0..(n - 1) : ~Ready(f[i]) /\ f[i + 1] = Moved(f[i])
  BY <1>2 DEF Replay
<1> DEFINE k == n + 1
           g == [i \in 0..k |-> IF i = 0 THEN s ELSE f[i - 1]]
<1>4. k \in Nat /\ k - 1 = n /\ k # 0
  OBVIOUS
<1>5. g \in [0..k -> Sound]
  BY <1>3, <1>4
<1>6. g[0] = s /\ g[k] = f[n]
  BY <1>4
<1>7. \A i \in 0..(k - 1) : ~Ready(g[i]) /\ g[i + 1] = Moved(g[i])
  <2> SUFFICES ASSUME NEW i \in 0..(k - 1)
               PROVE  ~Ready(g[i]) /\ g[i + 1] = Moved(g[i])
    OBVIOUS
  <2>1. CASE i = 0
    <3>1. 0 + 1 \in 0..k /\ 0 \in 0..k
      BY <1>4
    <3>2. g[0 + 1] = f[0] /\ g[0] = s
      BY <3>1
    <3> QED
      BY <1>3, <2>1, <3>2
  <2>2. CASE i # 0
    <3>1. i - 1 \in 0..(n - 1) /\ i + 1 # 0 /\ (i + 1) - 1 = (i - 1) + 1 /\ i \in 0..k
          /\ i + 1 \in 0..k
      BY <1>4, <2>2
    <3>2. g[i] = f[i - 1] /\ g[i + 1] = f[(i - 1) + 1]
      BY <2>2, <3>1
    <3> QED
      BY <1>3, <3>1, <3>2
  <2> QED
    BY <2>1, <2>2
<1> HIDE DEF g, k
<1>8. Replay(g, k, s) /\ Matches(g[k], b)
  BY <1>2, <1>3, <1>5, <1>6, <1>7 DEF Replay
<1> QED
  BY <1>4, <1>8 DEF CatchesUp

\* A cycle later.
LEMMA CatchesLater ==
  ASSUME NEW s, NEW b \in Beams, CatchesUp(s, b), scx \in ScrollValues
  PROVE  CatchesUp(Later(s), NextDot(b))
<1> DEFINE d == NextDot(b)
<1>1. PICK n \in Nat : \E f : Replay(f, n, s) /\ Matches(f[n], b)
  BY DEF CatchesUp
<1>2. PICK f : Replay(f, n, s) /\ Matches(f[n], b)
  BY <1>1
<1>3. /\ f \in [0..n -> Sound] /\ f[0] = s /\ Ready(f[n])
      /\ \A i \in 0..(n - 1) : ~Ready(f[i]) /\ f[i + 1] = Moved(f[i])
  BY <1>2 DEF Replay
<1>4. n \in 0..n /\ f[n] \in Sound
  BY <1>3
<1> DEFINE z == Later(f[n])
<1>5. \A i \in 0..(n - 1) : ~Ready(Later(f[i])) /\ Later(f[i + 1]) = Moved(Later(f[i]))
  <2> SUFFICES ASSUME NEW i \in 0..(n - 1)
               PROVE  ~Ready(Later(f[i])) /\ Later(f[i + 1]) = Moved(Later(f[i]))
    OBVIOUS
  <2>1. f[i] \in Sound /\ ~Ready(f[i]) /\ f[i + 1] = Moved(f[i])
    BY <1>3
  <2> QED
    BY <2>1, MovedLater
<1>6. \A i \in 0..n : Later(f[i]) \in Sound
  BY <1>3, LaterSound
<1>7. CASE Ready(z)
  <2> DEFINE g == [i \in 0..n |-> Later(f[i])]
  <2>1. g \in [0..n -> Sound] /\ g[0] = Later(s) /\ g[n] = z
    BY <1>3, <1>6
  <2>2. \A i \in 0..(n - 1) : ~Ready(g[i]) /\ g[i + 1] = Moved(g[i])
    <3> SUFFICES ASSUME NEW i \in 0..(n - 1)
                 PROVE  ~Ready(g[i]) /\ g[i + 1] = Moved(g[i])
      OBVIOUS
    <3>1. i \in 0..n /\ i + 1 \in 0..n
      OBVIOUS
    <3>2. g[i] = Later(f[i]) /\ g[i + 1] = Later(f[i + 1])
      BY <3>1
    <3> QED
      BY <1>5, <3>2
  <2>3. Matches(z, d)
    BY <1>2, <1>4, <1>7, QuietDot
  <2> HIDE DEF g, z, d
  <2>4. Replay(g, n, Later(s)) /\ Matches(g[n], d)
    BY <1>7, <2>1, <2>2, <2>3 DEF Replay
  <2> QED
    BY <2>4 DEF CatchesUp, d
<1>8. CASE ~Ready(z)
  <2> DEFINE k == n + 1
             g == [i \in 0..k |-> IF i = k THEN Moved(z) ELSE Later(f[i])]
  <2>1. z \in Sound /\ AtEnd(z, b)
    BY <1>2, <1>3, <1>4, <1>8, AtEndIs
  <2>2. Moved(z) \in Sound /\ Ready(Moved(z)) /\ Matches(Moved(z), d)
    BY <2>1, TransitionDot
  <2>3. k \in Nat /\ 0 # k /\ n # k /\ 0 \in 0..k /\ k \in 0..k /\ n \in 0..k
        /\ \A i \in 0..k : i # k => i \in 0..n
    OBVIOUS
  <2>4. g \in [0..k -> Sound] /\ g[0] = Later(s) /\ g[k] = Moved(z) /\ g[n] = z
    BY <1>3, <1>6, <2>2, <2>3
  <2>5. \A i \in 0..(k - 1) : ~Ready(g[i]) /\ g[i + 1] = Moved(g[i])
    <3> SUFFICES ASSUME NEW i \in 0..(k - 1)
                 PROVE  ~Ready(g[i]) /\ g[i + 1] = Moved(g[i])
      OBVIOUS
    <3>1. CASE i = n
      BY <1>8, <2>4, <3>1
    <3>2. CASE i # n
      <4>1. i \in 0..(n - 1) /\ i \in 0..k /\ i + 1 \in 0..k /\ i # k /\ i + 1 # k
        BY <3>2
      <4>2. g[i] = Later(f[i]) /\ g[i + 1] = Later(f[i + 1])
        BY <4>1
      <4> QED
        BY <1>5, <4>1, <4>2
    <3> QED
      BY <3>1, <3>2
  <2> HIDE DEF g, k, z, d
  <2>6. Replay(g, k, Later(s)) /\ Matches(g[k], d)
    BY <2>2, <2>4, <2>5 DEF Replay
  <2> QED
    BY <2>3, <2>6 DEF CatchesUp, d
<1> QED
  BY <1>7, <1>8

\* In a visible line that the elapsed cycles do not end, the beam is on it.
LEMMA EarlyInHBlank ==
  ASSUME NEW x \in Sound, NEW b \in Beams, CatchesUp(x, b), x.mode = HBLANK,
         StartOf(x) + x.count < LineCycles
  PROVE  b.line # LastLine
<1>1. x \in LcdState /\ StartOf(x) + SpanOf(x) = LineCycles /\ StartOf(x) \in Nat
      /\ SpanOf(x) \in Nat /\ x.count \in Nat
  BY SoundFacts, StartFacts, StateFacts
<1>2. Ready(x)
  BY <1>1, Numbers DEF Ready
<1>3. BeamMode(b) # VBLANK
  BY <1>2, CatchesReady, ModesAre DEF Matches, Alike
<1> QED
  BY <1>3, BeamFacts, Numbers DEF BeamMode

LEMMA EarlyInTransfer ==
  ASSUME NEW x \in Sound, NEW b \in Beams, CatchesUp(x, b), x.mode = TRANSFER,
         StartOf(x) + x.count < LineCycles, scx \in ScrollValues
  PROVE  b.line # LastLine
<1>1. CASE Ready(x)
  <2>1. BeamMode(b) # VBLANK
    BY <1>1, CatchesReady, ModesAre DEF Matches, Alike
  <2> QED
    BY <2>1, BeamFacts, Numbers DEF BeamMode
<1>2. CASE ~Ready(x)
  <2> DEFINE u == Moved(x)
             c == x.count - SpanOf(x)
             q == Set(x, HBLANK, x.ly, c, x.mode3)
  <2>1. u \in Sound /\ u.count = c /\ u = Looked(q)
    BY <1>2, MovedSound, MovedIs
  <2>2. x \in LcdState /\ c \in Nat /\ x.ly \in 0..LastLine /\ x.mode3 \in Mode3Values
    BY <1>2, MoveArguments
  <2>3. q \in LcdState /\ q.mode = HBLANK /\ q.mode3 = x.mode3
    <3>1. HBLANK \in Modes
      BY DEF Modes
    <3> HIDE DEF c
    <3> QED
      BY <2>2, <3>1, SetFacts
  <2>4. u.mode = HBLANK /\ u.mode3 = x.mode3 /\ u \in LcdState
    BY <2>1, <2>3, LookedFacts
  <2>5. StartOf(x) + SpanOf(x) = StartOf(u) /\ StartOf(x) \in Nat /\ SpanOf(x) \in Nat
        /\ x.count \in Nat /\ StartOf(u) \in Nat
    BY <2>2, <2>4, StartFacts, StateFacts, SpanOfIs, ModesAre
  <2>6. CatchesUp(u, b)
    BY <1>2, CatchesMove
  <2> HIDE DEF u
  <2>7. StartOf(u) + u.count < LineCycles
    BY <2>1, <2>2, <2>5
  <2> QED
    BY <2>1, <2>4, <2>6, <2>7, EarlyInHBlank
<1> QED
  BY <1>1, <1>2

LEMMA EarlyInScan ==
  ASSUME NEW x \in Sound, NEW b \in Beams, CatchesUp(x, b), x.mode = SEARCH_OAM,
         x.count < LineCycles, scx \in ScrollValues
  PROVE  b.line # LastLine
<1>1. CASE Ready(x)
  <2>1. BeamMode(b) # VBLANK
    BY <1>1, CatchesReady, ModesAre DEF Matches, Alike
  <2> QED
    BY <2>1, BeamFacts, Numbers DEF BeamMode
<1>2. CASE ~Ready(x)
  <2> DEFINE u == Moved(x)
             c == x.count - SpanOf(x)
             q == Set(x, TRANSFER, x.ly, c, Mode3Cycles)
  <2>1. u \in Sound /\ u.count = c /\ u = Looked(q)
    BY <1>2, MovedSound, MovedIs
  <2>2. /\ x \in LcdState /\ c \in Nat /\ x.ly \in 0..LastLine
        /\ Mode3Cycles \in Mode3Values
    BY <1>2, MoveArguments
  <2>3. q \in LcdState /\ q.mode = TRANSFER
    <3>1. TRANSFER \in Modes
      BY DEF Modes
    <3> HIDE DEF c
    <3> QED
      BY <2>2, <3>1, SetFacts
  <2>4. u.mode = TRANSFER /\ u \in LcdState
    BY <2>1, <2>3, LookedFacts
  <2>5. SpanOf(x) = StartOf(u) /\ SpanOf(x) \in Nat /\ x.count \in Nat
    BY <2>2, <2>4, StartFacts, StateFacts, SpanOfIs, ModesAre
  <2>6. CatchesUp(u, b)
    BY <1>2, CatchesMove
  <2> HIDE DEF u
  <2>7. StartOf(u) + u.count < LineCycles
    BY <2>1, <2>2, <2>5
  <2> QED
    BY <2>1, <2>4, <2>6, <2>7, EarlyInTransfer
<1> QED
  BY <1>1, <1>2

\* LY goes to 0 on the last line, at the end of it at the latest.
Zeroed(s) == Looked(Set(s, VBLANK, 0, s.count, s.mode3))

LEMMA LookedTwice ==
  ASSUME NEW s \in LcdState, NEW m \in Modes, NEW l \in 0..LastLine, NEW c \in Nat,
         NEW d \in Nat, NEW t \in Mode3Values
  PROVE  Looked(Set(Looked(Set(s, m, l, d, t)), m, l, c, t)) = Looked(Set(s, m, l, c, t))
<1> DEFINE p == Set(s, m, l, d, t)
           q == Looked(p)
           r == Set(q, m, l, c, t)
           a == Looked(r)
           u == Set(s, m, l, c, t)
           w == Looked(u)
<1>1. /\ p \in LcdState /\ p.mode = m /\ p.ly = l /\ p.level = s.level /\ p.irq = s.irq
      /\ p.frame = s.frame
  BY SetFacts
<1>2. /\ u \in LcdState /\ u.mode = m /\ u.ly = l /\ u.level = s.level /\ u.irq = s.irq
      /\ u.frame = s.frame /\ u.count = c /\ u.mode3 = t
  BY SetFacts
<1> HIDE DEF p, u
<1>3. /\ q \in LcdState /\ q.level = High(m, l) /\ q.irq = Raised(s.irq, s.level, m, l)
      /\ q.frame = s.frame
  BY <1>1, LookedFacts
<1>4. /\ w \in LcdState /\ w.level = High(m, l) /\ w.irq = Raised(s.irq, s.level, m, l)
      /\ w.frame = s.frame /\ w.mode = m /\ w.ly = l /\ w.count = c /\ w.mode3 = t
  BY <1>2, LookedFacts
<1> HIDE DEF q, w
<1>5. /\ r \in LcdState /\ r.level = q.level /\ r.irq = q.irq
      /\ r.frame = s.frame /\ r.mode = m /\ r.ly = l /\ r.count = c /\ r.mode3 = t
  BY <1>3, SetFacts
<1> HIDE DEF r
<1>6. /\ a \in LcdState /\ a.level = High(m, l) /\ a.irq = Raised(r.irq, r.level, m, l)
      /\ a.frame = s.frame /\ a.mode = m /\ a.ly = l /\ a.count = c /\ a.mode3 = t
  BY <1>5, LookedFacts
<1> HIDE DEF a
<1>7. Raised(r.irq, r.level, m, l) = r.irq
  <2>1. r.level = High(m, l)
    BY <1>3, <1>5
  <2> QED
    BY <2>1 DEF Raised
<1>8. a = w
  BY <1>3, <1>4, <1>5, <1>6, <1>7, SameState
<1> QED
  BY <1>8 DEF a, r, q, p, w, u

LEMMA ZeroedCatchesUp ==
  ASSUME NEW s, NEW b \in Beams, CatchesUp(s, b), s.mode = VBLANK, s.ly = LastLine,
         s.count < 2 * LineCycles, scx \in ScrollValues
  PROVE  CatchesUp(Zeroed(s), IF b.line = LastLine THEN Settle([b EXCEPT !.seen = 0]) ELSE b)
<1> DEFINE p == Set(s, VBLANK, 0, s.count, s.mode3)
           z == Zeroed(s)
<1>1. /\ s \in Sound /\ s \in LcdState /\ s.count \in Nat /\ s.mode3 \in Mode3Values
      /\ VBLANK \in Modes /\ SEARCH_OAM \in Modes /\ 0 \in 0..LastLine /\ LastLine # 0
      /\ LastLine >= Height
  BY CatchesReady, SoundFacts, StateFacts, ModesAre, Numbers
<1>2. /\ p \in LcdState /\ p.mode = VBLANK /\ p.ly = 0 /\ p.count = s.count /\ p.mode3 = s.mode3
      /\ p.level = s.level /\ p.irq = s.irq /\ p.frame = s.frame
  BY <1>1, SetFacts
<1>3. Placed(VBLANK, 0, s.mode3)
  BY ModesAre DEF Placed
<1>4. /\ z \in Sound /\ z \in LcdState /\ z.mode = VBLANK /\ z.ly = 0 /\ z.count = s.count
      /\ z.mode3 = s.mode3
  BY <1>1, <1>3, LookedSet DEF Zeroed
<1>5. Ready(z) <=> Ready(s)
  BY <1>1, <1>4, SpanOfIs DEF Ready
<1>6. CASE Ready(s)
  <2> DEFINE c == SawLine(b, 0)
  <2>1. Matches(s, b)
    BY <1>6, CatchesReady
  <2>2. /\ s.mode = BeamMode(b) /\ s.ly = b.seen /\ s.level = b.level /\ s.irq = b.due
        /\ s.frame = b.frame /\ StartOf(s) + s.count = b.dot
        /\ s.ly = b.line \/ (s.ly = 0 /\ b.line = LastLine)
    BY <2>1 DEF Matches, Alike
  <2>3. b.line = LastLine
    BY <1>1, <2>2
  <2>4. /\ c \in Beams /\ c.line = LastLine /\ c.dot = b.dot /\ c.seen = 0 /\ c.level = b.level
        /\ c.due = b.due /\ c.frame = b.frame
    BY <1>1, <2>3, SawTypes
  <2>5. BeamMode(c) = VBLANK
    BY <1>1, <2>4 DEF BeamMode
  <2>6. StartOf(p) = StartOf(s)
    BY <1>2 DEF StartOf
  <2>7. VBLANK \notin {TRANSFER, HBLANK}
    BY ModesAre
  <2> HIDE DEF p, c
  <2>8. Alike(p, c)
    BY <1>2, <2>2, <2>4, <2>5 DEF Alike
  <2>9. Matches(p, c)
    BY <1>2, <2>2, <2>4, <2>6, <2>7, <2>8 DEF Matches
  <2>10. Matches(z, Settle(c))
    BY <1>2, <2>4, <2>9, MatchesLooked DEF Zeroed, p
  <2>11. CatchesUp(z, Settle(c))
    BY <1>4, <1>5, <1>6, <2>10, CatchesNow
  <2> QED
    BY <2>3, <2>11 DEF c, SawLine
<1>7. CASE ~Ready(s)
  <2> DEFINE c == s.count - SpanOf(s)
             t == s.mode3
             u == Moved(s)
             w == Looked(Set(s, VBLANK, 0, c, t))
  <2>1. c \in Nat /\ Placed(SEARCH_OAM, 0, t)
    BY <1>1, <1>7, MoveArguments
  <2>2. SpanOf(s) = LineCycles /\ SpanOf(z) = LineCycles
    BY <1>1, <1>4, SpanOfIs
  <2>3. u = Looked(Set(w, SEARCH_OAM, 0, c, t))
    BY <1>1, MovedIs
  <2>4. z.count - SpanOf(z) = c
    BY <1>4, <2>2
  <2> DEFINE v == Looked(Set(z, VBLANK, 0, c, t))
  <2>5. Moved(z) = Looked(Set(v, SEARCH_OAM, 0, c, t))
    BY <1>1, <1>4, <2>4, MovedIs
  <2>6. v = w
    <3>1. z = Looked(Set(s, VBLANK, 0, s.count, t))
      BY DEF Zeroed
    <3> HIDE DEF z, c, t
    <3>2. t \in Mode3Values /\ s.count \in Nat
      BY <1>1 DEF t
    <3> QED
      BY <1>1, <2>1, <3>1, <3>2, LookedTwice
  <2>7. Moved(z) = u
    BY <2>3, <2>5, <2>6
  <2>8. CatchesUp(u, b)
    BY <1>7, CatchesMove
  <2>9. CatchesUp(z, b)
    BY <1>4, <1>5, <1>7, <2>7, <2>8, CatchesBack
  <2>10. u \in Sound /\ u.mode = SEARCH_OAM /\ u.count < LineCycles
    <3>1. w \in LcdState
      BY <1>1, <2>1, SetFacts, LookedFacts
    <3>2. t \in Mode3Values
      BY <1>1
    <3>3. c < LineCycles
      BY <1>1, <2>2, Numbers
    <3> HIDE DEF w, u, c, t
    <3>4. u \in Sound /\ u.mode = SEARCH_OAM /\ u.count = c
      BY <1>1, <2>1, <2>3, <3>1, <3>2, LookedSet
    <3> QED
      BY <3>3, <3>4
  <2> HIDE DEF u, z
  <2>11. b.line # LastLine
    BY <2>8, <2>10, EarlyInScan
  <2> QED
    BY <2>9, <2>11 DEF z
<1> QED
  BY <1>6, <1>7

-----------------------------------------------------------------------------
(* The steps.                                                               *)

\* What replays depend on.
LEMMA SameReplay ==
  ASSUME UNCHANGED <<lyc, enable, scx>>, NEW s, NEW b
  PROVE  CatchesUp(s, b)' <=> CatchesUp(s, b)
<1>1. lyc' = lyc /\ enable' = enable /\ scx' = scx
  OBVIOUS
<1>2. \A m, l : High(m, l)' = High(m, l)
  BY <1>1 DEF High
<1>3. \A i, v, m, l : Raised(i, v, m, l)' = Raised(i, v, m, l)
  BY <1>2 DEF Raised
<1>4. \A x : Looked(x)' = Looked(x)
  BY <1>2, <1>3 DEF Looked
<1>5. Mode3Cycles' = Mode3Cycles
  BY <1>1 DEF Mode3Cycles
<1>6. \A x : Moved(x)' = Moved(x)
  BY <1>4, <1>5 DEF Moved
<1>7. Sound' = Sound
  BY <1>2 DEF Sound
<1>8. \A f, n, x : Replay(f, n, x)' <=> Replay(f, n, x)
  BY <1>6, <1>7 DEF Replay
<1> QED
  BY <1>8 DEF CatchesUp

LEMMA SameLooked ==
  ASSUME UNCHANGED <<lyc, enable>>
  PROVE  \A x : Looked(x)' = Looked(x)
<1>1. lyc' = lyc /\ enable' = enable
  OBVIOUS
<1>2. \A m, l : High(m, l)' = High(m, l)
  BY <1>1 DEF High
<1>3. \A i, v, m, l : Raised(i, v, m, l)' = Raised(i, v, m, l)
  BY <1>2 DEF Raised
<1> QED
  BY <1>2, <1>3 DEF Looked

LEMMA StateOfFacts ==
  ASSUME NEW m \in Modes, NEW l \in 0..LastLine, NEW c \in Nat, NEW t \in Mode3Values,
         NEW v \in BOOLEAN, NEW i \in SUBSET Interrupts, NEW f \in 0..1
  PROVE  /\ StateOf(m, l, c, t, v, i, f) \in LcdState
         /\ StateOf(m, l, c, t, v, i, f).mode = m /\ StateOf(m, l, c, t, v, i, f).ly = l
         /\ StateOf(m, l, c, t, v, i, f).count = c /\ StateOf(m, l, c, t, v, i, f).mode3 = t
         /\ StateOf(m, l, c, t, v, i, f).level = v /\ StateOf(m, l, c, t, v, i, f).irq = i
         /\ StateOf(m, l, c, t, v, i, f).frame = f
  BY DEF StateOf, LcdState, Mode3Values

LEMMA NowOn ==
  ASSUME TypeOK, lastLcdc, ly <= LastLine
  PROVE  /\ Now = StateOf(mode, ly, count + since, mode3, statLine, irq, frameSeq)
         /\ Now \in LcdState
         /\ Now.mode = mode /\ Now.ly = ly /\ Now.count = count + since /\ Now.mode3 = mode3
         /\ Now.level = statLine /\ Now.irq = irq /\ Now.frame = frameSeq
<1> DEFINE c == count + since
<1>1. /\ mode \in Modes /\ ly \in 0..LastLine /\ c \in Nat /\ mode3 \in Mode3Values
      /\ statLine \in BOOLEAN /\ irq \in SUBSET Interrupts /\ frameSeq \in 0..1
  BY Numbers DEF TypeOK, Mode3Values
<1>2. Now = StateOf(mode, ly, c, mode3, statLine, irq, frameSeq)
  BY DEF Now
<1> HIDE DEF c
<1>3. /\ Now \in LcdState
      /\ Now.mode = mode /\ Now.ly = ly /\ Now.count = c /\ Now.mode3 = mode3
      /\ Now.level = statLine /\ Now.irq = irq /\ Now.frame = frameSeq
  BY <1>1, <1>2, StateOfFacts
<1> QED
  BY <1>2, <1>3 DEF c

LEMMA FirstLineFacts ==
  ASSUME TypeOK, NEW c \in Nat
  PROVE  /\ FirstLine(c) \in LcdState
         /\ FirstLine(c).mode = SEARCH_OAM /\ FirstLine(c).ly = 0
         /\ FirstLine(c).count = OnCount + c /\ FirstLine(c).mode3 = mode3
         /\ FirstLine(c).level = FALSE /\ FirstLine(c).irq = irq /\ FirstLine(c).frame = frameSeq
<1> DEFINE n == OnCount + c
<1>1. /\ SEARCH_OAM \in Modes /\ 0 \in 0..LastLine /\ n \in Nat /\ mode3 \in Mode3Values
      /\ FALSE \in BOOLEAN /\ irq \in SUBSET Interrupts /\ frameSeq \in 0..1
  BY Numbers DEF TypeOK, Mode3Values, Modes
<1>2. FirstLine(c) = StateOf(SEARCH_OAM, 0, n, mode3, FALSE, irq, frameSeq)
  BY DEF FirstLine
<1> HIDE DEF n
<1>3. /\ FirstLine(c) \in LcdState
      /\ FirstLine(c).mode = SEARCH_OAM /\ FirstLine(c).ly = 0
      /\ FirstLine(c).count = n /\ FirstLine(c).mode3 = mode3
      /\ FirstLine(c).irq = irq /\ FirstLine(c).frame = frameSeq
  BY <1>1, <1>2 DEF StateOf, LcdState, Mode3Values
<1>4. FirstLine(c).level = FALSE
  BY <1>2 DEF StateOf
<1> QED
  BY <1>3, <1>4 DEF n

LEMMA FirstLineLater ==
  ASSUME TypeOK, NEW c \in Nat
  PROVE  FirstLine(c + 1) = Later(FirstLine(c))
<1> DEFINE d == c + 1
           x == FirstLine(c)
           y == FirstLine(d)
           z == Later(x)
<1>1. d \in Nat
  OBVIOUS
<1>2. /\ y \in LcdState /\ y.mode = SEARCH_OAM /\ y.ly = 0 /\ y.count = OnCount + d
      /\ y.mode3 = mode3 /\ y.level = FALSE /\ y.irq = irq /\ y.frame = frameSeq
  <2> HIDE DEF d
  <2> QED
    BY <1>1, FirstLineFacts
<1>3. /\ x \in LcdState /\ x.mode = SEARCH_OAM /\ x.ly = 0 /\ x.count = OnCount + c
      /\ x.mode3 = mode3 /\ x.level = FALSE /\ x.irq = irq /\ x.frame = frameSeq
  BY FirstLineFacts
<1> HIDE DEF x, y
<1>4. /\ z \in LcdState /\ z.mode = x.mode /\ z.ly = x.ly /\ z.count = x.count + 1
      /\ z.mode3 = x.mode3 /\ z.level = x.level /\ z.irq = x.irq /\ z.frame = x.frame
  BY <1>3, LaterFacts
<1> HIDE DEF z
<1>5. z.count = y.count
  BY <1>2, <1>3, <1>4, Numbers
<1>6. y = z
  BY <1>2, <1>3, <1>4, <1>5, SameState
<1> QED
  BY <1>6 DEF x, y, z

LEMMA NowLater ==
  ASSUME TypeOK, lastLcdc, ly <= LastLine
  PROVE  Later(Now) = StateOf(mode, ly, count + (since + 1), mode3, statLine, irq, frameSeq)
<1> DEFINE x == Now
           c == count + since
           d == count + (since + 1)
           y == StateOf(mode, ly, d, mode3, statLine, irq, frameSeq)
           z == Later(x)
<1>1. /\ x \in LcdState /\ x.mode = mode /\ x.ly = ly /\ x.count = c /\ x.mode3 = mode3
      /\ x.level = statLine /\ x.irq = irq /\ x.frame = frameSeq
  BY NowOn
<1>2. /\ mode \in Modes /\ ly \in 0..LastLine /\ d \in Nat /\ mode3 \in Mode3Values
      /\ statLine \in BOOLEAN /\ irq \in SUBSET Interrupts /\ frameSeq \in 0..1 /\ d = c + 1
  BY Numbers DEF TypeOK, Mode3Values
<1> HIDE DEF x, c, d
<1>3. /\ y \in LcdState /\ y.mode = mode /\ y.ly = ly /\ y.count = d /\ y.mode3 = mode3
      /\ y.level = statLine /\ y.irq = irq /\ y.frame = frameSeq
  BY <1>2, StateOfFacts
<1>4. /\ z \in LcdState /\ z.mode = x.mode /\ z.ly = x.ly /\ z.count = x.count + 1
      /\ z.mode3 = x.mode3 /\ z.level = x.level /\ z.irq = x.irq /\ z.frame = x.frame
  BY <1>1, LaterFacts
<1> HIDE DEF y, z
<1>5. y = z
  BY <1>1, <1>2, <1>3, <1>4, SameState
<1> QED
  BY <1>5 DEF x, y, z, d

LEMMA CycleWatched ==
  ASSUME Base, BeamOK, Cycle
  PROVE  Watched'
<1>1. /\ TypeOK /\ ModeOK /\ pc = "run" /\ PaceInRun /\ since \in Nat /\ count \in Nat
      /\ CycleMod \in Nat \ {0} /\ scx \in ScrollValues /\ beam \in Beams
  BY BeamsIs, Numbers DEF Base, Cycle, Pace, TypeOK
<1>2. since' = since + 1
  <2>1. since + 1 < CycleMod
    BY <1>1, DeadlineBounds
  <2> QED
    BY <1>1, <2>1, DivisionSmall DEF Cycle
<1>3. /\ lcdc' = lcdc /\ lastLcdc' = lastLcdc /\ scx' = scx /\ lyc' = lyc /\ enable' = enable
      /\ mode' = mode /\ ly' = ly /\ count' = count /\ mode3' = mode3 /\ statLine' = statLine
      /\ irq' = irq /\ frameSeq' = frameSeq
  BY DEF Cycle, lineVars, drawVars
<1>4. CASE lcdc
  <2>1. beam' = NextDot(beam) /\ CatchesUp(Now, beam)
    BY <1>4 DEF Cycle, BeamOK, Watched
  <2>2. Now' = Later(Now)
    <3>1. CASE lastLcdc
      <4>1. ly <= LastLine
        BY <1>4, <3>1 DEF BeamOK, Shown, Lit
      <4>2. Now' = StateOf(mode, ly, count + (since + 1), mode3, statLine, irq, frameSeq)
        BY <1>2, <1>3, <3>1 DEF Now, StateOf
      <4> QED
        BY <1>1, <3>1, <4>1, <4>2, NowLater
    <3>2. CASE ~lastLcdc
      <4>1. Now = Looked(FirstLine(since))
        BY <3>2 DEF Now
      <4>2. Now' = Looked(FirstLine(since + 1))
        <5>1. FirstLine(since)' = FirstLine(since + 1)
          BY <1>2, <1>3 DEF FirstLine, StateOf
        <5>2. Now' = Looked(FirstLine(since))'
          BY <1>3, <3>2 DEF Now
        <5>3. \A x : Looked(x)' = Looked(x)
          BY <1>3, SameLooked
        <5> QED
          BY <5>1, <5>2, <5>3
      <4>3. FirstLine(since) \in LcdState
        BY <1>1, FirstLineFacts
      <4> QED
        BY <1>1, <4>1, <4>2, <4>3, FirstLineLater, LookedLater
    <3> QED
      BY <3>1, <3>2
  <2>3. CatchesUp(Later(Now), NextDot(beam))
    BY <1>1, <2>1, CatchesLater
  <2>4. \A s, b : CatchesUp(s, b)' <=> CatchesUp(s, b)
    BY <1>3, SameReplay
  <2>5. CatchesUp(Now, beam)'
    BY <2>1, <2>2, <2>3, <2>4
  <2> QED
    BY <1>3, <1>4, <2>5 DEF Watched
<1>5. CASE ~lcdc
  BY <1>3, <1>5 DEF Cycle, BeamOK, Watched, Dark
<1> QED
  BY <1>1, <1>4, <1>5 DEF TypeOK

\* A setting and a look at the STAT line, register by register.
LEMMA LookedSetIs ==
  ASSUME NEW s \in LcdState, NEW m \in Modes, NEW l \in 0..LastLine, NEW c \in Nat,
         NEW t \in Mode3Values
  PROVE  Looked(Set(s, m, l, c, t)) =
           StateOf(m, l, c, t, High(m, l), Raised(s.irq, s.level, m, l), s.frame)
<1> DEFINE q == Set(s, m, l, c, t)
           r == Looked(q)
           v == High(m, l)
           i == Raised(s.irq, s.level, m, l)
           y == StateOf(m, l, c, t, v, i, s.frame)
<1>1. /\ q \in LcdState /\ q.mode = m /\ q.ly = l /\ q.count = c /\ q.mode3 = t
      /\ q.level = s.level /\ q.irq = s.irq /\ q.frame = s.frame
  BY SetFacts
<1> HIDE DEF q
<1>2. /\ r \in LcdState /\ r.mode = m /\ r.ly = l /\ r.count = c /\ r.mode3 = t
      /\ r.level = v /\ r.irq = i /\ r.frame = s.frame
  BY <1>1, LookedFacts
<1>3. v \in BOOLEAN /\ i \in SUBSET Interrupts /\ s.frame \in 0..1
  <2>1. v \in BOOLEAN
    BY DEF StatLevel, High
  <2>2. i \in SUBSET Interrupts
    BY StateFacts DEF Raised, Interrupts
  <2> QED
    BY <2>1, <2>2, StateFacts
<1> HIDE DEF r, v, i
<1>4. /\ y \in LcdState /\ y.mode = m /\ y.ly = l /\ y.count = c /\ y.mode3 = t
      /\ y.level = v /\ y.irq = i /\ y.frame = s.frame
  BY <1>3, StateOfFacts
<1> HIDE DEF y
<1>5. r = y
  BY <1>2, <1>4, SameState
<1> QED
  BY <1>5 DEF r, q, y, v, i

\* The first line of a controller just switched on.
LEMMA FirstLineLooked ==
  ASSUME TypeOK, NEW c \in Nat
  PROVE  Looked(FirstLine(c)) =
           StateOf(SEARCH_OAM, 0, OnCount + c, mode3, High(SEARCH_OAM, 0),
                   Raised(irq, FALSE, SEARCH_OAM, 0), frameSeq)
<1> DEFINE x == FirstLine(c)
           n == OnCount + c
           q == Set(x, SEARCH_OAM, 0, n, mode3)
<1>1. /\ x \in LcdState /\ x.mode = SEARCH_OAM /\ x.ly = 0 /\ x.count = n /\ x.mode3 = mode3
      /\ x.level = FALSE /\ x.irq = irq /\ x.frame = frameSeq
  BY FirstLineFacts
<1>2. SEARCH_OAM \in Modes /\ 0 \in 0..LastLine /\ n \in Nat /\ mode3 \in Mode3Values
  BY Numbers DEF TypeOK, Mode3Values, Modes
<1> HIDE DEF x, n
<1>3. /\ q \in LcdState /\ q.mode = SEARCH_OAM /\ q.ly = 0 /\ q.count = n /\ q.mode3 = mode3
      /\ q.level = x.level /\ q.irq = x.irq /\ q.frame = x.frame
  BY <1>1, <1>2, SetFacts
<1>4. q = x
  <2> HIDE DEF q
  <2> QED
    BY <1>1, <1>3, SameState
<1>5. Looked(q) = StateOf(SEARCH_OAM, 0, n, mode3, High(SEARCH_OAM, 0),
                          Raised(x.irq, x.level, SEARCH_OAM, 0), x.frame)
  BY <1>1, <1>2, LookedSetIs
<1> HIDE DEF q
<1> QED
  BY <1>1, <1>4, <1>5 DEF x, n

LEMMA UpdateStatIs ==
  ASSUME NEW m, NEW l, UpdateStat(m, l = lyc)
  PROVE  statLine' = High(m, l) /\ irq' = Raised(irq, statLine, m, l)
<1>1. statLine' = High(m, l)
  BY DEF UpdateStat, High
<1>2. irq' = Raised(irq, statLine, m, l)
  BY DEF UpdateStat, High, Raised
<1> QED
  BY <1>1, <1>2

LEMMA AdvanceWatched ==
  ASSUME Base, BeamOK, pc = "run", Advance, MaxGap <= LineCycles
  PROVE  (Watched /\ Shown /\ LastLineOK)'
<1>1. /\ TypeOK /\ ModeOK /\ PaceInRun /\ since \in Nat /\ count \in Nat /\ lag \in Nat
      /\ lag <= MaxGap /\ MaxGap \in Nat /\ LineCycles \in Nat
      /\ scx \in ScrollValues /\ beam \in Beams
  BY BeamsIs, Numbers DEF Base, Pace, TypeOK
<1>2. /\ pc' = "drain" /\ since' = 0 /\ lastLcdc' = lcdc /\ lcdc' = lcdc /\ scx' = scx
      /\ lyc' = lyc /\ enable' = enable /\ mode3' = mode3 /\ frameSeq' = frameSeq
  BY DEF Advance, drawVars
<1>3. \A s, b : CatchesUp(s, b)' <=> CatchesUp(s, b)
  BY <1>2, SameReplay
<1>4. CASE AdvanceOff
  <2>1. ~lcdc /\ beam' = beam /\ irq' = irq
    BY <1>4 DEF AdvanceOff
  <2>2. Dark(beam)'
    BY <1>2, <2>1 DEF BeamOK, Watched, Dark
  <2> QED
    BY <1>2, <2>1, <2>2 DEF Watched, Shown, LastLineOK, Lit
<1>5. CASE AdvanceOnEdge
  <2>1. (OnCount + since) % CountMod = OnCount + since
    <3>1. lcdc # lastLcdc
      BY <1>5 DEF AdvanceOnEdge
    <3>2. OnCount + since \in Nat /\ OnCount + since < 2 * LineCycles
      BY <1>1, <3>1, Numbers DEF PaceInRun
    <3>3. OnCount + since < CountMod
      BY <3>2, CountNumbers, Numbers
    <3> QED
      BY <3>2, <3>3, CountKept
  <2>2. /\ lcdc /\ ~lastLcdc /\ ly' = 0 /\ mode' = SEARCH_OAM /\ count' = OnCount + since
        /\ statMode' = SEARCH_OAM /\ coinc' = (0 = lyc) /\ beam' = beam
    BY <1>5, <2>1 DEF AdvanceOnEdge
  <2>3. statLine' = High(SEARCH_OAM, 0)
    BY <1>5 DEF AdvanceOnEdge, High
  <2>4. irq' = Raised(irq, FALSE, SEARCH_OAM, 0)
    BY <1>5, <2>3 DEF AdvanceOnEdge, Raised
  <2>5. Now = StateOf(SEARCH_OAM, 0, OnCount + since, mode3, High(SEARCH_OAM, 0),
                      Raised(irq, FALSE, SEARCH_OAM, 0), frameSeq)
    BY <1>1, <2>2, FirstLineLooked DEF Now
  <2>6. Now' = StateOf(mode', ly', count' + since', mode3', statLine', irq', frameSeq')
    BY <1>2, <2>2 DEF Now, StateOf
  <2>7. count' + since' = OnCount + since
    BY <1>1, <1>2, <2>2, Numbers
  <2>8. Now' = Now
    BY <1>2, <2>2, <2>3, <2>4, <2>5, <2>6, <2>7
  <2>9. CatchesUp(Now, beam)'
    BY <1>3, <2>2, <2>8 DEF BeamOK, Watched
  <2>10. Watched'
    BY <1>2, <2>2, <2>9 DEF Watched
  <2>11. Shown'
    <3>1. coinc' <=> ly' = lyc'
      BY <1>2, <2>2
    <3> QED
      BY <1>2, <2>2, <3>1, Numbers DEF Shown
  <2>12. LastLineOK'
    BY <2>2, ModesAre DEF LastLineOK
  <2> QED
    BY <2>10, <2>11, <2>12
<1>6. CASE AdvanceOn
  <2>1. (count + since) % CountMod = count + since
    <3>1. lcdc = lastLcdc /\ lastLcdc
      BY <1>6 DEF AdvanceOn
    <3>2. Deadline = Span - count /\ count < Span
      BY <3>1 DEF Deadline, PaceInRun, Base, Pace
    <3>3. Span \in Nat /\ Span <= LineCycles
      BY SpanBounds, Numbers DEF Base
    <3>4. count + since \in Nat /\ count + since < 2 * LineCycles
      BY <1>1, <3>1, <3>2, <3>3 DEF PaceInRun
    <3>5. count + since < CountMod
      BY <3>4, CountNumbers, Numbers
    <3> QED
      BY <3>4, <3>5, CountKept
  <2>2. lcdc /\ lastLcdc /\ count' = count + since /\ mode' = mode /\ statMode' = statMode
    BY <1>6, <2>1 DEF AdvanceOn
  <2>3. CatchesUp(Now, beam) /\ Shown /\ Lit
    BY <2>2 DEF BeamOK, Watched, Lit
  <2>4. statMode = mode /\ (coinc <=> ly = lyc) /\ ly <= LastLine
    BY <2>3 DEF Shown
  <2>5. Now' = StateOf(mode', ly', count' + since', mode3', statLine', irq', frameSeq')
    BY <1>2, <2>2 DEF Now, StateOf
  <2>6. count' + since' = count + since
    BY <1>1, <1>2, <2>2
  <2>7. /\ Now = StateOf(mode, ly, count + since, mode3, statLine, irq, frameSeq)
        /\ Now \in LcdState
        /\ Now.mode = mode /\ Now.ly = ly /\ Now.count = count + since /\ Now.mode3 = mode3
        /\ Now.level = statLine /\ Now.irq = irq /\ Now.frame = frameSeq
    BY <1>1, <2>2, <2>4, NowOn
  <2>8. CASE mode = VBLANK /\ ly = LastLine
    <3>1. /\ ly' = 0 /\ coinc' = (0 = lyc) /\ UpdateStat(VBLANK, 0 = lyc)
          /\ beam' = IF beam.line = LastLine THEN Settle([beam EXCEPT !.seen = 0]) ELSE beam
      BY <1>6, <2>8 DEF AdvanceOn
    <3>2. statLine' = High(VBLANK, 0) /\ irq' = Raised(irq, statLine, VBLANK, 0)
      BY <3>1, UpdateStatIs
    <3>3. Zeroed(Now) = StateOf(VBLANK, 0, count + since, mode3, High(VBLANK, 0),
                                Raised(irq, statLine, VBLANK, 0), frameSeq)
      <4> DEFINE x == Now
                 n == count + since
      <4>1. /\ VBLANK \in Modes /\ 0 \in 0..LastLine /\ n \in Nat /\ mode3 \in Mode3Values
        BY <1>1, Numbers DEF TypeOK, Mode3Values, Modes
      <4>2. x \in LcdState /\ x.count = n /\ x.mode3 = mode3 /\ x.irq = irq /\ x.level = statLine
            /\ x.frame = frameSeq
        BY <2>7
      <4> HIDE DEF x, n
      <4>3. Looked(Set(x, VBLANK, 0, n, mode3)) =
              StateOf(VBLANK, 0, n, mode3, High(VBLANK, 0),
                      Raised(x.irq, x.level, VBLANK, 0), x.frame)
        BY <4>1, <4>2, LookedSetIs
      <4>4. Zeroed(x) = StateOf(VBLANK, 0, n, mode3, High(VBLANK, 0),
                                Raised(irq, statLine, VBLANK, 0), frameSeq)
        BY <4>2, <4>3 DEF Zeroed
      <4> QED
        BY <4>4 DEF x, n
    <3>4. Now' = Zeroed(Now)
      BY <1>2, <2>2, <2>5, <2>6, <2>8, <3>1, <3>2, <3>3
    <3>5. count + since < 2 * LineCycles
      <4>1. Span = LineCycles /\ count < Span
        BY <1>1, <2>2, <2>8, SpanBounds DEF PaceInRun
      <4>2. since = lag \/ since - lag < Span - count
        BY <1>1, <2>2 DEF PaceInRun, Deadline
      <4> QED
        BY <1>1, <4>1, <4>2
    <3>6. CatchesUp(Zeroed(Now), beam')
      BY <1>1, <2>3, <2>7, <2>8, <3>1, <3>5, ZeroedCatchesUp
    <3>7. CatchesUp(Now, beam)'
      BY <1>3, <3>4, <3>6
    <3>8. Watched'
      BY <1>2, <2>2, <3>7 DEF Watched
    <3>9. Shown'
      <4>1. coinc' <=> ly' = lyc'
        BY <1>2, <3>1
      <4> QED
        BY <2>2, <2>4, <3>1, <4>1, Numbers DEF Shown
    <3>10. LastLineOK'
      BY <3>1, Numbers DEF LastLineOK
    <3> QED
      BY <3>8, <3>9, <3>10
  <2>9. CASE ~(mode = VBLANK /\ ly = LastLine)
    <3>1. ly' = ly /\ (coinc' <=> coinc) /\ statLine' = statLine /\ irq' = irq /\ beam' = beam
      BY <1>6, <2>9 DEF AdvanceOn
    <3>2. Now' = Now
      BY <1>2, <2>2, <2>5, <2>6, <2>7, <3>1
    <3>3. CatchesUp(Now, beam)'
      BY <1>3, <2>3, <3>1, <3>2
    <3>4. Watched'
      BY <1>2, <2>2, <3>3 DEF Watched
    <3>5. Shown'
      BY <1>2, <2>2, <2>4, <3>1 DEF Shown
    <3>6. LastLineOK'
      BY <2>2, <2>9, <3>1 DEF LastLineOK
    <3> QED
      BY <3>4, <3>5, <3>6
  <2> QED
    BY <2>8, <2>9
<1> QED
  BY <1>4, <1>5, <1>6 DEF Advance

LEMMA UpdateStatShown ==
  ASSUME NEW m, coinc \in BOOLEAN, coinc <=> ly = lyc, UpdateStat(m, coinc)
  PROVE  statLine' = High(m, ly) /\ irq' = Raised(irq, statLine, m, ly)
<1>1. StatLevel(m, coinc, enable) <=> StatLevel(m, ly = lyc, enable)
  BY DEF StatLevel
<1>2. statLine' = High(m, ly)
  BY DEF UpdateStat, High, StatLevel
<1>3. irq' = IF StatLevel(m, coinc, enable) /\ ~statLine THEN irq \union {"lcdc"} ELSE irq
  BY DEF UpdateStat
<1>4. irq' = Raised(irq, statLine, m, ly)
  <2>1. CASE StatLevel(m, coinc, enable)
    BY <1>1, <1>3, <2>1 DEF Raised, High
  <2>2. CASE ~StatLevel(m, coinc, enable)
    BY <1>1, <1>3, <2>2 DEF Raised, High
  <2> QED
    BY <2>1, <2>2
<1> QED
  BY <1>2, <1>4

\* The controller in the loop of ppu_advance, when a transition is due.
LEMMA DrainNow ==
  ASSUME Base, BeamOK, NEW m \in Modes, Draining(m)
  PROVE  /\ Now \in Sound /\ Now \in LcdState /\ ~Ready(Now)
         /\ CatchesUp(Moved(Now), beam)
         /\ Now.mode = mode /\ Now.ly = ly /\ Now.mode3 = mode3
         /\ Now.level = statLine /\ Now.irq = irq /\ Now.frame = frameSeq
         /\ Now.count - SpanOf(Now) = count - Span
         /\ count - Span \in Nat /\ since = 0
         /\ ly \in 0..LastLine /\ statMode = mode /\ (coinc <=> ly = lyc) /\ coinc \in BOOLEAN
         /\ mode3 \in Mode3Values /\ scx \in ScrollValues
<1>1. /\ TypeOK /\ ModeOK /\ since = 0 /\ lastLcdc /\ lcdc /\ mode = m /\ count >= Span
      /\ count \in Nat
  BY DrainingFacts DEF Draining, Base, Pace, PaceInDrain, TypeOK
<1>2. /\ CatchesUp(Now, beam) /\ statMode = mode /\ (coinc <=> ly = lyc) /\ ly <= LastLine
  BY <1>1 DEF BeamOK, Watched, Shown, Lit
<1>3. /\ Now \in LcdState
      /\ Now.mode = mode /\ Now.ly = ly /\ Now.count = count + since /\ Now.mode3 = mode3
      /\ Now.level = statLine /\ Now.irq = irq /\ Now.frame = frameSeq
  BY <1>1, <1>2, NowOn
<1>4. Span \in Nat
  BY <1>1, SpanBounds
<1>5. SpanOf(Now) = Span
  BY <1>3 DEF SpanOf, Span
<1>6. Now.count = count /\ count - Span \in Nat
  BY <1>1, <1>3, <1>4
<1>7. ~Ready(Now)
  BY <1>1, <1>4, <1>5, <1>6 DEF Ready
<1>8. CatchesUp(Moved(Now), beam) /\ Now \in Sound
  BY <1>2, <1>7, CatchesMove, CatchesReady
<1>9. ly \in 0..LastLine /\ coinc \in BOOLEAN /\ mode3 \in Mode3Values /\ scx \in ScrollValues
  BY <1>1, <1>2, Numbers DEF TypeOK, Mode3Values
<1> QED
  BY <1>1, <1>2, <1>3, <1>5, <1>6, <1>7, <1>8, <1>9

\* A transition of the loop is the next one of the replay.
LEMMA DrainWatched ==
  ASSUME Base, BeamOK, NEW m \in Modes, Draining(m), count' \in Nat,
         UNCHANGED <<lcdc, lastLcdc, since, lyc, enable, scx, beam>>,
         Moved(Now) = StateOf(mode', ly', count', mode3', statLine', irq', frameSeq')
  PROVE  Watched'
<1>1. CatchesUp(Moved(Now), beam) /\ since = 0 /\ lcdc /\ lastLcdc
  BY DrainNow, DrainingFacts
<1>2. Now' = StateOf(mode', ly', count' + since', mode3', statLine', irq', frameSeq')
  BY <1>1 DEF Now, StateOf
<1>3. count' + since' = count'
  <2>1. since' = 0
    BY <1>1
  <2>2. \A n \in Nat : n + 0 = n
    OBVIOUS
  <2>3. count' + 0 = count'
    BY <2>2
  <2> QED
    BY <2>1, <2>3
<1>4. Now' = Moved(Now)
  BY <1>2, <1>3
<1>5. \A s, b : CatchesUp(s, b)' <=> CatchesUp(s, b)
  BY SameReplay
<1>6. CatchesUp(Now, beam)'
  BY <1>1, <1>4, <1>5
<1> QED
  BY <1>1, <1>6 DEF Watched

LEMMA ScanToTransferWatched ==
  ASSUME Base, BeamOK, ScanToTransfer
  PROVE  (Watched /\ Shown /\ LastLineOK)'
<1> DEFINE c == count - OamCycles
           x == Now
<1>1. Draining(SEARCH_OAM) /\ SEARCH_OAM \in Modes /\ TRANSFER \in Modes /\ mode = SEARCH_OAM
  BY ModesAre DEF ScanToTransfer, Draining
<1>2. /\ x \in Sound /\ x \in LcdState /\ x.mode = mode /\ x.ly = ly
      /\ x.level = statLine /\ x.irq = irq /\ x.frame = frameSeq
      /\ ly \in 0..LastLine /\ (coinc <=> ly = lyc) /\ coinc \in BOOLEAN /\ scx \in ScrollValues
      /\ statMode = mode
  BY <1>1, DrainNow
<1>3. Span = OamCycles
  BY <1>1, ModesAre DEF Span
<1>4. x.count - SpanOf(x) = c /\ c \in Nat
  BY <1>1, <1>3, DrainNow
<1>5. /\ count' = c /\ mode' = TRANSFER /\ statMode' = TRANSFER /\ mode3' = Mode3Cycles
      /\ ly' = ly /\ (coinc' <=> coinc) /\ frameSeq' = frameSeq /\ lyc' = lyc
      /\ UpdateStat(TRANSFER, coinc)
      /\ UNCHANGED <<lcdc, lastLcdc, since, lyc, enable, scx, beam>>
  BY DEF ScanToTransfer, cpuVars, edgeVars, drawVars
<1>6. statLine' = High(TRANSFER, ly) /\ irq' = Raised(irq, statLine, TRANSFER, ly)
  BY <1>2, <1>5, UpdateStatShown
<1>7. Mode3Cycles \in Mode3Values
  BY <1>2, Mode3Numbers DEF Mode3Cycles
<1> HIDE DEF c, x
<1>8. Moved(x) = Looked(Set(x, TRANSFER, ly, c, Mode3Cycles))
  BY <1>1, <1>2, <1>4, MovedIs
<1>9. Moved(x) = StateOf(TRANSFER, ly, c, Mode3Cycles, High(TRANSFER, ly),
                         Raised(x.irq, x.level, TRANSFER, ly), x.frame)
  BY <1>1, <1>2, <1>4, <1>7, <1>8, LookedSetIs
<1>10. Moved(x) = StateOf(mode', ly', count', mode3', statLine', irq', frameSeq')
  BY <1>2, <1>5, <1>6, <1>9
<1>11. Watched'
  BY <1>1, <1>4, <1>5, <1>10, DrainWatched DEF x
<1>12. Shown'
  BY <1>2, <1>5, Numbers DEF Shown
<1>13. LastLineOK'
  BY <1>5, ModesAre DEF LastLineOK
<1> QED
  BY <1>11, <1>12, <1>13

LEMMA TransferToHBlankWatched ==
  ASSUME Base, BeamOK, TransferToHBlank
  PROVE  (Watched /\ Shown /\ LastLineOK)'
<1> DEFINE c == count - mode3
           x == Now
<1>1. Draining(TRANSFER) /\ TRANSFER \in Modes /\ HBLANK \in Modes /\ mode = TRANSFER
  BY ModesAre DEF TransferToHBlank, Draining
<1>2. /\ x \in Sound /\ x \in LcdState /\ x.mode = mode /\ x.ly = ly /\ x.mode3 = mode3
      /\ x.level = statLine /\ x.irq = irq /\ x.frame = frameSeq /\ mode3 \in Mode3Values
      /\ ly \in 0..LastLine /\ (coinc <=> ly = lyc) /\ coinc \in BOOLEAN
      /\ statMode = mode
  BY <1>1, DrainNow
<1>3. Span = mode3
  BY <1>1, ModesAre DEF Span
<1>4. x.count - SpanOf(x) = c /\ c \in Nat
  BY <1>1, <1>3, DrainNow
<1>5. /\ count' = c /\ mode' = HBLANK /\ statMode' = HBLANK /\ mode3' = mode3
      /\ ly' = ly /\ (coinc' <=> coinc) /\ frameSeq' = frameSeq /\ lyc' = lyc
      /\ UpdateStat(HBLANK, coinc)
      /\ UNCHANGED <<lcdc, lastLcdc, since, lyc, enable, scx, beam>>
  BY DEF TransferToHBlank, cpuVars, edgeVars
<1>6. statLine' = High(HBLANK, ly) /\ irq' = Raised(irq, statLine, HBLANK, ly)
  BY <1>2, <1>5, UpdateStatShown
<1> HIDE DEF c, x
<1>7. Moved(x) = Looked(Set(x, HBLANK, ly, c, mode3))
  BY <1>1, <1>2, <1>4, MovedIs
<1>8. Moved(x) = StateOf(HBLANK, ly, c, mode3, High(HBLANK, ly),
                         Raised(x.irq, x.level, HBLANK, ly), x.frame)
  BY <1>1, <1>2, <1>4, <1>7, LookedSetIs
<1>9. Moved(x) = StateOf(mode', ly', count', mode3', statLine', irq', frameSeq')
  BY <1>2, <1>5, <1>6, <1>8
<1>10. Watched'
  BY <1>1, <1>4, <1>5, <1>9, DrainWatched DEF x
<1>11. Shown'
  BY <1>2, <1>5, Numbers DEF Shown
<1>12. LastLineOK'
  BY <1>5, ModesAre DEF LastLineOK
<1> QED
  BY <1>10, <1>11, <1>12

LEMMA HBlankToScanWatched ==
  ASSUME Base, BeamOK, HBlankToScan
  PROVE  (Watched /\ Shown /\ LastLineOK)'
<1> DEFINE c == count - Span
           x == Now
           n == ly + 1
<1>1. Draining(HBLANK) /\ HBLANK \in Modes /\ SEARCH_OAM \in Modes /\ mode = HBLANK
  BY ModesAre DEF HBlankToScan, Draining
<1>2. /\ x \in Sound /\ x \in LcdState /\ x.mode = mode /\ x.ly = ly /\ x.mode3 = mode3
      /\ x.level = statLine /\ x.irq = irq /\ x.frame = frameSeq /\ mode3 \in Mode3Values
  BY <1>1, DrainNow
<1>3. /\ (ly + 1) % LyMod = n /\ n \in 0..LastLine
  BY <1>1, NextVisible, Numbers
<1>4. x.count - SpanOf(x) = c /\ c \in Nat
  BY <1>1, DrainNow
<1>5. /\ count' = c /\ mode' = SEARCH_OAM /\ statMode' = SEARCH_OAM /\ mode3' = mode3
      /\ ly' = n /\ (coinc' <=> n = lyc) /\ frameSeq' = frameSeq /\ lyc' = lyc
      /\ UpdateStat(SEARCH_OAM, n = lyc) /\ n # Height
      /\ UNCHANGED <<lcdc, lastLcdc, since, lyc, enable, scx, beam>>
  BY <1>3 DEF HBlankToScan, cpuVars, edgeVars, drawVars
<1>6. statLine' = High(SEARCH_OAM, n) /\ irq' = Raised(irq, statLine, SEARCH_OAM, n)
  BY <1>5, UpdateStatIs
<1>7. mode = HBLANK /\ x.ly + 1 = n
  BY <1>1, <1>2
<1> HIDE DEF c, x, n
<1>8. Moved(x) = Looked(Set(x, SEARCH_OAM, n, c, mode3))
  BY <1>2, <1>4, <1>5, <1>7, MovedIs
<1>9. Moved(x) = StateOf(SEARCH_OAM, n, c, mode3, High(SEARCH_OAM, n),
                         Raised(x.irq, x.level, SEARCH_OAM, n), x.frame)
  BY <1>1, <1>2, <1>3, <1>4, <1>8, LookedSetIs
<1>10. Moved(x) = StateOf(mode', ly', count', mode3', statLine', irq', frameSeq')
  BY <1>2, <1>5, <1>6, <1>9
<1>11. Watched'
  BY <1>1, <1>4, <1>5, <1>10, DrainWatched DEF x
<1>12. Shown'
  BY <1>3, <1>5, Numbers DEF Shown
<1>13. LastLineOK'
  BY <1>5, ModesAre DEF LastLineOK
<1> QED
  BY <1>11, <1>12, <1>13

\* Two looks at the STAT line.
LEMMA RaisedTwice ==
  ASSUME NEW i, NEW v \in BOOLEAN, NEW m, NEW l, NEW k
  PROVE  Raised(Raised(i, v, m, l), High(m, l), m, k) =
           i \union (IF (High(m, l) /\ ~v) \/ (High(m, k) /\ ~High(m, l)) THEN {"lcdc"} ELSE {})
<1>1. CASE High(m, l) /\ ~v
  BY <1>1 DEF Raised
<1>2. CASE High(m, l) /\ v
  BY <1>2 DEF Raised
<1>3. CASE ~High(m, l) /\ High(m, k)
  BY <1>3 DEF Raised
<1>4. CASE ~High(m, l) /\ ~High(m, k)
  BY <1>4 DEF Raised
<1> QED
  BY <1>1, <1>2, <1>3, <1>4

LEMMA HBlankToVBlankWatched ==
  ASSUME Base, BeamOK, HBlankToVBlank
  PROVE  (Watched /\ Shown /\ LastLineOK)'
<1> DEFINE c == count - Span
           x == Now
           t == mode3
           s == Set(x, VBLANK, ly, c, t)
           p == Published(s)
           v == Looked(p)
<1>1. Draining(HBLANK) /\ HBLANK \in Modes /\ VBLANK \in Modes /\ mode = HBLANK
  BY ModesAre DEF HBlankToVBlank, Draining
<1>2. /\ x \in Sound /\ x \in LcdState /\ x.mode = mode /\ x.ly = ly /\ x.mode3 = t
      /\ x.level = statLine /\ x.irq = irq /\ x.frame = frameSeq /\ t \in Mode3Values
      /\ ly \in 0..LastLine /\ (coinc <=> ly = lyc) /\ coinc \in BOOLEAN
  BY <1>1, DrainNow
<1>3. (ly + 1) % LyMod = ly + 1 /\ Height \in 0..LastLine /\ Height # LastLine /\ Height <= LastLine
  BY <1>1, NextVisible, Numbers
<1>4. x.count - SpanOf(x) = c /\ c \in Nat
  BY <1>1, DrainNow
<1>5. /\ count' = c /\ mode' = VBLANK /\ statMode' = VBLANK /\ mode3' = t
      /\ ly' = Height /\ (coinc' <=> Height = lyc) /\ frameSeq' = 1 - frameSeq /\ lyc' = lyc
      /\ ly + 1 = Height
      /\ UNCHANGED <<lcdc, lastLcdc, since, lyc, enable, scx, beam>>
  BY <1>3 DEF HBlankToVBlank, cpuVars, edgeVars
<1>6. /\ High(VBLANK, ly) <=> StatLevel(VBLANK, coinc, enable)
      /\ High(VBLANK, Height) <=> StatLevel(VBLANK, Height = lyc, enable)
  BY <1>2 DEF High, StatLevel
<1>7. statLine' = High(VBLANK, Height)
  BY <1>3, <1>5 DEF HBlankToVBlank, High
<1>8. irq' = irq \union {"vblank"}
             \union (IF (High(VBLANK, ly) /\ ~statLine) \/ (High(VBLANK, Height) /\ ~High(VBLANK, ly))
                     THEN {"lcdc"} ELSE {})
  <2>1. irq' = irq \union {"vblank"}
               \union (IF (StatLevel(VBLANK, coinc, enable) /\ ~statLine)
                          \/ (StatLevel(VBLANK, Height = lyc, enable) /\ ~StatLevel(VBLANK, coinc, enable))
                       THEN {"lcdc"} ELSE {})
    BY <1>3, <1>5 DEF HBlankToVBlank
  <2> DEFINE raised == (High(VBLANK, ly) /\ ~statLine) \/ (High(VBLANK, Height) /\ ~High(VBLANK, ly))
             before == (StatLevel(VBLANK, coinc, enable) /\ ~statLine)
                       \/ (StatLevel(VBLANK, Height = lyc, enable) /\ ~StatLevel(VBLANK, coinc, enable))
  <2>2. raised <=> before
    BY <1>6
  <2>3. irq' = irq \union {"vblank"} \union (IF before THEN {"lcdc"} ELSE {})
    BY <2>1
  <2> HIDE DEF raised, before
  <2>4. irq' = irq \union {"vblank"} \union (IF raised THEN {"lcdc"} ELSE {})
    BY <2>2, <2>3
  <2> QED
    BY <2>4 DEF raised
<1>9. mode = HBLANK /\ x.ly + 1 = Height
  BY <1>1, <1>2, <1>5
<1>10. statLine \in BOOLEAN
  BY DEF Base, TypeOK
<1> HIDE DEF c, x, t
<1>11. Moved(x) = Looked(Set(v, VBLANK, Height, c, t))
  BY <1>2, <1>4, <1>9, MovedIs
<1>12. /\ s \in LcdState /\ s.mode = VBLANK /\ s.ly = ly /\ s.level = statLine /\ s.irq = irq
       /\ s.frame = frameSeq
  BY <1>1, <1>2, <1>4, SetFacts
<1> HIDE DEF s
<1>13. /\ p \in LcdState /\ p.mode = VBLANK /\ p.ly = ly /\ p.level = statLine
       /\ p.irq = irq \union {"vblank"} /\ p.frame = 1 - frameSeq
  BY <1>12, PublishedFacts
<1> HIDE DEF p
<1>14. /\ v \in LcdState /\ v.level = High(VBLANK, ly)
       /\ v.irq = Raised(p.irq, p.level, VBLANK, ly) /\ v.frame = 1 - frameSeq
  BY <1>13, LookedFacts
<1> HIDE DEF v
<1>15. Moved(x) = StateOf(VBLANK, Height, c, t, High(VBLANK, Height),
                          Raised(v.irq, v.level, VBLANK, Height), v.frame)
  BY <1>1, <1>2, <1>3, <1>4, <1>11, <1>14, LookedSetIs
<1>16. Raised(v.irq, v.level, VBLANK, Height) = irq'
  <2> DEFINE i == irq \union {"vblank"}
  <2>1. v.level = High(VBLANK, ly) /\ v.irq = Raised(i, statLine, VBLANK, ly)
    BY <1>13, <1>14
  <2>2. irq' = i \union (IF (High(VBLANK, ly) /\ ~statLine)
                            \/ (High(VBLANK, Height) /\ ~High(VBLANK, ly)) THEN {"lcdc"} ELSE {})
    BY <1>8
  <2> HIDE DEF i
  <2>3. Raised(Raised(i, statLine, VBLANK, ly), High(VBLANK, ly), VBLANK, Height) =
          i \union (IF (High(VBLANK, ly) /\ ~statLine)
                       \/ (High(VBLANK, Height) /\ ~High(VBLANK, ly)) THEN {"lcdc"} ELSE {})
    BY <1>10, RaisedTwice
  <2> QED
    BY <2>1, <2>2, <2>3
<1>17. Moved(x) = StateOf(mode', ly', count', mode3', statLine', irq', frameSeq')
  BY <1>5, <1>7, <1>14, <1>15, <1>16
<1>18. Watched'
  BY <1>1, <1>4, <1>5, <1>17, DrainWatched DEF x
<1>19. Shown'
  BY <1>3, <1>5 DEF Shown
<1>20. LastLineOK'
  BY <1>3, <1>5 DEF LastLineOK
<1> QED
  BY <1>18, <1>19, <1>20

LEMMA VBlankLineWatched ==
  ASSUME Base, BeamOK, VBlankLine, MaxGap <= LineCycles
  PROVE  (Watched /\ Shown /\ LastLineOK)'
<1> DEFINE c == count - LineCycles
           x == Now
           t == mode3
<1>1. /\ Draining(VBLANK) /\ VBLANK \in Modes /\ SEARCH_OAM \in Modes /\ mode = VBLANK
      /\ pc = "drain" /\ lcdc /\ lastLcdc
  BY ModesAre, DrainingFacts DEF VBlankLine, Draining
<1>2. /\ x \in Sound /\ x \in LcdState /\ x.mode = mode /\ x.ly = ly /\ x.mode3 = t
      /\ x.level = statLine /\ x.irq = irq /\ x.frame = frameSeq /\ t \in Mode3Values
      /\ ly \in 0..LastLine /\ statMode = mode
  BY <1>1, DrainNow
<1>3. Span = LineCycles
  BY <1>1, ModesAre DEF Span
<1>4. x.count - SpanOf(x) = c /\ c \in Nat
  BY <1>1, <1>3, DrainNow
<1>5. /\ count' = c /\ mode3' = t /\ frameSeq' = frameSeq /\ lyc' = lyc
      /\ (coinc' <=> ly' = lyc)
      /\ UpdateStat(mode', ly' = lyc)
      /\ UNCHANGED <<lcdc, lastLcdc, since, lyc, enable, scx, beam>>
  BY DEF VBlankLine, cpuVars, edgeVars, drawVars
<1>6. statLine' = High(mode', ly') /\ irq' = Raised(irq, statLine, mode', ly')
  BY <1>5, UpdateStatIs
<1>7. c < LineCycles
  <2>1. count < Span + MaxGap /\ count \in Nat
    BY <1>1 DEF Base, Pace, PaceInDrain, TypeOK
  <2> QED
    BY <1>3, <2>1, Numbers
<1>8. ly # LastLine
  <2>1. ~(count < LineCycles)
    BY <1>4, Numbers DEF Base, TypeOK
  <2> QED
    BY <1>1, <2>1 DEF BeamOK, LastLineOK, Lit
<1> HIDE DEF c, x, t
<1>9. CASE ly = 0
  <2> DEFINE v == Looked(Set(x, VBLANK, 0, c, t))
  <2>1. mode' = SEARCH_OAM /\ statMode' = SEARCH_OAM /\ ly' = 0
    BY <1>9 DEF VBlankLine
  <2>2. Moved(x) = Looked(Set(v, SEARCH_OAM, 0, c, t))
    BY <1>1, <1>2, <1>4, <1>9, MovedIs
  <2>3. 0 \in 0..LastLine
    BY Numbers
  <2>4. v = StateOf(VBLANK, 0, c, t, High(VBLANK, 0), Raised(x.irq, x.level, VBLANK, 0), x.frame)
    BY <1>1, <1>2, <1>4, <2>3, LookedSetIs
  <2>5. statLine = High(VBLANK, 0)
    BY <1>1, <1>2, <1>9, SoundFacts
  <2>6. Raised(irq, statLine, VBLANK, 0) = irq
    BY <2>5 DEF Raised
  <2>7. v \in LcdState
    BY <1>1, <1>2, <1>4, <2>3, SetFacts, LookedFacts
  <2>8. v.level = statLine /\ v.irq = irq /\ v.frame = frameSeq
    <3>1. v.level = High(VBLANK, 0) /\ v.irq = Raised(x.irq, x.level, VBLANK, 0) /\ v.frame = x.frame
      BY <2>4 DEF StateOf
    <3> QED
      BY <1>2, <2>5, <2>6, <3>1
  <2> HIDE DEF v
  <2>9. Moved(x) = StateOf(SEARCH_OAM, 0, c, t, High(SEARCH_OAM, 0),
                           Raised(v.irq, v.level, SEARCH_OAM, 0), v.frame)
    BY <1>1, <1>2, <1>4, <2>2, <2>3, <2>7, LookedSetIs
  <2>10. Moved(x) = StateOf(mode', ly', count', mode3', statLine', irq', frameSeq')
    BY <1>5, <1>6, <2>1, <2>8, <2>9
  <2>11. Watched'
    BY <1>1, <1>4, <1>5, <2>10, DrainWatched DEF x
  <2>12. Shown'
    BY <1>5, <2>1, Numbers DEF Shown
  <2>13. LastLineOK'
    BY <2>1, Numbers DEF LastLineOK
  <2> QED
    BY <2>11, <2>12, <2>13
<1>10. CASE ly # 0
  <2> DEFINE n == ly + 1
  <2>1. n \in 0..LastLine /\ n <= LastLine /\ (ly + 1) % LyMod = n
    <3>1. n \in 0..LastLine /\ n <= LastLine /\ n \in 0..(LyMod - 1) /\ LyMod \in Nat \ {0}
      BY <1>2, <1>8, Numbers
    <3> HIDE DEF n
    <3>2. n % LyMod = n
      BY <3>1, DivisionSmall
    <3> QED
      BY <3>1, <3>2 DEF n
  <2>2. mode' = VBLANK /\ statMode' = VBLANK /\ ly' = n
    BY <1>1, <1>2, <1>10, <2>1 DEF VBlankLine
  <2>3. x.ly + 1 = n /\ x.ly \notin {0, LastLine}
    BY <1>2, <1>8, <1>10
  <2> HIDE DEF n
  <2>4. Moved(x) = Looked(Set(x, VBLANK, n, c, t))
    BY <1>1, <1>2, <1>4, <2>3, MovedIs
  <2>5. Moved(x) = StateOf(VBLANK, n, c, t, High(VBLANK, n),
                           Raised(x.irq, x.level, VBLANK, n), x.frame)
    BY <1>1, <1>2, <1>4, <2>1, <2>4, LookedSetIs
  <2>6. Moved(x) = StateOf(mode', ly', count', mode3', statLine', irq', frameSeq')
    BY <1>2, <1>5, <1>6, <2>2, <2>5
  <2>7. Watched'
    BY <1>1, <1>4, <1>5, <2>6, DrainWatched DEF x
  <2>8. Shown'
    BY <1>5, <2>1, <2>2 DEF Shown
  <2>9. LastLineOK'
    BY <1>5, <1>7 DEF LastLineOK
  <2> QED
    BY <2>7, <2>8, <2>9
<1> QED
  BY <1>9, <1>10

LEMMA NowSame ==
  ASSUME UNCHANGED <<lyc, enable, lastLcdc, mode, ly, count, since, mode3, statLine, irq, frameSeq>>
  PROVE  Now' = Now
<1>1. \A x : Looked(x)' = Looked(x)
  BY SameLooked
<1>2. FirstLine(since)' = FirstLine(since)
  BY DEF FirstLine, StateOf
<1>3. CASE lastLcdc
  BY <1>3 DEF Now, StateOf
<1>4. CASE ~lastLcdc
  <2>1. Now = Looked(FirstLine(since))
    BY <1>4 DEF Now
  <2>2. Now' = Looked(FirstLine(since))'
    BY <1>4 DEF Now
  <2> QED
    BY <1>1, <1>2, <2>1, <2>2
<1> QED
  BY <1>3, <1>4

LEMMA WatchedSame ==
  ASSUME Watched, UNCHANGED <<lyc, enable, lastLcdc, mode, ly, count, since, mode3, statLine,
                              irq, frameSeq, lcdc, scx, beam>>
  PROVE  Watched'
<1>1. Now' = Now
  BY NowSame
<1>2. \A s, b : CatchesUp(s, b)' <=> CatchesUp(s, b)
  BY SameReplay
<1>3. CASE lcdc
  <2>1. CatchesUp(Now, beam)'
    BY <1>1, <1>2, <1>3 DEF Watched
  <2> QED
    BY <1>3, <2>1 DEF Watched
<1>4. CASE ~lcdc
  BY <1>4 DEF Watched, Dark
<1> QED
  BY <1>3, <1>4

\* Where the controller and the beam are after a step.
LEMMA CatchesNext ==
  ASSUME UNCHANGED <<lyc, enable>>, NEW s \in Sound, NEW b, Ready(s), Matches(s, b)
  PROVE  CatchesUp(s, b)'
<1>1. \A m, l : High(m, l)' = High(m, l)
  BY DEF High
<1>2. Sound' = Sound
  BY <1>1 DEF Sound
<1> DEFINE f == [i \in 0..0 |-> s]
<1>3. f \in [0..0 -> Sound'] /\ f[0] = s
  BY <1>2
<1> HIDE DEF f
<1>4. Replay(f, 0, s)' /\ Matches(f[0], b)
  BY <1>3 DEF Replay
<1> QED
  BY <1>4 DEF CatchesUp

LEMMA SwitchedOnMatches ==
  ASSUME TypeOK, NEW b \in Beams, b.due = irq, b.frame = frameSeq
  PROVE  /\ Looked(FirstLine(0)) \in Sound /\ Ready(Looked(FirstLine(0)))
         /\ Matches(Looked(FirstLine(0)), SwitchedOn(b))
<1> DEFINE c == [b EXCEPT !.line = 0, !.dot = OnCount, !.seen = 0, !.level = FALSE]
           x == FirstLine(0)
           r == Looked(x)
<1>1. /\ x \in LcdState /\ x.mode = SEARCH_OAM /\ x.ly = 0 /\ x.count = OnCount
      /\ x.level = FALSE /\ x.irq = irq /\ x.frame = frameSeq
  <2>1. 0 \in Nat /\ OnCount + 0 = OnCount
    BY Numbers
  <2> QED
    BY <2>1, FirstLineFacts
<1>2. OnCount \in 0..(LineCycles - 1) /\ 0 \in 0..LastLine
  BY Numbers
<1>3. /\ c \in Beams /\ c.line = 0 /\ c.dot = OnCount /\ c.seen = 0
      /\ c.due = irq /\ c.frame = frameSeq
  BY <1>2 DEF Beams
<1>4. c.level = FALSE
  BY DEF Beams
<1>5. SwitchedOn(b) = Settle(c)
  BY DEF SwitchedOn
<1> HIDE DEF c, x
<1>6. BeamMode(c) = SEARCH_OAM
  BY <1>3, Numbers DEF BeamMode
<1>7. Alike(x, c)
  BY <1>1, <1>3, <1>4, <1>6 DEF Alike
<1>8. StartOf(x) + x.count = c.dot
  <2>1. StartOf(x) = 0
    BY <1>1, ModesAre DEF StartOf
  <2> QED
    BY <1>1, <1>3, <2>1, Numbers
<1>9. Matches(x, c)
  BY <1>1, <1>3, <1>7, <1>8, ModesAre DEF Matches
<1>10. Matches(r, Settle(c))
  BY <1>1, <1>3, <1>9, MatchesLooked
<1>11. r \in Sound
  <2>1. Placed(x.mode, x.ly, x.mode3)
    BY <1>1, ModesAre, Numbers DEF Placed
  <2> QED
    BY <1>1, <2>1, LookedSound
<1>12. Ready(r)
  <2>1. r.count = OnCount /\ r.mode = SEARCH_OAM
    BY <1>1, LookedFacts
  <2> QED
    BY <1>11, <2>1, SoundFacts, SpanOfIs, Numbers DEF Ready
<1> QED
  BY <1>5, <1>10, <1>11, <1>12 DEF x

\* Caught up, the controller is where the beam is.
LEMMA OnTimeNow ==
  ASSUME Base, BeamOK, lcdc, lastLcdc, count + since < Span
  PROVE  /\ Now \in Sound /\ Now \in LcdState /\ Ready(Now) /\ Matches(Now, beam)
         /\ Now = StateOf(mode, ly, count + since, mode3, statLine, irq, frameSeq)
         /\ Now.mode = mode /\ Now.ly = ly /\ Now.level = statLine /\ Now.irq = irq
         /\ Now.frame = frameSeq /\ Now.count = count + since /\ Now.mode3 = mode3
         /\ SpanOf(Now) = Span
<1>1. TypeOK /\ ModeOK /\ ly <= LastLine /\ CatchesUp(Now, beam)
  BY DEF Base, BeamOK, Watched, Shown, Lit
<1>2. /\ Now = StateOf(mode, ly, count + since, mode3, statLine, irq, frameSeq)
      /\ Now \in LcdState /\ Now.mode = mode /\ Now.ly = ly /\ Now.level = statLine
      /\ Now.irq = irq
      /\ Now.frame = frameSeq /\ Now.count = count + since /\ Now.mode3 = mode3
  BY <1>1, NowOn
<1>3. SpanOf(Now) = Span
  BY <1>2 DEF SpanOf, Span
<1>4. Ready(Now)
  BY <1>2, <1>3 DEF Ready
<1>5. Now \in Sound /\ Matches(Now, beam)
  BY <1>1, <1>4, CatchesReady
<1> QED
  BY <1>2, <1>3, <1>4, <1>5

LEMMA DrainedBeam ==
  ASSUME Base, BeamOK, Drained
  PROVE  BeamOK'
<1>1. /\ TypeOK /\ ModeOK /\ pc = "drain" /\ lcdc \in BOOLEAN /\ lastLcdc \in BOOLEAN /\ (lastLcdc <=> lcdc) /\ since = 0
      /\ beam \in Beams /\ count \in Nat
  BY BeamsIs DEF Drained, Base, Pace, PaceInDrain, TypeOK
<1>2. /\ pc' = "run" /\ pending' = NoWrite /\ UNCHANGED <<ly, irq, mode, count, mode3, statLine,
                                                        lastLcdc, since, frameSeq>>
      /\ lcdc => count < Span
  BY DEF Drained, edgeVars, drawVars
<1>3. Waiting'
  BY <1>2 DEF Waiting, NoWrite
<1>4. LastLineOK'
  BY <1>2 DEF LastLineOK
<1>5. ASSUME lcdc
      PROVE  Now \in Sound /\ Ready(Now) /\ Matches(Now, beam) /\ beam.due = irq /\ beam.frame = frameSeq
  <2>1. count + since < Span
    BY <1>1, <1>2, <1>5
  <2>2. /\ Now \in Sound /\ Ready(Now) /\ Matches(Now, beam)
        /\ Now.irq = irq /\ Now.frame = frameSeq
    BY <1>1, <1>5, <2>1, OnTimeNow
  <2> QED
    BY <2>2 DEF Matches, Alike
<1>6. CASE pending.reg = "lcdc"
  <2>1. /\ lcdc' = pending.val /\ UNCHANGED <<scx, lyc, enable, statMode, coinc>>
        /\ beam' = IF pending.val THEN SwitchedOn(beam) ELSE SwitchedOff(beam)
    BY <1>6 DEF Drained, Store
  <2>2. pending.val # lcdc
    BY <1>6 DEF BeamOK, Waiting
  <2>3. pending.val \in BOOLEAN
    BY <1>1, <1>6 DEF TypeOK, Writes, NoWrite
  <2>4. CASE lcdc
    <3>1. ~pending.val
      BY <2>2, <2>3, <2>4
    <3>2. ~lcdc'
      BY <2>1, <3>1
    <3>3. beam' = SwitchedOff(beam)
      BY <2>1, <3>1
    <3>4. Dark(beam)'
      <4>1. beam' = [BeamOff EXCEPT !.due = irq', !.frame = frameSeq']
        BY <1>2, <1>5, <2>4, <3>3 DEF SwitchedOff
      <4> QED
        BY <4>1 DEF Dark, BeamOff
    <3>5. Watched' /\ Shown'
      BY <3>2, <3>4 DEF Watched, Shown, Lit
    <3> QED
      BY <1>3, <1>4, <3>5 DEF BeamOK
  <2>5. CASE ~lcdc
    <3>1. pending.val
      BY <1>1, <2>2, <2>3, <2>5
    <3>2. lcdc' /\ ~lastLcdc'
      BY <1>1, <1>2, <2>1, <2>5, <3>1
    <3>3. beam' = SwitchedOn(beam)
      BY <2>1, <3>1
    <3>4. beam.due = irq /\ beam.frame = frameSeq
      BY <2>5 DEF BeamOK, Watched, Dark, BeamOff
    <3> DEFINE r == Looked(FirstLine(0))
    <3>5. r \in Sound /\ Ready(r) /\ Matches(r, beam')
      BY <1>1, <3>3, <3>4, SwitchedOnMatches
    <3>6. Now' = r
      <4>1. Now' = Looked(FirstLine(since))'
        BY <3>2 DEF Now
      <4>2. FirstLine(since)' = FirstLine(0)
        BY <1>1, <1>2 DEF FirstLine, StateOf
      <4>3. \A x : Looked(x)' = Looked(x)
        BY <2>1, SameLooked
      <4> QED
        BY <4>1, <4>2, <4>3
    <3> HIDE DEF r
    <3>7. \A s \in Sound : \A b : Ready(s) /\ Matches(s, b) => CatchesUp(s, b)'
      BY <2>1, CatchesNext
    <3>8. CatchesUp(Now, beam)'
      BY <3>5, <3>6, <3>7
    <3>9. Watched' /\ Shown'
      BY <3>2, <3>8 DEF Watched, Shown, Lit
    <3> QED
      BY <1>3, <1>4, <3>9 DEF BeamOK
  <2> QED
    BY <2>4, <2>5
<1>7. CASE pending.reg # "lcdc" /\ ~lcdc
  <2>1. lcdc' = lcdc /\ beam' = beam
    BY <1>7 DEF Drained, Store
  <2>2. Watched' /\ Shown'
    BY <1>2, <1>7, <2>1 DEF BeamOK, Watched, Dark, Shown, Lit
  <2> QED
    BY <1>3, <1>4, <2>2 DEF BeamOK
<1>8. CASE pending.reg # "lcdc" /\ lcdc
  <2>1. pending.reg \notin {"lyc", "stat"}
    BY <1>8 DEF BeamOK, Waiting
  <2>2. lcdc' = lcdc /\ beam' = beam /\ UNCHANGED <<lyc, enable, statMode, coinc>>
    BY <1>8, <2>1 DEF Drained, Store
  <2>3. Now' = Now
    BY <1>2, <2>2, NowSame
  <2>4. \A s \in Sound : \A b : Ready(s) /\ Matches(s, b) => CatchesUp(s, b)'
    BY <2>2, CatchesNext
  <2>5. CatchesUp(Now, beam)'
    BY <1>5, <1>8, <2>2, <2>3, <2>4
  <2>6. Watched' /\ Shown'
    BY <1>1, <1>2, <1>8, <2>2, <2>5 DEF BeamOK, Watched, Shown, Lit
  <2> QED
    BY <1>3, <1>4, <2>6 DEF BeamOK
<1> QED
  BY <1>1, <1>6, <1>7, <1>8

\* Between two instructions, right after ppu_tick, nothing is owed.
LEMMA SettledOnTime ==
  ASSUME Base, Settled
  PROVE  /\ lcdc => count + since < Span /\ lastLcdc
         /\ ~lcdc => mode = HBLANK /\ ly = 0
<1>1. /\ TypeOK /\ ModeOK /\ PaceInRun /\ lag = 0 /\ lcdc = lastLcdc
      /\ since \in Nat /\ count \in Nat
      /\ ~lastLcdc => mode = HBLANK /\ ly = 0
  BY Numbers DEF Settled, Base, Pace, TypeOK
<1>2. ASSUME lcdc
      PROVE  count + since < Span
  <2>1. Span \in Nat
    BY <1>1, SpanBounds
  <2>2. (since = 0 \/ since < Span - count) /\ count < Span
    BY <1>1, <1>2 DEF PaceInRun, Deadline
  <2> QED
    BY <1>1, <2>1, <2>2
<1> QED
  BY <1>1, <1>2

LEMMA AcknowledgeBeam ==
  ASSUME Base, BeamOK, NEW i \in Interrupts, Acknowledge(i)
  PROVE  BeamOK'
<1>1. /\ Settled /\ irq' = irq \ {i} /\ beam' = [beam EXCEPT !.due = beam.due \ {i}]
      /\ UNCHANGED <<lcdc, scx, lyc, enable, pc, pending, ly, statMode, coinc, mode, count,
                     statLine, mode3, lastLcdc, since, frameSeq>>
  BY DEF Acknowledge, cpuVars, edgeVars, drawVars
<1>2. TypeOK /\ beam \in Beams
  BY BeamsIs DEF Base
<1>3. Waiting' /\ LastLineOK' /\ Shown'
  BY <1>1 DEF BeamOK, Waiting, LastLineOK, Shown, Lit, NoWrite
<1>4. CASE lcdc
  <2>1. lastLcdc /\ count + since < Span
    BY <1>1, <1>4, SettledOnTime
  <2> DEFINE x == Now
             y == StateOf(mode, ly, count + since, mode3, statLine, irq \ {i}, frameSeq)
             z == [x EXCEPT !.irq = x.irq \ {i}]
  <2>2. /\ x \in Sound /\ x \in LcdState /\ Ready(x) /\ Matches(x, beam)
        /\ x = StateOf(mode, ly, count + since, mode3, statLine, irq, frameSeq)
    BY <1>4, <2>1, OnTimeNow
  <2>3. Now' = y
    BY <1>1, <2>1 DEF Now, StateOf
  <2>4. y = z
    BY <2>2 DEF StateOf
  <2> HIDE DEF x, y
  <2>5. /\ z \in LcdState /\ z.mode = x.mode /\ z.ly = x.ly /\ z.count = x.count
        /\ z.mode3 = x.mode3 /\ z.level = x.level /\ z.irq = x.irq \ {i} /\ z.frame = x.frame
    BY <2>2 DEF LcdState
  <2>6. /\ beam'.line = beam.line /\ beam'.dot = beam.dot /\ beam'.len = beam.len
        /\ beam'.seen = beam.seen /\ beam'.level = beam.level /\ beam'.due = beam.due \ {i}
        /\ beam'.frame = beam.frame
    BY <1>1, <1>2 DEF Beams
  <2> HIDE DEF z
  <2>7. z \in Sound
    BY <2>2, <2>5 DEF Sound
  <2>8. Ready(z)
    <3>1. SpanOf(z) = SpanOf(x)
      BY <2>5 DEF SpanOf
    <3> QED
      BY <2>2, <2>5, <3>1 DEF Ready
  <2>9. Matches(z, beam')
    <3>1. BeamMode(beam') = BeamMode(beam)
      BY <2>6 DEF BeamMode
    <3>2. StartOf(z) = StartOf(x)
      BY <2>5 DEF StartOf
    <3>3. Alike(z, beam')
      BY <2>2, <2>5, <2>6, <3>1 DEF Matches, Alike
    <3> QED
      BY <2>2, <2>5, <2>6, <3>2, <3>3 DEF Matches
  <2>10. \A s \in Sound : \A b : Ready(s) /\ Matches(s, b) => CatchesUp(s, b)'
    BY <1>1, CatchesNext
  <2>11. CatchesUp(Now, beam)'
    BY <2>3, <2>4, <2>7, <2>8, <2>9, <2>10
  <2> QED
    BY <1>1, <1>3, <1>4, <2>11 DEF BeamOK, Watched
<1>5. CASE ~lcdc
  <2>1. beam = [BeamOff EXCEPT !.due = irq, !.frame = frameSeq]
    BY <1>5 DEF BeamOK, Watched, Dark
  <2>2. beam' = [BeamOff EXCEPT !.due = irq', !.frame = frameSeq']
    BY <1>1, <2>1 DEF BeamOff
  <2>3. Watched'
    BY <1>1, <1>5, <2>2 DEF Watched, Dark, BeamOff
  <2> QED
    BY <1>3, <2>3 DEF BeamOK
<1> QED
  BY <1>2, <1>4, <1>5 DEF TypeOK

LEMMA InitBeam == Init => BeamOK
<1> SUFFICES ASSUME Init PROVE BeamOK
  OBVIOUS
<1>1. TypeOK
  BY InitBase DEF Base
<1>2. /\ lcdc /\ ~lastLcdc /\ pc = "run" /\ pending = NoWrite /\ since = 0 /\ irq = {}
      /\ frameSeq = 0 /\ beam = SwitchedOn(BeamOff)
  BY DEF Init
<1>3. BeamOff \in Beams /\ BeamOff.due = irq /\ BeamOff.frame = frameSeq
  BY <1>2, Numbers, Mode3Numbers DEF BeamOff, Beams, Mode3Values
<1>4. Now = Looked(FirstLine(0))
  BY <1>2 DEF Now
<1>5. Now \in Sound /\ Ready(Now) /\ Matches(Now, beam)
  BY <1>1, <1>2, <1>3, <1>4, SwitchedOnMatches
<1>6. CatchesUp(Now, beam)
  BY <1>5, CatchesNow
<1>7. Watched
  BY <1>2, <1>6 DEF Watched
<1> QED
  BY <1>2, <1>7 DEF BeamOK, Shown, Lit, LastLineOK, Waiting, NoWrite

LEMMA CycleBeam ==
  ASSUME Base, BeamOK, Cycle
  PROVE  BeamOK'
<1>1. Watched'
  BY CycleWatched
<1>2. /\ UNCHANGED <<pc, pending, lcdc, lyc, lastLcdc, ly, statMode, coinc, mode>>
      /\ pc = "run"
  BY DEF Cycle, lineVars
<1>3. Shown' /\ LastLineOK' /\ Waiting'
  BY <1>2 DEF BeamOK, Shown, Lit, LastLineOK, Waiting, NoWrite
<1> QED
  BY <1>1, <1>3 DEF BeamOK

\* A step that only the processor sees.
LEMMA SameBeam ==
  ASSUME BeamOK, UNCHANGED <<lyc, enable, lastLcdc, mode, ly, count, since, mode3, statLine,
                             irq, frameSeq, lcdc, scx, beam, pc, pending, statMode, coinc>>
  PROVE  BeamOK'
<1>1. Watched'
  BY WatchedSame DEF BeamOK
<1>2. Shown' /\ LastLineOK' /\ Waiting'
  BY DEF BeamOK, Shown, Lit, LastLineOK, Waiting, NoWrite
<1> QED
  BY <1>1, <1>2 DEF BeamOK

LEMMA TickEarlyBeam ==
  ASSUME BeamOK, TickEarly
  PROVE  BeamOK'
BY SameBeam DEF TickEarly, edgeVars, lineVars, drawVars

LEMMA TickAdvanceBeam ==
  ASSUME Base, BeamOK, TickAdvance, MaxGap <= LineCycles
  PROVE  BeamOK'
<1>1. pc = "run" /\ Advance /\ pending' = pending
  BY DEF TickAdvance
<1>2. Watched' /\ Shown' /\ LastLineOK'
  BY <1>1, AdvanceWatched
<1>3. pending' = NoWrite
  BY <1>1 DEF BeamOK, Waiting
<1>4. Waiting'
  BY <1>3 DEF Waiting, NoWrite
<1> QED
  BY <1>2, <1>4 DEF BeamOK

LEMMA WriteBeam ==
  ASSUME Base, BeamOK, NEW w \in Writes, Write(w), MaxGap <= LineCycles, LiveWrites = {}
  PROVE  BeamOK'
<1>1. pc = "run" /\ Advance /\ pending' = w /\ pc' = "drain" /\ lcdc' = lcdc
  BY DEF Write, Advance
<1>2. Watched' /\ Shown' /\ LastLineOK'
  BY <1>1, AdvanceWatched
<1>3. (w.reg = "lcdc" => w.val # lcdc) /\ (w.reg \in {"lyc", "stat"} => ~lcdc)
  BY DEF Write
<1>4. Waiting'
  BY <1>1, <1>3 DEF Waiting
<1> QED
  BY <1>2, <1>4 DEF BeamOK

\* A transition of the loop leaves the store that waits alone.
LEMMA DrainWaiting ==
  ASSUME BeamOK, ScanToTransfer \/ TransferToHBlank \/ HBlankToScan \/ HBlankToVBlank \/ VBlankLine
  PROVE  Waiting'
<1>1. UNCHANGED <<pc, pending, lcdc>> /\ pc = "drain"
  BY DEF ScanToTransfer, TransferToHBlank, HBlankToScan, HBlankToVBlank, VBlankLine, Draining,
         cpuVars
<1> QED
  BY <1>1 DEF BeamOK, Waiting, NoWrite

LEMMA BeamStep ==
  ASSUME MaxGap <= LineCycles, LiveWrites = {}
  PROVE  Base /\ BeamOK /\ [Next]_vars => BeamOK'
<1> SUFFICES ASSUME Base, BeamOK, [Next]_vars PROVE BeamOK'
  OBVIOUS
<1>1. CASE UNCHANGED vars
  BY <1>1, SameBeam DEF vars
<1>2. CASE Cycle
  BY <1>2, CycleBeam
<1>3. CASE TickEarly
  BY <1>3, TickEarlyBeam
<1>4. CASE TickAdvance
  BY <1>4, TickAdvanceBeam
<1>5. CASE \E w \in Writes : Write(w)
  BY <1>5, WriteBeam
<1>6. CASE ScanToTransfer
  BY <1>6, ScanToTransferWatched, DrainWaiting DEF BeamOK
<1>7. CASE TransferToHBlank
  BY <1>7, TransferToHBlankWatched, DrainWaiting DEF BeamOK
<1>8. CASE HBlankToScan
  BY <1>8, HBlankToScanWatched, DrainWaiting DEF BeamOK
<1>9. CASE HBlankToVBlank
  BY <1>9, HBlankToVBlankWatched, DrainWaiting DEF BeamOK
<1>10. CASE VBlankLine
  BY <1>10, VBlankLineWatched, DrainWaiting DEF BeamOK
<1>11. CASE Drained
  BY <1>11, DrainedBeam
<1>12. CASE \E i \in Interrupts : Acknowledge(i)
  BY <1>12, AcknowledgeBeam
<1> QED
  BY <1>1, <1>2, <1>3, <1>4, <1>5, <1>6, <1>7, <1>8, <1>9, <1>10, <1>11, <1>12 DEF Next

LEMMA BeamHolds ==
  ASSUME MaxGap <= LineCycles, LiveWrites = {}
  PROVE  Spec => [](Base /\ BeamOK)
<1>1. Init => Base /\ BeamOK
  BY InitBase, InitBeam
<1>2. Base /\ BeamOK /\ [Next]_vars => (Base /\ BeamOK)'
  BY BaseStep, BeamStep
<1> QED
  BY <1>1, <1>2, PTL DEF Spec

-----------------------------------------------------------------------------
(* What a guest sees.  Neither hypothesis can be dropped: when more than a *)
(* line passes between two ppu_ticks the short last line is replayed late, *)
(* and a store to LYC or STAT while the LCD is on is not followed by a look *)
(* at the STAT line.                                                       *)

\* After a ppu_tick the registers show the line, the mode and the coincidence bit of
\* the beam, whatever the early return skipped and however many transitions ppu_advance
\* replayed at once, as long as no more than a line passes between two ppu_ticks and LYC
\* and STAT are stored with the LCD off.
THEOREM RegistersOnTime ==
  ASSUME MaxGap <= LineCycles, LiveWrites = {}
  PROVE  Spec => []OnTime
<1>1. Base /\ BeamOK => OnTime
  <2> SUFFICES ASSUME Base, BeamOK, Settled
               PROVE  IF lcdc
                      THEN /\ mode = BeamMode(beam) /\ statMode = mode
                           /\ ly = beam.line \/ (beam.line = LastLine /\ ly = 0)
                           /\ coinc <=> ly = lyc
                      ELSE ly = 0 /\ mode = HBLANK
    BY DEF OnTime
  <2>1. CASE lcdc
    <3>1. lastLcdc /\ count + since < Span
      BY <2>1, SettledOnTime
    <3>2. Matches(Now, beam) /\ Now.mode = mode /\ Now.ly = ly
      BY <2>1, <3>1, OnTimeNow
    <3>3. statMode = mode /\ (coinc <=> ly = lyc)
      BY <2>1, <3>1 DEF BeamOK, Shown, Lit
    <3> QED
      BY <2>1, <3>2, <3>3 DEF Matches, Alike
  <2>2. CASE ~lcdc
    BY <2>2, SettledOnTime
  <2> QED
    BY <2>1, <2>2
<1> QED
  BY <1>1, BeamHolds, PTL

\* Replaying transitions late and in batches neither loses nor invents a VBlank or STAT
\* interrupt, under the same conditions: the requests pending after a ppu_tick are those
\* the beam has made and the processor has not taken.
THEOREM RequestsOnTime ==
  ASSUME MaxGap <= LineCycles, LiveWrites = {}
  PROVE  Spec => []InterruptsOnTime
<1>1. Base /\ BeamOK => InterruptsOnTime
  <2> SUFFICES ASSUME Base, BeamOK, Settled PROVE irq = beam.due
    BY DEF InterruptsOnTime
  <2>1. CASE lcdc
    <3>1. lastLcdc /\ count + since < Span
      BY <2>1, SettledOnTime
    <3>2. Matches(Now, beam) /\ Now.irq = irq
      BY <2>1, <3>1, OnTimeNow
    <3> QED
      BY <3>2 DEF Matches, Alike
  <2>2. CASE ~lcdc
    BY <2>2 DEF BeamOK, Watched, Dark, BeamOff
  <2> QED
    BY <2>1, <2>2
<1> QED
  BY <1>1, BeamHolds, PTL

\* No frame is counted twice or left out, under the same conditions: frame_seq changes
\* with the beam's frames.
THEOREM FramesCounted ==
  ASSUME MaxGap <= LineCycles, LiveWrites = {}
  PROVE  Spec => []FramesOnTime
<1>1. Base /\ BeamOK => FramesOnTime
  <2> SUFFICES ASSUME Base, BeamOK, Settled PROVE frameSeq = beam.frame
    BY DEF FramesOnTime
  <2>1. CASE lcdc
    <3>1. lastLcdc /\ count + since < Span
      BY <2>1, SettledOnTime
    <3>2. Matches(Now, beam) /\ Now.frame = frameSeq
      BY <2>1, <3>1, OnTimeNow
    <3> QED
      BY <3>2 DEF Matches, Alike
  <2>2. CASE ~lcdc
    BY <2>2 DEF BeamOK, Watched, Dark, BeamOff
  <2> QED
    BY <2>1, <2>2
<1> QED
  BY <1>1, BeamHolds, PTL

================================================================================
