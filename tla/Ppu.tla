---------------------------------- MODULE Ppu ----------------------------------
(***************************************************************************)
(* The lazily driven LCD controller of core/ppu.c.  The processor only     *)
(* moves its cycle counter; ppu_tick, called between blocks, returns at    *)
(* once unless a deadline has passed, and otherwise replays every scanline *)
(* transition the elapsed cycles contain.  A register write first flushes  *)
(* the controller to the write's own cycle.                                *)
(*                                                                         *)
(* `beam` is not in the program: it is the controller of the Game Boy,     *)
(* moved by every cycle, against which the replayed one is compared.       *)
(***************************************************************************)
EXTENDS Integers, FiniteSets

CONSTANTS
  LineCycles,     \* LCD_LINE_CYCLES
  OamCycles,      \* PPU_MODE_2_OAM_CYCLES
  TransferCycles, \* PPU_MODE_3_VRAM_MIN_CYCLES with the sprite penalty
  ScrollValues,   \* the mode-3 penalties a guest can choose: SCX & 7, the window
  OnCount,        \* the dot at which the first line after LCDC on starts
  Height,         \* LCD_HEIGHT
  Lines,          \* LCD_VERT_LINES
  LyMod,          \* 2^8, the width of LY
  CountMod,       \* 2^16, the width of ppu_lcd_count
  CycleMod,       \* 2^32, the width at which cycle stamps are compared
  MaxGap,         \* the most cycles the processor runs between two ppu_tick calls
  LycValues,      \* the values a guest stores in LYC
  StatValues,     \* the interrupt-enable sets a guest stores in STAT
  StatModes,      \* the values of its mode bits in the bytes stored
  LiveWrites      \* of "lyc", "stat": those a guest writes while the LCD is on

HBLANK == 0
VBLANK == 1
SEARCH_OAM == 2
TRANSFER == 3
Modes == {HBLANK, VBLANK, SEARCH_OAM, TRANSFER}

FrameCycles == LineCycles * Lines
LastLine == Lines - 1
Sources == {"hblank", "vblank", "oam", "lyc"}
Interrupts == {"vblank", "lcdc"}

ASSUME PpuAssumption ==
  /\ {LineCycles, OamCycles, TransferCycles, OnCount, Height, Lines, LyMod,
      CountMod, CycleMod, MaxGap} \subseteq Nat \ {0}
  /\ OnCount < OamCycles
  /\ ScrollValues \subseteq Nat /\ 0 \in ScrollValues
  /\ \A s \in ScrollValues : OamCycles + TransferCycles + s < LineCycles
  /\ Height < LastLine /\ Lines <= LyMod
  /\ CountMod > 2 * LineCycles
  /\ CycleMod > 2 * (FrameCycles + MaxGap)
  /\ LycValues \subseteq 0..(LyMod - 1) /\ 0 \in LycValues
  /\ StatValues \subseteq SUBSET Sources /\ {} \in StatValues
  /\ StatModes \subseteq Modes /\ StatModes # {}
  /\ LiveWrites \subseteq {"lyc", "stat"}

NoWrite == [reg |-> "none", val |-> 0]
Writes == [reg : {"lcdc"}, val : BOOLEAN] \union [reg : {"scx"}, val : ScrollValues]
          \union [reg : {"lyc"}, val : LycValues] \union [reg : {"stat"}, val : StatValues]

VARIABLES
  lag,        \* cycles since ppu_tick was last called
  pc,         \* "run": the processor; "drain": the loop of ppu_advance
  pending,    \* the store that waits for ppu_flush to return
  lcdc,       \* the enable bit of io[LCDC_REG]
  scx,        \* what io[SCX_REG] and the window registers add to mode 3
  ly, lyc,    \* io[LY_REG], io[LYC_REG]
  enable,     \* the interrupt-enable bits of io[STAT_REG]
  statMode,   \* its mode bits
  coinc,      \* its LYC_COINC bit
  irq,        \* the LCD's bits of io[IF_REG]
  mode,       \* ppu_lcd_mode
  count,      \* ppu_lcd_count
  mode3,      \* ppu_mode3_cycles; ppu_mode0_cycles is the rest of the line
  statLine,   \* ppu_stat_line
  offCount,   \* ppu_lcd_off_count
  since,      \* cpu->cycles - ppu_last_cpu_cycles, at the width it is computed
  ahead,      \* ppu_next_event_cycles - cpu->cycles, likewise
  lastLcdc,   \* the enable bit of ppu_last_lcdc
  frameSeq,   \* frame_seq, modulo 2
  drawn,      \* the framebuffer lines drawn since frame_seq last changed
  beam        \* the reference

cpuVars == <<lag, lcdc, scx, lyc, enable>>
lineVars == <<ly, statMode, coinc, irq, mode, count, statLine>>
edgeVars == <<lastLcdc, since, offCount>>
drawVars == <<frameSeq, drawn>>
vars == <<lag, pc, pending, lcdc, scx, ly, lyc, enable, statMode, coinc, irq,
          mode, count, mode3, statLine, offCount, since, ahead, lastLcdc,
          frameSeq, drawn, beam>>

-----------------------------------------------------------------------------
(* The reference: one dot per cycle.  `seen` is the LY that LYC is compared *)
(* with, `level` the STAT interrupt line, `due` the interrupts requested    *)
(* and not yet acknowledged.                                                *)

\* The STAT interrupt line of a controller in mode m with coincidence c.
StatLevel(m, c, e) ==
  \/ m = HBLANK /\ "hblank" \in e
  \/ m = VBLANK /\ "vblank" \in e
  \/ m = SEARCH_OAM /\ "oam" \in e
  \/ c /\ "lyc" \in e

BeamMode(b) ==
  IF b.line >= Height THEN VBLANK
  ELSE IF b.dot < OamCycles THEN SEARCH_OAM
  ELSE IF b.dot < OamCycles + b.len THEN TRANSFER
  ELSE HBLANK

BeamOff == [line |-> 0, dot |-> 0, len |-> 0, seen |-> 0, level |-> FALSE,
            due |-> {}, frame |-> 0]

\* The beam with its interrupt line settled, LYC being l and the enables e.
Entered(b, l, e) ==
  LET high == StatLevel(BeamMode(b), b.seen = l, e)
  IN  [b EXCEPT !.level = high,
                !.due = IF high /\ ~b.level THEN @ \union {"lcdc"} ELSE @]

Settle(b) == Entered(b, lyc, enable)

\* The line below.  Vertical blanking is entered before LYC is compared with its
\* first line, and LY is 0 before the last line ends; otherwise the mode and the
\* comparison change together.
NextLine(b) ==
  LET n == IF b.line = LastLine THEN 0 ELSE b.line + 1
      m == [b EXCEPT !.line = n, !.dot = 0]
  IN  CASE n = Height -> LET v == Settle([m EXCEPT !.due = @ \union {"vblank"}, !.frame = 1 - @])
                         IN  Settle([v EXCEPT !.seen = n])
        [] n = 0 -> Settle([Settle([b EXCEPT !.seen = 0]) EXCEPT !.line = 0, !.dot = 0])
        [] OTHER -> Settle([m EXCEPT !.seen = n])

NextDot(b) ==
  IF b.dot + 1 = LineCycles THEN NextLine(b)
  ELSE Settle([b EXCEPT !.dot = @ + 1,
                        !.len = IF b.dot + 1 = OamCycles THEN TransferCycles + scx ELSE @])

\* The LCD switched on, a few dots into line 0, or off.
SwitchedOn(b) == Settle([b EXCEPT !.line = 0, !.dot = OnCount, !.seen = 0, !.level = FALSE])
SwitchedOff(b) == [BeamOff EXCEPT !.due = b.due, !.frame = b.frame]

-----------------------------------------------------------------------------
(* The program.                                                            *)

\* Mutated Reached: the deadline is noticed a cycle late.
ReachedLate == 2 * ((-ahead - 1) % CycleMod) < CycleMod

\* gb_cycles_reached: whether the deadline has passed, by a signed difference.
Reached == 2 * ((-ahead) % CycleMod) < CycleMod

\* How long the current mode lasts.
Span ==
  CASE mode = SEARCH_OAM -> OamCycles
    [] mode = TRANSFER -> mode3
    [] mode = HBLANK -> LineCycles - OamCycles - mode3
    [] mode = VBLANK -> LineCycles

Init ==
  /\ lag = 0 /\ pc = "run" /\ pending = NoWrite
  /\ lcdc = TRUE /\ lastLcdc = FALSE
  /\ scx = 0 /\ ly = 0 /\ lyc = 0
  /\ enable = {} /\ statMode = VBLANK /\ coinc = TRUE /\ irq = {}
  /\ mode = HBLANK /\ count = 0 /\ mode3 = 0 /\ statLine = FALSE
  /\ offCount = 0 /\ since = 0 /\ ahead = 0
  /\ frameSeq = 0 /\ drawn = {}
  /\ beam = SwitchedOn(BeamOff)

\* Mutated UpdateStat: the interrupt is requested as long as the line is high.
UpdateStatByLevel(m, c) ==
  LET high == StatLevel(m, c, enable)
  IN  /\ statLine' = high
      /\ irq' = IF high THEN irq \union {"lcdc"} ELSE irq

\* ppu_update_stat_irq: only a rising STAT line requests an interrupt.
UpdateStat(m, c) ==
  LET high == StatLevel(m, c, enable)
  IN  /\ statLine' = high
      /\ irq' = IF high /\ ~statLine THEN irq \union {"lcdc"} ELSE irq

\* The off edge puts the controller back to the beginning of line 0, and nothing
\* looks at the STAT line.
OffEdge ==
  IF lastLcdc
  THEN /\ ly' = 0 /\ mode' = HBLANK /\ count' = 0
       /\ statMode' = 0 /\ coinc' = (0 = lyc) /\ statLine' = FALSE
  ELSE UNCHANGED <<ly, mode, count, statMode, coinc, statLine>>

\* Mutated AdvanceOff: the cycles with the LCD off are not counted in frames.
AdvanceOffUncounted ==
  /\ ~lcdc
  /\ offCount' = (IF lastLcdc THEN 0 ELSE offCount) + since
  /\ OffEdge
  /\ UNCHANGED <<irq, beam>>

\* ppu_advance up to its loop, in its three cases.  The LCD is off: the cycles are
\* counted in frames.
AdvanceOff ==
  /\ ~lcdc
  /\ offCount' = ((IF lastLcdc THEN 0 ELSE offCount) + since) % FrameCycles
  /\ OffEdge
  /\ UNCHANGED <<irq, beam>>

\* The on edge starts the first line and looks at STAT with its line low.
AdvanceOnEdge ==
  /\ lcdc /\ ~lastLcdc
  /\ ly' = 0 /\ mode' = SEARCH_OAM /\ count' = (OnCount + since) % CountMod
  /\ statMode' = SEARCH_OAM /\ coinc' = (0 = lyc)
  /\ statLine' = StatLevel(SEARCH_OAM, 0 = lyc, enable)
  /\ irq' = IF statLine' THEN irq \union {"lcdc"} ELSE irq
  /\ UNCHANGED <<offCount, beam>>

\* Mutated AdvanceOn: without the short last line.
AdvanceOnLongLine ==
  /\ lcdc /\ lastLcdc
  /\ count' = (count + since) % CountMod
  /\ UNCHANGED <<ly, mode, statMode, coinc, statLine, irq, offCount, beam>>

\* The LCD is on: the cycles are counted in the mode, and LY, if it is still the
\* last line's, goes to 0.
AdvanceOn ==
  /\ lcdc /\ lastLcdc
  /\ count' = (count + since) % CountMod
  /\ IF mode = VBLANK /\ ly = LastLine
     THEN /\ ly' = 0 /\ coinc' = (0 = lyc) /\ UpdateStat(VBLANK, 0 = lyc)
          /\ beam' = IF beam.line = LastLine THEN Settle([beam EXCEPT !.seen = 0]) ELSE beam
     ELSE UNCHANGED <<ly, coinc, statLine, irq, beam>>
  /\ UNCHANGED <<mode, statMode, offCount>>

Advance ==
  /\ AdvanceOff \/ AdvanceOnEdge \/ AdvanceOn
  /\ pc' = "drain"
  /\ since' = 0
  /\ lastLcdc' = lcdc
  /\ UNCHANGED <<lcdc, scx, lyc, enable, mode3, ahead, drawVars>>

\* ppu_tick before the deadline, and at or after it.
TickEarly ==
  /\ pc = "run" /\ ~Reached /\ lcdc = lastLcdc
  /\ lag' = 0
  /\ UNCHANGED <<pc, pending, lcdc, scx, lyc, enable, edgeVars, lineVars,
                 mode3, ahead, drawVars, beam>>

TickAdvance ==
  /\ pc = "run" /\ (Reached \/ lcdc # lastLcdc)
  /\ Advance
  /\ lag' = 0
  /\ UNCHANGED pending

\* mmu_write8 to a register of the LCD, in an instruction sm83_step began with
\* ppu_tick: the flush, whose loop then lets the store land.
Write(w) ==
  /\ pc = "run" /\ lag = 0
  /\ w.reg = "lcdc" => w.val # lcdc
  /\ (w.reg \in {"lyc", "stat"} /\ lcdc) => w.reg \in LiveWrites
  /\ Advance
  /\ pending' = w
  /\ UNCHANGED lag

\* The transitions of the loop of ppu_advance.
Draining(m) == pc = "drain" /\ lcdc /\ mode = m /\ count >= Span

\* compute_mode3_cycles, with its other penalties in TransferCycles or in scx.
Mode3Cycles == TransferCycles + scx

ScanToTransfer ==
  /\ Draining(SEARCH_OAM)
  /\ count' = count - OamCycles
  /\ mode' = TRANSFER /\ statMode' = TRANSFER
  /\ mode3' = Mode3Cycles
  /\ UpdateStat(TRANSFER, coinc)
  /\ UNCHANGED <<cpuVars, pc, pending, ly, coinc, ahead, edgeVars, drawVars, beam>>

\* Mutated TransferToHBlank: the last visible line is not drawn.
TransferToHBlankShort ==
  /\ Draining(TRANSFER)
  /\ count' = count - mode3
  /\ mode' = HBLANK /\ statMode' = HBLANK
  /\ drawn' = IF ly < Height - 1 THEN drawn \union {ly} ELSE drawn
  /\ UpdateStat(HBLANK, coinc)
  /\ UNCHANGED <<cpuVars, pc, pending, ly, coinc, mode3, ahead, edgeVars, frameSeq, beam>>

TransferToHBlank ==
  /\ Draining(TRANSFER)
  /\ count' = count - mode3
  /\ mode' = HBLANK /\ statMode' = HBLANK
  /\ drawn' = IF ly < Height THEN drawn \union {ly} ELSE drawn
  /\ UpdateStat(HBLANK, coinc)
  /\ UNCHANGED <<cpuVars, pc, pending, ly, coinc, mode3, ahead, edgeVars, frameSeq, beam>>

HBlankToScan ==
  LET n == (ly + 1) % LyMod
  IN
  /\ Draining(HBLANK) /\ n # Height
  /\ count' = count - Span
  /\ ly' = n /\ coinc' = (n = lyc)
  /\ mode' = SEARCH_OAM /\ statMode' = SEARCH_OAM
  /\ UpdateStat(SEARCH_OAM, n = lyc)
  /\ UNCHANGED <<cpuVars, pc, pending, mode3, ahead, edgeVars, drawVars, beam>>

\* The frame is published, and STAT looked at before and after LYC is compared.
HBlankToVBlank ==
  LET n == (ly + 1) % LyMod
      before == StatLevel(VBLANK, coinc, enable)
      after == StatLevel(VBLANK, n = lyc, enable)
  IN
  /\ Draining(HBLANK) /\ n = Height
  /\ count' = count - Span
  /\ ly' = n /\ coinc' = (n = lyc)
  /\ mode' = VBLANK /\ statMode' = VBLANK
  /\ frameSeq' = 1 - frameSeq /\ drawn' = {}
  /\ statLine' = after
  /\ irq' = irq \union {"vblank"}
            \union (IF (before /\ ~statLine) \/ (after /\ ~before) THEN {"lcdc"} ELSE {})
  /\ UNCHANGED <<cpuVars, pc, pending, mode3, ahead, edgeVars, beam>>

VBlankLine ==
  /\ Draining(VBLANK)
  /\ count' = count - LineCycles
  /\ IF ly = 0
     THEN /\ mode' = SEARCH_OAM /\ statMode' = SEARCH_OAM
          /\ UNCHANGED ly
     ELSE /\ ly' = (ly + 1) % LyMod
          /\ UNCHANGED <<mode, statMode>>
  /\ coinc' = (ly' = lyc)
  /\ UpdateStat(mode', ly' = lyc)
  /\ UNCHANGED <<cpuVars, pc, pending, mode3, ahead, edgeVars, drawVars, beam>>

\* The store that waited for the flush.  STAT is stored as it comes, its three
\* read-only bits included.
Store ==
  /\ lcdc' = IF pending.reg = "lcdc" THEN pending.val ELSE lcdc
  /\ scx' = IF pending.reg = "scx" THEN pending.val ELSE scx
  /\ lyc' = IF pending.reg = "lyc" THEN pending.val ELSE lyc
  /\ IF pending.reg = "stat"
     THEN enable' = pending.val /\ statMode' \in StatModes /\ coinc' \in BOOLEAN
     ELSE UNCHANGED <<enable, statMode, coinc>>
  /\ beam' = CASE pending.reg = "lcdc" -> IF pending.val THEN SwitchedOn(beam) ELSE SwitchedOff(beam)
               [] pending.reg \in {"lyc", "stat"} /\ lcdc -> Entered(beam, lyc', enable')
               [] OTHER -> beam

\* ppu_recompute_next_event ends the loop, and the caller goes on.
Drained ==
  /\ pc = "drain" /\ (lcdc => count < Span)
  /\ ahead' = (IF lcdc THEN Span - count ELSE FrameCycles - offCount)
  /\ pc' = "run"
  /\ pending' = NoWrite
  /\ Store
  /\ UNCHANGED <<lag, ly, irq, mode, count, mode3, statLine, edgeVars, drawVars>>

\* The processor executes for a cycle.
Cycle ==
  /\ pc = "run" /\ lag < MaxGap
  /\ lag' = lag + 1
  /\ since' = (since + 1) % CycleMod
  /\ ahead' = (ahead - 1) % CycleMod
  /\ beam' = IF lcdc THEN NextDot(beam) ELSE beam
  /\ UNCHANGED <<pc, pending, lcdc, scx, lyc, enable, lastLcdc, offCount, lineVars,
                 mode3, drawVars>>

\* The registers have been brought up to the processor's cycle.
Settled == pc = "run" /\ lag = 0 /\ lcdc = lastLcdc

\* sm83_service_interrupts takes one of the LCD's interrupts, right after ppu_tick.
Acknowledge(i) ==
  /\ Settled /\ i \in irq
  /\ irq' = irq \ {i}
  /\ beam' = [beam EXCEPT !.due = @ \ {i}]
  /\ UNCHANGED <<cpuVars, pc, pending, ly, statMode, coinc, mode, count, statLine,
                 mode3, ahead, edgeVars, drawVars>>

Next ==
  \/ Cycle
  \/ TickEarly \/ TickAdvance
  \/ \E w \in Writes : Write(w)
  \/ ScanToTransfer \/ TransferToHBlank \/ HBlankToScan \/ HBlankToVBlank \/ VBlankLine
  \/ Drained
  \/ \E i \in Interrupts : Acknowledge(i)

Spec == Init /\ [][Next]_vars

-----------------------------------------------------------------------------
TypeOK ==
  /\ lag \in 0..MaxGap
  /\ pc \in {"run", "drain"} /\ pending \in Writes \union {NoWrite}
  /\ lcdc \in BOOLEAN /\ lastLcdc \in BOOLEAN
  /\ scx \in ScrollValues /\ ly \in 0..(LyMod - 1) /\ lyc \in LycValues
  /\ enable \in StatValues /\ statMode \in Modes /\ coinc \in BOOLEAN
  /\ irq \subseteq Interrupts
  /\ mode \in Modes /\ count \in 0..(CountMod - 1) /\ statLine \in BOOLEAN
  /\ mode3 \in {0} \union {TransferCycles + s : s \in ScrollValues}
  /\ offCount \in 0..(FrameCycles - 1)
  /\ since \in 0..(CycleMod - 1) /\ ahead \in 0..(CycleMod - 1)
  /\ frameSeq \in 0..1 /\ drawn \subseteq 0..(Height - 1)
  /\ beam \in [line : 0..LastLine, dot : 0..(LineCycles - 1), seen : 0..LastLine,
               len : {0} \union {TransferCycles + s : s \in ScrollValues},
               level : BOOLEAN, due : SUBSET Interrupts, frame : 0..1]

\* Whatever was skipped and however many transitions were replayed at once, after
\* a ppu_tick the guest reads the line, the mode and the coincidence bit of the
\* beam; on the last line LY may already be 0.  (ppu_tick's early return, its
\* deadline across a counter wrap, and ppu_advance's loop.)
OnTime ==
  Settled =>
    IF lcdc
    THEN /\ mode = BeamMode(beam) /\ statMode = mode
         /\ ly = beam.line \/ (beam.line = LastLine /\ ly = 0)
         /\ coinc <=> ly = lyc
    ELSE ly = 0 /\ mode = HBLANK

\* Replaying transitions late and in batches neither loses nor invents an
\* interrupt: the ones pending after a ppu_tick are the ones the beam requested.
InterruptsOnTime == Settled => irq = beam.due

\* No frame is skipped or counted twice.
FramesOnTime == Settled => frameSeq = beam.frame

\* A frame is published to the display only when each of its lines was drawn
\* since the last one, whatever the LCD was switched off and on in between.
PublishedWhole ==
  [][frameSeq' # frameSeq => drawn = 0..(Height - 1)]_vars

\* A controller never leaves the Game Boy's lines, however long the processor ran.
LyInFrame == ly < Lines
================================================================================
