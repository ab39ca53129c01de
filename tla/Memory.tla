-------------------------------- MODULE Memory ---------------------------------
(***************************************************************************)
(* The guest's address space (core/memory.c): what mmu_read8 returns, what *)
(* mmu_write8 does, the cartridge and its bank controller.                 *)
(*                                                                         *)
(* The operators act on a machine m, of which they use the fields          *)
(*   mem       the bytes kept on the mmu struct, by canonical address      *)
(*   page      jit_page_state: 0 no compiled code, 1 some, 2 overwritten   *)
(*   smc       jit_smc_dirty                                               *)
(*   bank      rom_bank                                                    *)
(*   switched  rom_bank_dirty                                              *)
(*   cart      the cartridge: len, capacity, banks, mbc1                   *)
(*   keys      the buttons held, by row                                    *)
(* The widths and the places of the regions are parameters.                *)
(***************************************************************************)
EXTENDS Integers

CONSTANTS
  Half,        \* values of half a byte: 16
  Base,        \* where each region of the address space begins
  Io,          \* the I/O registers with effects, by name
  Joyp,        \* the bits of the joypad's register, by name
  PowerUp,     \* what gb_mmu_init stores in the others it does not clear, by address
  SerialBit,   \* the serial port's bit of IF
  LowBanks,    \* values of MBC1's two registers: 2^5
  HighBanks,   \*   and 2^2
  RomSize, Rom, \* the bytes of the cartridge
  And(_, _), Or(_, _)  \* of bytes, bit by bit

ByteSize == Half * Half
Size     == ByteSize * ByteSize
Byte     == 0..(ByteSize - 1)
Addr     == 0..(Size - 1)
Full     == ByteSize - 1           \* $FF

Fixed  == 0..(Base.window - 1)
Window == Base.window..(Base.vram - 1)
Vram   == Base.vram..(Base.ext - 1)
Ext    == Base.ext..(Base.wram - 1)
Wram   == Base.wram..(Base.echo - 1)
Echo   == Base.echo..(Base.oam - 1)
Oam    == Base.oam..(Base.void - 1)
Void   == Base.void..(Base.io - 1)
IoPort == Base.io..(Base.hram - 1)
Hram   == Base.hram..(Base.ie - 1)

\* An eighth of the address space: WRAM is the seventh of them.
Eighth == Size \div 8

BankSize   == Base.window
DefaultRom == Base.vram            \* allocated by gb_mmu_init

ASSUME SizeAssumption ==
  /\ Half \in Nat /\ Half > 3 /\ Half % 4 = 0
  /\ SerialBit \in Byte
  /\ LowBanks \in Nat \ {0, 1} /\ HighBanks \in Nat \ {0}

ASSUME BaseAssumption ==
  /\ Base \in [{"window", "vram", "ext", "wram", "echo", "oam", "void", "io", "hram", "ie"} -> Nat]
  /\ 0 < Base.window /\ Base.window < Base.vram /\ Base.vram < Base.ext
  /\ Base.ext < Base.wram /\ Base.wram < Base.echo /\ Base.echo < Base.oam
  /\ Base.oam < Base.void /\ Base.void <= Base.io /\ Base.io < Base.hram
  /\ Base.hram < Base.ie /\ Base.ie = Size - 1
  /\ Base.wram = 6 * Eighth /\ Base.echo = 7 * Eighth
  /\ Base.oam - Base.echo < Eighth
  /\ Base.void - Base.oam < ByteSize
  /\ Base.io = Size - ByteSize

ASSUME IoAssumption ==
  /\ Io \in [{"joyp", "sb", "sc", "div", "irq", "dma"} -> IoPort]
  /\ Io.joyp = Base.io
  /\ \A r, s \in DOMAIN Io : r # s => Io[r] # Io[s]

ASSUME JoypAssumption ==
  /\ Joyp \in [{"always", "pad", "action", "all"} -> Byte]
  /\ Joyp.always + Joyp.pad + Joyp.action + Joyp.all = Full

ASSUME PowerUpAssumption ==
  /\ DOMAIN PowerUp \subseteq IoPort \ {Io.joyp}
  /\ \A a \in DOMAIN PowerUp : PowerUp[a] \in Byte

ASSUME BitsAssumption ==
  \A a, b \in Byte : And(a, b) \in 0..b /\ Or(a, b) \in Byte

ASSUME RomAssumption == RomSize \in Nat /\ Rom \in [0..(RomSize - 1) -> Byte]

Page(a) == a \div ByteSize
Low(w)  == w % ByteSize
High(w) == w \div ByteSize

\* The struct keeps one byte for an address of work RAM and its echo.
Canonical(a) == IF a \in Echo THEN a - Base.echo + Base.wram ELSE a
Stored == Vram \union Wram \union Oam \union IoPort \union Hram \union {Base.ie}

-----------------------------------------------------------------------------
(* Reading *)

RomByte(m, off) == IF off < m.cart.len THEN Rom[off] ELSE Full

\* Where the window's byte lies in the ROM buffer.
Offset(m, a) ==
  LET off == m.bank * BankSize + (a - Base.window)
  IN IF off >= m.cart.capacity THEN off % m.cart.capacity ELSE off

\* A row that is selected (its bit is 0) shows its buttons, 0 for one held.
JoypRead(m) ==
  LET stored == m.mem[Io.joyp]
      Row(sel, held) == IF And(stored, sel) = 0 THEN Joyp.all - held ELSE Joyp.all
  IN Joyp.always + And(stored, Joyp.pad + Joyp.action)
       + And(Row(Joyp.pad, m.keys.pad), Row(Joyp.action, m.keys.action))

Read(m, a) ==
  CASE a \in Fixed            -> RomByte(m, a)
    [] a \in Window           -> RomByte(m, Offset(m, a))
    [] a \in Ext \union Void  -> Full
    [] a = Io.joyp            -> JoypRead(m)
    [] OTHER                  -> m.mem[Canonical(a)]

Read16(m, a) == Read(m, a) + Read(m, (a + 1) % Size) * ByteSize

-----------------------------------------------------------------------------
(* Writing *)

Put(m, a, v) == [m EXCEPT !.mem[a] = v]

\* smc_mark.
SmcMark(m, a) ==
  IF m.page[Page(a)] = 1 THEN [m EXCEPT !.page[Page(a)] = 2, !.smc = TRUE] ELSE m

\* A new bank number, reduced to the banks there are.
Selected(m, b) ==
  LET next == IF m.cart.banks = 0 THEN b ELSE b % m.cart.banks
  IN [m EXCEPT !.switched = m.switched \/ next # m.bank, !.bank = next]

\* MBC1: the lower half of the fixed bank's upper half selects the low bits,
\* the lower half of the window the high ones.
BankControl(m, a, v) ==
  LET low  == v % LowBanks
      some == IF low = 0 THEN 1 ELSE low
      kept == ((m.bank \div LowBanks) % HighBanks) * LowBanks
  IN IF ~m.cart.mbc1 THEN m
     ELSE IF 2 * a >= Base.window /\ a \in Fixed THEN Selected(m, kept + some)
     ELSE IF a \in Window /\ 2 * (a - Base.window) < BankSize
       THEN Selected(m, (m.bank % LowBanks) + (v % HighBanks) * LowBanks)
     ELSE m

\* OAM DMA, all bytes at once: no source overlaps OAM except OAM itself.
Transfer(m, v) ==
  [m EXCEPT !.mem = [a \in Stored |->
     IF a \in Oam THEN Read(m, (v * ByteSize + (a - Base.oam)) % Size) ELSE m.mem[a]]]

\* SC with the start bit and the internal clock: done at once, $FF received.
StartsSerial(a, v) == a = Io.sc /\ v >= ByteSize \div 2 /\ v % 2 = 1
Serial(m, v) ==
  [m EXCEPT !.mem = [@ EXCEPT ![Io.sb] = Full, ![Io.sc] = v - ByteSize \div 2,
                              ![Io.irq] = Or(m.mem[Io.irq], SerialBit)]]

\* The flush before a store to a register of the LCD or the timer is in Ppu
\* and PpuThread, the reset of the timer's accumulators in Timer.
StoreIo(m, a, v) ==
  CASE a = Io.div         -> Put(m, a, 0)
    [] StartsSerial(a, v) -> Serial(m, v)
    [] a = Io.dma         -> Transfer(Put(m, a, v), v)
    [] OTHER              -> Put(m, a, v)

\* Mutated Write: the echo's own page is marked.
WriteMarksEcho(m, a, v) ==
  CASE a \in Fixed \union Window              -> BankControl(m, a, v)
    [] a \in Vram \union Wram \union Echo \union Hram ->
         Put(SmcMark(m, a), Canonical(a), v)
    [] a \in Ext \union Void                  -> m
    [] a \in IoPort                           -> StoreIo(m, a, v)
    [] OTHER                                  -> Put(m, a, v)

Write(m, a, v) ==
  CASE a \in Fixed \union Window              -> BankControl(m, a, v)
    [] a \in Vram \union Wram \union Echo \union Hram ->
         Put(SmcMark(m, Canonical(a)), Canonical(a), v)
    [] a \in Ext \union Void                  -> m
    [] a \in IoPort                           -> StoreIo(m, a, v)
    [] OTHER                                  -> Put(m, a, v)

Write16(m, a, w) == Write(Write(m, a, Low(w)), (a + 1) % Size, High(w))

-----------------------------------------------------------------------------
(* The cartridge *)

\* mmu_load_rom of len bytes whose header names a controller and a size; the
\* buffer never shrinks below the one gb_mmu_init allocated.
Loaded(len, type, code) ==
  LET whole  == (len + BankSize - 1) \div BankSize
      claims == IF code <= 8 THEN 2 * 2^code ELSE 2
  IN [len      |-> len,
      capacity |-> IF whole * BankSize > DefaultRom THEN whole * BankSize ELSE DefaultRom,
      banks    |-> IF whole < claims THEN whole ELSE claims,
      mbc1     |-> type # 0]

\* What gb_mmu_init leaves: memory is cleared, and the I/O registers are as the boot ROM
\* leaves them, the joypad's with no row selected and no button held.
InitMem ==
  [a \in Stored |-> CASE a = Io.joyp         -> Joyp.always + Joyp.all
                      [] a \in DOMAIN PowerUp -> PowerUp[a]
                      [] OTHER                -> 0]
===============================================================================
