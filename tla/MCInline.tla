-------------------------------- MODULE MCInline --------------------------------
(***************************************************************************)
(* Inline on bytes of 16 values: 256 addresses in pages of 16, with        *)
(*   00 fixed bank   40 window   80 vram   a0 no memory   c0 wram          *)
(*   e0 echo   ea oam   ee no memory   f0 I/O   f8 hram   ff IE            *)
(* Every mix starts from its own machines and runs its own instructions:   *)
(*   Bytes    8-bit arithmetic, all pairs of operands                      *)
(*   BitOps   shifts and bits, all operands and flags                      *)
(*   Words    16-bit arithmetic around the carries                         *)
(*   Stack    pushes and pops at every SP, jumps with every Z and C        *)
(*   Stores   loads and stores at every HL, code pages in every state      *)
(*   Devices  banks, DMA, serial port and joypad, one after the other      *)
(***************************************************************************)
EXTENDS Inline

LOCAL B == INSTANCE Bitwise

MCHalf == 4
MCBase == [window |-> 64, vram |-> 128, ext |-> 160, wram |-> 192, echo |-> 224,
           oam |-> 234, void |-> 238, io |-> 240, hram |-> 248, ie |-> 255]
MCIo   == [joyp |-> 240, sb |-> 241, sc |-> 242, div |-> 244, irq |-> 245, dma |-> 246]
MCJoyp == [always |-> 8, pad |-> 4, action |-> 2, all |-> 1]
MCPowerUp == [a \in {243, 247} |-> IF a = 243 THEN 9 ELSE 5]    \* LCDC and STAT
MCRomSize == 320
MCRom  == [off \in 0..(MCRomSize - 1) |-> (3 * off + off \div 64) % 16]
MCAnd(v, w) == B!&(v, w)
MCOr(v, w)  == B!|(v, w)
MCXor(v, w) == B!^^(v, w)

SomeFlags == {f \in Flags : f.z = f.n /\ f.n = f.h}
Regs(h, l, b, a) ==
  [x \in Reg8 |-> CASE x = "h" -> h [] x = "l" -> l [] x = "b" -> b [] x = "a" -> a
                    [] OTHER -> 9]

\* The bytes of memory tell addresses apart.
Filled == [a \in Stored |-> (a + a \div 16) % 16]

\* All pages in one state; no code is filed under the echo.
Paged(k) == [p \in Byte |-> IF p = Page(MCBase.echo) THEN 0 ELSE k]

Cold == [r |-> Regs(0, 0, 0, 0), f |-> Flag(FALSE, 0, FALSE, FALSE), sp |-> 254, pc |-> 62,
         took |-> 0, mem |-> Filled, page |-> Paged(0), smc |-> FALSE, bank |-> 1,
         switched |-> FALSE, cart |-> Loaded(256, 1, 1), keys |-> [pad |-> 1, action |-> 0]]

Bytes ==
  [steps |-> 1,
   starts |-> {[Cold EXCEPT !.r = Regs(0, 0, v, w), !.f = f] :
                 v \in Byte, w \in Byte, f \in SomeFlags},
   ops |-> Of({"alu"}, AluOps, {"b"}, {0}) \union Of({"inc", "dec"}, {"b"}, None, {0})
             \union Of({"daa"}, None, None, {0})]

BitOps ==
  [steps |-> 1,
   starts |-> {[Cold EXCEPT !.r = Regs(0, 0, v, v), !.f = f] : v \in Byte, f \in Flags},
   ops |-> Of({"shift"}, {"b"}, Shifts, {0}) \union Of({"rota"}, None, Rotates, {0})
             \union Of({"bit", "res", "set"}, {"b"}, None, Bits)
             \union Of({"cpl", "scf", "ccf", "nop"}, None, None, {0})
             \union Of({"ld"}, {"a"}, {"b", "n"}, {5}) \union Of({"alu"}, AluOps, {"n"}, {7})]

Edges == {0, 1, 62, 63, 64, 127, 128, 129, 191, 192, 254, 255}
Words ==
  [steps |-> 1,
   starts |-> {[Cold EXCEPT !.r = [Regs(High(v), Low(v), High(w), 0) EXCEPT !["c"] = Low(w)],
                            !.sp = w, !.f = Flag(z, 1, ~z, z)] :
                 v \in Edges, w \in Edges, z \in BOOLEAN},
   ops |-> Of({"addhl", "inc16", "dec16"}, {"bc", "hl", "sp"}, None, {0})
             \union Of({"ldw"}, {"de", "sp"}, None, {129}) \union Of({"jphl", "ldsphl"}, None, None, {0})
             \union Of({"addsp", "ldhlsp"}, None, None, {1, 9, 15})]

Stack ==
  [steps |-> 2,
   starts |-> {[Cold EXCEPT !.r = Regs(5, 12, 3, 10), !.sp = a, !.f = f, !.page = Paged(k)] :
                 a \in Addr, k \in {0, 1}, f \in {Flag(TRUE, 0, FALSE, FALSE), Flag(FALSE, 1, FALSE, TRUE)}},
   ops |-> Of({"push", "pop"}, {"af", "hl"}, None, {0}) \union Of({"rst"}, {"always"}, None, {8})
             \union Of({"call"}, {"always", "nz"}, None, {200})
             \union Of({"ret"}, {"always", "c"}, None, {0})]

Jumps ==
  [steps |-> 2,
   starts |-> {[Cold EXCEPT !.f = Flag(z, 0, FALSE, c), !.pc = a] :
                 z \in BOOLEAN, c \in BOOLEAN, a \in Edges},
   ops |-> Of({"jr"}, Conditions, None, {0, 7, 8, 15}) \union Of({"jp"}, Conditions, None, {200})]

Stores ==
  [steps |-> 2,
   starts |-> {[Cold EXCEPT !.r = Regs(High(a), Low(a), 6, 11), !.page = Paged(k)] :
                 a \in Addr, k \in 0..2},
   ops |-> Of({"ld"}, {"(hl)"}, {"a", "n"}, {7}) \union Of({"ld"}, {"c"}, {"(hl)"}, {0})
             \union Of({"alu"}, {"adc"}, {"(hl)"}, {0}) \union Of({"inc"}, {"(hl)"}, None, {0})
             \union Of({"lda", "sta"}, None, {"hl+", "hl-"}, {0})
             \union Of({"stsp"}, None, None, {191, 223, 249})]

Ports == {MCIo.joyp, MCIo.sc, 243, MCIo.div, MCIo.dma, 249, MCBase.ie}
Devices ==
  [steps |-> 3,
   starts |-> {[Cold EXCEPT !.r = Regs(4, 0, 0, v), !.cart = cart, !.page = Paged(1), !.keys = keys] :
                 v \in {0, 7, 12},
                 cart \in {Loaded(256, 1, 1), Loaded(320, 1, 8), Loaded(100, 0, 0)},
                 keys \in {[pad |-> 1, action |-> 0], [pad |-> 0, action |-> 1]}}
             \union {[Cold EXCEPT !.mem = InitMem, !.r = Regs(4, 0, 0, v)] : v \in {0, 7}},
   ops |-> Of({"sta"}, None, {"nn"}, {20, 40, 70, 110, 225, 250})
             \union Of({"sta", "lda"}, None, {"n"}, {p - MCBase.io : p \in Ports})
             \union Of({"lda"}, None, {"nn"}, {70, 195}) \union Of({"inc"}, {"a"}, None, {0})]

MCMixes ==
  [bytes |-> Bytes, bits |-> BitOps, words |-> Words, stack |-> Stack, jumps |-> Jumps,
   stores |-> Stores, devices |-> Devices]
===============================================================================
