---- MODULE MCPpu ----
(* A screen of two visible lines in a frame of four, lines of five dots. *)
EXTENDS Ppu

MCScroll == {0, 1}
MCLyc == {0, 2, 3}
MCStat == {{}, {"oam", "lyc"}, {"hblank", "lyc"}}
======================
