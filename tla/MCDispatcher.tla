----------------------------- MODULE MCDispatcher -----------------------------
(***************************************************************************)
(* Dispatcher on a guest of five two-byte pages: 0 is ROM bank 0, 1 the    *)
(* banked window, 2 a work RAM page, 3 its echo and 4 the topmost page.    *)
(* The places a block may start at, of which a run uses some:              *)
(*   0  the interrupt vector                                               *)
(*   1  a block that runs from bank 0 into the banked window               *)
(*   4  a self loop in work RAM                                            *)
(*   6  a block in the echo whose compile asks for more than the arena has *)
(*   8  a block that ends with the last guest byte, so EndOf is 0          *)
(* Every other compile reserves two units of an arena of three: two blocks *)
(* fit at most.                                                            *)
(***************************************************************************)
EXTENDS Dispatcher

MCCanon == [p \in Pages |-> IF p = 3 THEN 2 ELSE p]

MCEndOf == [s \in Site |-> CASE s = 1 -> 3 [] s = 8 -> 0 [] OTHER -> s + 1]

To(s) == IF s \in Site THEN s ELSE NoSucc

MCSucc ==
  [s \in Site |-> [k \in 0..1 |->
     CASE s = 0 -> IF k = 0 THEN To(1) ELSE NoSucc
       [] s = 1 -> IF k = 0 THEN To(4) ELSE To(8)
       [] s = 4 -> IF k = 0 THEN 4 ELSE To(1)
       [] OTHER -> NoSucc]]

\* A block goes on to a static successor; one without returns to a caller.
MCGoto ==
  [s \in Site |->
     LET next == {MCSucc[s][k] : k \in 0..1} \ {NoSucc}
     IN  CASE s = 8 -> {4, 6} \intersect Site
           [] s = 6 -> {1}
           [] OTHER -> next]

MCLoops == Site \intersect {4}

MCNeed == [s \in Site |-> IF s = 6 THEN Cap + 1 ELSE 2]
MCKeep == [s \in Site |-> IF s = 1 THEN 2 ELSE 1]

Opt(e, n, f) ==
  [evict |-> e, depth |-> n, evictOnFull |-> f, noCache |-> FALSE,
   fallback |-> FALSE, batch |-> FALSE]

\* The bump arena with the prefetcher, the two evicting arenas without it, the
\* cache off, the interpreter fallback, and the chain batch of the ESP32.
MCOptions ==
  {Opt(Bump, 2, FALSE), Opt(Bump, 1, TRUE), Opt(Coldness, 0, FALSE), Opt(Ring, 0, FALSE),
   [Opt(Bump, 1, FALSE) EXCEPT !.noCache = TRUE],
   [Opt(Bump, 0, FALSE) EXCEPT !.fallback = TRUE],
   [Opt(Bump, 0, FALSE) EXCEPT !.batch = TRUE]}
===============================================================================
