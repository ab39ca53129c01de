---- MODULE MCTimer ----
(* Counters of two bits; one rate ticks within a block, the other across blocks. *)
EXTENDS Timer

MCPeriods == [r \in {1, 2} |-> IF r = 1 THEN 2 ELSE 5]
========================
