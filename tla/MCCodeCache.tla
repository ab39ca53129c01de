----------------------------- MODULE MCCodeCache -----------------------------
(* CodeCache on small arenas: every build policy, requests from one unit up  *)
(* to one more than the arena holds.                                         *)
EXTENDS CodeCache

MCBuilds   == Policies
MCReserves == 1..(Cap + 1)
===============================================================================
