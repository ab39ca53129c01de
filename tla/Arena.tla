-------------------------------- MODULE Arena --------------------------------
(***************************************************************************)
(* What codecache.h promises its callers, whatever the policy: the bytes   *)
(* handed out lie in the arena and no two spans in use share a byte.  A    *)
(* reservation may take spans away from their owners first (eviction); it  *)
(* may be shrunk in place; spans are given back one by one or all at once. *)
(***************************************************************************)
EXTENDS Integers

CONSTANT Cap

VARIABLE spans    \* the spans in use

Disjoint(s, t) == s.off + s.size <= t.off \/ t.off + t.size <= s.off

InArena(s) ==
  /\ s \in [off : Nat, size : Nat \ {0}]
  /\ s.off + s.size <= Cap

Init == spans = {}

Reserve ==
  \E kept \in SUBSET spans, o \in 0..Cap, n \in 1..Cap :
    LET s == [off |-> o, size |-> n] IN
    /\ InArena(s)
    /\ \A t \in kept : Disjoint(s, t)
    /\ spans' = kept \union {s}

Shrink ==
  \E s \in spans : \E n \in 1..s.size :
    spans' = (spans \ {s}) \union {[off |-> s.off, size |-> n]}

Release == spans' \in SUBSET spans

Next == Reserve \/ Shrink \/ Release

Spec == Init /\ [][Next]_spans

\* No two spans in use share a byte, and all lie inside the arena.
NoOverlap ==
  /\ \A s \in spans : InArena(s)
  /\ \A s, t \in spans : s # t => Disjoint(s, t)
===============================================================================
