------------------------------ MODULE CodeCache ------------------------------
(***************************************************************************)
(* jit/codecache.c driven the way jit/codegen.c and jit/dispatcher.c drive *)
(* it.  A compile reserves a worst case, emits, and then trims; on an      *)
(* emitter overflow it returns the whole reservation, and when the block   *)
(* struct cannot be allocated it returns the trimmed one.  The dispatcher  *)
(* drops blocks one at a time (invalidation, eviction) or all at once.     *)
(***************************************************************************)
EXTENDS CodeCacheOps, FiniteSets

CONSTANT
  Builds,     \* the policies a behaviour may be built with
  Reserves,   \* the worst-case sizes a compile may ask for
  Faults      \* which error paths of a compile may be taken

ASSUME BuildsAssumption   == Builds \subseteq Policies
ASSUME ReservesAssumption == Reserves \subseteq Nat \ {0}
ASSUME FaultsAssumption   == Faults \subseteq {"overflow", "nomem"}

VARIABLES
  evict,      \* GBJIT_JIT_EVICT of this build: never changes
  cc,         \* the codecache struct
  blocks,     \* the spans of the cached blocks
  pend        \* the compile in flight

vars == << evict, cc, blocks, pend >>

Idle        == [at |-> "idle"]
Wanting(n)  == [at |-> "alloc", size |-> n]
Emitting(s) == [at |-> "emit", span |-> s]

\* The blocks that do not share a byte with the span t.
Outside(t) == {s \in blocks : ~Overlap(s, t)}

Init ==
  /\ evict \in Builds
  /\ cc = EmptyArena(evict)
  /\ blocks = {}
  /\ pend = Idle

\* gbjit_compile_block asks codecache_alloc for its worst case.
Compile ==
  /\ pend = Idle
  /\ \E n \in Reserves : pend' = Wanting(n)
  /\ UNCHANGED << evict, cc, blocks >>

\* codecache_alloc finds room.  The ring first evicts every block under the
\* reservation; the other two evict nothing here.
Alloc ==
  /\ pend.at = "alloc"
  /\ CanPlace(evict, cc, pend.size)
  /\ LET s == Span(Place(evict, cc, pend.size), pend.size) IN
       /\ cc' = Taken(evict, cc, pend.size)
       /\ blocks' = IF evict = Ring THEN Outside(s) ELSE blocks
       /\ pend' = Emitting(s)
  /\ UNCHANGED evict

\* Mutated EvictOne: the victim is reported freed but stays.
EvictInVain ==
  /\ evict = Coldness
  /\ pend.at = "alloc"
  /\ ~CanPlace(evict, cc, pend.size)
  /\ blocks # {}
  /\ UNCHANGED vars

\* Nothing fits: the free-list allocator has the dispatcher drop a block and
\* walks again.  Which block is coldest depends on the guest: any of them.
EvictOne ==
  /\ evict = Coldness
  /\ pend.at = "alloc"
  /\ pend.size <= Cap
  /\ ~CanPlace(evict, cc, pend.size)
  /\ \E s \in blocks :
       /\ cc' = Released(evict, cc, s.off, s.size)
       /\ blocks' = blocks \ {s}
  /\ UNCHANGED << evict, pend >>

\* codecache_alloc returns NULL.
AllocFail ==
  /\ pend.at = "alloc"
  /\ ~CanPlace(evict, cc, pend.size)
  /\ evict = Coldness => pend.size > Cap \/ blocks = {}
  /\ pend' = Idle
  /\ UNCHANGED << evict, cc, blocks >>

\* The emitter overflowed its budget: the whole reservation is given back.
EmitOverflow ==
  /\ "overflow" \in Faults
  /\ pend.at = "emit"
  /\ cc' = Released(evict, cc, pend.span.off, pend.span.size)
  /\ pend' = Idle
  /\ UNCHANGED << evict, blocks >>

\* The block is emitted and trimmed to what it occupies.
EmitDone ==
  /\ pend.at = "emit"
  /\ \E actual \in 1..pend.span.size :
       LET s == Span(pend.span.off, actual) IN
       /\ cc' = Trimmed(evict, cc, s.off, actual, pend.span.size)
       /\ blocks' = blocks \union {s}
  /\ pend' = Idle
  /\ UNCHANGED evict

\* As EmitDone, but calloc of the block struct fails and the trimmed span is
\* given back.
EmitNoMemory ==
  /\ "nomem" \in Faults
  /\ pend.at = "emit"
  /\ \E actual \in 1..pend.span.size :
       cc' = Released(evict,
               Trimmed(evict, cc, pend.span.off, actual, pend.span.size),
               pend.span.off, actual)
  /\ pend' = Idle
  /\ UNCHANGED << evict, blocks >>

\* gbjit_dispatcher_invalidate_addr drops one block; with the bump allocator
\* codecache_free is not even called.
Invalidate ==
  /\ pend = Idle
  /\ \E s \in blocks :
       /\ cc' = Released(evict, cc, s.off, s.size)
       /\ blocks' = blocks \ {s}
  /\ UNCHANGED << evict, pend >>

\* evict_all and gbjit_dispatcher_shutdown.
Reset ==
  /\ pend = Idle
  /\ cc' = EmptyArena(evict)
  /\ blocks' = {}
  /\ UNCHANGED << evict, pend >>

Next ==
  \/ Compile \/ Alloc \/ EvictOne \/ AllocFail
  \/ EmitOverflow \/ EmitDone \/ EmitNoMemory
  \/ Invalidate \/ Reset

\* codecache_alloc and the emitter run to completion; nothing obliges the
\* guest to compile, invalidate or reset.
Fairness == WF_vars(Alloc \/ EvictOne \/ AllocFail)

Spec == Init /\ [][Next]_vars /\ Fairness

-------------------------------------------------------------------------------

InFlight   == IF pend.at = "emit" THEN {pend.span} ELSE {}
FreeSpans  == {cc.free[i] : i \in DOMAIN cc.free}

Cells(s) == s.off .. (s.off + s.size - 1)

TypeOK ==
  /\ evict \in Builds
  /\ cc.used \in 0..Cap
  /\ FreeSpans \subseteq Spans
  /\ blocks \subseteq Spans
  /\ pend \in {Idle} \union {Wanting(n) : n \in Reserves}
                     \union {Emitting(s) : s \in Spans}

\* Every unit of the free-list arena is in exactly one place: a cached block, the
\* reservation in flight or a free span.  Splits, trims, both error paths of a
\* compile and every coalescing must balance, or the arena leaks away or is
\* handed out twice.
FreeListTiles ==
  evict = Coldness =>
    LET parts == blocks \union InFlight \union FreeSpans IN
    /\ UNION {Cells(s) : s \in parts} = 0..(Cap - 1)
    /\ \A s, t \in parts : s # t => ~Overlap(s, t)
    /\ Cardinality(parts) =
         Cardinality(blocks) + Cardinality(InFlight) + Len(cc.free)

\* The free list stays address-sorted and coalesced: two neighbours always have
\* a block between them, so a hole is never hidden from the first-fit walk.
FreeListCoalesced ==
  \A i \in 1..(Len(cc.free) - 1) :
    cc.free[i].off + cc.free[i].size < cc.free[i + 1].off

\* codecache_alloc of the free list fails only when the request exceeds the whole
\* arena (dispatcher.c:703-705): once everything is evicted, the whole arena is
\* one span again.
NeverStarved ==
  (evict = Coldness /\ pend.at = "alloc" /\ blocks = {}) =>
    (CanPlace(evict, cc, pend.size) <=> pend.size <= Cap)

\* In the bump arena everything in use lies below the high-water mark, and a block
\* is compiled above all that are cached: trimming, which moves the mark back, never
\* exposes a live block.
BumpBelowMark ==
  evict = Bump =>
    /\ \A s \in blocks \union InFlight : s.off + s.size <= cc.used
    /\ \A s \in blocks, t \in InFlight : s.off + s.size <= t.off

\* A compile's allocation ends: the evict-and-retry loop of codecache_alloc
\* cannot spin.
AllocEnds == (pend.at = "alloc") ~> (pend.at # "alloc")

\* The arena promise: see Arena.
Contract == INSTANCE Arena WITH spans <- blocks \union InFlight

ImplementsArena == Contract!Spec
===============================================================================
