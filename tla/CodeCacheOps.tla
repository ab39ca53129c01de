----------------------------- MODULE CodeCacheOps -----------------------------
(***************************************************************************)
(* The JIT code arena of jit/codecache.c as operators over a record cc:    *)
(* `used` is the bump high-water mark or the ring cursor, `free` the spans *)
(* of the intrusive free list in list order.  Offsets and sizes count      *)
(* units of CC_ALIGN = 8 bytes, the size of a free-span header: every size *)
(* the compiler passes is a multiple of 8 (codegen.c:1948-1951, 2129), so  *)
(* cc_align is the identity on them and the smallest span is one unit.     *)
(*                                                                         *)
(* The build picks one allocator with GBJIT_JIT_EVICT; here the choice is  *)
(* a parameter `evict` of each operation.                                  *)
(***************************************************************************)
EXTENDS Integers, Sequences

CONSTANT Cap    \* units in the arena: GBJIT_ARENA_BYTES / CC_ALIGN

ASSUME CapAssumption == Cap \in Nat \ {0}

Bump     == 0   \* GBJIT_JIT_EVICT=0: bump allocator
Coldness == 1   \* GBJIT_JIT_EVICT=1: free list, evicts the coldest block
Ring     == 2   \* GBJIT_JIT_EVICT=2: circular ring, evicts what it overwrites

Policies == {Bump, Coldness, Ring}

Span(o, n) == [off |-> o, size |-> n]

Spans == [off : 0..Cap, size : 0..Cap]

Overlap(s, t) == s.off < t.off + t.size /\ t.off < s.off + s.size

\* codecache_init and codecache_reset leave the same arena.
EmptyArena(evict) ==
  [used |-> 0,
   free |-> IF evict = Coldness THEN << Span(0, Cap) >> ELSE << >>]

-------------------------------------------------------------------------------
(* The free list (GBJIT_JIT_EVICT=1). *)

\* Mutated Fits: an exact fit is passed over.
FitsStrictly(cc, n) == {i \in DOMAIN cc.free : cc.free[i].size > n}

\* The list entries a request of n units fits in; the walk takes the first.
Fits(cc, n) == {i \in DOMAIN cc.free : cc.free[i].size >= n}

FirstFit(cc, n) == CHOOSE i \in Fits(cc, n) : \A j \in Fits(cc, n) : i <= j

\* Carve n units off the front of entry i: the tail stays free in its place,
\* and an exact fit unlinks the entry.
Carve(free, i, n) ==
  LET tail == Span(free[i].off + n, free[i].size - n)
  IN  SubSeq(free, 1, i - 1)
        \o (IF tail.size > 0 THEN << tail >> ELSE << >>)
        \o SubSeq(free, i + 1, Len(free))

\* How many entries the insertion walk passes: all before the first one whose
\* offset is not below o.
Passed(free, o) ==
  CHOOSE k \in 0..Len(free) :
    /\ \A i \in 1..k : free[i].off < o
    /\ k < Len(free) => free[k + 1].off >= o

\* Mutated FreeSpan: coalesces forwards only.
FreeSpanForwards(cc, o, n) ==
  LET k      == Passed(cc.free, o)
      after  == SubSeq(cc.free, k + 1, Len(cc.free))
      joinsNext == after # << >> /\ o + n = after[1].off
  IN  [cc EXCEPT !.free =
         SubSeq(cc.free, 1, k)
           \o << Span(o, IF joinsNext THEN n + after[1].size ELSE n) >>
           \o (IF joinsNext THEN Tail(after) ELSE after)]

\* codecache_free: insert in address order, then coalesce with the following
\* span and with the preceding one.
FreeSpan(cc, o, n) ==
  LET k      == Passed(cc.free, o)
      before == SubSeq(cc.free, 1, k)
      after  == SubSeq(cc.free, k + 1, Len(cc.free))
      joinsNext == after # << >> /\ o + n = after[1].off
      new  == Span(o, IF joinsNext THEN n + after[1].size ELSE n)
      rest == IF joinsNext THEN Tail(after) ELSE after
      joinsPrev == k > 0 /\ before[k].off + before[k].size = o
  IN  [cc EXCEPT !.free =
         IF joinsPrev
         THEN [before EXCEPT ![k].size = @ + new.size] \o rest
         ELSE before \o << new >> \o rest]

-------------------------------------------------------------------------------
(* The three allocators. *)

\* Mutated Place: the ring wraps only once its cursor is at the very end.
PlaceLateWrap(evict, cc, n) ==
  CASE evict = Bump     -> cc.used
    [] evict = Coldness -> cc.free[FirstFit(cc, n)].off
    [] evict = Ring     -> IF cc.used >= Cap THEN 0 ELSE cc.used

\* Where codecache_alloc puts n units.  Meaningful when CanPlace holds.
Place(evict, cc, n) ==
  CASE evict = Bump     -> cc.used
    [] evict = Coldness -> cc.free[FirstFit(cc, n)].off
    [] evict = Ring     -> IF cc.used + n > Cap THEN 0 ELSE cc.used

\* Mutated CanPlace: the bump arena is full only when nothing is left.
CanPlaceLoosely(evict, cc, n) ==
  CASE evict = Bump     -> cc.used < Cap
    [] evict = Coldness -> Fits(cc, n) # {}
    [] evict = Ring     -> n <= Cap

\* codecache_alloc succeeds without evicting (Bump, Coldness), or evicting only
\* what lies under the reservation (Ring).
CanPlace(evict, cc, n) ==
  CASE evict = Bump     -> cc.used + n <= Cap
    [] evict = Coldness -> Fits(cc, n) # {}
    [] evict = Ring     -> n <= Cap

Taken(evict, cc, n) ==
  IF evict = Coldness
  THEN [cc EXCEPT !.free = Carve(cc.free, FirstFit(cc, n), n)]
  ELSE [cc EXCEPT !.used = Place(evict, cc, n) + n]

\* codecache_free: only the free list takes a span back.
Released(evict, cc, o, n) == IF evict = Coldness THEN FreeSpan(cc, o, n) ELSE cc

\* Mutated Trimmed: the tail is taken to start where the reservation does, and the
\* cursor goes back to its start.
TrimmedToStart(evict, cc, o, actual, reserved) ==
  CASE evict # Coldness  -> [cc EXCEPT !.used = o]
    [] evict = Coldness /\ reserved > actual
                         -> FreeSpan(cc, o, reserved - actual)
    [] OTHER             -> cc

\* codecache_trim: the free list takes the unused tail, the other two pull the
\* cursor back to the block's real end.
Trimmed(evict, cc, o, actual, reserved) ==
  CASE evict # Coldness  -> [cc EXCEPT !.used = o + actual]
    [] evict = Coldness /\ reserved > actual
                         -> FreeSpan(cc, o + actual, reserved - actual)
    [] OTHER             -> cc
===============================================================================
