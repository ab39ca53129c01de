------------------------------ MODULE Dispatcher ------------------------------
(***************************************************************************)
(* The JIT's block cache and run loop, jit/dispatcher.c: the hash table of *)
(* compiled blocks, the per-page lists that find the blocks a write makes  *)
(* stale, the per-block predictions of the next block, the prefetcher, the *)
(* two eviction callbacks, and one iteration of                            *)
(* gbjit_dispatcher_run_until after another.                               *)
(*                                                                         *)
(* The guest is abstract.  Its program is a set of places (Site) where a   *)
(* block may start; executing a block moves to some place in Goto, may     *)
(* write RAM pages and may switch the ROM bank.  What a block computes is  *)
(* left out, and so are the cycle counter, HALT, EI and STOP as state:     *)
(* each is a choice the loop makes where the code tests it, since a guest  *)
(* exists for every such choice.                                           *)
(***************************************************************************)
EXTENDS CodeCacheOps, FiniteSets, FiniteSetsExt

CONSTANTS
  Id,          \* heap addresses a gbjit_block may have
  NIL,         \* the null pointer
  WayCount,    \* slots of predicted_next: GBJIT_CHAIN_PREDICTOR_WAYS
  PageSize,    \* guest bytes per page: 256
  PageCount,   \* guest pages: 256
  Canon,       \* Canon[p]: the page whose bytes p shows (echo RAM shows WRAM)
  BankPages,   \* the banked ROM window: pages 40..7F
  RamPages,    \* pages whose bytes stores change and smc_mark covers
  InlinePages, \* RAM pages an inlined store without the SMC guard reaches
  LoopPages,   \* RAM pages the body of a self_loop block may write
  Site,        \* guest addresses where a block may start
  EndOf,       \* EndOf[s]: gb_pc_end of the block at s
  Succ,        \* Succ[s]: its succ_pc pair
  Goto,        \* Goto[s]: where the guest may be after it
  SelfLoops,   \* sites whose block has self_loop set
  Vector,      \* where interrupts are dispatched to
  Need,        \* Need[s]: arena units the compile at s reserves
  Keep,        \* Keep[s]: arena units its code occupies
  Options      \* the builds and run-time options to consider

Pages == 0..(PageCount - 1)
Ways  == 1..WayCount
Addrs == 0..(PageSize * PageCount - 1)
NoSucc == PageSize * PageCount - 1          \* 0xFFFF: no static successor

PageOf(a) == a \div PageSize

\* The pages insert_block registers a block on.  The end is exclusive, and 0
\* when the block runs up to the last guest byte.
FirstPage(s) == PageOf(s)

\* Mutated LastPage: the wrapped end is not a special case.
LastPageUnwrapped(s) == PageOf(EndOf[s] - 1)

LastPage(s)  == IF EndOf[s] > 0 THEN PageOf(EndOf[s] - 1) ELSE FirstPage(s)
RegPages(s)  == FirstPage(s)..LastPage(s)

\* The pages that hold the bytes the compiler read.
Bytes(s)    == IF EndOf[s] > s THEN s..(EndOf[s] - 1)
               ELSE {a \in Addrs : a >= s \/ a < EndOf[s]}
SrcPages(s) == {Canon[PageOf(a)] : a \in Bytes(s)}

ASSUME GeometryAssumption ==
  /\ PageSize \in Nat \ {0} /\ PageCount \in Nat \ {0}
  /\ WayCount \in Nat \ {0}
  /\ NIL \notin Id \union Addrs
ASSUME MemoryMapAssumption ==
  /\ Canon \in [Pages -> Pages]
  /\ BankPages \subseteq Pages /\ RamPages \subseteq Pages
  /\ InlinePages \subseteq RamPages /\ LoopPages \subseteq RamPages
  /\ BankPages \intersect RamPages = {}
ASSUME ProgramAssumption ==
  /\ Site \subseteq Addrs \ {NoSucc}
  /\ EndOf \in [Site -> Addrs]
  /\ Succ \in [Site -> [0..1 -> Site \union {NoSucc}]]
  /\ Goto \in [Site -> SUBSET Site]
  /\ SelfLoops \subseteq Site
  /\ Vector \in Site
  /\ SrcPages(Vector) \intersect (RamPages \union BankPages) = {}
ASSUME SizeAssumption ==
  /\ Need \in [Site -> Nat \ {0}] /\ Keep \in [Site -> Nat \ {0}]
  /\ \A s \in Site : Keep[s] <= Need[s]
ASSUME OptionsAssumption ==
  Options \subseteq
    [evict : Policies,       \* GBJIT_JIT_EVICT
     depth : Nat,            \* prefetch_depth, 0 when the prefetcher is off
     evictOnFull : BOOLEAN,
     noCache : BOOLEAN,
     fallback : BOOLEAN,     \* interp_fallback
     batch : BOOLEAN]        \* the chain batch, compiled in on the ESP32 only

-------------------------------------------------------------------------------

VARIABLES
  opt,         \* the build and options of this run: never change
  pc,          \* where the run loop is
  gpc,         \* cpu->pc
  blk,         \* the gbjit_block at each heap address, or Dead
  code,        \* its code: the span of the arena it occupies
  table,       \* the blocks in the bucket table
  smc,         \* smc[p]: the blocks on page p's list
  pageState,   \* mmu.jit_page_state
  smcDirty,    \* mmu.jit_smc_dirty
  bankDirty,   \* mmu.rom_bank_dirty
  cc,          \* the codecache
  colder,      \* the pairs of cached blocks whose first has the lower tag
  prev,        \* s_run_prev
  b,           \* the run loop's local `b`
  job,         \* the compile in progress
  frames,      \* the activations of prefetch_successors, innermost first
  stale        \* history: blocks whose source changed since they were compiled

memVars   == << pageState, smcDirty, bankDirty >>
cacheVars == << blk, code, table, smc, cc, colder >>
vars == << opt, pc, gpc, blk, code, table, smc, pageState, smcDirty, bankDirty,
           cc, colder, prev, b, job, frames, stale >>

Dead   == [pc |-> NIL]
NoCode == Span(0, 0)
NoJob  == [site |-> NIL, ctx |-> "none"]

Live == {i \in Id : blk[i] # Dead}

\* find_block
Found(a) == {i \in table : blk[i].pc = a}

\* Mutated Predicts: any filled slot will do.
PredictsAny(i, a) == {w \in Ways : blk[i].next[w] # NIL}

\* The slots of block i that predict address a.
Predicts(i, a) == {w \in Ways : blk[i].nextPc[w] = a /\ blk[i].next[w] # NIL}

Lowest(S) == CHOOSE w \in S : \A v \in S : w <= v

Predicted(i, a) == blk[i].next[Lowest(Predicts(i, a))]

\* Mutated Stamp: a block is stamped once, when it is compiled.
StampOnce(order, t, i) ==
  IF opt.evict = Coldness /\ \A q \in order : i \notin {q[1], q[2]}
  THEN order \union {<< j, i >> : j \in t \ {i}}
  ELSE order

\* ++d->jit_epoch stamped into the tag of i, a block of the table t: of tags only
\* the order counts, and it is kept only where blocks are evicted by it.
Stamp(order, t, i) ==
  IF opt.evict = Coldness
  THEN {q \in order : q[1] # i} \union {<< j, i >> : j \in t \ {i}}
  ELSE order

Init ==
  /\ opt \in Options
  /\ pc = "idle"
  /\ gpc \in Site
  /\ blk = [i \in Id |-> Dead]
  /\ code = [i \in Id |-> NoCode]
  /\ table = {}
  /\ smc = [p \in Pages |-> {}]
  /\ pageState = [p \in Pages |-> 0]
  /\ smcDirty = FALSE
  /\ bankDirty = FALSE
  /\ cc = EmptyArena(opt.evict)
  /\ colder = {}
  /\ prev = NIL
  /\ b = NIL
  /\ job = NoJob
  /\ frames = << >>
  /\ stale = {}

-------------------------------------------------------------------------------
(* The guest's stores, as the memory system sees them. *)

\* Stores to the pages `marked` go through mmu_write8, or through an inlined
\* store whose guard diverts to it: smc_mark.  `bank`: a mapper write changed
\* the ROM bank.
Stores(marked, bank) ==
  LET hit == {p \in marked : pageState[p] = 1} IN
  /\ pageState' = [p \in Pages |-> IF p \in hit THEN 2 ELSE pageState[p]]
  /\ smcDirty' = (smcDirty \/ hit # {})
  /\ bankDirty' = (bankDirty \/ bank)

\* The blocks of the heap h whose bytes change with the pages `written`, or with
\* the ROM bank.  Stores inlined without a guard write pages no one marks.
Touched(h, written, bank) ==
  {i \in Id : /\ h[i] # Dead
              /\ SrcPages(h[i].pc) \intersect
                   (written \union (IF bank THEN BankPages ELSE {})) # {}}

\* sm83_service_interrupts: nothing to dispatch, or the return address is
\* pushed (through mmu_write8, wherever SP points) and control goes to a vector.
\* The result says which.
ServiceInterrupts(dispatched) ==
  IF dispatched
  THEN \E w \in SUBSET RamPages, bank \in BOOLEAN :
         /\ Stores(w, bank)
         /\ stale' = stale \union Touched(blk, w, bank)
         /\ gpc' = Vector
  ELSE UNCHANGED << gpc, stale, memVars >>

\* sm83_step runs one guest instruction, or dispatches an interrupt.
Interpret ==
  \E w \in SUBSET RamPages, bank \in BOOLEAN, t \in Goto[gpc] \union {Vector} :
    /\ Stores(w, bank)
    /\ stale' = stale \union Touched(blk, w, bank)
    /\ gpc' = t

\* enter_block_native / enter_block_sim of block i; h is the heap afterwards.  A
\* block with self_loop set stores through (HL) and (a16),SP helpers at most.
Execute(i, h) ==
  \E t \in Goto[blk[i].pc] :
    /\ gpc' = t
    /\ IF blk[i].pc \in SelfLoops
       THEN \E w \in SUBSET LoopPages :
              /\ Stores(w, FALSE)
              /\ stale' = stale \union Touched(h, w, FALSE)
       ELSE \E w \in SUBSET RamPages, raw \in SUBSET InlinePages, bank \in BOOLEAN :
              /\ Stores(w, bank)
              /\ stale' = stale \union Touched(h, w \union raw, bank)

-------------------------------------------------------------------------------
(* Dropping and inserting blocks. *)

\* clear_dangling_predictions for a cached block r.
Forgets(r, gone) ==
  [r EXCEPT !.next   = [w \in Ways |-> IF r.next[w] \in gone THEN NIL ELSE r.next[w]],
            !.nextPc = [w \in Ways |-> IF r.next[w] \in gone THEN 0 ELSE r.nextPc[w]]]

\* Mutated HeapWithout: clear_dangling_predictions is forgotten.
HeapKeepingPredictions(gone) == [i \in Id |-> IF i \in gone THEN Dead ELSE blk[i]]

\* remove_block_from_smc, remove_block_from_buckets, clear_dangling_predictions
\* and gbjit_block_free for the blocks in gone: what the heap, the page lists, the
\* spans and the tags are afterwards.
HeapWithout(gone) ==
  [i \in Id |-> CASE i \in gone           -> Dead
                  [] i \in table \ gone   -> Forgets(blk[i], gone)
                  [] OTHER                -> blk[i]]

ListsWithout(gone) ==
  [p \in Pages |->
     {i \in smc[p] : ~(i \in gone /\ p \in RegPages(blk[i].pc))}]

CodeWithout(gone) == [i \in Id |-> IF i \in gone THEN NoCode ELSE code[i]]

OrderWithout(gone) == {q \in colder : q[1] \notin gone /\ q[2] \notin gone}

\* codecache_free of every block in gone: not called with the bump allocator.
ArenaWithout(gone) ==
  FoldSet(LAMBDA i, c : Released(opt.evict, c, code[i].off, code[i].size), cc, gone)

Drop(gone) ==
  /\ blk' = HeapWithout(gone)
  /\ code' = CodeWithout(gone)
  /\ table' = table \ gone
  /\ smc' = ListsWithout(gone)
  /\ colder' = OrderWithout(gone)

\* gbjit_dispatcher_invalidate_addr for an address of each page in ps.
Invalidate(ps) ==
  LET gone == UNION {smc[p] : p \in ps} IN
  /\ Drop(gone)
  /\ cc' = ArenaWithout(gone)
  /\ stale' = stale \ gone

\* evict_all and gbjit_dispatcher_shutdown: the page states are left as they are.
DropAll ==
  /\ blk' = [i \in Id |-> IF i \in table THEN Dead ELSE blk[i]]
  /\ code' = CodeWithout(table)
  /\ table' = {}
  /\ smc' = [p \in Pages |-> {}]
  /\ colder' = {}
  /\ cc' = EmptyArena(opt.evict)

-------------------------------------------------------------------------------
(* Calls from outside the run loop. *)

RunUntil ==
  /\ pc = "idle"
  /\ pc' = "bank"
  /\ prev' = NIL
  /\ UNCHANGED << opt, gpc, memVars, cacheVars, b, job, frames, stale >>

\* The public gbjit_dispatcher_invalidate_addr.
InvalidateAddr ==
  /\ pc = "idle"
  /\ \E p \in Pages : Invalidate({p})
  /\ UNCHANGED << opt, pc, gpc, memVars, prev, b, job, frames >>

\* gbjit_dispatcher_shutdown and a new gbjit_dispatcher_init, on the same mmu.
Restart ==
  /\ pc = "idle"
  /\ DropAll
  /\ stale' = stale \ table
  /\ UNCHANGED << opt, pc, gpc, memVars, prev, b, job, frames >>

-------------------------------------------------------------------------------
(* One iteration of the run loop. *)

\* while (cpu->cycles < until): the budget may be used up at any iteration.
Leave ==
  /\ pc = "bank"
  /\ pc' = "idle"
  /\ UNCHANGED << opt, gpc, memVars, cacheVars, prev, b, job, frames, stale >>

\* rom_bank_dirty: drop every block of the banked window.
BankCheck ==
  /\ pc = "bank"
  /\ pc' = "smc"
  /\ IF bankDirty
     THEN /\ Invalidate(BankPages)
          /\ bankDirty' = FALSE
          /\ prev' = NIL
     ELSE UNCHANGED << bankDirty, cacheVars, stale, prev >>
  /\ UNCHANGED << opt, gpc, pageState, smcDirty, b, job, frames >>

\* Mutated DirtyPages: the scan stops at the first.
FirstDirtyPage == {p \in Pages : pageState[p] = 2 /\ \A q \in 0..(p - 1) : pageState[q] # 2}

\* The pages that were written since code was compiled from them.
DirtyPages == {p \in Pages : pageState[p] = 2}

\* jit_smc_dirty: drop every block of every page in state 2.
SmcCheck ==
  /\ pc = "smc"
  /\ pc' = "service"
  /\ IF smcDirty
     THEN /\ Invalidate(DirtyPages)
          /\ pageState' = [p \in Pages |-> IF p \in DirtyPages THEN 0 ELSE pageState[p]]
          /\ smcDirty' = FALSE
          /\ prev' = NIL
     ELSE UNCHANGED << pageState, smcDirty, cacheVars, stale, prev >>
  /\ UNCHANGED << opt, gpc, bankDirty, b, job, frames >>

Service ==
  /\ pc = "service"
  /\ pc' = "dispatch"
  /\ \E dispatched \in BOOLEAN :
       /\ ServiceInterrupts(dispatched)
       /\ prev' = IF dispatched THEN NIL ELSE prev
  /\ UNCHANGED << opt, cacheVars, b, job, frames >>

\* The guest is halted: the inner loop ticks until an interrupt is pending, which
\* is dispatched if it can be, or the budget is used up.
HaltLoop ==
  /\ pc = "dispatch"
  /\ pc' = "bank"
  /\ \E dispatched \in BOOLEAN :
       /\ ServiceInterrupts(dispatched)
       /\ prev' = IF dispatched THEN NIL ELSE prev
  /\ UNCHANGED << opt, cacheVars, b, job, frames >>

\* ime_pending: the instruction after EI is interpreted.
EiStep ==
  /\ pc = "dispatch"
  /\ pc' = "bank"
  /\ Interpret
  /\ prev' = NIL
  /\ UNCHANGED << opt, cacheVars, b, job, frames >>

\* interp_fallback.
FallbackStep ==
  /\ pc = "dispatch"
  /\ opt.fallback
  /\ pc' = "bank"
  /\ Interpret
  /\ UNCHANGED << opt, cacheVars, prev, b, job, frames >>

Dispatching == pc = "dispatch" /\ ~opt.fallback

ChainHit == prev # NIL /\ Predicts(prev, gpc) # {}

\* The previous block predicts this address: no lookup.
Chain ==
  /\ Dispatching
  /\ ~opt.noCache
  /\ ChainHit
  /\ b' = Predicted(prev, gpc)
  /\ pc' = "link"
  /\ UNCHANGED << opt, gpc, memVars, cacheVars, prev, job, frames, stale >>

Lookup ==
  /\ Dispatching
  /\ ~opt.noCache
  /\ ~ChainHit
  /\ b' \in Found(gpc)
  /\ pc' = "link"
  /\ UNCHANGED << opt, gpc, memVars, cacheVars, prev, job, frames, stale >>

\* Nothing cached here: gbjit_compile_block.  Without the cache the arena is wiped
\* before each compile.
Compile ==
  /\ Dispatching
  /\ opt.noCache \/ (~ChainHit /\ Found(gpc) = {})
  /\ job' = [site |-> gpc, ctx |-> "run"]
  /\ pc' = "alloc"
  /\ cc' = IF opt.noCache THEN EmptyArena(opt.evict) ELSE cc
  /\ UNCHANGED << opt, gpc, memVars, blk, code, table, smc, colder, prev, b, frames,
                  stale >>

-------------------------------------------------------------------------------
(* codecache_alloc and the rest of a compile. *)

Fitting == CanPlace(opt.evict, cc, Need[job.site])

\* The cached block with the lowest tag.
Coldest == {i \in table : \A j \in table \ {i} : << i, j >> \in colder}

\* dispatcher_evict_coldest: nothing fits, drop the block with the lowest tag.
EvictColdest ==
  /\ pc = "alloc"
  /\ opt.evict = Coldness
  /\ Need[job.site] <= Cap
  /\ ~Fitting
  /\ \E victim \in Coldest :
       /\ Drop({victim})
       /\ cc' = Released(opt.evict, cc, code[victim].off, code[victim].size)
       /\ prev' = IF prev = victim THEN NIL ELSE prev
       /\ stale' = stale \ {victim}
  /\ UNCHANGED << opt, pc, gpc, memVars, b, job, frames >>

\* Mutated Overwritten: the test misses a block that starts where the range does.
OverwrittenInside(s) ==
  IF opt.evict = Ring
  THEN {i \in table : s.off < code[i].off /\ code[i].off < s.off + s.size} ELSE {}

\* dispatcher_evict_range: the cached blocks under the ring's reservation.
Overwritten(s) ==
  IF opt.evict = Ring THEN {i \in table : Overlap(code[i], s)} ELSE {}

NewBlock(s) ==
  [pc |-> s, next |-> [w \in Ways |-> NIL], nextPc |-> [w \in Ways |-> 0], victim |-> 1]

\* Mutated Insert: only the page the block starts on is told.
InsertOnFirstPage(n, lists) ==
  LET p == FirstPage(job.site) IN
  /\ smc' = [lists EXCEPT ![p] = @ \union {n}]
  /\ pageState' = [pageState EXCEPT ![p] = IF @ = 0 THEN 1 ELSE @]

\* insert_block into the lists `lists`: the bucket table, the list of every page
\* the block overlaps, and state 1 for those pages that were in state 0.
Insert(n, lists) ==
  LET ps == RegPages(job.site) IN
  /\ smc' = [p \in Pages |-> IF p \in ps THEN lists[p] \union {n} ELSE lists[p]]
  /\ pageState' = [p \in Pages |-> IF p \in ps /\ pageState[p] = 0 THEN 1 ELSE pageState[p]]

\* prefetch_successors is called for block n with `left` levels to go.
Activated(n, left) ==
  IF left > 0 /\ ~opt.noCache
  THEN << [blk |-> n, i |-> 0, left |-> left] >> \o frames
  ELSE frames

\* The compile succeeds: the block is allocated, trimmed, and, unless the cache is
\* off, inserted; then its successors are prefetched.
AllocOk ==
  /\ pc = "alloc"
  /\ Fitting
  /\ \E n \in Id \ Live :
       LET s    == job.site
           o    == Place(opt.evict, cc, Need[s])
           gone == Overwritten(Span(o, Need[s]))
           left == IF job.ctx = "prefetch" THEN frames[1].left - 1 ELSE opt.depth
       IN
       /\ blk' = [HeapWithout(gone) EXCEPT ![n] = NewBlock(s)]
       /\ code' = [CodeWithout(gone) EXCEPT ![n] = Span(o, Keep[s])]
       /\ cc' = Trimmed(opt.evict, Taken(opt.evict, cc, Need[s]), o, Keep[s], Need[s])
       /\ prev' = IF prev \in gone THEN NIL ELSE prev
       /\ stale' = stale \ (gone \union {n})
       /\ IF opt.noCache
          THEN UNCHANGED << table, smc, pageState, colder >>
          ELSE /\ table' = (table \ gone) \union {n}
               /\ Insert(n, ListsWithout(gone))
               /\ colder' = Stamp(OrderWithout(gone), table', n)
       /\ frames' = Activated(n, left)
       /\ b' = IF job.ctx = "prefetch" THEN b ELSE n
  /\ pc' = "prefetch"
  /\ job' = NoJob
  /\ UNCHANGED << opt, gpc, smcDirty, bankDirty >>

\* The compile fails with the reservation made: the emitted code overflows it and
\* all of it is given back, or the block struct cannot be allocated and what is left
\* of it after the trim is.  The blocks the ring evicted for it are gone.
EmitFails ==
  /\ pc = "alloc"
  /\ Fitting
  /\ LET s       == job.site
         o       == Place(opt.evict, cc, Need[s])
         taken   == Taken(opt.evict, cc, Need[s])
         trimmed == Trimmed(opt.evict, taken, o, Keep[s], Need[s])
         gone    == Overwritten(Span(o, Need[s]))
     IN
     /\ Drop(gone)
     /\ cc' \in {Released(opt.evict, taken, o, Need[s]),
                 Released(opt.evict, trimmed, o, Keep[s])}
     /\ prev' = IF prev \in gone THEN NIL ELSE prev
     /\ stale' = stale \ gone
  /\ pc' = "lost"
  /\ UNCHANGED << opt, gpc, memVars, b, job, frames >>

\* gbjit_compile_block returns NULL: there is no room and nothing left to evict, or
\* the compile was lost after it had found room.
Failed ==
  \/ pc = "lost"
  \/ /\ pc = "alloc"
     /\ ~Fitting
     /\ opt.evict = Coldness => Need[job.site] > Cap \/ table = {}

\* Mutated SecondTry: a compile that may wipe again.
FirstTry  == "run"

\* The compile after the wipe is the last one.
SecondTry == "retry"

\* The compile fails, and evict_on_full asks for a wipe and a second try.
EvictAll ==
  /\ Failed
  /\ job.ctx = "run" /\ opt.evictOnFull
  /\ DropAll
  /\ stale' = stale \ table
  /\ prev' = NIL
  /\ job' = [job EXCEPT !.ctx = SecondTry]
  /\ pc' = "alloc"
  /\ UNCHANGED << opt, gpc, memVars, b, frames >>

\* The compile fails for good: the instruction is interpreted.
CompileFail ==
  /\ Failed
  /\ job.ctx = "retry" \/ (job.ctx = "run" /\ ~opt.evictOnFull)
  /\ Interpret
  /\ prev' = NIL
  /\ job' = NoJob
  /\ pc' = "bank"
  /\ UNCHANGED << opt, cacheVars, b, frames >>

\* A prefetch compile fails: this activation of prefetch_successors returns.
PrefetchFail ==
  /\ Failed
  /\ job.ctx = "prefetch"
  /\ frames' = Tail(frames)
  /\ job' = NoJob
  /\ pc' = "prefetch"
  /\ UNCHANGED << opt, gpc, memVars, cacheVars, prev, b, stale >>

-------------------------------------------------------------------------------
(* prefetch_successors. *)

\* The successor the innermost activation looks at next: it reads its block.
Wanted == Succ[blk[frames[1].blk].pc][frames[1].i]

\* Mutated Wants: the cache is not searched first.
WantsAny(a) == a # NoSucc

\* A successor worth compiling: it is known and not cached.
Wants(a) == a # NoSucc /\ Found(a) = {}

Reading == pc = "prefetch" /\ frames # << >> /\ frames[1].i < 2

PrefetchSkip ==
  /\ Reading
  /\ ~Wants(Wanted)
  /\ frames' = [frames EXCEPT ![1].i = @ + 1]
  /\ UNCHANGED << opt, pc, gpc, memVars, cacheVars, prev, b, job, stale >>

PrefetchCompile ==
  /\ Reading
  /\ Wants(Wanted)
  /\ job' = [site |-> Wanted, ctx |-> "prefetch"]
  /\ frames' = [frames EXCEPT ![1].i = @ + 1]
  /\ pc' = "alloc"
  /\ UNCHANGED << opt, gpc, memVars, cacheVars, prev, b, stale >>

PrefetchReturn ==
  /\ pc = "prefetch"
  /\ frames # << >> /\ frames[1].i = 2
  /\ frames' = Tail(frames)
  /\ UNCHANGED << opt, pc, gpc, memVars, cacheVars, prev, b, job, stale >>

PrefetchDone ==
  /\ pc = "prefetch"
  /\ frames = << >>
  /\ pc' = "link"
  /\ UNCHANGED << opt, gpc, memVars, cacheVars, prev, b, job, frames, stale >>

-------------------------------------------------------------------------------
(* Linking and entering the block. *)

\* Mutated SlotAfter: never wraps.
SlotAfterNoWrap(v) == v + 1

\* The round-robin victim slot after slot v.
SlotAfter(v) == IF v + 1 \in Ways THEN v + 1 ELSE 1

\* Mutated Learns: the address goes to the next slot.
LearnsApart(r) ==
  [r EXCEPT !.next[r.victim] = b,
            !.nextPc[SlotAfter(r.victim)] = gpc,
            !.victim = SlotAfter(r.victim)]

\* Block r, its victim slot overwritten by the prediction of b for gpc.
Learns(r) ==
  [r EXCEPT !.next[r.victim] = b,
            !.nextPc[r.victim] = gpc,
            !.victim = SlotAfter(r.victim)]

Present == \E w \in Ways : blk[prev].nextPc[w] = gpc /\ blk[prev].next[w] = b

\* The predecessor learns its successor, unless a slot already holds it.  Then the
\* block is stamped hot.
Link ==
  /\ pc = "link"
  /\ pc' = "enter"
  /\ blk' = IF opt.noCache \/ prev = NIL \/ Present THEN blk
            ELSE [blk EXCEPT ![prev] = Learns(@)]
  /\ colder' = IF opt.noCache THEN colder ELSE Stamp(colder, table, b)
  /\ UNCHANGED << opt, gpc, memVars, code, table, smc, cc, prev, b, job, frames, stale >>

\* Mutated HeapAfterRun: the block is kept with the cache off.
HeapKept(i) == blk

\* The heap after block i ran.
HeapAfterRun(i) == IF opt.noCache THEN [blk EXCEPT ![i] = Dead] ELSE blk

\* Enter the block.  Without the cache it is freed on return.
Enter ==
  /\ pc = "enter"
  /\ pc' = "after"
  /\ blk' = HeapAfterRun(b)
  /\ code' = IF opt.noCache THEN [code EXCEPT ![b] = NoCode] ELSE code
  /\ prev' = IF opt.noCache THEN NIL ELSE b
  /\ Execute(b, blk')
  /\ UNCHANGED << opt, table, smc, cc, colder, b, job, frames >>

\* The self-loop fast path is taken on a clean state only; the stack pointer,
\* interrupt and budget tests of its guard may also refuse.
SelfLoopTaken ==
  /\ pc = "after"
  /\ prev # NIL /\ ~opt.noCache
  /\ blk[b].pc \in SelfLoops /\ gpc = blk[b].pc
  /\ ~smcDirty /\ ~bankDirty
  /\ pc' = "spin"
  /\ UNCHANGED << opt, gpc, memVars, cacheVars, prev, b, job, frames, stale >>

SelfLoopRefused ==
  /\ pc = "after"
  /\ pc' = IF opt.batch /\ prev # NIL /\ ~opt.noCache THEN "batch" ELSE "stop"
  /\ UNCHANGED << opt, gpc, memVars, cacheVars, prev, b, job, frames, stale >>

\* One spin of at most GBJIT_SELFLOOP_MAX: it goes on while the guest is back at
\* the loop's start.
Spin ==
  /\ pc = "spin"
  /\ Execute(b, blk)
  /\ pc' \in {"bank"} \union (IF gpc' = blk[b].pc THEN {"spin"} ELSE {})
  /\ b' = IF pc' = "bank" THEN NIL ELSE b
  /\ UNCHANGED << opt, cacheVars, prev, job, frames >>

\* The chain batch enters the predicted successor without an outer iteration.
BatchEnter ==
  /\ pc = "batch"
  /\ ~smcDirty /\ ~bankDirty
  /\ Predicts(prev, gpc) # {}
  /\ LET n == Predicted(prev, gpc) IN
       /\ Execute(n, blk)
       /\ prev' = n
       /\ colder' = Stamp(colder, table, n)
  /\ UNCHANGED << opt, pc, blk, code, table, smc, cc, b, job, frames >>

\* Four blocks at most, and the budget, HALT or EI may end the batch before.
BatchEnd ==
  /\ pc = "batch"
  /\ pc' = "stop"
  /\ UNCHANGED << opt, gpc, memVars, cacheVars, prev, b, job, frames, stale >>

\* if (cpu->stopped) break.
StopCheck ==
  /\ pc = "stop"
  /\ pc' \in {"idle", "bank"}
  /\ b' = NIL
  /\ UNCHANGED << opt, gpc, memVars, cacheVars, prev, job, frames, stale >>

Loop ==
  \/ BankCheck \/ SmcCheck \/ Service
  \/ HaltLoop \/ EiStep \/ FallbackStep
  \/ Chain \/ Lookup \/ Compile
  \/ EvictColdest \/ AllocOk \/ EmitFails \/ EvictAll \/ CompileFail \/ PrefetchFail
  \/ PrefetchSkip \/ PrefetchCompile \/ PrefetchReturn \/ PrefetchDone
  \/ Link \/ Enter \/ SelfLoopTaken \/ SelfLoopRefused \/ Spin
  \/ BatchEnter \/ BatchEnd \/ StopCheck

Next == RunUntil \/ InvalidateAddr \/ Restart \/ Leave \/ Loop

\* The run loop runs on once called; nothing obliges the host to call it.
Spec == Init /\ [][Next]_vars /\ WF_vars(Loop)
-------------------------------------------------------------------------------
(* Properties. *)

Blocks ==
  [pc : Site, next : [Ways -> Id \union {NIL}], nextPc : [Ways -> Addrs], victim : Ways]

Phases == {"idle", "bank", "smc", "service", "dispatch", "alloc", "lost",
           "prefetch", "link", "enter", "after", "spin", "batch", "stop"}

Jobs        == [site : Site \union {NIL}, ctx : {"none", "run", "retry", "prefetch"}]
Activations == [blk : Id, i : 0..2, left : Nat]

CacheTypeOK ==
  /\ blk \in [Id -> Blocks \union {Dead}]
  /\ table \subseteq Id
  /\ smc \in [Pages -> SUBSET Id]
  /\ colder \subseteq Id \X Id

MemTypeOK ==
  /\ pageState \in [Pages -> 0..2]
  /\ smcDirty \in BOOLEAN
  /\ bankDirty \in BOOLEAN

LoopTypeOK ==
  /\ opt \in Options
  /\ pc \in Phases
  /\ gpc \in Site
  /\ prev \in Id \union {NIL}
  /\ b \in Id \union {NIL}
  /\ job \in Jobs
  /\ frames \in Seq(Activations)
  /\ stale \subseteq Id

\* Every variable holds a value of its type.  The arena and the spans in it are
\* left to CodeDisjoint and to CodeCache.
TypeOK == CacheTypeOK /\ MemTypeOK /\ LoopTypeOK

\* The pointers the run loop and the prefetcher still have to follow.
Held ==
  (IF pc # "idle" /\ prev # NIL THEN {prev} ELSE {})
    \union (IF pc \in {"prefetch", "link", "enter", "spin"} \/ job.ctx = "prefetch"
            THEN {b} ELSE {})
    \union {frames[k].blk : k \in {k \in DOMAIN frames : frames[k].i < 2}}

\* No pointer to a block outlives the block: not in the table, the page lists, the
\* predictions of cached blocks, the tags, nor in the hands of the run loop or of
\* a prefetch_successors activation (the comment at dispatcher.c:696-700 argues
\* that s_run_prev is the only such pointer a compile has to worry about).
NoDangling ==
  /\ table \subseteq Live
  /\ \A p \in Pages : smc[p] \subseteq table
  /\ \A i \in table : \A w \in Ways : blk[i].next[w] # NIL => blk[i].next[w] \in table
  /\ colder \subseteq table \X table
  /\ Held \subseteq Live

\* Every live block is cached, except the one the run loop holds with the cache
\* off: nothing leaks.
NoLeak == Live \ table \subseteq (IF opt.noCache THEN {b} ELSE {})

\* A cached block is on the list of every page it was registered on and those
\* pages tell mmu_write8 that code lives there; else a store is missed.
Registered ==
  \A i \in table : \A p \in RegPages(blk[i].pc) : i \in smc[p] /\ pageState[p] # 0

\* An address is compiled at most once.
OneBlockPerPc == \A i, j \in table : blk[i].pc = blk[j].pc => i = j

\* A prediction made for an address leads to the block that starts there.
ChainCoherent ==
  \A i \in table : \A w \in Ways :
    blk[i].next[w] # NIL => blk[blk[i].next[w]].pc = blk[i].nextPc[w]

\* A cached block whose source has changed is still going to be found: the ROM
\* bank is flagged and it lies in the window, or the SMC flag is up and a page
\* that lists it is in state 2.  A flag that is cleared without the invalidation,
\* or a page whose state is lost, would leave the block stale for good.
StaleIsFlagged ==
  \A i \in stale \intersect table :
    \/ bankDirty /\ \E p \in BankPages : i \in smc[p]
    \/ smcDirty /\ \E p \in Pages : pageState[p] = 2 /\ i \in smc[p]

\* The block the chain batch is about to enter.
BatchNext ==
  IF pc = "batch" /\ ~smcDirty /\ ~bankDirty /\ Predicts(prev, gpc) # {}
  THEN {Predicted(prev, gpc)} ELSE {}

Entering == (IF pc \in {"enter", "spin"} THEN {b} ELSE {}) \union BatchNext

\* No block is entered that translates bytes which have changed since
\* (memory.h:69-97: the dispatcher invalidates such blocks before each block).
NoStaleEntry == Entering \intersect stale = {}

\* The block entered is the one that starts at the guest's pc.
EntersAtPc == \A i \in Entering : blk[i].pc = gpc

\* The arena promise, for the blocks that hold its spans: no two live blocks share
\* a byte of code, under any interleaving of compiles, evictions, invalidations
\* and wipes.
CodeDisjoint ==
  \A i \in Live :
    /\ code[i] \in Spans
    /\ code[i].size > 0 /\ code[i].off + code[i].size <= Cap
    /\ \A j \in Live \ {i} : ~Overlap(code[i], code[j])

\* The free-list arena evicts the block that just ran only when it is the last
\* one: it is the hottest of all (approximate LRU, dispatcher.c:702-704).
HotSurvives ==
  [][(EvictColdest /\ prev # NIL) => (prev' = prev \/ table = {prev})]_vars

\* A compile comes to an end, with all its evictions, its retry and the prefetches
\* it sets off.
CompileEnds == (pc = "alloc") ~> (pc \in {"enter", "bank"})
===============================================================================
