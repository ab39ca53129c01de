--------------------------- MODULE DispatcherProofs ---------------------------
(***************************************************************************)
(* Theorems about Dispatcher, for every guest program, page layout, arena, *)
(* number of prediction slots and set of options in which no prefetch can  *)
(* evict.  First the types, and that no pointer to a block outlives the    *)
(* block; on that rests that the cache finds the one right block for an    *)
(* address and loses none; and on both that no block whose source has      *)
(* changed is entered.  Then the arena: blocks never share code, and the   *)
(* block that just ran is the last to be evicted.  Last the guest's flow   *)
(* of control, which is its program's, and, in every build, that a compile *)
(* with its prefetches and evictions runs down.                            *)
(***************************************************************************)
EXTENDS Dispatcher, Quotients, FiniteSetTheorems, WellFoundedInduction, TLAPS

-----------------------------------------------------------------------------
(* The inductive invariant.                                                *)

\* The cache: a page lists exactly the cached blocks registered on it, and a
\* prediction leads to a cached block.
HeapOK ==
  /\ table \subseteq Live
  /\ \A p \in Pages : smc[p] = {i \in table : p \in RegPages(blk[i].pc)}
  /\ \A i \in table : \A w \in Ways : blk[i].next[w] \in table \union {NIL}
  /\ colder \subseteq table \X table

\* A compile is under way exactly while the arena is asked for space, and until one
\* that was lost has been dealt with.
JobOK ==
  /\ pc \in {"alloc", "lost"} <=> job.ctx # "none"
  /\ pc \in {"alloc", "lost"} => job.site \in Site
  /\ job.ctx = "prefetch" => frames # << >>

\* Prefetching goes on only under the bump arena, over cached blocks.
FramesOK ==
  /\ frames # << >> => /\ pc = "prefetch" \/ job.ctx = "prefetch"
                       /\ opt.evict = Bump /\ ~opt.noCache
  /\ \A k \in 1..Len(frames) : frames[k].blk \in table

\* What each phase of the loop knows of s_run_prev.
PrevOK ==
  /\ opt.noCache => table = {} /\ prev = NIL
  /\ pc # "idle" => prev \in table \union {NIL}
  /\ pc = "after" => prev \in {b, NIL}
  /\ pc = "spin" => b = prev /\ prev # NIL
  /\ pc = "batch" => prev # NIL

\* The block the loop holds is cached wherever it is used after the lookup.
BlockOK ==
  pc \in {"prefetch", "link", "enter"} \/ job.ctx = "prefetch" =>
    b \in Live /\ (opt.noCache \/ b \in table)

\* The invariant.
Inv == TypeOK /\ HeapOK /\ JobOK /\ FramesOK /\ PrevOK /\ BlockOK

\* The builds the theorems are about: an arena that evicts one block at a time has
\* no prefetcher (the boards' GBJIT_JIT_EVICT with a prefetch depth of 0), or no
\* block is cached.
NoEvictingPrefetch == \A o \in Options : o.evict = Bump \/ o.depth = 0 \/ o.noCache

\* The invariant holds before the first call of run_until.
LEMMA InvInit == Init => Inv
<1> SUFFICES ASSUME Init PROVE Inv
  OBVIOUS
<1>1. CacheTypeOK
  BY DEF Init, CacheTypeOK
<1>2. MemTypeOK
  <2>1. pageState \in [Pages -> 0..2]
    BY DEF Init
  <2>2. smcDirty \in BOOLEAN /\ bankDirty \in BOOLEAN
    BY Zenon DEF Init
  <2> QED
    BY <2>1, <2>2 DEF MemTypeOK
<1>3. LoopTypeOK
  BY DEF Init, LoopTypeOK, NoJob, Jobs, Phases
<1>4. HeapOK
  BY DEF Init, HeapOK, Live
<1>5. JobOK /\ FramesOK /\ PrevOK /\ BlockOK
  BY DEF Init, JobOK, FramesOK, PrevOK, BlockOK, NoJob
<1> QED
  BY <1>1, <1>2, <1>3, <1>4, <1>5 DEF Inv, TypeOK

\* What is left of a well-formed heap without some of its cached blocks: blocks
\* whose predictions, page lists and tags name each other only.
LEMMA WithoutHeap ==
  ASSUME CacheTypeOK, HeapOK, NEW gone \in SUBSET table
  PROVE  /\ HeapWithout(gone) \in [Id -> Blocks \union {Dead}]
         /\ \A i \in Id : HeapWithout(gone)[i] # Dead <=> i \in Live \ gone
         /\ \A i \in table \ gone :
              /\ HeapWithout(gone)[i].pc = blk[i].pc
              /\ \A w \in Ways : HeapWithout(gone)[i].next[w] \in (table \ gone) \union {NIL}
         /\ ListsWithout(gone) =
              [p \in Pages |-> {i \in table \ gone : p \in RegPages(blk[i].pc)}]
         /\ OrderWithout(gone) \subseteq (table \ gone) \X (table \ gone)
<1> DEFINE h == HeapWithout(gone)
<1>1. ASSUME NEW i \in table
      PROVE  blk[i] \in Blocks /\ blk[i].next \in [Ways -> table \union {NIL}]
  BY DEF CacheTypeOK, HeapOK, Live, Blocks
<1>2. ASSUME NEW i \in table \ gone
      PROVE  /\ h[i] \in Blocks
             /\ h[i].pc = blk[i].pc
             /\ h[i].next \in [Ways -> (table \ gone) \union {NIL}]
  <2>1. h[i] = Forgets(blk[i], gone)
    BY DEF HeapWithout, CacheTypeOK
  <2>2. blk[i] \in Blocks /\ blk[i].next \in [Ways -> table \union {NIL}]
    BY <1>1
  <2>3. 0 \in Addrs
    BY GeometryAssumption DEF Addrs
  <2> DEFINE nx == [w \in Ways |-> IF blk[i].next[w] \in gone THEN NIL ELSE blk[i].next[w]]
             np == [w \in Ways |-> IF blk[i].next[w] \in gone THEN 0 ELSE blk[i].nextPc[w]]
  <2>4. nx \in [Ways -> (table \ gone) \union {NIL}] /\ nx \in [Ways -> Id \union {NIL}]
    BY <2>2 DEF CacheTypeOK
  <2>5. np \in [Ways -> Addrs]
    BY <2>2, <2>3 DEF Blocks
  <2>6. h[i] = [blk[i] EXCEPT !.next = nx, !.nextPc = np]
    BY <2>1 DEF Forgets
  <2> HIDE DEF nx, np, h
  <2> QED
    BY <2>2, <2>4, <2>5, <2>6 DEF Blocks
<1>3. ASSUME NEW i \in Id
      PROVE  /\ h[i] \in Blocks \union {Dead}
             /\ i \in gone => h[i] = Dead
             /\ i \notin table => h[i] = blk[i]
  <2>1. CASE i \in gone
    BY <2>1 DEF HeapWithout, CacheTypeOK
  <2>2. CASE i \in table \ gone
    BY <2>2, <1>2
  <2>3. CASE i \notin table
    BY <2>3 DEF HeapWithout, CacheTypeOK
  <2> QED
    BY <2>1, <2>2, <2>3
<1>4. h \in [Id -> Blocks \union {Dead}]
  BY <1>3 DEF HeapWithout
<1>5. \A r \in Blocks : r # Dead
  BY GeometryAssumption, ProgramAssumption DEF Blocks, Dead
<1> HIDE DEF h
<1>6. \A i \in Id : h[i] # Dead <=> i \in Live \ gone
  BY <1>1, <1>2, <1>3, <1>5 DEF Live, CacheTypeOK
<1>7. ListsWithout(gone) = [p \in Pages |-> {i \in table \ gone : p \in RegPages(blk[i].pc)}]
  <2>1. ASSUME NEW p \in Pages
        PROVE  {i \in smc[p] : ~(i \in gone /\ p \in RegPages(blk[i].pc))}
                 = {i \in table \ gone : p \in RegPages(blk[i].pc)}
    <3>1. smc[p] = {i \in table : p \in RegPages(blk[i].pc)}
      BY DEF HeapOK
    <3> QED
      BY <3>1
  <2> QED
    BY <2>1 DEF ListsWithout
<1>8. OrderWithout(gone) \subseteq (table \ gone) \X (table \ gone)
  BY DEF OrderWithout, CacheTypeOK, HeapOK
<1> QED
  BY <1>2, <1>4, <1>6, <1>7, <1>8 DEF h

\* Dropping cached blocks leaves the heap well formed.
LEMMA DropHeap ==
  ASSUME CacheTypeOK, HeapOK, NEW gone \in SUBSET table, Drop(gone)
  PROVE  /\ CacheTypeOK'
         /\ HeapOK'
         /\ table' = table \ gone
         /\ Live' = Live \ gone
<1>1. /\ blk' = HeapWithout(gone) /\ table' = table \ gone
      /\ smc' = ListsWithout(gone) /\ colder' = OrderWithout(gone)
  BY DEF Drop
<1>2. Live' = Live \ gone
  BY <1>1, WithoutHeap DEF Live
<1>3. table' \subseteq Live' /\ table' \subseteq Id
  BY <1>1, <1>2 DEF HeapOK, CacheTypeOK
<1>4. blk' \in [Id -> Blocks \union {Dead}] /\ colder' \subseteq table' \X table'
  BY <1>1, WithoutHeap
<1>5. \A i \in table' : /\ blk'[i].pc = blk[i].pc
                        /\ \A w \in Ways : blk'[i].next[w] \in table' \union {NIL}
  BY <1>1, WithoutHeap
<1>6. smc' = [p \in Pages |-> {i \in table' : p \in RegPages(blk[i].pc)}]
  BY <1>1, WithoutHeap
<1> QED
  BY <1>1, <1>2, <1>3, <1>4, <1>5, <1>6 DEF HeapOK, CacheTypeOK

\* So does wiping the cache.
LEMMA DropAllHeap ==
  ASSUME CacheTypeOK, HeapOK, DropAll
  PROVE  CacheTypeOK' /\ HeapOK' /\ table' = {} /\ Live' = Live \ table
<1> table' = {}
  BY DEF DropAll
<1>1. CacheTypeOK'
  BY DEF DropAll, CacheTypeOK
<1>2. Live' = Live \ table
  BY DEF DropAll, CacheTypeOK, Live
<1>3. HeapOK'
  BY DEF DropAll, HeapOK
<1> QED
  BY <1>1, <1>2, <1>3

\* A step that leaves the cache alone.
LEMMA SameHeap ==
  ASSUME CacheTypeOK, HeapOK, UNCHANGED cacheVars
  PROVE  CacheTypeOK' /\ HeapOK' /\ table' = table /\ Live' = Live
BY DEF CacheTypeOK, HeapOK, cacheVars, Live

\* Stores keep the memory system's flags well typed.
LEMMA StoresType ==
  ASSUME MemTypeOK, NEW w, NEW bank \in BOOLEAN, Stores(w, bank)
  PROVE  MemTypeOK'
<1>1. pageState' \in [Pages -> 0..2]
  BY DEF Stores, MemTypeOK
<1>2. smcDirty' \in BOOLEAN
  BY Zenon DEF Stores, MemTypeOK
<1>3. bankDirty' \in BOOLEAN
  BY Zenon DEF Stores, MemTypeOK
<1> QED
  BY <1>1, <1>2, <1>3 DEF MemTypeOK

\* A step that leaves the memory system's flags alone.
LEMMA SameMem == ASSUME MemTypeOK, UNCHANGED memVars PROVE MemTypeOK'
<1>1. pageState' = pageState /\ smcDirty' = smcDirty /\ bankDirty' = bankDirty
  BY DEF memVars
<1> QED
  BY <1>1, Zenon DEF MemTypeOK

\* What servicing interrupts, interpreting an instruction and running a block do to
\* the guest state.
LEMMA ServiceType ==
  ASSUME MemTypeOK, LoopTypeOK, NEW dispatched \in BOOLEAN, ServiceInterrupts(dispatched)
  PROVE  MemTypeOK' /\ gpc' \in Site /\ stale' \subseteq Id
<1>1. CASE dispatched
  <2>1. PICK w \in SUBSET RamPages, bank \in BOOLEAN :
          Stores(w, bank) /\ stale' = stale \union Touched(blk, w, bank) /\ gpc' = Vector
    BY <1>1 DEF ServiceInterrupts
  <2>2. MemTypeOK'
    BY <2>1, StoresType
  <2> QED
    BY <2>1, <2>2, ProgramAssumption DEF Touched, LoopTypeOK
<1>2. CASE ~dispatched
  BY <1>2, SameMem DEF ServiceInterrupts, LoopTypeOK
<1> QED
  BY <1>1, <1>2

\* An interpreted instruction.
LEMMA InterpretType ==
  ASSUME MemTypeOK, LoopTypeOK, Interpret
  PROVE  MemTypeOK' /\ gpc' \in Site /\ stale' \subseteq Id
<1>1. PICK w \in SUBSET RamPages, bank \in BOOLEAN, t \in Goto[gpc] \union {Vector} :
        Stores(w, bank) /\ stale' = stale \union Touched(blk, w, bank) /\ gpc' = t
  BY DEF Interpret
<1>2. MemTypeOK'
  BY <1>1, StoresType
<1> QED
  BY <1>1, <1>2, ProgramAssumption DEF Touched, LoopTypeOK

\* A block's execution.
LEMMA ExecuteType ==
  ASSUME MemTypeOK, LoopTypeOK, NEW i, blk[i].pc \in Site, NEW h, Execute(i, h)
  PROVE  MemTypeOK' /\ gpc' \in Site /\ stale' \subseteq Id
<1>1. gpc' \in Site
  BY ProgramAssumption DEF Execute
<1>2. CASE blk[i].pc \in SelfLoops
  <2>1. PICK w \in SUBSET LoopPages :
          Stores(w, FALSE) /\ stale' = stale \union Touched(h, w, FALSE)
    BY <1>2 DEF Execute
  <2>2. MemTypeOK'
    BY <2>1, StoresType
  <2> QED
    BY <1>1, <2>1, <2>2 DEF Touched, LoopTypeOK
<1>3. CASE blk[i].pc \notin SelfLoops
  <2>1. PICK w \in SUBSET RamPages, raw \in SUBSET InlinePages, bank \in BOOLEAN :
          Stores(w, bank) /\ stale' = stale \union Touched(h, w \union raw, bank)
    BY <1>3 DEF Execute
  <2>2. MemTypeOK'
    BY <2>1, StoresType
  <2> QED
    BY <1>1, <2>1, <2>2 DEF Touched, LoopTypeOK
<1> QED
  BY <1>2, <1>3

\* Steps of the loop that touch neither the cache nor the guest's memory.
LEMMA SameInv ==
  ASSUME Inv, UNCHANGED << memVars, cacheVars, opt >>
  PROVE  CacheTypeOK' /\ HeapOK' /\ table' = table /\ Live' = Live /\ MemTypeOK' /\ opt' = opt
BY SameHeap, SameMem DEF Inv, TypeOK

\* prefetch_successors moves on, or returns.
LEMMA FramesNext ==
  ASSUME Inv, UNCHANGED << memVars, cacheVars, opt, gpc, prev, b, stale >>,
         pc' \in Phases, job' \in Jobs, frames # << >>,
         \/ frames' = Tail(frames)
         \/ frames[1].i < 2 /\ frames' = [frames EXCEPT ![1].i = @ + 1]
  PROVE  /\ LoopTypeOK'
         /\ Len(frames') <= Len(frames)
         /\ \A k \in 1..Len(frames') : frames'[k].blk \in table'
         /\ frames' # << >> => opt.evict = Bump /\ ~opt.noCache
<1>1. frames \in Seq(Activations) /\ Len(frames) \in Nat /\ Len(frames) > 0
  BY DEF Inv, TypeOK, LoopTypeOK
<1>2. table' = table
  BY DEF cacheVars
<1>3. frames' \in Seq(Activations) /\ Len(frames') <= Len(frames)
      /\ \A k \in 1..Len(frames') : frames'[k].blk \in table
  <2>1. CASE frames' = Tail(frames)
    <3>1. frames' \in Seq(Activations) /\ Len(frames') = Len(frames) - 1
      BY <1>1, <2>1
    <3>2. \A k \in 1..Len(frames') : frames'[k] = frames[k + 1]
      BY <1>1, <2>1
    <3> QED
      BY <1>1, <3>1, <3>2 DEF Inv, FramesOK
  <2>2. CASE frames[1].i < 2 /\ frames' = [frames EXCEPT ![1].i = @ + 1]
    <3>1. frames[1] \in Activations
      BY <1>1
    <3>2. [frames[1] EXCEPT !.i = @ + 1] \in Activations
      BY <2>2, <3>1 DEF Activations
    <3>3. frames' = [frames EXCEPT ![1] = [frames[1] EXCEPT !.i = @ + 1]]
      BY <2>2
    <3>4. frames' \in Seq(Activations) /\ Len(frames') = Len(frames)
      BY <1>1, <3>2, <3>3
    <3>5. ASSUME NEW k \in 1..Len(frames') PROVE frames'[k].blk = frames[k].blk
      <4>1. CASE k = 1
        <5>1. frames'[1] = [frames[1] EXCEPT !.i = @ + 1]
          BY <1>1, <3>3
        <5> QED
          BY <4>1, <5>1, <3>1 DEF Activations
      <4>2. CASE k # 1
        <5>1. frames \in [1..Len(frames) -> Activations]
          BY <1>1
        <5> QED
          BY <3>3, <3>4, <4>2, <5>1
      <4> QED
        BY <4>1, <4>2
    <3> QED
      BY <3>4, <3>5 DEF Inv, FramesOK
  <2> QED
    BY <2>1, <2>2
<1> QED
  BY <1>1, <1>2, <1>3 DEF Inv, TypeOK, LoopTypeOK, FramesOK

\* A prediction of a cached block is a cached block.
LEMMA PredictedCached ==
  ASSUME CacheTypeOK, HeapOK, NEW i \in table, NEW a, Predicts(i, a) # {}
  PROVE  Predicted(i, a) \in table
<1>1. Predicts(i, a) \subseteq Ways /\ \A w \in Predicts(i, a) : blk[i].next[w] # NIL
  BY DEF Predicts
<1>2. Predicts(i, a) \subseteq Nat
  BY <1>1, GeometryAssumption DEF Ways
<1>3. \E w \in Predicts(i, a) : \A v \in Predicts(i, a) : w <= v
  <2>1. PICK w \in Predicts(i, a) : \A v \in Predicts(i, a) : << v, w >> \notin OpToRel(<, Nat)
    BY <1>2, WFMin, NatLessThanWellFounded
  <2>2. \A v \in Predicts(i, a) : ~(v < w)
    BY <1>2, <2>1 DEF OpToRel
  <2> QED
    BY <1>2, <2>2
<1>4. Lowest(Predicts(i, a)) \in Predicts(i, a)
  BY <1>3 DEF Lowest
<1> QED
  BY <1>1, <1>4 DEF Predicted, HeapOK

\* The successor to prefetch next.
LEMMA WantedType == ASSUME Inv, Reading PROVE Wanted \in Site \union {NoSucc}
<1>1. frames \in Seq(Activations) /\ 1 \in 1..Len(frames)
  BY DEF Inv, TypeOK, LoopTypeOK, Reading
<1>2. frames[1] \in Activations /\ frames[1].i < 2
  BY <1>1 DEF Reading
<1>3. frames[1].blk \in table
  BY <1>1 DEF Inv, FramesOK
<1>4. frames[1].i \in 0..1
  BY <1>2 DEF Activations
<1>5. blk[frames[1].blk].pc \in Site
  BY <1>3 DEF Inv, TypeOK, CacheTypeOK, HeapOK, Live, Blocks
<1> QED
  BY <1>4, <1>5, ProgramAssumption DEF Wanted

\* The steps that change neither the cache nor the guest's memory.
LEMMA QuietNext ==
  ASSUME Inv, UNCHANGED << memVars, cacheVars, opt >>,
         \/ RunUntil \/ Leave \/ Chain \/ Lookup \/ PrefetchFail \/ PrefetchSkip
         \/ PrefetchCompile \/ PrefetchReturn \/ PrefetchDone \/ SelfLoopTaken
         \/ SelfLoopRefused \/ BatchEnd \/ StopCheck
  PROVE  Inv'
<1>1. CacheTypeOK' /\ HeapOK' /\ table' = table /\ Live' = Live /\ MemTypeOK' /\ opt' = opt
      /\ table \subseteq Live /\ table \subseteq Id
  BY SameInv DEF Inv, HeapOK, TypeOK, CacheTypeOK
<1> SUFFICES LoopTypeOK' /\ JobOK' /\ FramesOK' /\ PrevOK' /\ BlockOK'
  BY <1>1 DEF Inv, TypeOK
<1> USE DEF Inv, TypeOK, LoopTypeOK, Phases, JobOK, FramesOK, PrevOK, BlockOK
<1>2. CASE RunUntil
  BY <1>1, <1>2 DEF RunUntil
<1>3. CASE Leave
  BY <1>1, <1>3 DEF Leave
<1>4. CASE Chain
  <2>1. prev \in table /\ Predicts(prev, gpc) # {}
    BY <1>4 DEF Chain, ChainHit, Dispatching
  <2>2. Predicted(prev, gpc) \in table
    BY <2>1, PredictedCached
  <2> QED
    BY <1>1, <1>4, <2>2 DEF Chain, Dispatching
<1>5. CASE Lookup
  BY <1>1, <1>5 DEF Lookup, Dispatching, Found
<1>6. CASE PrefetchFail
  <2>1. pc' \in Phases /\ job' \in Jobs /\ frames # << >>
        /\ \/ frames' = Tail(frames)
           \/ frames[1].i < 2 /\ frames' = [frames EXCEPT ![1].i = @ + 1]
        /\ UNCHANGED << memVars, cacheVars, opt, gpc, prev, b, stale >>
    BY <1>6, WantedType DEF PrefetchFail, Reading, Failed, Wants, NoJob, Jobs
  <2>2. /\ LoopTypeOK'
        /\ \A k \in 1..Len(frames') : frames'[k].blk \in table'
        /\ frames' # << >> => opt.evict = Bump /\ ~opt.noCache
    BY <2>1, FramesNext, Zenon
  <2> QED
    BY <1>1, <1>6, <2>1, <2>2 DEF PrefetchFail, NoJob
<1>7. CASE PrefetchSkip
  <2>1. pc' \in Phases /\ job' \in Jobs /\ frames # << >>
        /\ \/ frames' = Tail(frames)
           \/ frames[1].i < 2 /\ frames' = [frames EXCEPT ![1].i = @ + 1]
        /\ UNCHANGED << memVars, cacheVars, opt, gpc, prev, b, stale >>
    BY <1>7, WantedType DEF PrefetchSkip, Reading, Failed, Wants, NoJob, Jobs
  <2>2. /\ LoopTypeOK'
        /\ \A k \in 1..Len(frames') : frames'[k].blk \in table'
        /\ frames' # << >> => opt.evict = Bump /\ ~opt.noCache
    BY <2>1, FramesNext, Zenon
  <2> QED
    BY <1>1, <1>7, <2>1, <2>2 DEF PrefetchSkip, Reading
<1>8. CASE PrefetchCompile
  <2>1. pc' \in Phases /\ job' \in Jobs /\ frames # << >>
        /\ \/ frames' = Tail(frames)
           \/ frames[1].i < 2 /\ frames' = [frames EXCEPT ![1].i = @ + 1]
        /\ UNCHANGED << memVars, cacheVars, opt, gpc, prev, b, stale >>
    BY <1>8, WantedType DEF PrefetchCompile, Reading, Failed, Wants, NoJob, Jobs
  <2>2. /\ LoopTypeOK'
        /\ \A k \in 1..Len(frames') : frames'[k].blk \in table'
        /\ frames' # << >> => opt.evict = Bump /\ ~opt.noCache
    BY <2>1, FramesNext, Zenon
  <2> QED
    BY <1>1, <1>8, <2>1, <2>2, WantedType DEF PrefetchCompile, Reading, Wants
<1>9. CASE PrefetchReturn
  <2>1. pc' \in Phases /\ job' \in Jobs /\ frames # << >>
        /\ \/ frames' = Tail(frames)
           \/ frames[1].i < 2 /\ frames' = [frames EXCEPT ![1].i = @ + 1]
        /\ UNCHANGED << memVars, cacheVars, opt, gpc, prev, b, stale >>
    BY <1>9 DEF PrefetchReturn
  <2>2. /\ LoopTypeOK'
        /\ \A k \in 1..Len(frames') : frames'[k].blk \in table'
        /\ frames' # << >> => opt.evict = Bump /\ ~opt.noCache
    BY <2>1, FramesNext, Zenon
  <2> QED
    BY <1>1, <1>9, <2>1, <2>2 DEF PrefetchReturn, Reading
<1>10. CASE PrefetchDone
  BY <1>1, <1>10 DEF PrefetchDone
<1>11. CASE SelfLoopTaken
  BY <1>1, <1>11 DEF SelfLoopTaken
<1>12. CASE SelfLoopRefused
  BY <1>1, <1>12 DEF SelfLoopRefused
<1>13. CASE BatchEnd
  BY <1>1, <1>13 DEF BatchEnd
<1>14. CASE StopCheck
  BY <1>1, <1>14 DEF StopCheck
<1> QED
  BY <1>2, <1>3, <1>4, <1>5, <1>6, <1>7, <1>8, <1>9, <1>10, <1>11, <1>12, <1>13, <1>14

\* Steps in which the guest runs, the cache left alone.
LEMMA GuestNext ==
  ASSUME Inv, Service \/ HaltLoop \/ EiStep \/ FallbackStep \/ CompileFail \/ Spin
  PROVE  Inv'
<1>1. CacheTypeOK' /\ HeapOK' /\ table' = table /\ Live' = Live /\ opt' = opt
      /\ table \subseteq Live /\ table \subseteq Id
  <2>1. UNCHANGED cacheVars /\ opt' = opt
    BY DEF Service, HaltLoop, EiStep, FallbackStep, CompileFail, Spin
  <2> QED
    BY <2>1, SameHeap DEF Inv, HeapOK, TypeOK, CacheTypeOK
<1>2. MemTypeOK' /\ gpc' \in Site /\ stale' \subseteq Id
  <2>1. CASE Service \/ HaltLoop
    BY <2>1, ServiceType DEF Service, HaltLoop, Inv, TypeOK
  <2>2. CASE EiStep \/ FallbackStep \/ CompileFail
    BY <2>2, InterpretType DEF EiStep, FallbackStep, CompileFail, Inv, TypeOK
  <2>3. CASE Spin
    <3>1. blk[b].pc \in Site /\ Execute(b, blk)
      BY <2>3 DEF Spin, Inv, PrevOK, HeapOK, TypeOK, CacheTypeOK, Live, Blocks
    <3> QED
      BY <3>1, ExecuteType DEF Inv, TypeOK
  <2> QED
    BY <2>1, <2>2, <2>3
<1> SUFFICES LoopTypeOK' /\ JobOK' /\ FramesOK' /\ PrevOK' /\ BlockOK'
  BY <1>1, <1>2 DEF Inv, TypeOK
<1> USE DEF Inv, TypeOK, LoopTypeOK, Phases, JobOK, FramesOK, PrevOK, BlockOK
<1>3. CASE Service
  BY <1>1, <1>2, <1>3 DEF Service
<1>4. CASE HaltLoop
  BY <1>1, <1>2, <1>4 DEF HaltLoop
<1>5. CASE EiStep
  BY <1>1, <1>2, <1>5 DEF EiStep
<1>6. CASE FallbackStep
  BY <1>1, <1>2, <1>6 DEF FallbackStep
<1>7. CASE CompileFail
  BY <1>1, <1>2, <1>7 DEF CompileFail, Failed, NoJob, Jobs
<1>8. CASE Spin
  BY <1>1, <1>2, <1>8 DEF Spin
<1> QED
  BY <1>3, <1>4, <1>5, <1>6, <1>7, <1>8

\* Invalidating pages drops the cached blocks on their lists.
LEMMA InvalidateHeap ==
  ASSUME Inv, NEW ps \in SUBSET Pages, Invalidate(ps)
  PROVE  /\ CacheTypeOK' /\ HeapOK'
         /\ table' \subseteq table /\ Live' = Live \ (table \ table')
         /\ stale' \subseteq Id
<1> DEFINE gone == UNION {smc[p] : p \in ps}
<1>1. gone \in SUBSET table /\ Drop(gone)
  BY DEF Invalidate, Inv, HeapOK
<1>2. CacheTypeOK' /\ HeapOK' /\ table' = table \ gone /\ Live' = Live \ gone
  BY <1>1, DropHeap DEF Inv, TypeOK
<1>3. stale' = stale \ gone
  BY DEF Invalidate
<1> HIDE DEF gone
<1> QED
  BY <1>1, <1>2, <1>3 DEF Inv, TypeOK, LoopTypeOK

\* Steps that drop blocks.
LEMMA DropNext ==
  ASSUME Inv, \/ InvalidateAddr \/ Restart \/ BankCheck \/ SmcCheck \/ EvictColdest
              \/ EmitFails \/ EvictAll
  PROVE  Inv'
<1> USE DEF Inv, TypeOK, LoopTypeOK, Phases, JobOK, FramesOK, PrevOK, BlockOK
<1>1. CASE InvalidateAddr
  <2>1. PICK p \in Pages : Invalidate({p})
    BY <1>1 DEF InvalidateAddr
  <2>2. /\ CacheTypeOK' /\ HeapOK'
        /\ table' \subseteq table /\ Live' = Live \ (table \ table') /\ stale' \subseteq Id
    BY <2>1, InvalidateHeap
  <2>3. MemTypeOK'
    BY <1>1, SameMem DEF InvalidateAddr
  <2> QED
    BY <1>1, <2>2, <2>3 DEF InvalidateAddr
<1>2. CASE Restart
  <2>1. CacheTypeOK' /\ HeapOK' /\ table' = {} /\ Live' = Live \ table
    BY <1>2, DropAllHeap DEF Restart
  <2>2. MemTypeOK'
    BY <1>2, SameMem DEF Restart
  <2> QED
    BY <1>2, <2>1, <2>2 DEF Restart
<1>3. CASE BankCheck
  <2>1. /\ CacheTypeOK' /\ HeapOK' /\ stale' \subseteq Id
        /\ table' \subseteq table
        /\ prev' \in table' \union {NIL}
    <3>1. CASE bankDirty
      BY <1>3, <3>1, InvalidateHeap, MemoryMapAssumption DEF BankCheck
    <3>2. CASE ~bankDirty
      BY <1>3, <3>2, SameHeap DEF BankCheck
    <3> QED
      BY <3>1, <3>2
  <2>2. MemTypeOK'
    <3>1. pageState' = pageState /\ smcDirty' = smcDirty
      BY <1>3 DEF BankCheck
    <3>2. bankDirty' = FALSE \/ bankDirty' = bankDirty
      BY <1>3 DEF BankCheck
    <3> QED
      BY <3>1, <3>2, Zenon DEF MemTypeOK
  <2> QED
    BY <1>3, <2>1, <2>2 DEF BankCheck
<1>4. CASE SmcCheck
  <2>1. /\ CacheTypeOK' /\ HeapOK' /\ stale' \subseteq Id
        /\ table' \subseteq table
        /\ prev' \in table' \union {NIL}
    <3>1. CASE smcDirty
      <4>1. DirtyPages \in SUBSET Pages
        BY DEF DirtyPages
      <4> QED
        BY <1>4, <3>1, <4>1, InvalidateHeap DEF SmcCheck
    <3>2. CASE ~smcDirty
      BY <1>4, <3>2, SameHeap DEF SmcCheck
    <3> QED
      BY <3>1, <3>2
  <2>2. MemTypeOK'
    <3>1. pageState' \in [Pages -> 0..2]
      BY <1>4 DEF SmcCheck, MemTypeOK
    <3>2. bankDirty' = bankDirty /\ (smcDirty' = FALSE \/ smcDirty' = smcDirty)
      BY <1>4 DEF SmcCheck
    <3> QED
      BY <3>1, <3>2, Zenon DEF MemTypeOK
  <2> QED
    BY <1>4, <2>1, <2>2 DEF SmcCheck
<1>5. CASE EvictColdest
  <2>1. PICK victim \in Coldest :
          /\ Drop({victim})
          /\ prev' = IF prev = victim THEN NIL ELSE prev
          /\ stale' = stale \ {victim}
    BY <1>5 DEF EvictColdest
  <2>2. {victim} \in SUBSET table
    BY DEF Coldest
  <2>3. CacheTypeOK' /\ HeapOK' /\ table' = table \ {victim} /\ Live' = Live \ {victim}
    BY <2>1, <2>2, DropHeap
  <2>4. MemTypeOK'
    BY <1>5, SameMem DEF EvictColdest
  <2> QED
    BY <1>5, <2>1, <2>3, <2>4 DEF EvictColdest, Coldness, Bump
<1>6. CASE EmitFails
  <2> DEFINE gone == Overwritten(Span(Place(opt.evict, cc, Need[job.site]), Need[job.site]))
  <2>1. /\ Drop(gone) /\ prev' = IF prev \in gone THEN NIL ELSE prev
        /\ stale' = stale \ gone /\ pc = "alloc" /\ pc' = "lost"
        /\ UNCHANGED << opt, gpc, memVars, b, job, frames >>
    BY <1>6 DEF EmitFails
  <2>2. gone \in SUBSET table /\ (opt.evict = Bump => gone = {})
    BY DEF Overwritten, Ring, Bump
  <2> HIDE DEF gone
  <2>3. CacheTypeOK' /\ HeapOK' /\ table' = table \ gone /\ Live' = Live \ gone
    BY <2>1, <2>2, DropHeap
  <2>4. MemTypeOK'
    BY <2>1, SameMem
  <2>5. LoopTypeOK' /\ JobOK' /\ PrevOK'
    BY <2>1, <2>2, <2>3
  <2>6. FramesOK' /\ BlockOK'
    BY <2>1, <2>2, <2>3
  <2> QED
    BY <2>3, <2>4, <2>5, <2>6
<1>7. CASE EvictAll
  <2>1. CacheTypeOK' /\ HeapOK' /\ table' = {} /\ Live' = Live \ table
    BY <1>7, DropAllHeap DEF EvictAll
  <2>2. MemTypeOK'
    BY <1>7, SameMem DEF EvictAll
  <2> QED
    BY <1>7, <2>1, <2>2 DEF EvictAll, SecondTry, Jobs, Failed
<1> QED
  BY <1>1, <1>2, <1>3, <1>4, <1>5, <1>7, <1>6

\* gbjit_compile_block is called.
LEMMA CompileNext == ASSUME Inv, Compile PROVE Inv'
<1>1. CacheTypeOK' /\ HeapOK' /\ table' = table /\ Live' = Live
  BY DEF Compile, Inv, TypeOK, CacheTypeOK, HeapOK, Live
<1>2. MemTypeOK'
  BY SameMem DEF Compile, Inv, TypeOK
<1>3. LoopTypeOK'
  BY DEF Compile, Dispatching, Inv, TypeOK, LoopTypeOK, Phases, Jobs
<1>4. JobOK' /\ FramesOK' /\ PrevOK' /\ BlockOK'
  BY <1>1 DEF Compile, Dispatching, Inv, TypeOK, LoopTypeOK, JobOK, FramesOK, PrevOK, BlockOK
<1> QED
  BY <1>1, <1>2, <1>3, <1>4 DEF Inv, TypeOK

\* A block is never one of the marks for "no block here".
LEMMA LiveBlocks ==
  ASSUME CacheTypeOK
  PROVE  \A i \in Id : i \in Live <=> blk[i] \in Blocks
BY GeometryAssumption, ProgramAssumption DEF CacheTypeOK, Live, Blocks, Dead

\* Stamping a cached block relates cached blocks only.
LEMMA StampOrder ==
  ASSUME NEW t \in SUBSET Id, NEW order \in SUBSET (t \X t), NEW i \in t
  PROVE  Stamp(order, t, i) \subseteq t \X t
BY DEF Stamp

\* The previous block learns its successor.
LEMMA LinkNext == ASSUME Inv, Link PROVE Inv'
<1> USE DEF Inv, TypeOK
<1>1. pc = "link" /\ opt' = opt /\ table' = table /\ smc' = smc
  BY DEF Link
<1>2. b \in Live /\ (opt.noCache \/ b \in table) /\ gpc \in Site /\ gpc \in Addrs
  BY <1>1, ProgramAssumption DEF BlockOK, LoopTypeOK
<1>3. /\ blk' \in [Id -> Blocks \union {Dead}]
      /\ \A i \in table : blk'[i].pc = blk[i].pc
      /\ \A i \in table : \A w \in Ways : blk'[i].next[w] \in table \union {NIL}
      /\ Live' = Live
  <2>1. CASE opt.noCache \/ prev = NIL \/ Present
    <3>1. blk' = blk
      BY <2>1 DEF Link
    <3> QED
      BY <3>1 DEF HeapOK, CacheTypeOK, Live
  <2>2. CASE ~(opt.noCache \/ prev = NIL \/ Present)
    <3>1. prev \in table /\ prev \in Id /\ b \in table /\ blk[prev] \in Blocks
      BY <1>1, <1>2, <2>2, LiveBlocks DEF PrevOK, HeapOK, CacheTypeOK
    <3>2. blk' = [blk EXCEPT ![prev] = Learns(blk[prev])]
      BY <2>2 DEF Link
    <3>3. SlotAfter(blk[prev].victim) \in Ways
      BY <3>1, GeometryAssumption DEF SlotAfter, Blocks, Ways
    <3>4. /\ Learns(blk[prev]) \in Blocks
          /\ Learns(blk[prev]).pc = blk[prev].pc
          /\ \A w \in Ways : Learns(blk[prev]).next[w] \in {b, blk[prev].next[w]}
      BY <1>2, <3>1, <3>3 DEF Learns, Blocks, CacheTypeOK
    <3>5. blk' \in [Id -> Blocks \union {Dead}]
      BY <3>2, <3>4 DEF CacheTypeOK
    <3>6. \A i \in Id : blk'[i] = IF i = prev THEN Learns(blk[prev]) ELSE blk[i]
      BY <3>2 DEF CacheTypeOK
    <3>7. \A i \in table : \A w \in Ways : blk'[i].next[w] \in table \union {NIL}
      BY <3>1, <3>4, <3>6 DEF HeapOK, CacheTypeOK
    <3>8. Live' = Live
      <4>1. \A i \in Id : i # prev => blk'[i] = blk[i]
        BY <3>6
      <4>2. blk'[prev] # Dead /\ blk[prev] # Dead
        BY <3>1, <3>4, <3>6, GeometryAssumption, ProgramAssumption DEF Dead, Blocks
      <4> QED
        BY <4>1, <4>2 DEF Live
    <3> QED
      BY <3>1, <3>4, <3>5, <3>6, <3>7, <3>8 DEF CacheTypeOK
  <2> QED
    BY <2>1, <2>2
<1>4. colder' \subseteq table \X table
  <2>1. CASE opt.noCache
    BY <2>1 DEF Link, HeapOK
  <2>2. CASE ~opt.noCache
    BY <1>2, <2>2, StampOrder DEF Link, HeapOK, CacheTypeOK
  <2> QED
    BY <2>1, <2>2
<1>5. HeapOK' /\ CacheTypeOK'
  BY <1>1, <1>3, <1>4 DEF HeapOK, CacheTypeOK
<1>6. MemTypeOK'
  BY SameMem DEF Link
<1>7. LoopTypeOK'
  BY DEF Link, LoopTypeOK, Phases
<1>8. JobOK' /\ FramesOK' /\ PrevOK' /\ BlockOK'
  BY <1>1, <1>2, <1>3 DEF Link, JobOK, FramesOK, PrevOK, BlockOK
<1> QED
  BY <1>5, <1>6, <1>7, <1>8

\* The block runs.
LEMMA EnterNext == ASSUME Inv, Enter PROVE Inv'
<1> USE DEF Inv, TypeOK
<1>1. b \in Live /\ b \in Id /\ blk[b].pc \in Site /\ (opt.noCache \/ b \in table)
  BY LiveBlocks DEF Enter, BlockOK, Live, Blocks
<1>2. MemTypeOK' /\ gpc' \in Site /\ stale' \subseteq Id
  BY <1>1, ExecuteType DEF Enter
<1>3. /\ CacheTypeOK' /\ HeapOK' /\ table' = table
      /\ prev' \in table' \union {NIL} /\ prev' \in {b, NIL}
      /\ opt.noCache => prev' = NIL
  <2>1. CASE opt.noCache
    <3>1. table = {} /\ blk' = [blk EXCEPT ![b] = Dead] /\ prev' = NIL
      BY <2>1 DEF Enter, HeapAfterRun, PrevOK
    <3> QED
      BY <3>1 DEF Enter, CacheTypeOK, HeapOK
  <2>2. CASE ~opt.noCache
    <3>1. blk' = blk /\ prev' = b
      BY <2>2 DEF Enter, HeapAfterRun
    <3> QED
      BY <1>1, <2>2, <3>1 DEF Enter, CacheTypeOK, HeapOK, Live
  <2> QED
    BY <2>1, <2>2
<1>4. LoopTypeOK'
  BY <1>1, <1>2, <1>3 DEF Enter, LoopTypeOK, Phases
<1>5. JobOK' /\ FramesOK' /\ PrevOK' /\ BlockOK'
  BY <1>1, <1>3 DEF Enter, JobOK, FramesOK, PrevOK, BlockOK
<1> QED
  BY <1>2, <1>3, <1>4, <1>5

\* The chain batch runs a predicted block.
LEMMA BatchEnterNext == ASSUME Inv, BatchEnter PROVE Inv'
<1> USE DEF Inv, TypeOK
<1> DEFINE n == Predicted(prev, gpc)
<1>1. n \in table /\ Execute(n, blk) /\ prev' = n /\ colder' = Stamp(colder, table, n)
  <2>1. prev \in table /\ Predicts(prev, gpc) # {}
    BY DEF BatchEnter, PrevOK
  <2> QED
    BY <2>1, PredictedCached DEF BatchEnter
<1> HIDE DEF n
<1>2. n \in Id /\ blk[n].pc \in Site /\ ~opt.noCache
  BY <1>1, LiveBlocks DEF CacheTypeOK, HeapOK, Blocks, PrevOK
<1>3. MemTypeOK' /\ gpc' \in Site /\ stale' \subseteq Id
  BY <1>1, <1>2, ExecuteType
<1>4. colder' \subseteq table \X table
  BY <1>1, StampOrder DEF HeapOK, CacheTypeOK
<1>5. CacheTypeOK' /\ HeapOK' /\ table' = table /\ Live' = Live
  BY <1>4 DEF BatchEnter, CacheTypeOK, HeapOK, Live
<1>6. LoopTypeOK'
  BY <1>1, <1>2, <1>3 DEF BatchEnter, LoopTypeOK
<1>7. JobOK' /\ FramesOK' /\ PrevOK' /\ BlockOK'
  BY <1>1, <1>2, <1>5, GeometryAssumption
  DEF BatchEnter, JobOK, FramesOK, PrevOK, BlockOK
<1> QED
  BY <1>3, <1>5, <1>6, <1>7
\* The compile succeeds.  Only the ring evicts while it allocates, and then no
\* prefetch is under way.
LEMMA AllocNext == ASSUME NoEvictingPrefetch, Inv, AllocOk PROVE Inv'
<1> USE DEF Inv, TypeOK
<1> DEFINE s    == job.site
           o    == Place(opt.evict, cc, Need[s])
           gone == Overwritten(Span(o, Need[s]))
           left == IF job.ctx = "prefetch" THEN frames[1].left - 1 ELSE opt.depth
<1>1. PICK n \in Id \ Live :
        /\ blk' = [HeapWithout(gone) EXCEPT ![n] = NewBlock(s)]
        /\ prev' = IF prev \in gone THEN NIL ELSE prev
        /\ stale' = stale \ (gone \union {n})
        /\ IF opt.noCache
           THEN UNCHANGED << table, smc, pageState, colder >>
           ELSE /\ table' = (table \ gone) \union {n}
                /\ Insert(n, ListsWithout(gone))
                /\ colder' = Stamp(OrderWithout(gone), table', n)
        /\ frames' = Activated(n, left)
        /\ b' = IF job.ctx = "prefetch" THEN b ELSE n
  BY DEF AllocOk
<1>2. /\ pc = "alloc" /\ pc' = "prefetch" /\ job' = NoJob
      /\ UNCHANGED << opt, gpc, smcDirty, bankDirty >>
  BY DEF AllocOk
<1>3. gone \in SUBSET table /\ (opt.evict = Bump => gone = {})
  BY DEF Overwritten, Ring, Bump
<1>4. n \in Id /\ n \notin table /\ s \in Site
  BY <1>1, <1>2 DEF HeapOK, JobOK
<1>5. frames # << >> \/ frames' # << >> => opt.evict = Bump /\ ~opt.noCache
  <2>1. opt.evict = Bump \/ opt.depth = 0 \/ opt.noCache
    BY DEF LoopTypeOK, NoEvictingPrefetch
  <2>2. job.ctx = "prefetch" => frames # << >>
    BY DEF JobOK
  <2>3. frames # << >> => opt.evict = Bump /\ ~opt.noCache
    BY DEF FramesOK
  <2>4. opt.depth \in Nat
    BY OptionsAssumption DEF LoopTypeOK
  <2>5. frames' # << >> => frames # << >> \/ (left > 0 /\ ~opt.noCache)
    BY <1>1 DEF Activated
  <2> QED
    BY <2>1, <2>2, <2>3, <2>4, <2>5
<1> HIDE DEF s, o, gone
<1>6. NewBlock(s) \in Blocks /\ NewBlock(s).pc = s
      /\ \A w \in Ways : NewBlock(s).next[w] = NIL
  <2>1. 0 \in Addrs /\ 1 \in Ways
    BY GeometryAssumption DEF Addrs, Ways
  <2> QED
    BY <1>4, <2>1 DEF NewBlock, Blocks
<1>7. /\ blk' \in [Id -> Blocks \union {Dead}]
      /\ Live' = (Live \ gone) \union {n}
      /\ blk'[n] = NewBlock(s)
      /\ \A i \in table \ gone :
           blk'[i].pc = blk[i].pc
           /\ \A w \in Ways : blk'[i].next[w] \in (table \ gone) \union {NIL}
  <2>1. blk' \in [Id -> Blocks \union {Dead}]
        /\ \A i \in Id : blk'[i] = IF i = n THEN NewBlock(s) ELSE HeapWithout(gone)[i]
    BY <1>1, <1>3, <1>6, WithoutHeap
  <2>2. NewBlock(s) # Dead
    BY <1>6, GeometryAssumption, ProgramAssumption DEF Blocks, Dead
  <2>3. Live' = (Live \ gone) \union {n}
    BY <1>3, <1>4, <2>1, <2>2, WithoutHeap DEF Live
  <2>4. \A i \in table \ gone : blk'[i] = HeapWithout(gone)[i]
    BY <1>4, <2>1 DEF CacheTypeOK
  <2> QED
    BY <1>3, <1>4, <2>1, <2>3, <2>4, WithoutHeap
<1>8. CASE opt.noCache
  <2>1. table = {} /\ table' = {} /\ gone = {} /\ UNCHANGED << smc, pageState, colder >>
    BY <1>1, <1>3, <1>8 DEF PrevOK
  <2>2. CacheTypeOK' /\ HeapOK'
    BY <1>7, <2>1 DEF CacheTypeOK, HeapOK
  <2>3. MemTypeOK'
    BY <1>2, <2>1, SameMem DEF memVars
  <2>4. frames = << >> /\ frames' = << >> /\ job.ctx # "prefetch"
    BY <1>5, <1>8 DEF JobOK
  <2>5. LoopTypeOK'
    BY <1>1, <1>2, <2>4 DEF LoopTypeOK, Phases, NoJob, Jobs
  <2>6. JobOK' /\ FramesOK' /\ PrevOK' /\ BlockOK'
    BY <1>1, <1>2, <1>7, <1>8, <2>1, <2>4, GeometryAssumption
    DEF JobOK, FramesOK, PrevOK, BlockOK, NoJob
  <2> QED
    BY <2>2, <2>3, <2>5, <2>6
<1>9. CASE ~opt.noCache
  <2>1. table' = (table \ gone) \union {n} /\ Insert(n, ListsWithout(gone))
        /\ colder' = Stamp(OrderWithout(gone), table', n)
    BY <1>1, <1>9
  <2>2. table' \subseteq Id /\ table' \subseteq Live'
    BY <1>4, <1>7, <2>1 DEF CacheTypeOK, HeapOK
  <2>3. /\ smc' \in [Pages -> SUBSET Id]
        /\ \A p \in Pages : smc'[p] = {i \in table' : p \in RegPages(blk'[i].pc)}
    <3>1. smc' = [p \in Pages |-> IF p \in RegPages(s) THEN ListsWithout(gone)[p] \union {n}
                                                       ELSE ListsWithout(gone)[p]]
      BY <2>1 DEF Insert, s
    <3>2. \A p \in Pages :
            ListsWithout(gone)[p] = {i \in table \ gone : p \in RegPages(blk[i].pc)}
      BY <1>3, WithoutHeap
    <3>3. \A p \in Pages : smc'[p] = {i \in table' : p \in RegPages(blk'[i].pc)}
      BY <1>4, <1>6, <1>7, <2>1, <3>1, <3>2
    <3> QED
      BY <2>2, <3>1, <3>3
  <2>4. colder' \subseteq table' \X table'
    <3>1. OrderWithout(gone) \subseteq table' \X table'
      BY <1>3, <2>1, WithoutHeap
    <3> QED
      BY <2>1, <2>2, <3>1, StampOrder
  <2>5. \A i \in table' : \A w \in Ways : blk'[i].next[w] \in table' \union {NIL}
    BY <1>6, <1>7, <2>1
  <2>6. CacheTypeOK' /\ HeapOK'
    BY <1>7, <2>2, <2>3, <2>4, <2>5 DEF CacheTypeOK, HeapOK
  <2>7. MemTypeOK'
    <3>1. pageState' \in [Pages -> 0..2]
      BY <2>1 DEF Insert, MemTypeOK
    <3> QED
      BY <1>2, <3>1, Zenon DEF MemTypeOK
  <2>8. /\ frames' \in Seq(Activations)
        /\ \A k \in 1..Len(frames') : frames'[k].blk \in table'
    <3>1. CASE frames' = frames
      BY <1>3, <1>5, <2>1, <3>1 DEF LoopTypeOK, FramesOK
    <3>2. CASE frames' # frames
      <4> DEFINE top == [blk |-> n, i |-> 0, left |-> left]
      <4>1. left > 0 /\ frames' = << top >> \o frames
        BY <1>1, <3>2 DEF Activated
      <4>2. left \in Nat
        <5>1. ASSUME job.ctx = "prefetch" PROVE frames[1].left \in Nat
          <6>1. frames \in Seq(Activations) /\ frames # << >>
            BY <5>1 DEF JobOK, LoopTypeOK
          <6>2. frames[1] \in Activations
            BY <6>1
          <6> QED
            BY <6>2 DEF Activations
        <5>2. opt.depth \in Nat
          BY OptionsAssumption DEF LoopTypeOK
        <5> QED
          BY <4>1, <5>1, <5>2
      <4>3. top \in Activations
        BY <1>4, <4>2 DEF Activations
      <4> HIDE DEF top, left
      <4>4. frames \in Seq(Activations) /\ << top >> \in Seq(Activations)
        BY <4>3 DEF LoopTypeOK
      <4>5. frames' \in Seq(Activations) /\ Len(frames') = Len(frames) + 1
        BY <4>1, <4>4
      <4>6. \A k \in 1..Len(frames') : frames'[k] = IF k = 1 THEN top ELSE frames[k - 1]
        BY <4>1, <4>4
      <4>7. frames' # << >>
        BY <4>4, <4>5
      <4>8. top.blk = n
        BY DEF top
      <4>9. ASSUME NEW k \in 1..Len(frames') PROVE frames'[k].blk \in table'
        <5>1. CASE k = 1
          BY <2>1, <4>6, <4>8, <5>1
        <5>2. CASE k # 1
          <6>1. k - 1 \in 1..Len(frames)
            BY <4>4, <4>5, <5>2
          <6>2. frames[k - 1].blk \in table /\ gone = {}
            BY <1>3, <1>5, <4>7, <6>1 DEF FramesOK
          <6> QED
            BY <2>1, <4>6, <5>2, <6>2
        <5> QED
          BY <5>1, <5>2
      <4> QED
        BY <4>5, <4>9
    <3> QED
      BY <3>1, <3>2
  <2>9. LoopTypeOK'
    BY <1>1, <1>2, <1>4, <2>8 DEF LoopTypeOK, Phases, NoJob, Jobs
  <2>10. JobOK' /\ FramesOK'
    BY <1>2, <1>5, <2>8 DEF JobOK, FramesOK, NoJob
  <2>11. PrevOK'
    BY <1>1, <1>2, <1>9, <2>1 DEF PrevOK
  <2>12. BlockOK'
    <3>1. CASE job.ctx = "prefetch"
      <4>1. b' = b /\ b \in table /\ gone = {}
        BY <1>1, <1>3, <1>5, <1>9, <3>1 DEF BlockOK, JobOK
      <4> QED
        BY <2>1, <2>2, <4>1 DEF BlockOK
    <3>2. CASE job.ctx # "prefetch"
      BY <1>1, <1>7, <2>1, <3>2 DEF BlockOK
    <3> QED
      BY <3>1, <3>2
  <2> QED
    BY <2>6, <2>7, <2>9, <2>10, <2>11, <2>12
<1> QED
  BY <1>8, <1>9

\* Every step keeps the invariant.
LEMMA InvNext == ASSUME NoEvictingPrefetch, Inv, [Next]_vars PROVE Inv'
<1>1. CASE RunUntil \/ Leave \/ Chain \/ Lookup \/ PrefetchFail \/ PrefetchSkip
           \/ PrefetchCompile \/ PrefetchReturn \/ PrefetchDone \/ SelfLoopTaken
           \/ SelfLoopRefused \/ BatchEnd \/ StopCheck
  <2>1. UNCHANGED << memVars, cacheVars, opt >>
    BY <1>1 DEF RunUntil, Leave, Chain, Lookup, PrefetchFail, PrefetchSkip, PrefetchCompile,
                PrefetchReturn, PrefetchDone, SelfLoopTaken, SelfLoopRefused, BatchEnd, StopCheck
  <2> QED
    BY <1>1, <2>1, QuietNext
<1>2. CASE Service \/ HaltLoop \/ EiStep \/ FallbackStep \/ CompileFail \/ Spin
  BY <1>2, GuestNext
<1>3. CASE \/ InvalidateAddr \/ Restart \/ BankCheck \/ SmcCheck \/ EvictColdest
           \/ EmitFails \/ EvictAll
  BY <1>3, DropNext
<1>4. CASE Compile \/ AllocOk \/ Link \/ Enter \/ BatchEnter
  BY <1>4, CompileNext, AllocNext, LinkNext, EnterNext, BatchEnterNext
<1>5. CASE UNCHANGED vars
  <2>1. UNCHANGED << cacheVars, memVars >>
    BY <1>5 DEF vars, cacheVars, memVars
  <2>2. CacheTypeOK' /\ HeapOK' /\ table' = table /\ Live' = Live /\ MemTypeOK'
    BY <2>1, SameHeap, SameMem DEF Inv, TypeOK
  <2>3. LoopTypeOK' /\ JobOK' /\ FramesOK' /\ PrevOK' /\ BlockOK'
    BY <1>5, <2>2 DEF vars, Inv, TypeOK, LoopTypeOK, JobOK, FramesOK, PrevOK, BlockOK
  <2> QED
    BY <2>2, <2>3 DEF Inv, TypeOK
<1> QED
  BY <1>1, <1>2, <1>3, <1>4, <1>5 DEF Next, Loop

\* The inductive invariant holds in every build in which no prefetch can evict.
THEOREM InvariantHolds == ASSUME NoEvictingPrefetch PROVE Spec => []Inv
<1>1. Init => Inv
  BY InvInit
<1>2. Inv /\ [Next]_vars => Inv'
  BY InvNext
<1> QED
  BY <1>1, <1>2, PTL DEF Spec

\* The state of the block cache and of the run loop (dispatcher.c:249-1113) is well
\* typed, whatever the guest program, the page layout, the arena and the options.
THEOREM TypeCorrect == ASSUME NoEvictingPrefetch PROVE Spec => []TypeOK
<1>1. Inv => TypeOK
  BY DEF Inv
<1> QED
  BY <1>1, InvariantHolds, PTL

\* The invariant leaves nothing in the hands of the loop or of the prefetcher that
\* the cache has freed.
LEMMA InvNoDangling == Inv => NoDangling
<1> SUFFICES ASSUME Inv PROVE NoDangling
  OBVIOUS
<1> USE DEF Inv, HeapOK
<1>1. Held \subseteq Live
  <2>1. pc # "idle" /\ prev # NIL => prev \in Live
    BY DEF PrevOK
  <2>2. pc \in {"prefetch", "link", "enter", "spin"} \/ job.ctx = "prefetch" => b \in Live
    BY DEF PrevOK, BlockOK
  <2>3. \A k \in DOMAIN frames : frames[k].blk \in Live
    BY DEF FramesOK, TypeOK, LoopTypeOK
  <2> QED
    BY <2>1, <2>2, <2>3 DEF Held
<1>2. \A p \in Pages : smc[p] \subseteq table
  OBVIOUS
<1>3. \A i \in table : \A w \in Ways : blk[i].next[w] # NIL => blk[i].next[w] \in table
  OBVIOUS
<1> QED
  BY <1>1, <1>2, <1>3 DEF NoDangling

\* No pointer to a gbjit_block outlives the block, in every build in which no
\* prefetch can evict (the shipped ones: bump allocation, or prefetch off).
THEOREM NoDanglingPointer == ASSUME NoEvictingPrefetch PROVE Spec => []NoDangling
BY InvariantHolds, InvNoDangling, PTL

-----------------------------------------------------------------------------
(* Pages *)

LEMMA PageOfAddr ==
  ASSUME NEW a \in Addrs
  PROVE  PageOf(a) \in Pages
<1> DEFINE q == a \div PageSize
           r == a % PageSize
<1>1. /\ PageSize \in Nat \ {0} /\ PageCount \in Nat \ {0} /\ a \in Nat
      /\ a < PageSize * PageCount
  BY GeometryAssumption DEF Addrs
<1>2. q \in Nat /\ r \in 0..(PageSize - 1) /\ a = PageSize * q + r
  BY <1>1, Division
<1> HIDE DEF q, r
<1>3. ASSUME q >= PageCount PROVE FALSE
  <2>1. PICK d \in Nat : q = PageCount + d
    <3>1. q - PageCount \in Nat /\ q = PageCount + (q - PageCount)
      BY <1>1, <1>2, <1>3
    <3> QED
      BY <3>1
  <2>2. PageSize * q = PageSize * PageCount + PageSize * d
    BY <1>1, <2>1
  <2>3. PageSize * d \in Nat
    BY <1>1
  <2>4. PageSize * PageCount \in Nat /\ PageSize * q \in Nat /\ r \in Nat
    BY <1>1, <1>2
  <2> QED
    BY <1>1, <1>2, <2>2, <2>3, <2>4
<1>4. q \in 0..(PageCount - 1)
  BY <1>1, <1>2, <1>3
<1> QED
  BY <1>4 DEF PageOf, Pages, q

\* A block is registered on guest pages.
LEMMA RegisteredPages ==
  ASSUME NEW s \in Site
  PROVE  RegPages(s) \subseteq Pages
<1>1. s \in Addrs /\ EndOf[s] \in Addrs
  BY ProgramAssumption
<1>2. FirstPage(s) \in Pages
  BY <1>1, PageOfAddr DEF FirstPage
<1>3. LastPage(s) \in Pages
  <2>1. ASSUME EndOf[s] > 0 PROVE PageOf(EndOf[s] - 1) \in Pages
    <3>1. EndOf[s] - 1 \in Addrs
      BY <1>1, <2>1, GeometryAssumption DEF Addrs
    <3> QED
      BY <3>1, PageOfAddr
  <2> QED
    BY <1>2, <2>1 DEF LastPage
<1> QED
  BY <1>2, <1>3, GeometryAssumption DEF RegPages, Pages

-----------------------------------------------------------------------------
(* The cache is coherent *)

\* mmu_write8 is told of every page a cached block was registered on.
Marked == \A i \in table : \A p \in RegPages(blk[i].pc) : pageState[p] # 0

\* What is compiled is not cached, and for the loop it is where the guest is.
JobFresh ==
  pc \in {"alloc", "lost"} => /\ ~opt.noCache => Found(job.site) = {}
                              /\ job.ctx \in {"run", "retry"} => job.site = gpc

\* The loop holds the block for the guest's pc from the lookup until it is entered.
Here == pc \in {"prefetch", "link", "enter", "spin"} \/ job.ctx = "prefetch" => blk[b].pc = gpc

\* Every block is cached, or with the cache off in the hands of the loop.
Owned ==
  /\ ~opt.noCache => Live \subseteq table
  /\ opt.noCache => Live = IF pc \in {"prefetch", "link", "enter"} THEN {b} ELSE {}

Coherent == Marked /\ OneBlockPerPc /\ JobFresh /\ ChainCoherent /\ Here /\ Owned

\* A step after which the cached blocks are some of those before, each without some
\* of its predictions.
Shrinks ==
  /\ table' \subseteq table
  /\ \A i \in table' :
       /\ blk'[i].pc = blk[i].pc
       /\ \A w \in Ways : \/ blk'[i].next[w] = NIL
                          \/ /\ blk'[i].next[w] = blk[i].next[w]
                             /\ blk'[i].nextPc[w] = blk[i].nextPc[w]

\* Such a step keeps what concerns cached blocks alone.
LEMMA ShrinksCoherent ==
  ASSUME Coherent, HeapOK', Shrinks
  PROVE  /\ OneBlockPerPc' /\ ChainCoherent'
         /\ \A a : Found(a) = {} => Found(a)' = {}
<1>1. OneBlockPerPc'
  BY DEF Shrinks, Coherent, OneBlockPerPc
<1>2. ASSUME NEW i \in table', NEW w \in Ways, blk'[i].next[w] # NIL
      PROVE  blk'[blk'[i].next[w]].pc = blk'[i].nextPc[w]
  <2>1. blk'[i].next[w] \in table'
    BY <1>2 DEF HeapOK
  <2>2. i \in table /\ blk'[i].next[w] = blk[i].next[w] /\ blk'[i].nextPc[w] = blk[i].nextPc[w]
    BY <1>2 DEF Shrinks
  <2>3. blk[blk[i].next[w]].pc = blk[i].nextPc[w]
    BY <1>2, <2>2 DEF Coherent, ChainCoherent
  <2>4. blk'[blk'[i].next[w]].pc = blk[blk'[i].next[w]].pc
    BY <2>1 DEF Shrinks
  <2> QED
    BY <2>2, <2>3, <2>4
<1>3. ASSUME NEW a, Found(a) = {} PROVE Found(a)' = {}
  BY <1>3 DEF Found, Shrinks
<1> QED
  BY <1>1, <1>2, <1>3 DEF ChainCoherent

\* A page keeps its mark as long as a block is registered on it.
LEMMA KeepsMarks ==
  ASSUME Inv, Inv', Marked, Shrinks,
         \A p \in Pages : \/ pageState[p] # 0 => pageState'[p] # 0
                          \/ \A i \in table' : p \notin RegPages(blk[i].pc)
  PROVE  Marked'
<1> SUFFICES ASSUME NEW i \in table', NEW p \in RegPages(blk'[i].pc)
             PROVE  pageState'[p] # 0
  BY DEF Marked
<1>1. i \in table /\ p \in RegPages(blk[i].pc)
  BY DEF Shrinks
<1>2. blk[i].pc \in Site
  BY <1>1 DEF Inv, TypeOK, CacheTypeOK, HeapOK, Live, Blocks
<1>3. p \in Pages
  BY <1>1, <1>2, RegisteredPages
<1> QED
  BY <1>1, <1>3 DEF Marked

\* Steps that leave the cache alone.
LEMMA SameShrinks ==
  ASSUME table' = table, blk' = blk
  PROVE  Shrinks
BY DEF Shrinks

\* Blocks dropped.
LEMMA DropShrinks ==
  ASSUME CacheTypeOK, HeapOK, NEW gone \in SUBSET table, Drop(gone)
  PROVE  Shrinks /\ Live' = Live \ gone /\ table' = table \ gone
<1>1. Live' = Live \ gone /\ table' = table \ gone
  BY DropHeap
<1>2. ASSUME NEW i \in table \ gone, NEW w \in Ways
      PROVE  /\ blk'[i].pc = blk[i].pc
             /\ \/ blk'[i].next[w] = NIL
                \/ /\ blk'[i].next[w] = blk[i].next[w]
                   /\ blk'[i].nextPc[w] = blk[i].nextPc[w]
  <2>1. blk'[i] = Forgets(blk[i], gone)
    BY DEF Drop, HeapWithout, CacheTypeOK
  <2>2. blk[i] \in Blocks
    BY LiveBlocks DEF HeapOK, CacheTypeOK
  <2> QED
    BY <2>1, <2>2 DEF Forgets, Blocks
<1> QED
  BY <1>1, <1>2, WithoutHeap DEF Shrinks, Drop

\* A prediction found for an address leads to the block there.
LEMMA PredictedHere ==
  ASSUME Inv, Coherent, NEW i \in table, NEW a, Predicts(i, a) # {}
  PROVE  Predicted(i, a) \in table /\ blk[Predicted(i, a)].pc = a
<1> USE DEF Inv, TypeOK
<1>1. Predicts(i, a) \subseteq Ways /\ Predicts(i, a) \subseteq Nat
  BY GeometryAssumption DEF Predicts, Ways
<1>2. \E w \in Predicts(i, a) : \A v \in Predicts(i, a) : w <= v
  <2>1. PICK w \in Predicts(i, a) : \A v \in Predicts(i, a) : << v, w >> \notin OpToRel(<, Nat)
    BY <1>1, WFMin, NatLessThanWellFounded
  <2>2. \A v \in Predicts(i, a) : ~(v < w)
    BY <1>1, <2>1 DEF OpToRel
  <2> QED
    BY <1>1, <2>2
<1>3. Lowest(Predicts(i, a)) \in Predicts(i, a)
  BY <1>2 DEF Lowest
<1> QED
  BY <1>1, <1>3, PredictedCached DEF Predicted, Predicts, Coherent, ChainCoherent

\* The steps that change neither the cache nor the guest's memory.
LEMMA QuietCoherent ==
  ASSUME Inv, Inv', Coherent, UNCHANGED << memVars, cacheVars, opt >>,
         \/ RunUntil \/ Leave \/ Chain \/ Lookup \/ PrefetchFail \/ PrefetchSkip
         \/ PrefetchCompile \/ PrefetchReturn \/ PrefetchDone \/ SelfLoopTaken
         \/ SelfLoopRefused \/ BatchEnd \/ StopCheck
  PROVE  Coherent'
<1>1. /\ table' = table /\ blk' = blk /\ opt' = opt /\ pageState' = pageState
      /\ Live' = Live
  BY DEF cacheVars, memVars, Live
<1>2. Shrinks
  BY <1>1, SameShrinks
<1>3. OneBlockPerPc' /\ ChainCoherent' /\ Marked'
  BY <1>1, <1>2, ShrinksCoherent, KeepsMarks DEF Inv, Coherent
<1>4. \A a : Found(a)' = Found(a)
  BY <1>1 DEF Found
<1> SUFFICES JobFresh' /\ Here' /\ Owned'
  BY <1>3 DEF Coherent
<1> USE DEF Coherent, JobFresh, Here, Owned
<1>5. CASE RunUntil \/ Leave \/ SelfLoopRefused \/ BatchEnd \/ StopCheck
  BY <1>1, <1>5 DEF RunUntil, Leave, SelfLoopRefused, BatchEnd, StopCheck, Inv, JobOK,
     TypeOK, LoopTypeOK
<1>6. CASE Chain
  <2>1. prev \in table /\ Predicts(prev, gpc) # {} /\ pc = "dispatch" /\ ~opt.noCache
    BY <1>6 DEF Chain, ChainHit, Dispatching, Inv, PrevOK
  <2>2. blk[b'].pc = gpc
    BY <1>6, <2>1, PredictedHere DEF Chain
  <2> QED
    BY <1>1, <1>6, <2>1, <2>2 DEF Chain
<1>7. CASE Lookup
  BY <1>1, <1>7 DEF Lookup, Dispatching, Found
<1>8. CASE PrefetchCompile
  <2>1. pc = "prefetch" /\ Found(Wanted) = {} /\ job' = [site |-> Wanted, ctx |-> "prefetch"]
        /\ pc' = "alloc" /\ frames # << >>
    BY <1>8 DEF PrefetchCompile, Reading, Wants
  <2>2. ~opt.noCache
    BY <2>1 DEF Inv, FramesOK
  <2> QED
    BY <1>1, <1>4, <1>8, <2>1, <2>2 DEF PrefetchCompile
<1>9. CASE PrefetchFail
  <2>1. job.ctx = "prefetch" /\ ~opt.noCache
    BY <1>9 DEF PrefetchFail, Inv, JobOK, FramesOK
  <2> QED
    BY <1>1, <1>9, <2>1 DEF PrefetchFail, NoJob
<1>10. CASE PrefetchSkip \/ PrefetchReturn
  BY <1>1, <1>10 DEF PrefetchSkip, PrefetchReturn, Reading
<1>11. CASE PrefetchDone
  BY <1>1, <1>11 DEF PrefetchDone
<1>12. CASE SelfLoopTaken
  BY <1>1, <1>12 DEF SelfLoopTaken
<1> QED
  BY <1>5, <1>6, <1>7, <1>8, <1>9, <1>10, <1>11, <1>12

\* A store leaves no page without the mark it had.
LEMMA StoresMark ==
  ASSUME MemTypeOK, NEW w, NEW bank, Stores(w, bank)
  PROVE  \A p \in Pages : pageState[p] # 0 => pageState'[p] # 0
BY DEF Stores, MemTypeOK

LEMMA ServiceMark ==
  ASSUME MemTypeOK, NEW d, ServiceInterrupts(d)
  PROVE  \A p \in Pages : pageState[p] # 0 => pageState'[p] # 0
<1>1. CASE d
  <2>1. PICK w, bank : Stores(w, bank)
    BY <1>1 DEF ServiceInterrupts
  <2> QED
    BY <2>1, StoresMark
<1>2. CASE ~d
  BY <1>2 DEF ServiceInterrupts, memVars
<1> QED
  BY <1>1, <1>2

LEMMA InterpretMark ==
  ASSUME MemTypeOK, Interpret
  PROVE  \A p \in Pages : pageState[p] # 0 => pageState'[p] # 0
<1>1. PICK w, bank : Stores(w, bank)
  BY DEF Interpret
<1> QED
  BY <1>1, StoresMark

LEMMA ExecuteMark ==
  ASSUME MemTypeOK, NEW i, NEW h, Execute(i, h)
  PROVE  \A p \in Pages : pageState[p] # 0 => pageState'[p] # 0
<1>1. PICK w, bank : Stores(w, bank)
  BY DEF Execute
<1> QED
  BY <1>1, StoresMark

\* Steps in which the guest runs, the cache left alone.
LEMMA GuestCoherent ==
  ASSUME Inv, Inv', Coherent,
         Service \/ HaltLoop \/ EiStep \/ FallbackStep \/ CompileFail \/ Spin
  PROVE  Coherent'
<1>1. table' = table /\ blk' = blk /\ opt' = opt /\ Live' = Live
  BY DEF Service, HaltLoop, EiStep, FallbackStep, CompileFail, Spin, cacheVars, Live
<1>2. Shrinks
  BY <1>1, SameShrinks
<1>3. \A p \in Pages : pageState[p] # 0 => pageState'[p] # 0
  <2>1. CASE Service \/ HaltLoop
    BY <2>1, ServiceMark DEF Service, HaltLoop, Inv, TypeOK
  <2>2. CASE EiStep \/ FallbackStep \/ CompileFail
    BY <2>2, InterpretMark DEF EiStep, FallbackStep, CompileFail, Inv, TypeOK
  <2>3. CASE Spin
    BY <2>3, ExecuteMark DEF Spin, Inv, TypeOK
  <2> QED
    BY <2>1, <2>2, <2>3
<1>4. OneBlockPerPc' /\ ChainCoherent' /\ Marked'
  BY <1>2, <1>3, ShrinksCoherent, KeepsMarks DEF Inv, Coherent
<1> SUFFICES JobFresh' /\ Here' /\ Owned'
  BY <1>4 DEF Coherent
<1> USE DEF Coherent, JobFresh, Here, Owned
<1>5. CASE Service
  BY <1>1, <1>5 DEF Service, Inv, JobOK, TypeOK, LoopTypeOK
<1>6. CASE HaltLoop \/ EiStep \/ FallbackStep
  BY <1>1, <1>6 DEF HaltLoop, EiStep, FallbackStep, Inv, JobOK
<1>7. CASE CompileFail
  BY <1>1, <1>7 DEF CompileFail, NoJob, Failed
<1>8. CASE Spin
  <2>1. (~opt.noCache /\ b' = b) \/ pc' = "bank"
    BY <1>8 DEF Spin, Inv, PrevOK
  <2>2. pc' = "spin" => gpc' = blk[b].pc
    BY <1>8 DEF Spin
  <2> QED
    BY <1>1, <1>8, <2>1, <2>2 DEF Spin, Inv, JobOK
<1> QED
  BY <1>5, <1>6, <1>7, <1>8

\* Steps that drop blocks.
LEMMA DropCoherent ==
  ASSUME Inv, Inv', Coherent,
         \/ InvalidateAddr \/ Restart \/ BankCheck \/ SmcCheck \/ EvictColdest
         \/ EmitFails \/ EvictAll
  PROVE  Coherent'
<1> USE DEF Inv, TypeOK
<1>1. ASSUME NEW ps \in SUBSET Pages, Invalidate(ps)
      PROVE  /\ Shrinks /\ Live' = Live \ (table \ table')
             /\ \A p \in ps : \A i \in table' : p \notin RegPages(blk[i].pc)
  <2> DEFINE gone == UNION {smc[p] : p \in ps}
  <2>1. gone \in SUBSET table /\ Drop(gone)
    BY <1>1 DEF Invalidate, HeapOK
  <2>2. \A p \in ps : \A i \in table \ gone : p \notin RegPages(blk[i].pc)
    BY DEF HeapOK
  <2> HIDE DEF gone
  <2> QED
    BY <2>1, <2>2, DropShrinks
<1>2. ASSUME Shrinks,
             \A p \in Pages : \/ pageState[p] # 0 => pageState'[p] # 0
                              \/ \A i \in table' : p \notin RegPages(blk[i].pc)
      PROVE  OneBlockPerPc' /\ ChainCoherent' /\ Marked'
  BY <1>2, ShrinksCoherent, KeepsMarks DEF Coherent
<1>3. ASSUME DropAll
      PROVE  Shrinks /\ Live' = Live \ table /\ table' = {}
  BY <1>3, DropAllHeap DEF Shrinks, DropAll
<1>4. ASSUME opt' = opt, Live' \subseteq Live, Live \ table \subseteq Live', Live' \ table' \subseteq Live \ table,
             pc \notin {"prefetch", "link", "enter"}, pc' \notin {"prefetch", "link", "enter"}
      PROVE  Owned'
  BY <1>4 DEF Coherent, Owned
<1>5. CASE InvalidateAddr
  <2>1. PICK p \in Pages : Invalidate({p})
    BY <1>5 DEF InvalidateAddr
  <2>2. /\ UNCHANGED << opt, pc, gpc, memVars, prev, b, job, frames >> /\ pc = "idle"
    BY <1>5 DEF InvalidateAddr
  <2>3. Shrinks /\ Live' = Live \ (table \ table')
    BY <1>1, <2>1
  <2>4. OneBlockPerPc' /\ ChainCoherent' /\ Marked'
    BY <1>2, <2>2, <2>3 DEF memVars
  <2>5. Owned'
    BY <1>4, <2>2, <2>3
  <2>6. JobFresh' /\ Here'
    BY <2>2 DEF JobFresh, Here, JobOK
  <2> QED
    BY <2>4, <2>5, <2>6 DEF Coherent
<1>6. CASE Restart
  <2>1. UNCHANGED << opt, pc, gpc, memVars, prev, b, job, frames >> /\ pc = "idle"
    BY <1>6 DEF Restart
  <2>2. Shrinks /\ Live' = Live \ table /\ table' = {}
    BY <1>3, <1>6 DEF Restart
  <2>3. OneBlockPerPc' /\ ChainCoherent' /\ Marked'
    BY <1>2, <2>1, <2>2 DEF memVars
  <2>4. Owned'
    BY <1>4, <2>1, <2>2
  <2>5. JobFresh' /\ Here'
    BY <2>1 DEF JobFresh, Here, JobOK
  <2> QED
    BY <2>3, <2>4, <2>5 DEF Coherent
<1>7. CASE BankCheck
  <2>1. /\ pc = "bank" /\ pc' = "smc"
        /\ UNCHANGED << opt, gpc, pageState, smcDirty, b, job, frames >>
    BY <1>7 DEF BankCheck
  <2>2. Shrinks /\ Live' = Live \ (table \ table')
    <3>1. CASE bankDirty
      BY <1>1, <1>7, <3>1, MemoryMapAssumption DEF BankCheck
    <3>2. CASE ~bankDirty
      BY <1>7, <3>2, SameShrinks DEF BankCheck, cacheVars, Live
    <3> QED
      BY <3>1, <3>2
  <2>3. OneBlockPerPc' /\ ChainCoherent' /\ Marked'
    BY <1>2, <2>1, <2>2
  <2>4. Owned'
    BY <1>4, <2>1, <2>2
  <2>5. JobFresh' /\ Here'
    BY <2>1 DEF JobFresh, Here, JobOK
  <2> QED
    BY <2>3, <2>4, <2>5 DEF Coherent
<1>8. CASE SmcCheck
  <2>1. pc = "smc" /\ pc' = "service" /\ UNCHANGED << opt, gpc, bankDirty, b, job, frames >>
    BY <1>8 DEF SmcCheck
  <2>2. /\ Shrinks /\ Live' = Live \ (table \ table')
        /\ \A p \in Pages : \/ pageState[p] # 0 => pageState'[p] # 0
                            \/ \A i \in table' : p \notin RegPages(blk[i].pc)
    <3>1. CASE smcDirty
      <4>1. DirtyPages \in SUBSET Pages
        BY DEF DirtyPages
      <4>2. /\ Invalidate(DirtyPages)
            /\ pageState' = [p \in Pages |-> IF p \in DirtyPages THEN 0 ELSE pageState[p]]
        BY <1>8, <3>1 DEF SmcCheck
      <4>3. /\ Shrinks /\ Live' = Live \ (table \ table')
            /\ \A p \in DirtyPages : \A i \in table' : p \notin RegPages(blk[i].pc)
        BY <1>1, <4>1, <4>2
      <4>4. \A p \in Pages \ DirtyPages : pageState'[p] = pageState[p]
        BY <4>2
      <4> QED
        BY <4>3, <4>4
    <3>2. CASE ~smcDirty
      BY <1>8, <3>2, SameShrinks DEF SmcCheck, cacheVars, Live
    <3> QED
      BY <3>1, <3>2
  <2>3. OneBlockPerPc' /\ ChainCoherent' /\ Marked'
    BY <1>2, <2>2
  <2>4. Owned'
    BY <1>4, <2>1, <2>2
  <2>5. JobFresh' /\ Here'
    BY <2>1 DEF JobFresh, Here, JobOK
  <2> QED
    BY <2>3, <2>4, <2>5 DEF Coherent
<1>9. CASE EvictColdest
  <2>1. PICK victim \in Coldest : Drop({victim})
    BY <1>9 DEF EvictColdest
  <2>2. pc = "alloc" /\ UNCHANGED << opt, pc, gpc, memVars, b, job, frames >>
        /\ opt.evict = Coldness
    BY <1>9 DEF EvictColdest
  <2>3. {victim} \in SUBSET table
    BY DEF Coldest
  <2>4. Shrinks /\ Live' = Live \ {victim} /\ table' = table \ {victim}
    BY <2>1, <2>3, DropShrinks
  <2>5. OneBlockPerPc' /\ ChainCoherent' /\ Marked' /\ \A a : Found(a) = {} => Found(a)' = {}
    BY <1>2, <2>2, <2>4, ShrinksCoherent DEF memVars
  <2>6. Owned'
    BY <1>4, <2>2, <2>3, <2>4
  <2>7. JobFresh'
    BY <2>2, <2>5 DEF JobFresh, Coherent
  <2>8. Here'
    <3>1. job.ctx # "prefetch"
      BY <2>2 DEF JobOK, FramesOK, Coldness, Bump
    <3> QED
      BY <2>2, <3>1 DEF Here
  <2> QED
    BY <2>5, <2>6, <2>7, <2>8 DEF Coherent
<1>10. CASE EmitFails
  <2> DEFINE gone == Overwritten(Span(Place(opt.evict, cc, Need[job.site]), Need[job.site]))
  <2>1. /\ Drop(gone) /\ pc = "alloc" /\ pc' = "lost"
        /\ UNCHANGED << opt, gpc, memVars, b, job, frames >>
    BY <1>10 DEF EmitFails
  <2>2. gone \in SUBSET table /\ (opt.evict = Bump => gone = {})
    BY DEF Overwritten, Ring, Bump
  <2> HIDE DEF gone
  <2>3. Shrinks /\ Live' = Live \ gone /\ table' = table \ gone
    BY <2>1, <2>2, DropShrinks
  <2>4. OneBlockPerPc' /\ ChainCoherent' /\ Marked' /\ \A a : Found(a) = {} => Found(a)' = {}
    BY <1>2, <2>1, <2>3, ShrinksCoherent DEF memVars
  <2>5. Owned'
    BY <1>4, <2>1, <2>2, <2>3
  <2>6. JobFresh'
    BY <2>1, <2>4 DEF JobFresh, Coherent
  <2>7. Here'
    <3>1. job.ctx = "prefetch" => opt.evict = Bump /\ ~opt.noCache
      BY DEF JobOK, FramesOK
    <3>2. job.ctx = "prefetch" => b \in table /\ blk'[b].pc = blk[b].pc
      BY <2>2, <2>3, <3>1 DEF BlockOK, Shrinks
    <3> QED
      BY <2>1, <3>2 DEF Here, Coherent
  <2> QED
    BY <2>4, <2>5, <2>6, <2>7 DEF Coherent
<1>11. CASE EvictAll
  <2>1. /\ pc \in {"alloc", "lost"} /\ pc' = "alloc"
        /\ job.ctx = "run" /\ job' = [job EXCEPT !.ctx = "retry"]
        /\ UNCHANGED << opt, gpc, memVars, b, frames >>
    BY <1>11 DEF EvictAll, Failed, SecondTry
  <2>2. Shrinks /\ Live' = Live \ table /\ table' = {}
    BY <1>3, <1>11 DEF EvictAll
  <2>3. OneBlockPerPc' /\ ChainCoherent' /\ Marked'
    BY <1>2, <2>1, <2>2 DEF memVars
  <2>4. Owned'
    BY <1>4, <2>1, <2>2
  <2>5. job'.ctx = "retry" /\ job'.site = job.site
    BY <2>1 DEF LoopTypeOK, Jobs
  <2>6. JobFresh' /\ Here'
    BY <2>1, <2>2, <2>5 DEF JobFresh, Here, Coherent, Found
  <2> QED
    BY <2>3, <2>4, <2>6 DEF Coherent
<1> QED
  BY <1>5, <1>6, <1>7, <1>8, <1>9, <1>11, <1>10

\* A compile begins.
LEMMA CompileCoherent == ASSUME Inv, Inv', Coherent, Compile PROVE Coherent'
<1>1. /\ table' = table /\ blk' = blk /\ opt' = opt /\ pageState' = pageState
      /\ Live' = Live /\ \A a : Found(a)' = Found(a)
  BY DEF Compile, memVars, Live, Found
<1>2. Shrinks
  BY <1>1, SameShrinks
<1>3. OneBlockPerPc' /\ ChainCoherent' /\ Marked'
  BY <1>1, <1>2, ShrinksCoherent, KeepsMarks DEF Inv, Coherent
<1>4. JobFresh' /\ Here' /\ Owned'
  BY <1>1 DEF Compile, Dispatching, JobFresh, Here, Owned, Coherent
<1> QED
  BY <1>3, <1>4 DEF Coherent

\* A compile ends: the ring's victims are gone, and the new block is the only one at
\* an address that had none.
LEMMA AllocCoherent ==
  ASSUME NoEvictingPrefetch, Inv, Inv', Coherent, AllocOk
  PROVE  Coherent'
<1> USE DEF Inv, TypeOK
<1> DEFINE s    == job.site
           gone == Overwritten(Span(Place(opt.evict, cc, Need[s]), Need[s]))
<1>1. PICK n \in Id \ Live :
        /\ blk' = [HeapWithout(gone) EXCEPT ![n] = NewBlock(s)]
        /\ IF opt.noCache
           THEN UNCHANGED << table, smc, pageState, colder >>
           ELSE /\ table' = (table \ gone) \union {n}
                /\ Insert(n, ListsWithout(gone))
        /\ b' = IF job.ctx = "prefetch" THEN b ELSE n
  BY DEF AllocOk
<1>2. pc = "alloc" /\ pc' = "prefetch" /\ job' = NoJob /\ opt' = opt /\ gpc' = gpc
  BY DEF AllocOk
<1>3. gone \in SUBSET table /\ (opt.evict = Bump => gone = {})
  BY DEF Overwritten, Ring, Bump
<1>4. n \in Id /\ n \notin table /\ s \in Site
  BY <1>1, <1>2 DEF HeapOK, JobOK
<1>5. job.ctx = "prefetch" => b \in table /\ gone = {} /\ ~opt.noCache
  BY <1>3 DEF JobOK, FramesOK, BlockOK
<1> HIDE DEF s, gone
<1>6. /\ NewBlock(s).pc = s /\ NewBlock(s) # Dead
      /\ \A w \in Ways : NewBlock(s).next[w] = NIL
  <2>1. NewBlock(s).pc # NIL
    BY <1>4, GeometryAssumption, ProgramAssumption DEF NewBlock
  <2> QED
    BY <2>1 DEF NewBlock, Dead
<1>7. /\ \A i \in Id : blk'[i] = IF i = n THEN NewBlock(s) ELSE HeapWithout(gone)[i]
      /\ Live' = (Live \ gone) \union {n}
  <2>1. \A i \in Id : blk'[i] = IF i = n THEN NewBlock(s) ELSE HeapWithout(gone)[i]
    BY <1>1, <1>3, WithoutHeap
  <2> QED
    BY <1>3, <1>4, <1>6, <2>1, WithoutHeap DEF Live
<1>8. Here'
  <2>1. job.ctx \in {"run", "retry", "prefetch"}
    BY <1>2 DEF JobOK, LoopTypeOK, Jobs
  <2>2. CASE job.ctx = "prefetch"
    <3>1. b \in table /\ b' = b /\ b \in Id /\ b # n /\ gone = {}
      BY <1>1, <1>4, <1>5, <2>2 DEF CacheTypeOK
    <3>2. blk'[b].pc = blk[b].pc
      BY <1>3, <1>7, <3>1, WithoutHeap
    <3> QED
      BY <1>2, <2>2, <3>1, <3>2 DEF Here, Coherent
  <2>3. CASE job.ctx # "prefetch"
    <3>1. s = gpc /\ b' = n
      BY <1>1, <1>2, <2>1, <2>3 DEF Coherent, JobFresh, s
    <3> QED
      BY <1>2, <1>4, <1>6, <1>7, <3>1 DEF Here
  <2> QED
    BY <2>2, <2>3
<1>9. JobFresh'
  BY <1>2 DEF JobFresh
<1>10. CASE opt.noCache
  <2>1. table = {} /\ table' = {} /\ gone = {} /\ Live = {}
    BY <1>1, <1>2, <1>3, <1>10 DEF PrevOK, Coherent, Owned
  <2>2. Owned'
    BY <1>1, <1>2, <1>5, <1>7, <1>10, <2>1 DEF Owned
  <2> QED
    BY <1>8, <1>9, <2>1, <2>2 DEF Coherent, Marked, OneBlockPerPc, ChainCoherent
<1>11. CASE ~opt.noCache
  <2>1. table' = (table \ gone) \union {n} /\ Insert(n, ListsWithout(gone))
    BY <1>1, <1>11
  <2>2. /\ \A i \in table \ gone : i \in Id /\ i # n /\ blk'[i] = HeapWithout(gone)[i]
        /\ blk'[n] = NewBlock(s)
    BY <1>4, <1>7 DEF CacheTypeOK
  <2>3. \A i \in table \ gone : blk'[i].pc = blk[i].pc
    BY <1>3, <2>2, WithoutHeap
  <2>4. \A i \in table : blk[i].pc # s
    BY <1>2, <1>11 DEF Coherent, JobFresh, Found, s
  <2>5. OneBlockPerPc'
    BY <1>6, <2>1, <2>2, <2>3, <2>4 DEF OneBlockPerPc, Coherent
  <2>6. ChainCoherent'
    <3> SUFFICES ASSUME NEW i \in table', NEW w \in Ways, blk'[i].next[w] # NIL
                 PROVE  blk'[blk'[i].next[w]].pc = blk'[i].nextPc[w]
      BY DEF ChainCoherent
    <3>1. i \in table \ gone
      BY <1>6, <2>1, <2>2
    <3>2. blk[i] \in Blocks /\ blk'[i] = Forgets(blk[i], gone)
      <4>1. blk[i] \in Blocks
        BY <3>1, LiveBlocks DEF HeapOK, CacheTypeOK
      <4>2. HeapWithout(gone)[i] = Forgets(blk[i], gone)
        BY <3>1 DEF HeapWithout, CacheTypeOK
      <4> QED
        BY <2>2, <3>1, <4>1, <4>2
    <3>3. blk'[i].next[w] = blk[i].next[w] /\ blk'[i].nextPc[w] = blk[i].nextPc[w]
          /\ blk[i].next[w] \notin gone
      BY <3>2 DEF Forgets, Blocks
    <3>4. blk[i].next[w] \in table \ gone
      BY <3>1, <3>3 DEF HeapOK
    <3>5. blk[blk[i].next[w]].pc = blk[i].nextPc[w]
      BY <3>1, <3>3 DEF Coherent, ChainCoherent
    <3> QED
      BY <2>3, <3>3, <3>4, <3>5
  <2>7. Marked'
    <3>1. pageState' = [p \in Pages |-> IF p \in RegPages(s) /\ pageState[p] = 0 THEN 1
                                                                        ELSE pageState[p]]
      BY <2>1 DEF Insert, s
    <3>2. \A p \in Pages : pageState[p] # 0 => pageState'[p] # 0
      BY <3>1
    <3>3. ASSUME NEW i \in table \ gone, NEW p \in RegPages(blk'[i].pc)
          PROVE  pageState'[p] # 0
      <4>1. blk[i].pc \in Site
        BY LiveBlocks DEF HeapOK, CacheTypeOK, Blocks
      <4>2. p \in Pages /\ p \in RegPages(blk[i].pc)
        BY <2>3, <3>3, <4>1, RegisteredPages
      <4> QED
        BY <3>2, <4>2 DEF Coherent, Marked
    <3>4. \A p \in RegPages(s) : pageState'[p] # 0
      BY <1>4, <3>1, RegisteredPages
    <3> QED
      BY <1>6, <2>1, <2>2, <3>3, <3>4 DEF Marked
  <2>8. Owned'
    BY <1>2, <1>7, <1>11, <2>1 DEF Owned, Coherent
  <2> QED
    BY <1>8, <1>9, <2>5, <2>6, <2>7, <2>8 DEF Coherent
<1> QED
  BY <1>10, <1>11

\* The predecessor learns where the block it predicts starts.
LEMMA LinkCoherent == ASSUME Inv, Inv', Coherent, Link PROVE Coherent'
<1> USE DEF Inv, TypeOK
<1>1. /\ pc = "link" /\ pc' = "enter" /\ table' = table /\ pageState' = pageState
      /\ UNCHANGED << opt, gpc, b, job >>
  BY DEF Link, memVars
<1>2. b \in Live /\ b \in Id /\ (opt.noCache \/ b \in table) /\ blk[b].pc = gpc
      /\ job.ctx = "none"
  BY <1>1 DEF BlockOK, Coherent, Here, JobOK, Live
<1>3. CASE opt.noCache \/ prev = NIL \/ Present
  <2>1. blk' = blk /\ Live' = Live
    BY <1>3 DEF Link, Live
  <2>2. OneBlockPerPc' /\ ChainCoherent' /\ Marked'
    BY <1>1, <2>1, SameShrinks, ShrinksCoherent, KeepsMarks DEF Coherent
  <2> QED
    BY <1>1, <1>2, <2>1, <2>2 DEF Coherent, JobFresh, Here, Owned
<1>4. CASE ~(opt.noCache \/ prev = NIL \/ Present)
  <2>1. prev \in table /\ prev \in Id /\ b \in table /\ blk[prev] \in Blocks
    BY <1>1, <1>2, <1>4, LiveBlocks DEF PrevOK, HeapOK, CacheTypeOK
  <2>2. \A i \in Id : blk'[i] = IF i = prev THEN Learns(blk[prev]) ELSE blk[i]
    BY <1>4 DEF Link, CacheTypeOK
  <2>3. /\ Learns(blk[prev]).pc = blk[prev].pc
        /\ \A w \in Ways :
             \/ /\ Learns(blk[prev]).next[w] = b
                /\ Learns(blk[prev]).nextPc[w] = gpc
             \/ /\ Learns(blk[prev]).next[w] = blk[prev].next[w]
                /\ Learns(blk[prev]).nextPc[w] = blk[prev].nextPc[w]
    BY <2>1 DEF Learns, Blocks
  <2>4. \A i \in Id : blk'[i].pc = blk[i].pc
    BY <2>2, <2>3
  <2>5. Live' = Live
    <3>1. \A i \in Id : i # prev => blk'[i] = blk[i]
      BY <2>2
    <3>2. blk'[prev] # Dead /\ blk[prev] # Dead
      <4>1. blk'[prev] \in Blocks
        BY <2>1, LiveBlocks, <1>1 DEF HeapOK, CacheTypeOK, Live, Blocks
      <4> QED
        BY <2>1, <4>1, GeometryAssumption, ProgramAssumption DEF Dead, Blocks
    <3> QED
      BY <3>1, <3>2 DEF Live
  <2>6. ChainCoherent'
    <3> SUFFICES ASSUME NEW i \in table, NEW w \in Ways, blk'[i].next[w] # NIL
                 PROVE  blk'[blk'[i].next[w]].pc = blk'[i].nextPc[w]
      BY <1>1 DEF ChainCoherent
    <3>1. i \in Id /\ blk'[i].next[w] \in Id
      BY <1>1 DEF HeapOK, CacheTypeOK
    <3>2. \/ blk'[i].next[w] = b /\ blk'[i].nextPc[w] = gpc
          \/ blk'[i].next[w] = blk[i].next[w] /\ blk'[i].nextPc[w] = blk[i].nextPc[w]
      BY <2>2, <2>3, <3>1
    <3> QED
      BY <1>2, <2>4, <3>1, <3>2 DEF Coherent, ChainCoherent
  <2>7. OneBlockPerPc' /\ Marked'
    BY <1>1, <2>4 DEF Coherent, OneBlockPerPc, Marked, CacheTypeOK
  <2> QED
    BY <1>1, <1>2, <2>4, <2>5, <2>6, <2>7 DEF Coherent, JobFresh, Here, Owned
<1> QED
  BY <1>3, <1>4

\* The block runs; with the cache off it is freed.
LEMMA EnterCoherent == ASSUME Inv, Inv', Coherent, Enter PROVE Coherent'
<1> USE DEF Inv, TypeOK
<1>1. /\ pc = "enter" /\ pc' = "after" /\ table' = table /\ opt' = opt /\ job' = job
      /\ job.ctx = "none"
  BY DEF Enter, JobOK
<1>2. JobFresh' /\ Here'
  BY <1>1 DEF JobFresh, Here
<1>3. CASE opt.noCache
  <2>1. table' = {} /\ Live = {b} /\ blk' = [blk EXCEPT ![b] = Dead]
    BY <1>1, <1>3 DEF PrevOK, Coherent, Owned, Enter, HeapAfterRun
  <2>2. Live' = {}
    BY <2>1 DEF Live, CacheTypeOK
  <2> QED
    BY <1>1, <1>2, <1>3, <2>1, <2>2
    DEF Coherent, Marked, OneBlockPerPc, ChainCoherent, Owned
<1>4. CASE ~opt.noCache
  <2>1. blk' = blk /\ Live' = Live
    BY <1>4 DEF Enter, HeapAfterRun, Live
  <2>2. \A p \in Pages : pageState[p] # 0 => pageState'[p] # 0
    BY ExecuteMark DEF Enter
  <2>3. OneBlockPerPc' /\ ChainCoherent' /\ Marked'
    BY <1>1, <2>1, <2>2, SameShrinks, ShrinksCoherent, KeepsMarks DEF Coherent
  <2> QED
    BY <1>1, <1>2, <1>4, <2>1, <2>3 DEF Coherent, Owned
<1> QED
  BY <1>3, <1>4

\* The chain batch runs a block.
LEMMA BatchEnterCoherent == ASSUME Inv, Inv', Coherent, BatchEnter PROVE Coherent'
<1>1. /\ pc = "batch" /\ pc' = pc /\ table' = table /\ blk' = blk /\ opt' = opt
      /\ job' = job /\ Live' = Live /\ job.ctx = "none"
  BY DEF BatchEnter, Live, Inv, JobOK
<1>2. \A p \in Pages : pageState[p] # 0 => pageState'[p] # 0
  BY ExecuteMark DEF BatchEnter, Inv, TypeOK
<1>3. OneBlockPerPc' /\ ChainCoherent' /\ Marked'
  BY <1>1, <1>2, SameShrinks, ShrinksCoherent, KeepsMarks DEF Inv, Coherent
<1> QED
  BY <1>1, <1>3 DEF Coherent, JobFresh, Here, Owned

LEMMA CoherentInit == Init => Coherent
BY DEF Init, Coherent, Marked, OneBlockPerPc, JobFresh, ChainCoherent, Here, Owned, Live, NoJob

LEMMA CoherentNext ==
  ASSUME NoEvictingPrefetch, Inv, Coherent, [Next]_vars
  PROVE  Coherent'
<1>1. Inv'
  BY InvNext
<1>2. CASE RunUntil \/ Leave \/ Chain \/ Lookup \/ PrefetchFail \/ PrefetchSkip
           \/ PrefetchCompile \/ PrefetchReturn \/ PrefetchDone \/ SelfLoopTaken
           \/ SelfLoopRefused \/ BatchEnd \/ StopCheck
  <2>1. UNCHANGED << memVars, cacheVars, opt >>
    BY <1>2 DEF RunUntil, Leave, Chain, Lookup, PrefetchFail, PrefetchSkip, PrefetchCompile,
                PrefetchReturn, PrefetchDone, SelfLoopTaken, SelfLoopRefused, BatchEnd, StopCheck
  <2> QED
    BY <1>1, <1>2, <2>1, QuietCoherent
<1>3. CASE Service \/ HaltLoop \/ EiStep \/ FallbackStep \/ CompileFail \/ Spin
  BY <1>1, <1>3, GuestCoherent
<1>4. CASE \/ InvalidateAddr \/ Restart \/ BankCheck \/ SmcCheck \/ EvictColdest
           \/ EmitFails \/ EvictAll
  BY <1>1, <1>4, DropCoherent
<1>5. CASE Compile \/ AllocOk \/ Link \/ Enter \/ BatchEnter
  BY <1>1, <1>5, CompileCoherent, AllocCoherent, LinkCoherent, EnterCoherent,
     BatchEnterCoherent
<1>6. CASE UNCHANGED vars
  <2>1. /\ UNCHANGED << opt, pc, gpc, blk, table, pageState, b, job >> /\ Live' = Live
        /\ \A a : Found(a)' = Found(a)
    BY <1>6 DEF vars, Live, Found
  <2> QED
    BY <2>1 DEF Coherent, Marked, OneBlockPerPc, JobFresh, ChainCoherent, Here, Owned
<1> QED
  BY <1>2, <1>3, <1>4, <1>5, <1>6 DEF Next, Loop

\* The two invariants hold together.
THEOREM CoherenceHolds == ASSUME NoEvictingPrefetch PROVE Spec => [](Inv /\ Coherent)
<1>1. Init => Inv /\ Coherent
  BY InvInit, CoherentInit
<1>2. Inv /\ Coherent /\ [Next]_vars => (Inv /\ Coherent)'
  BY InvNext, CoherentNext
<1> QED
  BY <1>1, <1>2, PTL DEF Spec

-----------------------------------------------------------------------------
(* What follows. *)

LEMMA NothingLeaks == Inv /\ Coherent => NoLeak
BY DEF Coherent, Owned, NoLeak

LEMMA AllRegistered == Inv /\ Coherent => Registered
<1> SUFFICES ASSUME Inv, Coherent, NEW i \in table, NEW p \in RegPages(blk[i].pc)
             PROVE  i \in smc[p] /\ pageState[p] # 0
  BY DEF Registered
<1>1. blk[i].pc \in Site
  BY LiveBlocks DEF Inv, TypeOK, HeapOK, CacheTypeOK, Blocks
<1>2. p \in Pages
  BY <1>1, RegisteredPages
<1> QED
  BY <1>2 DEF Inv, HeapOK, Coherent, Marked

LEMMA EnteredAtPc == Inv /\ Coherent => EntersAtPc
<1> SUFFICES ASSUME Inv, Coherent, NEW i \in Entering PROVE blk[i].pc = gpc
  BY DEF EntersAtPc
<1>1. CASE i \in BatchNext
  <2>1. pc = "batch" /\ Predicts(prev, gpc) # {} /\ i = Predicted(prev, gpc)
    BY <1>1 DEF BatchNext
  <2>2. prev \in table
    BY <2>1 DEF Inv, PrevOK
  <2> QED
    BY <2>1, <2>2, PredictedHere
<1>2. CASE i \notin BatchNext
  BY <1>2 DEF Entering, Coherent, Here
<1> QED
  BY <1>1, <1>2

\* Every compiled block is cached, but for the one the loop holds with the cache off
\* (dispatcher.c:996-1001 frees it): none is left behind in the heap.
THEOREM NoBlockLeaks == ASSUME NoEvictingPrefetch PROVE Spec => []NoLeak
BY CoherenceHolds, NothingLeaks, PTL

\* A store to a page a cached block was registered on is noticed: insert_block
\* marked the page, and no store, invalidation or eviction takes the mark away
\* while the block is cached.
THEOREM StoresNoticed == ASSUME NoEvictingPrefetch PROVE Spec => []Registered
BY CoherenceHolds, AllRegistered, PTL

\* No address is compiled twice: the loop and the prefetcher look before they
\* compile, and nothing is inserted between.
THEOREM CompiledOnce == ASSUME NoEvictingPrefetch PROVE Spec => []OneBlockPerPc
BY CoherenceHolds, PTL DEF Coherent

\* A prediction leads where it says, though its block be evicted and the heap
\* address be used again for another (clear_dangling_predictions).
THEOREM PredictionsLead == ASSUME NoEvictingPrefetch PROVE Spec => []ChainCoherent
BY CoherenceHolds, PTL DEF Coherent

\* Whatever the loop enters, from the table, a prediction, a compile with its
\* evictions and prefetches, the chain batch or the self-loop path, starts at the
\* guest's pc.
THEOREM EntersRightBlock == ASSUME NoEvictingPrefetch PROVE Spec => []EntersAtPc
BY CoherenceHolds, EnteredAtPc, PTL

\* The guest goes where its program goes, or to an interrupt's vector.
FollowsProgram == [][gpc' \in Goto[gpc] \union {Vector, gpc}]_vars

LEMMA StepFollows ==
  ASSUME Inv, Coherent, [Next]_vars
  PROVE  [gpc' \in Goto[gpc] \union {Vector, gpc}]_vars
<1>1. CASE Service \/ HaltLoop
  BY <1>1 DEF Service, HaltLoop, ServiceInterrupts
<1>2. CASE EiStep \/ FallbackStep \/ CompileFail
  BY <1>2 DEF EiStep, FallbackStep, CompileFail, Interpret
<1>3. CASE Enter \/ Spin
  <2>1. b \in Entering /\ gpc' \in Goto[blk[b].pc]
    BY <1>3 DEF Enter, Spin, Execute, Entering
  <2> QED
    BY <2>1, EnteredAtPc DEF EntersAtPc
<1>4. CASE BatchEnter
  <2>1. Predicted(prev, gpc) \in Entering /\ gpc' \in Goto[blk[Predicted(prev, gpc)].pc]
    BY <1>4 DEF BatchEnter, Execute, Entering, BatchNext
  <2> QED
    BY <2>1, EnteredAtPc DEF EntersAtPc
<1>5. CASE \/ RunUntil \/ InvalidateAddr \/ Restart \/ Leave \/ BankCheck \/ SmcCheck \/ Chain
           \/ Lookup \/ Compile \/ EvictColdest \/ AllocOk \/ EmitFails \/ EvictAll
           \/ PrefetchFail \/ PrefetchSkip \/ PrefetchCompile \/ PrefetchReturn \/ PrefetchDone \/ Link
           \/ SelfLoopTaken \/ SelfLoopRefused \/ BatchEnd \/ StopCheck
  BY <1>5 DEF RunUntil, InvalidateAddr, Restart, Leave, BankCheck, SmcCheck, Chain, Lookup,
     Compile, EvictColdest, AllocOk, EmitFails, EvictAll, PrefetchFail, PrefetchSkip, PrefetchCompile,
     PrefetchReturn, PrefetchDone, Link, SelfLoopTaken, SelfLoopRefused, BatchEnd, StopCheck
<1> QED
  BY <1>1, <1>2, <1>3, <1>4, <1>5 DEF Next, Loop

\* The guest's control flow is its program's, whichever of its blocks is cached, evicted,
\* predicted, prefetched, spun or batched, and wherever an instruction is interpreted
\* instead: every step of the loop leaves cpu->pc alone, moves it where the code at it
\* goes, or serves an interrupt.
THEOREM GuestInOrder == ASSUME NoEvictingPrefetch PROVE Spec => FollowsProgram
BY CoherenceHolds, StepFollows, PTL DEF Spec, FollowsProgram

-----------------------------------------------------------------------------
(* Self-modifying code and bank switches, for every guest whose stores and *)
(* code the page states can tell apart.  What that takes is three            *)
(* assumptions about the guest, and none about the cache.                    *)

\* Every inlined store goes through the guard that diverts to mmu_write8; without
\* it a block may go stale unseen (the run unguarded_store).
GuardedStores == InlinePages = {}

\* Code is fetched from the pages it is registered on: none runs from echo RAM.
DirectlyMapped ==
  \A s \in Site : SrcPages(s) \intersect (RamPages \union BankPages) \subseteq RegPages(s)

\* A self loop does not store into itself: its spins do not look at the flags.
LoopsApart == \A s \in SelfLoops : SrcPages(s) \intersect LoopPages = {}

\* A page that was written since code was compiled from it is announced.
DirtySeen == \A p \in Pages : pageState[p] = 2 => smcDirty

\* Only code in memory that changes goes stale.
StaleSources ==
  \A i \in Live \intersect stale :
    SrcPages(blk[i].pc) \intersect (RamPages \union BankPages) # {}

\* What the loop knows of the flags on its way from their tests to the lookup.
PhaseClean ==
  /\ pc \in {"smc", "service"} => ~bankDirty
  /\ pc = "service" => ~smcDirty
  /\ pc = "dispatch" => (~bankDirty /\ ~smcDirty) \/ gpc = Vector

\* The block the loop holds is not stale.
Current ==
  /\ pc \in {"prefetch", "link", "enter", "spin"} \/ job.ctx = "prefetch" => b \notin stale
  /\ pc = "spin" => blk[b].pc \in SelfLoops

Fresh == DirtySeen /\ StaleSources /\ StaleIsFlagged /\ PhaseClean /\ Current

-----------------------------------------------------------------------------

\* While neither flag is up no cached block is stale.
LEMMA CleanMeansFresh ==
  ASSUME StaleIsFlagged, ~bankDirty, ~smcDirty, NEW i \in table
  PROVE  i \notin stale
BY DEF StaleIsFlagged

\* A step that makes no block stale and keeps the marks and the flags.
LEMMA FreshKept ==
  ASSUME Inv, Inv', Fresh,
         smcDirty' = smcDirty, bankDirty' = bankDirty,
         \A p \in Pages : pageState'[p] = 2 <=> pageState[p] = 2,
         stale' \subseteq stale,
         \A i \in stale' \intersect table' : i \in table /\ blk'[i].pc = blk[i].pc,
         \A i \in stale' \intersect Live' : i \in Live /\ blk'[i].pc = blk[i].pc
  PROVE  DirtySeen' /\ StaleSources' /\ StaleIsFlagged'
<1> USE DEF Inv, HeapOK, Fresh
<1>1. DirtySeen'
  BY DEF DirtySeen
<1>2. StaleSources'
  BY DEF StaleSources
<1>3. ASSUME NEW i \in stale' \intersect table'
      PROVE  \/ bankDirty' /\ \E p \in BankPages : i \in smc'[p]
             \/ smcDirty' /\ \E p \in Pages : pageState'[p] = 2 /\ i \in smc'[p]
  <2>1. i \in stale \intersect table
    BY <1>3
  <2>2. ASSUME NEW p \in Pages, i \in smc[p] PROVE i \in smc'[p]
    BY <1>3, <2>2
  <2>3. BankPages \subseteq Pages
    BY MemoryMapAssumption
  <2> QED
    BY <2>1, <2>2, <2>3 DEF StaleIsFlagged
<1> QED
  BY <1>1, <1>2, <1>3 DEF StaleIsFlagged

\* The stores of a step are announced for every cached block they reach.
LEMMA FreshStores ==
  ASSUME DirectlyMapped, Inv, Inv', Coherent, Fresh,
         NEW w \in SUBSET RamPages, NEW bank \in BOOLEAN, Stores(w, bank),
         stale' = stale \union Touched(blk', w, bank),
         table' = table, \A i \in Live' : i \in Live /\ blk'[i].pc = blk[i].pc
  PROVE  DirtySeen' /\ StaleSources' /\ StaleIsFlagged'
<1> USE DEF Inv, TypeOK, HeapOK, Fresh
<1> DEFINE hit == {p \in w : pageState[p] = 1}
<1>1. /\ pageState' = [p \in Pages |-> IF p \in hit THEN 2 ELSE pageState[p]]
      /\ smcDirty' = (smcDirty \/ hit # {}) /\ bankDirty' = (bankDirty \/ bank)
  BY DEF Stores
<1>2. DirtySeen'
  BY <1>1 DEF DirtySeen
<1>3. \A p \in Pages : smc'[p] = smc[p]
  <2>1. table \subseteq Live'
    OBVIOUS
  <2>2. \A i \in table : blk'[i].pc = blk[i].pc
    BY <2>1
  <2>3. ASSUME NEW p \in Pages PROVE smc'[p] = smc[p]
    <3>1. /\ smc'[p] = {i \in table : p \in RegPages(blk'[i].pc)}
          /\ smc[p] = {i \in table : p \in RegPages(blk[i].pc)}
      OBVIOUS
    <3>2. \A i \in table : RegPages(blk'[i].pc) = RegPages(blk[i].pc)
      BY <2>2
    <3> QED
      BY <3>1, <3>2
  <2> QED
    BY <2>3
<1>4. ASSUME NEW i \in Touched(blk', w, bank), i \in Live'
      PROVE  /\ blk'[i].pc = blk[i].pc
             /\ \E p \in SrcPages(blk[i].pc) : p \in w \/ (bank /\ p \in BankPages)
  BY <1>4 DEF Touched
<1>5. StaleSources'
  <2> SUFFICES ASSUME NEW i \in Live' \intersect stale'
               PROVE  SrcPages(blk'[i].pc) \intersect (RamPages \union BankPages) # {}
    BY DEF StaleSources
  <2>1. CASE i \in stale
    BY <2>1 DEF StaleSources
  <2>2. CASE i \notin stale
    BY <1>4, <2>2
  <2> QED
    BY <2>1, <2>2
<1>6. StaleIsFlagged'
  <2> SUFFICES ASSUME NEW i \in stale' \intersect table
               PROVE  \/ bankDirty' /\ \E p \in BankPages : i \in smc[p]
                      \/ smcDirty' /\ \E p \in Pages : pageState'[p] = 2 /\ i \in smc[p]
    BY <1>3, MemoryMapAssumption DEF StaleIsFlagged
  <2>1. CASE i \in stale
    <3>1. \A p \in Pages : pageState[p] = 2 => pageState'[p] = 2
      BY <1>1
    <3>2. smcDirty => smcDirty'
      BY <1>1
    <3>3. bankDirty => bankDirty'
      BY <1>1
    <3> QED
      BY <2>1, <3>1, <3>2, <3>3 DEF StaleIsFlagged
  <2>2. CASE i \notin stale
    <3>1. blk[i].pc \in Site
      BY LiveBlocks DEF CacheTypeOK, Blocks
    <3>2. PICK p \in SrcPages(blk[i].pc) : p \in w \/ (bank /\ p \in BankPages)
      BY <1>4, <2>2
    <3>3. p \in RegPages(blk[i].pc) /\ p \in Pages
      BY <3>1, <3>2, MemoryMapAssumption, RegisteredPages DEF DirectlyMapped
    <3>4. i \in smc[p] /\ pageState[p] # 0
      BY <3>3 DEF Coherent, Marked
    <3>5. CASE p \in w
      <4>1. pageState[p] \in {1, 2}
        BY <3>3, <3>4 DEF MemTypeOK
      <4>2. pageState'[p] = 2
        BY <1>1, <3>3, <3>5, <4>1
      <4> QED
        BY <1>2, <3>3, <3>4, <4>2 DEF DirtySeen
    <3>6. CASE bank /\ p \in BankPages
      BY <1>1, <3>4, <3>6
    <3> QED
      BY <3>2, <3>5, <3>6
  <2> QED
    BY <2>1, <2>2
<1> QED
  BY <1>2, <1>5, <1>6

\* The steps that change neither the cache nor the guest's memory.  A lookup follows
\* the tests of both flags, or is for the interrupt vector, whose code is in ROM.
LEMMA QuietFresh ==
  ASSUME Inv, Inv', Coherent, Fresh, UNCHANGED << memVars, cacheVars, opt, stale >>,
         \/ RunUntil \/ Leave \/ Chain \/ Lookup \/ PrefetchFail \/ PrefetchSkip
         \/ PrefetchCompile \/ PrefetchReturn \/ PrefetchDone \/ SelfLoopTaken
         \/ SelfLoopRefused \/ BatchEnd \/ StopCheck
  PROVE  Fresh'
<1> USE DEF Fresh
<1>1. /\ blk' = blk /\ table' = table /\ stale' = stale /\ Live' = Live
      /\ smcDirty' = smcDirty /\ bankDirty' = bankDirty /\ pageState' = pageState
  BY DEF memVars, cacheVars, Live
<1>2. DirtySeen' /\ StaleSources' /\ StaleIsFlagged'
  BY <1>1, FreshKept DEF Fresh
<1>3. ASSUME pc = "dispatch", NEW i \in table, blk[i].pc = gpc PROVE i \notin stale
  <2>1. CASE ~bankDirty /\ ~smcDirty
    BY <2>1, CleanMeansFresh
  <2>2. CASE gpc = Vector
    BY <1>3, <2>2, ProgramAssumption DEF StaleSources, Inv, HeapOK
  <2> QED
    BY <1>3, <2>1, <2>2 DEF PhaseClean
<1>4. CASE RunUntil \/ Leave \/ SelfLoopRefused \/ BatchEnd \/ StopCheck
  BY <1>1, <1>2, <1>4 DEF RunUntil, Leave, SelfLoopRefused, BatchEnd, StopCheck,
     PhaseClean, Current, Inv, JobOK
<1>5. CASE Chain \/ Lookup
  <2>1. pc = "dispatch" /\ pc' = "link" /\ job' = job /\ b' \in table /\ blk[b'].pc = gpc
    <3>1. CASE Chain
      <4>1. prev \in table /\ Predicts(prev, gpc) # {} /\ pc = "dispatch"
        BY <3>1 DEF Chain, ChainHit, Dispatching, Inv, PrevOK
      <4> QED
        BY <3>1, <4>1, PredictedHere DEF Chain
    <3>2. CASE Lookup
      BY <3>2 DEF Lookup, Dispatching, Found
    <3> QED
      BY <1>5, <3>1, <3>2
  <2>2. b' \notin stale
    BY <1>3, <2>1
  <2> QED
    BY <1>1, <1>2, <2>1, <2>2 DEF PhaseClean, Current
<1>6. CASE PrefetchFail \/ PrefetchSkip \/ PrefetchCompile \/ PrefetchReturn \/ PrefetchDone
  <2>1. /\ pc \in {"prefetch", "alloc", "lost"} /\ b' = b
        /\ pc' \in {"prefetch", "alloc", "link"}
        /\ pc = "prefetch" \/ job.ctx = "prefetch"
    BY <1>6 DEF PrefetchFail, PrefetchSkip, PrefetchCompile, PrefetchReturn, PrefetchDone,
       Reading, Failed
  <2> QED
    BY <1>1, <1>2, <2>1 DEF PhaseClean, Current
<1>7. CASE SelfLoopTaken
  <2>1. /\ pc' = "spin" /\ b' = b /\ b \in table /\ blk[b].pc \in SelfLoops
        /\ ~smcDirty /\ ~bankDirty
    BY <1>7 DEF SelfLoopTaken, Inv, PrevOK
  <2> QED
    BY <1>1, <1>2, <2>1, CleanMeansFresh DEF PhaseClean, Current
<1> QED
  BY <1>4, <1>5, <1>6, <1>7

\* The interrupt's push, or nothing.
LEMMA ServiceFresh ==
  ASSUME DirectlyMapped, Inv, Inv', Coherent, Fresh, UNCHANGED cacheVars,
         NEW d \in BOOLEAN, ServiceInterrupts(d)
  PROVE  /\ DirtySeen' /\ StaleSources' /\ StaleIsFlagged'
         /\ gpc' = Vector \/ (smcDirty' = smcDirty /\ bankDirty' = bankDirty)
<1>1. blk' = blk /\ table' = table /\ Live' = Live
  BY DEF cacheVars, Live
<1>2. CASE d
  <2>1. gpc' = Vector
    BY <1>2 DEF ServiceInterrupts
  <2>2. PICK w \in SUBSET RamPages : \E bank \in BOOLEAN :
          Stores(w, bank) /\ stale' = stale \union Touched(blk, w, bank)
    BY <1>2 DEF ServiceInterrupts
  <2>3. PICK bank \in BOOLEAN : Stores(w, bank) /\ stale' = stale \union Touched(blk, w, bank)
    BY <2>2
  <2> QED
    BY <1>1, <2>1, <2>3, FreshStores
<1>3. CASE ~d
  <2>1. UNCHANGED << stale, pageState, smcDirty, bankDirty >>
    BY <1>3 DEF ServiceInterrupts, memVars
  <2> QED
    BY <1>1, <2>1, FreshKept DEF Inv
<1> QED
  BY <1>2, <1>3

LEMMA InterpretFresh ==
  ASSUME DirectlyMapped, Inv, Inv', Coherent, Fresh, UNCHANGED cacheVars, Interpret
  PROVE  DirtySeen' /\ StaleSources' /\ StaleIsFlagged'
<1>1. blk' = blk /\ table' = table /\ Live' = Live
  BY DEF cacheVars, Live
<1>2. PICK w \in SUBSET RamPages : \E bank \in BOOLEAN :
        Stores(w, bank) /\ stale' = stale \union Touched(blk, w, bank)
  BY DEF Interpret
<1>3. PICK bank \in BOOLEAN : Stores(w, bank) /\ stale' = stale \union Touched(blk, w, bank)
  BY <1>2
<1> QED
  BY <1>1, <1>3, FreshStores

\* A block runs; a self loop does not touch its own source.
LEMMA ExecuteFresh ==
  ASSUME GuardedStores, DirectlyMapped, LoopsApart, Inv, Inv', Coherent, Fresh,
         NEW i \in Id, Execute(i, blk'),
         table' = table, \A j \in Live' : j \in Live /\ blk'[j].pc = blk[j].pc
  PROVE  /\ DirtySeen' /\ StaleSources' /\ StaleIsFlagged'
         /\ blk[i].pc \in SelfLoops /\ i \in Live' => (i \in stale' => i \in stale)
<1>1. CASE blk[i].pc \in SelfLoops
  <2>1. PICK w \in SUBSET LoopPages :
          Stores(w, FALSE) /\ stale' = stale \union Touched(blk', w, FALSE)
    BY <1>1 DEF Execute
  <2>2. w \in SUBSET RamPages
    BY MemoryMapAssumption
  <2>3. DirtySeen' /\ StaleSources' /\ StaleIsFlagged'
    BY <2>1, <2>2, FreshStores
  <2>4. i \in Live' => i \notin Touched(blk', w, FALSE)
    BY <1>1 DEF Touched, LoopsApart
  <2> QED
    BY <2>1, <2>3, <2>4
<1>2. CASE blk[i].pc \notin SelfLoops
  <2>1. PICK w \in SUBSET RamPages : \E raw \in SUBSET InlinePages, bank \in BOOLEAN :
          Stores(w, bank) /\ stale' = stale \union Touched(blk', w \union raw, bank)
    BY <1>2 DEF Execute
  <2>2. PICK bank \in BOOLEAN : \E raw \in SUBSET InlinePages :
          Stores(w, bank) /\ stale' = stale \union Touched(blk', w \union raw, bank)
    BY <2>1
  <2>3. Stores(w, bank) /\ stale' = stale \union Touched(blk', w, bank)
    <3>1. \A raw \in SUBSET InlinePages : w \union raw = w
      BY DEF GuardedStores
    <3> QED
      BY <2>2, <3>1
  <2>4. DirtySeen' /\ StaleSources' /\ StaleIsFlagged'
    BY <2>3, FreshStores
  <2> QED
    BY <1>2, <2>4
<1> QED
  BY <1>1, <1>2

\* Steps in which the guest runs, the cache left alone.
LEMMA GuestFresh ==
  ASSUME GuardedStores, DirectlyMapped, LoopsApart, Inv, Inv', Coherent, Fresh,
         Service \/ HaltLoop \/ EiStep \/ FallbackStep \/ CompileFail \/ Spin
  PROVE  Fresh'
<1> USE DEF Fresh
<1>1. blk' = blk /\ table' = table /\ Live' = Live /\ UNCHANGED cacheVars
  BY DEF Service, HaltLoop, EiStep, FallbackStep, CompileFail, Spin, cacheVars, Live
<1>2. CASE Service \/ HaltLoop
  <2>1. PICK d \in BOOLEAN : ServiceInterrupts(d)
    BY <1>2 DEF Service, HaltLoop
  <2>2. /\ DirtySeen' /\ StaleSources' /\ StaleIsFlagged'
        /\ gpc' = Vector \/ (smcDirty' = smcDirty /\ bankDirty' = bankDirty)
    BY <1>1, <2>1, ServiceFresh DEF Fresh
  <2>3. /\ \/ pc = "service" /\ pc' = "dispatch"
           \/ pc = "dispatch" /\ pc' = "bank"
        /\ job' = job /\ job.ctx = "none"
    BY <1>2 DEF Service, HaltLoop, Inv, JobOK
  <2> QED
    BY <2>2, <2>3 DEF PhaseClean, Current
<1>3. CASE EiStep \/ FallbackStep \/ CompileFail
  <2>1. DirtySeen' /\ StaleSources' /\ StaleIsFlagged'
    BY <1>1, <1>3, InterpretFresh DEF EiStep, FallbackStep, CompileFail, Fresh
  <2>2. pc' = "bank" /\ job'.ctx = "none"
    BY <1>3 DEF EiStep, FallbackStep, CompileFail, Inv, JobOK, NoJob
  <2> QED
    BY <2>1, <2>2 DEF PhaseClean, Current
<1>4. CASE Spin
  <2>1. /\ pc = "spin" /\ b = prev /\ b \in table /\ b \in Id /\ b \in Live
        /\ Execute(b, blk') /\ pc' \in {"bank", "spin"} /\ (pc' = "spin" => b' = b)
        /\ job' = job /\ job.ctx = "none"
    BY <1>1, <1>4 DEF Spin, Inv, JobOK, PrevOK, HeapOK, Live
  <2>2. /\ DirtySeen' /\ StaleSources' /\ StaleIsFlagged'
        /\ b \notin stale'
    BY <1>1, <2>1, ExecuteFresh DEF Current, Fresh
  <2> QED
    BY <1>1, <2>1, <2>2 DEF PhaseClean, Current
<1> QED
  BY <1>2, <1>3, <1>4

\* Blocks are dropped while the flags and marks stay.
LEMMA DropFresh ==
  ASSUME Inv, Inv', Coherent, Fresh,
         InvalidateAddr \/ Restart \/ EvictColdest \/ EmitFails \/ EvictAll
  PROVE  Fresh'
<1> USE DEF Fresh
<1>1. /\ UNCHANGED << memVars, opt, gpc, b >> /\ stale' \subseteq stale
      /\ \/ pc = "idle" /\ pc' = "idle" /\ job' = job
         \/ /\ {pc, pc'} \subseteq {"alloc", "lost"}
            /\ job'.ctx \in {job.ctx, "retry"}
  BY DEF InvalidateAddr, Restart, EvictColdest, EmitFails, EvictAll, Failed, Invalidate,
     Inv, TypeOK, LoopTypeOK, Jobs, SecondTry
<1>2. /\ table' \subseteq table /\ Live' \subseteq Live
      /\ \A i \in Live' : blk'[i].pc = blk[i].pc
  <2>1. ASSUME NEW gone \in SUBSET table, Drop(gone)
        PROVE  /\ table' \subseteq table /\ Live' \subseteq Live
               /\ \A i \in Live' : blk'[i].pc = blk[i].pc
    <3>1. Live' = Live \ gone /\ table' = table \ gone /\ Shrinks
      BY <2>1, DropShrinks DEF Inv, TypeOK
    <3>2. \A i \in Live \ gone : i \notin table => blk'[i] = blk[i]
      BY <2>1 DEF Drop, HeapWithout, Live
    <3> QED
      BY <3>1, <3>2 DEF Shrinks
  <2>2. ASSUME DropAll
        PROVE  /\ table' \subseteq table /\ Live' \subseteq Live
               /\ \A i \in Live' : blk'[i].pc = blk[i].pc
    BY <2>2, DropAllHeap DEF DropAll, Live, Inv, TypeOK
  <2>3. CASE InvalidateAddr
    <3>1. PICK p \in Pages : Invalidate({p})
      BY <2>3 DEF InvalidateAddr
    <3>2. UNION {smc[q] : q \in {p}} \in SUBSET table
      BY DEF Inv, HeapOK
    <3> QED
      BY <2>1, <3>1, <3>2 DEF Invalidate
  <2>4. CASE EvictColdest
    <3>1. PICK victim \in Coldest : Drop({victim})
      BY <2>4 DEF EvictColdest
    <3>2. {victim} \in SUBSET table
      BY DEF Coldest
    <3> QED
      BY <2>1, <3>1, <3>2
  <2>5. CASE EmitFails
    <3> DEFINE gone == Overwritten(Span(Place(opt.evict, cc, Need[job.site]),
                                        Need[job.site]))
    <3>1. Drop(gone) /\ gone \in SUBSET table
      BY <2>5 DEF EmitFails, Overwritten
    <3> QED
      BY <2>1, <3>1
  <2>6. CASE Restart \/ EvictAll
    BY <2>2, <2>6 DEF Restart, EvictAll
  <2> QED
    BY <2>3, <2>4, <2>5, <2>6
<1>3. DirtySeen' /\ StaleSources' /\ StaleIsFlagged'
  <2>1. table' \subseteq Live'
    BY DEF Inv, HeapOK
  <2> QED
    BY <1>1, <1>2, <2>1, FreshKept DEF memVars, Fresh
<1>4. PhaseClean' /\ Current'
  BY <1>1 DEF PhaseClean, Current, memVars, Inv, JobOK
<1> QED
  BY <1>3, <1>4

\* The blocks of some pages are invalidated: those flagged elsewhere remain so.
LEMMA InvalidateFresh ==
  ASSUME Inv, Inv', Fresh, NEW ps \in SUBSET Pages, Invalidate(ps)
  PROVE  /\ StaleSources'
         /\ \A i \in stale' \intersect table' :
              /\ i \in stale /\ i \in table
              /\ \A p \in ps : i \notin smc[p]
              /\ \A p \in Pages : i \in smc[p] => i \in smc'[p]
<1> USE DEF Inv, TypeOK, HeapOK, Fresh
<1> DEFINE gone == UNION {smc[p] : p \in ps}
<1>1. gone \in SUBSET table /\ Drop(gone) /\ stale' = stale \ gone
  BY DEF Invalidate
<1>2. \A i \in stale' : \A p \in ps : i \notin smc[p]
  BY <1>1
<1> HIDE DEF gone
<1>3. Live' = Live \ gone /\ table' = table \ gone /\ Shrinks
  BY <1>1, DropShrinks
<1>4. \A i \in Live \ gone : i \notin table => blk'[i] = blk[i]
  BY <1>1 DEF Drop, HeapWithout, Live
<1>5. \A i \in Live' : blk'[i].pc = blk[i].pc
  BY <1>3, <1>4 DEF Shrinks
<1>6. StaleSources'
  BY <1>1, <1>3, <1>5 DEF StaleSources
<1>7. ASSUME NEW i \in stale' \intersect table', NEW p \in Pages, i \in smc[p]
      PROVE  i \in smc'[p]
  <2>1. p \in RegPages(blk[i].pc) /\ blk'[i].pc = blk[i].pc
    BY <1>3, <1>5, <1>7
  <2> QED
    BY <1>7, <2>1
<1> QED
  BY <1>1, <1>2, <1>3, <1>6, <1>7

\* The two tests at the head of an iteration: a flag is lowered only together with
\* every block it stands for.
LEMMA CheckFresh ==
  ASSUME Inv, Inv', Coherent, Fresh, BankCheck \/ SmcCheck
  PROVE  Fresh'
<1> USE DEF Fresh
<1>1. job.ctx = "none" /\ job' = job /\ pc \in {"bank", "smc"}
  BY DEF BankCheck, SmcCheck, Inv, JobOK
<1>2. CASE BankCheck /\ bankDirty
  <2>1. /\ Invalidate(BankPages) /\ BankPages \in SUBSET Pages /\ bankDirty' = FALSE
        /\ pc' = "smc" /\ UNCHANGED << pageState, smcDirty >>
    BY <1>2, MemoryMapAssumption DEF BankCheck
  <2>2. /\ StaleSources'
        /\ \A i \in stale' \intersect table' :
              /\ i \in stale /\ i \in table
              /\ \A p \in BankPages : i \notin smc[p]
              /\ \A p \in Pages : i \in smc[p] => i \in smc'[p]
    BY <2>1, InvalidateFresh DEF Fresh
  <2>3. StaleIsFlagged' /\ DirtySeen'
    BY <2>1, <2>2 DEF StaleIsFlagged, DirtySeen
  <2> QED
    BY <1>1, <2>1, <2>2, <2>3 DEF PhaseClean, Current
<1>3. CASE SmcCheck /\ smcDirty
  <2>1. /\ Invalidate(DirtyPages) /\ DirtyPages \in SUBSET Pages
        /\ pageState' = [p \in Pages |-> IF p \in DirtyPages THEN 0 ELSE pageState[p]]
        /\ pc = "smc" /\ pc' = "service" /\ smcDirty' = FALSE /\ bankDirty' = bankDirty
    BY <1>3 DEF SmcCheck, DirtyPages
  <2>2. /\ StaleSources'
        /\ \A i \in stale' \intersect table' :
              /\ i \in stale /\ i \in table
              /\ \A p \in DirtyPages : i \notin smc[p]
              /\ \A p \in Pages : i \in smc[p] => i \in smc'[p]
    BY <2>1, InvalidateFresh DEF Fresh
  <2>3. \A p \in Pages : pageState'[p] # 2
    BY <2>1 DEF DirtyPages
  <2>4. ~bankDirty
    BY <2>1 DEF PhaseClean
  <2>5. StaleIsFlagged' /\ DirtySeen'
    BY <2>2, <2>3, <2>4 DEF StaleIsFlagged, DirtySeen, DirtyPages
  <2> QED
    BY <1>1, <2>1, <2>2, <2>4, <2>5 DEF PhaseClean, Current
<1>4. CASE (BankCheck /\ ~bankDirty) \/ (SmcCheck /\ ~smcDirty)
  <2>1. /\ UNCHANGED << memVars, cacheVars, stale >> /\ Live' = Live
        /\ \/ pc = "bank" /\ pc' = "smc" /\ ~bankDirty
           \/ pc = "smc" /\ pc' = "service" /\ ~smcDirty
    BY <1>4 DEF BankCheck, SmcCheck, memVars, cacheVars, Live
  <2>2. StaleSources' /\ StaleIsFlagged' /\ DirtySeen'
    BY <2>1, FreshKept DEF memVars, cacheVars, Fresh
  <2> QED
    BY <1>1, <2>1, <2>2 DEF PhaseClean, Current, memVars
<1> QED
  BY <1>2, <1>3, <1>4

LEMMA CompileFresh ==
  ASSUME Inv, Inv', Coherent, Fresh, Compile \/ Link
  PROVE  Fresh'
<1> USE DEF Fresh
<1>1. /\ UNCHANGED << memVars, table, gpc, b, stale >>
      /\ \/ pc = "dispatch" /\ job'.ctx = "run" /\ pc' = "alloc"
         \/ pc = "link" /\ job' = job /\ job.ctx = "none" /\ pc' = "enter"
  BY DEF Compile, Link, Dispatching, Inv, JobOK
<1>2. Live' = Live /\ \A i \in Id : blk'[i].pc = blk[i].pc
  <2>1. CASE Compile
    BY <2>1 DEF Compile, Live
  <2>2. CASE Link /\ (opt.noCache \/ prev = NIL \/ Present)
    BY <2>2 DEF Link, Live
  <2>3. CASE Link /\ ~(opt.noCache \/ prev = NIL \/ Present)
    <3>1. prev \in table /\ prev \in Id /\ blk[prev] \in Blocks
      BY <2>3, LiveBlocks DEF Link, Inv, TypeOK, PrevOK, HeapOK, CacheTypeOK
    <3>2. \A i \in Id : blk'[i] = IF i = prev THEN Learns(blk[prev]) ELSE blk[i]
      BY <2>3 DEF Link, Inv, TypeOK, CacheTypeOK
    <3>3. Learns(blk[prev]).pc = blk[prev].pc
      BY <3>1 DEF Learns, Blocks
    <3>4. \A i \in Id : blk'[i].pc = blk[i].pc
      BY <3>2, <3>3
    <3>5. \A i \in Id : i # prev => blk'[i] = blk[i]
      BY <3>2
    <3>6. blk[prev] # Dead /\ blk'[prev] # Dead
      BY <3>1, <3>4, GeometryAssumption, ProgramAssumption DEF Dead, Blocks
    <3> QED
      BY <3>4, <3>5, <3>6 DEF Live
  <2> QED
    BY <2>1, <2>2, <2>3
<1>3. DirtySeen' /\ StaleSources' /\ StaleIsFlagged'
  <2>1. table \subseteq Id /\ Live \subseteq Id
    BY DEF Inv, TypeOK, CacheTypeOK, Live
  <2> QED
    BY <1>1, <1>2, <2>1, FreshKept DEF memVars, Fresh
<1>4. PhaseClean' /\ Current'
  BY <1>1 DEF PhaseClean, Current
<1> QED
  BY <1>3, <1>4

\* A block that was just compiled is fresh, at a heap address that may have held a
\* stale one.
LEMMA AllocFresh ==
  ASSUME Inv, Inv', Coherent, Fresh, AllocOk
  PROVE  Fresh'
<1> USE DEF Inv, TypeOK, Fresh
<1> DEFINE s    == job.site
           gone == Overwritten(Span(Place(opt.evict, cc, Need[s]), Need[s]))
<1>1. PICK n \in Id \ Live :
        /\ blk' = [HeapWithout(gone) EXCEPT ![n] = NewBlock(s)]
        /\ stale' = stale \ (gone \union {n})
        /\ IF opt.noCache
           THEN UNCHANGED << table, smc, pageState, colder >>
           ELSE /\ table' = (table \ gone) \union {n}
                /\ Insert(n, ListsWithout(gone))
        /\ b' = IF job.ctx = "prefetch" THEN b ELSE n
  BY DEF AllocOk
<1>2. /\ pc = "alloc" /\ pc' = "prefetch" /\ job'.ctx = "none"
      /\ smcDirty' = smcDirty /\ bankDirty' = bankDirty
  BY DEF AllocOk, NoJob
<1>3. gone \in SUBSET table
  BY DEF Overwritten
<1>4. n \in Id /\ n \notin table
  BY <1>1 DEF HeapOK
<1> HIDE DEF s, gone
<1>5. \A p \in Pages : pageState'[p] = 2 <=> pageState[p] = 2
  <2>1. CASE opt.noCache
    BY <1>1, <2>1
  <2>2. CASE ~opt.noCache
    BY <1>1, <2>2 DEF Insert
  <2> QED
    BY <2>1, <2>2
<1>6. \A i \in Id : blk'[i] = IF i = n THEN NewBlock(s) ELSE HeapWithout(gone)[i]
  BY <1>1, <1>3, WithoutHeap
<1>7. ASSUME NEW i \in stale' \intersect Live'
      PROVE  i \in Live /\ blk'[i].pc = blk[i].pc
  <2>1. i \in Id /\ i # n /\ blk'[i] = HeapWithout(gone)[i] /\ blk'[i] # Dead
    BY <1>1, <1>6, <1>7 DEF Live
  <2>2. i \in Live \ gone
    BY <1>3, <2>1, WithoutHeap
  <2>3. CASE i \in table
    BY <1>3, <2>1, <2>2, <2>3, WithoutHeap
  <2>4. CASE i \notin table
    <3>1. HeapWithout(gone)[i] = blk[i]
      BY <1>3, <2>1, <2>4 DEF HeapWithout
    <3> QED
      BY <2>1, <2>2, <3>1
  <2> QED
    BY <2>3, <2>4
<1>8. \A i \in stale' \intersect table' : i \in table /\ blk'[i].pc = blk[i].pc
  <2>1. table' \subseteq Live' /\ \A i \in table' : i \in table \/ i = n
    BY <1>1 DEF HeapOK
  <2> QED
    BY <1>1, <1>7, <2>1
<1>9. stale' \subseteq stale /\ n \notin stale'
  BY <1>1
<1>10. DirtySeen' /\ StaleSources' /\ StaleIsFlagged'
  BY <1>2, <1>5, <1>7, <1>8, <1>9, FreshKept
<1>11. PhaseClean' /\ Current'
  BY <1>1, <1>2, <1>9 DEF PhaseClean, Current
<1> QED
  BY <1>10, <1>11

\* The block runs, and with the cache off is freed.
LEMMA EnterFresh ==
  ASSUME GuardedStores, DirectlyMapped, LoopsApart, Inv, Inv', Coherent, Fresh,
         Enter \/ BatchEnter
  PROVE  Fresh'
<1> USE DEF Inv, TypeOK
<1>1. /\ table' = table /\ job' = job /\ job.ctx = "none"
      /\ \/ pc = "enter" /\ pc' = "after"
         \/ pc = "batch" /\ pc' = "batch"
  BY DEF Enter, BatchEnter, JobOK
<1>2. \E i \in Id : Execute(i, blk')
  <2>1. CASE Enter
    <3>1. b \in Id
      BY <2>1 DEF Enter, BlockOK, Live
    <3> QED
      BY <2>1, <3>1 DEF Enter
  <2>2. CASE BatchEnter
    <3>1. Predicted(prev, gpc) \in table
      BY <2>2, PredictedHere DEF BatchEnter, PrevOK
    <3>2. Execute(Predicted(prev, gpc), blk')
      BY <2>2 DEF BatchEnter
    <3> QED
      BY <3>1, <3>2 DEF CacheTypeOK
  <2> QED
    BY <2>1, <2>2
<1>3. \A j \in Live' : j \in Live /\ blk'[j].pc = blk[j].pc
  BY DEF Enter, BatchEnter, HeapAfterRun, Live, CacheTypeOK
<1>4. DirtySeen' /\ StaleSources' /\ StaleIsFlagged'
  BY <1>1, <1>2, <1>3, ExecuteFresh
<1>5. PhaseClean' /\ Current'
  BY <1>1 DEF PhaseClean, Current
<1> QED
  BY <1>4, <1>5 DEF Fresh

LEMMA FreshInit == Init => Fresh
BY DEF Init, Fresh, DirtySeen, StaleSources, StaleIsFlagged, PhaseClean, Current, NoJob

LEMMA FreshNext ==
  ASSUME NoEvictingPrefetch, GuardedStores, DirectlyMapped, LoopsApart,
         Inv, Coherent, Fresh, [Next]_vars
  PROVE  Fresh'
<1>1. Inv'
  BY InvNext
<1>2. CASE RunUntil \/ Leave \/ Chain \/ Lookup \/ PrefetchFail \/ PrefetchSkip
           \/ PrefetchCompile \/ PrefetchReturn \/ PrefetchDone \/ SelfLoopTaken
           \/ SelfLoopRefused \/ BatchEnd \/ StopCheck
  <2>1. UNCHANGED << memVars, cacheVars, opt, stale >>
    BY <1>2 DEF RunUntil, Leave, Chain, Lookup, PrefetchFail, PrefetchSkip, PrefetchCompile,
                PrefetchReturn, PrefetchDone, SelfLoopTaken, SelfLoopRefused, BatchEnd, StopCheck
  <2> QED
    BY <1>1, <1>2, <2>1, QuietFresh
<1>3. CASE Service \/ HaltLoop \/ EiStep \/ FallbackStep \/ CompileFail \/ Spin
  BY <1>1, <1>3, GuestFresh
<1>4. CASE InvalidateAddr \/ Restart \/ EvictColdest \/ EmitFails \/ EvictAll
  BY <1>1, <1>4, DropFresh
<1>5. CASE BankCheck \/ SmcCheck
  BY <1>1, <1>5, CheckFresh
<1>6. CASE Compile \/ AllocOk \/ Link \/ Enter \/ BatchEnter
  BY <1>1, <1>6, CompileFresh, AllocFresh, EnterFresh
<1>7. CASE UNCHANGED vars
  <2>1. /\ UNCHANGED << memVars, pc, gpc, blk, table, smc, b, job, stale >> /\ Live' = Live
    BY <1>7 DEF vars, memVars, Live
  <2> QED
    BY <2>1 DEF Fresh, DirtySeen, StaleSources, StaleIsFlagged, PhaseClean, Current, memVars
<1> QED
  BY <1>2, <1>3, <1>4, <1>5, <1>6, <1>7 DEF Next, Loop

\* The guests the theorems are about.
Seen == NoEvictingPrefetch /\ GuardedStores /\ DirectlyMapped /\ LoopsApart

LEMMA FreshnessHolds == ASSUME Seen PROVE Spec => [](Inv /\ Coherent /\ Fresh)
<1>1. Init => Inv /\ Coherent /\ Fresh
  BY InvInit, CoherentInit, FreshInit
<1>2. Inv /\ Coherent /\ Fresh /\ [Next]_vars => (Inv /\ Coherent /\ Fresh)'
  BY InvNext, CoherentNext, FreshNext DEF Seen
<1> QED
  BY <1>1, <1>2, PTL DEF Spec

\* A block whose source changed is announced until it is dropped: no flag is lowered
\* over it and no page it is listed on is forgotten (dispatcher.c:768-801), however
\* stores, bank switches, evictions and invalidations interleave.
THEOREM StaleAnnounced == ASSUME Seen PROVE Spec => []StaleIsFlagged
BY FreshnessHolds, PTL DEF Fresh

LEMMA FreshEntered == Inv /\ Coherent /\ Fresh => NoStaleEntry
<1> SUFFICES ASSUME Inv, Coherent, Fresh, NEW i \in Entering PROVE i \notin stale
  BY DEF NoStaleEntry
<1>1. CASE i \in BatchNext
  <2>1. /\ pc = "batch" /\ ~smcDirty /\ ~bankDirty
        /\ Predicts(prev, gpc) # {} /\ i = Predicted(prev, gpc)
    BY <1>1 DEF BatchNext
  <2>2. i \in table
    BY <2>1, PredictedHere DEF Inv, PrevOK
  <2> QED
    BY <2>1, <2>2, CleanMeansFresh DEF Fresh
<1>2. CASE i \notin BatchNext
  BY <1>2 DEF Entering, Fresh, Current
<1> QED
  BY <1>1, <1>2

\* No block is entered that translates bytes which have changed since, by the table,
\* a prediction, the chain batch or the self-loop path (memory.h:69-97).
THEOREM NothingStaleRuns == ASSUME Seen PROVE Spec => []NoStaleEntry
BY FreshnessHolds, FreshEntered, PTL


-----------------------------------------------------------------------------
(* The arena.  What the loop does to it, ArenaProofs knows of CodeCache.   *)

Codes == {code[i] : i \in Live}

Arena == INSTANCE ArenaProofs WITH
  evict <- opt.evict, blocks <- Codes, pend <- [at |-> "idle"],
  Builds <- Policies, Reserves <- {Need[s] : s \in Site}, Faults <- {}

\* The arena is one that CodeCache describes.
LEMMA ArenaAssumptions ==
  /\ Cap \in Nat \ {0}
  /\ Policies \subseteq Arena!Policies
  /\ {Need[s] : s \in Site} \subseteq Nat \ {0}
  /\ {} \subseteq {"overflow", "nomem"}
<1>1. Policies \subseteq Arena!Policies
  BY DEF Policies, Bump, Coldness, Ring, Arena!Policies, Arena!Bump, Arena!Coldness, Arena!Ring
<1>2. {Need[s] : s \in Site} \subseteq Nat \ {0}
  BY SizeAssumption
<1> QED
  BY <1>1, <1>2, CapAssumption

LEMMA SameSpans ==
  /\ \A o, n : Arena!Span(o, n) = Span(o, n)
  /\ \A s, t : Arena!Overlap(s, t) <=> Overlap(s, t)
  /\ Arena!Spans = Spans
  /\ Arena!Policies = Policies /\ Arena!Bump = Bump /\ Arena!Coldness = Coldness /\ Arena!Ring = Ring
BY DEF Span, Overlap, Spans, Policies, Bump, Coldness, Ring, Arena!Span, Arena!Overlap,
   Arena!Spans, Arena!Policies, Arena!Bump, Arena!Coldness, Arena!Ring

LEMMA SameRelease ==
  \A e, a, o, n : Arena!Released(e, a, o, n) = Released(e, a, o, n)
BY DEF Released, FreeSpan, Passed, Span, Coldness,
   Arena!Released, Arena!FreeSpan, Arena!Passed, Arena!Span, Arena!Coldness

LEMMA SameTrim ==
  \A e, a, o, m, n : Arena!Trimmed(e, a, o, m, n) = Trimmed(e, a, o, m, n)
BY DEF Trimmed, FreeSpan, Passed, Span, Coldness,
   Arena!Trimmed, Arena!FreeSpan, Arena!Passed, Arena!Span, Arena!Coldness

LEMMA SameAlloc ==
  \A e, a, n : /\ Arena!CanPlace(e, a, n) <=> CanPlace(e, a, n)
               /\ Arena!Place(e, a, n) = Place(e, a, n)
               /\ Arena!Taken(e, a, n) = Taken(e, a, n)
BY DEF CanPlace, Place, Taken, FirstFit, Fits, Carve, Span, Bump, Coldness, Ring,
   Arena!CanPlace, Arena!Place, Arena!Taken, Arena!FirstFit, Arena!Fits, Arena!Carve,
   Arena!Span, Arena!Bump, Arena!Coldness, Arena!Ring

LEMMA SameEmpty == \A e : Arena!EmptyArena(e) = EmptyArena(e)
BY DEF EmptyArena, Span, Coldness, Arena!EmptyArena, Arena!Span, Arena!Coldness

\* The lemmas of ArenaProofs, of this arena.
LEMMA CodeReleased ==
  ASSUME NEW e, NEW a, NEW M, Arena!Settled(e, a, M),
         NEW s \in M, \A t \in M : t # s => ~Overlap(t, s)
  PROVE  Arena!Settled(e, Released(e, a, s.off, s.size), M \ {s})
BY ArenaAssumptions, SameSpans, SameRelease, Arena!ReleaseSpan

LEMMA CodeAllocated ==
  ASSUME NEW e \in Policies, NEW a, NEW M, Arena!Settled(e, a, M),
         NEW n \in Nat \ {0}, CanPlace(e, a, n)
  PROVE  LET s == Span(Place(e, a, n), n)
             c == Taken(e, a, n)
             kept == IF e = Ring THEN {t \in M : ~Overlap(t, s)} ELSE M
         IN  Arena!InUse(e, c, kept, s) /\ Arena!Settled(e, c, kept \union {s})
<1> DEFINE s == Arena!Span(Arena!Place(e, a, n), n)
           c == Arena!Taken(e, a, n)
           kept == IF e = Arena!Ring THEN {t \in M : ~Arena!Overlap(t, s)} ELSE M
<1>1. Arena!InUse(e, c, kept, s) /\ Arena!Settled(e, c, kept \union {s})
  <2>1. e \in Arena!Policies /\ Arena!CanPlace(e, a, n)
    BY SameSpans, SameAlloc
  <2>2. Arena!InUse(e, c, kept, s) /\ (e = Arena!Bump => c.used = s.off + s.size)
    BY <2>1, ArenaAssumptions, Arena!AllocSpan
  <2> HIDE DEF s, c, kept
  <2> QED
    BY <2>2, ArenaAssumptions, Arena!SettleSpan
<1>2. s = Span(Place(e, a, n), n) /\ c = Taken(e, a, n)
  BY SameSpans, SameAlloc
<1>3. kept = IF e = Ring THEN {t \in M : ~Overlap(t, s)} ELSE M
  BY SameSpans
<1> HIDE DEF s, c, kept
<1> QED
  BY <1>1, <1>2, <1>3

LEMMA CodeTrimmed ==
  ASSUME NEW e, NEW a, NEW M, NEW r, Arena!InUse(e, a, M, r), NEW actual \in 1..r.size
  PROVE  LET s == Span(r.off, actual)
             c == Trimmed(e, a, r.off, actual, r.size)
         IN  Arena!InUse(e, c, M, s) /\ Arena!Settled(e, c, M \union {s})
<1> DEFINE s == Arena!Span(r.off, actual)
           c == Arena!Trimmed(e, a, s.off, actual, r.size)
<1>1. Arena!InUse(e, c, M, s) /\ (e = Arena!Bump => c.used = s.off + s.size)
  BY ArenaAssumptions, Arena!TrimSpan
<1>2. Arena!Settled(e, c, M \union {s})
  <2> HIDE DEF s, c
  <2> QED
    BY <1>1, ArenaAssumptions, Arena!SettleSpan
<1>3. s = Span(r.off, actual) /\ s.off = r.off
  BY SameSpans DEF Span
<1>4. c = Trimmed(e, a, r.off, actual, r.size)
  BY <1>3, SameTrim
<1> HIDE DEF s, c
<1> QED
  BY <1>1, <1>2, <1>3, <1>4

LEMMA ArenaEmptied == \A e : Arena!Settled(e, EmptyArena(e), {})
BY ArenaAssumptions, SameEmpty, Arena!EmptySettled

LEMMA CodeProper ==
  ASSUME NEW s, Arena!Proper(s)
  PROVE  /\ s \in Spans /\ s.off \in 0..(Cap - 1) /\ s.size \in Nat \ {0} /\ s.off + s.size <= Cap
         /\ Overlap(s, s)
<1>1. /\ s \in Spans /\ s.off \in Nat /\ s.size \in Nat \ {0} /\ s.off + s.size <= Cap
      /\ s.off \in 0..(Cap - 1)
  BY ArenaAssumptions, SameSpans, Arena!ProperFacts
<1> QED
  BY <1>1 DEF Overlap

\* The other way round, and between two spans either way.
LEMMA OverlapBack ==
  ASSUME NEW s, NEW t PROVE Overlap(s, t) <=> Overlap(t, s)
BY DEF Overlap

-----------------------------------------------------------------------------
(* Giving back the code of several blocks, one after the other.  The fold  *)
(* exists, and what it computes is shown by taking a smallest              *)
(* counterexample.                                                         *)

LEMMA LeastNat ==
  ASSUME NEW S \in SUBSET Nat, S # {}
  PROVE  \E i \in S : \A j \in S : i <= j
<1>1. PICK i \in S : \A j \in S : << j, i >> \notin OpToRel(<, Nat)
  BY WFMin, NatLessThanWellFounded
<1>2. \A j \in S : ~(j < i)
  BY <1>1 DEF OpToRel
<1> QED
  BY <1>2

Freed(a, i) == Released(opt.evict, a, code[i].off, code[i].size)

First(s) == CHOOSE i \in s : TRUE

\* f takes each set of the domain D to the arena without its blocks.
FreesAll(f, D) ==
  f = [s \in D |-> IF s = {} THEN cc ELSE Freed(f[s \ {First(s)}], First(s))]

UpTo(S, n) == {s \in SUBSET S : Cardinality(s) <= n}

LEMMA WithoutFirst ==
  ASSUME NEW S, IsFiniteSet(S), NEW s \in SUBSET S, s # {}
  PROVE  /\ First(s) \in s /\ s \ {First(s)} \in SUBSET S
         /\ Cardinality(s) \in Nat \ {0} /\ Cardinality(s \ {First(s)}) = Cardinality(s) - 1
<1>1. First(s) \in s
  BY DEF First
<1>2. IsFiniteSet(s)
  BY FS_Subset
<1>3. Cardinality(s \ {First(s)}) = Cardinality(s) - 1
  BY <1>1, <1>2, FS_RemoveElement
<1>4. Cardinality(s) \in Nat /\ Cardinality(s) # 0
  BY <1>2, FS_CardinalityType, FS_EmptySet
<1> QED
  BY <1>1, <1>3, <1>4

LEMMA FreesExists ==
  ASSUME NEW S, IsFiniteSet(S)
  PROVE  \E f : FreesAll(f, SUBSET S)
<1> DEFINE Q(n) == \E f : FreesAll(f, UpTo(S, n))
<1>1. Q(0)
  <2> DEFINE f == [s \in UpTo(S, 0) |-> cc]
  <2>1. \A s \in UpTo(S, 0) : s = {}
    <3> SUFFICES ASSUME NEW s \in UpTo(S, 0), s # {} PROVE FALSE
      OBVIOUS
    <3>1. s \in SUBSET S /\ Cardinality(s) <= 0
      BY DEF UpTo
    <3>2. Cardinality(s) \in Nat \ {0}
      BY <3>1, WithoutFirst
    <3> QED
      BY <3>1, <3>2
  <2>2. FreesAll(f, UpTo(S, 0))
    BY <2>1 DEF FreesAll
  <2> QED
    BY <2>2
<1>2. ASSUME NEW n \in Nat, Q(n) PROVE Q(n + 1)
  <2>1. PICK g : FreesAll(g, UpTo(S, n))
    BY <1>2
  <2> DEFINE f == [s \in UpTo(S, n + 1) |->
                     IF s = {} THEN cc ELSE Freed(g[s \ {First(s)}], First(s))]
  <2>2. ASSUME NEW s \in UpTo(S, n) PROVE f[s] = g[s]
    <3>1. s \in UpTo(S, n + 1)
      <4>1. s \in SUBSET S /\ Cardinality(s) <= n /\ Cardinality(s) \in Nat
        BY FS_Subset, FS_CardinalityType DEF UpTo
      <4> QED
        BY <4>1 DEF UpTo
    <3>2. g[s] = IF s = {} THEN cc ELSE Freed(g[s \ {First(s)}], First(s))
      BY <2>1 DEF FreesAll
    <3> QED
      BY <3>1, <3>2
  <2>3. ASSUME NEW s \in UpTo(S, n + 1), s # {}
        PROVE  f[s \ {First(s)}] = g[s \ {First(s)}]
    <3>1. s \ {First(s)} \in UpTo(S, n)
      <4>1. s \in SUBSET S /\ Cardinality(s) <= n + 1
        BY DEF UpTo
      <4>2. s \ {First(s)} \in SUBSET S /\ Cardinality(s \ {First(s)}) = Cardinality(s) - 1
            /\ Cardinality(s) \in Nat
        BY <2>3, <4>1, WithoutFirst
      <4> QED
        BY <4>1, <4>2 DEF UpTo
    <3> QED
      BY <2>2, <3>1
  <2>4. FreesAll(f, UpTo(S, n + 1))
    <3>1. ASSUME NEW s \in UpTo(S, n + 1)
          PROVE  f[s] = IF s = {} THEN cc ELSE Freed(f[s \ {First(s)}], First(s))
      BY <2>3
    <3>2. f = [s \in UpTo(S, n + 1) |-> f[s]]
      OBVIOUS
    <3> HIDE DEF f
    <3> QED
      BY <3>1, <3>2 DEF FreesAll
  <2> QED
    BY <2>4
<1> HIDE DEF Q
<1>3. \A n \in Nat : Q(n)
  <2> DEFINE bad == {n \in Nat : ~Q(n)}
  <2> SUFFICES ASSUME bad # {} PROVE FALSE
    OBVIOUS
  <2>1. PICK n \in bad : \A k \in bad : n <= k
    BY LeastNat
  <2>2. n \in Nat /\ ~Q(n) /\ n # 0
    BY <1>1
  <2>3. n - 1 \in Nat /\ n - 1 \notin bad
    BY <2>1, <2>2
  <2>4. Q(n - 1 + 1)
    BY <1>2, <2>3
  <2> QED
    BY <2>2, <2>4
<1>4. UpTo(S, Cardinality(S)) = SUBSET S /\ Cardinality(S) \in Nat
  BY FS_Subset, FS_CardinalityType DEF UpTo
<1> QED
  BY <1>3, <1>4 DEF Q

\* ArenaWithout is such a fold.
LEMMA ArenaWithoutFrees ==
  ASSUME NEW gone, IsFiniteSet(gone)
  PROVE  \E f : FreesAll(f, SUBSET gone) /\ ArenaWithout(gone) = f[gone]
<1> DEFINE f == CHOOSE f : FreesAll(f, SUBSET gone)
<1>1. ArenaWithout(gone) = f[gone]
  BY DEF ArenaWithout, FoldSet, MapThenFoldSet, FreesAll, Freed, First
<1>2. FreesAll(f, SUBSET gone)
  BY FreesExists
<1> QED
  BY <1>1, <1>2

\* Blocks given back leave the others in the arena.
LEMMA CodesReleased ==
  ASSUME NEW gone \in SUBSET Live, IsFiniteSet(gone), Arena!Settled(opt.evict, cc, Codes),
         \A i, j \in Live : i # j => ~Overlap(code[i], code[j])
  PROVE  Arena!Settled(opt.evict, ArenaWithout(gone), {code[i] : i \in Live \ gone})
<1> DEFINE left(s) == {code[i] : i \in Live \ s}
<1>1. PICK f : FreesAll(f, SUBSET gone) /\ ArenaWithout(gone) = f[gone]
  BY ArenaWithoutFrees
<1> DEFINE Q(s) == Arena!Settled(opt.evict, f[s], left(s))
           bad  == {s \in SUBSET gone : ~Q(s)}
           size == {Cardinality(s) : s \in bad}
<1>2. Q({})
  <2>1. f[{}] = cc
    BY <1>1 DEF FreesAll
  <2>2. left({}) = Codes
    BY DEF Codes
  <2> HIDE DEF left
  <2> QED
    BY <2>1, <2>2
<1>3. ASSUME NEW s \in SUBSET gone, s # {}, Q(s \ {First(s)}) PROVE Q(s)
  <2> DEFINE i == First(s)
             t == s \ {i}
  <2>1. i \in s /\ i \in Live /\ i \notin t /\ t \in SUBSET gone
    BY <1>3, WithoutFirst
  <2>2. f[s] = Freed(f[t], i)
    BY <1>1, <1>3 DEF FreesAll
  <2>3. code[i] \in left(t) /\ \A c \in left(t) : c # code[i] => ~Overlap(c, code[i])
    BY <2>1
  <2>4. left(s) = left(t) \ {code[i]}
    <3>1. \A j \in Live \ s : j # i /\ j \in Live \ t
      BY <2>1
    <3>2. \A j \in Live \ t : j # i => j \in Live \ s
      BY <2>1
    <3>3. \A j \in Live : j # i => code[j] # code[i]
      <4> SUFFICES ASSUME NEW j \in Live, j # i, code[j] = code[i] PROVE FALSE
        OBVIOUS
      <4>1. ~Overlap(code[i], code[i])
        BY <2>1
      <4>2. Arena!Proper(code[i])
        BY <2>1 DEF Arena!Settled, Codes
      <4> QED
        BY <4>1, <4>2, CodeProper
    <3> HIDE DEF t, i
    <3> QED
      BY <2>1, <3>1, <3>2, <3>3
  <2>5. Arena!Settled(opt.evict, f[t], left(t))
    BY <1>3
  <2> HIDE DEF left, t, i
  <2>6. Arena!Settled(opt.evict, Freed(f[t], i), left(t) \ {code[i]})
    BY <2>3, <2>5, CodeReleased DEF Freed
  <2> QED
    BY <2>2, <2>4, <2>6
<1> HIDE DEF Q, left
<1>4. bad = {}
  <2> SUFFICES ASSUME bad # {} PROVE FALSE
    OBVIOUS
  <2>1. size # {} /\ size \in SUBSET Nat
    BY FS_Subset, FS_CardinalityType
  <2>2. PICK n \in size : \A k \in size : n <= k
    BY <2>1, LeastNat
  <2>3. PICK s \in bad : Cardinality(s) = n
    OBVIOUS
  <2>4. s \in SUBSET gone /\ ~Q(s) /\ s # {}
    BY <1>2
  <2>5. /\ s \ {First(s)} \in SUBSET gone /\ Cardinality(s) \in Nat
        /\ Cardinality(s \ {First(s)}) = Cardinality(s) - 1
    BY <2>4, WithoutFirst
  <2>6. s \ {First(s)} \notin bad
    BY <2>2, <2>3, <2>5
  <2> QED
    BY <1>3, <2>4, <2>5, <2>6
<1>5. Q(gone)
  BY <1>4
<1> QED
  BY <1>1, <1>5 DEF Q, left

-----------------------------------------------------------------------------
(* No two blocks share code.                                               *)

\* The blocks occupy the arena, each a part of its own; and what the arena knows of
\* it is right whenever a compile may ask for space: with the cache off the code of
\* a block that ran is not given back, and the arena is wiped before the next compile.
ArenaOK ==
  /\ \A i \in Live : Arena!Proper(code[i])
  /\ \A i, j \in Live : i # j => ~Overlap(code[i], code[j])
  /\ (opt.noCache => pc = "alloc") => Arena!Settled(opt.evict, cc, Codes)

\* At most one block starts at each unit.
LEMMA LiveFinite ==
  ASSUME ArenaOK
  PROVE  IsFiniteSet(Live)
<1> DEFINE f == [i \in Live |-> code[i].off]
<1>1. f \in [Live -> 0..(Cap - 1)]
  BY CodeProper DEF ArenaOK
<1>2. ASSUME NEW i \in Live, NEW j \in Live, f[i] = f[j] PROVE i = j
  <2>1. /\ code[i].off \in Nat /\ code[j].off = code[i].off
        /\ code[i].size \in Nat \ {0} /\ code[j].size \in Nat \ {0}
    BY <1>2, CodeProper, CapAssumption DEF ArenaOK
  <2>2. Overlap(code[i], code[j])
    BY <2>1 DEF Overlap
  <2> QED
    BY <2>2 DEF ArenaOK
<1>3. f \in Injection(Live, 0..(Cap - 1))
  <2> HIDE DEF f
  <2> QED
    BY <1>1, <1>2 DEF Injection, IsInjective
<1>4. IsFiniteSet(0..(Cap - 1))
  BY FS_Interval, CapAssumption
<1> QED
  BY <1>3, <1>4, FS_Injection

LEMMA ArenaInit == Init => ArenaOK
<1> SUFFICES ASSUME Init PROVE ArenaOK
  OBVIOUS
<1>1. Live = {} /\ Codes = {}
  BY DEF Init, Live, Codes
<1>2. Arena!Settled(opt.evict, cc, Codes)
  BY <1>1, ArenaEmptied DEF Init
<1> QED
  BY <1>1, <1>2 DEF ArenaOK

\* The arena and the code left alone.
LEMMA SameArena ==
  ASSUME ArenaOK, UNCHANGED << opt, code, cc >>, Live' = Live,
         pc' = "alloc" /\ opt.noCache => pc = "alloc"
  PROVE  ArenaOK'
<1>1. Codes' = Codes
  BY DEF Codes
<1> QED
  BY <1>1 DEF ArenaOK

\* Blocks lost, the arena right again.
LEMMA FewerBlocks ==
  ASSUME ArenaOK, Live' \subseteq Live, \A i \in Live' : code'[i] = code[i],
         (opt.noCache => pc = "alloc")' => Arena!Settled(opt.evict, cc, Codes)'
  PROVE  ArenaOK'
BY DEF ArenaOK

LEMMA InvalidateArena ==
  ASSUME Inv, ArenaOK, NEW ps \in SUBSET Pages, Invalidate(ps), opt' = opt,
         pc # "alloc", pc' # "alloc"
  PROVE  ArenaOK'
<1> DEFINE gone == UNION {smc[p] : p \in ps}
<1>1. gone \in SUBSET table /\ gone \in SUBSET Live /\ Drop(gone) /\ cc' = ArenaWithout(gone)
  BY DEF Invalidate, Inv, HeapOK
<1>2. Live' = Live \ gone
  BY <1>1, DropHeap DEF Inv, TypeOK
<1>3. \A i \in Live' : code'[i] = code[i]
  BY <1>1, <1>2 DEF Drop, CodeWithout, Live
<1>4. Codes' = {code[i] : i \in Live \ gone}
  BY <1>2, <1>3 DEF Codes
<1> HIDE DEF gone
<1>5. ASSUME ~opt.noCache PROVE Arena!Settled(opt.evict, cc', Codes')
  <2>1. IsFiniteSet(gone)
    BY <1>1, LiveFinite, FS_Subset
  <2> QED
    BY <1>1, <1>4, <1>5, <2>1, CodesReleased DEF ArenaOK
<1> QED
  BY <1>2, <1>3, <1>5, FewerBlocks

LEMMA DropAllArena ==
  ASSUME Inv, Coherent, ArenaOK, DropAll, opt' = opt, pc \in {"idle", "alloc", "lost"}
  PROVE  ArenaOK'
<1>1. Live' = {}
  BY DropAllHeap DEF Inv, TypeOK, Coherent, Owned
<1>2. Codes' = {}
  BY <1>1 DEF Codes
<1>3. Arena!Settled(opt.evict, cc', Codes')
  BY <1>2, ArenaEmptied DEF DropAll
<1> QED
  BY <1>1, <1>3, FewerBlocks

LEMMA EvictArena ==
  ASSUME Inv, ArenaOK, EvictColdest
  PROVE  ArenaOK'
<1>1. PICK v \in Coldest :
        Drop({v}) /\ cc' = Released(opt.evict, cc, code[v].off, code[v].size)
  BY DEF EvictColdest
<1>2. pc = "alloc" /\ pc' = pc /\ opt' = opt
  BY DEF EvictColdest
<1>3. v \in table /\ v \in Live
  BY DEF Coldest, Inv, HeapOK
<1>4. Live' = Live \ {v}
  BY <1>1, <1>3, DropHeap DEF Inv, TypeOK
<1>5. \A i \in Live' : code'[i] = code[i]
  BY <1>1, <1>4 DEF Drop, CodeWithout, Live
<1>6. code[v] \in Codes /\ \A c \in Codes : c # code[v] => ~Overlap(c, code[v])
  BY <1>3 DEF Codes, ArenaOK
<1>7. Codes' = Codes \ {code[v]}
  <2>1. \A i \in Live : i # v => code[i] # code[v]
    BY <1>3, CodeProper DEF ArenaOK
  <2> QED
    BY <1>3, <1>4, <1>5, <2>1 DEF Codes
<1>8. Arena!Settled(opt.evict, cc', Codes')
  BY <1>1, <1>2, <1>6, <1>7, CodeReleased DEF ArenaOK
<1> QED
  BY <1>2, <1>4, <1>5, <1>8, FewerBlocks

LEMMA CompileArena ==
  ASSUME Inv, Coherent, ArenaOK, Compile
  PROVE  ArenaOK'
<1>1. Live' = Live /\ code' = code /\ opt' = opt /\ pc = "dispatch"
  BY DEF Compile, Live, Dispatching
<1>2. CASE opt.noCache
  <2>1. Live = {} /\ Codes' = {} /\ cc' = EmptyArena(opt.evict)
    BY <1>1, <1>2 DEF Coherent, Owned, Codes, Compile
  <2> QED
    BY <1>1, <2>1, ArenaEmptied, FewerBlocks
<1>3. CASE ~opt.noCache
  BY <1>1, <1>3, SameArena DEF Compile
<1> QED
  BY <1>2, <1>3

\* The compile takes a part of the arena for itself: under the ring the blocks
\* there are gone.
LEMMA AllocArena ==
  ASSUME Inv, Coherent, ArenaOK, AllocOk
  PROVE  ArenaOK'
<1> DEFINE s    == job.site
           o    == Place(opt.evict, cc, Need[s])
           r    == Span(o, Need[s])
           k    == Span(o, Keep[s])
           gone == Overwritten(r)
           kept == IF opt.evict = Ring THEN {t \in Codes : ~Overlap(t, r)} ELSE Codes
           took == Taken(opt.evict, cc, Need[s])
           trim == Trimmed(opt.evict, took, o, Keep[s], Need[s])
<1>1. PICK n \in Id \ Live :
        /\ blk' = [HeapWithout(gone) EXCEPT ![n] = NewBlock(s)]
        /\ code' = [CodeWithout(gone) EXCEPT ![n] = k]
        /\ cc' = trim
  BY DEF AllocOk
<1>2. /\ pc = "alloc" /\ pc' = "prefetch" /\ opt' = opt /\ CanPlace(opt.evict, cc, Need[s])
      /\ s \in Site
  BY DEF AllocOk, Fitting, Inv, JobOK
<1>3. /\ Need[s] \in Nat \ {0} /\ Keep[s] \in 1..Need[s] /\ opt.evict \in Policies
  BY <1>2, SizeAssumption, OptionsAssumption DEF Inv, TypeOK, LoopTypeOK
<1>4. Arena!Settled(opt.evict, cc, Codes)
  BY <1>2 DEF ArenaOK
<1>5. Arena!InUse(opt.evict, took, kept, r)
  <2> HIDE DEF s
  <2> QED
    BY <1>2, <1>3, <1>4, CodeAllocated
<1>6. r.off = o /\ r.size = Need[s]
  BY DEF Span
<1>7. Arena!InUse(opt.evict, trim, kept, k) /\ Arena!Settled(opt.evict, trim, kept \union {k})
  <2> HIDE DEF r, o, s, took, kept
  <2> QED
    BY <1>3, <1>5, <1>6, CodeTrimmed
<1>8. gone \in SUBSET table /\ gone \in SUBSET Live
  BY DEF Overwritten, Inv, HeapOK
<1> HIDE DEF s, o, r, k, gone, trim, took
<1>9. /\ Live' = (Live \ gone) \union {n}
      /\ \A i \in Live \ gone : code'[i] = code[i]
      /\ code'[n] = k
  <2>1. NewBlock(s) # Dead
    <3>1. NewBlock(s).pc # NIL
      BY <1>2, GeometryAssumption, ProgramAssumption DEF NewBlock
    <3> QED
      BY <3>1 DEF NewBlock, Dead
  <2>2. /\ HeapWithout(gone) \in [Id -> Blocks \union {Dead}]
        /\ \A i \in Id : HeapWithout(gone)[i] # Dead <=> i \in Live \ gone
    BY <1>8, WithoutHeap DEF Inv, TypeOK
  <2>3. \A i \in Id : blk'[i] = IF i = n THEN NewBlock(s) ELSE HeapWithout(gone)[i]
    BY <1>1, <2>2
  <2>4. Live' = (Live \ gone) \union {n}
    BY <1>1, <2>1, <2>2, <2>3 DEF Live
  <2>5. Live \subseteq Id
    BY DEF Live
  <2> QED
    BY <1>1, <2>4, <2>5 DEF CodeWithout
<1>10. \A i \in Live \ gone : code[i] \in kept
  <2>1. CASE opt.evict = Ring /\ ~opt.noCache
    <3>1. Live \subseteq table
      BY <2>1 DEF Coherent, Owned
    <3> QED
      BY <2>1, <3>1 DEF gone, Overwritten, kept, Codes
  <2>2. CASE opt.evict # Ring
    BY <2>2 DEF kept, Codes
  <2>3. CASE opt.noCache
    <3>1. Live = {}
      BY <1>2, <2>3 DEF Coherent, Owned
    <3> QED
      BY <3>1
  <2> QED
    BY <2>1, <2>2, <2>3
<1>11. \A c \in kept : Arena!Proper(c) /\ ~Overlap(c, k) /\ ~Overlap(k, c)
  BY <1>7, SameSpans DEF Arena!InUse
<1>12. Arena!Proper(k)
  BY <1>7 DEF Arena!InUse
<1>13. \A i \in Live' : Arena!Proper(code'[i])
  BY <1>9, <1>10, <1>11, <1>12
<1>14. \A i, j \in Live' : i # j => ~Overlap(code'[i], code'[j])
  <2>1. \A i, j \in Live \ gone : i # j => ~Overlap(code'[i], code'[j])
    BY <1>9 DEF ArenaOK
  <2>2. \A i \in Live \ gone : ~Overlap(code'[i], code'[n]) /\ ~Overlap(code'[n], code'[i])
    BY <1>9, <1>10, <1>11
  <2> QED
    BY <1>9, <2>1, <2>2
<1>15. Arena!Settled(opt.evict, cc', Codes') \/ opt.noCache
  <2>1. kept = {code[i] : i \in Live \ gone} \/ opt.noCache
    <3>1. CASE opt.evict # Ring
      BY <3>1, <1>8 DEF kept, Codes, gone, Overwritten
    <3>2. CASE opt.evict = Ring /\ ~opt.noCache
      <4>1. \A c \in kept : \E i \in Live \ gone : c = code[i]
        BY <3>2 DEF gone, Overwritten, kept, Codes
      <4> HIDE DEF kept
      <4> QED
        BY <1>10, <4>1
    <3> QED
      BY <3>1, <3>2
  <2>2. ASSUME ~opt.noCache PROVE Codes' = kept \union {k}
    <3> HIDE DEF kept
    <3> QED
      BY <1>9, <2>1, <2>2 DEF Codes
  <2> QED
    BY <1>1, <1>7, <2>2
<1> QED
  BY <1>2, <1>13, <1>14, <1>15 DEF ArenaOK

\* The compile loses the part of the arena it took; the blocks the ring evicted for it
\* stay gone.
LEMMA EmitFailsArena ==
  ASSUME Inv, Coherent, ArenaOK, EmitFails
  PROVE  ArenaOK'
<1> DEFINE s    == job.site
           o    == Place(opt.evict, cc, Need[s])
           r    == Span(o, Need[s])
           k    == Span(o, Keep[s])
           gone == Overwritten(r)
           kept == IF opt.evict = Ring THEN {t \in Codes : ~Overlap(t, r)} ELSE Codes
           took == Taken(opt.evict, cc, Need[s])
           trim == Trimmed(opt.evict, took, o, Keep[s], Need[s])
<1>1. /\ Drop(gone)
      /\ cc' \in {Released(opt.evict, took, o, Need[s]), Released(opt.evict, trim, o, Keep[s])}
  BY DEF EmitFails
<1>2. /\ pc = "alloc" /\ pc' = "lost" /\ opt' = opt /\ CanPlace(opt.evict, cc, Need[s])
      /\ s \in Site
  BY DEF EmitFails, Fitting, Inv, JobOK
<1>3. /\ Need[s] \in Nat \ {0} /\ Keep[s] \in 1..Need[s] /\ opt.evict \in Policies
  BY <1>2, SizeAssumption, OptionsAssumption DEF Inv, TypeOK, LoopTypeOK
<1>4. Arena!Settled(opt.evict, cc, Codes)
  BY <1>2 DEF ArenaOK
<1>5. Arena!InUse(opt.evict, took, kept, r) /\ Arena!Settled(opt.evict, took, kept \union {r})
  <2> HIDE DEF s
  <2> QED
    BY <1>2, <1>3, <1>4, CodeAllocated
<1>6. r.off = o /\ r.size = Need[s] /\ k.off = o /\ k.size = Keep[s]
  BY DEF Span
<1>7. Arena!InUse(opt.evict, trim, kept, k) /\ Arena!Settled(opt.evict, trim, kept \union {k})
  <2> HIDE DEF r, o, s, took, kept
  <2> QED
    BY <1>3, <1>5, <1>6, CodeTrimmed
<1>8. gone \in SUBSET table /\ gone \in SUBSET Live
  BY DEF Overwritten, Inv, HeapOK
<1> HIDE DEF s, o, r, k, gone, trim, took
<1>9. Live' = Live \ gone /\ \A i \in Live' : code'[i] = code[i]
  <2>1. Live' = Live \ gone
    BY <1>1, <1>8, DropHeap DEF Inv, TypeOK
  <2> QED
    BY <1>1, <2>1 DEF Drop, CodeWithout, Live
<1>10. kept = {code[i] : i \in Live \ gone} \/ opt.noCache
  <2>1. CASE opt.evict # Ring
    BY <2>1, <1>8 DEF kept, Codes, gone, Overwritten
  <2>2. CASE opt.evict = Ring /\ ~opt.noCache
    <3>1. Live \subseteq table
      BY <2>2 DEF Coherent, Owned
    <3>2. \A i \in Live \ gone : code[i] \in kept
      BY <2>2, <3>1 DEF gone, Overwritten, kept, Codes
    <3>3. \A c \in kept : \E i \in Live \ gone : c = code[i]
      BY <2>2 DEF gone, Overwritten, kept, Codes
    <3> HIDE DEF kept
    <3> QED
      BY <3>2, <3>3
  <2> QED
    BY <2>1, <2>2
<1> HIDE DEF kept
<1>11. Arena!Settled(opt.evict, cc', kept)
  <2>1. ASSUME NEW a, NEW u, Arena!InUse(opt.evict, a, kept, u),
               Arena!Settled(opt.evict, a, kept \union {u})
        PROVE  Arena!Settled(opt.evict, Released(opt.evict, a, u.off, u.size), kept)
    <3>1. u \notin kept /\ \A t \in kept : ~Overlap(t, u)
      BY <2>1, SameSpans DEF Arena!InUse
    <3>2. Arena!Settled(opt.evict, Released(opt.evict, a, u.off, u.size),
                        (kept \union {u}) \ {u})
      BY <2>1, <3>1, CodeReleased
    <3>3. (kept \union {u}) \ {u} = kept
      BY <3>1
    <3> QED
      BY <3>2, <3>3
  <2>2. Arena!Settled(opt.evict, Released(opt.evict, took, o, Need[s]), kept)
    BY <1>5, <1>6, <2>1
  <2>3. Arena!Settled(opt.evict, Released(opt.evict, trim, o, Keep[s]), kept)
    BY <1>6, <1>7, <2>1
  <2> QED
    BY <1>1, <2>2, <2>3
<1>12. opt.noCache \/ Codes' = kept
  BY <1>9, <1>10 DEF Codes
<1>13. (opt.noCache => pc = "alloc")' => Arena!Settled(opt.evict, cc, Codes)'
  BY <1>2, <1>11, <1>12
<1> QED
  BY <1>9, <1>13, FewerBlocks

\* Learning a successor makes and drops no block.
LEMMA LinkArena ==
  ASSUME Inv, Inv', ArenaOK, Link
  PROVE  ArenaOK'
<1>1. /\ pc = "link" /\ pc' = "enter" /\ UNCHANGED << opt, code, cc, table >>
      /\ blk' = blk \/ (prev # NIL /\ blk' = [blk EXCEPT ![prev] = Learns(@)])
  BY DEF Link
<1>2. Live' = Live
  <2>1. CASE blk' = blk
    BY <2>1 DEF Live
  <2>2. CASE prev # NIL /\ blk' = [blk EXCEPT ![prev] = Learns(@)]
    <3>1. prev \in table
      BY <1>1, <2>2 DEF Inv, PrevOK
    <3>2. prev \in Live /\ prev \in Live'
      BY <1>1, <3>1 DEF Inv, HeapOK
    <3>3. \A i \in Id : i # prev => blk'[i] = blk[i]
      BY <2>2 DEF Inv, TypeOK, CacheTypeOK
    <3> QED
      BY <3>2, <3>3 DEF Live
  <2> QED
    BY <1>1, <2>1, <2>2
<1> QED
  BY <1>1, <1>2, SameArena

LEMMA EnterArena ==
  ASSUME Inv, ArenaOK, Enter
  PROVE  ArenaOK'
<1>1. pc = "enter" /\ pc' = "after" /\ opt' = opt /\ cc' = cc
  BY DEF Enter
<1>2. CASE opt.noCache
  <2>1. blk' = [blk EXCEPT ![b] = Dead] /\ code' = [code EXCEPT ![b] = NoCode]
    BY <1>2 DEF Enter, HeapAfterRun
  <2>2. b \in Id
    BY <1>1 DEF Inv, BlockOK, Live
  <2>3. b \notin Live' /\ Live' \subseteq Live
    BY <2>1, <2>2 DEF Live, Inv, TypeOK, CacheTypeOK
  <2>4. \A i \in Live' : code'[i] = code[i]
    BY <2>1, <2>3
  <2> QED
    BY <1>1, <1>2, <2>3, <2>4, FewerBlocks
<1>3. CASE ~opt.noCache
  <2>1. blk' = blk /\ code' = code
    BY <1>3 DEF Enter, HeapAfterRun
  <2> QED
    BY <1>1, <1>3, <2>1, SameArena DEF Live
<1> QED
  BY <1>2, <1>3

\* The other steps touch neither a block's code nor the arena, and none of them begins
\* a compile with the cache off.
LEMMA QuietArena ==
  ASSUME Inv, ArenaOK,
         \/ RunUntil \/ Leave \/ Chain \/ Lookup \/ PrefetchFail \/ PrefetchSkip
         \/ PrefetchCompile \/ PrefetchReturn \/ PrefetchDone \/ SelfLoopTaken
         \/ SelfLoopRefused \/ BatchEnd \/ StopCheck
         \/ Service \/ HaltLoop \/ EiStep \/ FallbackStep \/ CompileFail \/ Spin
         \/ BatchEnter
  PROVE  ArenaOK'
<1>1. UNCHANGED << opt, code, cc, blk >>
  BY DEF RunUntil, Leave, Chain, Lookup, PrefetchFail, PrefetchSkip, PrefetchCompile,
         PrefetchReturn, PrefetchDone, SelfLoopTaken, SelfLoopRefused, BatchEnd, StopCheck,
         Service, HaltLoop, EiStep, FallbackStep, CompileFail, Spin, BatchEnter, cacheVars
<1>2. pc' = "alloc" /\ opt.noCache => pc = "alloc"
  <2>1. CASE PrefetchCompile
    <3>1. frames # << >>
      BY <2>1 DEF PrefetchCompile, Reading
    <3> QED
      BY <3>1 DEF Inv, FramesOK
  <2>2. CASE ~PrefetchCompile
    BY <2>2 DEF RunUntil, Leave, Chain, Lookup, PrefetchFail, PrefetchSkip,
         PrefetchReturn, PrefetchDone, SelfLoopTaken, SelfLoopRefused, BatchEnd, StopCheck,
         Service, HaltLoop, EiStep, FallbackStep, CompileFail, Spin, BatchEnter
  <2> QED
    BY <2>1, <2>2
<1>3. Live' = Live
  BY <1>1 DEF Live
<1> QED
  BY <1>1, <1>2, <1>3, SameArena

LEMMA ArenaNext ==
  ASSUME NoEvictingPrefetch, Inv, Coherent, ArenaOK, [Next]_vars
  PROVE  ArenaOK'
<1>1. Inv'
  BY InvNext
<1>2. CASE InvalidateAddr
  <2>1. PICK p \in Pages : Invalidate({p})
    BY <1>2 DEF InvalidateAddr
  <2>2. opt' = opt /\ pc # "alloc" /\ pc' # "alloc" /\ {p} \in SUBSET Pages
    BY <1>2 DEF InvalidateAddr
  <2> QED
    BY <2>1, <2>2, InvalidateArena
<1>3. CASE BankCheck
  <2>1. opt' = opt /\ pc # "alloc" /\ pc' # "alloc" /\ BankPages \in SUBSET Pages
    BY <1>3, MemoryMapAssumption DEF BankCheck
  <2>2. CASE bankDirty
    BY <1>3, <2>1, <2>2, InvalidateArena DEF BankCheck
  <2>3. CASE ~bankDirty
    BY <1>3, <2>1, <2>3, SameArena DEF BankCheck, cacheVars, Live
  <2> QED
    BY <2>2, <2>3
<1>4. CASE SmcCheck
  <2>1. opt' = opt /\ pc # "alloc" /\ pc' # "alloc" /\ DirtyPages \in SUBSET Pages
    BY <1>4 DEF SmcCheck, DirtyPages
  <2>2. CASE smcDirty
    BY <1>4, <2>1, <2>2, InvalidateArena DEF SmcCheck
  <2>3. CASE ~smcDirty
    BY <1>4, <2>1, <2>3, SameArena DEF SmcCheck, cacheVars, Live
  <2> QED
    BY <2>2, <2>3
<1>5. CASE Restart
  BY <1>5, DropAllArena DEF Restart
<1>6. CASE EvictAll
  BY <1>6, DropAllArena DEF EvictAll, Failed
<1>7. CASE EvictColdest \/ Compile \/ AllocOk \/ EmitFails \/ Link \/ Enter
  BY <1>1, <1>7, EvictArena, CompileArena, AllocArena, EmitFailsArena, LinkArena, EnterArena
<1>8. CASE RunUntil \/ Leave \/ Chain \/ Lookup \/ PrefetchFail \/ PrefetchSkip
           \/ PrefetchCompile \/ PrefetchReturn \/ PrefetchDone \/ SelfLoopTaken
           \/ SelfLoopRefused \/ BatchEnd \/ StopCheck
           \/ Service \/ HaltLoop \/ EiStep \/ FallbackStep \/ CompileFail \/ Spin
           \/ BatchEnter
  BY <1>8, QuietArena
<1>9. CASE UNCHANGED vars
  BY <1>9, SameArena DEF vars, Live
<1> QED
  BY <1>2, <1>3, <1>4, <1>5, <1>6, <1>7, <1>8, <1>9 DEF Next, Loop

LEMMA ArenaHolds == ASSUME NoEvictingPrefetch PROVE Spec => [](Inv /\ Coherent /\ ArenaOK)
<1>1. Init => Inv /\ Coherent /\ ArenaOK
  BY InvInit, CoherentInit, ArenaInit
<1>2. Inv /\ Coherent /\ ArenaOK /\ [Next]_vars => (Inv /\ Coherent /\ ArenaOK)'
  BY InvNext, CoherentNext, ArenaNext
<1> QED
  BY <1>1, <1>2, PTL DEF Spec

LEMMA ArenaDisjoint == ArenaOK => CodeDisjoint
<1> SUFFICES ASSUME ArenaOK, NEW i \in Live
             PROVE  /\ code[i] \in Spans
                    /\ code[i].size > 0 /\ code[i].off + code[i].size <= Cap
                    /\ \A j \in Live \ {i} : ~Overlap(code[i], code[j])
  BY DEF CodeDisjoint
<1>1. /\ code[i] \in Spans /\ code[i].size \in Nat \ {0}
      /\ code[i].off + code[i].size <= Cap
  BY CodeProper DEF ArenaOK
<1>2. code[i].size > 0
  BY <1>1
<1> QED
  BY <1>1, <1>2 DEF ArenaOK

\* No two blocks share a unit of code, and no code lies outside the arena, however
\* compiles, trims, evictions of one block or of a range, invalidations and wipes
\* follow each other, under each of the three allocators.
THEOREM CodeNeverShared == ASSUME NoEvictingPrefetch PROVE Spec => []CodeDisjoint
BY ArenaHolds, ArenaDisjoint, PTL

-----------------------------------------------------------------------------
(* The free-list arena keeps the block that just ran.                      *)

Hottest(i) == \A j \in table \ {i} : << j, i >> \in colder

\* Where s_run_prev is the block that ran last.
AfterRun == {"bank", "smc", "service", "dispatch", "alloc", "lost", "after", "spin", "batch",
             "stop"}

\* The tags order the blocks, and the last one stamped is the one that runs or ran.
HotOK ==
  opt.evict = Coldness =>
    /\ \A i, j \in table : << i, j >> \in colder => << j, i >> \notin colder
    /\ pc \in AfterRun /\ prev # NIL => Hottest(prev)
    /\ pc = "enter" /\ ~opt.noCache => Hottest(b)

\* The tags left alone.
LEMMA SameHot ==
  ASSUME HotOK, UNCHANGED << opt, table, colder >>, prev' \in {prev, NIL},
         prev' # NIL /\ opt.evict = Coldness /\ pc' \in AfterRun => pc \in AfterRun,
         pc' # "enter"
  PROVE  HotOK'
BY DEF HotOK, Hottest

\* Blocks dropped.
LEMMA DropHot ==
  ASSUME Inv, HotOK, NEW gone \in SUBSET table, Drop(gone), opt' = opt,
         pc' \in AfterRun /\ prev' # NIL => prev' = prev /\ prev \notin gone /\ pc \in AfterRun,
         pc' # "enter"
  PROVE  HotOK'
<1>1. table' = table \ gone /\ colder' = {q \in colder : q[1] \notin gone /\ q[2] \notin gone}
  BY DEF Drop, OrderWithout
<1>2. ASSUME opt.evict = Coldness, pc' \in AfterRun, prev' # NIL PROVE Hottest(prev)'
  <2>1. prev' = prev /\ prev \notin gone /\ Hottest(prev)
    BY <1>2 DEF HotOK
  <2> QED
    BY <1>1, <2>1 DEF Hottest
<1>3. ASSUME opt.evict = Coldness, NEW i \in table', NEW j \in table', << i, j >> \in colder'
      PROVE  << j, i >> \notin colder'
  BY <1>1, <1>3 DEF HotOK
<1> QED
  BY <1>2, <1>3 DEF HotOK

\* The cache wiped.
LEMMA DropAllHot ==
  ASSUME DropAll, prev' = NIL \/ pc' \notin AfterRun, pc' # "enter"
  PROVE  HotOK'
BY DEF DropAll, HotOK

\* The block stamped last is the hottest.
LEMMA Stamped ==
  ASSUME NEW order, NEW t \in SUBSET Id, NEW i \in t, opt.evict = Coldness,
         order \subseteq t \X t,
         \A j, k \in t : << j, k >> \in order => << k, j >> \notin order
  PROVE  /\ \A j \in t \ {i} : << j, i >> \in Stamp(order, t, i)
         /\ \A j, k \in t : << j, k >> \in Stamp(order, t, i) => << k, j >> \notin Stamp(order, t, i)
<1>1. Stamp(order, t, i) = {q \in order : q[1] # i} \union {<< j, i >> : j \in t \ {i}}
  BY DEF Stamp
<1>2. \A j, k \in t : << j, k >> \in Stamp(order, t, i)
                        <=> (<< j, k >> \in order /\ j # i) \/ (k = i /\ j # i)
  BY <1>1
<1> QED
  BY <1>2

LEMMA InvalidateHot ==
  ASSUME Inv, HotOK, NEW ps \in SUBSET Pages, Invalidate(ps), opt' = opt,
         prev' = NIL \/ pc' \notin AfterRun, pc' # "enter"
  PROVE  HotOK'
<1> DEFINE gone == UNION {smc[p] : p \in ps}
<1>1. gone \in SUBSET table /\ Drop(gone)
  BY DEF Invalidate, Inv, HeapOK
<1> HIDE DEF gone
<1> QED
  BY <1>1, DropHot

LEMMA DropsHot ==
  ASSUME Inv, HotOK,
         \/ InvalidateAddr \/ Restart \/ BankCheck \/ SmcCheck
         \/ EvictColdest \/ EmitFails \/ EvictAll
  PROVE  HotOK'
<1>1. CASE InvalidateAddr
  <2>1. PICK p \in Pages : Invalidate({p})
    BY <1>1 DEF InvalidateAddr
  <2>2. opt' = opt /\ pc' \notin AfterRun /\ pc' # "enter" /\ {p} \in SUBSET Pages
    BY <1>1 DEF InvalidateAddr, AfterRun
  <2> QED
    BY <2>1, <2>2, InvalidateHot
<1>2. CASE Restart
  BY <1>2, DropAllHot DEF Restart, AfterRun
<1>3. CASE BankCheck
  <2>1. opt' = opt /\ pc \in AfterRun /\ pc' # "enter" /\ BankPages \in SUBSET Pages
    BY <1>3, MemoryMapAssumption DEF BankCheck, AfterRun
  <2>2. CASE bankDirty
    BY <1>3, <2>1, <2>2, InvalidateHot DEF BankCheck
  <2>3. CASE ~bankDirty
    BY <1>3, <2>1, <2>3, SameHot DEF BankCheck, cacheVars
  <2> QED
    BY <2>2, <2>3
<1>4. CASE SmcCheck
  <2>1. opt' = opt /\ pc \in AfterRun /\ pc' # "enter" /\ DirtyPages \in SUBSET Pages
    BY <1>4 DEF SmcCheck, DirtyPages, AfterRun
  <2>2. CASE smcDirty
    BY <1>4, <2>1, <2>2, InvalidateHot DEF SmcCheck
  <2>3. CASE ~smcDirty
    BY <1>4, <2>1, <2>3, SameHot DEF SmcCheck, cacheVars
  <2> QED
    BY <2>2, <2>3
<1>5. CASE EvictColdest
  <2>1. PICK v \in Coldest : Drop({v}) /\ prev' = IF prev = v THEN NIL ELSE prev
    BY <1>5 DEF EvictColdest
  <2>2. pc \in AfterRun /\ pc' # "enter" /\ opt' = opt /\ {v} \in SUBSET table
    BY <1>5 DEF EvictColdest, AfterRun, Coldest
  <2> QED
    BY <2>1, <2>2, DropHot
<1>6. CASE EmitFails
  <2> DEFINE gone == Overwritten(Span(Place(opt.evict, cc, Need[job.site]), Need[job.site]))
  <2>1. /\ Drop(gone) /\ gone \in SUBSET table
        /\ prev' = IF prev \in gone THEN NIL ELSE prev
    BY <1>6 DEF EmitFails, Overwritten
  <2>2. pc \in AfterRun /\ pc' # "enter" /\ opt' = opt
    BY <1>6 DEF EmitFails, AfterRun
  <2> HIDE DEF gone
  <2> QED
    BY <2>1, <2>2, DropHot
<1>7. CASE EvictAll
  BY <1>7, DropAllHot DEF EvictAll, Failed
<1> QED
  BY <1>1, <1>2, <1>3, <1>4, <1>5, <1>6, <1>7

LEMMA AllocHot ==
  ASSUME Inv, HotOK, AllocOk
  PROVE  HotOK'
<1> DEFINE gone == Overwritten(Span(Place(opt.evict, cc, Need[job.site]), Need[job.site]))
<1>1. PICK n \in Id \ Live :
        IF opt.noCache
        THEN UNCHANGED << table, colder >>
        ELSE /\ table' = (table \ gone) \union {n}
             /\ colder' = Stamp(OrderWithout(gone), table', n)
  BY DEF AllocOk
<1>2. pc' = "prefetch" /\ opt' = opt
  BY DEF AllocOk
<1> HIDE DEF gone
<1>3. ASSUME opt.evict = Coldness
      PROVE  \A i, j \in table' : << i, j >> \in colder' => << j, i >> \notin colder'
  <2>1. CASE opt.noCache
    BY <1>1, <1>3, <2>1 DEF HotOK
  <2>2. CASE ~opt.noCache
    <3>1. table' \in SUBSET Id /\ n \in table'
      BY <1>1, <2>2 DEF Inv, TypeOK, CacheTypeOK
    <3>2. /\ OrderWithout(gone) \subseteq table' \X table'
          /\ \A i, j \in table' :
               << i, j >> \in OrderWithout(gone) => << j, i >> \notin OrderWithout(gone)
      BY <1>1, <1>3, <2>2 DEF OrderWithout, HotOK, Inv, HeapOK
    <3>3. \A i, j \in table' : << i, j >> \in Stamp(OrderWithout(gone), table', n)
            => << j, i >> \notin Stamp(OrderWithout(gone), table', n)
      BY <1>3, <3>1, <3>2, Stamped
    <3> QED
      BY <1>1, <2>2, <3>3
  <2> QED
    BY <2>1, <2>2
<1> QED
  BY <1>2, <1>3 DEF HotOK, AfterRun

\* Blocks stamped as they are entered.
LEMMA EnteringHot ==
  ASSUME Inv, HotOK, Link \/ Enter \/ BatchEnter
  PROVE  HotOK'
<1>1. table \in SUBSET Id /\ colder \subseteq table \X table
  BY DEF Inv, TypeOK, CacheTypeOK, HeapOK
<1>2. ASSUME opt.evict = Coldness, NEW i \in table
      PROVE  /\ \A j \in table \ {i} : << j, i >> \in Stamp(colder, table, i)
             /\ \A j, k \in table : << j, k >> \in Stamp(colder, table, i)
                                      => << k, j >> \notin Stamp(colder, table, i)
  BY <1>1, <1>2, Stamped DEF HotOK
<1>3. CASE Link
  <2>1. /\ pc = "link" /\ pc' = "enter" /\ opt' = opt /\ table' = table /\ b' = b
        /\ colder' = IF opt.noCache THEN colder ELSE Stamp(colder, table, b)
    BY <1>3 DEF Link
  <2>2. opt.noCache \/ b \in table
    BY <2>1 DEF Inv, BlockOK
  <2>3. CASE opt.noCache
    BY <2>1, <2>3 DEF HotOK, AfterRun
  <2>4. CASE ~opt.noCache
    BY <1>2, <2>1, <2>2, <2>4 DEF HotOK, AfterRun, Hottest
  <2> QED
    BY <2>3, <2>4
<1>4. CASE Enter
  <2>1. /\ pc = "enter" /\ pc' = "after" /\ UNCHANGED << opt, table, colder >>
        /\ prev' = IF opt.noCache THEN NIL ELSE b
    BY <1>4 DEF Enter
  <2> QED
    BY <2>1 DEF HotOK, Hottest
<1>5. CASE BatchEnter
  <2> DEFINE n == Predicted(prev, gpc)
  <2>1. /\ pc = "batch" /\ pc' = pc /\ UNCHANGED << opt, table >>
        /\ prev' = n /\ colder' = Stamp(colder, table, n) /\ Predicts(prev, gpc) # {}
    BY <1>5 DEF BatchEnter
  <2>2. n \in table
    <3>1. prev \in table
      BY <2>1 DEF Inv, PrevOK
    <3> QED
      BY <2>1, <3>1, PredictedCached DEF Inv, TypeOK
  <2> HIDE DEF n
  <2> QED
    BY <1>2, <2>1, <2>2 DEF HotOK, Hottest
<1> QED
  BY <1>3, <1>4, <1>5

LEMMA QuietHot ==
  ASSUME Inv, HotOK,
         \/ RunUntil \/ Leave \/ Chain \/ Lookup \/ Compile \/ PrefetchFail \/ PrefetchSkip
         \/ PrefetchCompile \/ PrefetchReturn \/ PrefetchDone \/ SelfLoopTaken
         \/ SelfLoopRefused \/ BatchEnd \/ StopCheck
         \/ Service \/ HaltLoop \/ EiStep \/ FallbackStep \/ CompileFail \/ Spin
  PROVE  HotOK'
<1>1. UNCHANGED << opt, table, colder >> /\ prev' \in {prev, NIL} /\ pc' # "enter"
  BY DEF RunUntil, Leave, Chain, Lookup, Compile, PrefetchFail, PrefetchSkip, PrefetchCompile,
         PrefetchReturn, PrefetchDone, SelfLoopTaken, SelfLoopRefused, BatchEnd, StopCheck,
         Service, HaltLoop, EiStep, FallbackStep, CompileFail, Spin, cacheVars, Dispatching,
         Reading
<1>2. prev' # NIL /\ opt.evict = Coldness /\ pc' \in AfterRun => pc \in AfterRun
  <2>1. CASE PrefetchCompile
    <3>1. frames # << >>
      BY <2>1 DEF PrefetchCompile, Reading
    <3> QED
      BY <3>1 DEF Inv, FramesOK, Bump, Coldness
  <2>2. CASE ~PrefetchCompile
    BY <2>2 DEF RunUntil, Leave, Chain, Lookup, Compile, PrefetchFail, PrefetchSkip,
         PrefetchReturn, PrefetchDone, SelfLoopTaken, SelfLoopRefused, BatchEnd, StopCheck,
         Service, HaltLoop, EiStep, FallbackStep, CompileFail, Spin, Dispatching, AfterRun, Failed
  <2> QED
    BY <2>1, <2>2
<1> QED
  BY <1>1, <1>2, SameHot

LEMMA HotNext ==
  ASSUME Inv, HotOK, [Next]_vars
  PROVE  HotOK'
<1>1. CASE UNCHANGED vars
  BY <1>1 DEF vars, HotOK, Hottest
<1> QED
  BY <1>1, DropsHot, AllocHot, EnteringHot, QuietHot DEF Next, Loop

LEMMA HotKept ==
  ASSUME Inv, HotOK, EvictColdest, prev # NIL
  PROVE  prev' = prev \/ table = {prev}
<1>1. PICK v \in Coldest : prev' = IF prev = v THEN NIL ELSE prev
  BY DEF EvictColdest
<1>2. pc = "alloc" /\ opt.evict = Coldness /\ prev \in table
  BY DEF EvictColdest, Inv, PrevOK
<1>3. v \in table /\ \A j \in table \ {v} : << v, j >> \in colder
  BY DEF Coldest
<1>4. Hottest(prev) /\ \A i, j \in table : << i, j >> \in colder => << j, i >> \notin colder
  BY <1>2 DEF HotOK, AfterRun
<1>5. ASSUME v = prev PROVE table = {prev}
  BY <1>3, <1>4, <1>5 DEF Hottest
<1> QED
  BY <1>1, <1>5

LEMMA HotHolds == ASSUME NoEvictingPrefetch PROVE Spec => [](Inv /\ HotOK)
<1>1. Init => Inv /\ HotOK
  <2>1. Init => HotOK
    BY DEF Init, HotOK, AfterRun
  <2> QED
    BY <2>1, InvInit
<1>2. Inv /\ HotOK /\ [Next]_vars => (Inv /\ HotOK)'
  BY InvNext, HotNext
<1> QED
  BY <1>1, <1>2, PTL DEF Spec

\* The free-list arena makes room without the block that just ran, unless it is the
\* only one: the loop stamps a block before it enters it, and no lookup, dropped
\* block, interrupt or interpreted instruction in between makes another one hotter
\* (dispatcher.c:702-704 calls it an approximation of LRU).
THEOREM JustRunSurvives == ASSUME NoEvictingPrefetch PROVE Spec => HotSurvives
<1>1. Inv /\ HotOK /\ [Next]_vars
        => [(EvictColdest /\ prev # NIL) => (prev' = prev \/ table = {prev})]_vars
  BY HotKept
<1> QED
  BY <1>1, HotHolds, PTL DEF Spec, HotSurvives

-----------------------------------------------------------------------------
(* A compile ends: every step of it leaves less to do.  This needs nothing *)
(* of the cache, and so holds of the builds whose prefetches evict as well. *)

\* gbjit_compile_block is running, or prefetch_successors after it.
Compiling == pc \in {"alloc", "lost", "prefetch"}

\* How far the activation in F with l levels to go has come.
Reached(F, l) == {F[k].i : k \in {j \in 1..Len(F) : F[j].left = l}}

\* The steps that one of prefetch_successors has ahead, most if the compile is to begin it.
Ahead(l) ==
  IF job.ctx = "prefetch" /\ l = frames[1].left - 1 THEN 4
  ELSE IF Reached(frames, l) = {} THEN 0 ELSE 3 - (CHOOSE i \in Reached(frames, l) : TRUE)

\* The tries of the compile the loop itself has asked for.
Tries == IF job.ctx = "run" THEN 2 ELSE IF job.ctx = "retry" THEN 1 ELSE 0

\* The blocks left to evict, and whether the search for room is still on.
Search == 2 * Cardinality(table) + (IF pc = "alloc" THEN 1 ELSE 0)

\* What a compile has ahead, the most significant digit last: the tries, the
\* activations from the outermost in, and the search for room.
Effort ==
  [d \in 0..(opt.depth + 2) |->
     IF d = 0 THEN Search
     ELSE IF d = opt.depth + 2 THEN Tries ELSE Ahead(d - 1)]

\* The pairs of numbers of n + 1 digits whose first is the lower, digits being
\* any naturals.
Below(n) ==
  {p \in [0..n -> Nat] \X [0..n -> Nat] :
     \E d \in 0..n : p[1][d] < p[2][d] /\ \A e \in (d + 1)..n : p[1][e] = p[2][e]}

CompileDescends ==
  [][Compiling /\ Compiling' => << Effort', Effort >> \in Below(opt.depth + 2)]_vars

\* There is no way down without an end, however many digits.
THEOREM DescentEnds ==
  ASSUME NEW n \in Nat
  PROVE  IsWellFoundedOn(Below(n), [0..n -> Nat])
<1> DEFINE F == [0..n -> Nat]
           Under(T, x, d) == \A y \in T, e \in d..n :
                               y[e] < x[e] => \E c \in (e + 1)..n : y[c] # x[c]
<1>1. SUFFICES ASSUME NEW T \in SUBSET F, T # {}
               PROVE  \E x \in T : \A y \in T : ~(<< y, x >> \in Below(n))
  BY MinWF
<1> DEFINE D == {d \in Nat : d <= n + 1 /\ \E x \in T : Under(T, x, d)}
<1>2. n + 1 \in D
  <2>1. \A x \in T : Under(T, x, n + 1)
    OBVIOUS
  <2> QED
    BY <1>1, <2>1
<1>3. PICK d \in D : \A e \in D : d <= e
  <2>1. D \in SUBSET Nat /\ D # {}
    BY <1>2
  <2> HIDE DEF D
  <2> QED
    BY <2>1, LeastNat
<1>4. PICK x \in T : Under(T, x, d)
  OBVIOUS
<1>5. d = 0
  <2> SUFFICES ASSUME d # 0 PROVE FALSE
    OBVIOUS
  <2>1. d - 1 \in Nat /\ d - 1 <= n /\ d \in Nat
    OBVIOUS
  <2> DEFINE U == {y \in T : \A e \in d..n : y[e] = x[e]}
             V == {y[d - 1] : y \in U}
  <2>2. V \subseteq Nat /\ V # {}
    <3>1. x \in U
      OBVIOUS
    <3>2. \A y \in U : y[d - 1] \in Nat
      BY <2>1
    <3> QED
      BY <3>1, <3>2
  <2>3. PICK v \in V : \A w \in V : v <= w
    <3> HIDE DEF V
    <3> QED
      BY <2>2, LeastNat
  <2>4. PICK y \in U : v = y[d - 1]
    OBVIOUS
  <2>5. Under(T, y, d - 1)
    <3> SUFFICES ASSUME NEW z \in T, NEW e \in (d - 1)..n, z[e] < y[e],
                        \A c \in (e + 1)..n : z[c] = y[c]
                 PROVE  FALSE
      OBVIOUS
    <3>1. CASE e = d - 1
      <4>1. z \in U
        BY <2>1, <3>1
      <4>2. z[d - 1] \in V
        BY <4>1
      <4>3. v <= z[d - 1] /\ v = y[d - 1]
        BY <2>3, <2>4, <4>2
      <4>4. y[e] \in Nat /\ z[e] \in Nat
        BY <2>1
      <4> QED
        BY <3>1, <4>3, <4>4
    <3>2. CASE e # d - 1
      <4>1. e \in d..n /\ y[e] = x[e] /\ \A c \in (e + 1)..n : z[c] = x[c]
        BY <2>1, <3>2
      <4> QED
        BY <1>4, <4>1
    <3> QED
      BY <3>1, <3>2
  <2>6. d - 1 \in D
    BY <2>1, <2>5
  <2> HIDE DEF D
  <2> QED
    BY <1>3, <2>1, <2>6
<1>6. ASSUME NEW y \in T, << y, x >> \in Below(n) PROVE FALSE
  <2>1. PICK e \in 0..n : y[e] < x[e] /\ \A c \in (e + 1)..n : y[c] = x[c]
    BY <1>6 DEF Below
  <2> QED
    BY <1>4, <1>5, <2>1
<1> QED
  BY <1>6

\* The activations, from the innermost out, have more and more levels to go.
Levels(F) ==
  /\ F \in Seq(Activations)
  /\ \A k \in 1..Len(F) : F[k].left \in 1..opt.depth
  /\ \A j, k \in 1..Len(F) : j < k => F[j].left < F[k].left

\* The request j is of the kind c.
Asks(j, c) == j = [site |-> j.site, ctx |-> c]

\* What a compile keeps to.
CompileOK ==
  /\ opt.depth \in Nat
  /\ IsFiniteSet(table)
  /\ Levels(frames)
  /\ \E c \in {"none", "run", "retry", "prefetch"} : Asks(job, c)
  /\ pc \in {"alloc", "lost"} <=> job.ctx # "none"
  /\ job.ctx = "prefetch" => frames # << >>
  /\ frames # << >> => pc = "prefetch" \/ job.ctx = "prefetch"

LEMMA LevelsTail ==
  ASSUME NEW F, Levels(F), F # << >>
  PROVE  /\ Levels(Tail(F)) /\ Len(Tail(F)) = Len(F) - 1
         /\ \A k \in 1..(Len(F) - 1) : Tail(F)[k] = F[k + 1]
<1>1. /\ F \in Seq(Activations) /\ Len(F) \in Nat \ {0}
      /\ \A k \in 1..Len(F) : F[k].left \in 1..opt.depth
      /\ \A j, k \in 1..Len(F) : j < k => F[j].left < F[k].left
  BY DEF Levels
<1>2. /\ Tail(F) \in Seq(Activations) /\ Len(Tail(F)) = Len(F) - 1
      /\ \A k \in 1..(Len(F) - 1) : Tail(F)[k] = F[k + 1]
  BY <1>1
<1>3. \A k \in 1..(Len(F) - 1) : Tail(F)[k].left \in 1..opt.depth
  <2>1. \A k \in 1..(Len(F) - 1) : k + 1 \in 1..Len(F)
    BY <1>1
  <2> QED
    BY <1>1, <1>2, <2>1
<1>4. \A j, k \in 1..(Len(F) - 1) : j < k => Tail(F)[j].left < Tail(F)[k].left
  <2>1. \A j, k \in 1..(Len(F) - 1) :
          /\ j + 1 \in 1..Len(F) /\ k + 1 \in 1..Len(F)
          /\ j < k => j + 1 < k + 1
    BY <1>1
  <2> QED
    BY <1>1, <1>2, <2>1
<1> QED
  BY <1>2, <1>3, <1>4 DEF Levels

\* The innermost activation has looked at one successor more.
Moved(F) == [F EXCEPT ![1].i = @ + 1]

LEMMA LevelsMoved ==
  ASSUME NEW F, Levels(F), F # << >>, F[1].i < 2
  PROVE  /\ Levels(Moved(F)) /\ Len(Moved(F)) = Len(F)
         /\ Moved(F)[1].i = F[1].i + 1 /\ Moved(F)[1].left = F[1].left
         /\ \A k \in 2..Len(F) : Moved(F)[k] = F[k]
<1> DEFINE G == Moved(F)
<1>1. /\ F \in Seq(Activations) /\ Len(F) \in Nat \ {0}
      /\ \A k \in 1..Len(F) : F[k].left \in 1..opt.depth
      /\ \A j, k \in 1..Len(F) : j < k => F[j].left < F[k].left
  BY DEF Levels
<1>2. F \in [1..Len(F) -> Activations] /\ F[1] \in Activations
  BY <1>1
<1> DEFINE a == [F[1] EXCEPT !.i = @ + 1]
<1>3. a \in Activations /\ a.i = F[1].i + 1 /\ a.left = F[1].left
  BY <1>2 DEF Activations
<1>4. G = [F EXCEPT ![1] = a]
  BY DEF Moved
<1> HIDE DEF a, G
<1>5. /\ G \in Seq(Activations) /\ Len(G) = Len(F)
      /\ G[1] = a /\ \A k \in 2..Len(F) : G[k] = F[k]
  BY <1>1, <1>2, <1>3, <1>4
<1>6. \A k \in 1..Len(F) : G[k].left = F[k].left
  BY <1>1, <1>3, <1>5
<1>7. Levels(G)
  BY <1>1, <1>3, <1>5, <1>6 DEF Levels
<1> QED
  BY <1>1, <1>3, <1>5, <1>7 DEF G

LEMMA LevelsPushed ==
  ASSUME NEW F, Levels(F), NEW a \in Activations, a.left \in 1..opt.depth,
         F # << >> => a.left < F[1].left,
         NEW G, G = << a >> \o F, opt.depth \in Nat
  PROVE  /\ Levels(G) /\ Len(G) = Len(F) + 1
         /\ G[1] = a /\ \A k \in 1..Len(F) : G[k + 1] = F[k]
<1>1. /\ F \in Seq(Activations) /\ Len(F) \in Nat
      /\ \A k \in 1..Len(F) : F[k].left \in 1..opt.depth
      /\ \A j, k \in 1..Len(F) : j < k => F[j].left < F[k].left
  BY DEF Levels
<1>2. /\ G \in Seq(Activations) /\ Len(G) = Len(F) + 1
      /\ G[1] = a /\ \A k \in 2..Len(G) : G[k] = F[k - 1]
  BY <1>1
<1>3. \A k \in 2..Len(G) : k - 1 \in 1..Len(F) /\ F[k - 1].left \in 1..opt.depth
  BY <1>1, <1>2
<1>4. \A k \in 1..Len(G) : G[k].left \in 1..opt.depth
  BY <1>1, <1>2, <1>3
<1>5. \A k \in 1..Len(F) : a.left < F[k].left
  <2> SUFFICES ASSUME NEW k \in 1..Len(F) PROVE a.left < F[k].left
    OBVIOUS
  <2>1. 1 \in 1..Len(F) /\ F # << >> /\ F[1].left \in Nat /\ F[k].left \in Nat
    BY <1>1
  <2>2. k = 1 \/ F[1].left < F[k].left
    BY <1>1, <2>1
  <2> QED
    BY <2>1, <2>2
<1>6. ASSUME NEW j \in 1..Len(G), NEW k \in 1..Len(G), j < k
      PROVE  G[j].left < G[k].left
  <2>1. k \in 2..Len(G)
    BY <1>1, <1>2, <1>6
  <2>2. CASE j = 1
    BY <1>2, <1>3, <1>5, <2>1, <2>2
  <2>3. CASE j # 1
    <3>1. j \in 2..Len(G) /\ j - 1 < k - 1
      BY <1>1, <1>2, <1>6, <2>3
    <3> QED
      BY <1>1, <1>2, <1>3, <2>1, <3>1
  <2> QED
    BY <2>2, <2>3
<1>7. \A k \in 1..Len(F) : G[k + 1] = F[k]
  BY <1>1, <1>2
<1> QED
  BY <1>2, <1>4, <1>6, <1>7 DEF Levels

LEMMA CompileInit == Init => CompileOK
<1> SUFFICES ASSUME Init PROVE CompileOK
  OBVIOUS
<1>1. opt.depth \in Nat
  BY OptionsAssumption DEF Init
<1>2. frames = << >> /\ table = {} /\ pc = "idle" /\ job.ctx = "none"
  BY DEF Init, NoJob
<1>3. Levels(frames)
  BY <1>2 DEF Levels
<1> QED
  BY <1>1, <1>2, <1>3, FS_EmptySet DEF CompileOK, Init, NoJob, Asks

\* Steps outside a compile, and those that begin or end it: no activation is touched.
LEMMA OutsideOK ==
  ASSUME CompileOK, opt' = opt, frames' = frames, table' \subseteq table,
         \/ job' = job /\ (pc \in {"alloc", "lost"} <=> pc' \in {"alloc", "lost"})
                       /\ (pc = "prefetch" => pc' = "prefetch" \/ frames = << >>)
         \/ Asks(job', "none") /\ pc' \notin {"alloc", "lost"} /\ frames = << >>
         \/ (Asks(job', "run") \/ Asks(job', "retry")) /\ pc' = "alloc" /\ frames = << >>
  PROVE  CompileOK'
<1>1. IsFiniteSet(table')
  BY FS_Subset DEF CompileOK
<1>2. Levels(frames)'
  BY DEF CompileOK, Levels
<1> QED
  BY <1>1, <1>2 DEF CompileOK, Asks

\* prefetch_successors moves on, or returns.
LEMMA InnerOK ==
  ASSUME CompileOK, opt' = opt, table' = table, frames # << >>,
         \/ frames' = Tail(frames) /\ pc' = "prefetch" /\ Asks(job', "none")
         \/ /\ frames[1].i < 2 /\ frames' = [frames EXCEPT ![1].i = @ + 1]
            /\ \/ pc' = "prefetch" /\ Asks(job', "none")
               \/ pc' = "alloc" /\ Asks(job', "prefetch")
  PROVE  CompileOK'
<1>1. CASE frames' = Tail(frames) /\ pc' = "prefetch" /\ Asks(job', "none")
  <2>1. Levels(frames)'
    BY <1>1, LevelsTail DEF CompileOK, Levels
  <2> QED
    BY <1>1, <2>1 DEF CompileOK, Asks
<1>2. CASE /\ frames[1].i < 2 /\ frames' = [frames EXCEPT ![1].i = @ + 1]
           /\ \/ pc' = "prefetch" /\ Asks(job', "none")
              \/ pc' = "alloc" /\ Asks(job', "prefetch")
  <2>1. Levels(frames') /\ Len(frames') = Len(frames)
    BY <1>2, LevelsMoved DEF CompileOK, Moved
  <2>2. Levels(frames)'
    BY <2>1 DEF Levels
  <2>3. frames' # << >>
    BY <2>1 DEF CompileOK, Levels
  <2> QED
    BY <1>2, <2>2, <2>3 DEF CompileOK, Asks
<1> QED
  BY <1>1, <1>2

\* How a compile that succeeds leaves the activations: as they are, or one more.
LEMMA Pushed ==
  ASSUME CompileOK, AllocOk
  PROVE  LET left == IF job.ctx = "prefetch" THEN frames[1].left - 1 ELSE opt.depth IN
         \/ frames' = frames
         \/ \E n \in Id : LET a == [blk |-> n, i |-> 0, left |-> left] IN
              /\ left \in 1..opt.depth /\ a \in Activations
              /\ frames # << >> => left < frames[1].left
              /\ frames' = << a >> \o frames
<1> DEFINE left == IF job.ctx = "prefetch" THEN frames[1].left - 1 ELSE opt.depth
<1>1. pc = "alloc"
  BY DEF AllocOk
<1>2. /\ opt.depth \in Nat /\ frames \in Seq(Activations)
      /\ job.ctx = "prefetch" => frames # << >>
      /\ frames # << >> => job.ctx = "prefetch"
  BY <1>1 DEF CompileOK, Levels, Asks
<1>3. PICK n \in Id : frames' = Activated(n, left)
  BY DEF AllocOk
<1>4. frames # << >> => frames[1].left \in 1..opt.depth
  BY <1>2 DEF CompileOK, Levels
<1>5. left \in 0..opt.depth
  BY <1>2, <1>4
<1>6. frames # << >> => left < frames[1].left
  BY <1>2, <1>4
<1>7. CASE left > 0 /\ ~opt.noCache
  <2> HIDE DEF left
  <2>1. frames' = << [blk |-> n, i |-> 0, left |-> left] >> \o frames
    BY <1>3, <1>7 DEF Activated
  <2>2. left \in 1..opt.depth /\ [blk |-> n, i |-> 0, left |-> left] \in Activations
    BY <1>2, <1>5, <1>7 DEF Activations
  <2> QED
    BY <1>6, <2>1, <2>2 DEF left
<1>8. CASE ~(left > 0 /\ ~opt.noCache)
  BY <1>3, <1>8 DEF Activated
<1> QED
  BY <1>7, <1>8

LEMMA AllocOK ==
  ASSUME CompileOK, AllocOk
  PROVE  CompileOK'
<1>1. pc' = "prefetch" /\ opt' = opt
  BY DEF AllocOk
<1>2. Asks(job', "none")
  <2>1. job' = NoJob
    BY DEF AllocOk
  <2> QED
    BY <2>1 DEF NoJob, Asks
<1>3. IsFiniteSet(table')
  <2>1. PICK n, gone : table' \in {table, (table \ gone) \union {n}}
    BY DEF AllocOk
  <2>2. IsFiniteSet(table) /\ IsFiniteSet(table \ gone)
    BY FS_Subset DEF CompileOK
  <2> QED
    BY <2>1, <2>2, FS_AddElement
<1>4. Levels(frames)'
  <2> DEFINE left == IF job.ctx = "prefetch" THEN frames[1].left - 1 ELSE opt.depth
  <2>1. CASE frames' = frames
    BY <1>1, <2>1 DEF CompileOK, Levels
  <2>2. CASE frames' # frames
    <3>1. PICK n \in Id : LET a == [blk |-> n, i |-> 0, left |-> left] IN
            /\ left \in 1..opt.depth /\ a \in Activations
            /\ frames # << >> => left < frames[1].left
            /\ frames' = << a >> \o frames
      BY <2>2, Pushed
    <3> HIDE DEF left
    <3> DEFINE a == [blk |-> n, i |-> 0, left |-> left]
    <3>2. a.left = left
      OBVIOUS
    <3> HIDE DEF a
    <3>3. /\ a.left \in 1..opt.depth /\ a \in Activations
          /\ frames # << >> => a.left < frames[1].left
          /\ frames' = << a >> \o frames
      BY <3>1, <3>2 DEF a
    <3>4. Levels(frames')
      BY <3>3, LevelsPushed DEF CompileOK
    <3> QED
      BY <1>1, <3>4 DEF Levels
  <2> QED
    BY <2>1, <2>2
<1> QED
  BY <1>1, <1>2, <1>3, <1>4 DEF CompileOK, Asks

LEMMA CompileNextOK ==
  ASSUME CompileOK, [Next]_vars
  PROVE  CompileOK'
<1>1. CASE UNCHANGED vars
  BY <1>1, OutsideOK DEF vars, cacheVars
<1>2. CASE RunUntil \/ Leave \/ Service \/ HaltLoop \/ EiStep \/ FallbackStep \/ Chain \/ Lookup
           \/ Link \/ Enter \/ SelfLoopTaken \/ SelfLoopRefused \/ Spin \/ BatchEnter \/ BatchEnd
           \/ StopCheck
  <2>1. opt' = opt /\ frames' = frames /\ table' = table /\ job' = job
    BY <1>2 DEF RunUntil, Leave, Service, HaltLoop, EiStep, FallbackStep, Chain, Lookup, Link,
       Enter, SelfLoopTaken, SelfLoopRefused, Spin, BatchEnter, BatchEnd, StopCheck, cacheVars
  <2>2. pc \notin {"alloc", "lost", "prefetch"} /\ pc' \notin {"alloc", "lost"}
    BY <1>2 DEF RunUntil, Leave, Service, HaltLoop, EiStep, FallbackStep, Chain, Lookup, Link,
       Enter, SelfLoopTaken, SelfLoopRefused, Spin, BatchEnter, BatchEnd, StopCheck, Dispatching
  <2> QED
    BY <2>1, <2>2, OutsideOK
<1>3. CASE InvalidateAddr \/ Restart \/ BankCheck \/ SmcCheck
  <2>1. opt' = opt /\ frames' = frames /\ job' = job
    BY <1>3 DEF InvalidateAddr, Restart, BankCheck, SmcCheck
  <2>2. table' \subseteq table
    BY <1>3 DEF InvalidateAddr, Restart, BankCheck, SmcCheck, Invalidate, Drop, DropAll, cacheVars
  <2>3. pc \notin {"alloc", "lost", "prefetch"} /\ pc' \notin {"alloc", "lost"}
    BY <1>3 DEF InvalidateAddr, Restart, BankCheck, SmcCheck
  <2> QED
    BY <2>1, <2>2, <2>3, OutsideOK
<1>4. CASE Compile \/ EvictAll \/ CompileFail \/ PrefetchDone
  <2>1. opt' = opt /\ frames' = frames /\ table' \subseteq table
    BY <1>4 DEF Compile, EvictAll, CompileFail, PrefetchDone, DropAll, cacheVars
  <2>2. frames = << >>
    BY <1>4 DEF Compile, EvictAll, CompileFail, PrefetchDone, Failed, Dispatching, CompileOK
  <2>3. CASE Compile
    BY <2>1, <2>2, <2>3, OutsideOK DEF Compile, Asks
  <2>4. CASE EvictAll
    <3>1. pc' = "alloc" /\ job' = [job EXCEPT !.ctx = "retry"]
      BY <2>4 DEF EvictAll, Failed, SecondTry
    <3>2. PICK c : job = [site |-> job.site, ctx |-> c]
      BY DEF CompileOK, Asks
    <3>3. Asks(job', "retry")
      BY <3>1, <3>2 DEF Asks
    <3> QED
      BY <2>1, <2>2, <3>1, <3>3, OutsideOK
  <2>5. CASE CompileFail
    BY <2>1, <2>2, <2>5, OutsideOK DEF CompileFail, NoJob, Asks
  <2>6. CASE PrefetchDone
    BY <2>1, <2>2, <2>6, OutsideOK DEF PrefetchDone
  <2> QED
    BY <1>4, <2>3, <2>4, <2>5, <2>6
<1>5. CASE EvictColdest \/ EmitFails
  BY <1>5, OutsideOK DEF EvictColdest, EmitFails, Drop
<1>6. CASE AllocOk
  BY <1>6, AllocOK
<1>7. CASE PrefetchFail \/ PrefetchSkip \/ PrefetchCompile \/ PrefetchReturn
  <2>1. frames # << >>
    BY <1>7 DEF PrefetchFail, PrefetchSkip, PrefetchCompile, PrefetchReturn, Reading, CompileOK
  <2>2. opt' = opt /\ table' = table
    BY <1>7 DEF PrefetchFail, PrefetchSkip, PrefetchCompile, PrefetchReturn, cacheVars
  <2>3. pc = "prefetch" => job.ctx = "none"
    BY DEF CompileOK
  <2> QED
    BY <1>7, <2>1, <2>2, <2>3, InnerOK
       DEF PrefetchFail, PrefetchSkip, PrefetchCompile, PrefetchReturn, Reading, NoJob,
           Asks, CompileOK
<1> QED
  BY <1>1, <1>2, <1>3, <1>4, <1>5, <1>6, <1>7 DEF Next, Loop

\* An activation with as many levels to go as the k-th is the k-th.
LEMMA ReachedIs ==
  ASSUME NEW F, Levels(F), NEW k \in 1..Len(F)
  PROVE  Reached(F, F[k].left) = {F[k].i}
<1>1. \A j \in 1..Len(F) : F[j].left = F[k].left => j = k
  <2> SUFFICES ASSUME NEW j \in 1..Len(F), F[j].left = F[k].left, j # k
               PROVE  FALSE
    OBVIOUS
  <2>1. j < k \/ k < j
    BY DEF Levels
  <2>2. F[j].left \in Int /\ F[k].left \in Int
    BY DEF Levels
  <2> QED
    BY <2>1, <2>2 DEF Levels
<1> QED
  BY <1>1 DEF Reached

AheadRange == \A l : Ahead(l) \in 0..4 /\ (job.ctx # "prefetch" => Ahead(l) \in 0..3)

LEMMA AheadNat == CompileOK => AheadRange
<1> SUFFICES ASSUME CompileOK, NEW l
             PROVE  Ahead(l) \in 0..4 /\ (job.ctx # "prefetch" => Ahead(l) \in 0..3)
  BY DEF AheadRange
<1>1. \A k \in 1..Len(frames) : frames[k] \in Activations
  BY DEF CompileOK, Levels
<1>2. Reached(frames, l) \subseteq 0..2
  BY <1>1 DEF Reached, Activations
<1> DEFINE i == CHOOSE i \in Reached(frames, l) : TRUE
<1>3. Reached(frames, l) # {} => i \in 0..2
  BY <1>2
<1>4. Ahead(l) = IF job.ctx = "prefetch" /\ l = frames[1].left - 1 THEN 4
                 ELSE IF Reached(frames, l) = {} THEN 0 ELSE 3 - i
  BY DEF Ahead
<1> HIDE DEF i
<1> QED
  BY <1>3, <1>4

\* The digits one by one.
Digits ==
  /\ Effort \in [0..(opt.depth + 2) -> Nat]
  /\ Effort[0] = Search /\ Effort[opt.depth + 2] = Tries
  /\ \A l \in 0..opt.depth : Effort[l + 1] = Ahead(l)

LEMMA EffortIs == CompileOK => Digits
<1> SUFFICES ASSUME CompileOK PROVE Digits
  OBVIOUS
<1>1. opt.depth \in Nat /\ Search \in Nat /\ Tries \in Nat
  BY FS_CardinalityType DEF CompileOK, Tries, Search
<1>2. \A l : Ahead(l) \in Nat
  BY AheadNat DEF AheadRange
<1> QED
  BY <1>1, <1>2 DEF Effort, Digits

\* A step goes down that lowers the effort at a level and leaves those above alone.
LEMMA LevelDescends ==
  ASSUME CompileOK, CompileOK', opt' = opt, Tries' = Tries, NEW l \in 0..opt.depth,
         Ahead(l)' < Ahead(l), \A m \in (l + 1)..opt.depth : Ahead(m)' = Ahead(m)
  PROVE  << Effort', Effort >> \in Below(opt.depth + 2)
<1>1. opt.depth \in Nat
  BY DEF CompileOK
<1>2. /\ Effort \in [0..(opt.depth + 2) -> Nat] /\ Effort[opt.depth + 2] = Tries
      /\ \A m \in 0..opt.depth : Effort[m + 1] = Ahead(m)
  BY EffortIs DEF Digits
<1>3. /\ Effort' \in [0..(opt.depth + 2) -> Nat] /\ Effort'[opt.depth + 2] = Tries'
      /\ \A m \in 0..opt.depth : Effort'[m + 1] = Ahead(m)'
  <2>1. Digits'
    BY EffortIs, PTL
  <2> QED
    BY <2>1 DEF Digits
<1>4. Effort'[l + 1] < Effort[l + 1] /\ l + 1 \in 0..(opt.depth + 2)
  BY <1>1, <1>2, <1>3
<1>5. ASSUME NEW e \in (l + 2)..(opt.depth + 2) PROVE Effort'[e] = Effort[e]
  <2>1. CASE e = opt.depth + 2
    BY <1>2, <1>3, <2>1
  <2>2. CASE e # opt.depth + 2
    <3>1. e - 1 \in (l + 1)..opt.depth /\ e - 1 \in 0..opt.depth /\ e = (e - 1) + 1
      BY <1>1, <2>2
    <3> QED
      BY <1>2, <1>3, <3>1
  <2> QED
    BY <2>1, <2>2
<1>6. (l + 1) + 1 = l + 2
  OBVIOUS
<1> HIDE DEF Effort
<1> QED
  BY <1>2, <1>3, <1>4, <1>5, <1>6 DEF Below

\* The compile the loop has asked for succeeds, or is tried again.
LEMMA TriesDescend ==
  ASSUME CompileOK, CompileOK', opt' = opt, Tries' < Tries
  PROVE  << Effort', Effort >> \in Below(opt.depth + 2)
<1>1. opt.depth \in Nat
  BY DEF CompileOK
<1>2. Effort \in [0..(opt.depth + 2) -> Nat] /\ Effort[opt.depth + 2] = Tries
  BY EffortIs DEF Digits
<1>3. Effort' \in [0..(opt.depth + 2) -> Nat] /\ Effort'[opt.depth + 2] = Tries'
  <2>1. Digits'
    BY EffortIs, PTL
  <2> QED
    BY <2>1 DEF Digits
<1>4. /\ opt.depth + 2 \in 0..(opt.depth + 2)
      /\ \A e \in ((opt.depth + 2) + 1)..(opt.depth + 2) : FALSE
  BY <1>1
<1> HIDE DEF Effort
<1> QED
  BY <1>2, <1>3, <1>4 DEF Below

\* An eviction leaves a block less to evict, and a compile that is lost once it has
\* its room looks for none.
LEMMA SearchDescends ==
  ASSUME CompileOK, CompileOK', EvictColdest \/ EmitFails
  PROVE  << Effort', Effort >> \in Below(opt.depth + 2)
<1>1. opt.depth \in Nat /\ IsFiniteSet(table)
  BY DEF CompileOK
<1>2. Cardinality(table) \in Nat
  BY <1>1, FS_CardinalityType
<1>3. Search' < Search
  <2>1. CASE EvictColdest
    <3>1. PICK v \in table : table' = table \ {v}
      BY <2>1 DEF EvictColdest, Coldest, Drop
    <3>2. Cardinality(table') = Cardinality(table) - 1
      BY <1>1, <3>1, FS_RemoveElement
    <3>3. pc = "alloc" /\ pc' = "alloc"
      BY <2>1 DEF EvictColdest
    <3> QED
      BY <1>2, <3>2, <3>3 DEF Search
  <2>2. CASE EmitFails
    <3>1. table' \subseteq table
      BY <2>2 DEF EmitFails, Drop
    <3>2. Cardinality(table') \in Nat /\ Cardinality(table') <= Cardinality(table)
      BY <1>1, <3>1, FS_Subset, FS_CardinalityType
    <3>3. pc = "alloc" /\ pc' = "lost"
      BY <2>2 DEF EmitFails
    <3> QED
      BY <1>2, <3>2, <3>3 DEF Search
  <2> QED
    BY <2>1, <2>2
<1>4. opt' = opt /\ job' = job /\ frames' = frames
  BY DEF EvictColdest, EmitFails
<1>5. Tries' = Tries /\ \A l : Ahead(l)' = Ahead(l)
  BY <1>4 DEF Tries, Ahead, Reached
<1>6. /\ Effort \in [0..(opt.depth + 2) -> Nat] /\ Effort[0] = Search
      /\ Effort[opt.depth + 2] = Tries
      /\ \A l \in 0..opt.depth : Effort[l + 1] = Ahead(l)
  BY EffortIs DEF Digits
<1>7. /\ Effort' \in [0..(opt.depth + 2) -> Nat] /\ Effort'[0] = Search'
      /\ Effort'[opt.depth + 2] = Tries'
      /\ \A l \in 0..opt.depth : Effort'[l + 1] = Ahead(l)'
  <2>1. Digits'
    BY EffortIs, PTL
  <2> QED
    BY <1>4, <2>1 DEF Digits
<1>8. Effort'[0] < Effort[0] /\ 0 \in 0..(opt.depth + 2)
  BY <1>1, <1>3, <1>6, <1>7
<1>9. ASSUME NEW e \in 1..(opt.depth + 2) PROVE Effort'[e] = Effort[e]
  <2>1. CASE e = opt.depth + 2
    BY <1>5, <1>6, <1>7, <2>1
  <2>2. CASE e # opt.depth + 2
    <3>1. e - 1 \in 0..opt.depth /\ e = (e - 1) + 1
      BY <1>1, <2>2
    <3> QED
      BY <1>5, <1>6, <1>7, <3>1
  <2> QED
    BY <2>1, <2>2
<1>10. 0 + 1 = 1
  OBVIOUS
<1> QED
  BY <1>6, <1>7, <1>8, <1>9, <1>10 DEF Below

\* prefetch_successors moves on, or returns.
LEMMA InnerDescends ==
  ASSUME CompileOK, CompileOK', opt' = opt, frames # << >>,
         \/ frames' = Tail(frames) /\ job'.ctx = "none"
         \/ /\ frames[1].i < 2 /\ frames' = [frames EXCEPT ![1].i = @ + 1]
            /\ job'.ctx \in {"none", "prefetch"}
  PROVE  << Effort', Effort >> \in Below(opt.depth + 2)
<1>1. PICK a, i : a = frames[1].left /\ i = frames[1].i
  OBVIOUS
<1>2. /\ Levels(frames) /\ opt.depth \in Nat
      /\ frames \in Seq(Activations) /\ 1 \in 1..Len(frames) /\ Len(frames) \in Nat
      /\ \A k \in 1..Len(frames) : frames[k].left \in 1..opt.depth
  BY DEF CompileOK, Levels
<1>3. a \in 1..opt.depth /\ i \in 0..2 /\ \A k \in 2..Len(frames) : a < frames[k].left
  <2>1. frames[1] \in Activations
    BY <1>2
  <2> QED
    BY <1>1, <1>2, <2>1 DEF Levels, Activations
<1>4. Tries = 0 /\ Tries' = 0
  BY DEF Tries, CompileOK
<1>5. Ahead(a) = 3 - i
  <2>1. Reached(frames, a) = {i}
    BY <1>1, <1>2, ReachedIs
  <2>2. a # frames[1].left - 1
    BY <1>1, <1>3
  <2> QED
    BY <2>1, <2>2 DEF Ahead
<1>6. /\ Ahead(a)' < Ahead(a)
      /\ \A m \in (a + 1)..opt.depth : Ahead(m)' = Ahead(m)
  <2>1. CASE frames' = Tail(frames) /\ job'.ctx = "none"
    <3>1. Len(frames') = Len(frames) - 1 /\ \A k \in 1..(Len(frames) - 1) : frames'[k] = frames[k + 1]
      BY <1>2, <2>1, LevelsTail
    <3>2. Reached(frames', a) = {}
      <4>1. \A k \in 1..Len(frames') : frames'[k] = frames[k + 1] /\ k + 1 \in 2..Len(frames)
        BY <1>2, <3>1
      <4>2. \A k \in 1..Len(frames') : frames'[k].left # a
        BY <1>2, <1>3, <4>1
      <4> QED
        BY <4>2 DEF Reached
    <3>3. ASSUME NEW m \in (a + 1)..opt.depth PROVE Reached(frames', m) = Reached(frames, m)
      <4>1. \A k \in 1..Len(frames') : frames'[k] = frames[k + 1] /\ k + 1 \in 1..Len(frames)
        BY <1>2, <3>1
      <4>2. \A k \in 1..Len(frames) : frames[k].left = m
              => k - 1 \in 1..Len(frames') /\ frames[k] = frames'[k - 1]
        <5>1. frames[1].left # m
          BY <1>1, <1>3
        <5> QED
          BY <1>2, <3>1, <5>1
      <4>3. ASSUME NEW v \in Reached(frames', m) PROVE v \in Reached(frames, m)
        <5>1. PICK k \in 1..Len(frames') : frames'[k].left = m /\ v = frames'[k].i
          BY <4>3 DEF Reached
        <5> QED
          BY <4>1, <5>1 DEF Reached
      <4>4. ASSUME NEW v \in Reached(frames, m) PROVE v \in Reached(frames', m)
        <5>1. PICK k \in 1..Len(frames) : frames[k].left = m /\ v = frames[k].i
          BY <4>4 DEF Reached
        <5> QED
          BY <4>2, <5>1 DEF Reached
      <4> QED
        BY <4>3, <4>4
    <3>4. \A m \in (a + 1)..opt.depth : m # frames[1].left - 1
      BY <1>1, <1>2, <1>3
    <3>5. Ahead(a)' = 0
      BY <2>1, <3>2 DEF Ahead
    <3>6. ASSUME NEW m \in (a + 1)..opt.depth PROVE Ahead(m)' = Ahead(m)
      <4>1. m # frames[1].left - 1 /\ job'.ctx # "prefetch"
        BY <2>1, <3>4
      <4>2. Reached(frames', m) = Reached(frames, m)
        BY <3>3
      <4> QED
        BY <4>1, <4>2 DEF Ahead
    <3> QED
      BY <1>3, <1>5, <3>5, <3>6
  <2>2. CASE /\ frames[1].i < 2 /\ frames' = [frames EXCEPT ![1].i = @ + 1]
             /\ job'.ctx \in {"none", "prefetch"}
    <3>1. /\ Levels(frames') /\ Len(frames') = Len(frames)
          /\ frames'[1].i = frames[1].i + 1 /\ frames'[1].left = frames[1].left
          /\ \A k \in 2..Len(frames) : frames'[k] = frames[k]
      <4>1. frames[1].i < 2 /\ frames' = Moved(frames)
        BY <2>2 DEF Moved
      <4> QED
        BY <1>2, <4>1, LevelsMoved
    <3>2. /\ Levels(frames') /\ Len(frames') = Len(frames)
          /\ frames'[1].i = i + 1 /\ frames'[1].left = a
          /\ \A k \in 2..Len(frames) : frames'[k] = frames[k]
      BY <1>1, <3>1
    <3>3. Reached(frames', a) = {i + 1}
      <4>1. 1 \in 1..Len(frames')
        BY <1>2, <3>2
      <4>2. Reached(frames', frames'[1].left) = {frames'[1].i}
        BY <3>2, <4>1, ReachedIs
      <4> QED
        BY <3>2, <4>2
    <3>4. ASSUME NEW m \in (a + 1)..opt.depth PROVE Reached(frames', m) = Reached(frames, m)
      <4>1. m # a
        BY <1>3
      <4>2. \A k \in 1..Len(frames) : frames[k].left = m => frames'[k] = frames[k]
        BY <1>1, <1>2, <3>2, <4>1
      <4>3. \A k \in 1..Len(frames) : frames'[k].left = m => frames'[k] = frames[k]
        BY <1>2, <3>2, <4>1
      <4> QED
        BY <3>2, <4>2, <4>3 DEF Reached
    <3>5. \A m \in (a + 1)..opt.depth : m # frames[1].left - 1 /\ m # frames'[1].left - 1
      BY <1>1, <1>2, <1>3, <3>2
    <3>6. Ahead(a)' = 3 - (i + 1)
      <4>1. a # frames'[1].left - 1
        BY <1>3, <3>2
      <4> QED
        BY <3>3, <4>1 DEF Ahead
    <3>7. ASSUME NEW m \in (a + 1)..opt.depth PROVE Ahead(m)' = Ahead(m)
      <4>1. m # frames[1].left - 1 /\ m # frames'[1].left - 1
        BY <3>5
      <4>2. Reached(frames', m) = Reached(frames, m)
        BY <3>4
      <4> QED
        BY <4>1, <4>2 DEF Ahead
    <3> QED
      BY <1>3, <1>5, <3>6, <3>7
  <2> QED
    BY <2>1, <2>2
<1>7. a \in 0..opt.depth
  BY <1>3
<1> QED
  BY <1>4, <1>6, <1>7, LevelDescends

\* A prefetch compile succeeds: the activation it was to begin has less ahead.
LEMMA AllocDescends ==
  ASSUME CompileOK, CompileOK', AllocOk
  PROVE  << Effort', Effort >> \in Below(opt.depth + 2)
<1>1. pc = "alloc" /\ opt' = opt
  BY DEF AllocOk
<1>2. job'.ctx = "none"
  <2>1. job' = NoJob
    BY DEF AllocOk
  <2> QED
    BY <2>1 DEF NoJob
<1>3. job.ctx \in {"run", "retry", "prefetch"}
  BY <1>1 DEF CompileOK, Asks
<1>4. CASE job.ctx \in {"run", "retry"}
  <2>1. Tries' < Tries
    BY <1>2, <1>4 DEF Tries
  <2> QED
    BY <1>1, <2>1, TriesDescend
<1>5. CASE job.ctx = "prefetch"
  <2>1. PICK l : l = frames[1].left - 1
    OBVIOUS
  <2>2. /\ Levels(frames) /\ opt.depth \in Nat /\ frames # << >>
        /\ Len(frames) \in Nat \ {0}
        /\ \A k \in 1..Len(frames) : frames[k].left \in 1..opt.depth
    BY <1>5 DEF CompileOK, Levels
  <2>3. l \in 0..opt.depth /\ Ahead(l) = 4
    BY <1>5, <2>1, <2>2 DEF Ahead
  <2>4. Ahead(l)' < Ahead(l)
    <3>1. AheadRange'
      BY AheadNat, PTL
    <3>2. Ahead(l)' \in 0..3
      BY <1>2, <3>1 DEF AheadRange
    <3> QED
      BY <2>3, <3>2
  <2>5. ASSUME NEW m \in (l + 1)..opt.depth PROVE Ahead(m)' = Ahead(m)
    <3>1. m # l
      BY <2>3
    <3>2. Reached(frames', m) = Reached(frames, m)
      <4>1. CASE frames' = frames
        BY <4>1
      <4>2. CASE frames' # frames
        <5>1. PICK n \in Id : LET a == [blk |-> n, i |-> 0, left |-> l] IN
                /\ l \in 1..opt.depth /\ a \in Activations
                /\ frames # << >> => l < frames[1].left
                /\ frames' = << a >> \o frames
          BY <1>5, <2>1, <4>2, Pushed
        <5> DEFINE a == [blk |-> n, i |-> 0, left |-> l]
        <5>2. a.left = l
          OBVIOUS
        <5> HIDE DEF a
        <5>3. /\ a.left \in 1..opt.depth /\ a \in Activations
              /\ frames # << >> => a.left < frames[1].left
              /\ frames' = << a >> \o frames
          BY <5>1, <5>2 DEF a
        <5>4. /\ Len(frames') = Len(frames) + 1
              /\ frames'[1] = a /\ \A k \in 1..Len(frames) : frames'[k + 1] = frames[k]
          BY <2>2, <5>3, LevelsPushed
        <5>5. \A k \in 1..Len(frames) : frames[k] = frames'[k + 1] /\ k + 1 \in 1..Len(frames')
          BY <2>2, <5>4
        <5>6. \A k \in 1..Len(frames') : frames'[k].left = m
                => k - 1 \in 1..Len(frames) /\ frames'[k] = frames[k - 1]
          <6> SUFFICES ASSUME NEW k \in 1..Len(frames'), frames'[k].left = m
                       PROVE  k - 1 \in 1..Len(frames) /\ frames'[k] = frames[k - 1]
            OBVIOUS
          <6>1. k # 1
            BY <3>1, <5>2, <5>4
          <6>2. k - 1 \in 1..Len(frames) /\ (k - 1) + 1 = k
            BY <2>2, <5>4, <6>1
          <6> QED
            BY <5>4, <6>2
        <5>7. ASSUME NEW v \in Reached(frames', m) PROVE v \in Reached(frames, m)
          <6>1. PICK k \in 1..Len(frames') : frames'[k].left = m /\ v = frames'[k].i
            BY <5>7 DEF Reached
          <6> QED
            BY <5>6, <6>1 DEF Reached
        <5>8. ASSUME NEW v \in Reached(frames, m) PROVE v \in Reached(frames', m)
          <6>1. PICK k \in 1..Len(frames) : frames[k].left = m /\ v = frames[k].i
            BY <5>8 DEF Reached
          <6> QED
            BY <5>5, <6>1 DEF Reached
        <5> QED
          BY <5>7, <5>8
      <4> QED
        BY <4>1, <4>2
    <3>3. m # frames[1].left - 1
      BY <2>1, <3>1
    <3> QED
      BY <1>2, <3>2, <3>3 DEF Ahead
  <2>6. Tries' = Tries
    BY <1>2, <1>5 DEF Tries
  <2> QED
    BY <1>1, <2>3, <2>4, <2>5, <2>6, LevelDescends
<1> QED
  BY <1>3, <1>4, <1>5

LEMMA StepDescends ==
  ASSUME CompileOK, CompileOK', Next, Compiling, Compiling'
  PROVE  << Effort', Effort >> \in Below(opt.depth + 2)
<1>1. CASE EvictColdest \/ EmitFails
  BY <1>1, SearchDescends
<1>2. CASE AllocOk
  BY <1>2, AllocDescends
<1>3. CASE EvictAll
  <2>1. job' = [job EXCEPT !.ctx = "retry"] /\ job.ctx = "run" /\ opt' = opt
    BY <1>3 DEF EvictAll, SecondTry
  <2>2. PICK c : job = [site |-> job.site, ctx |-> c]
    BY DEF CompileOK, Asks
  <2>3. job'.ctx = "retry"
    BY <2>1, <2>2
  <2> QED
    BY <2>1, <2>3, TriesDescend DEF Tries
<1>4. CASE PrefetchFail \/ PrefetchReturn
  <2>1. /\ frames # << >> /\ frames' = Tail(frames) /\ job' \in {NoJob, job} /\ opt' = opt
        /\ pc' = "prefetch"
    BY <1>4 DEF PrefetchFail, PrefetchReturn, Failed, CompileOK
  <2>2. job'.ctx = "none"
    BY <2>1 DEF CompileOK, Asks
  <2> QED
    BY <2>1, <2>2, InnerDescends
<1>5. CASE PrefetchSkip \/ PrefetchCompile
  <2>1. /\ frames # << >> /\ frames[1].i < 2 /\ frames' = [frames EXCEPT ![1].i = @ + 1]
        /\ opt' = opt
    BY <1>5 DEF PrefetchSkip, PrefetchCompile, Reading
  <2>2. job'.ctx \in {"none", "prefetch"}
    <3>1. CASE PrefetchSkip
      BY <3>1 DEF PrefetchSkip, Reading, CompileOK
    <3>2. CASE PrefetchCompile
      BY <3>2 DEF PrefetchCompile
    <3> QED
      BY <1>5, <3>1, <3>2
  <2> QED
    BY <2>1, <2>2, InnerDescends
<1>6. CASE \/ RunUntil \/ InvalidateAddr \/ Restart \/ Leave \/ BankCheck \/ SmcCheck \/ Service
           \/ HaltLoop \/ EiStep \/ FallbackStep \/ Chain \/ Lookup \/ Compile \/ CompileFail
           \/ PrefetchDone \/ Link \/ Enter \/ SelfLoopTaken \/ SelfLoopRefused \/ Spin
           \/ BatchEnter \/ BatchEnd \/ StopCheck
  BY <1>6 DEF Compiling, RunUntil, InvalidateAddr, Restart, Leave, BankCheck, SmcCheck, Service,
     HaltLoop, EiStep, FallbackStep, Chain, Lookup, Compile, CompileFail, PrefetchDone, Link,
     Enter, SelfLoopTaken, SelfLoopRefused, Spin, BatchEnter, BatchEnd, StopCheck, Dispatching
<1> QED
  BY <1>1, <1>2, <1>3, <1>4, <1>5, <1>6 DEF Next, Loop

\* Every step of a compile, with its evictions, its second try and the prefetches it sets
\* off, leaves less to do, in every build: with DescentEnds, none goes on for ever.  It
\* is the part of CompileEnds that does not speak of fairness.
THEOREM CompilesRunDown == Spec => CompileDescends
<1>1. Init => CompileOK
  BY CompileInit
<1>2. CompileOK /\ [Next]_vars => CompileOK'
  BY CompileNextOK
<1>3. CompileOK /\ CompileOK' /\ [Next]_vars
        => [Compiling /\ Compiling' => << Effort', Effort >> \in Below(opt.depth + 2)]_vars
  BY StepDescends
<1> QED
  BY <1>1, <1>2, <1>3, PTL DEF Spec, CompileDescends
===============================================================================
