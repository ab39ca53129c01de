# gbjit-xtensa, verified in TLA+

gbjit-xtensa runs Game Boy programs by translating blocks of SM83 code to Xtensa
machine code while it runs.  This directory holds TLA+ models of its own logic, TLC
runs that check them on small instances, and theorems proved with TLAPS for every
instance.  Paths are relative to the repository's root.

## 1. The system

| Component | Code | State | Operations |
|---|---|---|---|
| Code arena | `jit/codecache.c` | bump mark or ring cursor, free list inside the arena | alloc, free, reset, trim; one of three policies per build |
| Dispatcher | `jit/dispatcher.c` | hash table of blocks, one list of blocks per 256-byte page, predictions inside each block, tags, the loop's `s_run_prev` and `b` | `run_until`, `invalidate_addr`, init, shutdown; the eviction callbacks the arena calls in the middle of a compile |
| Code generator | `jit/codegen.c`, `jit/emit_xtensa.c` | none between calls | `gbjit_compile_block`: walk, reserve, emit, trim |
| Memory system | `core/memory.c` | ROM bank, RAM, I/O registers, code-page states, dirty flags | `mmu_read8`, `mmu_write8` |
| Interpreter | `core/sm83_interp.c` | registers, IME, `ime_pending`, HALT, STOP | `sm83_step`, `sm83_service_interrupts` |
| PPU and timer | `core/ppu.c` | mode, LY, STAT line, deadlines, DIV/TIMA phase | `ppu_tick`, `ppu_flush` |
| PPU thread | `core/ppu_thread.c` | task handle, run flag | start, stop; a task on Core 1 |
| Display, ports | `boards/`, `port/` | frame sequence numbers | start-up, blitting |

They interact in three ways that matter here.  *Calls that call back*: the run loop
compiles a block, the compiler reserves space, and the reservation evicts other blocks
through a callback into the dispatcher.  *Flags*: a store finds the page state that the
dispatcher left, raises `jit_smc_dirty`, and the dispatcher looks at it at its next
iteration; the ROM bank works the same way.  *Shared memory*: on the boards the PPU and
the display run on the other core.

The hard behaviours are the lifetime of blocks (a block is reachable from the table, the
page lists, other blocks' predictions, the loop and the prefetcher's stack, and is freed
from five places), stale translations (between a store and the flush of the blocks made
from the overwritten bytes), the arena's accounting through errors and evictions, and
lazy devices: the LCD controller and the timer do not move with the processor but are
caught up later, over many cycles at once, at the latest of a cached deadline.  And the
same guest program is executed by two engines that call each other: compiled code keeps
pc and cycles in registers, replaces some loops by their result, calls the interpreter
from inside a block, and looks for interrupts only now and then.
`PROJECT.json` lists them one by one under `hazards`.

What makes each part correct, and the properties that say so:

- *Code arena*: live spans never overlap (`ImplementsArena`), every byte is accounted for
  through errors and trims (`FreeListTiles`, `FreeListCoalesced`, `BumpBelowMark`), and a
  request that fits is served in the end (`NeverStarved`, `AllocEnds`).
- *Dispatcher*: no pointer to a freed block (`NoDangling`), no block lost or kept twice
  (`NoLeak`, `OneBlockPerPc`), no code overwritten while it is cached (`CodeDisjoint`), no
  stale or wrong block entered (`NoStaleEntry`, `EntersAtPc`, `ChainCoherent`,
  `Registered`, `StaleIsFlagged`), and every compile ends (`CompileEnds`).
- *Compiled code*: it does to the guest what the interpreter does (`ImplementsSm83`), serves
  interrupts in bounded time (`BoundedLatency`) and reads fresh registers (`ReadsFresh`).
- *PPU and timer*: catching up late is the same as moving with every cycle (`OnTime`,
  `InterruptsOnTime`, `FramesOnTime`, `TimerOnTime`), a published frame is whole
  (`PublishedWhole`), and a halted processor wakes in bounded time (`Wakes`, `SleepBound`).
- *PPU thread*: no request is lost between the cores (`NoLostRequest`), each wakes the
  processor (`RequestWakes`), and each cycle is counted once (`CountedOnce`).
- *Inlined instructions*: the code emitted for each one does to registers, flags, memory,
  pc and cycles what the interpreter does (`SameAsInterpreter`).
- *Memory system*: whenever a byte of compiled code changes, by a store, through the echo
  or by a bank switch, the flag for its page or for the bank is raised (`CodeFlagged`).

## 2. The modules

| Module | Models | Extends / uses |
|---|---|---|
| `CodeCacheOps` | the arena's operations, as operators | |
| `CodeCache` | the arena driven by compiles and invalidations | `CodeCacheOps`; implements `Arena` |
| `Arena` | what an arena promises: spans handed out never overlap | |
| `ArenaProofs` | theorems about `CodeCache`, its refinement of `Arena` included | `CodeCache` |
| `Dispatcher` | block cache and run loop | `CodeCacheOps` |
| `DispatcherProofs` | theorems about `Dispatcher`: types and pointers, the right block is found and none is lost, no stale block is entered, no code is shared, the block that just ran survives, the guest's flow of control is its program's, compiles run down | `Dispatcher`, `Quotients`; instance of `ArenaProofs` |
| `Sm83Ops` | an instruction and an interrupt, as `sm83_step` executes them | |
| `Sm83` | what both engines promise: instructions in order, interrupts between them | `Sm83Ops` |
| `BlockExec` | the block walk, compiled code and the run loop, seen by the guest | `Sm83Ops`; implements `Sm83` |
| `BlockExecProofs` | theorems about `BlockExec`, its refinement of `Sm83` included | `BlockExec`, `Quotients` |
| `Memory` | the address space, its devices, MBC1, the code-page states | |
| `Sm83Data` | what each instruction does to registers, flags and memory | `Memory` |
| `Inline` | the code emitted for each instruction | `Sm83Data` |
| `InlineProofs` | theorems about `Inline` | `Inline`, `Quotients` |
| `Quotients` | lemmas on quotients, remainders and bits | |
| `Ppu` | the scanline machine, STAT, LY, the LCD's interrupts and deadlines | |
| `PpuProofs` | theorems about `Ppu` | `Ppu`, `Quotients` |
| `Timer` | DIV, TIMA, and the loops that decide when they are caught up | |
| `TimerProofs` | theorems about `Timer` | `Timer`, `Quotients` |
| `PpuThread` | `ppu_tick` called from two cores, the shared interrupt flags, HALT | |
| `PpuThreadProofs` | theorems about `PpuThread` | `PpuThread`, `Quotients` |
| `MCCodeCache`, `MCDispatcher`, `MCBlockExec`, `MCInline`, `MCPpu`, `MCTimer`, `MCPpuThread` | the instances TLC checks | |

`Ppu` and `Timer` share no state but the deadline, which `Ppu` computes and `Timer`
takes as an input (`Deadlines`), and the interrupt register, of which each owns its bits.
Both treat a call of `ppu_tick` as one step, which is right where one thread makes all of
them; `PpuThread` takes that call apart.

### The code arena

`cc` is the `codecache` struct, with the intrusive free list as a sequence of spans.
Offsets count units of eight bytes, the alignment the code rounds everything to.
`GBJIT_JIT_EVICT` is a build option in the code and a parameter of each operator here.
`CodeCache` has one action per way the rest of the program drives the arena: a compile
reserves its worst case (`Alloc`), may overflow and give it back (`EmitOverflow`), or
trims it (`EmitDone`), or loses the block struct to a failed `calloc` (`EmitNoMemory`);
blocks are invalidated one by one or reset together.

`CodeCache` implements `Arena` with the spans of the cached blocks and of the
reservation in flight as its spans.  `blocks` is the set of the cached blocks' spans: no
two blocks have the same, and their order means nothing to the arena.

### The dispatcher

The guest is abstract: places where a block may start (`Site`), where each one's code
ends, its two static successors, and the places it may really go to next.  Executing a
block picks a destination, a set of RAM pages to write and whether to switch the ROM
bank.  The cycle counter, HALT, EI and STOP are choices at the points where the loop
tests them, as a guest exists for each choice.

The variables are the code's: `blk` is the heap of `gbjit_block`s, `table` the bucket
table, `smc` the page lists, `pageState`, `smcDirty`, `bankDirty` the memory system's
flags, `cc` and `code` the arena, `prev` and `b` the loop's pointers, `frames` the stack
of `prefetch_successors`, `colder` the order of the tags.  `stale` is a history variable:
the blocks whose bytes changed since they were compiled.  `pc` is the point the loop has
reached.  Each action is the code between two such points: one check, one lookup, one
allocation with everything its callback does, one block execution.

A compile that has got its room may still be lost (`EmitFails`), to emitted code that
overflows the reservation or to a failed `calloc`: the whole reservation or its trimmed
part goes back, and the blocks that the ring evicted for it stay gone.  `Failed` is the
NULL that `gbjit_compile_block` returns, of that or because nothing could be evicted, and
what the loop does with it is the same: a wipe and a second try (`EvictAll`), the
interpreter (`CompileFail`), or the end of a prefetch (`PrefetchFail`).  Any compile may be
lost, the second try included.

A heap address may be used again once its block is freed (`Id` is a small set), so a
dangling pointer in the model may come to name another block, as in the program.

### Execution of blocks

`Dispatcher` asks which block is entered, `BlockExec` what entering it does.  A guest
program maps each address to one instruction.  `Sm83Ops` keeps the whole control of
`sm83_step`: targets, the return stack, IME and its delayed enable, HALT, STOP, the
length in cycles, and the order in which a call services interrupts, looks at HALT and
executes.  Its data are one register, one flag and one byte of high RAM, which is what
the loops the compiler treats in a special way use; an instruction is `slow` when the
memory it uses is outside what compiled code reaches by itself.  Time is in machine
cycles; the low word of `cpu->cycles` wraps at `Clock`.

`BlockLen` is the walk of `gbjit_compile_block`; `IsDecLoop`, `IsPollLoop` and `SelfLoop`
are its three classifiers.  `blk` is the block being executed: `a11` and `a12` are the
registers that hold pc and the cycles since the last call.  `InlineOp` executes an
inlined instruction on them, `HelperOp` is the call of `sm83_step` between
`emit_sync_state` and `emit_reload_state`, `DecLoop` the closed form of the counting
loop, `Epilogue` the way out.  Around it is the loop of `gbjit_dispatcher_run_until`:
`ServiceFirst`, `HaltLoop`, `InterpretOne` (after EI, after a failed compile, or with
`interp_fallback`), `Enter`, then `Reenter` for the self-loop spin and the chain batch
(`again` counts the entries left), and `Leave`.  `build` chooses this engine, with or
without the batch (it is compiled in on the boards only), or `RunInterpreter`.

`ImplementsSm83` is refinement under the mapping `Guest`: inside a block the guest's pc
and clock are in `a11` and `a12`, and a processor that sleeps because it polls is not
halted (`parked`).  `Sm83` leaves open when an interrupt comes and how long an idle
processor idles, as a block does not look after every instruction, but not where: between
instructions, with IME set, and not between EI and the instruction after it.  It allows a
step of several instructions, because `DecLoop` is one.  `stale` and `late` are history
variables: an I/O store that `ppu_tick` has not seen, and compiled instructions since an
enabled request.

### Memory and the inlined instructions

`BlockExec` asks when compiled instructions run and who looks for interrupts; `Inline`
asks whether each of them is the instruction.  A state is a machine `m`, registers, flags
and memory of the `cpu_state` and `mmu` structs as one record, and a step is one
instruction of a compiled block.

`Memory` is `core/memory.c` as operators on `m`: `Read` and `Write` are `mmu_read8` and
`mmu_write8` with their whole region decode, `BankControl` both registers of MBC1,
`Transfer` OAM DMA, `Serial` a transfer on the internal clock, `JoypRead` the joypad's
rows, `SmcMark` the marking of code pages, `Loaded` what `mmu_load_rom` makes of a file
and its header, `InitMem` what `gb_mmu_init` leaves.  The sizes are parameters (`Half`, the values of half a byte, and `Base`,
where each region begins); what a region's decode uses of them is stated in
`BaseAssumption`.  The cells of the struct are `Stored`: work RAM and its echo share theirs.

`Sm83Data` is the switch of `sm83_step` with its helpers: `Exec` fetches nothing, as an
instruction is a record of family, operands and immediate, and does everything else, with
`Alu`, `Stepped`, `Shifted`, `SumHl`, `SumSp` and `Decimal` for the arithmetic, `Len` and
`Cycles` for the decoder's table.  Interrupts, EI, HALT and STOP are in `Sm83Ops`.

`Inline` is `inline_op`.  `FastPath` is the emitted code where it does not call: its
arithmetic has no comparisons, a flag is a bit (`Bit`) of a sum or difference that may be
negative; `InWram` is the range check by a shift, `Guarded` the SMC guard, `FastWord` and
`FastPush` reach the second byte of a stack access at the next byte of the struct
(`Behind`).  `Inlines` says which instructions get code, `OnFastPath` when it stays off
the slow path.  `InlinedOp` is such an instruction, `HelperOp` the call of `sm83_step`: for
one without code, off the fast path, or when the literal pool was full at compile time.
`SameAsInterpreter` compares a step of either kind with `Exec`.

### The LCD controller

The processor of `Ppu` only counts cycles (`Cycle`), stores to registers (`Write`) and
takes interrupts (`Acknowledge`).  `TickEarly` is a `ppu_tick` that returns at once,
`TickAdvance` one that enters `ppu_advance`, whose loop then takes one transition per
step (`pc = "drain"`) until `Drained` computes the next deadline.  `since` and `ahead`
are the distances from `cpu->cycles` to the two 32-bit stamps `ppu_last_cpu_cycles` and
`ppu_next_event_cycles`, reduced modulo `CycleMod` as the code's subtractions are; the
deadline test is the signed comparison of `gb_cycles_reached`.  A store comes right after
a `ppu_tick` (`lag = 0`), as `sm83_step` begins with one, and flushes before it lands.
`ppu_lcd_count` has 16 bits in the code and wraps at `CountMod` here.  A store to STAT
replaces the whole register, the read-only mode and coincidence bits included, which stay
so until the next mode change; `StatModes` are the mode bits a guest may store.

The length of mode 3 is one parameter per line, `TransferCycles` plus what the guest
chose: it stands for the scroll, window and sprite penalties.  Of the renderer the model
keeps which lines were drawn since the last published frame.

`beam` is a history variable: the controller of the Game Boy, moved by every cycle and
every store, with its own interrupt line.  The properties compare the two after each
`ppu_tick`.

### The timer

A model cycle is one machine cycle.  `since` is the distance to the last `timer_tick`
and `ahead` to the LCD's deadline.  `Service` is the top of the dispatcher's loop,
`Cycle` and `EndBlock` a block, `HaltStep` one pass of the inner loop of a halted
processor, which calls `ppu_tick` only when the deadline is reached.  The halt loop may
give up at any pass, as the caller's budget may end there.  `TimerTick` is `timer_tick`
in closed form: its loop of single increments is the division of `Increments` and the
reload of `Bumped`; a call with no cycle to account for returns before it looks at TIMA.  `ref` is the reference, prescalers moved by every cycle, and `late`
counts how long a halted processor has slept past its interrupt.

### Two cores

With `GBJIT_PPU_ASYNC` a task on Core 1 calls `ppu_tick` in a loop, and Core 0 no longer
does when it services interrupts; but it still does in the HALT loop and before a store to
a register of the LCD.  A step of `PpuThread` is one access to shared memory: `Look` reads
the deadline, `Measure` the clock and the last stamp, `Stamp` writes the stamp, `Add` the
count, `Transition` is a round of the loop with the atomic request of VBlank, and `Settle`
the next deadline.  `at` and the locals `delta` and `stamp` belong to the caller, `core0`
or a task.  `Top`, `Read` and `Clear` are `sm83_service_interrupts`, `HaltStep` and
`HaltPoll` the HALT loop.  The clock is read once for the difference and the stamp: the
two reads of `cpu->cycles` (`core/ppu.c:622`) are adjacent, it is a plain integer and nothing
is stored between them, so that a compiler which optimises makes one load of them, and
every firmware configuration does (`CONFIG_COMPILER_OPTIMIZATION_PERF` in each
`sdkconfig.defaults`, `-O3` in the Heltec board's `components/gbjit`).  IE enables
both bits.  `build` chooses the synchronous or the asynchronous build and what the guest
and the host do with it.  `owed`, cycles that passed and are not counted, and `asked`,
bits of IF set and not dispatched, are history variables.

## 3. The runs

| Run | Question | Bounds |
|---|---|---|
| `codecache` | do the arenas keep their bytes apart and the free list exact? | 6 units, requests of 1 to 7 |
| `dispatcher` | is the block cache consistent, is no stale or wrong block entered, does every compile end? | 5 sites, one of them with a request larger than the arena, 3 block addresses, 5 pages, an arena of 3 units, 2 prediction slots, 7 option sets |
| `ppu` | is the replayed LCD controller the one that moves with every cycle? | lines of 5 dots, 2 visible of 4, at most 5 cycles between calls, 51 stamps, a dot count modulo 16, mode bits 0 and 3 in stores to STAT |
| `timer` | are DIV, TIMA and the interrupt exact, does a halted processor wake? | 2-bit counters, periods of 3 (DIV), 2 and 5 (TIMA), deadlines of 1, 3 and 6 |
| `blockexec` | does compiled code execute what the interpreter does, and serve interrupts in bounded time? | 5 programs of 14 instructions, blocks of 3, 3 spins, batches of 0 and 2, bytes of 4 values, a clock of 8 |
| `inlined` | does the code of each instruction do what `sm83_step` does, is every change of a code byte flagged? | bytes of 16 values, 256 addresses in pages of 16, 7 mixes of instructions, 1 to 3 in a row |
| `mid_block` | what if an interrupt comes when an instruction in the middle of a block is a call? | as `blockexec`, one program |
| `stale_read` | is an I/O register read only after `ppu_tick` saw the last store, in batches too? (no) | as `blockexec`, one program |
| `ppu_gap` | what if more than a line passes between two calls? | as `ppu`, 6 cycles |
| `two_cores` | is a request lost between the cores, does it wake a halted processor, is a cycle counted twice where one core counts? | 1 task, lines of 1 cycle, frames of 2 lines, 7 stamps, 4 uses |
| `two_tickers` | what if the guest halts or stores to the LCD while Core 1 ticks? | 2 tasks, lines of 2 cycles, 9 stamps |
| `unguarded_store` | what if an inlined store lacks the SMC guard? | as `dispatcher`, one such page |

**Bounds.**  Six units allow three blocks with holes between them, so that freeing the
middle one coalesces on both sides, and a wrap of the ring with blocks before and behind
the cursor.  In the dispatcher's arena two blocks fit at most, so that with three sites
in use every compile may have to evict.  The five pages are one of each kind: fixed ROM,
banked ROM, RAM, its echo, and the last page, where `gb_pc_end` wraps to zero.  One block
spans fixed and banked ROM.  Two prediction slots show replacement and wrap-around.
A line of five dots has two of mode 2, one or two of mode 3 and at least one of mode 0;
two visible lines and two others have each kind of line change; a gap of a whole line
replays up to four transitions in one call; the stamps wrap after two and a half frames,
so that their order relative to a deadline is inverted in every phase.  `MaxGap` is the
largest gap for which the controller is right (a line) and `ppu_gap` is one cycle more.
The dot count stays below a line and a gap together, 11 here, which 16 holds as the 16 bits
of the code hold two lines of 456.
In `timer` a period of 2 overflows TIMA several times within one catch-up of six cycles,
with reloads of 0, 2 and 3 of a maximum of 3; the period of 5 spans several blocks.

The programs of `blockexec` contain each loop the compiler treats in a special way,
entered with every start value its code can give it; a poll that an interrupt ends and
one that runs with interrupts disabled; HALT; an I/O store and an I/O read in two blocks;
calls of the interpreter first, in the middle and last in a block and in a self-loop; EI
followed by HALT, RET, a jump or a call; a handler longer than a block.  Bytes of 4 values
make the counting loop 15 cycles long at most, so that it wraps a clock of 8, as a block
may.  With `MaxOps` 3 the longest handler needs three blocks, and a batch of 2 just
reaches them.  In these programs no call of the interpreter is followed by another
instruction of its block while interrupts are enabled; `mid_block` shows why.  `Conforms`,
checked with the rest, says so.  It speaks of the states a compiled guest reaches; that it
follows from the programs' text is a theorem, whose hypothesis TLC evaluates for these
programs (`ConformingCharted`, an assumption of `MCBlockExec`; `Rounds` is more than enough
for the set of controls to be closed, which `Charts` itself requires).

In `inlined` a byte has four bits and half a byte two, the smallest in which the half carry
is neither the carry nor the lowest bit; all formulas are stated in `Half` and so are the
proofs.  Each mix enumerates what its instructions depend on: all pairs of operands and
both carries (`bytes`), all values and flags (`bits`), the sums around every boundary
(`words`), every SP with and without code on the stack (`stack`), every condition with
targets that wrap (`jumps`), every HL with code pages in each state (`stores`), and
sequences of three accesses to the bank registers, DMA, serial port, joypad and DIV with
three cartridges, one of them with a number of banks that is no power of two, from memory
filled with different bytes and from what `gb_mmu_init` leaves (`devices`).
`Straddling` and `Unguarded` are FALSE: section 5 has what they leave out.

In `two_cores` a line of one cycle makes every call of `ppu_advance` that counts anything
take a transition, and Core 0 may be two cycles past a deadline (`MaxLag` and `MaxStep`)
before it waits for Core 1, which stands for a task that gets its turns.  A guest that
halts in the asynchronous build leaves IF and the serial port alone (`shares`), and with
one task `ThreadStart` after `ThreadStop` waits for the old task to end; both are bounds
of the run and not of the code.  A frame of two lines requests VBlank every other line.

**Fairness.**  `CodeCache` assumes that `codecache_alloc`, once called, runs on;
`Dispatcher` that the loop, once entered, does; `Timer` that the service and the halt
loop do; `PpuThread` the same of Core 0.  All are ordinary sequential code.  `PpuThread`
also assumes that FreeRTOS gives the task its turn: it is ready at all times, and shares
its core with tasks of its own priority only.  `Ppu` assumes nothing.
Nothing is assumed of the guest or of the host: that `run_until` is called, that a
budget lasts, or that the guest writes anything.

**What the violations show.**
`ppu_gap`: `ppu_advance` brings LY back to 0 before its loop only, so a single call that
reaches line 153 with a line's worth of cycles left counts on to 154 and up to 255.  The
Heltec board builds with `GBJIT_HALT_STEP_CYCLES=1024`, more than two lines of 456.
`two_tickers`: Core 0's HALT loop and its flush enter `ppu_advance` while Core 1's task is
in it.  Both measure from the same stamp and both add the same cycles, so that the LCD
runs ahead of the processor.  `core/sm83_interp.c` says that Core 0 must not call
`ppu_tick` in this build, and only the call in the interrupt service was taken out.
`CountedOnceAlone` holds: without these calls, or without the task, each cycle is counted
once.
`unguarded_store`: `LD (HL+),A`, `LD (HL-),A`, `PUSH`, `CALL` and `RST` are inlined for
work RAM without the guard the other stores have.
The run `dispatcher` leaves such stores out (`InlinePages = {}`), `inlined` with
`Unguarded` FALSE.
`mid_block`: a call of `sm83_step` from inside a block dispatches a due interrupt instead
of executing its instruction, and the block runs on with the instructions behind it: the
instruction is not executed, and the handler is left for the target of the block's jump or
entered behind its beginning.  The README of the
repository has the JIT service interrupts between blocks only.
`stale_read`: an I/O store ends its block so that `ppu_tick` runs before the next read;
the chain batch enters the next block without it.  `ReadsFreshUnbatched` holds.

## 4. The proofs

`DispatcherProofs` proves `TypeOK` (`TypeCorrect`) and `NoDangling`
(`NoDanglingPointer`) of `Dispatcher`'s specification, for every guest program, page
layout, arena size, number of prediction slots and set of options, under one assumption,
`NoEvictingPrefetch`: every set of options has the bump arena, or no prefetching, or no
cache.  It cannot be dropped: a prefetch that evicts may free the block the loop is about
to enter.  The shipped configurations either do not evict or do not prefetch.

`NoDangling` is not inductive.  `Inv` adds what makes it so: a page list is exactly the
set of cached blocks registered on the page (otherwise an invalidation might free a block
and leave it on another list); every prediction leads to a cached block; each phase of
the loop knows whether `prev` and `b` are cached; prefetch activations exist only with
the bump arena, and their blocks are cached.  `WithoutHeap` is the lemma the proof turns
on: removing any set of cached blocks with the code's four clean-up steps leaves a heap
of the same shape.

A second invariant, `Coherent`, rests on `Inv` and proves under the same assumption
`EntersAtPc` (`EntersRightBlock`), `ChainCoherent` (`PredictionsLead`), `OneBlockPerPc`
(`CompiledOnce`), `Registered` (`StoresNoticed`) and `NoLeak` (`NoBlockLeaks`).
`EntersAtPc` needs to know that the block in the loop's hands starts at the guest's pc from
the lookup on, through evictions and prefetches (`Here`), and so that a prediction leads to
the address it was made for; `OneBlockPerPc` that what is being compiled is not cached when
it comes to be inserted, although blocks are evicted in between (`JobFresh`); `Registered`
that a page keeps its mark while a block is on it (`Marked`).  Most steps only take blocks
and predictions away (`Shrinks`), and one lemma settles those (`ShrinksCoherent`).

On both rest `StaleIsFlagged` (`StaleAnnounced`) and `NoStaleEntry`
(`NothingStaleRuns`), proved for the guests of `Seen`: stores are guarded (`GuardedStores`; the run
`unguarded_store` shows what happens otherwise), code runs at the addresses its bytes are
stored at (`DirectlyMapped`: not in the echo) and a self loop does not store into itself
(`LoopsApart`).  The argument: a page that a store leaves in state 2 comes with the flag
(`DirtySeen`), so a block that goes stale is announced (`FreshStores`); a flag is lowered
only with the blocks it stands for (`CheckFresh`); and the lookup comes after both tests,
except that an interrupt's push may store in between, but then control goes to the vector,
which is code in ROM (`PhaseClean`).  The chain batch and the self loop look at the flags
themselves.

`CodeDisjoint` (`CodeNeverShared`) is proved under `NoEvictingPrefetch` for all three
allocators.  Its invariant, `ArenaOK`, is that the spans of live blocks are proper and
apart and that the arena is `Settled` for exactly these spans: what is not live is on the
free list, or above the mark, also after a compile was lost.  With the cache off this holds only from the wipe to the
end of the compile, since a block that has run is freed without its code.  The step from one
settled arena to the next is not repeated for the dispatcher: `ArenaProofs` states it as
lemmas about the operators of `CodeCacheOps` (`AllocSpan`, `TrimSpan`, `ReleaseSpan`,
`SettleSpan`), from which it proves `CodeCache` itself, and `DispatcherProofs` uses them
through an instance.  What the dispatcher adds is that a step may drop many blocks: their
spans are freed by a fold, and `CodesReleased` shows that the arena stays settled in
whatever order they are freed.  There are finitely many blocks, as each holds a
unit of its own (`LiveFinite`).

`FollowsProgram` (`GuestInOrder`) is about all of them at once, as a guest sees it: a step of
the loop leaves `cpu->pc` alone, moves it along an edge of the program, or serves an
interrupt.  It needs that the block that runs is the one at the guest's pc, and so rests on
`Coherent`.

`CompileEnds` is a liveness property and stays with TLC, but what makes it true is proved:
`CompileDescends` (`CompilesRunDown`) says that every step of a compile leaves less to do.
`Effort` is a number of `opt.depth + 3` digits: the tries the loop has left (a second one
follows a wipe), then for each activation of `prefetch_successors`, the outermost first, how
many successors are ahead of it, and last the blocks there are to evict and whether room is
still looked for.  A step lowers one
digit and may raise those below it: an eviction lowers the last, as does the loss of a compile
that had its room, and a prefetch that compiles
a block, and so refills the cache, comes with an activation that moves on.  `DescentEnds`
proves that there is no infinite way down, for any number of digits, from the library's
definition of a well-founded relation.  This needs no `NoEvictingPrefetch`: its
invariant, `CompileOK`, speaks of levels and requests and not of which blocks are cached, and
is proved by itself.

`HotSurvives` (`JustRunSurvives`) is an action property: an eviction takes `prev`, the block
that just ran, only if nothing else is cached.  The invariant `HotOK` says that the tags order
the blocks and that `prev` is the hottest from the moment it has run to the next entry
(`AfterRun`), the phases of lookup, invalidation, interrupts and compiling between the two
included.

`BlockExecProofs` proves every property of `BlockExec`, for every program, address space,
width of a byte and of the clock, block length and limits of the run loop, with the bounds
of `ReferenceAssumption`: a block does not go round the address space, and a step of `Sm83`
may be as long as the polling loop and the DEC A loop.  `BoundedLatency`
(`InterruptsServed`) needs nothing else; its invariant counts, for each way of re-entering
blocks, the instructions already executed and those still allowed (`Waited`).

`BlocksImplementSm83` is the refinement: `Spec /\ []Conforms => ImplementsSm83`.
`Conforms` has three parts.  `Balanced`: the guest returns only from what was called, and
calls no deeper than `StackMax` (the model's stack ends there, the program's wraps).
`Undisturbed`: a call of `sm83_step` in the middle of a block dispatches no interrupt;
without it the refinement is false, which is the run `mid_block`.  `Calm`: EI is executed
only with interrupts disabled; section 5 says what happens otherwise.  All three are
conditions on states, so that the theorem speaks of any program while it behaves so, and the
run `blockexec` checks them of its guests.

Whether a program behaves so can be read off its text. `Charts(p, G)` says that `G` is a set
of controls (pc, IME, the pending enable and the stack of return addresses) that contains
the one after reset, is closed under every instruction of `p` as the interpreter executes
it, with conditional jumps going either way and an interrupt after any instruction that
leaves IME set, and satisfies `Admits` throughout. Blocks, spins and batches do not occur in
it. From that `ChartedConform` proves `Conforms` for ever, and `ChartedImplement` the
refinement without `[]Conforms` as a hypothesis. The argument goes round the refinement: in
a chart the guest conforms at this moment (`ChartConforms`), so its next step is one of
`Sm83` (`StepImplements`), a number of reference instructions, an interrupt or idling, and
each of these stays in the chart (`ChartStep`). The guest of `mid_block` has no chart, since
it calls the interpreter in the middle of a block with interrupts enabled.
Of the parts of `Conforms`, `RegistersReadFresh`, for `ReadsFreshUnbatched`, needs the first
two and `BlockTypes`, for `TypeOK`, the first, so that both hold of charted programs too.

The invariant, `Inside`, is what relates the registers of compiled code to the program.  In
a block `a11` is the address of the instruction to execute next, although only jumps load
it, and the processor neither sleeps nor has an enable pending (`InsideOK`); a processor
that compiled code put to sleep is at a polling loop that would spin (`ParkOK`); the spin
re-enters only a loop that parks nothing (`SpinOK`, `EndOK`).  From it each step follows by
itself.  An inlined instruction is the reference's `Exec` of what `Synced` would be
(`InlineImplements`).  A call of the interpreter is an instruction, a dispatch or idling
(`CallImplements`).  A parked processor may idle because three instructions of the reference
lead back to where it is (`ParkedSpins`).  `DecLoop` is a single step of twice as many
instructions as the loop has rounds: the rounds are counted down one by one
(`RoundOf`, `CountsDown`), the first that went wrong being the least such (`MinIs`), as
induction is not at hand, and their cycles add up to the closed form, from every value of
A, zero included (`DecImplements`).

`PpuProofs` proves every property of `Ppu` the run `ppu` checks, for every geometry of the
screen, width of LY and of the cycle stamps, and set of stored values that
`PpuAssumption` admits.  The base of it, `Base`, is inductive and gives `TypeOK`
(`PpuTypes`) and `PublishedWhole` (`FramesPublishedWhole`) without a further hypothesis.
`Pace` is its core: the cycles since the last `ppu_advance` are either those since the last
`ppu_tick` or fewer than were left to the deadline then, so no 32-bit difference wraps and
`gb_cycles_reached` compares what it means to (`ReachedIs`).  `Drawn` says that the lines
of the current frame were drawn from 0 on without a gap.

`OnTime` (`RegistersOnTime`), `InterruptsOnTime` (`RequestsOnTime`) and `FramesOnTime`
(`FramesCounted`) say where the controller is when it has caught up, and nothing about
the cycles in between, when it is far behind the beam.  The invariant that carries them
over, `Watched`, is that it *would* catch up: take the state of the controller with the
cycles since the last `ppu_advance` added (`Now`); some number of transitions (`Moved`)
leads from it to a state in which none is due, and that state is the beam's
(`CatchesUp`).  A cycle of the processor moves both ends: the same transitions a
cycle later lead to the beam a dot later, and where the beam enters a mode one more
transition becomes due (`CatchesLater`, `TransitionDot`).  An iteration of the loop of
`ppu_advance` takes the first transition off the replay (`CatchesMove`); when none is due
the replay is empty and the controller is where the beam is (`CatchesReady`).
LY's early return to 0 in the last line is the one place where `ppu_advance` moves the
controller before its time: it is right because what is owed either ends in that line or
leads beyond it, where LY has become 0 all the same (`ZeroedCatchesUp`).

These three have two hypotheses.  `MaxGap <= LineCycles`: with more than a line between
two `ppu_tick`s the loop may meet the last line with LY not yet 0, which is what the
run `ppu_gap` shows.  `LiveWrites = {}`: LYC and the enables of STAT are stored only
while the LCD is off (section 5).  Each is needed: without either TLC finds all three
violated.

`TimerProofs` proves `TimerOnTime` (`TimerExact`) and
`SleepBound` (`SleepBounded`) of `Timer`, for every width, period, reload value, block
length and set of deadlines, under `~RateChange`: a guest selects a rate only when less
than its period has accumulated (section 5 has the rest).  `TimerOnTime` speaks of
the moment after a `timer_tick`; its invariant `Inv` says where the reference is d cycles
later (`Agrees`): at the remainder and the quotient of what has accumulated.  The proof
turns on two facts of arithmetic: one more cycle either stays within a period or
completes it (`DivisionStep`), and one more increment either bumps TIMA or reloads it
(`BumpedStep`).  For `SleepBound` the invariant adds that a halted processor's deadline is
still ahead, and that oversleeping began after the last `timer_tick`.
`TypeOK` (`TimerTypes`) and the part of `TimerOnTime` that is about DIV (`DivExact`) are
proved without that hypothesis, by invariants of their own (`Paced`, `DivOK`): a burst of
TIMA leaves every register in its width, and DIV exact.

`InlineProofs` proves `TypeOK` (`InlineTypes`), `SameAsInterpreter` (`InlineExact`) and
`CodeFlagged` (`InlineFlagged`) of `Inline`, for every even width of half a byte above two
values, layout that satisfies `BaseAssumption`, cartridge, set of machines and
instructions, under `~Straddling` and `~Unguarded`.  Of the bitwise operators it assumes
only their ranges and that exclusive-or with all ones complements (`BitsAssumption`,
`XorAssumption`).  The type invariant is inductive.  The argument has three parts.
`BitIs` says that a bit above all others of a bounded number, of a negative one too, is
the comparison it stands for, from which the flags of every operation are the
interpreter's (`AluSame`, `SteppedSame`, `ShiftedSame`, `SumHlSame`).  The lemmas on
regions and cells say that an address in work RAM is its own cell and that no device and
no bank is behind it.  From both, an instruction on its fast path is `Exec` (`FastSame`).
For `CodeFlagged` the relation `Marks` between two machines (code bytes differ only where
a flag was raised, and no page leaves the dirty state) is transitive, so that it holds for
an instruction of two stores because it holds for one (`MarksTwice`, `ExecMachine`).

`PpuThreadProofs` proves `TypeOK` (`PpuThreadTypes`), `NoLostRequest`
(`PpuThreadRequests`) and `CountedOnceAlone` (`PpuThreadCounts`) of `PpuThread`, for every
build, width of the clock, lateness and line length that the module's assumptions admit, in
every interleaving of the two cores' accesses.  A request could be lost between Core 0's
read of IF and its write: the invariant says that without the task no call of `ppu_tick` is
in progress then (`Calls`) and that IF is what was read (`Dispatching`); with the task the
bit is cleared by one atomic operation.  `CountedOnceAlone` needs that there is one caller
(`Lone`), and that no 32-bit difference of the clock and the last stamp has wrapped: the
cycles that are owed are bounded by what is left to the deadline and by the lateness of the
call in progress (`Timely`), so a difference is the number of cycles it stands for.

`Quotients` has the arithmetic of quotients and remainders that the proofs share.

`ArenaProofs` proves every safety property of `CodeCache`, for every size of the arena, set
of requests, policy and faults: `TypeOK` (`ArenaTypes`), `FreeListTiles`
(`NothingLeaksFromArena`), `FreeListCoalesced` (`FreeListStaysCoalesced`), `NeverStarved`
(`NeverStarves`), `BumpBelowMark` (`MarkAboveAll`), and that the three allocators implement
`Arena` (`AllocatorsImplementArena`, and `SpansApart` for its `NoOverlap`).  The invariant,
`ArenaInv`, says that the spans in use do not overlap (`Apart`), that the free list is
ordered with something between any two of its spans (`Separated`), and that a unit is on
the list exactly if no span in use holds it (`Tiles`).  Speaking of units rather than of
spans is what makes it provable: carving takes units off the list (`CarveList`) and
freeing adds them (`FreeList`), whichever neighbours the span joins.  Both operations
replace a stretch of the list by another (`Spliced`), and one lemma says when that keeps
the list separated (`SplicedSeparated`).  The walks of `codecache_alloc` and
`codecache_free` find what they look for because a set of numbers has a least one
(`Least`).  `NeverStarved` follows: with nothing in use the list holds every unit, and a
separated list that does is one span.

There are never more blocks than units (`BlocksBounded`, since each block owns a unit and no two
share one), and a retry of `codecache_alloc` leaves one block less than the try before it
(`AllocationsRunDown`): the evict-and-retry loop ends after at most `Cap` evictions.  That is
the part of `AllocEnds` that does not speak of fairness.

TLC alone checks the liveness properties (`AllocEnds`, `CompileEnds`, `Wakes`,
`RequestWakes`), which are out of the prover's reach; for the first two the decreasing measure
is proved, so that what TLC adds is that the loop keeps taking its steps.  What `Reaches`
computes for a program is not proved either: the theorems quantify over every set that is a
chart, and TLC confirms that these are.

## 5. Plan

1. Done: all the modules above and their theorems.
2. The frame hand-over to the display task (below).

Not modelled: instruction encodings and the Xtensa simulator (sequential bit packing),
rendering, start-up code, device drivers, statistics, the assembly trampoline, and the
vendored reference emulator.

Observations no run is about:

- `core/memory.h` says that DIV ticks at 16384 Hz, and `tima_period_lookup` gives that
  rate as 256 clock cycles; `timer_tick` counts DIV in periods of 64, four times as fast.
  `DivPeriod` is a parameter of `Timer`, and what is checked and proved holds for either.
- A store to TAC leaves the accumulator of TIMA as it is, so that after a switch to a
  faster rate TIMA increments in a burst.  `RateChange` allows such guests; the run and
  the proofs leave them out.
- A store to LYC, or to the enables in STAT, is not followed by a look at the STAT line:
  an interrupt that it makes due is requested at the next mode change, or not at all if
  its condition has passed.  `LiveWrites` allows such stores; the runs leave them out.
- LY becomes 0 during line 153 only if a `ppu_tick` falls into that line, which `OnTime`
  allows for.
- The halt loop looks at the timer only at the LCD's deadlines, so a halted processor may
  wake later than the interpreter's; `SleepBound` says how much later, and is proved.
- A block entered through E000..FDFF is listed on a page of the echo, which
  `mmu_write8` never marks: the checked guests do not run there.
- `PUSH`, `CALL`, `RST`, `POP` and `RET` are inlined when the first byte of the access is in
  work RAM.  With the second byte just behind it (SP at DFFF) the code reads or writes the
  first byte of OAM, which follows work RAM in the struct, where `mmu_read8` and
  `mmu_write8` use the echo.  With `Straddling` TRUE TLC finds this at once.
- Stores to OAM, to I/O registers and to IE mark no page.  Code does not run there in the
  checked guests; OAM DMA changes OAM only.
- With a number of banks that is no power of two MBC1's bank register is reduced modulo
  that number at each write, so the bank mapped depends on the order in which the two
  registers are written.  `rom_banks` is cast to 8 bits for the reduction, which is right
  because `ROM_SIZE_MAX` allows 16 banks only.
- The display task reads `frame_seq`, then composes its picture from `framebuffer` while
  the PPU goes on.  `core/memory.h` says that with two buffers readers gating on
  `frame_seq` see only fully composed frames; the copy at the next VBlank writes the same
  buffer, and the task does not look at `frame_seq` again.  A picture composed within one
  frame time is whole.
- EI executed while interrupts are enabled leaves `ime_pending` set, and an interrupt that
  `sm83_step` dispatches next clears IME and then promotes the pending enable, so that the
  handler starts with interrupts enabled.  The guests of `BlockExec` do not execute EI then
  (`Calm`).
- EI followed by DI leaves interrupts enabled in the interpreter, as the pending enable is
  promoted after DI.  The two engines agree on it, and so does `Sm83`.
- `is_io_poll_halt` accepts FFFF, the IE register, for high RAM.  In the model the poll is
  of high RAM.
- The run loop services at the top of every iteration, as it does by default;
  `GBJIT_DISPATCHER_SERVICE_SHORTCUT` skips calls that would find nothing to do, except
  that a store to STAT or LYC alone does not make it call `ppu_tick`.
