# Verification of the rv32cortex-m emulator

The repository is an emulator of microcontroller CPUs: it runs guests of four
architectures (RV32, Renesas G4MH, PowerPC e200, ARMv7-M) on STM32 boards and
on a host, by interpretation and by translating guest code to Thumb-2 or x86-64.
This directory holds TLA+ models of its parts, TLC configurations that check
them on small instances, and TLAPS proofs of the properties that matter most.

`PROJECT.json` is the index: components, runs, the source lines each definition
models, mutations of the models, hazards and theorems.

## The system and its parts

* **The run loop** (`emu_run.c`) runs the guest in slices until it halts, is
  reloaded, or reaches an instruction cap.
* **A round** (`emu_os.c`, `emu_cpu.c`) runs a slice of every core of a
  multicore guest. Each core but the first has a FreeRTOS task; a round releases
  them, runs core 0 itself and waits for them. With one FreeRTOS core they run
  in a fixed order, on the SMP host in parallel. The IP stack has a task too.
* **The SMP port** (`platform/host/freertos_smp/port.c`) runs FreeRTOS with
  several cores as host threads: one thread per task, of which one per core is
  let run; a signal makes another core yield.
* **A slice** of a core is `emu_jit_run` or an interpreter. `emu_jit_run` looks
  blocks up, translates what is hot, links blocks that follow one another,
  interprets the rest and takes interrupts between blocks.
* **The translation cache** (`emu_jit.c`) is a code buffer with a block table, a
  hash by pc and context, an index by page, and a table of what is known of pcs
  that are not translated. Full, it is compacted: the hottest quarter stays.
* **The front ends** (`frontend/*`) decode and execute; each has an interrupt
  controller, timers and memory protection or translation.
* **Devices, bus, network, debugger, boards** surround them.

## Modules

How the parts interact is how the modules do: `RunSlices` composes `EmuRun` with
`JitSlice`; `PpcAtomic` puts the PowerPC cores' threads on one memory under one lock;
`RvMachine` and `ArmMachine` put a core, its devices and the
dispatcher's steps together; `Exec` runs every front end's interpreter against
its translator, over the one IR of `EmuIr`.

| Module | Models | Source |
|---|---|---|
| `EmuRun` | the run loop, the cap, the NMI count | `emu_run.c`, `emu_main.c` |
| `JitSlice` | budget, batches and reports of a slice | `emu_jit.c` |
| `RunSlices` | the run loop over the JIT's slices | `emu_run.c`, `emu_cpu.c` |
| `OsRound` | the round, the cores' tasks, the IP stack's task, the kernel's ready list | `emu_os.c`, `emu_cpu.c` |
| `SmpPort` | switching, yielding and idling threads | `port.c` |
| `PortEvent`, `AbsEvent` | the port's event; `AbsEvent` is a one-shot event | `port.c` |
| `JitCache` (`MCJitCache`) | block table, buffer, hash, page index, links, compaction, fences, generations, and the dispatcher that uses them | `emu_jit.c`, `ir_lower.c` |
| `JitSeen` (`MCJitSeen`), `AbsSeen` | the table of declined, hot and thrashing pcs; `AbsSeen` is what it promises | `emu_jit.c` |
| `JitRetention` | which blocks a compaction keeps: counts, links, the passes that carry heat, the budget, the sweep | `emu_jit.c` |
| `Words` | the words of the machine, the C operators on them, the memory map, the parts of floating-point formats | `emu_bus.c`, the front ends |
| `EmuIr` | the IR, what its operations compute, the builder, the optimiser, the register allocator | `emu_ir.c`, `backend/common/interp.c` |
| `MCJitAlgorithms` | blocks built form by form, and an instance of `JitRetention` | |
| `RvHart` | PMP, triggers, Sv32, TLB and fast tables; the hart: traps, interrupts, loads and stores | `rv_pmp.c`, `rv_trig.c`, `rv_mmu.c`, `rv_dtlb.c`, `rv_hart.c` |
| `RvCsr` | atomics, cache-block operations, CSRs, fences, returns; CLINT and APLIC | `rv_csr.c`, `rv_hart.c`, `rv_clint.c`, `rv_aplic.c` |
| `RvExec` | decoding of compressed forms, the FPU, the interpreter, the translator | `rv_decode.c`, `rv_fpu.c`, `rv_interp.c`, `rv_ir.c` |
| `RvMachine` (`MCRvMachine`) | hart, devices, page tables and translated blocks as a guest drives them | `rv_interp.c`, `rv_ir.c` |
| `ArmCpu` | the core, its protection unit, exceptions, the NVIC and the system control space | `armv7m_exc.c`, `armv7m_nvic.c` |
| `ArmExec`, `ArmIr` | the FPU and the interpreter; the decoder of the translator and the translator | `armv7m_fpu.c`, `armv7m_interp.c`, `armv7m_decode.c`, `armv7m_ir.c` |
| `ArmMachine` (`MCArmMachine`) | the core under the dispatcher: looks, blocks, interpreted turns, lines, stores to code | `armv7m_ir.c`, `armv7m_frontend.c` |
| `G4Cpu`, `G4Exec` | MPU and core; FPU, interpreter and translator | `g4mh_mpu.c`, `g4mh_cpu.c`, `g4mh_fp.c`, `g4mh_fpu.c`, `g4mh_interp.c`, `g4mh_ir.c` |
| `G4mhIntc` (`MCG4mhIntc`) | interrupt controller, acceptance, priority ceiling, register banks | `g4mh_intc.c`, `g4mh_cpu.c`, `g4mh_interp.c` |
| `PpcCpu`, `PpcDevices` | TLB and core; INTC, timers, watchdog, special registers | `ppc_mmu.c`, `ppc_cpu.c`, `ppc_intc.c`, `ppc_stm.c`, `ppc_swt.c` |
| `PpcAtomic` (`MCCoreSync`) | lwarx, stwcx. and plain stores of cores on threads of their own, the start of a core, the recursive spinlock | `ppc_cpu.c`, `ppc_interp.c`, `emu_lock.h` |
| `PpcExec`, `PpcIr` | embedded floating point and interpreter; translator | `ppc_fpu.c`, `ppc_interp.c`, `ppc_ir.c` |
| `Exec` (`MCExec`) | programs of the four architectures, executed both ways | |
| `*Proofs` | the theorems about `EmuRun`, `RunSlices` and `JitRetention` (`RunProofs`), `PortEvent` and `PpcAtomic` (`CoreSyncProofs`), `JitCache`, `JitSeen`, `SmpPort`, `G4mhIntc`, `OsRound` (`OsRoundProofs`, and on it `OsOrderProofs`) | |

### State and actions

The modules of the run time are state machines over the code's own variables;
the comment at each declaration names the C variable. What has no counterpart in
the code (where a thread is, what the guest does, what a property remembers) is
described there too.

* `EmuRun`: `retired` is the total it returns through a pointer, `nmiAt` and
  `allIdle` are locals; an action is a round (`RunSlice`), what follows a round
  (`After`: polls, cap, end) or the start of an uploaded image (`Again`).
* `JitSlice`: `budget`, `done`, `batch` and `total` are `emu_jit_run`'s and
  `run_interp_to_jump`'s; an action is one turn of the loop by one of its ways.
  What the guest's code does is the choice between them.
* `OsRound`: `pc` of every task, `note` its notification count, `ready` and
  `ahead` the kernel's ready list, and the coordinator's locals (`run`, `next`,
  `done`, `idle`). An action is what a task does between two kernel calls. The
  kernel is external: its calls are modelled from how `emu_os.c` uses them.
* `SmpPort`, `PortEvent`: one action per atomic operation, lock or wait of a
  thread; a signal may arrive between any two.
* `PpcAtomic`: `g_resv_held`, the lock's owner and depth, every core's `reserve`,
  `resv_pa`, `resv_raw`, and where it is in an instruction. An action is one access of
  what cores share: a read or write of memory, of a flag, of the count, of the lock.
  The relaxed read of the count may come before the store it follows in the code
  (`HintEarly`). A sub-word access is an access of its word; an unaligned store is one
  store per byte, so a sequence of `Store`s.
* `JitRetention`: the table's counts and linked exits, and the cursors of the loops of
  `chain_heat` and `compact`. An action is an entry, a link, a translation, a
  retirement, or one turn of one of the loops.
* `JitCache`: the buffer as bodies at addresses, the tables with their links as
  the code has them. An action is a lookup that hits, a translation, a step
  of a compaction (one per block kept or dropped), an interpreted stretch with the
  fences it executes, or one exit of the body that runs.
* `JitSeen`: the table, its epoch, the refusal counters; an action per path of
  the dispatcher that reads or writes them.
* `G4mhIntc`: the channels' words, the summary `pend`, `irq_dirty`, ISPR, PSW and
  the saved frames; an action is a register write, a request, one part of the
  evaluation, an entry, a return. `ChanPut` changes the bits of the channels it is given
  and no others, as `chan_put` does. A write of an IMR stores those of its 32 channels
  whose mask changes; the instance has one channel under each IMR, the theorems any number.

The modules of the cores are operators on one record, the core, with the names of
the C structure's fields. An instruction, a trap, a register write maps a record to
a record. The machine modules make actions of them. A step's operators reach the
machine modules as parameters (`Interpreting`, `ArmLooking`, `Executed`, ...), to
which the MC modules give the models' operators by name.

Words have 8 bits there (4 for IR blocks), a multiple of four, so that a word still
has four bytes and two halves and every carry, sign bit and shift count has its
place. What a library of floating-point arithmetic computes is some value that
depends on its operands; the rules around it (which operands are special, what is
raised, what is left alone) are the code's.

## Runs

Every bound is a constant of a `.cfg` or a definition of an MC module. Deadlock is
checked in every run but `rv_machine`, whose guest may have nothing left to do.

| Run | Asks | Instance |
|---|---|---|
| `run_slices` | Does a run of JIT slices stop at the cap (`CapKept`), is what a slice reports and retires right (`SliceSound`), does it return (`SliceReturns`), and is the whole a run of `EmuRun` (`Spec`)? | slices of up to 7 instructions, cap 17, NMI at 10, counters that wrap at 32, blocks of 2, batches up to 4, runs of 3 to a jump, 2 interrupt levels |
| `os_round` | Does a round sum finished slices only (`BarrierHolds`), keep the order on one FreeRTOS core (`OrderKept`), end the run only when nothing can run (`IdleIsTrue`), run everyone (`NoneLeftOut`) and end (`RoundsEnd`)? | 3 cores, the IP stack's task, both kernels |
| `smp_port` | Is the thread that executes the one its core records (`WhoRuns`), and does a ready task come to run (`ReadyRuns`)? | 2 cores, their idle tasks, 2 workers |
| `core_sync` | Is a wake-up ever lost (`NoWakeupLost`), and is the event a one-shot event (`OneShot`, against `AbsEvent`)? Is the count of reservations ever below the truth, or the lock held by two (`HintNotBelow`), and does a stwcx. swap against what its lwarx gave (`StwcxAtomic`)? | 3 signallers; 2 PowerPC cores, a word of RAM and a word of a device, 2 values, a count at most 1 too high |
| `jit_cache` | Is what runs the translation of this pc, context and generation (`RunsTheRightCode`); are the tables (`TablesIntact`) and the links (`LinksSafe`) sound; can something stale be found (`NothingStaleFindable`)? | 4 pcs, 2 contexts, 3 pages, 3 blocks, a buffer of 8 |
| `jit_cache_vector` | The same first question where a vector is also a jump's target: violated, see *Where code and text disagree*. | as above |
| `jit_seen` | Is a pc refused for a reason that no longer holds (`NoStaleRefusal`), does the hashed table answer as one without collisions or epochs might (`AnswersAreReal`, against `AbsSeen`), is thrashing forgotten (`ThrashForgotten`)? | 2 pcs on 2 pages in one slot, 2 epochs and the wrap |
| `jit_algorithms` | Does an optimised block do what the block did (`OptimiserSound`), do two live values share a register (`RegistersNotShared`), does a compaction keep a hot loop's body (`LoopBodyKept`)? | blocks of up to 7 instructions from 11 vocabularies on 4-bit words; 3 looping blocks of which 2 fit, 2 passes of heat |
| `exec` | Does a translated program leave the CPU as the interpreter does (`TranslationAgrees`), does user code stay confined (`Confined`), can a refused access be restarted (`Restartable`)? | programs of 1 to 3 instructions, four architectures, 8-bit words |
| `rv_machine` | Is a deliverable interrupt unmarked (`IrqNotMissed`), do mip's lines follow the devices (`LinesTrue`), are fast tables (`TablesHonest`) and blocks (`BlocksStillRight`) what a fresh walk gives, does a reservation outlive a store (`ReservationSound`)? | 8 profiles of guest: delegation, enables, timer, external, paging, privileges, protection, reservation |
| `arm_machine` | Does an exception restore what it interrupted (`ReturnsWhole`), is a deliverable one looked for (`ArmNotMissed`), does a block outlive a store to its code (`SmcSound`)? | 5 kinds of guest: nested lines with lazy floating-point saving, an unprivileged thread on the process stack, requests and priorities written by the guest, the system timer, code in memory; exceptions nest to depth 3 |
| `g4mh_intc` | Is the summary of pending channels exact (`PendExact`), is a deliverable request unnoticed (`NothingMissed`) or dropped (`RequestKept`), is the ceiling that of the open handlers (`HandlersNest`)? | a private and a shared channel, 1 register bank, nesting to 2 |

The bounds let every interesting case happen, which the mutations in `PROJECT.json`
show: for each property of each run, one definition is changed as a bug would change
it, and the property fails within the same bounds. In particular

* the cap (17) is no multiple of the slice (7), and the NMI cuts a slice short;
* three cores are the fewest with two released ones, whose order can be wrong;
* two cores are what the part has; a second word that is a device's has a stwcx. that
  cannot swap, and a store that must not break; interrupts may leave the count one too
  high (`ResvDrift`) and another core's clearing finds it so;
* on three looping blocks built in any order heat may have to travel against the order
  of the table, which takes a second pass (the code allows eight, `MaxPasses`);
* two workers and two cores make a core change hands while its old thread is still
  on its way to sleep;
* the code buffer holds two blocks or three, never all; the largest never fits;
* one slot of the table of declined pcs makes every two keys collide, and two epochs
  bring an entry of the number that comes back after the wrap;
* programs of several instructions let a trap, a branch or a read of the flags come
  after what it depends on;
* at depth 3 a handler that was itself entered from a handler is preempted.

## Fairness

* `run_slices` (`WF` of a step inside a slice): the loop of `emu_jit_run` is a loop
  on a running thread. The guest need not do anything in particular.
* `os_round`: each task takes its next step when the kernel lets it run, and a slice
  ends, which is `SliceReturns`. The guest's pokes are not fair.
* `smp_port`: host threads run and signals arrive (`WF`). Nothing is asked of the
  kernel's spin locks beyond that; nobody needs to block or wake up spuriously.
* the event in `core_sync`: host threads run (`WF`); a mutex that is free again and
  again is obtained (`SF`), which Linux's futexes give with probability one, not by
  construction. Nobody needs to signal.
* `jit_seen`: the guest keeps coming back to its pcs (`SF`): `ThrashForgotten` is
  about pcs that are dispatched. A translation that has begun goes on (`WF`).

The other runs check safety and assume none.

## Proofs

The theorems hold for every value of the constants that the named assumptions of
the modules allow; TLC evaluates the assumptions in the runs. Each is proved with an
inductive invariant, one step per action.

**`RunProofs`** (`RunAssumption`: the counters are naturals, and the cap with one
round's overrun stays below the width of the counter; `SlicesAssumption`: blocks and
batches are not empty; `RetentionAssumption`: the sizes are naturals, there is a pass).
* `CapHonoured`: a run stops within one round's overrun of its cap. `Inv` adds to
  it that the NMI's local count is zero exactly when the pin was asserted.
* `RunOfSlices`: a run over the JIT's slices is a run of `EmuRun`, step by step; it
  follows that `SlicesHonourCap`. These are about one core whose longest block is at
  most one longer than the overrun the run loop allows for (`OneCore`). `JointInv`
  is `Inv`, what a slice keeps (`SliceInv`: the count inside a run to a jump stays
  below the budget, which is why no batch adds to the overshoot), and that the slice
  under way is the one the run loop asked for (`Joined`).
* `SlicesSound`: a slice passes its budget by less than a block, reports what is so,
  and sizes its batches by the stretch it has just interpreted.
* `LoopBodiesKept`: a compaction that keeps a block keeps what the block is linked to,
  unless the last pass it is allowed still moved heat. `Settling` is the inductive part:
  a pass that has moved nothing so far leaves nothing colder behind its cursor, so one
  that ends so has settled every edge. That a hotter block then survives when a colder
  one does is the walk down the bins (`TakenBin`), which needs no sum to be computed.

**`OsRoundProofs`, `OsOrderProofs`** (`RoundAssumption`: two cores or more).
* `TheBarrierHolds`: the sum of a round counts each answer once, reads this round's
  results, and leaves nobody at work. The property alone is not inductive: that the
  wait does not end early rests on counting. `Tally` says that the answers counted
  and those still in the notification value are the cores that have answered, and
  `Handed` that a task has work exactly while its core is released and has not.
* `IdleIsTheEnd`: a run that ends leaves no core that could run. `StillQuiet` is the
  reason: as long as nobody has lived in a round, what its scan found is still so,
  because only a guest that runs changes who could run.
* `TheOrderIsKept`: on one FreeRTOS core the two `configASSERT`s of
  `emu_os_system_step` cannot fail. `OrderInv` follows the ready list: the
  coordinator keeps the CPU until it blocks, the released stand in order, and the
  coordinator comes back behind them.

**`SmpPortProofs`** (`PortAssumption`). `ThreadsHaveCores`: the thread that executes
is the one its core records, for any number of cores and threads. `Held` says where a
core is while it changes hands: with the one thread that has it, or in the event of
the one it was given to. `Marks` follows an idle task between reading the number of its
core and marking that core as polling, which a handler may interrupt.

**`CoreSyncProofs`** (`EventAssumption`, `ResvAssumption`). `NoLostWakeup`, with who holds the mutex
where and that `sleeping` is true of a sleeper; `EventIsOneShot`: every step of the
event is a step of `AbsEvent`, or none. The fairness of `OneShot` stays with TLC.
* `HintIsSafe`: for any number of cores, the spinlock is held by the one core that is
  inside, as deep as it went, and the count is never below the reservations held. The
  count alone is not inductive: between its change and that of a flag the two differ,
  and an interrupt clears a flag that another core has already seen set. `HintCovers`
  counts `Owed`, the flags that are set, the one about to be set and the one about to
  be cleared, and says that the count covers those too; `LockRight` makes each of the
  last two at most one.
* `SwapsAreAtomic`: a stwcx. that swaps replaces what its lwarx loaded. `RawIsLoaded`
  says that the bytes compared are those the guest was given, from the one read on,
  which is why `ppc_larx_smp` reads once. Nothing in the argument asks that a store
  sees the reservation: the swap is what makes the update safe.

**`JitCacheProofs`** (the assumptions of `JitCache`, and `VectorsApart`: no static exit
of a block leads to a vector). `RunsRight`, `TablesSound`, `NothingStale` and
`LinksAndMoves`. `IndInv` has the tables (`TableInv`) while they are in use, and while
a compaction works on them (`CompactInv`) the part moved and the part still to move,
which never overlap because the cursor does not overtake the next body to move.
`RunsRight` is false without `VectorsApart`, which is what `jit_cache_vector` shows; so is
the part of `LinksSafe` that gives a link and the block it leads to the same context. All
four theorems assume it, because they share `IndInv`.

**`JitSeenProofs`** (the assumptions of `JitSeen`). `SeenInvariant`: no entry is of a later epoch
than the table's. From it `SeenRefinesAbs`, the refinement of `AbsSeen`: without the
order of epochs, a wrap could revive an old answer. `RefusalsAreFresh`: a pc whose
first instruction lies on one page is declined only while it would be refused, or
before the fence that follows a change of its page.

**`G4mhIntcProofs`** (`IntcAssumption`). `SummaryExact`, `NeverMissed`, `NoRequestDropped` and
`NestingHolds`, for any channels, priorities, banks and depth. The summary is written
one channel at a time, by every handler that stores one: `SummaryExact` says that these
writes together never let it drift from what the channels say. `Marked` carries
`NothingMissed` through the parts of an evaluation, in which a request may arrive
behind the search; `Nest` relates every open frame, its saved PSW and ISPR, because
what a return restores was saved when something else was open.

### What is only model-checked, and why

* Liveness (`SliceReturns`, `NoneLeftOut`, `RoundsEnd`, `ReadyRuns`, `ThrashForgotten`,
  the fairness of `OneShot`): fairness and `ENABLED` are outside what the prover does.
* `rv_machine`, `arm_machine`, `exec`: the properties are about operators on words,
  tables of bits and recursive walks over programs. The modules use `Bitwise` and
  recursion, where the prover has no arithmetic.
* `OptimiserSound`, `RegistersNotShared`: what a pass over a list of instructions
  computes, for every list, needs induction over the list with an operator as a
  parameter.

## Where code and text disagree

`jit_cache_vector` is a run of its own (see `findings` in `PROJECT.json`). A comment in
`emu_jit.c:1694-1699` has the previous block "Cleared whenever the guest did something
other than fall out of a block"; it is still remembered after an interrupt is taken.
A jump to an address that is also a vector can then be linked to the block that was
built for the handler's context.

The following statements are in the modules too, with no run of their own. TLC
refutes each with a short behaviour when it is added to the run of its module:

| Statement | Text | What the code does |
|---|---|---|
| `YieldEndsSlice` (`JitSlice`) | `emu_types.h`, at `EMU_RUN_YIELD`: "a scheduler should move on rather than let the budget drain" | `emu_jit_run` ends a slice for a halt or a wait only (`emu_jit.c:1755`); after a yield it goes on until the budget is used |
| `NoSleepOnRequest` (`SmpPort`) | `port.c`, above `s_idle_polling`: "a request is either seen by the loop or signalled" | `vPortIdleWait` keeps the number of its core in a local; an idle task that is switched out while it polls leaves the flag of that core set, and another that sleeps there is not signalled. Its sleep lasts a millisecond, so `ReadyRuns` holds |
| `ParkedForGood` (`G4mhIntc`) | `g4mh_frontend.c`, at `wakeable`: "Parked in HALT with every channel masked means nothing can ever wake this core" | the test asks the EI channels only; a pending FE interrupt is none of them |
| `MarkedWhenDeliverable` (`RvMachine`) | `rv_hart.h`, at `irq_dirty`: "Set whenever something may have made an interrupt deliverable" | a write of `mip` as a CSR does not set it, and taking a delegated interrupt may leave another deliverable without it; `IrqNotMissed` is what holds |
| `AnyStoreBreaks` (`RvMachine`) | `rv_hart.c`, in `rv_hart_store`: "Any store to the reserved word breaks the reservation" | the word of the store's first byte is compared: a misaligned store that only ends in the reserved word does not break it; `ReservationSound` is what holds |

## What the properties leave aside

* `NoStaleRefusal` is about an instruction on one page. A refusal is filed under the
  page of its first byte, so a fence of the second page does not reopen it.
* `IrqNotMissed` and `ReservationSound` leave aside the cases the table above names.
* `Restartable` is about the refusals a handler can mend and return from. The
  instructions the instances use are listed in `MCExec`; PowerPC's load-multiple over
  its own base register is not restartable, and is not among them.
* The host of `exec` has no fused multiply-add, as a host may not (`emu_ir_can_lower`):
  those instructions go through the helper. On a host that has one, `rv_ir.c:1414-1475`
  lowers every RV32 fused multiply-add as a single, where `rv_fpu.c:838-888` reads
  the format: `LowerFp` in `RvExec` has that form, and no run takes it.
* In `G4mhIntc` the other cores act through the shared controller only, each access
  under its lock; that two cores find the same shared channel at once is not modelled.
  Nor is a host interrupt handler inside an access. `g4mh_intc.h`, at
  `g4mh_intc_raise`, calls that safe because it "sets one pending bit and a flag the run
  loop polls"; where the lock is empty (`emu_lock.h`, without `EMU_SMP`) `chan_put` is
  still a read, a change and a write of the channel and of the summary, and a handler
  that comes between them has its request overwritten.
* `Confined` is about an instruction that is interpreted in user mode: on PowerPC the
  moves of every special register, the returns and the TLB instructions; on RISC-V writes
  of every CSR the model has, `mret`, `sret`, waits and fences; on the other two what
  `MCExec` lists. A write of a CSR that would read it too is not among them. The values of
  MAS registers and SPEFSCR are their fields, which do not fit 8 bits: a program that
  moves one starts with the fields in its register.
* `StwcxAtomic` is about a stwcx. to the word of RAM its lwarx read. To another word, or
  to a device, `ppc_stcx_smp` has nothing to compare and the flag decides. A word that
  is changed and changed back goes unseen, as the comment there says.
* `LoopBodyKept` leaves aside a compaction whose last pass still moved heat.
* In `RunSlices` and `EmuRun` a guest that retires as many instructions as the counter
  can hold (2^64) is not followed further.

## What is not modelled

`PROJECT.json` lists every part with the reason. In short:

* Code generation (x86-64, Thumb-2): encodings are data. Only the exit of a block that
  can be chained is modelled, in `JitCache`.
* Vector instructions, decoders of RV32's 32-bit forms, PowerPC and G4MH: the models
  start from decoded fields. The expansion of compressed RV32 forms is modelled, and
  so is the ARMv7-M decoder, which only the translator uses: the interpreter reads the
  encoding itself, so the two could disagree.
* The PowerPC interrupt controller, system timer and watchdog are written out in
  `PpcDevices` and are part of a core's state; no run drives them yet.
* Timers, barrier and inter-processor interrupts of the G4MH: its interrupt controller
  sees a request at any time.
* Devices, network, debugger, images, boards: I/O around the guest. Their interrupts
  are inputs that the machine models move at any time.
* The recursive spin lock is modelled where `PpcAtomic` uses it; for its other users,
  what it protects is one step.
