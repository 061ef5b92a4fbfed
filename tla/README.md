# A TLA+ verification of the Najm kernel

Najm OS is a single-core x86_64 kernel in Rust (`kernel/src`, about 14,000
lines) with a few user programs and a host tool that builds the boot image. This
directory holds TLA+ models of the parts of the kernel where several actors meet
(tasks and the timer, processes and the kernel's tables, address spaces and
stacks that share physical memory, windows and devices), of everything one boot
does with the image it was given (archive, packages, both loaders, clock, checks
on user memory), the TLC runs that check them on small instances, and TLAPS proofs, for
every instance, of every safety invariant those runs check. `PROJECT.json` maps
every definition to the lines it models.

## 1. The system

### Parts, state, operations

| Part | Source | State | Operations |
| --- | --- | --- | --- |
| Scheduling policy | `sched/task.rs`, `sched/class.rs` | three class queues, `current`, `last_promotion_tick`; per task class, `ready_since`, `ticks_used`, `promoted` | `spawn*`, timer tick (`preempt`), `yield_now`, `exit_task`, `set_current_class`, `run_until_idle` |
| Context switch, Ring 3 | `sched/task.rs`, `arch/x86_64/usermode.rs`, `interrupts.rs`, `gdt.rs` | saved stack pointers, `zombie`, `boot_stack_pointer`, `supervisor_rsp`; CPU stack, IF, CR3, TSS RSP0 | `plan_switch`, `perform_switch`, `context_switch`, `run_program`, `end_program`, `reap_zombie` |
| Physical memory | `mm/memory.rs`, `frame_pool.rs`, `address_space.rs`, `kstack.rs`, `allocator.rs` | bump cursor, free frames, owned frames and tables of each address space, stack slots | allocate, release, `map_page`, `protect_page`, `zero_at`, `write_at`, drop, `kstack::allocate`/`release` |
| Loaders | `loader.rs`, `mirage.rs`, `mirage/` | none of their own | ELF and PE images into an address space |
| Processes, descriptors | `process.rs` | process table, state, Realm, open files | `spawn`, `process_entry`, `open_file`, `get_file`, `set_file_position`, `close_file` |
| Ports | `ipc.rs` | port table, queues, next handle | `create`, `connect`, `send`, `recv`, `close`, `close_all_for` |
| System calls | `syscall.rs` | none of their own | the `int 0x80` dispatcher and its handlers |
| Realms, capabilities | `realm.rs`, `security/capability.rs` | constant profiles | `allows`, typed tokens |
| File system | `fs.rs`, `abi/src/archive.rs` | one mounted archive | `mount`, `lookup`, `read`, path rules |
| Compositor | `graphics/compositor.rs` | surfaces, focus, layout mode | `create_surface`, `commit_surface_from_user`, `surface_geometry`, `remove_surfaces_for`, `relayout`, `toggle_layout`, `present` |
| Input | `drivers/input.rs` | event ring, mouse packet, pointer, buttons | `on_scancode`, `on_mouse_byte`, `poll`, `take_layout_toggle` |
| Store | `store.rs` | none | `verify`, `effective_profile`, `payload`, `scan` |
| Wall clock | `drivers/rtc.rs` | the CMOS chip's registers | `read_raw`, `now`, `init` |
| Image builder | `runner/build.rs` | none | `build_archive`, `build_package`, the file list of `main` |
| User memory checks | `mm/memory.rs` | page tables | `range_is_user`, `copy_from_user`, `copy_to_user` |
| Boot | `main.rs`, `selftest.rs` | counts of passed and failed checks | the order in which all of this is set up and tested, `report`, the exit code |
| Other drivers, drawing, CPU set-up, hashing | `drivers/`, `graphics/`, `arch/`, `security/sha256.rs` | devices | port I/O, pixels |

### How they interact

There is one CPU. Interleaving comes from interrupts: wherever IF is set, a
timer tick may run `preempt` and switch to another task. System calls enter
through an interrupt gate and run to their end with IF clear, so one call is
atomic against other processes; `process_entry`, `run_until_idle` and the boot
program run with IF set and are split into steps. A task is switched away from
in `preempt`, `yield_inner` or `exit_task`; all three hand their work to
`plan_switch` (who runs next) and `perform_switch` (registers). A process is a
task with an address space; its end passes through `end_program`,
`process_entry` (process table, compositor, ports, address space) and
`exit_task` (kernel stack, through the zombie).

What runs is decided before the kernel starts: `runner/build.rs` packs programs,
texts and packages into one archive, the bootloader maps it, `kernel_main` mounts
it, loads programs by path and runs them, and `scripts/boot-test.sh` reads the
exit code and the log. Every byte of the archive is checked by the part that uses
it: the table by `mount`, programs by the loaders, packages by `verify`. Until
the scheduler is handed the CPU, `kernel_main` itself is interrupted by the timer
and, from `init_mouse` on, by keyboard and mouse, whose handlers take the spin
locks of `drivers/input.rs`.

### What is hard here

* a tick between two statements that belong together (a task made current and
  the stack switched; RSP0 written and Ring 3 entered; an address space dropped
  and its task ended);
* a stack that is given back by the code that still runs on it;
* starvation, promotion and quanta interacting over many ticks;
* frames that go from owner to owner, and operations that fail halfway;
* handles and descriptors that outlive what they named;
* locks taken with IF set that a system call or an interrupt handler takes with
  IF clear;
* a chip that moves on between two reads of its registers;
* offsets, lengths and addresses that come from a file, at the ends of the file
  and of the address space.

`PROJECT.json` lists these at their lines under `hazards`.

### What makes each part correct

* Policy: no task is lost, duplicated or revived; the front of a queue is its
  oldest task; urgent tasks run promptly; every task runs eventually; what rescues
  cost the realtime class is bounded.
* Switch: every suspended context is kept in one place; no released stack is
  used; Ring 3 runs with its own RSP0 and CR3; interrupts never stay masked;
  everything is reclaimed.
* Memory: one owner per frame; what a space maps it owns; no foreign bytes; the
  kernel is whole under every root; no frame or stack slot is lost.
* Services: programs and kernel agree on descriptors and ports; handles keep
  their meaning; accepted messages are taken once and in order, each as far as the
  buffer has room; rights bind.
* Desktop: tiles never overlap or reach the trust strip; a buffer always fits
  its surface; the trust bar names the owner of the window on top; windows live
  as long as their process; no input event is lost uncounted, reordered or
  repeated; button edges add up to the buttons' state.
* Boot: the time returned was shown; the namespace is what was packed and never
  reaches outside the archive; no package gets more than Home; an address space
  is what its file declares; the kernel touches exactly the user memory the
  program itself could touch; a boot ends, and ends with the right verdict.

## 2. The modules

| Module | Models | Used by |
| --- | --- | --- |
| `TaskLifecycle` | abstract: what a scheduler promises about tasks | refined by `Sched` |
| `Sched` | the policy of `sched/task.rs` | `MCSched`, `MCSchedBusy`, proofs |
| `SchedShare` | `Sched` with a history of whom the latest ticks went to | `MCSchedShare`, proofs |
| `Switch` | context switching, Ring 3 entry and exit, process teardown | `MCSwitch` |
| `FrameMem` | frames, address spaces, loaders' effect on memory, kernel stacks | `MCFrameMem` |
| `Services` | process table, descriptors, ports, system calls, rights | `MCServices` |
| `Input` | keyboard, mouse packets, the event ring | extended by `Desktop` |
| `Desktop` | compositor, its system calls, removal of a dead process's windows; composed with `Input` | `MCDesktop` |
| `Clock` | the wall clock driver beside its chip | `Boot` |
| `Archive` | the image builder's archive and the kernel's namespace over it | `Boot` |
| `Store` | packages: building, verification, Realm and rights | `Boot` |
| `Layout` | the address space scaled to 64 pages, mapping and permissions | `Loader`, `Mirage`, `UserMem` |
| `Loader` | the ELF loader | `Boot` |
| `Mirage` | the PE loader and its thunks | `Boot` |
| `UserMem` | the range check on user pointers and the copies | `Boot` |
| `Boot` | `kernel_main` from the memory map to the exit code, composed of the seven above | `MCBoot` |
| `Sched_proofs`, `SchedWaits_proofs` | TLAPS proofs about `Sched` and `SchedShare`: ownership, order, quanta and refinement; the bounds on waits and on the realtime class's losses | |
| `Switch_proofs`, `FrameMem_proofs`, `Services_proofs` | TLAPS proofs about these modules | |
| `Desktop_proofs` | TLAPS proofs about the event ring, and about the desktop with it | |
| `Boot_proofs`, `BootEnds_proofs` | TLAPS proofs about `Boot` and the seven modules it is composed of; how a boot ends | |

Definitions named as faulty variants or mutants are not part of any
specification: each is a plausible mistake in one definition, used to show that
a property can fail.

**Sched.** One action per pass through a function that runs with interrupts
off. Time is relative: `waited[t]` is `now - ready_since`, `sincePromotion` is
`now - last_promotion_tick`; both saturate where no comparison of the code can
tell values apart, so no run bounds the number of ticks. `spawn` is two actions
because it reads the clock before it takes the lock. A tick before
`run_until_idle` goes through `plan_switch` with nothing current: it puts the
picked task back, but a promotion may have been booked. `Hogs` are tasks that
never yield or exit. Dispatch statistics are left out.

**SchedShare.** `class.rs` promises the realtime class a share of the ticks, so
`recent` remembers, for the last `PROMOTION_INTERVAL` ticks, whether each handed
the CPU to a lower class past a ready realtime task, and whether `pick_next`
booked that as a promotion. Every action of `Sched` is conjoined with its update;
a step between ticks starts the window anew.

**Switch.** A context is a stack; the variables are the registers a switch must
get right and the places a context can be kept. Steps are what a tick cannot
split. The policy is left open (any ready task may be picked). The
model keeps `run_until_idle`'s window between its pick and its `cli`, the
`Switch` value between `plan_switch` and `perform_switch`, the steps of
`run_program`, and the tail of `process_entry`.

**FrameMem.** One action per `with_memory` or `release` section. An image is a
plan of regions; loading it maps page by page, fills each region, and can be
rejected between regions. `HeapSizes` varies how much memory is left, so loads
succeed, fail at a leaf or fail at a table. A frame's contents are the set of
spaces whose bytes are still in it. The boot order is kept: heap, guard page
check, loads. The higher half of a root is the set of kernel regions it has a
top-level entry for. `init_heap` and the first stack ever mapped, that of the guard
page check, add one to the kernel's own root (`kernelRoot`); `New` copies what is
there at that moment (`kernelHalf`), and a stack mapped later is shared only below an
entry that was copied. Processes may run and be torn down between two steps of a
load. The program never does that: `kernel_main` loads every image before
`run_until_idle`. The properties are checked for more orders than it can follow.

**Services.** One action per system call; `process_entry` is split at every
lock. Next to the kernel's tables the model keeps what programs
themselves remember (`opened`, `mine`, `known`), built only from what their
calls returned, and a log of messages; the properties compare the two. A message
has an identity and a length, a receive a buffer: it takes the message off the
queue and then copies as much as there is room for, so a short buffer gets a part
and an empty one nothing, as a success; or the copy fails. Either way the rest is
gone. No text of the repository promises otherwise; `AcceptedInOrder` states it.

**Input, Desktop.** One action per interrupt and per system call; both run with
interrupts off. A poll may fail at its copy out, after it drained the ring
(`lost` counts those events). `process_entry` locks the compositor with
interrupts on, so `RemoveLocks` and `RemoveSurfaces` are two actions, and in
between a program's surface call spins (`Spins`). Geometry is in pixels with the
source's constants: `Tile`, `Rest` and `Left` are the dwindle loop of
`relayout`, `Overflows` its subtraction of the gap from a share smaller than it,
which panics. A buffer is its length and the size its last frame was drawn for;
`knows` is the size a program last learnt by `surface_info`, which may be stale
when it commits. A mouse byte carries both readings (as a first byte and as a
movement), so lost bytes shift packets as they do in the driver. The hotkey's
flag is set by the interrupt and consumed by `present`, which may relayout in
the middle of a commit. `shown` is the last frame: whose surfaces it has and
whom its bar names.

**Clock.** One action per register read, and the chip's update as a begin and an
end that may fall between any two of them; a register read during an update
shows either value. The driver's record holds where it is, what it read and, as
history, every time the chip showed.

**Archive, Store.** Pure operators over an archive of cells (a header, entries, one
cell per file) and over packages of lines; `Mount` is the one action. A digest
stands for what it was computed over.

**Layout, Loader, Mirage, UserMem.** Addresses are scaled to 8 bits with pages of
four units, keeping every border of the layout: a user half whose last page is
not the user's, a hole that is not canonical, a kernel half. An image is the
fields its parser reads. `load_image` and `load_pe` return a space (pages and
permissions), a refusal or a panic; Mirage also keeps the memory unit by unit,
as where each unit came from and how often it was moved. Its parser adds to 32-bit
addresses unchecked in two places; past `MaxRva` the model panics there, as a
kernel does that checks its arithmetic. The Makefile's default targets and
`boot-test.sh` without `--release` build such a kernel; a release kernel wraps
round instead, which is not modelled. `UserMem` walks four
levels of tables derived from such a space.

**Boot.** One action per stage of `kernel_main`; `check` is `selftest::check`.
`TakeRamdisk` picks what the builder packed (with and without the optional
programs), whole, cut at any cell, or with one cell changed as `Damage` allows,
and records in `image` what it was (a history variable). The locks of
`drivers/input.rs` are taken and dropped in two actions; an input handler may
start in between and takes BOUNDS, POINTER and QUEUE in turn. A handler that
wants a lock that is held never returns (`Interlocked`). A program as packed ends
as its self-test expects; a damaged one that still loads may end in any way.

## 3. The runs

| Run | Bounds | Shows |
| --- | --- | --- |
| `sched_policy` | 3 tasks of any class that may change it, ticks during boot; quanta 3/2/1, limit 4, interval 2 | queue ownership and order, refinement of `TaskLifecycle`, every ready task is dispatched |
| `sched_waits` | 2 realtime or normal and 2 lower tasks of fixed class; limit 16, interval 4, so a rescue gap of 5 ticks and a bound of 31 | prompt preemption, quantum; every wait is bounded when rescues keep up; how many ticks of a window of 4 the realtime class can lose |
| `sched_starved` (violation) | the kernel's constants, 2 realtime, 1 normal, 11 background hogs | the normal task never runs |
| `switch` | 2 processes and a kernel task | contexts, stacks, Ring 3 state, IF, reclamation |
| `switch_stale_root` (violation) | 2 processes | see Findings |
| `frame_mem` | 13 frames, 2 loads, 3 images, 3 heap sizes, 2 stack slots | ownership, contents, kernel half, stacks, losses |
| `frame_leak` (violation) | as `frame_mem` | see Findings |
| `services` | 3 processes (two Home, one Gaming), 2 names, queue depth 2, 2 ports, messages of up to 2 bytes | descriptors, ports, handles, order, rights |
| `desktop` | 2 applications and a game, up to 3 surfaces, 2 screens, ring of 2, 4 events, 5 kinds of mouse byte | geometry, buffers, focus and bar, ownership, event order, button edges |
| `desktop_deadlock` (violation) | as `desktop` | see Findings |
| `boot` | 5 start times, 4 clock modes, 2 updates; 2 file lists; every cut and about 200 damaged cells; 3 PCI buses; with and without NX, mouse and screen; 1 input interrupt; 12 pointers and 7 lengths per address space | the clock, the namespace, verdicts on packages, loaded images, user copies, how a boot ends, that it ends |
| `package_length` (violation) | as `boot` | see Findings |

Why the bounds are enough. Scheduler quanta and limits are scaled down keeping
their order (background > normal > realtime >= 1, limit > quanta, interval <
limit), so each comparison of the code goes both ways; `sched_starved` uses
the kernel's own. In `sched_waits` the bound of `RealtimeShare` is reached: starvation
lasts long enough for the preemptions that are not booked and a booked rescue to
fall into one window. Three tasks give a queue of two
behind a running one. In `Switch`, three tasks let one exit, one be suspended in
any place and one run. In `FrameMem`, the small heap lets both loads succeed at
once, the large one fails the second at each kind of frame, and a load may reuse
frames of a dead one. `Services` runs under several budgets, each generous in
one respect: one port with enough messages to fill, drain and fill its queue;
messages shorter and longer than the buffers, empty ones and empty buffers among
them; three handles so that a name is taken again after its owner died; three
descriptors so that a table has a hole; one with ports and files together.
`Desktop` does the same: four events wrap and overflow a ring of two; three
surfaces of two applications exercise every split and every order of removal; a
game next to an application mixes a full surface with windows; one event and one
surface let a key release fall between a commit and a poll. One screen has
ordinary size, with a window size whose area equals half the desktop's; the
other is so small that the second split overflows. `Boot`: the start times lie
just before the roll-over of a minute, an hour, a month, a leap day, a year and
the last year two digits carry, and two updates can spoil both of two readings;
`ReadRetries` is the source's and allows more updates than that (an update
spoils at most two comparisons). The damage to a cell changes one field to
values on both sides of each comparison its parser makes, the ends of the file,
of a page, of user space, of the lower half and of 32-bit addresses
included. Pointers lie at the borders of the pages that are mapped, of the stack and of both halves. The seven
modules are explored in one composition because each needs the states the
earlier ones leave: a loader sees what `read_all` returns from an archive that
mounted, the copies are checked in the spaces a loader made. Deadlock is checked
except in `FrameMem`, `Services` and `Desktop`, where the system may stop: all
programs have ended, or a bound is reached.

Fairness. `FairSpec` of `Sched` assumes weak fairness of `Tick` and `BootStep`:
the PIT keeps firing (its handler acknowledges every tick and IF never stays
clear, which `MaskedOnlyInSwitch` checks), and the boot program goes on by
itself. Nothing is assumed of tasks: they may loop for ever. `BusySpec` of
`MCSchedBusy` has the same fairness; its load is only ticks. `Boot` assumes weak
fairness of `kernel_main`, of the driver's reads, of the handler on top, and of
the end of an update once it began: one CPU runs without pause, and the chip's
update takes a bounded time. The first of these is written as `[]<>~Runnable \/
[]<><<KernelMain>>_vars`, with the enabling condition spelled out, which TLC
evaluates faster than `ENABLED`; that `Runnable` is right is part of the deadlock
check. Nothing is assumed of input. `BootEnds` therefore says that the boot ends
unless a handler interlocks with `kernel_main` (Findings, 6).

## 4. Findings

Each is a run that TLC must refute, stating a sentence of the repository.

1. `sched_starved`: rescues go to the lowest starved class first, one per
   interval. Enough background hogs are starved again at each rescue; a normal
   task behind realtime hogs never runs. `class.rs` says that a starved task
   still runs.
2. `switch_stale_root`: a process preempted between the drop of its address
   space and `exit_task` gets its freed root reloaded into CR3. Its kernel half
   is intact until the frame is reused.
3. `frame_leak`: a failing `map_page` loses the leaf frame it took. The run
   `frame_mem` shows that nothing else is ever lost.
4. `desktop_deadlock`: `remove_surfaces_for` holds the compositor's lock with
   interrupts on. A tick there lets another program's surface call spin on it
   with interrupts off, for ever. `kstack.rs` and `allocator.rs` describe this
   very deadlock and mask interrupts against it.
5. `package_length`: the digest covers a package's body, not the header's
   manifest length. A package with another length passes the integrity check
   with its capabilities cut off or with payload text read as manifest lines.
   `store.rs` says that a package with one flipped byte is rejected. Nothing
   rises above Home by it (`VerdictsFaithful`).

Shown by a passing run, where a property says exactly how far the code goes:

6. `boot`, `BootEnds`: `init_mouse` comes before `set_bounds`, `present` and the
   statistics of the epilogue, all of which take locks of `input.rs` with
   interrupts on. An input interrupt there spins for ever on the lock its own CPU
   holds. The comment on `push` says that `set_bounds` runs before any input.
7. `boot`, `BootEndsAsItShould`: an ELF segment whose end is not canonical
   panics in `VirtAddr::new` though the comment on `LoadError` says that a
   malformed file is never a kernel panic; a PE import whose hint is the file's
   last byte panics at a slice though `pe.rs` says every offset is checked; a PE
   import slot in the last eight bytes of the 32-bit range, and a relocation whose
   page and offset sum to more than 32 bits, overflow and panic in a debug kernel; an
   entry point that is not canonical halts the machine at `iretq`. An image built
   without `USERLAND_PATH` panics for want of `/bin/hello`, where the builder's
   warning says that the kernel falls back to `/bin/bss-test`.
8. `boot`, `ImagesSound`: the pages of a Windows image that no section covers
   (its headers, gaps) stay writable and executable; `mirage.rs` says that W^X is
   enforced.
9. `switch`, `CurrentIsRunning`: `run_until_idle` re-enables interrupts between
   its pick and its `cli`; a tick there saves the boot stack under a task's name,
   in a window that a comment calls not interruptible. `ContextsKeptOnce` shows
   that each context is still resumed exactly once.
10. `sched_waits`, `RealtimeShare`: `class.rs:158-161` promises that the realtime
   class loses at most one tick in every five. With two realtime tasks that holds.
   With one it does not: `should_preempt` (`task.rs:612`) asks whether anybody
   starves, not whether a rescue is allowed; `pick_next` then finds no realtime
   task queued and books no promotion, and the next tick gives the CPU back. While
   anybody starves the task loses every other tick and the booked rescue besides,
   with the kernel's constants and four background hogs three ticks of five.

Met while reading and not given a run: `sys_write` does
not ask for `SERIAL_WRITE`, which the Vault Realm lacks (no process runs in the
Vault Realm in this kernel); `address_space.rs` mentions a function
`assert_kernel_mappings_are_complete` that does not exist. In the desktop:
enough windows under tiling make `relayout` subtract the gap from less than it, a
panic that `surface_create` reaches (the model's `panicked`); `relayout`'s
comment says that a commit after a resize is refused, but one for another shape
of equal area is accepted (`BuffersFit` says what does hold);
`remove_surfaces_for` does not present, so a dead process's window stays on
the screen until the next commit; the release of the hotkey is delivered though
its press is consumed; one packet that presses one button and releases another
is a single press event (`EdgesComplete` says that the code still tells
the two apart). At boot: a Windows program that does not load is printed as a
failure and not counted as one, so the summary says that all passed while
`boot-test.sh` fails on the word (the model's `loud`); `init_mouse` reads the
controller's configuration byte with the keyboard's interrupt on, whose handler
may read it first; a thunk overwrites RDI and RSI, which Windows code expects to
be kept.

## 5. The proofs

Every theorem holds for every value of the constants that the named `ASSUME` of
its module allows; hypotheses beyond that are part of the theorem and listed
here. Each proof has the same shape: an invariant `IInv` that `Init` establishes
and every step keeps, with one lemma per action, and one theorem per property it
implies. Section 3's bounds play no part.

**Scheduler** (`SchedAssumption`: positive quanta and limits; caps beyond every
comparison).

* `TypeCorrect`, `Ownership`, `FrontsAreOldest`: `TypeOK`, `OneOwner` and
  `OldestFirst` always hold.
* `Promptness`, `QuantumEnds`: if no task changes its class while it runs
  (`ReclassTo = {}`), `UrgentFirst` and `QuantumBindsUnderContention` always
  hold. With class changes they do not: a task that lowers its own class runs to
  the next tick.
* `Refinement`: `Spec => ImplementsLifecycle`.

`IInv` adds four facts to the properties. `OneOwner` alone is not
inductive: spawning a task requires that it is not queued yet (`Born`), and
`run_until_idle` that nothing is current and something is ready (`BootFirst`).
`OldestFirst` needs that a stamp read before the lock is still the youngest when
it is used (`StampYoungest`), and that a task not yet stamped has not aged
(`UnbornNotWaiting`). Every action is reduced to three moves of a task (take the
head of a queue, put at the back of a queue it is not in, put the head back),
proved once each for ownership, order and membership.

* `WaitsBounded`: if no task changes its class and no tick falls into the boot, for
  any quanta, `EveryWaitBounded` always holds: where a rescue of every other task fits
  into the starvation limit, no task waits longer than the limit and one rescue gap
  for each of the others.

A gap is the longest time between two rescues while somebody starves. It is not
`PROMOTION_INTERVAL`: the scheduler looks only when it picks, so a gap may run
on for the quantum of the task picked last (`RescueGap`). `OnTime` says of each
starving task that its time over the limit, and what is left of the present gap,
fit into a gap for each task that cannot be rescued before it any more; a pick
either serves a task ahead of it, or the slack of the gap shrinks with every
tick (`PickServesOrWaits`). `sched_starved` shows what happens where the
condition fails. A tick during the boot ages tasks that cannot run yet, hence the
condition on it.

* `RealtimeKeepsItsShare`: `ShareSpec => []RealtimeShare`, with no condition: any
  tasks, classes and changes of class, quanta, limits, and ticks during the boot.

`ShareInv` says of the ticks remembered in `recent` that a booked one is at least
as long ago as the last promotion, so there is at most one; that no two which
were not booked are neighbours, because after such a tick the realtime task is
queued and outranks whoever has the CPU; and that there are such ticks only while
a single realtime task is ready, since `pick_next` passes over a queued one only
for a rescue it books (`PickPasses`). What remains is counting (`WindowCount`).

**Context switch** (`SwitchAssumption`). `KeptOnce`, `Stacks`, `Ring3`,
`Unmasked`, `CurrentRuns`, `Reclaimed`: all six invariants of `Switch`. `IInv`
says of each task, by its program counter, in which one place its context is
(`EachTaskOnce`), what `run_program` has published by then (`Programs`), what the
boot program and its window hold (`BootPhases`), that the scheduler and the stack
the CPU is on agree except in a switch (`Agreement`), and that RSP0 and CR3 are
those of the task that acts (`Registers`). None of the six is inductive: that no
released stack is used depends on where every suspended context will resume.

**Physical memory** (`FrameMemAssumption`). `OneOwner`, `MappedOwnedSafe`,
`BytesSafe`, `KernelHalfSafe`, `StacksSafe`, `LossBound`: all six of `FrameMem`.
`IInv` says that pool, heap, spaces, and stack slots are pairwise apart below
the bump cursor (`Apart`), that unheld frames are at most the failed maps
(`LossCounted`), and of each space by its state which pages of its plan are
mapped and filled (`SpaceOK`): between the mapping of a page and its zeroing a
frame does hold foreign bytes, and only the loader's progress tells that no
program can see them. `KernelInv` says that the kernel's root gets its last entry
before the first space is made, though most stack slots are mapped after it.

**Services** (`ServicesAssumption`). `FilesSafe`, `PortsSafe`, `HandlesSafe`,
`DeliverySafe`, `RightsSafe`, `TypeSafe`: all six of `Services`. `IInv` has a
half for descriptors (`FilesInv`) and one for ports (`PortsInv`): each port's
queue is the tail of its log of accepted messages, each handle below the next
one has exactly one entry in that log, and what a program knows of a handle is
what the log says. The log records of each receive its buffer and what came back,
so `DeliverySafe` says which bytes a program got and which are gone.

**Input and desktop** (`InputAssumption`, `DesktopAssumption`).

* `EventsStayInOrder`, `EdgesAreComplete`: for a ring of any size, any bytes
  from the mouse and any polls. `QueueOK` says that the ring holds the last
  `len` of the events pushed, slot by slot modulo the capacity; `TakenOK` that
  what was taken is older. The parity of button changes is carried through
  `Codes`, which turns a concatenation into a symmetric difference
  (`CodesJoin`).
* `BuffersAlwaysFit`, `BarAlwaysNamesTop`, `SurfacesAlwaysAgree`: for any
  processes, screens and window sizes. The invariant adds that every id a
  surface or a program has was given out, and in rising order: that is why the
  focus, kept by id, is the last surface, and why `retain` cannot confuse two.
* `TilesStayApart`: for any number of windows, if every screen is wider than the
  gap and higher than strip and gap. On a smaller screen the property is false,
  as `relayout` makes every tile at least a pixel. The areas left after each cut
  are nested as long as none was too small (`LeftNested`), a tile ends a gap
  before the rest of its area (`CutInTwo`), and a later window has a later place
  (`PlacesGrow`).

**Boot** (`BootAssumption`, `ProgramAssumption`, `ArchiveAssumption`,
`ClockAssumption`, `SizeAssumption`). The constants stand for what the kernel does
not choose: the optional programs and the program they are, the damage in
transit, the machine's clock, the pointers that are tried. Assumed of them:

* the optional programs are ELF images as the linker scripts of `userland/` make
  them: accepted by the loader's checks one by one, on pages of their own below
  the stack (`Linked`);
* an archive that was built fits the 32-bit words of its table, and damage
  leaves each cell what its parser can read, with no package whose digest
  matches a body that was not built (the hash has no collisions);
* the chip starts between 1970 and 2069 (two-digit years) and updates so rarely
  that the retries suffice: `2 * MaxUpdates < ReadRetries`, because one update
  can spoil the comparison it falls into and the next.

The invariant has two halves. `ArchiveInv`: the ramdisk is a shipped archive,
whole or damaged, and the nodes are what `mount` makes of it. `RecordInv`: every
program in `kernel_main`'s record is a cell of the ramdisk with what a loader
makes of it, every verdict is what `verify` says of a package there, and locks
are held only in the stages that take them. From it:

* `ImagesAreSound`: an invariant of the ELF loader's loop says which segments
  are mapped so far (`MappedSoFar`); for PE images, each unit of memory is
  followed through copy, relocation and binding (`FilledBy`, `Relocated`,
  `BoundAt`).
* `CopiesExactInEverySpace`: the walk over four levels of tables agrees with the
  space, page by page, in every space a loader made and for every pointer and
  length of the lower half.
* `VerdictsAreFaithful`: what `verify` grants is computed from `Home` and the
  manifest, and a digest that matches is that of the built body.
* `NamespaceIsSound`: the round trip. The table that `build_archive` lays out
  lists every directory and file once (`Lists`), with offsets into the
  concatenated data (`Concats`); reading it back gives the rows (`TableExact`),
  and the nodes are the rows (`NodesAreRows`), for every set of files the
  builder accepts. For damaged archives, `mount`'s own checks bound every node.
* `ClockTellsTheTime`: each register read is of the time after some update
  between the one at which its reading began and the last one begun. If two
  readings agree, the earlier no later than some update and the later no
  earlier, both are the time after that update (`Agreement`): within a minute's
  updates no value comes back. As an update spoils at most two comparisons, the
  retries never run out before two readings agree. The conversions from BCD, the
  twelve-hour clock and the century are inverted (`MixConverted`), and the day
  count of `to_unix_seconds` is the calendar's (`UnixTimeExact`).
* `BootEndsRight`: `BootEndsAsItShould` always holds. `EndInv` says of every
  stage which programs have been looked for (`Past`), that a program that is
  there was spawned or the failure was printed, that nothing failed on a machine
  whose early self-tests passed with an undamaged archive, and what explains a
  panic or a halt (`PePanics`, of a PE image). It rests on what every undamaged archive does: it mounts, its
  files read as built, its programs load (`LinkedLoads`, `HelloLoads`), its
  packages are listed and examined (`ScanPasses`).

What a recursive function or a counted set computes is proved by the least
counterexample (`LeastNumber`, `CountUp`), which needs no induction schema:
`CutsExist` shows that way that `Left` is well defined, `ListExists` that
`Retain` is, and `Iterates` that the loaders' loops and the climb to the root
have a value after every round; `UpTo` carries an invariant along such a loop.

Proving changed four definitions, none in meaning: totals in `Services` and the
missing tables in `FrameMem` are cardinalities, `Codes` is the set of buttons
that an odd number of events changed, and `Retain` lists the surfaces kept by
their rising positions, where folds and `SelectSeq` stood, about which the
provers know nothing. `SurfacesAgree` is stated accordingly, and now also says
that ids rise.

`EveryWaitBounded` counted rescues by the interval alone, which is false for
constants other than the run's, and is corrected (`RescueGap`). In the boot's
modules the fields of headers, segments and sections got their types; the
archive lists directories in any order, where a fold fixed one; `Later`, the
chip's next second, had overlapping cases; what was silently true of `Damage`,
of the programs and of the number of updates is now assumed by name.
`BootEndsAsItShould` says more than it did: a boot halts only on a damaged
archive.

Only model-checked: liveness (`ReadyTasksRun`, `BootEnds`), as fairness and
`ENABLED` are outside the prover's reach, and the five runs that TLC must
refute.

## 6. Not modelled

Register contents other than those named; the byte offsets of headers (an image,
an entry or a package is the record its parser reads); message bytes; drawing, the
theme's colours, the serial line, the PIC's and the CPU's set-up; hashing (taken to
be free of collisions); the count limits of the PE parser; machine code of the
hand-made test programs; user programs (they make any call in any order). Read-only
system calls (`stat`, `readdir`, `realm_info`, `ticks`, `write`) change no kernel
state. `PROJECT.json` gives the reason for each part.

## 7. What is left

Every safety invariant of a passing run is a theorem. Left open are the liveness
properties, for which there is no prover here, and the parts of section 6 that
are not modelled, of which the byte layout of ELF, PE and archive headers is the
largest: it would need a model of its own, with the records of the present one
as its abstraction.
