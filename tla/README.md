# Sophon: a verification project

Sophon is a small AArch64 kernel written in Rust: a core (`src/sophon`), kernel
modules loaded at boot (`src/modules`), shared libraries (`src/libs`) and a few
user programs (`src/user`). This directory holds TLA+ models of it, the TLC
configurations that check them on small instances, and proofs that TLAPS checks
for instances of any size.

Run a model with `tlc -config X.cfg M`, check the proofs with `tlapm M.tla`.

## 1. The system

The kernel drives one core (`SERVICE.num_cores()` is 1). Code reached by an
exception (a system call or an interrupt) runs with interrupts masked until it
returns or switches to another task. Kernel tasks run at EL1 with interrupts
enabled, user tasks at EL0. A system call that blocks does so with a nested
`svc` (`syscall::wait`): the task sleeps inside its handler and continues there,
still masked, when it is scheduled again. So the units of interleaving are: a
handler up to the point where it sleeps, and every instruction of a kernel task.

| part | state | operations | what makes it hard |
|---|---|---|---|
| scheduler (`modules/round-robin`) | run state and slice per task, run queue, current task | register, remove, sleep, wake_up, schedule, timer_tick | wake-ups of tasks that are not asleep, exits while queued, an empty queue is a panic |
| locks (`modules/pm/src/locks.rs`, `libs/sync`) | `is_locked`, waiters lists | lock, unlock, wait, notify_all, create, destroy | lost wake-ups, stale tests after a wake-up |
| processes and tasks (`modules/pm`, `sophon/src/task`) | PROCS, TASKS, threads, live monitors, Arc counts | spawn, exec, spawn_task, exit, thread_exit, wait_for_completion | exit races with waiters, lazily made monitors, references that outlive their frame |
| exceptions and interrupts (`sophon/src/arch`, `modules/gic`, `modules/gic-timer`) | frame stack per task, acknowledged IRQs, interrupt mask | handle_exception, handle_interrupt, return_to_user, interrupt_begin/end | nesting over task switches, locks taken with interrupts on |
| UART driver (`modules/pl011`) | receive buffer, its monitor, device FIFO | IRQ handler, read, write | an interrupt handler that takes a lock, readers woken together |
| physical pages (`libs/memory`, `sophon/src/memory`) | free lists per page size | acquire, release, split | address 0 as end of list, double use of a frame |
| kernel heap and allocators (`libs/memory`, `sophon/src/memory/kernel`) | free lists of cells, virtual bitmap | alloc, free, acquire_pages, release_pages | splitting and coalescing, remainders, a virtual range never given back |
| page tables and user memory (`libs/memory/src/page_table`, `sophon/src/task`, `sophon/src/memory/utils.rs`) | tables, page table and highwater per process | spawn, load, map, sbrk, exit, release | tasks switch between taking a frame and mapping it, a table in use before it is loaded |
| VFS (`modules/vfs`, `libs/vfs`, `modules/dev`) | tree, mount table, devices, descriptor table and cwd per process | open, close, read, write, readdir, chdir, mount, register | descriptors that are counts, reads that sleep, paths across mounts |
| module registry and start (`sophon/src/modules`, `main.rs`, `libs/kernel-module`) | modules, named instances, handlers | register, set_instance, module_call, init of each module | order of initialisation, locks held while a module starts |
| boot loader (`boot/uefi`, `libs/elf-loader`, `libs/device-tree`) | firmware memory map, page tables, image | identity map, read_file, load_elf, gen_boot_info | frames taken after the map was read, copies over page boundaries, nested address spaces |
| logging, user programs, build tools | | | output only, clients, or outside the running system |

## 2. Modules

| module | models | kind |
|---|---|---|
| `SchedulerOps` | `modules/round-robin/src/lib.rs` as functions on a scheduler state | operators |
| `RoundRobin` | the scheduler as a closed system: boot, tasks that spawn, sleep, wake and exit, the timer | specification |
| `LockOps` | `RawMutex`, `RawCondvar` as functions on the scheduler and lock state | operators |
| `SpawnedTasks` | the scheduler of a system whose tasks have all been spawned, where `Monitors` and `Console` begin | operators |
| `Monitors` | tasks that call the locks, under preemption | specification |
| `AbstractMonitor` | what a mutex and a condition variable promise | abstract specification |
| `Processes` | processes and tasks from creation to exit, in both builds | specification |
| `PhysicalPageResource` | the free lists of frames as functions on a table | operators |
| `UserMemory` | page tables, sbrk and exit of user processes, beside a kernel that takes and returns frames | composed specification |
| `BitMapOps` | the buddy bitmap of virtual pages as functions | operators |
| `BitMapPageAllocator` | clients that acquire and release ranges of pages | specification |
| `KernelHeap` | the kernel heap over both: cells, large objects, page tables, kernel stacks | composed specification |
| `SpinLocks` | spin locks, interrupt guards, the timer interrupt and system calls | specification |
| `GuardedCalls` | the calls of `SpinLocks`, sorted by where they may be made | assumption |
| `Exceptions` | vectors, register saving, exception frames, return_to_user, GIC acknowledgement | operators |
| `Console` | the serial line from the receiver to the readers, over scheduler, locks and exceptions | composed specification |
| `VfsPaths` | paths, the RAM file system's tree, mounts, the walk from a path to a node | operators |
| `FileTable` | the descriptor table of a process | operators |
| `Files` | the requests of the VFS with DevFS below and exec as a client | composed specification |
| `DeviceTree` | look-ups in the device tree | operators |
| `ElfLoader` | loading an image page by page through `translate` | operators |
| `ModuleRegistry` | the registry, the services and the init function of each module | operators |
| `Boot` | the UEFI loader and `_start`, up to the first interrupts | composed specification |
| `Steps` | `Then`, which evaluates an intermediate state once | helper |
| `SchedulingProofs` | lemmas on the functions of `SchedulerOps` and `LockOps` | proofs |
| `RoundRobinProofs`, `MonitorsProofs`, `ConsoleProofs` | theorems on `RoundRobin`, `Monitors` and `Console` | proofs |
| `FilesProofs` | theorems on the descriptor tables of `Files`, and what keeps reads in order | proofs |
| `PathsProofs` | theorems on paths, panics and reads of `Files`, with the inductions they need | proofs |
| `ProcessesProofs` | theorems on `Processes`, with the inductive invariant and what keeps it, action by action | proofs |
| `GuardProofs` | theorems on `SpinLocks`: runs of sequences of steps, and what they do to the mask | proofs |
| `MCFiles`, `MCUserMemory`, `MCKernelHeap`, `MCSpinLocks`, `MCAllocTest`, `MCBoot` | constants for the runs | instances |

Components are functions from state to state so that one handler of another
component can call several of them in the order the code does, in one step:
`LockOps` calls `SchedulerOps`, `Processes` and `Console` call both, `Console`
goes through `Exceptions`, `KernelHeap` calls the two page allocators, and `Boot`
calls `ElfLoader`, `DeviceTree` and `ModuleRegistry`. A panic (a `panic!`, a
failed `unwrap` or assertion) is part of the state; no action is enabled after
it. That is what a panic of the kernel does, and one of a module in a test build; in
other builds a module's panic exits the calling task with the module's locks still
held, and what the other tasks do from then on is left out. An `Option` is a set of at most one element.

How the state corresponds to the code:

* `RoundRobin`: `sched` holds `run_state` and `time_slice_units` of every task,
  `per_core_task_queue` and `current_task`. A task that is not in `TASKS` is
  "Absent". Each action is one masked section of the kernel.
* `Monitors`: `locks` holds `is_locked` and the waiters lists; `want` is the mutex
  whose `RawMutex::lock` loop a task is in, also at the end of `RawCondvar::wait`;
  `holds` is what `lock` has returned. `AbstractMonitor` has only a holder per mutex
  and a set of parked tasks per condition variable; `ImplementsMonitor` is the
  refinement.
* `Processes`: `pc` is the place in `exec`, `exit`, `thread_exit` or
  `wait_for_completion`; `live` and `lazy` are the live monitor and the state of
  its `Lazy`; `taskRefs` and `procRefs` say who holds an `Arc`; `sophonTest` is
  the build. Kernel threads are preemptible between their steps, handlers are
  not. `SpawnTask` is one step: the spin locks inside it are the subject of
  `SpinLocks`.
* `BitMapPageAllocator`, `KernelHeap`, `UserMemory`: an address is a number of
  4K pages, a free list is a sequence of cells, a bitmap is the set of its FREE
  bits, a page table is a function from index to frame. Each call of an
  allocator is one step. `UserTask::run` runs with interrupts enabled, so taking
  a frame and mapping it are two steps, and so are storing the new page table in
  the `MMState` and loading it; `return_to_user` may load it in between
  (`Switched`). `sbrk` is a system call and one step.
* `SpinLocks`: code is the sequence of its steps that touch a lock or the
  interrupt mask. `todo` is what a task has still to execute, with the handlers
  that interrupted it in front.
* `Console`: `m` is the machine of `Exceptions`: registers of the core, the
  frames and `response_status` of every task, `iar` of the GIC. `buffer` and
  `fifo` are the queue of the driver and the receiver of the device. A reader
  sleeps inside two nested system calls; `Resume` is where it continues.
* `Files`: `fs` holds the tree, `MOUNT_POINTS` and the devices, `data` the
  `ProcData` of every process, `pend` the reads that sleep. A path is the
  sequence that `split("/")` makes of it. `lifo`, `raced` and `seen` are history.
  A process has several threads here; at present only kernel processes do.
* `Boot`: `loader` is the state of the firmware and the loader (owner of every
  frame, tables, memory contents and which words are not flushed), `info` the
  page with the memory map, `kernel` the state that `ModuleRegistry` works on.

## 3. Runs

| run | asks | instance | states |
|---|---|---|---|
| `round_robin` | is the run queue the Ready set, is the order fair, can anything panic, does every Ready task run | idle and three tasks | 277 |
| `monitors` | is a wake-up ever lost, do locks and notified waits return, do the locks implement the abstract monitor | three tasks, one mutex, two condition variables, two calls each | 7360 |
| `processes` | does exec return, is the child gone by then, do the assertions of `thread_test` hold under any preemption | six tasks, with and without the test runner | 29865 |
| `virtual_pages` | is every page in one place, is merging complete | eight pages, ranges of any length | 802 |
| `kernel_heap` | do objects, tables and stacks stay apart, backed and in place while the heap is within one P2 table | eleven frames, 16 virtual pages, 2M = 2 pages | 25142 |
| `irq_guards` | do nested guards keep locks masked, does every call return | three tasks, six locks | 21511 |
| `user_memory` | is every frame in one place and aligned, is a program mapped completely, can anything but exhaustion panic | two processes, two calls of sbrk each, a kernel that holds one large frame, 27 frames in two ragged ranges | 86916 |
| `files` | do descriptors, offsets and working directories stay right, does open find exactly what there is | two processes, three threads, ten paths, four requests, six slots | 39705 |
| `console` | does input arrive in order and wake its reader, do frames and registers fit over nested exceptions | idle and two programs, three characters, reads of one and two | 35018 |
| `boot` | does the kernel get the free memory, its image and its devices, and reach the scheduler | four memory maps, three placements, three kernels, six boards, both builds | 30852 |
| `unmap_tables` | violation: a table's 4K frame is freed as a 2M frame | | |
| `heap_lock_irq` | violation: an interrupt inside the allocator never returns | | |

Why the bounds are enough. Three tasks besides idle give a running task, a
queued one and one that arrives between them, which is what a lost, doubled or
overtaken queue entry needs. Two calls per task let every task be owner, waiter
and notifier. Six task ids allow two generations of children. Ranges that begin
and end off alignment, three sizes and releases in any order reach every split
and every tile of `release_contiguous`. Eight pages allow a release that merges
three times. In `KernelHeap` the number of 4K pages in a 2M page (512) and of
2M pages below a P2 table (512) are shrunk to 2 and 4, so that a table can fill
and a cell can split; with `Region = 2` a table can also become empty. Counters
are capped by `MaxTask`, `MaxProc`, `MaxCalls`, `MaxSbrk`, `MaxTaken`, `MaxChars`
and `Nesting`.

In `UserMemory` a table has two entries in use, so that a few pages need tables of
their own on every level, and the frames are enough for one sbrk of each process
and not for two, so that memory runs out at every place that takes a frame. The kernel asks for
frames of a class above the smallest, so its request can fail while smaller cells
are free, and `OnlyExhaustionPanics` says which ones. The
paths of `files` are absolute, relative, with a final or a double slash, through a
file, across the mount, and missing; `NumNodes` is 6 instead of 16, so that three
opens fill the table and a fourth request meets it full. Three characters and
reads of two make a reader wait twice while another one takes what came. In `boot`
a page has three words, so that segments begin and end inside pages and a table of
frames is scattered; the boards have devices below the root, below a bus with two
windows, below two buses, and below a bus with an empty `ranges` property, with one
or two cells. `MapBuffer`, the descriptors that fit into the buffer of 4096 bytes, is
11: two of the memory maps fit, one outgrows it with the pages that the loader takes,
if they are scattered, and one by itself. `WordBase`, `Giga` and `Fan`
are scaled down, and `MaxTests` is what the tests of the instance fill exactly.

Deadlock is not checked where the system may stop: `kernel_heap`, `user_memory`
and `files` end in a panic or at a bound, `boot` when all is started, when the
firmware has no device tree or when the memory map outgrows its buffer.

`irq_guards` covers the calls that mask interrupts before their first lock
(frames, mappings, notifications) with interrupts enabled, and every lock inside
system calls. The calls that take a lock first are `heap_lock_irq`'s subject: for
them the guarantees of `irq_guards` do not hold.

Fairness. The timer is programmed again on each tick and an interrupt that is
masked stays pending, so the tick is weakly fair where nothing masks it for
long and strongly fair in `SpinLocks`, where it is masked and unmasked. A masked
section runs on (weak fairness of its next step). A task that gets the processor
again and again takes its next step (strong fairness, because it is preempted
in between): a slice is long against a step. User programs are not assumed to
do anything, except that the owner of a mutex unlocks it and the threads of
`thread_test` exit. In `Processes` the step of a task and the exit of a thread
share one strong fairness condition, since a task has only one next step. In
`Console` interrupts are weakly fair: no reader stays in the kernel, so a pending
interrupt is not masked for long. `Boot` states its weak fairness as a formula
(`Fairness`): one processor executes the next statement while there is one.

## 4. Where code and text disagree

Two disagreements have a run:

* `Page::new` asserts alignment; `unmap` of a large page frees the 4K frames of
  tables with the size of the page (`unmap_tables`).
* `lock_uninterruptible` remembers the mask and restores it but never masks
  (`heap_lock_irq`).

Three more have a configuration that shows the counterexample:

* `Process::exit` says the memory is released in the destructor of `MMState`.
  `UserTask::run` holds an `Arc<Process>` in a frame that is never left, so the
  destructor never runs (`tlc -config ProcessesMemory.cfg Processes`). The to-do
  list of the repository's README has an open entry on releasing pages after exit.
  For the same reason `release_user_page_table` is checked as an algorithm in
  `EachFrameOnce` (what it would release at any moment), not as a step.
* `thread_test` waits for its threads. If it is preempted inside the `Lazy` of
  a live monitor, the exiting thread spins on it, masked
  (`tlc -config ProcessesLazy.cfg Processes`).
* `vfs_locate_node` asserts that a path does not start with "/" and `RamFS::get`
  that one does. Opening "/etc//hello" breaks the first, reading an open "/" the
  second (`tlc -config FilesAsserts.cfg MCFiles`).

Others have no run. `release_pages` is documented to release virtual pages and
never returns them to the bitmap (`ReleasePages` models that). `Task::by_id` takes
`TASKS` with interrupts on and fails like the heap lock. `Process::exit` says
"Remove from scheduler", but `remove_task` leaves queued siblings in the run queue;
no program of the repository exits a process with a second thread. `Open` takes
the number of open files for a free slot, so a close out of order makes the next
open replace a descriptor in use: `DescriptorsKept` is what holds without one. A
path that runs through a file opens the file (`OpenResolves` leaves it out).
`exec` does not close the file when a read fails. A descriptor
at or above the length of the table, one open file too many, and a write to a file
of the root file system panic in the VFS (`OnlyRequestsPanic` names the panics that
no request may cause). `sbrk` unwraps each frame although it can return `None`, and
`KernelHeap::acquire_pages` does the same. The loader reads the memory map into 4096
bytes and unwraps the result: `BootReachesScheduler` asks for room for it.
The ELF loader takes the address in the `Rela` tag for an offset in the file, and
`register` transmutes a missing `init_array` to a slice. The kernels of `boot` are
linked so that the first does not show; what the second yields is up to the compiler
and is not modelled.

## 5. Proofs

`RoundRobinProofs` proves for every set of tasks that the scheduler keeps its
type (`TypeCorrect`), that no assertion, `unwrap` or `panic!` of it fires
(`NeverPanics`), that the run queue is the Ready set without repetition
(`QueueIsReadySet`), that exactly the current task is Running, with its slice
(`CurrentRuns`), and that nobody overtakes a task that stays queued
(`RunsInQueueOrder`). The only assumption is `TaskAssumption`: the idle task is a task
and `NoTask` is not.

None of these is inductive alone. `schedule` panics on an empty queue, so
`NeverPanics` needs a task that is always runnable: the idle task is Running or
Ready once it is spawned (`IdleIsRunnable`), because it neither sleeps nor exits.
That it is then in the queue needs the queue to be the Ready set, and that a tick
never queues a task twice needs the current task to be Running. `IndInv` is the
conjunction. `SchedulingProofs` shows for each function of the scheduler what it
keeps; `NextIndInv` combines them action by action. `RunsInQueueOrder` is about steps:
every action leaves the current task alone or dispatches the head of a queue that
begins with the old one, and by `QueueIsReadySet` the head occurs in it once.

`MonitorsProofs` proves for any tasks, mutexes, condvars and number of calls that two
tasks are never inside one mutex and that `is_locked` says whether one is
(`LocksExclude`), and that the locks implement `AbstractMonitor`
(`LocksImplementMonitor`). The assumptions are `TaskAssumption`,
`BoundAssumption` and `FiniteAssumption` (the initial run queue lists the tasks, so
they can be numbered). `Started`, the scheduler after the spawns, is written out so that
no fold has to be unrolled; `StartedBySpawning`, which TLC evaluates and no proof
uses, says that it is where the scheduler's own functions lead. Exclusion alone is
nearly inductive; what takes the work is that the wake-up loop `WakeAll` and the sleep
of a caller never panic the scheduler and that a task which runs is parked nowhere. Both need
`WaitersOK`: a task is in at most one waiters list, once, and only while it sleeps.
`MonitorInv` joins it with the scheduler's own invariant and with `IdleAwake`: the
idle task uses no lock, so a sleeping caller always leaves somebody to run.
`SchedulingProofs` also shows what each lock function does to `WaitersOK`. The refinement maps
`lock` that finds the mutex free, `unlock`, `wait` and `notify_all` to one step of the
monitor each, and queueing and ticks to a stutter.

`ProcessesProofs` proves for any number of tasks and processes and for both builds that
nothing panics between spawn and exit (`NeverPanics`), that what was waited for is gone
(`WaitedForIsGone`), that a waiter's handle is then the last `Arc<Task>`
(`HandleAlone`) and that a waiter never acts on a stale `*live`
(`LiveReadStaysFresh`). `ProcessesAssumption` names the ids (tasks from 0, processes
from 1, room for the three that boot makes) and says that every one of them has a live
monitor. The four properties speak of what is left after an exit; why it is left
so depends on where everybody else is, and `ProcInv` says that:

* `Typed`, `Tree`, `Fresh`: ids are handed out in order, a process begins with its
  first task, only the test runner's process has more, and nothing refers to an id
  that is not handed out yet.
* `KernelOK`: the scheduler and lock invariants of the proofs above, and that only
  monitors of tasks are held from one step to the next (`LocksOK`). A process monitor
  is taken and given back inside one masked section; this is why exec can park at once
  on the monitor of its child.
* `Places`: for every label of `pc` which object it may name, who holds the handle or
  the `exec` reference for it, and what the task then holds: whoever is at "locked",
  "park" or "unlock" holds the monitor, and it is what makes `*live` fresh.
* `Refs`: who holds an `Arc`. A task in TASKS has its entry, only the test runner has
  handles of threads and it has one of every thread it made, a user task that has run
  keeps the reference of `UserTask::run` (`PlaceOK`), and a process has the reference
  of `_start`, of exec or of `UserTask::run`. So the drop in `exit` is never the last one, which is
  what `NeverPanics` needs besides the scheduler.
* `Dead`: an object that is not live has no task in the scheduler and none in TASKS.
  The flag is cleared and the task leaves in one masked section, so a waiter cannot
  see one without the other; and only what is dead was waited for to the end.

The module first shows what the lock and exit operators do to `KernelOK`, then
that each step of a task which touches only its own place keeps the rest
(`TaskStepKeeps`, `QuietStep`), and then one lemma per action; `ProcessesProofs` adds
the births (`BirthKeeps` for exec and spawn_task), the initial state and the theorems.
`ProcInv` was also checked as an invariant of the `processes` instance.

`ConsoleProofs` proves for any tasks, characters and sizes of reads the four safety
properties of the console: nothing faults (`KernelNeverFaults`), programs keep their
registers (`RegistersKept`), frames fit (`FramesTellWhere`) and input arrives in order
(`InputDeliveredInOrder`). Besides `TaskAssumption` and `FiniteAssumption` it assumes
`UartAssumption` (the monitor of the PL011 is the only lock) and `ConsoleAssumption`
(sizes and the bound on characters are numbers). A return to user mode is right
because of what was pushed when the task left, perhaps many switches ago, so
`ConsoleInv` says of every task what its frames hold. Between two steps the current
task *runs* (`Runs`): at its start, in its own code with its own registers, or woken
inside a read with two frames left. Every other task *rests* (`Rests`): not started;
preempted, with one frame of its own code; or asleep with the frames of its svc, of the
svc to pm and of the svc that sleeps. The registers of a frame are the task's own exactly
when it was pushed in user mode. `Outside` joins this with the scheduler's invariant, with
`WaitersOK`, and with the fact that between two steps the monitor is free and nobody
waits for its mutex: `getchar` locks, waits and unlocks without ever being interrupted,
which is why the handler of the UART finds it free. `Entry` and `Exit` show what the
vectors and `return_to_user` do to one machine, `Returned` that whoever is scheduled
next runs as it should, and one lemma per handler builds on them. `InputInOrder` is
inductive with the types; it needs that what is taken from a buffer and what is left
make up the buffer (`Divided`) and that `getchar` maps characters one by one
(`CookedConcat`). `ConsoleInv` was also checked as an invariant of the `console`
instance.

`FilesProofs` proves for every table length above 3, every file tree, every set of
threads and any number of requests that descriptors 0, 1 and 2 stay the serial line
(`StandardDescriptors`) and that a process which closes only its newest descriptor
never loses another one (`DescriptorsStay`). The assumptions are
`NumNodesAssumption` and `FirstProcess`. `files` counts the open descriptors, but a
close out of order makes it smaller than the highest slot in use, so the first
theorem needs a bound that survives that: `TableInv` says that at most `files - 3`
slots above the first three are in use (`Counted`, an injection into the numbers from 3 to
`files - 1`). Whoever closes one of them therefore finds `files` above 3, so it never
falls below 3 and Open never assigns a standard slot. For processes with `lifo` it says
that the open slots are exactly those below `files`.

`PathsProofs` proves for every `init.fs` that every working directory exists
(`WorkingDirectories`), that no panic occurs which only the kernel itself could cause
(`KernelNeverPanics`), and that a descriptor of a file delivers its bytes in order
(`FilesReadInOrder`). It assumes `PathsAssumption` (paths are sequences of strings) and
`InitFilesAssumption` (what `build_initfs` puts into the image). `PathInv` says
which file system there is at each stage of the module loader, that no request changes it
afterwards, and that working directories are absolute paths that it resolves. The walk
along a path and the tree that the entries of `init.fs` make are recursive functions;
that they compute what their definitions say, and keep a property from one segment or
entry to the next, is proved by induction, from the theorem that the order of the
natural numbers is well-founded (`Recursion`, `UpTo`). `ReadsInv` adds that the slots on
which a thread sleeps hold no file: only the serial line makes a reader sleep, and that
the standard slots are a device needs `PathInv` again (`ConsoleUp`). So no read of a file
is ever in the middle while another one moves the offset.

`GuardProofs` proves for any number of tasks that a spin lock is held only with
interrupts masked (`LocksHeldMasked`). `CallsAssumption` says which calls are made where:
with interrupts enabled those that mask before their first lock, inside a system call
all of them. A task that allocates with interrupts enabled breaks it, and the run
`heap_lock_irq` shows what follows. What a task is about to execute is data in
`SpinLocks`, a sequence of steps, so the invariant has to say what those steps will do:
`Leads(q, v, z)` holds when the steps `q` take a task from the view `v` (the mask and the
guards it holds) to `z`, every lock held masked, every drop with a guard to drop, and
every switch masked with no lock held. Runs compose (`Compose`) and can be taken a step
at a time (`FirstStep`), which replaces an induction over the sequences. Every call of the
kernel is `Quiet`: masked, it leads from any view back to it. The calls that mask first
also do so with interrupts enabled. `GuardInv` says that every task leads home (interrupts
enabled, no guard) by what it has left, that only the running task holds locks, and that a
taken lock is in a guard of its holder. The timer fires only with interrupts enabled;
the running task then holds no lock by its own run, and the handler, which leads back to
where it began, can be put in front.

Only model-checked:

* All liveness, which is out of the prover's reach: `ReadyTaskRuns`, the returns of
  locks and waits, `exec` returning, `InputReachesReader`, the start reaching the
  scheduler.
* The buddy bitmap, the kernel heap, physical frames and user memory. Their
  invariants are about powers of two, cells that tile a range and folds over free lists,
  which would need number theory and sums that the provers do not have.
* The boot: its states are few and long (page table walks, pieces of a copy, ancestors in
  the device tree), and its properties compare the end of a computation with its input.
* `OpenResolves`, which compares the walk of `open` with a second definition of what a path
  names.

## 6. Not modelled

* Output: logging, `putchar` of the UART, printing in programs. Nothing depends on it.
* Contents of user pages, page flags, the TLB and system registers.
* Secondary user threads: `new_companion` has no caller, so user stacks other than
  the first and the case `threads > 1` of `UserTask::run` are never reached.
* Aborts and SError, which only panic; the GPIO's register writes after it is found.
* The packing of system call arguments and module requests into registers, and
  `GetCwd`, which copies the working directory.
* The crates `fdt_rs` and `xmas_elf`, and the firmware, which is modelled from how
  the loader uses it: it reads files short only at their end, and it allocates
  nothing of its own between the memory map and `exit_boot_services`.
* The x86 stubs, the build tools and address arithmetic.

`PROJECT.json` lists every part with its status.
