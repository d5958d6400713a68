------------------------------ MODULE SpinLocks -----------------------------
(***************************************************************************)
(* Spin locks, interrupt guards and the timer interrupt on one core        *)
(* (libs/interrupt/src/lib.rs and its uses).  Kernel tasks run with        *)
(* interrupts enabled; system calls and the timer interrupt run masked.  A *)
(* task that spins with interrupts masked spins for ever: nobody else can  *)
(* run to release the lock.                                                *)
(*                                                                         *)
(* Code is abstracted to the sequence of its steps that touch a lock or    *)
(* the interrupt mask.                                                     *)
(***************************************************************************)
EXTENDS Integers, Sequences

CONSTANTS
  NumTasks,     \* kernel tasks, scheduled round robin
  TaskCalls,    \* what tasks call with interrupts enabled
  SvcCalls      \* what they call inside a system call

ASSUME NumTasksAssumption == NumTasks \in Nat \ {0}

Task == 0 .. NumTasks - 1

\* PHYSICAL_PAGE_RESOURCE, KERNEL_HEAP.fa, VIRTUAL_PAGE_ALLOCATOR, TASKS, the
\* exception_frames of a context and the waiters of a RawMutex or RawCondvar.
\* (The last two exist once per task and per object; one of each is the worst case.)
Locks == {"FRAMES", "HEAP", "VIRTUAL", "TASKS", "CONTEXT", "WAITERS"}
None == -1

\* Steps: take a guard that masks interrupts (uninterruptible(), or
\* PageTable::enable_temporarily); lock with .lock(), or with
\* .lock_uninterruptible(); drop the guard taken last; switch to the next task;
\* return from the exception.
Mask == [op |-> "mask", lock |-> "", keeps |-> TRUE]
Spin(l) == [op |-> "lock", lock |-> l, keeps |-> FALSE]
SpinUninterruptible(l) == [op |-> "lock", lock |-> l, keeps |-> TRUE]
Drop == [op |-> "drop", lock |-> "", keeps |-> FALSE]
Switch == [op |-> "switch", lock |-> "", keeps |-> FALSE]
Eret == [op |-> "eret", lock |-> "", keeps |-> FALSE]

\* PhysicalMemory::acquire and release
FrameCall == <<Mask, SpinUninterruptible("FRAMES"), Drop, Drop>>
\* KernelMemoryMapper::map, when a table is missing
MapCall == <<Mask>> \o FrameCall \o <<Drop>>
\* KernelHeapAllocator::alloc and dealloc; alloc_cell_slow calls acquire_pages
HeapCall == <<SpinUninterruptible("HEAP"), Drop>>
HeapSlowCall ==
  <<SpinUninterruptible("HEAP"), Spin("VIRTUAL"), Drop>> \o FrameCall \o MapCall \o <<Drop>>
\* Task::by_id, and with it Task::current and Process::current
TaskCall == <<Spin("TASKS"), Drop>>

\* What a push may need: a SegQueue allocates a block every few pushes, a Vec
\* when it grows.
Allocation == {<<>>, HeapCall, HeapSlowCall}
\* wake_up and register_new_task: look up the task, push it to the run queue
WakeCall(alloc) == <<Mask>> \o TaskCall \o alloc \o <<Drop>>
\* RawMutex::unlock and RawCondvar::notify_all with a waiter
NotifyCall(alloc) == <<Mask, Spin("WAITERS")>> \o WakeCall(alloc) \o <<Drop, Drop>>

\* push_exception_frame; pop_exception_frame and the rest of return_to_user
PushFrame(alloc) == TaskCall \o <<Mask, Spin("CONTEXT")>> \o alloc \o <<Drop, Drop>>
ReturnToUser == TaskCall \o <<Mask, Spin("CONTEXT"), Drop, Drop, Eret>>

\* handle_interrupt for the timer: it pushes the frame; timer_tick looks up the
\* state of the task, queues it and switches.
TimerHandler(frame, queue) ==
  PushFrame(frame) \o TaskCall \o queue \o <<Switch>> \o ReturnToUser

\* Vec::last and what pop leaves, for the guards that a task holds.
Last(q)  == q[Len(q)]
Front(q) == SubSeq(q, 1, Len(q) - 1)

VARIABLES
  cur,      \* the running task
  irqOn,    \* interrupts are enabled on the core
  holder,   \* who holds each spin lock
  guards,   \* per task the guards it holds: the lock, and the mask to restore
  todo,     \* per task the steps of what it is executing
  grown,    \* tasks whose exception_frames vector has its capacity
  ran       \* the current task has run since the last interrupt

vars == <<cur, irqOn, holder, guards, todo, grown, ran>>

\* A task that has not run yet starts by returning to its entry point.
Init ==
  /\ cur = 0
  /\ irqOn = TRUE
  /\ holder = [l \in Locks |-> None]
  /\ guards = [t \in Task |-> <<>>]
  /\ todo = [t \in Task |-> IF t = 0 THEN <<>> ELSE ReturnToUser]
  /\ grown = {}
  /\ ran = TRUE

InHandler(t) == \E i \in DOMAIN todo[t] : todo[t][i].op = "eret"

\* The next step of the current task has been taken.
Advance ==
  /\ todo' = [todo EXCEPT ![cur] = Tail(@)]
  /\ ran' = (ran \/ ~InHandler(cur))

\* The first push allocates the vector of frames of the task.
FrameAllocation == IF cur \in grown THEN {<<>>} ELSE {HeapCall, HeapSlowCall}

NextStep(op) == todo[cur] # <<>> /\ Head(todo[cur]).op = op

-----------------------------------------------------------------------------
(* Mutants *)

SwitchStepStays ==
  /\ NextStep("switch")
  /\ cur' = cur
  /\ Advance
  /\ UNCHANGED <<irqOn, holder, guards, grown>>

DropStepEnables ==
  /\ NextStep("drop")
  /\ LET g == Last(guards[cur])
     IN  /\ holder' = IF g.lock = "" THEN holder ELSE [holder EXCEPT ![g.lock] = None]
         /\ irqOn' = TRUE
         /\ guards' = [guards EXCEPT ![cur] = Front(@)]
  /\ Advance
  /\ UNCHANGED <<cur, grown>>

-----------------------------------------------------------------------------
(* Steps of the core *)

\* A task calls kernel code with interrupts enabled,
Call(c) ==
  /\ todo[cur] = <<>>
  /\ todo' = [todo EXCEPT ![cur] = c]
  /\ ran' = TRUE
  /\ UNCHANGED <<cur, irqOn, holder, guards, grown>>

\* or in a system call, which masks them until it returns.
Svc(c) ==
  /\ todo[cur] = <<>>
  /\ \E frame \in FrameAllocation :
       todo' = [todo EXCEPT ![cur] = PushFrame(frame) \o c \o ReturnToUser]
  /\ irqOn' = FALSE
  /\ grown' = grown \cup {cur}
  /\ ran' = TRUE
  /\ UNCHANGED <<cur, holder, guards>>

\* uninterruptible(), enable_temporarily(): save the mask, then set it.
MaskStep ==
  /\ NextStep("mask")
  /\ guards' = [guards EXCEPT ![cur] = Append(@, [lock |-> "", irq |-> irqOn])]
  /\ irqOn' = FALSE
  /\ Advance
  /\ UNCHANGED <<cur, holder, grown>>

\* lock() spins until the lock is free.  lock_uninterruptible() saves the mask
\* first but does not change it.
LockStep ==
  /\ NextStep("lock")
  /\ LET s == Head(todo[cur])
     IN  /\ holder[s.lock] = None
         /\ holder' = [holder EXCEPT ![s.lock] = cur]
         /\ guards' = [guards EXCEPT ![cur] =
              Append(@, [lock |-> s.lock, irq |-> s.keeps /\ irqOn])]
  /\ Advance
  /\ UNCHANGED <<cur, irqOn, grown>>

\* The guard taken last is dropped: it releases its lock and enables interrupts
\* if they were enabled when it was taken.
DropStep ==
  /\ NextStep("drop")
  /\ LET g == Last(guards[cur])
     IN  /\ holder' = IF g.lock = "" THEN holder ELSE [holder EXCEPT ![g.lock] = None]
         /\ irqOn' = (irqOn \/ g.irq)
         /\ guards' = [guards EXCEPT ![cur] = Front(@)]
  /\ Advance
  /\ UNCHANGED <<cur, grown>>

SwitchStep ==
  /\ NextStep("switch")
  /\ cur' = (cur + 1) % NumTasks
  /\ Advance
  /\ UNCHANGED <<irqOn, holder, guards, grown>>

\* Tasks are interrupted, and call svc, with interrupts enabled.
EretStep ==
  /\ NextStep("eret")
  /\ irqOn' = TRUE
  /\ Advance
  /\ UNCHANGED <<cur, holder, guards, grown>>

Step == MaskStep \/ LockStep \/ DropStep \/ SwitchStep \/ EretStep

Spinning == NextStep("lock") /\ holder[Head(todo[cur]).lock] # None

\* The timer fires at any instruction of a task.  Its period is longer than its
\* handler: the task runs, if only to spin, before it fires again.
TimerIrq ==
  /\ irqOn
  /\ ran \/ Spinning \/ todo[cur] = <<>>
  /\ \E frame \in FrameAllocation, queue \in Allocation :
       todo' = [todo EXCEPT ![cur] = TimerHandler(frame, queue) \o @]
  /\ grown' = grown \cup {cur}
  /\ irqOn' = FALSE
  /\ ran' = FALSE
  /\ UNCHANGED <<cur, holder, guards>>

Next ==
  \/ \E c \in TaskCalls : Call(c)
  \/ \E c \in SvcCalls : Svc(c)
  \/ Step
  \/ TimerIrq

\* The core executes its next step.  The timer keeps firing, and an interrupt that
\* arrives while masked stays pending until it is taken.
Fairness == WF_vars(Step) /\ SF_vars(TimerIrq)

Spec == Init /\ [][Next]_vars /\ Fairness

-----------------------------------------------------------------------------

TypeOK ==
  /\ cur \in Task
  /\ irqOn \in BOOLEAN /\ ran \in BOOLEAN
  /\ holder \in [Locks -> Task \cup {None}]
  /\ \A t \in Task : \A i \in DOMAIN guards[t] :
       guards[t][i] \in [lock : Locks \cup {""}, irq : BOOLEAN]
  /\ \A t \in Task : \A i \in DOMAIN todo[t] :
       todo[t][i] \in [op : {"mask", "lock", "drop", "switch", "eret"},
                       lock : Locks \cup {""}, keeps : BOOLEAN]
  /\ grown \subseteq Task

\* A spin lock is held only while interrupts are masked, so its holder cannot be
\* preempted: however guards nest, dropping an inner one never enables
\* interrupts under an outer one.
HeldMeansMasked == (\E l \in Locks : holder[l] # None) => ~irqOn

\* Every call returns: no task ever spins on a lock whose holder cannot run.
CallReturns == \A t \in Task : todo[t] # <<>> ~> todo[t] = <<>>

\* alloc_test (sophon/src/memory/kernel/heap.rs) and thread_test
\* (sophon/src/task/mod.rs) run as kernel tasks with interrupts enabled and
\* assert results they reach only if each of their calls returns.
TestCallsReturn == \A t \in Task : todo[t] # <<>> ~> todo[t] = <<>>
=============================================================================
