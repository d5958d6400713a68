----------------------------- MODULE Processes ------------------------------
(***************************************************************************)
(* Processes and tasks from creation to exit: modules/pm/src/proc.rs and   *)
(* task.rs, with the system calls of sophon/src/task/syscall.rs that call  *)
(* them and the Arc references that keep their objects alive.              *)
(*                                                                         *)
(* Process 1 is the idle process (task 0) and process 2 is init (task 1);  *)
(* a kernel built with sophon_test also has the kernel test runner,        *)
(* process 3 (task 2), whose tasks are kernel threads.  All other tasks    *)
(* are user tasks.  Kernel threads run at EL1 with interrupts on and       *)
(* are preempted between any two steps; a user task enters the kernel by   *)
(* svc, masked, and the handler runs on until it sleeps.                   *)
(*                                                                         *)
(* Every process and every task has a `live` monitor, named by an element  *)
(* of Obj, whose mutex and condvar are those of LockOps.  It is a          *)
(* spin::Lazy: the first user initialises it, and whoever comes while      *)
(* another is initialising it spins.                                       *)
(***************************************************************************)
EXTENDS LockOps

CONSTANTS MaxTask,       \* bound: task ids handed out
          MaxProc,       \* bound: process ids handed out
          Builds         \* the values of cfg!(sophon_test) to look at

ProcId == 1..MaxProc
Obj    == ({"proc"} \X ProcId) \cup ({"task"} \X Task)

ASSUME ProcessesAssumption ==
  /\ MaxTask \in Nat /\ MaxTask > 2 /\ MaxProc \in Nat /\ MaxProc > 2
  /\ Task = 0..(MaxTask - 1) /\ Idle = 0
  /\ Mutex = Obj /\ Cond = Obj
  /\ Builds \subseteq BOOLEAN

VARIABLES
  sched, locks,
  pc,        \* pc[t] = [at, obj]: where t is in the kernel, see Label
  procOf,    \* Task.proc, 0 before the task exists
  threads,   \* Process.threads
  live,      \* the value in each live monitor
  lazy,      \* state of each Lazy: "uninit", "running", "ready"
  taskRefs,  \* who holds an Arc<Task>: TASKS, the handle of a thread
  procRefs,  \* who holds an Arc<Process>: PROCS, the frames of _start, of
             \* exec and of UserTask::run
  waited,    \* waited[t]: what t's wait_for_completion has returned from
  mm,        \* MMState: "none", "kernel" page table, "user", "released"
  nextTask, nextProc,   \* TASK_ID_COUNT, COUNTER
  sophonTest \* cfg!(sophon_test): the kernel is built with its tests

vars == <<sched, locks, pc, procOf, threads, live, lazy, taskRefs, procRefs,
          waited, mm, nextTask, nextProc, sophonTest>>

NoObj  == <<"none", 0>>
TASKS  == <<"TASKS", 0>>
PROCS  == <<"PROCS", 0>>
Boot   == <<"_start", 0>>

(* Where a task is:                                                        *)
(*   entry   not run yet                                                   *)
(*   run     in its program, interrupts on                                 *)
(*   lazy    initialising the Lazy of obj, interrupts on (kernel thread)   *)
(*   lock    about to call lock() in wait_for_completion                   *)
(*   locked  wait_for_completion holds obj's monitor, about to test *live  *)
(*   park    about to call wait(), unlock: about to drop the guard         *)
(*   wlock   in RawMutex::lock for wait_for_completion, masked             *)
(*   xspin   exit spins on obj's Lazy, masked                              *)
(*   xlock   exit is in RawMutex::lock, masked                             *)
Preemptible == {"entry", "run", "lazy", "lock", "locked", "park", "unlock"}
Label == Preemptible \cup {"wlock", "xspin", "xlock"}

At(l, x) == [at |-> l, obj |-> x]

Current(t) == sched.current = t /\ ~sched.panic
InState(t, l) == Current(t) /\ pc[t].at = l

\* The tasks and processes that _start makes, and the test runner's.
Booted    == IF sophonTest THEN 3 ELSE 2
BootTasks == 0..(Booted - 1)
Runner    == 2
IsUser(t) == t # 0 /\ ~(sophonTest /\ procOf[t] = Runner + 1)

\* Task::create and register_new_task.
Created(s, t) == RegisterNewTask(CreateTask(s, t), t)

BootSched == LET s == Created(Created(EmptySched, 0), 1)
             IN  IF sophonTest THEN Created(s, Runner) ELSE s

Init ==
  /\ sophonTest \in Builds
  /\ sched = Schedule(BootSched)
  /\ locks = FreshLocks
  /\ pc = [t \in Task |-> At("entry", NoObj)]
  /\ procOf = [t \in Task |-> IF t \in BootTasks THEN t + 1 ELSE 0]
  /\ threads = [p \in ProcId |-> IF p - 1 \in BootTasks THEN <<p - 1>> ELSE <<>>]
  /\ live = [x \in Obj |-> TRUE]
  /\ lazy = [x \in Obj |-> "uninit"]
  /\ taskRefs = [t \in Task |-> IF t \in BootTasks THEN {TASKS} ELSE {}]
  /\ procRefs = [p \in ProcId |-> IF p - 1 \notin BootTasks THEN {}
                                 ELSE IF p - 1 = Runner THEN {PROCS}
                                 ELSE {PROCS, Boot}]
  /\ waited = [t \in Task |-> {}]
  /\ mm = [p \in ProcId |-> IF p - 1 \in BootTasks THEN "kernel" ELSE "none"]
  /\ nextTask = Booted
  /\ nextProc = Booted + 1

-----------------------------------------------------------------------------
(* The objects of tasks and processes.                                     *)

\* exit() drops an Arc at the end of its caller's statement.  If it is the
\* last one the live monitor, which exit() has just used, is destroyed with
\* an svc, and handle_exception unwraps the current task.
AfterDrop(s, refs) == IF refs = {} /\ s.current = NoTask THEN Panic(s) ELSE s

\* Task::create and register_new_task for the next task id, in process p.
NewTask(p) ==
  /\ procOf'   = [procOf EXCEPT ![nextTask] = p]
  /\ threads'  = [threads EXCEPT ![p] = Append(@, nextTask)]
  /\ nextTask' = nextTask + 1

Spawned == Created(sched, nextTask)

-----------------------------------------------------------------------------
(* Starting.                                                               *)

\* entry() and run(): a kernel thread starts its program; UserTask::run
\* takes an Arc<Process> in a local, makes the page table, loads the ELF
\* file, and leaves for user mode from inside, so the local is never
\* dropped.
Enter(t) ==
  /\ InState(t, "entry") /\ t # 0
  /\ pc' = [pc EXCEPT ![t] = At("run", NoObj)]
  /\ IF IsUser(t)
     THEN /\ procRefs' = [procRefs EXCEPT ![procOf[t]] = @ \cup {<<"run", t>>}]
          /\ mm' = [mm EXCEPT ![procOf[t]] = "user"]
     ELSE UNCHANGED <<procRefs, mm>>
  /\ UNCHANGED <<sched, locks, procOf, threads, live, lazy, taskRefs, waited,
                 nextTask, nextProc, sophonTest>>

\* Syscall::Exec: Process::create, then wait_for_completion up to the point
\* where the caller sleeps; the child has not run, so it is alive.
Exec(t) ==
  LET p == nextProc
      x == <<"proc", p>>
  IN
  /\ InState(t, "run") /\ IsUser(t)
  /\ nextTask < MaxTask /\ p <= MaxProc
  /\ NewTask(p)
  /\ nextProc' = p + 1
  /\ taskRefs' = [taskRefs EXCEPT ![nextTask] = {TASKS}]
  /\ procRefs' = [procRefs EXCEPT ![p] = {PROCS, <<"exec", t>>}]
  /\ mm'    = [mm EXCEPT ![p] = "kernel"]
  /\ lazy'  = [lazy EXCEPT ![x] = "ready"]
  /\ locks' = Parked(Acquired(locks, x), x, x, t)
  /\ sched' = Sleep(Spawned)
  /\ pc'    = [pc EXCEPT ![t] = At("wlock", x)]
  /\ UNCHANGED <<live, waited, sophonTest>>

\* Mutant: spawn_task does not hand the Arc<Task> to its caller.
SpawnTaskDetached(t) ==
  /\ sophonTest /\ InState(t, "run") /\ t = Runner
  /\ nextTask < MaxTask
  /\ NewTask(procOf[t])
  /\ taskRefs' = [taskRefs EXCEPT ![nextTask] = {TASKS}]
  /\ sched' = Spawned
  /\ UNCHANGED <<locks, pc, live, lazy, procRefs, waited, mm, nextProc,
                 sophonTest>>

\* Process::spawn_task, from the test runner (thread_test).
SpawnTask(t) ==
  /\ sophonTest /\ InState(t, "run") /\ t = Runner
  /\ nextTask < MaxTask
  /\ NewTask(procOf[t])
  /\ taskRefs' = [taskRefs EXCEPT ![nextTask] = {TASKS, <<"thread", t>>}]
  /\ sched' = Spawned
  /\ UNCHANGED <<locks, pc, live, lazy, procRefs, waited, mm, nextProc,
                 sophonTest>>

-----------------------------------------------------------------------------
(* wait_for_completion.                                                    *)

\* A kernel thread calls wait_for_completion on a handle it has; the deref
\* of Lazy comes first.
WaitCall(t, u) ==
  LET x == <<"task", u>> IN
  /\ InState(t, "run") /\ <<"thread", t>> \in taskRefs[u]
  /\ x \notin waited[t] /\ lazy[x] # "running"
  /\ pc'   = [pc EXCEPT ![t] = At(IF lazy[x] = "ready" THEN "lock" ELSE "lazy", x)]
  /\ lazy' = [lazy EXCEPT ![x] = IF @ = "ready" THEN @ ELSE "running"]
  /\ UNCHANGED <<sched, locks, procOf, threads, live, taskRefs, procRefs,
                 waited, mm, nextTask, nextProc, sophonTest>>

\* Monitor::new has returned and the Lazy is set.
LazyDone(t) ==
  /\ InState(t, "lazy")
  /\ lazy' = [lazy EXCEPT ![pc[t].obj] = "ready"]
  /\ pc'   = [pc EXCEPT ![t].at = "lock"]
  /\ UNCHANGED <<sched, locks, procOf, threads, live, taskRefs, procRefs,
                 waited, mm, nextTask, nextProc, sophonTest>>

\* RawMutex::lock for a waiter, entered or resumed.  A kernel thread returns
\* from its svc with the mutex; exec goes straight on, masked: it tests
\* *live, and waits again or drops its guard and its Arc<Process>, which
\* runs the MMState destructor if no other Arc is left.
WaitLock(t) ==
  LET x    == pc[t].obj
      p    == x[2]
      left == procRefs[p] \ {<<"exec", t>>}
  IN
  /\ InState(t, "lock") \/ InState(t, "wlock")
  /\ IF locks.locked[x]
     THEN /\ locks' = Queued(locks, x, t)
          /\ sched' = Sleep(sched)
          /\ pc'    = [pc EXCEPT ![t].at = "wlock"]
          /\ UNCHANGED <<waited, procRefs, mm>>
     ELSE IF ~IsUser(t)
     THEN /\ locks' = Acquired(locks, x)
          /\ pc'    = [pc EXCEPT ![t].at = "locked"]
          /\ UNCHANGED <<sched, waited, procRefs, mm>>
     ELSE IF live[x]
     THEN /\ locks' = Parked(Acquired(locks, x), x, x, t)
          /\ sched' = Sleep(sched)
          /\ pc'    = [pc EXCEPT ![t].at = "wlock"]
          /\ UNCHANGED <<waited, procRefs, mm>>
     ELSE /\ pc'       = [pc EXCEPT ![t] = At("run", NoObj)]
          /\ waited'   = [waited EXCEPT ![t] = @ \cup {x}]
          /\ procRefs' = [procRefs EXCEPT ![p] = left]
          /\ mm'       = [mm EXCEPT ![p] = IF left = {} THEN "released" ELSE @]
          /\ UNCHANGED <<sched, locks>>
  /\ UNCHANGED <<procOf, threads, live, lazy, taskRefs, nextTask, nextProc,
                 sophonTest>>

\* `while *live`: the kernel thread reads the value, its next step acts on it.
ReadLive(t) ==
  /\ InState(t, "locked")
  /\ pc' = [pc EXCEPT ![t].at = IF live[pc[t].obj] THEN "park" ELSE "unlock"]
  /\ UNCHANGED <<sched, locks, procOf, threads, live, lazy, taskRefs,
                 procRefs, waited, mm, nextTask, nextProc, sophonTest>>

\* The svc of Monitor::wait.
Park(t) ==
  LET x == pc[t].obj IN
  /\ InState(t, "park")
  /\ sched' = Sleep(WakeAll(sched, locks.mwait[x]))
  /\ locks' = Parked(locks, x, x, t)
  /\ pc'    = [pc EXCEPT ![t].at = "wlock"]
  /\ UNCHANGED <<procOf, threads, live, lazy, taskRefs, procRefs, waited, mm,
                 nextTask, nextProc, sophonTest>>

\* The svc of the guard's drop; wait_for_completion returns.
DropGuard(t) ==
  LET x == pc[t].obj IN
  /\ InState(t, "unlock")
  /\ sched'  = WakeAll(sched, locks.mwait[x])
  /\ locks'  = Unlocked(locks, x)
  /\ waited' = [waited EXCEPT ![t] = @ \cup {x}]
  /\ pc'     = [pc EXCEPT ![t] = At("run", NoObj)]
  /\ UNCHANGED <<procOf, threads, live, lazy, taskRefs, procRefs, mm,
                 nextTask, nextProc, sophonTest>>

-----------------------------------------------------------------------------
(* Exit.                                                                   *)

(* Mutants: exit() without notify_all; without TASKS.remove; without       *)
(* taking the live monitor's lock.                                         *)

MarkedDeadSilently(x) == WakeAll(sched, locks.mwait[x])

TaskStaysInTasks(t, x) ==
  /\ threads'  = [threads EXCEPT ![procOf[t]] = SelectSeq(@, LAMBDA u : u # t)]
  /\ sched'    = Schedule(RemoveTask(WakeAll(sched, locks.cwait[x]), t))
  /\ UNCHANGED <<taskRefs, procRefs>>

ProcessStaysInTasks(t, x) ==
  /\ procRefs' = [procRefs EXCEPT ![procOf[t]] = @ \ {PROCS}]
  /\ sched'    = Schedule(RemoveTask(WakeAll(sched, locks.cwait[x]), t))
  /\ UNCHANGED <<threads, taskRefs>>

\* `*live = false; notify_all()` and the drop of the guard: everyone who
\* sleeps on the monitor is woken.
MarkedDead(x) == WakeAll(WakeAll(sched, locks.cwait[x]), locks.mwait[x])

\* The rest of Task::exit, the drop of the last references, and schedule().
TaskGone(t, x) ==
  LET p == procOf[t]
      left == taskRefs[t] \ {TASKS}
  IN
  /\ threads'  = [threads EXCEPT ![p] = SelectSeq(@, LAMBDA u : u # t)]
  /\ taskRefs' = [taskRefs EXCEPT ![t] = left]
  /\ sched'    = Schedule(AfterDrop(DropTask(RemoveTask(MarkedDead(x), t), t), left))
  /\ UNCHANGED procRefs

\* The loop `for t in &*threads` of Process::exit: out of TASKS, and of the
\* scheduler if current.
Removed(s, q) ==
  LET left[i \in 0..Len(q)] ==
        IF i = 0 THEN s ELSE RemoveTask(DropTask(left[i - 1], q[i]), q[i])
  IN  left[Len(q)]

\* The rest of Process::exit and schedule().  Each thread leaves TASKS, but
\* remove_task takes none of them out of the run queue.
ProcessGone(t, x) ==
  LET p == procOf[t]
      left == procRefs[p] \ {PROCS}
  IN
  /\ taskRefs' = [u \in Task |-> IF u \in Range(threads[p])
                                   THEN taskRefs[u] \ {TASKS} ELSE taskRefs[u]]
  /\ procRefs' = [procRefs EXCEPT ![p] = left]
  /\ sched'    = Schedule(AfterDrop(Removed(MarkedDead(x), threads[p]), left))
  /\ UNCHANGED threads

ExitWithoutLock(t, x) ==
  /\ lazy' = [lazy EXCEPT ![x] = "ready"]
  /\ pc'   = [pc EXCEPT ![t] = At("xlock", x)]
  /\ live' = [live EXCEPT ![x] = FALSE]
  /\ locks' = Notified(locks, x)
  /\ IF x[1] = "task" THEN TaskGone(t, x) ELSE ProcessGone(t, x)
  /\ UNCHANGED <<procOf, waited, mm, nextTask, nextProc, sophonTest>>

\* exit from its lock of the live monitor on: the Lazy is forced, masked;
\* the lock may put the task to sleep; once it is taken the rest runs on.
ExitLoop(t, x) ==
  /\ IF lazy[x] = "running"
     THEN /\ pc' = [pc EXCEPT ![t] = At("xspin", x)]
          /\ UNCHANGED <<sched, locks, threads, live, lazy, taskRefs, procRefs>>
     ELSE /\ lazy' = [lazy EXCEPT ![x] = "ready"]
          /\ pc'   = [pc EXCEPT ![t] = At("xlock", x)]
          /\ IF locks.locked[x]
             THEN /\ locks' = Queued(locks, x, t)
                  /\ sched' = Sleep(sched)
                  /\ UNCHANGED <<threads, live, taskRefs, procRefs>>
             ELSE /\ live'  = [live EXCEPT ![x] = FALSE]
                  /\ locks' = Unlocked(Notified(locks, x), x)
                  /\ IF x[1] = "task" THEN TaskGone(t, x) ELSE ProcessGone(t, x)
  /\ UNCHANGED <<procOf, waited, mm, nextTask, nextProc, sophonTest>>

\* Syscall::Exit, by user programs
Exit(t) ==
  /\ InState(t, "run") /\ t # 0
  /\ IsUser(t)
  /\ ExitLoop(t, <<"proc", procOf[t]>>)

\* Syscall::ThreadExit, by the threads that thread_test makes
ThreadExit(t) ==
  /\ InState(t, "run") /\ t > Runner /\ ~IsUser(t)
  /\ ExitLoop(t, <<"task", t>>)

\* An exit that slept in lock() is scheduled again, or spins once more.
ExitResume(t) ==
  /\ InState(t, "xlock") \/ InState(t, "xspin")
  /\ ExitLoop(t, pc[t].obj)

-----------------------------------------------------------------------------

\* The timer interrupt; user tasks are masked in all of the kernel's steps.
Tick ==
  /\ \E t \in Task : Current(t) /\ pc[t].at \in Preemptible
  /\ sched' = TimerTick(sched)
  /\ UNCHANGED <<locks, pc, procOf, threads, live, lazy, taskRefs, procRefs,
                 waited, mm, nextTask, nextProc, sophonTest>>

Step(t) ==
  \/ Enter(t) \/ LazyDone(t) \/ WaitLock(t) \/ ReadLive(t) \/ Park(t)
  \/ DropGuard(t) \/ ExitResume(t)

Next ==
  \/ \E t \in Task :
       \/ Step(t) \/ Exec(t) \/ SpawnTask(t) \/ Exit(t) \/ ThreadExit(t)
       \/ \E u \in Task : WaitCall(t, u)
  \/ Tick

Spec == Init /\ [][Next]_vars

\* The timer keeps ticking, the masked part of a handler runs on, a kernel
\* thread that is given the processor again and again takes its next step,
\* and the threads of thread_test, which only count, exit.
FairSpec ==
  /\ Spec
  /\ WF_vars(Tick)
  /\ \A t \in Task \ {0} : SF_vars(Step(t) \/ ThreadExit(t))

-----------------------------------------------------------------------------

TypeOK ==
  /\ sched \in SchedState
  /\ locks \in LockState
  /\ pc \in [Task -> [at : Label, obj : Obj \cup {NoObj}]]
  /\ procOf \in [Task -> ProcId \cup {0}]
  /\ threads \in [ProcId -> Seq(Task)]
  /\ live \in [Obj -> BOOLEAN]
  /\ lazy \in [Obj -> {"uninit", "running", "ready"}]
  /\ taskRefs \in [Task -> SUBSET ({TASKS} \cup ({"thread"} \X Task))]
  /\ procRefs \in [ProcId -> SUBSET ({PROCS, Boot} \cup ({"exec", "run"} \X Task))]
  /\ waited \in [Task -> SUBSET Obj]
  /\ mm \in [ProcId -> {"none", "kernel", "user", "released"}]
  /\ nextTask \in 0..MaxTask /\ nextProc \in 1..(MaxProc + 1)
  /\ sophonTest \in BOOLEAN

\* No unwrap, assertion or panic! fires on the way from spawn to exit: a
\* woken or queued task is in TASKS, the idle task keeps the queue from
\* running dry, and the Arc that exit() drops is not the last one.
NoPanic == ~sched.panic

TasksOf(x) == IF x[1] = "task" THEN {x[2]}
              ELSE {t \in Task : procOf[t] = x[2]}

\* When wait_for_completion returns, what was waited for is over: its tasks
\* are out of TASKS and of the run queue, so none of them runs again and
\* exec's caller has the terminal to itself.
CompletedIsGone ==
  \A t \in Task : \A x \in waited[t] : \A u \in TasksOf(x) :
    /\ sched.run[u] = "Absent"
    /\ u \notin Range(sched.queue)
    /\ u # sched.current

\* thread_test: `assert_eq!(Arc::strong_count(&task), 1)` after the wait.
\* The flag is cleared and the waiter woken before the exiting task leaves
\* TASKS; the assertion holds because exit() does not sleep in between.
HandleIsLastReference ==
  \A t, u \in Task :
    <<"task", u>> \in waited[t] => taskRefs[u] = {<<"thread", t>>}

\* The value of *live that a preemptible waiter has read is still right when
\* it acts on it, however long it was preempted: it never parks on a dead
\* task, where nobody would notify it.
LiveReadIsFresh ==
  \A t \in Task :
    /\ pc[t].at = "park" => live[pc[t].obj]
    /\ pc[t].at = "unlock" => ~live[pc[t].obj]

\* Once a process is dead every exec that waits for it returns, unless some
\* exit() spins, masked, on a Lazy whose initialiser it has preempted.
ExecReturns ==
  \A t \in Task :
    (pc[t].at = "wlock" /\ IsUser(t) /\ ~live[pc[t].obj])
      ~> (pc[t].at = "run" \/ \E u \in Task : pc[u].at = "xspin")

\* "Release memory - Note: this is done in the MMState destructor"
\* (proc.rs:102): when exec has returned, the child's memory is released.
ExitedProcessReleasesMemory ==
  \A t \in Task, p \in ProcId :
    <<"proc", p>> \in waited[t] => mm[p] = "released"

\* "Wait for all threads to finish" (thread_test, mod.rs:46): a thread that
\* waits for another one that is going to exit gets past the wait.
WaitForThreadsFinishes ==
  \A t \in Task :
    (pc[t].obj[1] = "task" /\ pc[t].at \in {"lazy", "lock", "wlock"})
      ~> (pc[t].at = "run")
=============================================================================
