----------------------------- MODULE RoundRobin -----------------------------
(***************************************************************************)
(* The scheduler as a closed system: the boot code that spawns the idle    *)
(* and the first processes and starts the scheduler (sophon/src/main.rs),  *)
(* running tasks that spawn, sleep, wake others up and exit, interrupt     *)
(* handlers that wake tasks up, and the timer.                             *)
(*                                                                         *)
(* Idle only executes wfe (runnables.rs), so it never sleeps or exits.     *)
(***************************************************************************)
EXTENDS SchedulerOps

VARIABLE sched

vars == <<sched>>

Running == sched.current # NoTask /\ ~sched.panic

Init == sched = EmptySched

\* PROCESS_MANAGER.spawn: Task::create, then register_new_task.
Spawned(t) == RegisterNewTask(CreateTask(sched, t), t)

\* _start spawns the idle process first, the others after it.
BootSpawn(t) ==
  /\ sched.current = NoTask /\ ~sched.panic
  /\ sched.run[t] = "Absent"
  /\ t = Idle \/ sched.run[Idle] # "Absent"
  /\ sched' = Spawned(t)

\* The last statement of _start.
StartScheduler ==
  /\ sched.current = NoTask /\ ~sched.panic
  /\ sched.run[Idle] # "Absent"
  /\ sched' = Schedule(sched)

\* A running task spawns another one.  The id of an exited task stands for
\* a fresh one: nothing in the scheduler remembers an Absent task.
Spawn(t) ==
  /\ Running /\ sched.current # Idle
  /\ sched.run[t] = "Absent" /\ t # Idle
  /\ sched' = Spawned(t)

\* Syscall::Wait
SleepCurrent ==
  /\ Running /\ sched.current # Idle
  /\ sched' = Sleep(sched)

\* A task, or an interrupt handler on top of any task, wakes t up.
Wake(t) ==
  /\ Running
  /\ sched.run[t] # "Absent"
  /\ sched' = WakeUp(sched, t)

\* Task::exit followed by schedule.
ExitCurrent ==
  /\ Running /\ sched.current # Idle
  /\ sched' = Schedule(DropTask(RemoveTask(sched, sched.current), sched.current))

Tick ==
  /\ Running
  /\ sched' = TimerTick(sched)

Next ==
  \/ \E t \in Task : BootSpawn(t) \/ Spawn(t) \/ Wake(t)
  \/ StartScheduler
  \/ SleepCurrent
  \/ ExitCurrent
  \/ Tick

Spec == Init /\ [][Next]_vars

\* The timer is programmed again on every tick, so ticks keep coming, and
\* _start ends with schedule().
FairSpec == Spec /\ WF_vars(Tick) /\ WF_vars(StartScheduler)

-----------------------------------------------------------------------------

TypeOK == sched \in SchedState

ReadyTasks == {t \in Task : sched.run[t] = "Ready"}

\* A Ready task is in the run queue exactly once, and nothing else is in
\* it: no wake_up, tick, spawn or exit loses a task, queues it twice or
\* leaves a stale id for get_next_schedulable_task to pop.
RunQueueIsReadySet ==
  /\ Range(sched.queue) = ReadyTasks
  /\ IsInjective(sched.queue)

\* At most one task is Running; it is current_task and has a whole time
\* slice left, so timer_tick never meets a zero slice.
OnlyCurrentRuns ==
  /\ \A t \in Task : sched.run[t] = "Running" <=> t = sched.current
  /\ sched.current # NoTask => sched.slice[sched.current] = UNIT_TIME_SLICE

\* The idle task is spawned before the scheduler is started and is never
\* asleep or gone after that.
IdleIsRunnable ==
  \/ sched.run[Idle] \in {"Ready", "Running"}
  \/ sched.run[Idle] = "Absent" /\ sched.current = NoTask

\* The inductive invariant behind the safety properties.
IndInv == SchedOK(sched) /\ IdleIsRunnable

\* No panic!, unwrap or assertion of the scheduler fires.  In particular
\* the run queue is never empty when schedule pops it ("We should at least
\* have an `idle` task that is runnable", lib.rs:66).
NoPanic == ~sched.panic

\* Round robin: while t stays queued nobody behind it in the queue runs
\* before it does.
NoOvertaking ==
  [][\A i, j \in DOMAIN sched.queue :
       (i < j /\ sched.queue[i] \in Range(sched'.queue))
         => sched'.current # sched.queue[j]]_vars

\* A task that is Ready eventually runs, whatever the others do, as long
\* as the timer ticks.
ReadyTaskRuns ==
  \A t \in Task : (sched.run[t] = "Ready") ~> (sched.run[t] = "Running")
=============================================================================
