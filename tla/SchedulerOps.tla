---------------------------- MODULE SchedulerOps ----------------------------
(***************************************************************************)
(* The round-robin scheduler (modules/round-robin/src/lib.rs) as functions *)
(* from a scheduler state to the next one.                                 *)
(*                                                                         *)
(* The kernel runs on one core (SERVICE.num_cores() = 1) and every         *)
(* function here is executed with interrupts masked, so each one is        *)
(* atomic.  The functions are written as operators and not as actions so   *)
(* that the locks, the process manager and the drivers can call several of *)
(* them in one handler, in the order the code does.                        *)
(*                                                                         *)
(* A scheduler state s is a record:                                        *)
(*   s.run[t]    State.run_state, or Absent when t is not in TASKS, in     *)
(*               which case get_state(t) unwraps a None                    *)
(*   s.slice[t]  State.time_slice_units                                    *)
(*   s.queue     per_core_task_queue (a FIFO SegQueue)                     *)
(*   s.current   current_task[0]                                           *)
(*   s.panic     the kernel has hit a panic!, a failed unwrap or a failed  *)
(*               assertion, and has halted (sophon/src/main.rs, panic)     *)
(***************************************************************************)
EXTENDS Integers, Sequences, Functions

CONSTANTS Task,     \* every TaskId that is ever handed out
          Idle,     \* the task of the idle process
          NoTask    \* current_task = None

ASSUME TaskAssumption == Idle \in Task /\ NoTask \notin Task

UNIT_TIME_SLICE == 1

RunState == {"Ready", "Running", "Sleeping"}

SchedState ==
  [run     : [Task -> RunState \cup {"Absent"}],
   slice   : [Task -> Nat],
   queue   : Seq(Task),
   current : Task \cup {NoTask},
   panic   : BOOLEAN]

\* The scheduler before any process exists.
EmptySched ==
  [run     |-> [t \in Task |-> "Absent"],
   slice   |-> [t \in Task |-> 0],
   queue   |-> <<>>,
   current |-> NoTask,
   panic   |-> FALSE]

Panic(s) == [s EXCEPT !.panic = TRUE]

-----------------------------------------------------------------------------
(* Mutants: what a slip in the code below would do.                        *)

SchedulePopsLast(s) ==
  LET last == s.queue[Len(s.queue)]
  IN  IF s.queue = <<>> \/ s.run[last] # "Ready" THEN Panic(s)
      ELSE [s EXCEPT !.run[last] = "Running",
                     !.slice[last] = UNIT_TIME_SLICE,
                     !.queue = SubSeq(@, 1, Len(@) - 1),
                     !.current = last]

EnqueueInFront(s) ==
  [s EXCEPT !.run[s.current] = "Ready", !.queue = <<s.current>> \o @]

RemoveTaskKeepsCurrent(s, t) == s

WakeUpUnconditional(s, t) ==
  [s EXCEPT !.run[t] = "Ready", !.queue = Append(@, t)]

-----------------------------------------------------------------------------

\* Task::create: a new Ready state is boxed and the task enters TASKS.
CreateTask(s, t) == [s EXCEPT !.run[t] = "Ready", !.slice[t] = 0]

\* register_new_task
RegisterNewTask(s, t) ==
  IF s.run[t] = "Absent" THEN Panic(s)
  ELSE IF s.run[t] = "Ready" THEN [s EXCEPT !.queue = Append(@, t)]
  ELSE s

\* remove_task: only clears current_task; a queued id stays queued.
RemoveTask(s, t) ==
  IF s.current = t THEN [s EXCEPT !.current = NoTask] ELSE s

\* TASKS.lock().remove(t).unwrap()
DropTask(s, t) ==
  IF s.run[t] = "Absent" THEN Panic(s)
  ELSE [s EXCEPT !.run[t] = "Absent", !.slice[t] = 0]

\* enqueue_current_task_as_ready
EnqueueCurrentTaskAsReady(s) ==
  IF s.current = NoTask THEN Panic(s)
  ELSE IF s.run[s.current] \in {"Absent", "Ready"} THEN Panic(s)
  ELSE [s EXCEPT !.run[s.current] = "Ready",
                 !.queue = Append(@, s.current)]

\* schedule, up to return_to_user; get_next_schedulable_task is the pop.
Schedule(s) ==
  IF s.current # NoTask /\ s.run[s.current] = "Absent" THEN Panic(s)
  ELSE IF s.current # NoTask /\ s.run[s.current] = "Running" THEN s
  ELSE IF s.queue = <<>> THEN Panic(s)
  ELSE IF s.run[Head(s.queue)] # "Ready" THEN Panic(s)
  ELSE [s EXCEPT !.run[Head(s.queue)]   = "Running",
                 !.slice[Head(s.queue)] = UNIT_TIME_SLICE,
                 !.queue                = Tail(@),
                 !.current              = Head(s.queue)]

\* sleep: never returns, the task resumes where it slept once it is woken
\* and scheduled again.
Sleep(s) ==
  IF s.current = NoTask THEN Panic(s)
  ELSE IF s.run[s.current] # "Running" THEN Panic(s)
  ELSE Schedule([s EXCEPT !.run[s.current] = "Sleeping"])

\* wake_up: leaves no token behind when the task is not asleep.
WakeUp(s, t) ==
  IF s.run[t] = "Absent" THEN Panic(s)
  ELSE IF s.run[t] = "Sleeping"
       THEN [s EXCEPT !.run[t] = "Ready", !.queue = Append(@, t)]
       ELSE s

\* timer_tick
TimerTick(s) ==
  IF s.current = NoTask THEN Panic(s)
  ELSE IF s.run[s.current] # "Running" \/ s.slice[s.current] = 0 THEN Panic(s)
  ELSE LET ticked == [s EXCEPT !.slice[s.current] = @ - 1]
       IN  IF s.slice[s.current] = 1
           THEN Schedule(EnqueueCurrentTaskAsReady(ticked))
           ELSE ticked

-----------------------------------------------------------------------------
(* What every function above keeps of a scheduler state, given that it is  *)
(* called as the kernel calls it.                                          *)

\* The run queue holds each Ready task once and nothing else.
QueueOK(s) ==
  /\ \A t \in Task : s.run[t] = "Ready" <=> \E i \in 1..Len(s.queue) : s.queue[i] = t
  /\ \A i, j \in 1..Len(s.queue) : s.queue[i] = s.queue[j] => i = j

\* The current task, if there is one, is the one that runs, on a full slice.
CurrentOK(s) ==
  /\ \A t \in Task : s.run[t] = "Running" <=> t = s.current
  /\ s.current # NoTask => s.slice[s.current] = UNIT_TIME_SLICE

SchedOK(s) == s \in SchedState /\ ~s.panic /\ QueueOK(s) /\ CurrentOK(s)

\* A state in which schedule() takes the next task from the queue.
Switching(s) ==
  /\ s \in SchedState /\ ~s.panic /\ QueueOK(s)
  /\ \A t \in Task : s.run[t] # "Running"
  /\ s.current # NoTask => s.run[s.current] # "Absent"
  /\ \E t \in Task : s.run[t] = "Ready"
=============================================================================
