-------------------------- MODULE RoundRobinProofs --------------------------
(***************************************************************************)
(* The scheduler's safety properties, for every set of tasks: IndInv is    *)
(* inductive and implies them.                                             *)
(***************************************************************************)
EXTENDS RoundRobin, SchedulingProofs

\* The time that a leaf may take.
USE SMTT(30)

\* The state before the first spawn.
LEMMA InitIndInv == Init => IndInv
  <1> SUFFICES ASSUME Init PROVE IndInv
    OBVIOUS
  <1>1. /\ sched \in SchedState /\ ~sched.panic /\ sched.queue = <<>>
        /\ sched.current = NoTask /\ \A t \in Task : sched.run[t] = "Absent"
    BY DEF Init, EmptySched, SchedState
  <1>2. QueueOK(sched)
    BY <1>1 DEF QueueOK
  <1>3. CurrentOK(sched)
    BY <1>1, TaskAssumption DEF CurrentOK
  <1> QED BY <1>1, <1>2, <1>3, TaskAssumption DEF IndInv, SchedOK, IdleIsRunnable

\* Each action keeps the invariant.
LEMMA NextIndInv == IndInv /\ [Next]_vars => IndInv'
  <1> SUFFICES ASSUME IndInv, [Next]_vars PROVE IndInv'
    OBVIOUS
  <1>0. /\ SchedOK(sched) /\ IdleIsRunnable /\ Idle \in Task /\ NoTask \notin Task
        /\ sched \in SchedState /\ CurrentOK(sched)
    BY TaskAssumption DEF IndInv, SchedOK
  <1>idle. ASSUME sched.current # NoTask, sched.current # Idle
           PROVE  sched.run[Idle] = "Ready" /\ sched.current \in Task
    BY <1>0, <1>idle DEF CurrentOK, IdleIsRunnable, SchedState
  <1>1. ASSUME NEW t \in Task, BootSpawn(t) \/ Spawn(t) PROVE IndInv'
    <2>1. sched' = RegisterNewTask(CreateTask(sched, t), t) /\ sched.run[t] = "Absent"
      BY <1>1 DEF BootSpawn, Spawn, Spawned
    <2>2. /\ SchedOK(sched') /\ sched'.current = sched.current
          /\ sched'.run = [sched.run EXCEPT ![t] = "Ready"]
      BY <1>0, <2>1, SpawnKeeps
    <2>3. \A u \in Task : sched'.run[u] = IF u = t THEN "Ready" ELSE sched.run[u]
      BY <1>0, <2>2 DEF SchedState
    <2> QED BY <1>0, <2>2, <2>3 DEF IndInv, IdleIsRunnable
  <1>2. ASSUME NEW t \in Task, Wake(t) PROVE IndInv'
    <2>1. sched' = WakeUp(sched, t) /\ sched.run[t] # "Absent" /\ sched.current # NoTask
      BY <1>2 DEF Wake, Running
    <2>2. /\ SchedOK(sched') /\ sched'.current = sched.current
          /\ \A u \in Task : sched'.run[u] = sched.run[u] \/ sched'.run[u] = "Ready"
      BY <1>0, <2>1, WakeUpKeeps
    <2> QED BY <1>0, <2>1, <2>2 DEF IndInv, IdleIsRunnable
  <1>3. ASSUME StartScheduler PROVE IndInv'
    <2>1. /\ sched' = Schedule(sched) /\ sched.current = NoTask
          /\ sched.run[Idle] = "Ready"
      BY <1>0, <1>3 DEF StartScheduler, IdleIsRunnable, CurrentOK
    <2>2. /\ SchedOK(sched')
          /\ \A u \in Task : \/ sched'.run[u] = sched.run[u]
                             \/ sched.run[u] = "Ready" /\ sched'.run[u] = "Running"
      BY <1>0, <2>1, StartKeeps
    <2> QED BY <1>0, <2>1, <2>2 DEF IndInv, IdleIsRunnable
  <1>4. ASSUME SleepCurrent PROVE IndInv'
    <2>1. sched' = Sleep(sched) /\ sched.current # NoTask /\ sched.current # Idle
      BY <1>4 DEF SleepCurrent, Running
    <2>2. sched.run[Idle] = "Ready" /\ sched.current \in Task
      BY <1>idle, <2>1
    <2>3. /\ SchedOK(sched')
          /\ \A u \in Task : \/ u = sched.current
                             \/ sched'.run[u] = sched.run[u]
                             \/ sched.run[u] = "Ready" /\ sched'.run[u] = "Running"
      BY <1>0, <2>1, <2>2, SleepKeeps
    <2> QED BY <1>0, <2>1, <2>2, <2>3 DEF IndInv, IdleIsRunnable
  <1>5. ASSUME ExitCurrent PROVE IndInv'
    <2>1. /\ sched' = Schedule(DropTask(RemoveTask(sched, sched.current), sched.current))
          /\ sched.current # NoTask /\ sched.current # Idle
      BY <1>5 DEF ExitCurrent, Running
    <2>2. sched.run[Idle] = "Ready" /\ sched.current \in Task
      BY <1>idle, <2>1
    <2>3. /\ SchedOK(sched')
          /\ \A u \in Task : \/ u = sched.current
                             \/ sched'.run[u] = sched.run[u]
                             \/ sched.run[u] = "Ready" /\ sched'.run[u] = "Running"
      BY <1>0, <2>1, <2>2, ExitKeeps
    <2> QED BY <1>0, <2>1, <2>2, <2>3 DEF IndInv, IdleIsRunnable
  <1>6. ASSUME Tick PROVE IndInv'
    <2>1. sched' = TimerTick(sched) /\ sched.current \in Task /\ sched.current # NoTask
      BY <1>0, <1>6 DEF Tick, Running, SchedState
    <2>2. SchedOK(sched') /\ \A u \in Task : sched.run[u] \in {"Ready", "Running"}
                               => sched'.run[u] \in {"Ready", "Running"}
      BY <1>0, <2>1, TimerTickKeeps
    <2> QED BY <1>0, <2>1, <2>2 DEF IndInv, IdleIsRunnable
  <1>7. CASE UNCHANGED vars
    BY <1>0, <1>7 DEF vars, IndInv, IdleIsRunnable
  <1> QED BY <1>1, <1>2, <1>3, <1>4, <1>5, <1>6, <1>7 DEF Next

\* The invariant holds in every reachable state, for every set of tasks.
THEOREM Consistent == Spec => []IndInv
  BY InitIndInv, NextIndInv, PTL DEF Spec

\* The scheduler state keeps its type.
THEOREM TypeCorrect == Spec => []TypeOK
  <1>1. IndInv => TypeOK
    BY DEF IndInv, SchedOK, TypeOK
  <1> QED BY <1>1, Consistent, PTL

\* No panic!, unwrap or assertion of the scheduler ever fires.
THEOREM NeverPanics == Spec => []NoPanic
  <1>1. IndInv => NoPanic
    BY DEF IndInv, SchedOK, NoPanic
  <1> QED BY <1>1, Consistent, PTL

\* The run queue is the set of Ready tasks, without repetition.
THEOREM QueueIsReadySet == Spec => []RunQueueIsReadySet
  <1>1. ASSUME IndInv PROVE RunQueueIsReadySet
    <2>1. QueueOK(sched) /\ sched.queue \in Seq(Task)
      BY <1>1 DEF IndInv, SchedOK, SchedState
    <2>2. \A i \in 1..Len(sched.queue) : sched.queue[i] \in Task
      BY <2>1
    <2>3. DOMAIN sched.queue = 1..Len(sched.queue)
      BY <2>1
    <2>4. Range(sched.queue) = ReadyTasks
      BY <2>1, <2>2, <2>3 DEF Range, ReadyTasks, QueueOK
    <2>5. IsInjective(sched.queue)
      BY <2>1, <2>3 DEF IsInjective, QueueOK
    <2> QED BY <2>4, <2>5 DEF RunQueueIsReadySet
  <1> QED BY <1>1, Consistent, PTL

\* The current task is the only one that runs, and has its slice.
THEOREM CurrentRuns == Spec => []OnlyCurrentRuns
  <1>1. IndInv => OnlyCurrentRuns
    BY DEF IndInv, SchedOK, CurrentOK, OnlyCurrentRuns
  <1> QED BY <1>1, Consistent, PTL

\* What schedule() gives the processor to is the head of the queue, so no
\* queued task runs before the ones queued ahead of it.
LEMMA HeadRunsFirst ==
  ASSUME NEW q \in Seq(Task), NEW i \in DOMAIN q, NEW j \in DOMAIN q, i < j,
         \A k, l \in 1..Len(q) : q[k] = q[l] => k = l,
         NEW t \in Task
  PROVE  q[j] # Head(q) /\ q[j] # Head(Append(q, t))
  <1>1. i \in 1..Len(q) /\ j \in 1..Len(q) /\ Len(q) \in Nat /\ 1 \in 1..Len(q) /\ j # 1
    OBVIOUS
  <1>2. q[j] # q[1]
    BY <1>1
  <1>3. Head(q) = q[1]
    BY <1>1
  <1>4. Append(q, t) \in Seq(Task) /\ Len(Append(q, t)) = Len(q) + 1 /\ Append(q, t)[1] = q[1]
    BY <1>1, AppendFacts
  <1>5. Head(Append(q, t)) = q[1]
    BY <1>4
  <1> QED BY <1>2, <1>3, <1>5

\* Round robin: nobody runs before those ahead of it in the run queue,
\* whatever is spawned, woken, put to sleep or preempted in the step.
THEOREM RunsInQueueOrder == Spec => NoOvertaking
  <1>1. ASSUME IndInv, [Next]_vars
        PROVE  [\A i, j \in DOMAIN sched.queue :
                  (i < j /\ sched.queue[i] \in Range(sched'.queue))
                    => sched'.current # sched.queue[j]]_vars
    <2> SUFFICES ASSUME NEW i \in DOMAIN sched.queue, NEW j \in DOMAIN sched.queue, i < j
                 PROVE  sched'.current # sched.queue[j]
      OBVIOUS
    <2> DEFINE q == sched.queue
    <2>0. /\ SchedOK(sched) /\ IdleIsRunnable /\ Idle \in Task /\ NoTask \notin Task
          /\ sched \in SchedState /\ CurrentOK(sched) /\ QueueOK(sched) /\ q \in Seq(Task)
      BY <1>1, TaskAssumption DEF IndInv, SchedOK, SchedState
    <2>1. sched.current # q[j]
      <3>1. j \in 1..Len(q) /\ q[j] \in Task
        BY <2>0
      <3>2. sched.run[q[j]] = "Ready"
        BY <2>0, <3>1 DEF QueueOK
      <3> QED BY <2>0, <3>1, <3>2 DEF CurrentOK
    <2>2. \A t \in Task : q[j] # Head(q) /\ q[j] # Head(Append(q, t))
      BY <2>0, HeadRunsFirst DEF QueueOK
    <2>3. ASSUME NEW t \in Task, BootSpawn(t) \/ Spawn(t)
          PROVE  sched'.current = sched.current
      <3>1. sched' = RegisterNewTask(CreateTask(sched, t), t) /\ sched.run[t] = "Absent"
        BY <2>3 DEF BootSpawn, Spawn, Spawned
      <3> QED BY <2>0, <3>1, SpawnKeeps, ZenonT(30)
    <2>4. ASSUME NEW t \in Task, Wake(t) PROVE sched'.current = sched.current
      BY <2>0, <2>4, WakeUpKeeps DEF Wake
    <2>5. ASSUME StartScheduler PROVE sched'.current = Head(q)
      <3>1. /\ sched' = Schedule(sched) /\ sched.current = NoTask
            /\ sched.run[Idle] = "Ready"
        BY <2>0, <2>5 DEF StartScheduler, IdleIsRunnable, CurrentOK
      <3> QED BY <2>0, <3>1, StartKeeps
    <2>idle. ASSUME sched.current # NoTask, sched.current # Idle
             PROVE  sched.run[Idle] = "Ready" /\ sched.current \in Task
      BY <2>0, <2>idle DEF CurrentOK, IdleIsRunnable, SchedState
    <2>6. ASSUME SleepCurrent PROVE sched'.current = Head(q)
      <3>1. sched' = Sleep(sched) /\ sched.run[Idle] = "Ready" /\ sched.current \in Task
        BY <2>6, <2>idle DEF SleepCurrent, Running
      <3> QED BY <2>0, <3>1, SleepKeeps
    <2>7. ASSUME ExitCurrent PROVE sched'.current = Head(q)
      <3>1. /\ sched' = Schedule(DropTask(RemoveTask(sched, sched.current), sched.current))
            /\ sched.run[Idle] = "Ready" /\ sched.current \in Task
        BY <2>7, <2>idle DEF ExitCurrent, Running
      <3> QED BY <2>0, <3>1, ExitKeeps
    <2>8. ASSUME Tick PROVE sched.current \in Task /\ sched'.current = Head(Append(q, sched.current))
      <3>1. sched' = TimerTick(sched) /\ sched.current \in Task
        BY <2>0, <2>8 DEF Tick, Running, SchedState
      <3> QED BY <2>0, <3>1, TimerTickKeeps
    <2>9. CASE UNCHANGED vars
      BY <2>1, <2>9 DEF vars
    <2> HIDE DEF q
    <2>10. sched'.current # q[j]
      BY <1>1, <2>0, <2>1, <2>2, <2>3, <2>4, <2>5, <2>6, <2>7, <2>8, <2>9 DEF Next, q
    <2> QED BY <2>10 DEF q
  <1> QED BY <1>1, Consistent, PTL DEF Spec, NoOvertaking
=============================================================================
