-------------------------- MODULE SchedulingProofs --------------------------
(***************************************************************************)
(* The functions of the scheduler keep SchedOK, and those of RawMutex and  *)
(* RawCondvar keep it too and every waiter asleep, for any tasks and any   *)
(* locks.                                                                  *)
(***************************************************************************)
EXTENDS LockOps, TLAPS

\* The time that a leaf may take.
USE SMTT(30)

-----------------------------------------------------------------------------
(* The run queue.                                                          *)

\* SegQueue::push.
LEMMA AppendFacts ==
  ASSUME NEW q \in Seq(Task), NEW t \in Task
  PROVE  /\ Append(q, t) \in Seq(Task)
         /\ Len(q) \in Nat
         /\ Len(Append(q, t)) = Len(q) + 1
         /\ \A i \in 1..Len(q) : Append(q, t)[i] = q[i] /\ q[i] \in Task
         /\ Append(q, t)[Len(q) + 1] = t
  OBVIOUS

\* SegQueue::pop.
LEMMA TailFacts ==
  ASSUME NEW q \in Seq(Task), q # <<>>
  PROVE  /\ Len(q) \in Nat /\ Len(q) >= 1
         /\ Head(q) = q[1] /\ Head(q) \in Task
         /\ Tail(q) \in Seq(Task) /\ Len(Tail(q)) = Len(q) - 1
         /\ \A i \in 1..(Len(q) - 1) : Tail(q)[i] = q[i + 1]
  OBVIOUS

\* A task that becomes Ready is pushed: the queue is still the Ready set.
LEMMA EnqueueKeepsQueue ==
  ASSUME NEW s \in SchedState, QueueOK(s),
         NEW r \in SchedState, NEW t \in Task,
         s.run[t] # "Ready",
         r.run = [s.run EXCEPT ![t] = "Ready"],
         r.queue = Append(s.queue, t)
  PROVE  QueueOK(r)
  <1> DEFINE q == s.queue
  <1>1. q \in Seq(Task) /\ s.run \in [Task -> RunState \cup {"Absent"}]
    BY DEF SchedState
  <1>2. \A u \in Task : r.run[u] = IF u = t THEN "Ready" ELSE s.run[u]
    BY <1>1
  <1>3. /\ Len(q) \in Nat /\ Len(r.queue) = Len(q) + 1
        /\ \A i \in 1..Len(q) : r.queue[i] = q[i] /\ q[i] \in Task
        /\ r.queue[Len(q) + 1] = t
    BY <1>1, AppendFacts
  <1>4. \A i \in 1..Len(q) : q[i] # t
    BY <1>1, ZenonT(30) DEF QueueOK
  <1>5. ASSUME NEW u \in Task
        PROVE  r.run[u] = "Ready" <=> \E i \in 1..Len(r.queue) : r.queue[i] = u
    BY <1>2, <1>3, <1>5 DEF QueueOK
  <1>6. ASSUME NEW i \in 1..Len(r.queue), NEW j \in 1..Len(r.queue),
               r.queue[i] = r.queue[j]
        PROVE  i = j
    BY <1>3, <1>4, <1>6 DEF QueueOK
  <1> QED BY <1>5, <1>6, ZenonT(30) DEF QueueOK

\* get_next_schedulable_task pops the head, which becomes Running.
LEMMA DequeueKeepsQueue ==
  ASSUME NEW s \in SchedState, QueueOK(s), s.queue # <<>>,
         NEW r \in SchedState,
         r.run = [s.run EXCEPT ![Head(s.queue)] = "Running"],
         r.queue = Tail(s.queue)
  PROVE  QueueOK(r)
  <1> DEFINE q == s.queue
  <1>1. q \in Seq(Task) /\ s.run \in [Task -> RunState \cup {"Absent"}]
    BY DEF SchedState
  <1>2. /\ Len(q) \in Nat /\ Len(q) >= 1
        /\ Head(q) = q[1] /\ Head(q) \in Task
        /\ Len(r.queue) = Len(q) - 1
        /\ \A i \in 1..(Len(q) - 1) : r.queue[i] = q[i + 1]
    BY <1>1, TailFacts
  <1>3. \A u \in Task : r.run[u] = IF u = q[1] THEN "Running" ELSE s.run[u]
    BY <1>1, <1>2
  <1>4. ASSUME NEW u \in Task, r.run[u] = "Ready"
        PROVE  \E i \in 1..Len(r.queue) : r.queue[i] = u
    <2>1. PICK k \in 1..Len(q) : q[k] = u
      BY <1>3, <1>4 DEF QueueOK
    <2>2. k # 1 /\ k - 1 \in 1..Len(r.queue)
      BY <1>2, <1>3, <1>4, <2>1
    <2>3. r.queue[k - 1] = u
      BY <1>2, <2>1, <2>2
    <2> QED BY <2>2, <2>3
  <1>5. ASSUME NEW u \in Task, NEW i \in 1..Len(r.queue), r.queue[i] = u
        PROVE  r.run[u] = "Ready"
    <2>1. i + 1 \in 1..Len(q) /\ i + 1 # 1 /\ q[i + 1] = u /\ 1 \in 1..Len(q)
      BY <1>2, <1>5
    <2>2. u # q[1]
      BY <2>1 DEF QueueOK
    <2>3. s.run[u] = "Ready"
      BY <2>1 DEF QueueOK
    <2> QED BY <1>3, <2>2, <2>3
  <1>6. ASSUME NEW i \in 1..Len(r.queue), NEW j \in 1..Len(r.queue),
               r.queue[i] = r.queue[j]
        PROVE  i = j
    <2>1. i + 1 \in 1..Len(q) /\ j + 1 \in 1..Len(q) /\ q[i + 1] = q[j + 1]
      BY <1>2, <1>6
    <2>2. i + 1 = j + 1
      BY <2>1 DEF QueueOK
    <2> QED BY <1>2, <2>2
  <1> QED BY <1>4, <1>5, <1>6 DEF QueueOK

-----------------------------------------------------------------------------
(* The functions.                                                          *)

\* What schedule() leaves: a consistent state in which the head of the queue
\* runs and every other task is as it was.
LEMMA ScheduleSwitches ==
  ASSUME NEW s, Switching(s)
  PROVE  /\ SchedOK(Schedule(s))
         /\ Schedule(s).current \in Task
         /\ Schedule(s).current = Head(s.queue)
         /\ \A t \in Task : \/ Schedule(s).run[t] = s.run[t]
                            \/ s.run[t] = "Ready" /\ Schedule(s).run[t] = "Running"
  <1> DEFINE h == Head(s.queue)
             r == [s EXCEPT !.run[h] = "Running", !.slice[h] = UNIT_TIME_SLICE,
                            !.queue = Tail(@), !.current = h]
  <1>1. s \in SchedState /\ ~s.panic /\ QueueOK(s)
    BY DEF Switching
  <1>2. s.queue \in Seq(Task) /\ s.queue # <<>>
    BY <1>1 DEF Switching, QueueOK, SchedState
  <1>3. h \in Task /\ h = s.queue[1] /\ 1 \in 1..Len(s.queue) /\ Tail(s.queue) \in Seq(Task)
    BY <1>2, TailFacts
  <1>4. s.run[h] = "Ready"
    BY <1>1, <1>3 DEF QueueOK
  <1>5. Schedule(s) = r
    BY <1>1, <1>2, <1>3, <1>4 DEF Schedule, Switching, SchedState
  <1>6. r \in SchedState
    BY <1>1, <1>3, ZenonT(30) DEF SchedState, RunState, UNIT_TIME_SLICE
  <1>7. /\ r.run = [s.run EXCEPT ![h] = "Running"]
        /\ r.slice = [s.slice EXCEPT ![h] = UNIT_TIME_SLICE]
        /\ r.queue = Tail(s.queue) /\ r.current = h /\ ~r.panic
    BY <1>1 DEF SchedState
  <1>8. QueueOK(r)
    BY <1>1, <1>2, <1>6, <1>7, DequeueKeepsQueue, ZenonT(30)
  <1>9. \A t \in Task : r.run[t] = IF t = h THEN "Running" ELSE s.run[t]
    BY <1>1, <1>7 DEF SchedState
  <1>10. CurrentOK(r)
    BY <1>1, <1>3, <1>7, <1>9 DEF CurrentOK, Switching, SchedState
  <1> HIDE DEF r
  <1> QED BY <1>3, <1>4, <1>5, <1>6, <1>7, <1>8, <1>9, <1>10 DEF SchedOK

\* Task::create and register_new_task.
LEMMA SpawnKeeps ==
  ASSUME NEW s, SchedOK(s), NEW t \in Task, s.run[t] = "Absent"
  PROVE  LET r == RegisterNewTask(CreateTask(s, t), t) IN
         /\ SchedOK(r)
         /\ r.current = s.current
         /\ r.run = [s.run EXCEPT ![t] = "Ready"]
  <1> DEFINE c == CreateTask(s, t)
             r == RegisterNewTask(c, t)
  <1>1. s \in SchedState /\ ~s.panic /\ QueueOK(s) /\ CurrentOK(s)
    BY DEF SchedOK
  <1>2. /\ c \in SchedState /\ c.run = [s.run EXCEPT ![t] = "Ready"]
        /\ c.slice = [s.slice EXCEPT ![t] = 0]
        /\ c.queue = s.queue /\ c.current = s.current /\ c.panic = s.panic
    BY <1>1, ZenonT(30) DEF CreateTask, SchedState, RunState
  <1>3. c.run[t] = "Ready"
    BY <1>1, <1>2 DEF SchedState
  <1> HIDE DEF c
  <1>4. r = [c EXCEPT !.queue = Append(c.queue, t)]
    BY <1>3 DEF RegisterNewTask
  <1> HIDE DEF r
  <1>a. s.queue \in Seq(Task) /\ Append(s.queue, t) \in Seq(Task)
    BY <1>1, AppendFacts DEF SchedState
  <1>5. /\ r \in SchedState /\ r.run = c.run /\ r.slice = c.slice
        /\ r.queue = Append(s.queue, t) /\ r.current = s.current /\ ~r.panic
    BY <1>1, <1>2, <1>4, <1>a, ZenonT(30) DEF SchedState
  <1>6. QueueOK(r)
    BY <1>1, <1>2, <1>5, EnqueueKeepsQueue
  <1>7. t # s.current
    BY <1>1 DEF CurrentOK
  <1>8. CurrentOK(r)
    <2>a. s.run \in [Task -> RunState \cup {"Absent"}] /\ r.run = [s.run EXCEPT ![t] = "Ready"]
      BY <1>1, <1>2, <1>5 DEF SchedState
    <2>1. \A u \in Task : r.run[u] = IF u = t THEN "Ready" ELSE s.run[u]
      BY <2>a
    <2>2. \A u \in Task : r.run[u] = "Running" <=> u = r.current
      BY <1>1, <1>5, <1>7, <2>1 DEF CurrentOK
    <2>3. r.current # NoTask => r.slice[r.current] = s.slice[s.current]
      BY <1>1, <1>2, <1>5, <1>7 DEF SchedState
    <2> QED BY <1>1, <1>5, <2>2, <2>3 DEF CurrentOK
  <1>9. SchedOK(r) /\ r.current = s.current /\ r.run = [s.run EXCEPT ![t] = "Ready"]
    BY <1>2, <1>5, <1>6, <1>8 DEF SchedOK
  <1> QED BY <1>9 DEF r, c

\* wake_up on a task that exists, asleep or not.
LEMMA WakeUpKeeps ==
  ASSUME NEW s, SchedOK(s), NEW t \in Task, s.run[t] # "Absent"
  PROVE  /\ SchedOK(WakeUp(s, t))
         /\ WakeUp(s, t).current = s.current
         /\ \A u \in Task : \/ WakeUp(s, t).run[u] = s.run[u]
                            \/ WakeUp(s, t).run[u] = "Ready"
  <1> DEFINE r == WakeUp(s, t)
  <1>1. s \in SchedState /\ ~s.panic /\ QueueOK(s) /\ CurrentOK(s)
    BY DEF SchedOK
  <1>2. CASE s.run[t] # "Sleeping"
    BY <1>2 DEF WakeUp
  <1>3. CASE s.run[t] = "Sleeping"
    <2>1. r = [s EXCEPT !.run[t] = "Ready", !.queue = Append(s.queue, t)]
      BY <1>1, <1>3 DEF WakeUp, SchedState
    <2> HIDE DEF r
    <2>a. s.queue \in Seq(Task) /\ Append(s.queue, t) \in Seq(Task)
      BY <1>1, AppendFacts DEF SchedState
    <2>2. /\ r \in SchedState /\ r.run = [s.run EXCEPT ![t] = "Ready"]
          /\ r.slice = s.slice /\ r.queue = Append(s.queue, t)
          /\ r.current = s.current /\ ~r.panic
      BY <1>1, <2>1, <2>a, ZenonT(30) DEF SchedState, RunState
    <2>3. QueueOK(r)
      BY <1>1, <1>3, <2>2, EnqueueKeepsQueue
    <2>4. CurrentOK(r)
      BY <1>1, <1>3, <2>2 DEF CurrentOK, SchedState
    <2>5. /\ SchedOK(r) /\ r.current = s.current
          /\ \A u \in Task : r.run[u] = s.run[u] \/ r.run[u] = "Ready"
      BY <1>1, <2>2, <2>3, <2>4 DEF SchedOK, SchedState
    <2> QED BY <2>5 DEF r
  <1> QED BY <1>2, <1>3

\* sleep, while some other task is Ready.
LEMMA SleepKeeps ==
  ASSUME NEW s, SchedOK(s), s.current \in Task,
         NEW i \in Task, s.run[i] = "Ready"
  PROVE  /\ SchedOK(Sleep(s))
         /\ Sleep(s).current \in Task
         /\ Sleep(s).current = Head(s.queue)
         /\ Sleep(s).run[s.current] = "Sleeping"
         /\ \A u \in Task : \/ u = s.current
                            \/ Sleep(s).run[u] = s.run[u]
                            \/ s.run[u] = "Ready" /\ Sleep(s).run[u] = "Running"
  <1> DEFINE r == [s EXCEPT !.run[s.current] = "Sleeping"]
  <1>1. s \in SchedState /\ ~s.panic /\ QueueOK(s) /\ CurrentOK(s)
    BY DEF SchedOK
  <1>2. s.run[s.current] = "Running" /\ s.current # NoTask
    BY <1>1, TaskAssumption DEF CurrentOK
  <1>3. Sleep(s) = Schedule(r)
    BY <1>2 DEF Sleep
  <1>4. /\ r \in SchedState /\ r.run = [s.run EXCEPT ![s.current] = "Sleeping"]
        /\ r.queue = s.queue /\ r.current = s.current /\ ~r.panic
    BY <1>1, ZenonT(30) DEF SchedState, RunState
  <1> HIDE DEF r
  <1>5. \A u \in Task : r.run[u] = IF u = s.current THEN "Sleeping" ELSE s.run[u]
    BY <1>1, <1>4 DEF SchedState
  <1>6. QueueOK(r)
    <2>1. \A u \in Task : r.run[u] = "Ready" <=> s.run[u] = "Ready"
      BY <1>2, <1>5
    <2> QED BY <1>1, <1>4, <2>1 DEF QueueOK
  <1>7. Switching(r)
    BY <1>1, <1>2, <1>4, <1>5, <1>6 DEF Switching, CurrentOK
  <1>8. /\ SchedOK(Schedule(r)) /\ Schedule(r).current \in Task
        /\ Schedule(r).current = Head(r.queue)
        /\ \A u \in Task : \/ Schedule(r).run[u] = r.run[u]
                           \/ r.run[u] = "Ready" /\ Schedule(r).run[u] = "Running"
    BY <1>7, ScheduleSwitches
  <1>9. Head(r.queue) = Head(s.queue)
    BY <1>4
  <1> QED BY <1>3, <1>5, <1>8, <1>9

\* timer_tick: the slice of one unit is used up, the task goes to the end of
\* the queue and the head of the queue runs, perhaps the same task.
LEMMA TimerTickKeeps ==
  ASSUME NEW s, SchedOK(s), s.current \in Task
  PROVE  /\ SchedOK(TimerTick(s))
         /\ TimerTick(s).current \in Task
         /\ TimerTick(s).current = Head(Append(s.queue, s.current))
         /\ \A u \in Task : s.run[u] \in {"Ready", "Running"}
                              => TimerTick(s).run[u] \in {"Ready", "Running"}
         /\ \A u \in Task : s.run[u] \in {"Sleeping", "Absent"}
                              => TimerTick(s).run[u] = s.run[u]
  <1> DEFINE c == s.current
             k == [s EXCEPT !.slice[c] = @ - 1]
             r == [k EXCEPT !.run[c] = "Ready", !.queue = Append(s.queue, c)]
  <1>1. s \in SchedState /\ ~s.panic /\ QueueOK(s) /\ CurrentOK(s)
    BY DEF SchedOK
  <1>2. s.run[c] = "Running" /\ c # NoTask /\ s.slice[c] = 1
    BY <1>1, TaskAssumption DEF CurrentOK, UNIT_TIME_SLICE
  <1>c. k = [s EXCEPT !.slice = [s.slice EXCEPT ![c] = 0]]
    BY <1>2
  <1>d. [s.slice EXCEPT ![c] = 0] \in [Task -> Nat]
    BY <1>1 DEF SchedState
  <1>3. /\ k \in SchedState /\ k.run = s.run /\ k.queue = s.queue
        /\ k.current = c /\ ~k.panic
    BY <1>1, <1>c, <1>d, ZenonT(30) DEF SchedState
  <1>4. TimerTick(s) = Schedule(EnqueueCurrentTaskAsReady(k))
    BY <1>2 DEF TimerTick
  <1> HIDE DEF k
  <1>a. k.current # NoTask /\ k.run[k.current] \notin {"Absent", "Ready"}
    BY <1>2, <1>3
  <1>b. r = [k EXCEPT !.run[k.current] = "Ready", !.queue = Append(@, k.current)]
    BY <1>3
  <1>5. EnqueueCurrentTaskAsReady(k) = r
    BY <1>a, <1>b, ZenonT(30) DEF EnqueueCurrentTaskAsReady
  <1>6. s.queue \in Seq(Task) /\ Append(s.queue, c) \in Seq(Task)
    BY <1>1, AppendFacts DEF SchedState
  <1>7. /\ r \in SchedState /\ r.run = [s.run EXCEPT ![c] = "Ready"]
        /\ r.queue = Append(s.queue, c) /\ r.current = c /\ ~r.panic
    BY <1>3, <1>6, ZenonT(30) DEF SchedState, RunState
  <1> HIDE DEF r
  <1>8. \A u \in Task : r.run[u] = IF u = c THEN "Ready" ELSE s.run[u]
    BY <1>1, <1>7 DEF SchedState
  <1>9. QueueOK(r)
    BY <1>1, <1>2, <1>7, EnqueueKeepsQueue
  <1>10. Switching(r)
    BY <1>1, <1>2, <1>7, <1>8, <1>9 DEF Switching, CurrentOK
  <1>11. /\ SchedOK(Schedule(r)) /\ Schedule(r).current \in Task
         /\ Schedule(r).current = Head(r.queue)
         /\ \A u \in Task : \/ Schedule(r).run[u] = r.run[u]
                            \/ r.run[u] = "Ready" /\ Schedule(r).run[u] = "Running"
    BY <1>10, ScheduleSwitches
  <1>12. Head(r.queue) = Head(Append(s.queue, s.current))
    BY <1>7
  <1> QED BY <1>2, <1>4, <1>5, <1>8, <1>11, <1>12

\* Task::exit by the current task, and schedule, while another is Ready.
LEMMA ExitKeeps ==
  ASSUME NEW s, SchedOK(s), s.current \in Task,
         NEW i \in Task, s.run[i] = "Ready"
  PROVE  LET r == Schedule(DropTask(RemoveTask(s, s.current), s.current)) IN
         /\ SchedOK(r)
         /\ r.current \in Task
         /\ r.current = Head(s.queue)
         /\ r.run[s.current] = "Absent"
         /\ \A u \in Task : \/ u = s.current
                            \/ r.run[u] = s.run[u]
                            \/ s.run[u] = "Ready" /\ r.run[u] = "Running"
  <1> DEFINE c == s.current
             k == [s EXCEPT !.current = NoTask]
             d == [k EXCEPT !.run[c] = "Absent", !.slice[c] = 0]
  <1>1. s \in SchedState /\ ~s.panic /\ QueueOK(s) /\ CurrentOK(s)
    BY DEF SchedOK
  <1>2. s.run[c] = "Running" /\ c # NoTask
    BY <1>1, TaskAssumption DEF CurrentOK
  <1>3. RemoveTask(s, c) = k
    BY DEF RemoveTask
  <1>4. /\ k \in SchedState /\ k.run = s.run /\ k.queue = s.queue
        /\ k.slice = s.slice /\ k.current = NoTask /\ ~k.panic
    BY <1>1, ZenonT(30) DEF SchedState
  <1> HIDE DEF k
  <1>5. DropTask(k, c) = d
    BY <1>2, <1>4 DEF DropTask
  <1>6. /\ d \in SchedState /\ d.run = [s.run EXCEPT ![c] = "Absent"]
        /\ d.queue = s.queue /\ d.current = NoTask /\ ~d.panic
    BY <1>4, ZenonT(30) DEF SchedState, RunState
  <1> HIDE DEF d
  <1>7. \A u \in Task : d.run[u] = IF u = c THEN "Absent" ELSE s.run[u]
    BY <1>1, <1>6 DEF SchedState
  <1>8. QueueOK(d)
    <2>1. \A u \in Task : d.run[u] = "Ready" <=> s.run[u] = "Ready"
      BY <1>2, <1>7
    <2> QED BY <1>1, <1>6, <2>1 DEF QueueOK
  <1>9. Switching(d)
    BY <1>1, <1>2, <1>6, <1>7, <1>8 DEF Switching, CurrentOK
  <1>10. /\ SchedOK(Schedule(d)) /\ Schedule(d).current \in Task
         /\ Schedule(d).current = Head(s.queue) /\ Schedule(d).run[c] = "Absent"
         /\ \A u \in Task : \/ u = c
                            \/ Schedule(d).run[u] = s.run[u]
                            \/ s.run[u] = "Ready" /\ Schedule(d).run[u] = "Running"
    <2>1. /\ SchedOK(Schedule(d)) /\ Schedule(d).current \in Task
          /\ Schedule(d).current = Head(d.queue)
          /\ \A u \in Task : \/ Schedule(d).run[u] = d.run[u]
                             \/ d.run[u] = "Ready" /\ Schedule(d).run[u] = "Running"
      BY <1>9, ScheduleSwitches
    <2>2. Head(d.queue) = Head(s.queue)
      BY <1>6
    <2> QED BY <1>7, <2>1, <2>2
  <1> QED BY <1>3, <1>5, <1>10

\* The first schedule, from _start.
LEMMA StartKeeps ==
  ASSUME NEW s, SchedOK(s), s.current = NoTask,
         NEW i \in Task, s.run[i] = "Ready"
  PROVE  /\ SchedOK(Schedule(s))
         /\ Schedule(s).current \in Task
         /\ Schedule(s).current = Head(s.queue)
         /\ \A t \in Task : \/ Schedule(s).run[t] = s.run[t]
                            \/ s.run[t] = "Ready" /\ Schedule(s).run[t] = "Running"
  <1>1. Switching(s)
    BY TaskAssumption DEF SchedOK, CurrentOK, Switching
  <1> QED BY <1>1, ScheduleSwitches

-----------------------------------------------------------------------------
(* Waking a waiters list.                                                  *)

\* `waiters` after the run queue: where each entry ends up.
LEMMA ConcatFacts ==
  ASSUME NEW q \in Seq(Task), NEW w \in Seq(Task)
  PROVE  /\ q \o w \in Seq(Task)
         /\ Len(q) \in Nat /\ Len(w) \in Nat
         /\ Len(q \o w) = Len(q) + Len(w)
         /\ \A i \in 1..Len(q) : (q \o w)[i] = q[i] /\ q[i] \in Task
         /\ \A i \in 1..Len(w) : (q \o w)[Len(q) + i] = w[i] /\ w[i] \in Task
         /\ DOMAIN w = 1..Len(w)
  OBVIOUS

\* `for t in &*waiters { wake_up(*t) }` on distinct sleeping tasks: they are
\* Ready, every other task is as it was, and the scheduler stays consistent.
LEMMA WakeAllKeeps ==
  ASSUME NEW s, SchedOK(s), NEW w \in Seq(Task),
         \A i \in 1..Len(w) : s.run[w[i]] = "Sleeping",
         \A i, j \in 1..Len(w) : w[i] = w[j] => i = j
  PROVE  /\ SchedOK(WakeAll(s, w))
         /\ WakeAll(s, w).current = s.current
         /\ \A u \in Task : \/ WakeAll(s, w).run[u] = s.run[u]
                            \/ s.run[u] = "Sleeping" /\ WakeAll(s, w).run[u] = "Ready"
         /\ \A u \in Task : (\A i \in 1..Len(w) : w[i] # u)
                              => WakeAll(s, w).run[u] = s.run[u]
  <1> DEFINE f == [t \in Task |-> IF t \in Range(w) THEN "Ready" ELSE s.run[t]]
             r == [s EXCEPT !.run = f, !.queue = s.queue \o w]
             q == s.queue
  <1>1. s \in SchedState /\ ~s.panic /\ QueueOK(s) /\ CurrentOK(s) /\ q \in Seq(Task)
    BY DEF SchedOK, SchedState
  <1>2. /\ q \o w \in Seq(Task)
        /\ Len(q) \in Nat /\ Len(w) \in Nat
        /\ Len(q \o w) = Len(q) + Len(w)
        /\ \A i \in 1..Len(q) : (q \o w)[i] = q[i] /\ q[i] \in Task
        /\ \A i \in 1..Len(w) : (q \o w)[Len(q) + i] = w[i] /\ w[i] \in Task
        /\ DOMAIN w = 1..Len(w)
    BY <1>1, ConcatFacts
  <1>3. WakeAll(s, w) = r
    BY <1>2 DEF WakeAll, IsInjective
  <1>4. \A u \in Task : f[u] = IF \E i \in 1..Len(w) : w[i] = u THEN "Ready" ELSE s.run[u]
    BY <1>2, ZenonT(30) DEF Range
  <1>5. f \in [Task -> RunState \cup {"Absent"}]
    BY <1>1 DEF SchedState, RunState
  <1> HIDE DEF f
  <1>6. /\ r \in SchedState /\ r.run = f /\ r.queue = q \o w
        /\ r.slice = s.slice /\ r.current = s.current /\ ~r.panic
    BY <1>1, <1>2, <1>5, ZenonT(30) DEF SchedState
  <1> HIDE DEF r
  <1>7. \A i \in 1..Len(q) : s.run[q[i]] = "Ready"
    BY <1>1, <1>2 DEF QueueOK
  <1>8. ASSUME NEW u \in Task
        PROVE  r.run[u] = "Ready" <=> \E i \in 1..Len(r.queue) : r.queue[i] = u
    <2>1. ASSUME r.run[u] = "Ready" PROVE \E i \in 1..Len(r.queue) : r.queue[i] = u
      <3>1. CASE \E i \in 1..Len(w) : w[i] = u
        <4>1. PICK i \in 1..Len(w) : w[i] = u
          BY <3>1
        <4>2. Len(q) + i \in 1..Len(r.queue) /\ r.queue[Len(q) + i] = u
          BY <4>1, <1>2, <1>6
        <4> QED BY <4>2
      <3>2. CASE s.run[u] = "Ready"
        <4>1. PICK i \in 1..Len(q) : q[i] = u
          BY <3>2, <1>1 DEF QueueOK
        <4>2. i \in 1..Len(r.queue) /\ r.queue[i] = u
          BY <4>1, <1>2, <1>6
        <4> QED BY <4>2
      <3> QED BY <2>1, <3>1, <3>2, <1>4, <1>6
    <2>2. ASSUME NEW i \in 1..Len(r.queue), r.queue[i] = u PROVE r.run[u] = "Ready"
      <3>1. CASE i \in 1..Len(q)
        <4>1. q[i] = u /\ s.run[u] = "Ready"
          BY <3>1, <2>2, <1>2, <1>6, <1>7
        <4> QED BY <4>1, <1>4, <1>6
      <3>2. CASE i \notin 1..Len(q)
        <4>1. i - Len(q) \in 1..Len(w) /\ i = Len(q) + (i - Len(q))
          BY <3>2, <1>2, <1>6
        <4>2. w[i - Len(q)] = u
          BY <4>1, <2>2, <1>2, <1>6
        <4> QED BY <4>1, <4>2, <1>4, <1>6
      <3> QED BY <3>1, <3>2
    <2> QED BY <2>1, <2>2
  <1>9. ASSUME NEW i \in 1..Len(r.queue), NEW j \in 1..Len(r.queue),
               r.queue[i] = r.queue[j]
        PROVE  i = j
    <2>1. ASSUME NEW k \in 1..Len(r.queue), k \notin 1..Len(q)
          PROVE  \E p \in 1..Len(w) : k = Len(q) + p /\ r.queue[k] = w[p]
      <3>1. k - Len(q) \in 1..Len(w) /\ k = Len(q) + (k - Len(q))
        BY <2>1, <1>2, <1>6
      <3>2. (q \o w)[Len(q) + (k - Len(q))] = w[k - Len(q)]
        BY <3>1, <1>2
      <3>3. r.queue[k] = w[k - Len(q)]
        BY <3>1, <3>2, <1>6
      <3> QED BY <3>1, <3>3, ZenonT(30)
    <2>2. \A k \in 1..Len(r.queue) : k \in 1..Len(q) => s.run[r.queue[k]] = "Ready"
      BY <1>2, <1>6, <1>7
    <2>3. ASSUME NEW k \in 1..Len(r.queue), k \notin 1..Len(q)
          PROVE  s.run[r.queue[k]] = "Sleeping"
      <3>1. PICK p \in 1..Len(w) : r.queue[k] = w[p]
        BY <2>1, <2>3
      <3>2. s.run[w[p]] = "Sleeping"
        OBVIOUS
      <3> QED BY <3>1, <3>2
    <2>4. i \in 1..Len(q) <=> j \in 1..Len(q)
      BY <2>2, <2>3, <1>9
    <2>5. CASE i \in 1..Len(q) /\ j \in 1..Len(q)
      BY <2>5, <1>1, <1>2, <1>6, <1>9 DEF QueueOK
    <2>6. CASE i \notin 1..Len(q) /\ j \notin 1..Len(q)
      <3>1. PICK a \in 1..Len(w) : i = Len(q) + a /\ r.queue[i] = w[a]
        BY <2>1, <2>6
      <3>2. PICK b \in 1..Len(w) : j = Len(q) + b /\ r.queue[j] = w[b]
        BY <2>1, <2>6
      <3>3. a = b
        BY <3>1, <3>2, <1>9, ZenonT(30)
      <3> QED BY <3>1, <3>2, <3>3
    <2> QED BY <2>4, <2>5, <2>6
  <1>10. QueueOK(r)
    BY <1>8, <1>9 DEF QueueOK
  <1>11. CurrentOK(r)
    BY <1>1, <1>4, <1>6 DEF CurrentOK
  <1>12. SchedOK(r)
    BY <1>6, <1>10, <1>11 DEF SchedOK
  <1>13. ASSUME NEW u \in Task
         PROVE  /\ r.run[u] = s.run[u] \/ (s.run[u] = "Sleeping" /\ r.run[u] = "Ready")
                /\ (\A i \in 1..Len(w) : w[i] # u) => r.run[u] = s.run[u]
    <2>1. CASE \E i \in 1..Len(w) : w[i] = u
      BY <1>4, <1>6, <2>1
    <2>2. CASE ~\E i \in 1..Len(w) : w[i] = u
      BY <1>4, <1>6, <2>2
    <2> QED BY <2>1, <2>2
  <1> QED BY <1>3, <1>6, <1>12, <1>13

-----------------------------------------------------------------------------
(* What each operation leaves in the three fields of the locks.            *)

\* waiters[x].push(t)
Pushed(w, x, t) == [w EXCEPT ![x] = Append(w[x], t)]

\* lock, the mutex was free.
LEMMA AcquiredFields ==
  ASSUME NEW l \in LockState, NEW m \in Mutex
  PROVE  /\ Acquired(l, m) \in LockState
         /\ Acquired(l, m).locked = [l.locked EXCEPT ![m] = TRUE]
         /\ Acquired(l, m).mwait = l.mwait
         /\ Acquired(l, m).cwait = l.cwait
  <1> DEFINE k == [l.locked EXCEPT ![m] = TRUE]
             w == l.mwait
             v == l.cwait
  <1>1. /\ l.locked \in [Mutex -> BOOLEAN] /\ l.mwait \in [Mutex -> Seq(Task)]
        /\ l.cwait \in [Cond -> Seq(Task)]
    BY DEF LockState
  <1>2. k \in [Mutex -> BOOLEAN] /\ w \in [Mutex -> Seq(Task)] /\ v \in [Cond -> Seq(Task)]
    BY <1>1, AppendFacts
  <1>3. Acquired(l, m) = [l EXCEPT !.locked = k]
    BY DEF Acquired
  <1>4. Acquired(l, m) \in LockState
    BY <1>2, <1>3, ZenonT(30) DEF LockState
  <1>5. Acquired(l, m).locked = k /\ Acquired(l, m).mwait = w /\ Acquired(l, m).cwait = v
    BY <1>3 DEF LockState
  <1> QED BY <1>4, <1>5

\* lock, the mutex was taken.
LEMMA QueuedFields ==
  ASSUME NEW l \in LockState, NEW m \in Mutex, NEW t \in Task
  PROVE  /\ Queued(l, m, t) \in LockState
         /\ Queued(l, m, t).locked = l.locked
         /\ Queued(l, m, t).mwait = Pushed(l.mwait, m, t)
         /\ Queued(l, m, t).cwait = l.cwait
  <1> DEFINE k == l.locked
             w == Pushed(l.mwait, m, t)
             v == l.cwait
  <1>1. /\ l.locked \in [Mutex -> BOOLEAN] /\ l.mwait \in [Mutex -> Seq(Task)]
        /\ l.cwait \in [Cond -> Seq(Task)]
    BY DEF LockState
  <1>2. k \in [Mutex -> BOOLEAN] /\ w \in [Mutex -> Seq(Task)] /\ v \in [Cond -> Seq(Task)]
    BY <1>1, AppendFacts DEF Pushed
  <1>3. Queued(l, m, t) = [l EXCEPT !.mwait = w]
    BY DEF Queued, Pushed
  <1>4. Queued(l, m, t) \in LockState
    BY <1>2, <1>3, ZenonT(30) DEF LockState
  <1>5. Queued(l, m, t).locked = k /\ Queued(l, m, t).mwait = w /\ Queued(l, m, t).cwait = v
    BY <1>3 DEF LockState
  <1> QED BY <1>4, <1>5

\* unlock.
LEMMA UnlockedFields ==
  ASSUME NEW l \in LockState, NEW m \in Mutex
  PROVE  /\ Unlocked(l, m) \in LockState
         /\ Unlocked(l, m).locked = [l.locked EXCEPT ![m] = FALSE]
         /\ Unlocked(l, m).mwait = [l.mwait EXCEPT ![m] = <<>>]
         /\ Unlocked(l, m).cwait = l.cwait
  <1> DEFINE k == [l.locked EXCEPT ![m] = FALSE]
             w == [l.mwait EXCEPT ![m] = <<>>]
             v == l.cwait
  <1>1. /\ l.locked \in [Mutex -> BOOLEAN] /\ l.mwait \in [Mutex -> Seq(Task)]
        /\ l.cwait \in [Cond -> Seq(Task)]
    BY DEF LockState
  <1>2. k \in [Mutex -> BOOLEAN] /\ w \in [Mutex -> Seq(Task)] /\ v \in [Cond -> Seq(Task)]
    BY <1>1, AppendFacts
  <1>3. Unlocked(l, m) = [l EXCEPT !.locked = k, !.mwait = w]
    BY DEF Unlocked
  <1>4. Unlocked(l, m) \in LockState
    BY <1>2, <1>3, ZenonT(30) DEF LockState
  <1>5. Unlocked(l, m).locked = k /\ Unlocked(l, m).mwait = w /\ Unlocked(l, m).cwait = v
    BY <1>3 DEF LockState
  <1> QED BY <1>4, <1>5

\* Condvar wait, up to the sleep.
LEMMA ParkedFields ==
  ASSUME NEW l \in LockState, NEW m \in Mutex, NEW c \in Cond, NEW t \in Task
  PROVE  /\ Parked(l, c, m, t) \in LockState
         /\ Parked(l, c, m, t).locked = [l.locked EXCEPT ![m] = FALSE]
         /\ Parked(l, c, m, t).mwait = [l.mwait EXCEPT ![m] = <<>>]
         /\ Parked(l, c, m, t).cwait = Pushed(l.cwait, c, t)
  <1> DEFINE k == [l.locked EXCEPT ![m] = FALSE]
             w == [l.mwait EXCEPT ![m] = <<>>]
             v == Pushed(l.cwait, c, t)
  <1>1. /\ l.locked \in [Mutex -> BOOLEAN] /\ l.mwait \in [Mutex -> Seq(Task)]
        /\ l.cwait \in [Cond -> Seq(Task)]
    BY DEF LockState
  <1>2. k \in [Mutex -> BOOLEAN] /\ w \in [Mutex -> Seq(Task)] /\ v \in [Cond -> Seq(Task)]
    BY <1>1, AppendFacts DEF Pushed
  <1>3. Parked(l, c, m, t) = [l EXCEPT !.locked = k, !.mwait = w, !.cwait = v]
    BY DEF Parked, Pushed
  <1>4. Parked(l, c, m, t) \in LockState
    BY <1>2, <1>3, ZenonT(30) DEF LockState
  <1>5. Parked(l, c, m, t).locked = k /\ Parked(l, c, m, t).mwait = w /\ Parked(l, c, m, t).cwait = v
    BY <1>3 DEF LockState
  <1> QED BY <1>4, <1>5

\* notify_all.
LEMMA NotifiedFields ==
  ASSUME NEW l \in LockState, NEW c \in Cond
  PROVE  /\ Notified(l, c) \in LockState
         /\ Notified(l, c).locked = l.locked
         /\ Notified(l, c).mwait = l.mwait
         /\ Notified(l, c).cwait = [l.cwait EXCEPT ![c] = <<>>]
  <1> DEFINE k == l.locked
             w == l.mwait
             v == [l.cwait EXCEPT ![c] = <<>>]
  <1>1. /\ l.locked \in [Mutex -> BOOLEAN] /\ l.mwait \in [Mutex -> Seq(Task)]
        /\ l.cwait \in [Cond -> Seq(Task)]
    BY DEF LockState
  <1>2. k \in [Mutex -> BOOLEAN] /\ w \in [Mutex -> Seq(Task)] /\ v \in [Cond -> Seq(Task)]
    BY <1>1, AppendFacts
  <1>3. Notified(l, c) = [l EXCEPT !.cwait = v]
    BY DEF Notified
  <1>4. Notified(l, c) \in LockState
    BY <1>2, <1>3, ZenonT(30) DEF LockState
  <1>5. Notified(l, c).locked = k /\ Notified(l, c).mwait = w /\ Notified(l, c).cwait = v
    BY <1>3 DEF LockState
  <1> QED BY <1>4, <1>5

-----------------------------------------------------------------------------
(* Families of waiters lists: w has a list for each lock in X.             *)

\* The entries are tasks.
LEMMA EntriesAreTasks ==
  ASSUME NEW X, NEW w \in [X -> Seq(Task)]
  PROVE  \A x \in X : \A i \in 1..Len(w[x]) : w[x][i] \in Task
  OBVIOUS

\* p is w with t pushed on the list of x, entry by entry.
PushedInto(X, p, w, x, t) ==
  /\ p \in [X -> Seq(Task)]
  /\ \A y \in X : \A i \in 1..Len(p[y]) :
       \/ i \in 1..Len(w[y]) /\ p[y][i] = w[y][i]
       \/ y = x /\ i = Len(w[x]) + 1 /\ p[y][i] = t

\* e is w with the list of x cleared, entry by entry.
EmptiedAt(X, e, w, x) ==
  /\ e \in [X -> Seq(Task)]
  /\ \A y \in X : \A i \in 1..Len(e[y]) :
       y # x /\ i \in 1..Len(w[y]) /\ e[y][i] = w[y][i]

\* push: the old entries stay and the new one comes last.
LEMMA PushedEntries ==
  ASSUME NEW X, NEW w \in [X -> Seq(Task)], NEW x \in X, NEW t \in Task
  PROVE  PushedInto(X, Pushed(w, x, t), w, x, t)
  <1> DEFINE p == Pushed(w, x, t)
             q == w[x]
  <1>1. q \in Seq(Task)
    OBVIOUS
  <1>2. /\ Append(q, t) \in Seq(Task) /\ Len(q) \in Nat
        /\ Len(Append(q, t)) = Len(q) + 1
        /\ \A i \in 1..Len(q) : Append(q, t)[i] = q[i]
        /\ Append(q, t)[Len(q) + 1] = t
    BY <1>1, AppendFacts
  <1>3. p \in [X -> Seq(Task)] /\ p[x] = Append(q, t) /\ \A y \in X : y # x => p[y] = w[y]
    BY <1>2 DEF Pushed
  <1> HIDE DEF p
  <1>4. ASSUME NEW i \in 1..Len(p[x])
        PROVE  \/ i \in 1..Len(q) /\ p[x][i] = q[i]
               \/ i = Len(q) + 1 /\ p[x][i] = t
    <2>1. i \in 1..Len(q) \/ i = Len(q) + 1
      BY <1>2, <1>3
    <2>2. CASE i \in 1..Len(q)
      BY <1>2, <1>3, <2>2
    <2>3. CASE i = Len(q) + 1
      BY <1>2, <1>3, <2>3
    <2> QED BY <2>1, <2>2, <2>3
  <1>5. ASSUME NEW y \in X, NEW i \in 1..Len(p[y])
        PROVE  \/ i \in 1..Len(w[y]) /\ p[y][i] = w[y][i]
               \/ y = x /\ i = Len(w[x]) + 1 /\ p[y][i] = t
    <2>1. CASE y = x
      BY <1>4, <2>1
    <2>2. CASE y # x
      BY <1>3, <2>2
    <2> QED BY <2>1, <2>2
  <1>6. PushedInto(X, p, w, x, t)
    BY <1>3, <1>5 DEF PushedInto
  <1> QED BY <1>6 DEF p

\* clear: one list is empty and the others stay.
LEMMA EmptiedEntries ==
  ASSUME NEW X, NEW w \in [X -> Seq(Task)], NEW x \in X
  PROVE  EmptiedAt(X, [w EXCEPT ![x] = <<>>], w, x)
  <1> DEFINE e == [w EXCEPT ![x] = <<>>]
  <1>1. /\ e \in [X -> Seq(Task)] /\ Len(e[x]) = 0
        /\ \A y \in X : y # x => e[y] = w[y]
    OBVIOUS
  <1> HIDE DEF e
  <1>2. ASSUME NEW y \in X, NEW i \in 1..Len(e[y])
        PROVE  y # x /\ i \in 1..Len(w[y]) /\ e[y][i] = w[y][i]
    BY <1>1
  <1>3. EmptiedAt(X, e, w, x)
    BY <1>1, <1>2 DEF EmptiedAt
  <1> QED BY <1>3 DEF e

\* No sleeping task is woken.
LEMMA AsleepStays ==
  ASSUME NEW X, NEW w \in [X -> Seq(Task)], NEW s, NEW r, AllAsleep(s, w),
         \A u \in Task : s.run[u] = "Sleeping" => r.run[u] = "Sleeping"
  PROVE  AllAsleep(r, w)
  BY EntriesAreTasks DEF AllAsleep

\* A task that sleeps now, and was awake, is pushed.
LEMMA PushedAsleep ==
  ASSUME NEW X, NEW w \in [X -> Seq(Task)], NEW x \in X, NEW t \in Task,
         NEW s, NEW r, AllAsleep(s, w), Once(w), s.run[t] # "Sleeping",
         r.run[t] = "Sleeping",
         \A u \in Task : s.run[u] = "Sleeping" => r.run[u] = "Sleeping"
  PROVE  AllAsleep(r, Pushed(w, x, t)) /\ Once(Pushed(w, x, t))
  <1> DEFINE p == Pushed(w, x, t)
  <1>0. PushedInto(X, p, w, x, t)
    BY PushedEntries
  <1> HIDE DEF p
  <1>1. /\ p \in [X -> Seq(Task)]
        /\ \A y \in X : \A i \in 1..Len(p[y]) :
             \/ i \in 1..Len(w[y]) /\ p[y][i] = w[y][i]
             \/ y = x /\ i = Len(w[x]) + 1 /\ p[y][i] = t
    BY <1>0 DEF PushedInto
  <1>2. DOMAIN p = X /\ DOMAIN w = X
    BY <1>1
  <1>3. \A y \in X : \A i \in 1..Len(w[y]) :
          w[y][i] \in Task /\ s.run[w[y][i]] = "Sleeping" /\ w[y][i] # t
    BY <1>2, EntriesAreTasks DEF AllAsleep
  <1>4. ASSUME NEW y \in X, NEW i \in 1..Len(p[y]) PROVE r.run[p[y][i]] = "Sleeping"
    <2>1. CASE i \in 1..Len(w[y]) /\ p[y][i] = w[y][i]
      <3>1. w[y][i] \in Task /\ s.run[w[y][i]] = "Sleeping"
        BY <1>3, <2>1
      <3> QED BY <2>1, <3>1
    <2>2. CASE p[y][i] = t
      BY <2>2
    <2> QED BY <1>1, <2>1, <2>2
  <1>5. ASSUME NEW y \in X, NEW z \in X, NEW i \in 1..Len(p[y]), NEW j \in 1..Len(p[z]),
               p[y][i] = p[z][j]
        PROVE  y = z /\ i = j
    <2>y. \/ i \in 1..Len(w[y]) /\ p[y][i] = w[y][i]
          \/ y = x /\ i = Len(w[x]) + 1 /\ p[y][i] = t
      BY <1>1
    <2>z. \/ j \in 1..Len(w[z]) /\ p[z][j] = w[z][j]
          \/ z = x /\ j = Len(w[x]) + 1 /\ p[z][j] = t
      BY <1>1
    <2>1. CASE p[y][i] = t
      <3>1. y = x /\ i = Len(w[x]) + 1
        BY <1>3, <2>y, <2>1
      <3>2. z = x /\ j = Len(w[x]) + 1
        BY <1>3, <1>5, <2>z, <2>1
      <3> QED BY <3>1, <3>2, ZenonT(30)
    <2>2. CASE p[y][i] # t
      <3>1. i \in 1..Len(w[y]) /\ p[y][i] = w[y][i]
        BY <2>y, <2>2
      <3>2. j \in 1..Len(w[z]) /\ p[z][j] = w[z][j]
        BY <1>5, <2>z, <2>2
      <3>3. w[y][i] = w[z][j]
        BY <1>5, <3>1, <3>2, ZenonT(30)
      <3> QED BY <1>2, <3>1, <3>2, <3>3 DEF Once
    <2> QED BY <2>1, <2>2
  <1>6. AllAsleep(r, p)
    BY <1>2, <1>4 DEF AllAsleep
  <1>7. Once(p)
    BY <1>2, <1>5 DEF Once
  <1> QED BY <1>6, <1>7 DEF p

\* The pushed task was awake, so it is in no list of the other family.
LEMMA PushedApart ==
  ASSUME NEW X, NEW w \in [X -> Seq(Task)], NEW x \in X, NEW t \in Task,
         NEW v, NEW s, AllAsleep(s, v), Apart(w, v), s.run[t] # "Sleeping"
  PROVE  Apart(Pushed(w, x, t), v)
  <1> DEFINE p == Pushed(w, x, t)
  <1>0. PushedInto(X, p, w, x, t)
    BY PushedEntries
  <1> HIDE DEF p
  <1>1. /\ p \in [X -> Seq(Task)]
        /\ \A y \in X : \A i \in 1..Len(p[y]) :
             \/ i \in 1..Len(w[y]) /\ p[y][i] = w[y][i]
             \/ y = x /\ i = Len(w[x]) + 1 /\ p[y][i] = t
    BY <1>0 DEF PushedInto
  <1>2. DOMAIN p = X /\ DOMAIN w = X
    BY <1>1
  <1>3. ASSUME NEW y \in X, NEW z \in DOMAIN v,
               NEW i \in 1..Len(p[y]), NEW j \in 1..Len(v[z])
        PROVE  p[y][i] # v[z][j]
    <2>1. s.run[v[z][j]] = "Sleeping"
      BY DEF AllAsleep
    <2>2. CASE p[y][i] = t
      BY <2>1, <2>2
    <2>3. CASE i \in 1..Len(w[y]) /\ p[y][i] = w[y][i]
      BY <1>2, <2>3, ZenonT(30) DEF Apart
    <2> QED BY <1>1, <2>2, <2>3
  <1>4. Apart(p, v)
    BY <1>2, <1>3 DEF Apart
  <1> QED BY <1>4 DEF p

\* The tasks of one list, and only they, may have been woken.
WakesOnly(s, r, q) ==
  \A u \in Task : (\A i \in 1..Len(q) : q[i] # u) => r.run[u] = s.run[u]

\* One list is cleared and its tasks, and only they, may have been woken.
LEMMA EmptiedAsleep ==
  ASSUME NEW X, NEW w \in [X -> Seq(Task)], NEW x \in X, NEW v, NEW s, NEW r,
         AllAsleep(s, w), Once(w), Apart(w, v), WakesOnly(s, r, w[x])
  PROVE  /\ AllAsleep(r, [w EXCEPT ![x] = <<>>])
         /\ Once([w EXCEPT ![x] = <<>>]) /\ Apart([w EXCEPT ![x] = <<>>], v)
  <1> DEFINE e == [w EXCEPT ![x] = <<>>]
  <1>0. EmptiedAt(X, e, w, x)
    BY EmptiedEntries, ZenonT(30)
  <1> HIDE DEF e
  <1>1. /\ e \in [X -> Seq(Task)]
        /\ \A y \in X : \A i \in 1..Len(e[y]) :
             y # x /\ i \in 1..Len(w[y]) /\ e[y][i] = w[y][i]
    BY <1>0 DEF EmptiedAt
  <1>2. DOMAIN e = X /\ DOMAIN w = X
    BY <1>1
  <1>3. ASSUME NEW y \in X, NEW i \in 1..Len(e[y]) PROVE r.run[e[y][i]] = "Sleeping"
    <2>1. y # x /\ i \in 1..Len(w[y]) /\ e[y][i] = w[y][i] /\ w[y][i] \in Task
      BY <1>1, EntriesAreTasks
    <2>2. \A j \in 1..Len(w[x]) : w[x][j] # w[y][i]
      BY <1>2, <2>1 DEF Once
    <2>3. s.run[w[y][i]] = "Sleeping"
      BY <1>2, <2>1 DEF AllAsleep
    <2> QED BY <2>1, <2>2, <2>3 DEF WakesOnly
  <1>4. AllAsleep(r, e)
    BY <1>2, <1>3 DEF AllAsleep
  <1>5. ASSUME NEW y \in X, NEW z \in X, NEW i \in 1..Len(e[y]), NEW j \in 1..Len(e[z]),
               e[y][i] = e[z][j]
        PROVE  y = z /\ i = j
    <2>1. /\ i \in 1..Len(w[y]) /\ e[y][i] = w[y][i]
          /\ j \in 1..Len(w[z]) /\ e[z][j] = w[z][j]
      BY <1>1
    <2>2. w[y][i] = w[z][j]
      BY <1>5, <2>1, ZenonT(30)
    <2> QED BY <1>2, <2>1, <2>2 DEF Once
  <1>6. ASSUME NEW y \in X, NEW z \in DOMAIN v,
               NEW i \in 1..Len(e[y]), NEW j \in 1..Len(v[z])
        PROVE  e[y][i] # v[z][j]
    <2>1. i \in 1..Len(w[y]) /\ e[y][i] = w[y][i]
      BY <1>1
    <2> QED BY <1>2, <2>1 DEF Apart
  <1>7. Once(e)
    BY <1>2, <1>5, ZenonT(30) DEF Once
  <1>8. Apart(e, v)
    BY <1>2, <1>6 DEF Apart
  <1> QED BY <1>4, <1>7, <1>8 DEF e

\* Tasks of another family were woken.
LEMMA OthersAsleep ==
  ASSUME NEW X, NEW w \in [X -> Seq(Task)], NEW x \in X,
         NEW Y, NEW v \in [Y -> Seq(Task)], NEW s, NEW r,
         AllAsleep(s, v), Apart(w, v), WakesOnly(s, r, w[x])
  PROVE  AllAsleep(r, v)
  <1>1. ASSUME NEW y \in Y, NEW i \in 1..Len(v[y]) PROVE r.run[v[y][i]] = "Sleeping"
    <2>1. v[y][i] \in Task /\ y \in DOMAIN v /\ x \in DOMAIN w
      BY EntriesAreTasks
    <2>2. \A j \in 1..Len(w[x]) : w[x][j] # v[y][i]
      BY <2>1 DEF Apart
    <2>3. s.run[v[y][i]] = "Sleeping"
      BY <2>1 DEF AllAsleep
    <2> QED BY <2>1, <2>2, <2>3 DEF WakesOnly
  <1> QED BY <1>1 DEF AllAsleep

\* The loop over one list of a family.
LEMMA WakeList ==
  ASSUME NEW X, NEW w \in [X -> Seq(Task)], NEW x \in X, NEW s, SchedOK(s),
         AllAsleep(s, w), Once(w)
  PROVE  /\ SchedOK(WakeAll(s, w[x])) /\ WakeAll(s, w[x]).current = s.current
         /\ \A u \in Task : \/ WakeAll(s, w[x]).run[u] = s.run[u]
                            \/ s.run[u] = "Sleeping" /\ WakeAll(s, w[x]).run[u] = "Ready"
         /\ WakesOnly(s, WakeAll(s, w[x]), w[x])
  <1>1. w[x] \in Seq(Task) /\ DOMAIN w = X
    OBVIOUS
  <1>2. \A i \in 1..Len(w[x]) : s.run[w[x][i]] = "Sleeping"
    BY <1>1 DEF AllAsleep
  <1>3. \A i, j \in 1..Len(w[x]) : w[x][i] = w[x][j] => i = j
    BY <1>1 DEF Once
  <1> QED BY <1>1, <1>2, <1>3, WakeAllKeeps, ZenonT(30) DEF WakesOnly

\* Apart does not depend on the order of the families.
LEMMA ApartBothWays ==
  ASSUME NEW w, NEW v, Apart(w, v)
  PROVE  Apart(v, w)
  BY DEF Apart

-----------------------------------------------------------------------------
(* What each operation does to the waiters.                                *)

\* lock: a task that was awake goes to sleep at the end of a mutex's list.
LEMMA QueuedWaiters ==
  ASSUME NEW s, NEW r, NEW l \in LockState, NEW m \in Mutex, NEW t \in Task,
         WaitersOK(s, l), s.run[t] # "Sleeping", r.run[t] = "Sleeping",
         \A u \in Task : s.run[u] = "Sleeping" => r.run[u] = "Sleeping"
  PROVE  WaitersOK(r, Queued(l, m, t))
  <1> DEFINE k == Queued(l, m, t)
  <1>1. k.mwait = Pushed(l.mwait, m, t) /\ k.cwait = l.cwait
    BY QueuedFields
  <1>2. /\ l.mwait \in [Mutex -> Seq(Task)] /\ l.cwait \in [Cond -> Seq(Task)]
        /\ AllAsleep(s, l.mwait) /\ AllAsleep(s, l.cwait)
        /\ Once(l.mwait) /\ Once(l.cwait) /\ Apart(l.mwait, l.cwait)
    BY DEF WaitersOK, LockState
  <1> HIDE DEF k
  <1>3. AllAsleep(r, Pushed(l.mwait, m, t)) /\ Once(Pushed(l.mwait, m, t))
    BY <1>2, PushedAsleep, ZenonT(30)
  <1>4. AllAsleep(r, l.cwait)
    BY <1>2, AsleepStays, ZenonT(30)
  <1>5. Apart(Pushed(l.mwait, m, t), l.cwait)
    BY <1>2, PushedApart, ZenonT(30)
  <1>6. WaitersOK(r, k)
    BY <1>1, <1>2, <1>3, <1>4, <1>5, ZenonT(30) DEF WaitersOK
  <1> QED BY <1>6 DEF k

\* wait, after its unlock: the caller goes to sleep at the end of a condvar's
\* list.
LEMMA ParkedWaiters ==
  ASSUME NEW s, NEW r, NEW l \in LockState, NEW k \in LockState,
         NEW c \in Cond, NEW t \in Task,
         k.mwait = l.mwait, k.cwait = Pushed(l.cwait, c, t),
         WaitersOK(s, l), s.run[t] # "Sleeping", r.run[t] = "Sleeping",
         \A u \in Task : s.run[u] = "Sleeping" => r.run[u] = "Sleeping"
  PROVE  WaitersOK(r, k)
  <1>1. /\ l.mwait \in [Mutex -> Seq(Task)] /\ l.cwait \in [Cond -> Seq(Task)]
        /\ AllAsleep(s, l.mwait) /\ AllAsleep(s, l.cwait)
        /\ Once(l.mwait) /\ Once(l.cwait) /\ Apart(l.mwait, l.cwait)
    BY DEF WaitersOK, LockState
  <1>2. AllAsleep(r, Pushed(l.cwait, c, t)) /\ Once(Pushed(l.cwait, c, t))
    BY <1>1, PushedAsleep, ZenonT(30)
  <1>3. AllAsleep(r, l.mwait)
    BY <1>1, AsleepStays, ZenonT(30)
  <1>4. Apart(l.cwait, l.mwait)
    BY <1>1, ApartBothWays
  <1>5. Apart(Pushed(l.cwait, c, t), l.mwait)
    BY <1>1, <1>4, PushedApart, ZenonT(30)
  <1>6. Apart(l.mwait, Pushed(l.cwait, c, t))
    BY <1>5, ApartBothWays
  <1> QED BY <1>1, <1>2, <1>3, <1>6, ZenonT(30) DEF WaitersOK

\* unlock: the waiters of a mutex are woken and its list is emptied.
LEMMA UnlockedWaiters ==
  ASSUME NEW s, NEW l \in LockState, NEW m \in Mutex,
         SchedOK(s), WaitersOK(s, l)
  PROVE  LET r == WakeAll(s, l.mwait[m]) IN
         /\ SchedOK(r) /\ r.current = s.current
         /\ \A u \in Task : \/ r.run[u] = s.run[u]
                            \/ s.run[u] = "Sleeping" /\ r.run[u] = "Ready"
         /\ WaitersOK(r, Unlocked(l, m))
  <1> DEFINE r == WakeAll(s, l.mwait[m])
             k == Unlocked(l, m)
  <1>1. k.mwait = [l.mwait EXCEPT ![m] = <<>>] /\ k.cwait = l.cwait
    BY UnlockedFields, ZenonT(30)
  <1>2. /\ l.mwait \in [Mutex -> Seq(Task)] /\ l.cwait \in [Cond -> Seq(Task)]
        /\ AllAsleep(s, l.mwait) /\ AllAsleep(s, l.cwait)
        /\ Once(l.mwait) /\ Once(l.cwait) /\ Apart(l.mwait, l.cwait)
    BY DEF WaitersOK, LockState
  <1>3. /\ SchedOK(r) /\ r.current = s.current
        /\ \A u \in Task : \/ r.run[u] = s.run[u]
                           \/ s.run[u] = "Sleeping" /\ r.run[u] = "Ready"
        /\ WakesOnly(s, r, l.mwait[m])
    BY <1>2, WakeList
  <1> HIDE DEF k, r
  <1>4. /\ AllAsleep(r, [l.mwait EXCEPT ![m] = <<>>])
        /\ Once([l.mwait EXCEPT ![m] = <<>>])
        /\ Apart([l.mwait EXCEPT ![m] = <<>>], l.cwait)
    BY <1>2, <1>3, EmptiedAsleep, ZenonT(30)
  <1>5. AllAsleep(r, l.cwait)
    BY <1>2, <1>3, OthersAsleep, ZenonT(30)
  <1>6. WaitersOK(r, k)
    BY <1>1, <1>2, <1>4, <1>5, ZenonT(30) DEF WaitersOK
  <1> QED BY <1>3, <1>6 DEF k, r

\* notify_all: the waiters of a condvar are woken and its list is emptied.
LEMMA NotifiedWaiters ==
  ASSUME NEW s, NEW l \in LockState, NEW c \in Cond,
         SchedOK(s), WaitersOK(s, l)
  PROVE  LET r == WakeAll(s, l.cwait[c]) IN
         /\ SchedOK(r) /\ r.current = s.current
         /\ \A u \in Task : \/ r.run[u] = s.run[u]
                            \/ s.run[u] = "Sleeping" /\ r.run[u] = "Ready"
         /\ WaitersOK(r, Notified(l, c))
  <1> DEFINE r == WakeAll(s, l.cwait[c])
             k == Notified(l, c)
  <1>1. k.cwait = [l.cwait EXCEPT ![c] = <<>>] /\ k.mwait = l.mwait
    BY NotifiedFields, ZenonT(30)
  <1>2. /\ l.mwait \in [Mutex -> Seq(Task)] /\ l.cwait \in [Cond -> Seq(Task)]
        /\ AllAsleep(s, l.mwait) /\ AllAsleep(s, l.cwait)
        /\ Once(l.mwait) /\ Once(l.cwait) /\ Apart(l.mwait, l.cwait)
    BY DEF WaitersOK, LockState
  <1>3. /\ SchedOK(r) /\ r.current = s.current
        /\ \A u \in Task : \/ r.run[u] = s.run[u]
                           \/ s.run[u] = "Sleeping" /\ r.run[u] = "Ready"
        /\ WakesOnly(s, r, l.cwait[c])
    BY <1>2, WakeList, ZenonT(30)
  <1> HIDE DEF k, r
  <1>a. Apart(l.cwait, l.mwait)
    BY <1>2, ApartBothWays
  <1>4. /\ AllAsleep(r, [l.cwait EXCEPT ![c] = <<>>])
        /\ Once([l.cwait EXCEPT ![c] = <<>>])
        /\ Apart([l.cwait EXCEPT ![c] = <<>>], l.mwait)
    BY <1>2, <1>3, <1>a, EmptiedAsleep, ZenonT(30)
  <1>b. Apart(l.mwait, [l.cwait EXCEPT ![c] = <<>>])
    BY <1>4, ApartBothWays, ZenonT(30)
  <1>5. AllAsleep(r, l.mwait)
    BY <1>2, <1>3, <1>a, OthersAsleep, ZenonT(30)
  <1>6. WaitersOK(r, k)
    BY <1>1, <1>2, <1>4, <1>5, <1>b, ZenonT(30) DEF WaitersOK
  <1> QED BY <1>3, <1>6, ZenonT(30) DEF k, r

\* The current task can sleep, unless it is Idle: Idle is Ready.
LEMMA CurrentSleeps ==
  ASSUME NEW s, SchedOK(s), s.current \in Task \ {Idle},
         s.run[Idle] \in {"Ready", "Running"}
  PROVE  /\ SchedOK(Sleep(s)) /\ Sleep(s).current \in Task
         /\ s.run[s.current] = "Running" /\ Sleep(s).run[s.current] = "Sleeping"
         /\ Sleep(s).run[Idle] \in {"Ready", "Running"}
         /\ \A u \in Task : s.run[u] \in {"Sleeping", "Absent"} => Sleep(s).run[u] = s.run[u]
  <1>1. s.run[s.current] = "Running" /\ s.run[Idle] = "Ready" /\ Idle \in Task
    BY TaskAssumption DEF SchedOK, CurrentOK
  <1>2. /\ SchedOK(Sleep(s)) /\ Sleep(s).current \in Task
        /\ Sleep(s).run[s.current] = "Sleeping"
        /\ \A u \in Task : \/ u = s.current
                           \/ Sleep(s).run[u] = s.run[u]
                           \/ s.run[u] = "Ready" /\ Sleep(s).run[u] = "Running"
    BY <1>1, SleepKeeps
  <1> QED BY <1>1, <1>2, ZenonT(30)
=============================================================================
