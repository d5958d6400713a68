--------------------------- MODULE ProcessesProofs ---------------------------
(***************************************************************************)
(* Processes and tasks, for any number of them: the inductive invariant    *)
(* ProcInv, which every step of a task, the creation of tasks and the      *)
(* timer keep, and the safety properties of Processes that it implies.     *)
(***************************************************************************)
EXTENDS Processes, SchedulingProofs

\* The time that a leaf may take.
USE SMTT(30)

-----------------------------------------------------------------------------
(* The inductive invariant.                                                *)

\* Nobody is queued on a free mutex, and only the monitor of a task is held
\* across steps: exec's caller keeps that of a process only while masked.
LocksOK(l) == \A m \in Mutex : IF l.locked[m] THEN m[1] = "task" ELSE l.mwait[m] = <<>>

\* The scheduler and the locks: consistent, every waiter asleep, the idle
\* task awake.
KernelOK(s, l) ==
  /\ SchedOK(s) /\ l \in LockState /\ WaitersOK(s, l)
  /\ s.run[Idle] \in {"Ready", "Running"}
  /\ LocksOK(l)

Place       == [at : Label, obj : Obj \cup {NoObj}]
LazyState   == {"uninit", "running", "ready"}
TaskHolders == SUBSET ({TASKS} \cup ({"thread"} \X Task))
ProcHolders == SUBSET ({PROCS, Boot} \cup ({"exec", "run"} \X Task))

\* The types that the rest relies on.
Typed ==
  /\ pc \in [Task -> Place]
  /\ procOf \in [Task -> ProcId \cup {0}]
  /\ DOMAIN threads = ProcId
  /\ live \in [Obj -> BOOLEAN]
  /\ lazy \in [Obj -> LazyState]
  /\ taskRefs \in [Task -> TaskHolders]
  /\ procRefs \in [ProcId -> ProcHolders]
  /\ waited \in [Task -> SUBSET Obj]
  /\ nextTask \in 2..MaxTask /\ nextProc \in 3..(MaxProc + 1)
  /\ sophonTest \in BOOLEAN

\* Ids are handed out in order, the test runner is task 2 in process 3, and
\* every process but the runner's has one task.
Tree ==
  /\ \A t \in Task : procOf[t] = 0 <=> t >= nextTask
  /\ \A t \in Task : procOf[t] < nextProc
  /\ \A p \in ProcId : p >= nextProc => threads[p] = <<>>
  /\ sophonTest => Runner \in Task /\ procOf[Runner] = Runner + 1 /\ nextProc > Runner + 1
  /\ \A t \in Task : (procOf[t] # 0 /\ IsUser(t)) =>
       /\ threads[procOf[t]] = <<t>>
       /\ \A u \in Task : procOf[u] = procOf[t] => u = t

\* What has not been created is untouched, the idle task never leaves its
\* loop and the test runner's process never exits.
Fresh ==
  /\ \A t \in Task : t >= nextTask =>
       /\ sched.run[t] = "Absent" /\ live[<<"task", t>>]
       /\ pc[t].at = "entry" /\ taskRefs[t] = {}
  /\ \A p \in ProcId : p >= nextProc => live[<<"proc", p>>]
  /\ sophonTest => live[<<"proc", Runner + 1>>]
  /\ pc[Idle].at = "entry"

\* x is a thread that t has the handle of, or a process, and t is in exec.
IsHandle(t, x) == \E u \in Task : x = <<"task", u>> /\ <<"thread", t>> \in taskRefs[u]
IsChild(t, x)  == IsUser(t) /\ \E p \in ProcId : x = <<"proc", p>>

\* x is what t marks dead when it exits.
IsOwn(t, x) == IF IsUser(t) THEN x = <<"proc", procOf[t]>>
                            ELSE x = <<"task", t>> /\ t # Runner

\* wait_for_completion has the mutex.
Holding == {"locked", "park", "unlock"}

\* What t uses and holds when it is at l: the monitor of something it waits
\* for, or its own; what it has read of the flag is right; and a user task
\* that has run keeps an Arc of its process.
PlaceOK(t, l, x) ==
  /\ l \in {"lazy", "lock"} \cup Holding => IsHandle(t, x)
  /\ l = "wlock" => IsHandle(t, x) \/ IsChild(t, x)
  /\ l \in Holding => locks.locked[x]
  /\ l = "park" => live[x]
  /\ l = "unlock" => ~live[x]
  /\ l \in {"xspin", "xlock"} => IsOwn(t, x)
  /\ l # "entry" /\ IsUser(t) => <<"run", t>> \in procRefs[procOf[t]]

Places == \A t \in Task : PlaceOK(t, pc[t].at, pc[t].obj)

\* Only the test runner has handles of threads, and it has one of every
\* thread it made.
Refs ==
  /\ \A t, u \in Task : <<"thread", t>> \in taskRefs[u] => t = Runner /\ sophonTest
  /\ \A t \in Task : ~IsUser(t) /\ t # Idle /\ t # Runner
                        => <<"thread", Runner>> \in taskRefs[t]

\* A monitor that says dead tells the truth, and only such ones were waited
\* for to the end.
Dead ==
  /\ \A t \in Task : ~live[<<"task", t>>] => sched.run[t] = "Absent" /\ TASKS \notin taskRefs[t]
  /\ \A t \in Task : procOf[t] # 0 /\ ~live[<<"proc", procOf[t]>>] => sched.run[t] = "Absent"
  /\ \A t \in Task : \A x \in waited[t] :
       ~live[x] /\ \A u \in Task : x = <<"task", u>> => <<"thread", t>> \in taskRefs[u]

ProcInv == KernelOK(sched, locks) /\ Typed /\ Tree /\ Fresh /\ Places /\ Refs /\ Dead

-----------------------------------------------------------------------------
(* The scheduler and the locks.                                            *)

\* No task that has left TASKS comes back.
StaysOut(s, r) == \A u \in Task : s.run[u] = "Absent" => r.run[u] = "Absent"

\* Nobody is woken.
LEMMA WaitersStay ==
  ASSUME NEW s, NEW r, NEW l \in LockState, WaitersOK(s, l),
         \A u \in Task : s.run[u] = "Sleeping" => r.run[u] = "Sleeping"
  PROVE  WaitersOK(r, l)
  <1>1. /\ l.mwait \in [Mutex -> Seq(Task)] /\ l.cwait \in [Cond -> Seq(Task)]
        /\ AllAsleep(s, l.mwait) /\ AllAsleep(s, l.cwait)
        /\ Once(l.mwait) /\ Once(l.cwait) /\ Apart(l.mwait, l.cwait)
    BY DEF WaitersOK, LockState
  <1>2. AllAsleep(r, l.mwait) /\ AllAsleep(r, l.cwait)
    BY <1>1, AsleepStays, ZenonT(30)
  <1> QED BY <1>1, <1>2, ZenonT(30) DEF WaitersOK

\* lock() on a mutex that is taken.
LEMMA QueueKernel ==
  ASSUME NEW s \in SchedState, NEW l \in LockState, KernelOK(s, l), NEW m \in Mutex, l.locked[m],
         s.current \in Task \ {Idle}
  PROVE  LET k == Queued(l, m, s.current) IN
         KernelOK(Sleep(s), k) /\ StaysOut(s, Sleep(s)) /\ k.locked = l.locked
  <1> DEFINE k == Queued(l, m, s.current)
             r == Sleep(s)
  <1>1. /\ SchedOK(s) /\ l \in LockState /\ WaitersOK(s, l)
        /\ s.run[Idle] \in {"Ready", "Running"}
        /\ LocksOK(l)
    BY DEF KernelOK
  <1>2. /\ SchedOK(r) /\ s.run[s.current] = "Running" /\ r.run[s.current] = "Sleeping"
        /\ r.run[Idle] \in {"Ready", "Running"}
        /\ \A u \in Task : s.run[u] \in {"Sleeping", "Absent"} => r.run[u] = s.run[u]
    BY <1>1, CurrentSleeps
  <1>3. /\ k \in LockState /\ k.locked = l.locked
        /\ k.mwait = Pushed(l.mwait, m, s.current)
    BY <1>1, QueuedFields
  <1> HIDE DEF r
  <1>a. \A u \in Task : s.run[u] = "Sleeping" => r.run[u] = "Sleeping"
    BY <1>2
  <1>4. WaitersOK(r, k)
    BY <1>1, <1>2, <1>a, QueuedWaiters
  <1> HIDE DEF k
  <1>5. LocksOK(k)
    BY <1>1, <1>3 DEF Pushed, LockState, LocksOK
  <1>6. KernelOK(r, k)
    BY <1>2, <1>3, <1>4, <1>5 DEF KernelOK
  <1>7. StaysOut(s, r)
    BY <1>2 DEF StaysOut
  <1> QED BY <1>3, <1>6, <1>7 DEF r, k

\* lock() on a free mutex and the wait() that follows it.
LEMMA LockParkKernel ==
  ASSUME NEW s \in SchedState, NEW l \in LockState, KernelOK(s, l), NEW m \in Mutex, m \in Cond, ~l.locked[m],
         s.current \in Task \ {Idle}
  PROVE  LET k == Parked(Acquired(l, m), m, m, s.current) IN
         KernelOK(Sleep(s), k) /\ StaysOut(s, Sleep(s)) /\ k.locked = l.locked
  <1> DEFINE a == Acquired(l, m)
             k == Parked(a, m, m, s.current)
             r == Sleep(s)
  <1>1. /\ SchedOK(s) /\ l \in LockState /\ WaitersOK(s, l)
        /\ s.run[Idle] \in {"Ready", "Running"}
        /\ LocksOK(l)
    BY DEF KernelOK
  <1>2. /\ SchedOK(r) /\ s.run[s.current] = "Running" /\ r.run[s.current] = "Sleeping"
        /\ r.run[Idle] \in {"Ready", "Running"}
        /\ \A u \in Task : s.run[u] \in {"Sleeping", "Absent"} => r.run[u] = s.run[u]
    BY <1>1, CurrentSleeps
  <1>3. /\ a \in LockState /\ a.locked = [l.locked EXCEPT ![m] = TRUE]
        /\ a.mwait = l.mwait /\ a.cwait = l.cwait
    BY <1>1, AcquiredFields, ZenonT(30)
  <1> HIDE DEF a
  <1>4. /\ k \in LockState /\ k.locked = [a.locked EXCEPT ![m] = FALSE]
        /\ k.mwait = [a.mwait EXCEPT ![m] = <<>>]
        /\ k.cwait = Pushed(a.cwait, m, s.current)
    BY <1>3, ParkedFields
  <1> HIDE DEF k, r
  <1>5. k.locked = l.locked
    BY <1>1, <1>3, <1>4 DEF LockState
  <1>6. k.mwait = l.mwait /\ k.cwait = Pushed(l.cwait, m, s.current)
    BY <1>1, <1>3, <1>4 DEF LockState
  <1>7. \A u \in Task : s.run[u] = "Sleeping" => r.run[u] = "Sleeping"
    BY <1>2
  <1>8. WaitersOK(r, k)
    BY <1>1, <1>2, <1>4, <1>6, <1>7, ParkedWaiters
  <1>9. KernelOK(r, k)
    BY <1>1, <1>2, <1>4, <1>5, <1>6, <1>8, ZenonT(30) DEF KernelOK, LocksOK
  <1>10. StaysOut(s, r)
    BY <1>2 DEF StaysOut
  <1> QED BY <1>5, <1>9, <1>10 DEF a, k, r

\* lock() on a free mutex, for a kernel thread.
LEMMA AcquireKernel ==
  ASSUME NEW s \in SchedState, NEW l \in LockState, KernelOK(s, l), NEW m \in Mutex,
         m[1] = "task"
  PROVE  LET k == Acquired(l, m) IN
         KernelOK(s, k) /\ k.locked = [l.locked EXCEPT ![m] = TRUE]
  <1> DEFINE k == Acquired(l, m)
  <1>1. /\ l \in LockState /\ WaitersOK(s, l)
        /\ LocksOK(l)
    BY DEF KernelOK
  <1>2. /\ k \in LockState /\ k.locked = [l.locked EXCEPT ![m] = TRUE]
        /\ k.mwait = l.mwait /\ k.cwait = l.cwait
    BY <1>1, AcquiredFields
  <1> HIDE DEF k
  <1>3. WaitersOK(s, k)
    BY <1>1, <1>2, ZenonT(30) DEF WaitersOK
  <1>4. LocksOK(k)
    BY <1>1, <1>2 DEF LockState, LocksOK
  <1>5. KernelOK(s, k)
    BY <1>2, <1>3, <1>4 DEF KernelOK
  <1> QED BY <1>2, <1>5 DEF k

\* unlock(), or the drop of the guard.
LEMMA UnlockKernel ==
  ASSUME NEW s \in SchedState, NEW l \in LockState, KernelOK(s, l), NEW m \in Mutex
  PROVE  LET r == WakeAll(s, l.mwait[m])
             k == Unlocked(l, m)
         IN  /\ KernelOK(r, k) /\ StaysOut(s, r) /\ r.current = s.current
             /\ k.locked = [l.locked EXCEPT ![m] = FALSE]
  <1> DEFINE r == WakeAll(s, l.mwait[m])
             k == Unlocked(l, m)
  <1>1. /\ SchedOK(s) /\ l \in LockState /\ WaitersOK(s, l)
        /\ s.run[Idle] \in {"Ready", "Running"} /\ Idle \in Task
        /\ LocksOK(l)
    BY TaskAssumption DEF KernelOK
  <1>2. /\ SchedOK(r) /\ r.current = s.current
        /\ \A u \in Task : \/ r.run[u] = s.run[u]
                           \/ s.run[u] = "Sleeping" /\ r.run[u] = "Ready"
        /\ WaitersOK(r, k)
    BY <1>1, UnlockedWaiters
  <1>3. /\ k \in LockState /\ k.locked = [l.locked EXCEPT ![m] = FALSE]
        /\ k.mwait = [l.mwait EXCEPT ![m] = <<>>]
    BY <1>1, UnlockedFields, ZenonT(30)
  <1> HIDE DEF r, k
  <1>4. LocksOK(k)
    BY <1>1, <1>3 DEF LockState, LocksOK
  <1>5. KernelOK(r, k)
    BY <1>1, <1>2, <1>3, <1>4 DEF KernelOK
  <1>6. StaysOut(s, r)
    BY <1>2, ZenonT(30) DEF StaysOut
  <1> QED BY <1>2, <1>3, <1>5, <1>6, ZenonT(30) DEF r, k

\* notify_all().
LEMMA NotifyKernel ==
  ASSUME NEW s \in SchedState, NEW l \in LockState, KernelOK(s, l), NEW c \in Cond
  PROVE  LET r == WakeAll(s, l.cwait[c])
             k == Notified(l, c)
         IN  /\ KernelOK(r, k) /\ StaysOut(s, r) /\ r.current = s.current
             /\ k.locked = l.locked /\ k.mwait = l.mwait
  <1> DEFINE r == WakeAll(s, l.cwait[c])
             k == Notified(l, c)
  <1>1. /\ SchedOK(s) /\ l \in LockState /\ WaitersOK(s, l)
        /\ s.run[Idle] \in {"Ready", "Running"} /\ Idle \in Task
        /\ LocksOK(l)
    BY TaskAssumption DEF KernelOK
  <1>2. /\ SchedOK(r) /\ r.current = s.current
        /\ \A u \in Task : \/ r.run[u] = s.run[u]
                           \/ s.run[u] = "Sleeping" /\ r.run[u] = "Ready"
        /\ WaitersOK(r, k)
    BY <1>1, NotifiedWaiters
  <1>3. k \in LockState /\ k.locked = l.locked /\ k.mwait = l.mwait
    BY <1>1, NotifiedFields, ZenonT(30)
  <1> HIDE DEF r, k
  <1>4. KernelOK(r, k)
    BY <1>1, <1>2, <1>3, ZenonT(30) DEF KernelOK, LocksOK
  <1>5. StaysOut(s, r)
    BY <1>2 DEF StaysOut
  <1> QED BY <1>2, <1>3, <1>4, <1>5 DEF r, k

\* wait(), by a holder of the mutex.
LEMMA ParkKernel ==
  ASSUME NEW s \in SchedState, NEW l \in LockState, KernelOK(s, l), NEW m \in Mutex, m \in Cond,
         s.current \in Task \ {Idle}
  PROVE  LET r == Sleep(WakeAll(s, l.mwait[m]))
             k == Parked(l, m, m, s.current)
         IN  /\ KernelOK(r, k) /\ StaysOut(s, r)
             /\ k.locked = [l.locked EXCEPT ![m] = FALSE]
  <1> DEFINE v == WakeAll(s, l.mwait[m])
             n == Unlocked(l, m)
             r == Sleep(v)
             k == Parked(l, m, m, s.current)
  <1>0. l \in LockState /\ s.current \in Task
    BY DEF KernelOK
  <1>1. KernelOK(v, n) /\ StaysOut(s, v) /\ v.current = s.current
    BY UnlockKernel, ZenonT(30)
  <1>2. /\ n \in LockState /\ n.locked = [l.locked EXCEPT ![m] = FALSE]
        /\ n.mwait = [l.mwait EXCEPT ![m] = <<>>] /\ n.cwait = l.cwait
    BY <1>0, UnlockedFields
  <1>a. /\ k \in LockState /\ k.locked = [l.locked EXCEPT ![m] = FALSE]
        /\ k.mwait = [l.mwait EXCEPT ![m] = <<>>]
        /\ k.cwait = Pushed(l.cwait, m, s.current)
    BY <1>0, ParkedFields
  <1> HIDE DEF n, v, k
  <1>3. /\ k \in LockState /\ k.locked = n.locked /\ k.mwait = n.mwait
        /\ k.cwait = Pushed(n.cwait, m, s.current)
    BY <1>2, <1>a
  <1>4. /\ SchedOK(v) /\ WaitersOK(v, n) /\ v.run[Idle] \in {"Ready", "Running"}
        /\ LocksOK(n)
    BY <1>1, ZenonT(30) DEF KernelOK
  <1>5. /\ SchedOK(r) /\ v.run[v.current] = "Running" /\ r.run[v.current] = "Sleeping"
        /\ r.run[Idle] \in {"Ready", "Running"}
        /\ \A w \in Task : v.run[w] \in {"Sleeping", "Absent"} => r.run[w] = v.run[w]
    BY <1>1, <1>4, CurrentSleeps
  <1> HIDE DEF r
  <1>6. \A w \in Task : v.run[w] = "Sleeping" => r.run[w] = "Sleeping"
    BY <1>5
  <1>7. WaitersOK(r, k)
    BY <1>1, <1>2, <1>3, <1>4, <1>5, <1>6, ParkedWaiters
  <1>8. KernelOK(r, k)
    BY <1>3, <1>4, <1>5, <1>7 DEF KernelOK, LocksOK
  <1>9. StaysOut(s, r)
    BY <1>1, <1>5 DEF StaysOut
  <1> QED BY <1>2, <1>3, <1>8, <1>9 DEF r, k, v

\* The timer interrupt.
LEMMA TickKernel ==
  ASSUME NEW s \in SchedState, NEW l \in LockState, KernelOK(s, l), s.current \in Task
  PROVE  KernelOK(TimerTick(s), l) /\ StaysOut(s, TimerTick(s))
  <1>1. /\ SchedOK(s) /\ l \in LockState /\ WaitersOK(s, l)
        /\ s.run[Idle] \in {"Ready", "Running"} /\ Idle \in Task
        /\ LocksOK(l)
    BY TaskAssumption DEF KernelOK
  <1> DEFINE r == TimerTick(s)
  <1>2. /\ SchedOK(r)
        /\ \A u \in Task : s.run[u] \in {"Ready", "Running"} => r.run[u] \in {"Ready", "Running"}
        /\ \A u \in Task : s.run[u] \in {"Sleeping", "Absent"} => r.run[u] = s.run[u]
    BY <1>1, TimerTickKeeps
  <1> HIDE DEF r
  <1>3. \A u \in Task : s.run[u] = "Sleeping" => r.run[u] = "Sleeping"
    BY <1>2, ZenonT(30)
  <1>4. WaitersOK(r, l)
    BY <1>1, <1>3, WaitersStay
  <1>5. KernelOK(r, l)
    BY <1>1, <1>2, <1>4 DEF KernelOK
  <1>6. StaysOut(s, r)
    BY <1>2, ZenonT(30) DEF StaysOut
  <1> QED BY <1>5, <1>6 DEF r

\* Task::create and register_new_task.
LEMMA SpawnKernel ==
  ASSUME NEW s \in SchedState, NEW l \in LockState, KernelOK(s, l), NEW t \in Task, s.run[t] = "Absent"
  PROVE  LET r == Created(s, t) IN
         /\ KernelOK(r, l) /\ r.current = s.current
         /\ \A u \in Task : u # t => r.run[u] = s.run[u]
  <1> DEFINE r == Created(s, t)
  <1>1. /\ SchedOK(s) /\ l \in LockState /\ WaitersOK(s, l)
        /\ s.run[Idle] \in {"Ready", "Running"} /\ Idle \in Task
        /\ LocksOK(l)
    BY TaskAssumption DEF KernelOK
  <1>2. SchedOK(r) /\ r.current = s.current /\ r.run = [s.run EXCEPT ![t] = "Ready"]
    BY <1>1, SpawnKeeps, ZenonT(30) DEF Created
  <1> HIDE DEF r
  <1>3. \A u \in Task : r.run[u] = IF u = t THEN "Ready" ELSE s.run[u]
    BY <1>1, <1>2 DEF SchedOK, SchedState
  <1>4. \A u \in Task : s.run[u] = "Sleeping" => r.run[u] = "Sleeping"
    BY <1>3
  <1>5. WaitersOK(r, l)
    BY <1>1, <1>4, WaitersStay
  <1>6. KernelOK(r, l)
    BY <1>1, <1>2, <1>3, <1>5, ZenonT(30) DEF KernelOK
  <1> QED BY <1>2, <1>3, <1>6 DEF r

\* exit() clears the live flag: lock, notify_all, and the drop of the guard.
LEMMA DeadKernel ==
  ASSUME NEW s \in SchedState, NEW l \in LockState, KernelOK(s, l),
         NEW m \in Mutex, m \in Cond, ~l.locked[m]
  PROVE  LET r == WakeAll(WakeAll(s, l.cwait[m]), l.mwait[m])
             k == Unlocked(Notified(l, m), m)
         IN  /\ KernelOK(r, k) /\ StaysOut(s, r) /\ r.current = s.current
             /\ k.locked = l.locked
  <1> DEFINE v == WakeAll(s, l.cwait[m])
             n == Notified(l, m)
             r == WakeAll(v, n.mwait[m])
             k == Unlocked(n, m)
  <1>1. KernelOK(v, n) /\ StaysOut(s, v) /\ v.current = s.current
    BY NotifyKernel
  <1>2. n.locked = l.locked /\ n.mwait = l.mwait
    BY NotifiedFields, ZenonT(30)
  <1> HIDE DEF v, n
  <1>3. v \in SchedState /\ n \in LockState
    BY <1>1 DEF KernelOK, SchedOK
  <1>4. /\ KernelOK(r, k) /\ StaysOut(v, r) /\ r.current = v.current
        /\ k.locked = [n.locked EXCEPT ![m] = FALSE]
    BY <1>1, <1>3, UnlockKernel, ZenonT(30)
  <1>5. k.locked = l.locked
    BY <1>2, <1>4 DEF LockState
  <1>6. StaysOut(s, r)
    BY <1>1, <1>4 DEF StaysOut
  <1>7. r = WakeAll(v, l.mwait[m])
    BY <1>2, ZenonT(30)
  <1> QED BY <1>1, <1>4, <1>5, <1>6, <1>7 DEF k, n, v

\* The rest of exit(), by the current task, and schedule().
LEMMA GoneKernel ==
  ASSUME NEW s \in SchedState, NEW l \in LockState, KernelOK(s, l),
         s.current \in Task \ {Idle}
  PROVE  LET r == Schedule(DropTask(RemoveTask(s, s.current), s.current))
         IN  KernelOK(r, l) /\ StaysOut(s, r) /\ r.run[s.current] = "Absent"
  <1> DEFINE r == Schedule(DropTask(RemoveTask(s, s.current), s.current))
  <1>1. /\ SchedOK(s) /\ WaitersOK(s, l)
        /\ s.run[Idle] \in {"Ready", "Running"} /\ Idle \in Task
        /\ LocksOK(l)
    BY TaskAssumption DEF KernelOK
  <1>2. s.run[Idle] = "Ready" /\ s.current \in Task /\ s.run[s.current] = "Running"
    BY <1>1, ZenonT(30) DEF SchedOK, CurrentOK
  <1>3. /\ SchedOK(r) /\ r.run[s.current] = "Absent"
        /\ \A u \in Task : \/ u = s.current
                           \/ r.run[u] = s.run[u]
                           \/ s.run[u] = "Ready" /\ r.run[u] = "Running"
    BY <1>1, <1>2, ExitKeeps
  <1> HIDE DEF r
  <1>4. \A u \in Task : s.run[u] = "Sleeping" => r.run[u] = "Sleeping"
    BY <1>2, <1>3
  <1>5. WaitersOK(r, l)
    BY <1>1, <1>4, WaitersStay
  <1>6. KernelOK(r, l)
    BY <1>1, <1>2, <1>3, <1>5 DEF KernelOK
  <1>7. StaysOut(s, r)
    BY <1>3 DEF StaysOut
  <1> QED BY <1>3, <1>6, <1>7 DEF r

\* The loop of Process::exit over the only thread of a user process.
LEMMA RemovedOne ==
  ASSUME NEW s, NEW t
  PROVE  Removed(s, <<t>>) = RemoveTask(DropTask(s, t), t)
  <1> DEFINE P(f) == f = [i \in 0..1 |->
                            IF i = 0 THEN s ELSE RemoveTask(DropTask(f[i - 1], <<t>>[i]), <<t>>[i])]
             g == [i \in 0..1 |-> IF i = 0 THEN s ELSE RemoveTask(DropTask(s, t), t)]
             left == CHOOSE f : P(f)
  <1>1. P(g)
    <2>1. g[0] = s
      OBVIOUS
    <2>2. \A i \in 0..1 : (IF i = 0 THEN s ELSE RemoveTask(DropTask(g[i - 1], <<t>>[i]), <<t>>[i]))
                            = IF i = 0 THEN s ELSE RemoveTask(DropTask(s, t), t)
      BY <2>1
    <2> QED BY <2>2
  <1>2. P(left)
    BY <1>1
  <1>3. Removed(s, <<t>>) = left[1]
    BY DEF Removed
  <1> HIDE DEF left
  <1>4. left[0] = s
    BY <1>2
  <1>5. left[1] = RemoveTask(DropTask(left[0], t), t)
    BY <1>2
  <1> QED BY <1>3, <1>4, <1>5

\* Process::exit and Task::exit leave the scheduler in the same state.
LEMMA SameRemoval ==
  ASSUME NEW s \in SchedState, s.current \in Task, s.run[s.current] # "Absent"
  PROVE  RemoveTask(DropTask(s, s.current), s.current)
           = DropTask(RemoveTask(s, s.current), s.current)
  <1> DEFINE c == s.current
             f == [s.run EXCEPT ![c] = "Absent"]
             g == [s.slice EXCEPT ![c] = 0]
             d == [s EXCEPT !.run = f, !.slice = g]
             k == [s EXCEPT !.current = NoTask]
  <1>1. DropTask(s, c) = d /\ RemoveTask(s, c) = k
    BY DEF DropTask, RemoveTask
  <1>2. d.current = c /\ k.run = s.run /\ k.slice = s.slice
    BY DEF SchedState
  <1>3. RemoveTask(d, c) = [d EXCEPT !.current = NoTask]
    BY <1>2 DEF RemoveTask
  <1>4. DropTask(k, c) = [k EXCEPT !.run = f, !.slice = g]
    BY <1>2 DEF DropTask
  <1>5. [d EXCEPT !.current = NoTask] = [k EXCEPT !.run = f, !.slice = g]
    BY ZenonT(30) DEF SchedState
  <1> QED BY <1>1, <1>3, <1>4, <1>5

-----------------------------------------------------------------------------
(* A step of one task that creates nothing.                                *)

\* The ids.
LEMMA Ids ==
  /\ Idle = 0 /\ Idle \in Task /\ Runner \in Task /\ 1 \in Task /\ NoTask \notin Task
  /\ \A t \in Task : t \in Nat
  /\ \A p \in ProcId : p \in Nat /\ p # 0
  BY ProcessesAssumption, TaskAssumption DEF ProcId, Runner

\* The ids that are below the bounds.
LEMMA NextIds ==
  /\ \A n \in Nat : n < MaxTask <=> n \in Task
  /\ \A n \in Nat : n <= MaxProc /\ n # 0 <=> n \in ProcId
  BY ProcessesAssumption DEF ProcId

\* The names of the monitors.
LEMMA Names ==
  /\ \A t \in Task : <<"task", t>> \in Obj
  /\ \A p \in ProcId : <<"proc", p>> \in Obj
  BY DEF Obj

LEMMA Monitor ==
  ASSUME NEW x \in Obj
  PROVE  x \in Mutex /\ x \in Cond
  BY ProcessesAssumption

\* The names of those who hold references.
LEMMA RefNames ==
  ASSUME NEW S, NEW t
  PROVE  /\ <<"thread", t>> \in S => S \ {TASKS} # {}
         /\ <<"run", t>> \in S => S \ {PROCS} # {}
  <1>1. <<"thread", t>> # TASKS /\ <<"run", t>> # PROCS
    BY ZenonT(30) DEF TASKS, PROCS
  <1> QED BY <1>1, ZenonT(30)

\* t goes to l with object x.  It may mark its own monitor dead, once it is
\* gone, and it may finish a wait for a dead one.  The mutexes that others
\* hold, and the flags they have read, stay as they are.
TaskStep(t, l, x) ==
  /\ UNCHANGED <<procOf, nextTask, nextProc, sophonTest>>
  /\ procOf[t] # 0 /\ t # Idle
  /\ KernelOK(sched, locks)' /\ StaysOut(sched, sched') /\ Typed'
  /\ pc' = [pc EXCEPT ![t] = At(l, x)] /\ PlaceOK(t, l, x)'
  /\ \A p \in ProcId : threads'[p] = threads[p] \/ (sophonTest /\ p = Runner + 1)
  /\ \A u \in Task : taskRefs'[u] \in {taskRefs[u], taskRefs[u] \ {TASKS}}
  /\ \A p \in ProcId : \A u \in Task : <<"run", u>> \in procRefs[p] => <<"run", u>> \in procRefs'[p]
  /\ \A u \in Task : u # t /\ pc[u].at \in Holding =>
       locks'.locked[pc[u].obj] /\ live'[pc[u].obj] = live[pc[u].obj]
  /\ \A y \in Obj : \/ live'[y] = live[y]
                    \/ IsOwn(t, y) /\ sched'.run[t] = "Absent" /\ TASKS \notin taskRefs'[t]
  /\ \A u \in Task : \A y \in waited'[u] :
       \/ y \in waited[u] /\ ~live'[y]
       \/ u = t /\ ~live'[y] /\ \A w \in Task : y = <<"task", w>> => <<"thread", t>> \in taskRefs'[w]

\* Such a step keeps the invariant.
LEMMA TaskStepKeeps ==
  ASSUME ProcInv, NEW t \in Task, NEW l \in Label, NEW x \in Obj \cup {NoObj},
         TaskStep(t, l, x)
  PROVE  ProcInv'
  <1>0. Typed /\ Tree /\ Fresh /\ Places /\ Refs /\ Dead
    BY ZenonT(30) DEF ProcInv
  <1>1. /\ procOf' = procOf /\ nextTask' = nextTask /\ nextProc' = nextProc
        /\ sophonTest' = sophonTest /\ procOf[t] # 0 /\ t # Idle
        /\ KernelOK(sched, locks)' /\ StaysOut(sched, sched') /\ Typed'
        /\ pc' = [pc EXCEPT ![t] = At(l, x)] /\ PlaceOK(t, l, x)'
    BY DEF TaskStep
  <1>2. \A u \in Task : u \in Nat /\ procOf[u] < nextProc /\ (procOf[u] = 0 <=> u >= nextTask)
    BY <1>0, Ids, ZenonT(30) DEF Tree
  <1>3. \A u \in Task : procOf[u] \in Nat /\ (procOf[u] # 0 => procOf[u] \in ProcId)
    BY <1>0, Ids, ZenonT(30) DEF Typed
  <1>4. \A u \in Task : IsUser(u)' <=> IsUser(u)
    BY <1>1, ZenonT(30) DEF IsUser
  <1>5. Tree'
    <2>1. \A p \in ProcId : threads'[p] = threads[p] \/ (sophonTest /\ p = Runner + 1)
      BY ZenonT(30) DEF TaskStep
    <2>2. \A p \in ProcId : p >= nextProc => threads'[p] = <<>>
      BY <1>0, <2>1, Ids DEF Tree, Typed
    <2>3. \A u \in Task : procOf[u] # 0 /\ IsUser(u) => threads'[procOf[u]] = <<u>>
      <3>1. \A u \in Task : IsUser(u) => ~(sophonTest /\ procOf[u] = Runner + 1)
        BY ZenonT(30) DEF IsUser
      <3> QED BY <1>0, <1>3, <2>1, <3>1, ZenonT(30) DEF Tree
    <2> QED BY <1>0, <1>1, <1>4, <2>2, <2>3, ZenonT(30) DEF Tree
  <1>6. \A y \in Obj : \/ live'[y] = live[y]
                       \/ IsOwn(t, y) /\ sched'.run[t] = "Absent" /\ TASKS \notin taskRefs'[t]
    BY ZenonT(30) DEF TaskStep
  <1>7. \A u \in Task : taskRefs'[u] \in {taskRefs[u], taskRefs[u] \ {TASKS}}
    BY ZenonT(30) DEF TaskStep
  <1>8. \A u, w \in Task : <<"thread", u>> \in taskRefs'[w] <=> <<"thread", u>> \in taskRefs[w]
    BY <1>7, ZenonT(30) DEF TASKS
  <1>9. \A u \in Task : pc'[u] = IF u = t THEN At(l, x) ELSE pc[u]
    BY <1>0, <1>1, ZenonT(30) DEF Typed
  <1>10. Fresh'
    <2>1. \A u \in Task : u >= nextTask => live'[<<"task", u>>]
      <3>1. \A u \in Task : u >= nextTask => live[<<"task", u>>]
        BY <1>0, ZenonT(30) DEF Fresh
      <3>2. \A u \in Task : u >= nextTask => u # t
        BY <1>1, <1>2, ZenonT(30)
      <3>3. \A u \in Task : u # t => live'[<<"task", u>>] = live[<<"task", u>>]
        BY <1>6, Names, ZenonT(30) DEF IsOwn
      <3> QED BY <3>1, <3>2, <3>3, ZenonT(30)
    <2>a. \A p \in ProcId : live'[<<"proc", p>>] = live[<<"proc", p>>] \/ (IsUser(t) /\ p = procOf[t])
      BY <1>6, Names, ZenonT(30) DEF IsOwn
    <2>2. \A p \in ProcId : p >= nextProc => live'[<<"proc", p>>]
      <3>1. \A p \in ProcId : p >= nextProc => p # procOf[t]
        BY <1>0, <1>2, <1>3, Ids DEF Typed
      <3> QED BY <1>0, <2>a, <3>1, ZenonT(30) DEF Fresh
    <2>3. sophonTest => live'[<<"proc", Runner + 1>>]
      <3>1. sophonTest => Runner + 1 \in ProcId /\ ~(IsUser(t) /\ Runner + 1 = procOf[t])
        BY <1>0, <1>3, Ids DEF IsUser, Tree, Runner
      <3> QED BY <1>0, <2>a, <3>1, ZenonT(30) DEF Fresh
    <2>4. \A u \in Task : u >= nextTask => pc'[u].at = "entry" /\ taskRefs'[u] = {}
      <3>1. \A u \in Task : u >= nextTask => pc'[u] = pc[u]
        BY <1>1, <1>2, <1>9
      <3>2. \A u \in Task : u >= nextTask => taskRefs[u] = {}
        BY <1>0, ZenonT(30) DEF Fresh
      <3>3. \A u \in Task : u >= nextTask => taskRefs'[u] = {}
        BY <1>7, <3>2, ZenonT(30)
      <3> QED BY <1>0, <3>1, <3>3, ZenonT(30) DEF Fresh
    <2>5. \A u \in Task : u >= nextTask => sched'.run[u] = "Absent"
      BY <1>0, <1>1, ZenonT(30) DEF Fresh, StaysOut
    <2>6. pc'[Idle].at = "entry"
      BY <1>0, <1>1, <1>9, Ids DEF Fresh
    <2> QED BY <1>1, <2>1, <2>2, <2>3, <2>4, <2>5, <2>6, ZenonT(30) DEF Fresh
  <1>11. ASSUME NEW u \in Task PROVE PlaceOK(u, pc[u].at, pc[u].obj)'
    <2>1. CASE u = t
      <3>1. pc'[u].at = l /\ pc'[u].obj = x
        BY <1>9, <2>1 DEF At
      <3> QED BY <1>1, <2>1, <3>1, ZenonT(30) DEF PlaceOK, IsHandle, IsChild, IsOwn, IsUser
    <2>2. CASE u # t
      <3>1. pc'[u] = pc[u] /\ PlaceOK(u, pc[u].at, pc[u].obj)
        BY <1>0, <1>9, <2>2 DEF Places
      <3>2. IsHandle(u, pc[u].obj) => IsHandle(u, pc[u].obj)'
        BY <1>8, <3>1, ZenonT(30) DEF IsHandle
      <3>3. IsChild(u, pc[u].obj) => IsChild(u, pc[u].obj)'
        BY <1>4, <3>1, ZenonT(30) DEF IsChild
      <3>4. IsOwn(u, pc[u].obj) => IsOwn(u, pc[u].obj)'
        BY <1>1, <1>4, <3>1, ZenonT(30) DEF IsOwn
      <3>5. pc[u].at \in Holding =>
              locks'.locked[pc[u].obj] /\ live'[pc[u].obj] = live[pc[u].obj]
        BY <2>2 DEF TaskStep
      <3>6. pc[u].at # "entry" => procOf[u] \in ProcId
        BY <1>0, <1>2, <1>3, ZenonT(30) DEF Fresh
      <3>7. pc[u].at # "entry" /\ IsUser(u) => <<"run", u>> \in procRefs'[procOf[u]]
        BY <3>1, <3>6, ZenonT(30) DEF TaskStep, PlaceOK
      <3> QED BY <1>1, <1>4, <3>1, <3>2, <3>3, <3>4, <3>5, <3>7, ZenonT(30) DEF PlaceOK, Holding
    <2> QED BY <2>1, <2>2, ZenonT(30)
  <1>12. Refs'
    BY <1>0, <1>1, <1>4, <1>8, Ids, ZenonT(30) DEF Refs
  <1>13. Dead'
    <2>1. ASSUME NEW u \in Task, ~live'[<<"task", u>>]
          PROVE  sched'.run[u] = "Absent" /\ TASKS \notin taskRefs'[u]
      <3>1. CASE ~live[<<"task", u>>]
        BY <1>0, <1>1, <1>7, <3>1 DEF Dead, StaysOut
      <3>2. CASE live[<<"task", u>>]
        BY <1>6, <2>1, <3>2, Names, ZenonT(30) DEF IsOwn
      <3> QED BY <3>1, <3>2, ZenonT(30)
    <2>2. ASSUME NEW u \in Task, procOf[u] # 0, ~live'[<<"proc", procOf[u]>>]
          PROVE  sched'.run[u] = "Absent"
      <3>0. <<"proc", procOf[u]>> \in Obj
        BY <1>3, <2>2, Names, ZenonT(30)
      <3>1. CASE ~live[<<"proc", procOf[u]>>]
        BY <1>0, <1>1, <2>2, <3>1, ZenonT(30) DEF Dead, StaysOut
      <3>2. CASE live[<<"proc", procOf[u]>>]
        <4>1. IsUser(t) /\ procOf[u] = procOf[t] /\ sched'.run[t] = "Absent"
          BY <1>6, <2>2, <3>0, <3>2, ZenonT(30) DEF IsOwn
        <4>2. u = t
          BY <1>0, <1>1, <4>1, ZenonT(30) DEF Tree
        <4> QED BY <4>1, <4>2, ZenonT(30)
      <3> QED BY <3>1, <3>2, ZenonT(30)
    <2>3. ASSUME NEW u \in Task, NEW y \in waited'[u]
          PROVE  ~live'[y] /\ \A w \in Task : y = <<"task", w>> => <<"thread", u>> \in taskRefs'[w]
      <3>1. \/ y \in waited[u] /\ ~live'[y]
            \/ u = t /\ ~live'[y] /\ \A w \in Task : y = <<"task", w>> => <<"thread", t>> \in taskRefs'[w]
        BY ZenonT(30) DEF TaskStep
      <3>2. CASE y \in waited[u] /\ ~live'[y]
        BY <1>0, <1>8, <3>2, ZenonT(30) DEF Dead
      <3> QED BY <3>1, <3>2, ZenonT(30)
    <2> QED BY <1>1, <2>1, <2>2, <2>3, ZenonT(30) DEF Dead
  <1> QED BY <1>1, <1>5, <1>10, <1>11, <1>12, <1>13 DEF ProcInv, Places

\* A task that runs, other than Idle, exists; and what the kernel's state is.
LEMMA CurrentExists ==
  ASSUME ProcInv, NEW t \in Task, Current(t), t # Idle
  PROVE  /\ procOf[t] \in ProcId /\ procOf[t] # 0 /\ pc[t].at \in Label
         /\ sched.current = t /\ sched.current \in Task \ {Idle} /\ sched.run[t] = "Running"
         /\ sched \in SchedState /\ locks \in LockState /\ KernelOK(sched, locks)
  <1>1. KernelOK(sched, locks) /\ Typed /\ Tree /\ Fresh
    BY ZenonT(30) DEF ProcInv
  <1>2. SchedOK(sched) /\ locks \in LockState
    BY <1>1 DEF KernelOK
  <1>3. sched.current = t /\ sched.run[t] = "Running" /\ sched \in SchedState
    BY <1>2, ZenonT(30) DEF Current, SchedOK, CurrentOK
  <1>4. procOf[t] # 0
    BY <1>1, <1>3, ZenonT(30) DEF Tree, Fresh
  <1> QED BY <1>1, <1>2, <1>3, <1>4, ZenonT(30) DEF Typed, Place

\* Nothing but pc[t].at is assigned.
LEMMA MovesTo ==
  ASSUME Typed, NEW t \in Task, NEW l
  PROVE  [pc EXCEPT ![t].at = l] = [pc EXCEPT ![t] = At(l, pc[t].obj)]
  <1>1. pc[t] \in Place
    BY DEF Typed
  <1>2. [pc[t] EXCEPT !.at = l] = At(l, pc[t].obj)
    BY <1>1 DEF At, Place
  <1>3. [pc EXCEPT ![t].at = l] = [pc EXCEPT ![t] = [pc[t] EXCEPT !.at = l]]
    OBVIOUS
  <1> QED BY <1>2, <1>3, ZenonT(30)

\* Only the test runner holds the mutex of a live monitor across steps.
LEMMA OneHolder ==
  ASSUME ProcInv, NEW t \in Task,
         pc[t].at \in {"lazy", "lock", "locked", "park", "unlock"}
  PROVE  t = Runner /\ ~IsUser(t) /\ IsHandle(t, pc[t].obj) /\ pc[t].obj \in Obj
  <1>1. IsHandle(t, pc[t].obj)
    BY ZenonT(30) DEF ProcInv, Places, PlaceOK, Holding
  <1>2. t = Runner /\ sophonTest
    BY <1>1 DEF IsHandle, ProcInv, Refs
  <1>3. ~IsUser(t)
    BY <1>2, ZenonT(30) DEF IsUser, ProcInv, Tree
  <1>4. pc[t].obj \in Obj
    BY <1>1, Names, ZenonT(30) DEF IsHandle
  <1> QED BY <1>1, <1>2, <1>3, <1>4, ZenonT(30)

\* A step that marks nothing dead and finishes no wait.
LEMMA QuietStep ==
  ASSUME ProcInv, NEW t \in Task, NEW l \in Label, NEW x \in Obj \cup {NoObj},
         Current(t), t # Idle,
         UNCHANGED <<procOf, threads, live, taskRefs, waited, nextTask, nextProc, sophonTest>>,
         KernelOK(sched, locks)', StaysOut(sched, sched'),
         \A u \in Task : u # t /\ pc[u].at \in Holding => locks'.locked[pc[u].obj],
         lazy' \in [Obj -> LazyState],
         procRefs' \in [ProcId -> ProcHolders],
         \A p \in ProcId : procRefs[p] \subseteq procRefs'[p],
         pc' = [pc EXCEPT ![t] = At(l, x)], PlaceOK(t, l, x)'
  PROVE  ProcInv'
  <1>1. Typed /\ Dead /\ procOf[t] # 0
    BY CurrentExists, ZenonT(30) DEF ProcInv
  <1>2. At(l, x) \in Place
    BY ZenonT(30) DEF At, Place
  <1>3. Typed'
    BY <1>1, <1>2, ZenonT(30) DEF Typed
  <1>4. \A u \in Task : \A y \in waited'[u] : y \in waited[u] /\ ~live'[y]
    BY <1>1, ZenonT(30) DEF Dead
  <1>5. TaskStep(t, l, x)
    BY <1>1, <1>3, <1>4, ZenonT(30) DEF TaskStep
  <1> QED BY <1>5, TaskStepKeeps, ZenonT(30)

\* entry() and run().
LEMMA EnterKeeps ==
  ASSUME ProcInv, NEW t \in Task, Enter(t)
  PROVE  ProcInv'
  <1>0. Typed /\ Places /\ Current(t) /\ t # Idle
    BY Ids, ZenonT(30) DEF Enter, InState, ProcInv
  <1>1. procOf[t] \in ProcId /\ KernelOK(sched, locks)
    BY <1>0, CurrentExists
  <1>2. /\ UNCHANGED <<sched, locks, procOf, threads, live, lazy, taskRefs, waited,
                        nextTask, nextProc, sophonTest>>
        /\ pc' = [pc EXCEPT ![t] = At("run", NoObj)]
    BY ZenonT(30) DEF Enter
  <1>3. /\ procRefs' \in [ProcId -> ProcHolders]
        /\ \A p \in ProcId : procRefs[p] \subseteq procRefs'[p]
        /\ IsUser(t) => <<"run", t>> \in procRefs'[procOf[t]]
    <2>1. CASE IsUser(t)
      <3>1. procRefs' = [procRefs EXCEPT ![procOf[t]] = @ \cup {<<"run", t>>}]
        BY <2>1, ZenonT(30) DEF Enter
      <3>2. <<"run", t>> \in {"exec", "run"} \X Task
        BY ZenonT(30)
      <3> QED BY <1>0, <1>1, <3>1, <3>2 DEF Typed, ProcHolders
    <2>2. CASE ~IsUser(t)
      BY <1>0, <2>2, ZenonT(30) DEF Enter, Typed
    <2> QED BY <2>1, <2>2, ZenonT(30)
  <1>4. PlaceOK(t, "run", NoObj)'
    BY <1>2, <1>3, ZenonT(30) DEF PlaceOK, Holding, IsUser
  <1>5. \A u \in Task : u # t /\ pc[u].at \in Holding => locks'.locked[pc[u].obj]
    BY <1>0, <1>2, ZenonT(30) DEF Places, PlaceOK
  <1>6. StaysOut(sched, sched') /\ KernelOK(sched, locks)' /\ "run" \in Label
        /\ lazy' \in [Obj -> LazyState]
    BY <1>0, <1>1, <1>2, ZenonT(30) DEF StaysOut, Label, Preemptible, Typed
  <1> QED BY <1>0, <1>2, <1>3, <1>4, <1>5, <1>6, QuietStep, ZenonT(30)

\* wait_for_completion, up to its lock().
LEMMA WaitCallKeeps ==
  ASSUME ProcInv, NEW t \in Task, NEW u \in Task, WaitCall(t, u)
  PROVE  ProcInv'
  <1> DEFINE x == <<"task", u>>
  <1>l. PICK l \in {"lock", "lazy"} : l = IF lazy[x] = "ready" THEN "lock" ELSE "lazy"
    BY ZenonT(30)
  <1>0. Typed /\ Places /\ Fresh /\ Current(t) /\ pc[t].at = "run"
    BY DEF WaitCall, InState, ProcInv
  <1>a. t # Idle
    BY <1>0, ZenonT(30) DEF Fresh
  <1>1. KernelOK(sched, locks) /\ x \in Obj /\ l \in Label
    BY <1>0, <1>a, CurrentExists, Names, ZenonT(30) DEF Label, Preemptible
  <1>2. /\ UNCHANGED <<sched, locks, procOf, threads, live, taskRefs, procRefs, waited,
                        nextTask, nextProc, sophonTest>>
        /\ pc' = [pc EXCEPT ![t] = At(l, x)]
        /\ <<"thread", t>> \in taskRefs[u]
    BY <1>l DEF WaitCall
  <1>3. lazy' \in [Obj -> LazyState]
    BY <1>0, <1>1, ZenonT(30) DEF WaitCall, Typed, LazyState
  <1>4. IsHandle(t, x)'
    BY <1>2, ZenonT(30) DEF IsHandle
  <1>5. IsUser(t) => <<"run", t>> \in procRefs[procOf[t]]
    BY <1>0, ZenonT(30) DEF Places, PlaceOK
  <1>6. PlaceOK(t, l, x)'
    BY <1>2, <1>4, <1>5, ZenonT(30) DEF PlaceOK, Holding, IsUser
  <1>7. \A w \in Task : w # t /\ pc[w].at \in Holding => locks'.locked[pc[w].obj]
    BY <1>0, <1>2, ZenonT(30) DEF Places, PlaceOK
  <1>8. /\ StaysOut(sched, sched') /\ KernelOK(sched, locks)'
        /\ procRefs' \in [ProcId -> ProcHolders]
        /\ \A p \in ProcId : procRefs[p] \subseteq procRefs'[p]
    BY <1>0, <1>1, <1>2, ZenonT(30) DEF StaysOut, Typed
  <1> HIDE DEF x
  <1> QED BY <1>0, <1>a, <1>1, <1>2, <1>3, <1>6, <1>7, <1>8, QuietStep, ZenonT(30)

\* The Lazy is initialised, or the flag is read.
LEMMA LocalKeeps ==
  ASSUME ProcInv, NEW t \in Task, LazyDone(t) \/ ReadLive(t)
  PROVE  ProcInv'
  <1>0. Typed /\ Places /\ Fresh /\ Current(t) /\ pc[t].at \in {"lazy", "locked"}
    BY DEF LazyDone, ReadLive, InState, ProcInv
  <1>a. t # Idle
    BY <1>0, ZenonT(30) DEF Fresh
  <1>b. IsHandle(t, pc[t].obj) /\ pc[t].obj \in Obj /\ ~IsUser(t)
    BY <1>0, OneHolder
  <1>x. PICK x \in Obj : x = pc[t].obj
    BY <1>b
  <1>l. PICK l \in {"lock", "park", "unlock"} :
          l = IF pc[t].at = "lazy" THEN "lock" ELSE IF live[x] THEN "park" ELSE "unlock"
    BY ZenonT(30)
  <1>1. KernelOK(sched, locks)
    BY <1>0, <1>a, CurrentExists, ZenonT(30)
  <1>2. /\ UNCHANGED <<sched, locks, procOf, threads, live, taskRefs, procRefs, waited,
                        nextTask, nextProc, sophonTest>>
        /\ pc' = [pc EXCEPT ![t].at = l]
    BY <1>l, <1>x DEF LazyDone, ReadLive, InState
  <1>3. pc' = [pc EXCEPT ![t] = At(l, x)]
    BY <1>0, <1>2, <1>x, MovesTo, ZenonT(30)
  <1>4. lazy' \in [Obj -> LazyState]
    BY <1>0, <1>b, ZenonT(30) DEF LazyDone, ReadLive, Typed, LazyState
  <1>5. PlaceOK(t, pc[t].at, x)
    BY <1>0, <1>x, ZenonT(30) DEF Places
  <1>6. PlaceOK(t, l, x)'
    <2>1. IsHandle(t, x)' /\ ~IsUser(t)'
      BY <1>2, <1>b, <1>x, ZenonT(30) DEF IsHandle, IsUser
    <2>2. pc[t].at = "locked" => locks'.locked[x]
      BY <1>2, <1>5 DEF PlaceOK, Holding
    <2>3. l = "park" => live'[x]
      BY <1>2, <1>l, ZenonT(30)
    <2>4. l = "unlock" => ~live'[x]
      BY <1>2, <1>l, ZenonT(30)
    <2>5. l \in Holding => pc[t].at = "locked"
      BY <1>0, <1>l, ZenonT(30) DEF Holding
    <2> QED BY <2>1, <2>2, <2>3, <2>4, <2>5, ZenonT(30) DEF PlaceOK
  <1>7. \A w \in Task : w # t /\ pc[w].at \in Holding => locks'.locked[pc[w].obj]
    BY <1>0, <1>2, ZenonT(30) DEF Places, PlaceOK
  <1>8. /\ StaysOut(sched, sched') /\ KernelOK(sched, locks)'
        /\ procRefs' \in [ProcId -> ProcHolders]
        /\ \A p \in ProcId : procRefs[p] \subseteq procRefs'[p]
    BY <1>0, <1>1, <1>2 DEF StaysOut, Typed
  <1>9. x \in Obj \cup {NoObj} /\ l \in Label
    BY ZenonT(30) DEF Label, Preemptible
  <1> QED BY <1>0, <1>a, <1>2, <1>3, <1>4, <1>6, <1>7, <1>8, <1>9, QuietStep, ZenonT(30)

\* wait(), by the runner.
LEMMA ParkKeeps ==
  ASSUME ProcInv, NEW t \in Task, Park(t)
  PROVE  ProcInv'
  <1>0. Typed /\ Places /\ Fresh /\ Current(t) /\ pc[t].at = "park"
    BY DEF Park, InState, ProcInv
  <1>a. t # Idle
    BY <1>0, ZenonT(30) DEF Fresh
  <1>b. IsHandle(t, pc[t].obj) /\ pc[t].obj \in Obj /\ ~IsUser(t) /\ t = Runner
    BY <1>0, OneHolder, ZenonT(30)
  <1>x. PICK x \in Obj : x = pc[t].obj
    BY <1>b, ZenonT(30)
  <1>1. /\ KernelOK(sched, locks) /\ sched \in SchedState /\ locks \in LockState
        /\ sched.current = t /\ sched.current \in Task \ {Idle} /\ x \in Mutex /\ x \in Cond
    BY <1>0, <1>a, <1>b, CurrentExists, Monitor, ZenonT(30)
  <1>2. /\ UNCHANGED <<procOf, threads, live, lazy, taskRefs, procRefs, waited,
                        nextTask, nextProc, sophonTest>>
        /\ pc' = [pc EXCEPT ![t].at = "wlock"]
        /\ sched' = Sleep(WakeAll(sched, locks.mwait[x]))
        /\ locks' = Parked(locks, x, x, t)
    BY <1>x DEF Park
  <1>3. pc' = [pc EXCEPT ![t] = At("wlock", x)]
    BY <1>0, <1>2, <1>x, MovesTo, ZenonT(30)
  <1>4. KernelOK(sched', locks') /\ StaysOut(sched, sched')
    BY <1>1, <1>2, ParkKernel, ZenonT(30)
  <1>5. PlaceOK(t, "wlock", x)'
    BY <1>2, <1>b, <1>x, ZenonT(30) DEF PlaceOK, Holding, IsHandle, IsUser
  <1>6. \A w \in Task : w # t /\ pc[w].at \in Holding => locks'.locked[pc[w].obj]
    BY <1>b, OneHolder DEF Holding
  <1>7. /\ procRefs' \in [ProcId -> ProcHolders]
        /\ \A p \in ProcId : procRefs[p] \subseteq procRefs'[p]
        /\ lazy' \in [Obj -> LazyState]
        /\ x \in Obj \cup {NoObj} /\ "wlock" \in Label
    BY <1>0, <1>2, ZenonT(30) DEF Typed, Label
  <1> QED BY <1>0, <1>a, <1>2, <1>3, <1>4, <1>5, <1>6, <1>7, QuietStep, ZenonT(30)

\* wait_for_completion returns: x is dead.
LEMMA WaitEnds ==
  ASSUME ProcInv, NEW t \in Task, NEW x \in Obj, Current(t), t # Idle,
         pc[t].at # "entry", ~live[x], IsHandle(t, x) \/ \E p \in ProcId : x = <<"proc", p>>,
         UNCHANGED <<procOf, threads, live, lazy, taskRefs, nextTask, nextProc, sophonTest>>,
         KernelOK(sched, locks)', StaysOut(sched, sched'),
         \A u \in Task : u # t /\ pc[u].at \in Holding => locks'.locked[pc[u].obj],
         procRefs' \in [ProcId -> ProcHolders],
         \A p \in ProcId : \A u \in Task : <<"run", u>> \in procRefs[p] => <<"run", u>> \in procRefs'[p],
         waited' = [waited EXCEPT ![t] = @ \cup {x}],
         pc' = [pc EXCEPT ![t] = At("run", NoObj)]
  PROVE  ProcInv'
  <1>1. Typed /\ Dead /\ Places /\ procOf[t] # 0 /\ procOf[t] \in ProcId
    BY CurrentExists, ZenonT(30) DEF ProcInv
  <1>2. At("run", NoObj) \in Place
    BY ZenonT(30) DEF At, Label, Preemptible, Place
  <1>3. waited' \in [Task -> SUBSET Obj]
    BY <1>1, ZenonT(30) DEF Typed
  <1>4. Typed'
    BY <1>1, <1>2, <1>3, ZenonT(30) DEF Typed
  <1>5. PlaceOK(t, "run", NoObj)'
    <2>1. IsUser(t) => <<"run", t>> \in procRefs[procOf[t]]
      BY <1>1, ZenonT(30) DEF Places, PlaceOK
    <2> QED BY <1>1, <2>1, ZenonT(30) DEF PlaceOK, Holding, IsUser
  <1>6. \A w \in Task : x = <<"task", w>> => <<"thread", t>> \in taskRefs[w]
    <2>1. CASE IsHandle(t, x)
      <3>1. PICK u \in Task : x = <<"task", u>> /\ <<"thread", t>> \in taskRefs[u]
        BY <2>1, ZenonT(30) DEF IsHandle
      <3> QED BY <3>1, ZenonT(30)
    <2>2. CASE \E p \in ProcId : x = <<"proc", p>>
      BY <2>2
    <2> QED BY <2>1, <2>2, ZenonT(30)
  <1>7. ASSUME NEW u \in Task, NEW y \in waited'[u]
        PROVE  \/ y \in waited[u] /\ ~live'[y]
               \/ /\ u = t /\ ~live'[y]
                  /\ \A w \in Task : y = <<"task", w>> => <<"thread", t>> \in taskRefs'[w]
    <2>1. y \in waited[u] \/ (u = t /\ y = x)
      BY <1>1, ZenonT(30) DEF Typed
    <2>2. CASE y \in waited[u]
      BY <1>1, <2>2, ZenonT(30) DEF Dead
    <2>3. CASE u = t /\ y = x
      BY <1>6, <2>3, ZenonT(30)
    <2> QED BY <2>1, <2>2, <2>3, ZenonT(30)
  <1>8. TaskStep(t, "run", NoObj)
    BY <1>1, <1>4, <1>5, <1>7, ZenonT(30) DEF TaskStep
  <1> QED BY <1>8, TaskStepKeeps DEF Label, Preemptible

\* The drop of the guard, by the runner.
LEMMA DropGuardKeeps ==
  ASSUME ProcInv, NEW t \in Task, DropGuard(t)
  PROVE  ProcInv'
  <1>0. Typed /\ Places /\ Fresh /\ Current(t) /\ pc[t].at = "unlock"
    BY ZenonT(30) DEF DropGuard, InState, ProcInv
  <1>a. t # Idle
    BY <1>0, ZenonT(30) DEF Fresh
  <1>b. IsHandle(t, pc[t].obj) /\ pc[t].obj \in Obj /\ t = Runner
    BY <1>0, OneHolder, ZenonT(30)
  <1>x. PICK x \in Obj : x = pc[t].obj
    BY <1>b, ZenonT(30)
  <1>1. KernelOK(sched, locks) /\ sched \in SchedState /\ locks \in LockState /\ x \in Mutex
    BY <1>0, <1>a, CurrentExists, Monitor, ZenonT(30)
  <1>2. /\ UNCHANGED <<procOf, threads, live, lazy, taskRefs, procRefs, nextTask, nextProc,
                        sophonTest>>
        /\ pc' = [pc EXCEPT ![t] = At("run", NoObj)]
        /\ sched' = WakeAll(sched, locks.mwait[x]) /\ locks' = Unlocked(locks, x)
        /\ waited' = [waited EXCEPT ![t] = @ \cup {x}]
    BY <1>x, ZenonT(30) DEF DropGuard
  <1>3. KernelOK(sched', locks') /\ StaysOut(sched, sched')
    BY <1>1, <1>2, UnlockKernel, ZenonT(30)
  <1>4. ~live[x] /\ IsHandle(t, x)
    BY <1>0, <1>b, <1>x, ZenonT(30) DEF Places, PlaceOK
  <1>5. \A u \in Task : u # t /\ pc[u].at \in Holding => locks'.locked[pc[u].obj]
    BY <1>b, OneHolder, ZenonT(30) DEF Holding
  <1>6. /\ procRefs' \in [ProcId -> ProcHolders]
        /\ \A p \in ProcId : \A u \in Task :
             <<"run", u>> \in procRefs[p] => <<"run", u>> \in procRefs'[p]
        /\ pc[t].at # "entry"
    BY <1>0, <1>2, ZenonT(30) DEF Typed
  <1> QED BY <1>0, <1>a, <1>2, <1>3, <1>4, <1>5, <1>6, WaitEnds, ZenonT(30)

\* lock() in wait_for_completion, and all of exec's wait that follows it.
LEMMA WaitLockKeeps ==
  ASSUME ProcInv, NEW t \in Task, WaitLock(t)
  PROVE  ProcInv'
  <1>0. Typed /\ Places /\ Fresh /\ Refs /\ Tree /\ Current(t) /\ pc[t].at \in {"lock", "wlock"}
    BY ZenonT(30) DEF WaitLock, InState, ProcInv
  <1>a. t # Idle
    BY <1>0, ZenonT(30) DEF Fresh
  <1>b. /\ IsHandle(t, pc[t].obj) \/ IsChild(t, pc[t].obj)
        /\ IsUser(t) => <<"run", t>> \in procRefs[procOf[t]]
    BY <1>0, ZenonT(30) DEF Places, PlaceOK
  <1>c. pc[t].obj \in Obj
    BY <1>b, Names, ZenonT(30) DEF IsHandle, IsChild
  <1>d. IsHandle(t, pc[t].obj) => ~IsUser(t)
    BY <1>0 DEF IsHandle, Refs, IsUser, Tree
  <1>x. PICK x \in Obj : x = pc[t].obj
    BY <1>c, ZenonT(30)
  <1>1. /\ KernelOK(sched, locks) /\ sched \in SchedState /\ locks \in LockState
        /\ sched.current = t /\ sched.current \in Task \ {Idle} /\ x \in Mutex /\ x \in Cond
        /\ procOf[t] \in ProcId
    BY <1>0, <1>a, CurrentExists, Monitor, ZenonT(30)
  <1>2. UNCHANGED <<procOf, threads, live, lazy, taskRefs, nextTask, nextProc, sophonTest>>
    BY DEF WaitLock
  <1>3. /\ lazy' \in [Obj -> LazyState]
        /\ x \in Obj \cup {NoObj} /\ "wlock" \in Label /\ "locked" \in Label
    BY <1>0, <1>2, ZenonT(30) DEF Typed, Label, Preemptible
  <1>4. \A u \in Task : pc[u].at \in Holding => locks.locked[pc[u].obj] /\ pc[u].obj \in Obj
    BY <1>0, OneHolder, ZenonT(30) DEF Places, PlaceOK, Holding
  <1>5. ASSUME procRefs' = procRefs
        PROVE  /\ procRefs' \in [ProcId -> ProcHolders]
               /\ \A p \in ProcId : procRefs[p] \subseteq procRefs'[p]
               /\ IsUser(t)' => <<"run", t>> \in procRefs'[procOf'[t]]
               /\ IsHandle(t, x)' \/ IsChild(t, x)'
               /\ ~IsUser(t) => IsHandle(t, x)'
    BY <1>0, <1>b, <1>x, <1>2, <1>5, ZenonT(30) DEF Typed, IsHandle, IsChild, IsUser
  <1>6. CASE locks.locked[x]
    <2>1. /\ locks' = Queued(locks, x, t) /\ sched' = Sleep(sched)
          /\ pc' = [pc EXCEPT ![t].at = "wlock"] /\ UNCHANGED <<waited, procRefs, mm>>
      BY <1>x, <1>6, ZenonT(30) DEF WaitLock
    <2>2. pc' = [pc EXCEPT ![t] = At("wlock", x)]
      BY <1>0, <1>x, <2>1, MovesTo, ZenonT(30)
    <2>3. KernelOK(sched', locks') /\ StaysOut(sched, sched') /\ locks'.locked = locks.locked
      BY <1>1, <1>6, <2>1, QueueKernel, ZenonT(30)
    <2>4. PlaceOK(t, "wlock", x)'
      BY <1>5, <2>1, ZenonT(30) DEF PlaceOK, Holding
    <2> QED BY <1>0, <1>a, <1>2, <1>3, <1>4, <1>5, <2>1, <2>2, <2>3, <2>4, QuietStep, ZenonT(30)
  <1>7. CASE ~locks.locked[x] /\ ~IsUser(t)
    <2>1. /\ locks' = Acquired(locks, x) /\ sched' = sched
          /\ pc' = [pc EXCEPT ![t].at = "locked"] /\ UNCHANGED <<waited, procRefs, mm>>
      BY <1>x, <1>7, ZenonT(30) DEF WaitLock
    <2>2. pc' = [pc EXCEPT ![t] = At("locked", x)]
      BY <1>0, <1>x, <2>1, MovesTo, ZenonT(30)
    <2>a. x[1] = "task"
      BY <1>b, <1>x, <1>7 DEF IsHandle, IsChild
    <2>3. KernelOK(sched', locks') /\ locks'.locked = [locks.locked EXCEPT ![x] = TRUE]
      BY <1>1, <2>1, <2>a, AcquireKernel, ZenonT(30)
    <2>4. \A y \in Obj : locks.locked[y] \/ y = x => locks'.locked[y]
      BY <1>1, <2>3, Monitor DEF LockState
    <2>5. PlaceOK(t, "locked", x)'
      BY <1>5, <1>7, <2>1, <2>4 DEF PlaceOK, Holding
    <2>6. StaysOut(sched, sched')
      BY <2>1, ZenonT(30) DEF StaysOut
    <2> QED BY <1>0, <1>a, <1>2, <1>3, <1>4, <1>5, <2>1, <2>2, <2>3, <2>4, <2>5, <2>6, QuietStep, ZenonT(30)
  <1>8. CASE ~locks.locked[x] /\ IsUser(t) /\ live[x]
    <2>1. /\ locks' = Parked(Acquired(locks, x), x, x, t) /\ sched' = Sleep(sched)
          /\ pc' = [pc EXCEPT ![t].at = "wlock"] /\ UNCHANGED <<waited, procRefs, mm>>
      BY <1>x, <1>8 DEF WaitLock
    <2>2. pc' = [pc EXCEPT ![t] = At("wlock", x)]
      BY <1>0, <1>x, <2>1, MovesTo, ZenonT(30)
    <2>3. KernelOK(sched', locks') /\ StaysOut(sched, sched') /\ locks'.locked = locks.locked
      BY <1>1, <1>8, <2>1, LockParkKernel
    <2>4. PlaceOK(t, "wlock", x)'
      BY <1>5, <2>1 DEF PlaceOK, Holding
    <2> QED BY <1>0, <1>a, <1>2, <1>3, <1>4, <1>5, <2>1, <2>2, <2>3, <2>4, QuietStep, ZenonT(30)
  <1>9. CASE ~locks.locked[x] /\ IsUser(t) /\ ~live[x]
    <2>1. /\ sched' = sched /\ locks' = locks /\ pc' = [pc EXCEPT ![t] = At("run", NoObj)]
          /\ waited' = [waited EXCEPT ![t] = @ \cup {x}]
          /\ procRefs' = [procRefs EXCEPT ![x[2]] = procRefs[x[2]] \ {<<"exec", t>>}]
      BY <1>x, <1>9 DEF WaitLock
    <2>2. \E p \in ProcId : x = <<"proc", p>>
      BY <1>b, <1>d, <1>x, <1>9, ZenonT(30) DEF IsChild
    <2>3. KernelOK(sched', locks') /\ StaysOut(sched, sched')
      BY <1>1, <2>1, ZenonT(30) DEF StaysOut
    <2>4. /\ procRefs' \in [ProcId -> ProcHolders]
          /\ \A p \in ProcId : \A u \in Task :
               <<"run", u>> \in procRefs[p] => <<"run", u>> \in procRefs'[p]
      BY <1>0, <2>1, <2>2, ZenonT(30) DEF Typed, ProcHolders
    <2>5. pc[t].at # "entry" /\ \A u \in Task : u # t /\ pc[u].at \in Holding => locks'.locked[pc[u].obj]
      BY <1>0, <1>4, <2>1, ZenonT(30)
    <2> QED BY <1>0, <1>a, <1>2, <1>9, <2>1, <2>2, <2>3, <2>4, <2>5, WaitEnds, ZenonT(30)
  <1> QED BY <1>6, <1>7, <1>8, <1>9

\* exit() has the lock: the object is marked dead and the task is gone.
LEMMA GoneKeeps ==
  ASSUME ProcInv, NEW t \in Task, NEW x \in Obj, Current(t), t # Idle, pc[t].at # "entry",
         IsOwn(t, x), ~locks.locked[x],
         UNCHANGED <<procOf, waited, nextTask, nextProc, sophonTest>>,
         lazy' \in [Obj -> LazyState],
         pc' = [pc EXCEPT ![t] = At("xlock", x)],
         live' = [live EXCEPT ![x] = FALSE],
         locks' = Unlocked(Notified(locks, x), x),
         IF x[1] = "task" THEN TaskGone(t, x) ELSE ProcessGone(t, x)
  PROVE  ProcInv'
  <1>0. Typed /\ Places /\ Fresh /\ Refs /\ Tree /\ Dead
    BY ZenonT(30) DEF ProcInv
  <1>1. /\ KernelOK(sched, locks) /\ sched \in SchedState /\ locks \in LockState
        /\ sched.current = t /\ sched.current \in Task \ {Idle} /\ x \in Mutex /\ x \in Cond
        /\ procOf[t] \in ProcId /\ procOf[t] # 0
    BY CurrentExists, Monitor, ZenonT(30)
  <1> DEFINE d == MarkedDead(x)
             r == Schedule(DropTask(RemoveTask(d, t), t))
  <1>2. KernelOK(d, locks') /\ StaysOut(sched, d) /\ d.current = t /\ locks'.locked = locks.locked
    BY <1>1, DeadKernel, ZenonT(30) DEF MarkedDead
  <1> HIDE DEF d
  <1>3. d \in SchedState /\ d.run[t] = "Running" /\ locks' \in LockState
    BY <1>2, TaskAssumption, ZenonT(30) DEF KernelOK, SchedOK, CurrentOK
  <1>4. KernelOK(r, locks') /\ StaysOut(d, r) /\ r.run[t] = "Absent"
    BY <1>1, <1>2, <1>3, GoneKernel, ZenonT(30)
  <1>a. StaysOut(sched, r)
    BY <1>2, <1>4, ZenonT(30) DEF StaysOut
  <1>5. IsUser(t) => <<"run", t>> \in procRefs[procOf[t]]
    BY <1>0, ZenonT(30) DEF Places, PlaceOK
  <1>6. ASSUME ~IsUser(t)
        PROVE  /\ sched' = r
               /\ DOMAIN threads' = ProcId
               /\ \A p \in ProcId : threads'[p] = threads[p] \/ (sophonTest /\ p = Runner + 1)
               /\ taskRefs' \in [Task -> TaskHolders]
               /\ \A u \in Task : taskRefs'[u] \in {taskRefs[u], taskRefs[u] \ {TASKS}}
               /\ TASKS \notin taskRefs'[t]
               /\ procRefs' \in [ProcId -> ProcHolders]
               /\ \A p \in ProcId : \A u \in Task :
                    <<"run", u>> \in procRefs[p] => <<"run", u>> \in procRefs'[p]
    <2>1. x = <<"task", t>> /\ t # Runner
      BY <1>6, ZenonT(30) DEF IsOwn
    <2>2. TaskGone(t, x)
      BY <2>1, ZenonT(30)
    <2>3. <<"thread", Runner>> \in taskRefs[t]
      BY <1>0, <1>6, <2>1 DEF Refs
    <2>4. taskRefs[t] \ {TASKS} # {}
      BY <2>3, RefNames, ZenonT(30)
    <2>5. sched' = r
      BY <2>2, <2>4, ZenonT(30) DEF TaskGone, AfterDrop, d
    <2>6. /\ procRefs' = procRefs
          /\ taskRefs' = [taskRefs EXCEPT ![t] = taskRefs[t] \ {TASKS}]
      BY <2>2, ZenonT(30) DEF TaskGone
    <2>7. sophonTest /\ procOf[t] = Runner + 1
      BY <1>6, Ids, ZenonT(30) DEF IsUser
    <2>8. /\ DOMAIN threads' = ProcId
          /\ \A p \in ProcId : threads'[p] = threads[p] \/ (sophonTest /\ p = Runner + 1)
      <3> DEFINE q == SelectSeq(threads[procOf[t]], LAMBDA u : u # t)
      <3>1. threads' = [threads EXCEPT ![procOf[t]] = q]
        BY <2>2, ZenonT(30) DEF TaskGone
      <3> HIDE DEF q
      <3> QED BY <1>0, <2>7, <3>1, ZenonT(30) DEF Typed
    <2> HIDE DEF r
    <2>9. /\ taskRefs' \in [Task -> TaskHolders]
          /\ \A u \in Task : taskRefs'[u] \in {taskRefs[u], taskRefs[u] \ {TASKS}}
          /\ TASKS \notin taskRefs'[t]
      BY <1>0, <2>6, ZenonT(30) DEF Typed, TaskHolders
    <2>10. procRefs' \in [ProcId -> ProcHolders]
      BY <1>0, <2>6, ZenonT(30) DEF Typed
    <2> QED BY <2>5, <2>6, <2>8, <2>9, <2>10, ZenonT(30)
  <1>7. ASSUME IsUser(t)
        PROVE  /\ sched' = r
               /\ DOMAIN threads' = ProcId
               /\ \A p \in ProcId : threads'[p] = threads[p] \/ (sophonTest /\ p = Runner + 1)
               /\ taskRefs' \in [Task -> TaskHolders]
               /\ \A u \in Task : taskRefs'[u] \in {taskRefs[u], taskRefs[u] \ {TASKS}}
               /\ TASKS \notin taskRefs'[t]
               /\ procRefs' \in [ProcId -> ProcHolders]
               /\ \A p \in ProcId : \A u \in Task :
                    <<"run", u>> \in procRefs[p] => <<"run", u>> \in procRefs'[p]
    <2> DEFINE p == procOf[t]
    <2>1. x = <<"proc", p>>
      BY <1>7, ZenonT(30) DEF IsOwn
    <2>2. ProcessGone(t, x)
      BY <2>1
    <2>3. threads[p] = <<t>> /\ <<"run", t>> \in procRefs[p]
      BY <1>0, <1>1, <1>5, <1>7, ZenonT(30) DEF Tree
    <2>4. procRefs[p] \ {PROCS} # {}
      BY <2>3, RefNames, ZenonT(30)
    <2>5. Removed(d, threads[p]) = DropTask(RemoveTask(d, t), t)
      <3>1. Removed(d, threads[p]) = RemoveTask(DropTask(d, t), t)
        BY <2>3, RemovedOne, ZenonT(30)
      <3>2. RemoveTask(DropTask(d, t), t) = DropTask(RemoveTask(d, t), t)
        BY <1>2, <1>3, SameRemoval, ZenonT(30)
      <3> QED BY <3>1, <3>2, ZenonT(30)
    <2>6. sched' = Schedule(AfterDrop(Removed(d, threads[p]), procRefs[p] \ {PROCS}))
      BY <2>2, ZenonT(30) DEF ProcessGone, d
    <2>7. sched' = r
      BY <2>4, <2>5, <2>6, ZenonT(30) DEF AfterDrop
    <2>8. /\ threads' = threads
          /\ procRefs' = [procRefs EXCEPT ![p] = procRefs[p] \ {PROCS}]
          /\ taskRefs' = [u \in Task |-> IF u \in Range(threads[p])
                                         THEN taskRefs[u] \ {TASKS} ELSE taskRefs[u]]
      BY <2>2, ZenonT(30) DEF ProcessGone
    <2>9. t \in Range(threads[p])
      <3>1. <<t>>[1] = t /\ 1 \in DOMAIN <<t>>
        OBVIOUS
      <3>2. t \in Range(<<t>>)
        BY <3>1, ZenonT(30) DEF Range
      <3> QED BY <2>3, <3>2, ZenonT(30)
    <2> HIDE DEF r, p
    <2>10. /\ taskRefs' \in [Task -> TaskHolders]
           /\ \A u \in Task : taskRefs'[u] \in {taskRefs[u], taskRefs[u] \ {TASKS}}
           /\ TASKS \notin taskRefs'[t]
      BY <1>0, <2>8, <2>9, ZenonT(30) DEF Typed, TaskHolders
    <2>11. /\ procRefs' \in [ProcId -> ProcHolders]
           /\ \A q \in ProcId : \A u \in Task :
                <<"run", u>> \in procRefs[q] => <<"run", u>> \in procRefs'[q]
      BY <1>0, <2>8, ZenonT(30) DEF Typed, PROCS, ProcHolders
    <2>12. DOMAIN threads' = ProcId /\ \A q \in ProcId : threads'[q] = threads[q]
      BY <1>0, <2>8, ZenonT(30) DEF Typed
    <2> QED BY <2>7, <2>10, <2>11, <2>12, ZenonT(30)
  <1>8. /\ sched' = r
        /\ DOMAIN threads' = ProcId
        /\ \A p \in ProcId : threads'[p] = threads[p] \/ (sophonTest /\ p = Runner + 1)
        /\ taskRefs' \in [Task -> TaskHolders]
        /\ \A u \in Task : taskRefs'[u] \in {taskRefs[u], taskRefs[u] \ {TASKS}}
        /\ TASKS \notin taskRefs'[t]
        /\ procRefs' \in [ProcId -> ProcHolders]
        /\ \A p \in ProcId : \A u \in Task :
             <<"run", u>> \in procRefs[p] => <<"run", u>> \in procRefs'[p]
    BY <1>6, <1>7, ZenonT(30)
  <1> HIDE DEF r
  <1>9. Typed'
    <2>1. At("xlock", x) \in Place
      BY ZenonT(30) DEF At, Label, Place
    <2>2. pc' \in [Task -> Place] /\ live' \in [Obj -> BOOLEAN]
      BY <1>0, <2>1, ZenonT(30) DEF Typed
    <2> QED BY <1>0, <1>8, <2>2, ZenonT(30) DEF Typed
  <1>10. PlaceOK(t, "xlock", x)'
    <2>1. IsOwn(t, x)' /\ (IsUser(t)' => IsUser(t))
      BY ZenonT(30) DEF IsOwn, IsUser
    <2> QED BY <1>1, <1>5, <1>8, <2>1, ZenonT(30) DEF PlaceOK, Holding
  <1>11. ASSUME NEW u \in Task, u # t, pc[u].at \in Holding
         PROVE  locks'.locked[pc[u].obj] /\ live'[pc[u].obj] = live[pc[u].obj]
    <2>1. locks.locked[pc[u].obj] /\ pc[u].obj \in Obj
      BY <1>0, <1>11, OneHolder, ZenonT(30) DEF Places, PlaceOK, Holding
    <2> QED BY <1>0, <1>2, <2>1, ZenonT(30) DEF Typed
  <1>12. \A y \in Obj : y # x => live'[y] = live[y]
    BY <1>0, ZenonT(30) DEF Typed
  <1>13. \A u \in Task : \A y \in waited'[u] : y \in waited[u] /\ ~live'[y]
    <2>1. \A u \in Task : \A y \in waited[u] : y \in Obj /\ ~live[y]
      BY <1>0, ZenonT(30) DEF Typed, Dead
    <2>2. ~live'[x]
      BY <1>0, ZenonT(30) DEF Typed
    <2> QED BY <1>12, <2>1, <2>2
  <1>14. KernelOK(sched, locks)' /\ StaysOut(sched, sched') /\ sched'.run[t] = "Absent"
    BY <1>4, <1>a, <1>8, ZenonT(30)
  <1>15. TaskStep(t, "xlock", x)
    BY <1>1, <1>8, <1>9, <1>10, <1>11, <1>12, <1>13, <1>14, ZenonT(30) DEF TaskStep
  <1> QED BY <1>15, TaskStepKeeps DEF Label

\* exit, entered, resumed or spinning.
LEMMA ExitKeepsInv ==
  ASSUME ProcInv, NEW t \in Task, NEW x \in Obj, Current(t), t # Idle, pc[t].at # "entry",
         IsOwn(t, x), ExitLoop(t, x)
  PROVE  ProcInv'
  <1>0. Typed /\ Places /\ UNCHANGED <<procOf, waited, nextTask, nextProc, sophonTest>>
    BY ZenonT(30) DEF ProcInv, ExitLoop
  <1>1. /\ KernelOK(sched, locks) /\ sched \in SchedState /\ locks \in LockState
        /\ sched.current = t /\ sched.current \in Task \ {Idle} /\ x \in Mutex
    BY CurrentExists, Monitor, ZenonT(30)
  <1>2. \A u \in Task : pc[u].at \in Holding => locks.locked[pc[u].obj]
    BY <1>0, ZenonT(30) DEF Places, PlaceOK
  <1>3. ASSUME NEW l \in {"xspin", "xlock"}, procRefs' = procRefs
        PROVE  /\ PlaceOK(t, l, x)'
               /\ procRefs' \in [ProcId -> ProcHolders]
               /\ \A p \in ProcId : procRefs[p] \subseteq procRefs'[p]
    <2>1. IsOwn(t, x)' /\ (IsUser(t)' => IsUser(t))
      BY <1>0, ZenonT(30) DEF IsOwn, IsUser
    <2>2. IsUser(t) => <<"run", t>> \in procRefs[procOf[t]]
      BY <1>0 DEF Places, PlaceOK
    <2>3. PlaceOK(t, l, x)'
      BY <1>0, <1>3, <2>1, <2>2, ZenonT(30) DEF PlaceOK, Holding
    <2> QED BY <1>0, <1>3, <2>3 DEF Typed
  <1>4. "xspin" \in Label /\ "xlock" \in Label
    BY ZenonT(30) DEF Label
  <1>5. CASE lazy[x] = "running"
    <2>1. /\ pc' = [pc EXCEPT ![t] = At("xspin", x)]
          /\ UNCHANGED <<sched, locks, threads, live, lazy, taskRefs, procRefs>>
      BY <1>5, ZenonT(30) DEF ExitLoop
    <2>2. KernelOK(sched, locks)' /\ StaysOut(sched, sched')
      BY <1>1, <2>1, ZenonT(30) DEF StaysOut
    <2>3. lazy' \in [Obj -> LazyState]
      BY <1>0, <2>1, ZenonT(30) DEF Typed
    <2> QED BY <1>0, <1>2, <1>3, <1>4, <2>1, <2>2, <2>3, QuietStep, ZenonT(30)
  <1>6. CASE lazy[x] # "running"
    <2>1. lazy' = [lazy EXCEPT ![x] = "ready"] /\ pc' = [pc EXCEPT ![t] = At("xlock", x)]
      BY <1>6, ZenonT(30) DEF ExitLoop
    <2>2. lazy' \in [Obj -> LazyState]
      BY <1>0, <2>1 DEF Typed, LazyState
    <2>3. CASE locks.locked[x]
      <3>1. /\ locks' = Queued(locks, x, t) /\ sched' = Sleep(sched)
            /\ UNCHANGED <<threads, live, taskRefs, procRefs>>
        BY <1>6, <2>3, ZenonT(30) DEF ExitLoop
      <3>2. KernelOK(sched', locks') /\ StaysOut(sched, sched') /\ locks'.locked = locks.locked
        BY <1>1, <2>3, <3>1, QueueKernel, ZenonT(30)
      <3> QED BY <1>0, <1>2, <1>3, <1>4, <2>1, <2>2, <3>1, <3>2, QuietStep, ZenonT(30)
    <2>4. CASE ~locks.locked[x]
      <3>1. /\ live' = [live EXCEPT ![x] = FALSE]
            /\ locks' = Unlocked(Notified(locks, x), x)
            /\ IF x[1] = "task" THEN TaskGone(t, x) ELSE ProcessGone(t, x)
        BY <1>6, <2>4, ZenonT(30) DEF ExitLoop
      <3> QED BY <1>0, <2>1, <2>2, <2>4, <3>1, GoneKeeps, ZenonT(30)
    <2> QED BY <2>3, <2>4, ZenonT(30)
  <1> QED BY <1>5, <1>6

-----------------------------------------------------------------------------
(* The timer, and the creation of tasks.                                   *)

LEMMA TickInv ==
  ASSUME ProcInv, Tick
  PROVE  ProcInv'
  <1>0. KernelOK(sched, locks) /\ Typed /\ Tree /\ Fresh /\ Places /\ Refs /\ Dead
    BY DEF ProcInv
  <1>1. /\ sched' = TimerTick(sched) /\ sched.current \in Task
        /\ UNCHANGED <<locks, pc, procOf, threads, live, lazy, taskRefs, procRefs,
                       waited, nextTask, nextProc, sophonTest>>
    BY DEF Tick, Current
  <1>2. sched \in SchedState /\ locks \in LockState
    BY <1>0, ZenonT(30) DEF KernelOK, SchedOK
  <1>3. KernelOK(sched', locks) /\ StaysOut(sched, sched')
    BY <1>0, <1>1, <1>2, TickKernel, ZenonT(30)
  <1>4. Typed' /\ Tree' /\ Refs'
    BY <1>0, <1>1 DEF Typed, Tree, Refs, IsUser
  <1>5. Places'
    BY <1>0, <1>1, ZenonT(30) DEF Places, PlaceOK, IsHandle, IsChild, IsOwn, IsUser
  <1>6. Fresh'
    BY <1>0, <1>1, <1>3 DEF Fresh, StaysOut
  <1>7. Dead'
    BY <1>0, <1>1, <1>3 DEF Dead, StaysOut
  <1> QED BY <1>1, <1>3, <1>4, <1>5, <1>6, <1>7, ZenonT(30) DEF ProcInv

\* The current task t makes task n: in a new process p for exec, in its own
\* by the runner.
Birth(t, n, p) ==
  /\ n = nextTask /\ nextTask' = n + 1 /\ UNCHANGED <<live, waited, sophonTest>>
  /\ procOf' = [procOf EXCEPT ![n] = p]
  /\ threads' = [threads EXCEPT ![p] = Append(@, n)]
  /\ \/ p = nextProc /\ nextProc' = p + 1 /\ taskRefs' = [taskRefs EXCEPT ![n] = {TASKS}]
     \/ /\ sophonTest /\ p = Runner + 1 /\ nextProc' = nextProc
        /\ taskRefs' = [taskRefs EXCEPT ![n] = {TASKS, <<"thread", Runner>>}]

\* What the rest of its handler does.
BirthFrame(t, n) ==
  /\ KernelOK(sched, locks)' /\ locks'.locked = locks.locked
  /\ \A u \in Task : u # n /\ sched.run[u] = "Absent" => sched'.run[u] = "Absent"
  /\ lazy' \in [Obj -> LazyState]
  /\ procRefs' \in [ProcId -> ProcHolders]
  /\ \A q \in ProcId : q < nextProc => procRefs'[q] = procRefs[q]
  /\ pc' \in [Task -> Place]
  /\ \A u \in Task : u # t => pc'[u] = pc[u]
  /\ PlaceOK(t, pc[t].at, pc[t].obj)'

LEMMA BirthKeeps ==
  ASSUME ProcInv, NEW t \in Task, NEW n \in Task, NEW p \in ProcId, Current(t), t # Idle,
         Birth(t, n, p), BirthFrame(t, n)
  PROVE  ProcInv'
  <1>0. Typed /\ Tree /\ Fresh /\ Places /\ Refs /\ Dead
    BY DEF ProcInv
  <1>c. n = nextTask /\ nextTask' = n + 1 /\ live' = live /\ waited' = waited /\ sophonTest' = sophonTest
    BY DEF Birth
  <1>d. \/ p = nextProc /\ nextProc' = p + 1
        \/ sophonTest /\ p = Runner + 1 /\ nextProc' = nextProc
    BY ZenonT(30) DEF Birth
  <1>1. /\ nextTask \in Nat /\ nextProc \in Nat /\ nextProc <= MaxProc + 1 /\ nextProc >= 3
        /\ MaxProc \in Nat /\ MaxTask \in Nat /\ n < MaxTask /\ n >= 2
        /\ \A u \in Task : u \in Nat /\ procOf[u] \in Nat
        /\ \A q \in ProcId : q \in Nat /\ q # 0
    <2>1. nextTask \in 2..MaxTask /\ nextProc \in 3..(MaxProc + 1) /\ MaxProc \in Nat /\ MaxTask \in Nat
      BY <1>0, ProcessesAssumption DEF Typed
    <2>2. n \in Nat /\ n < MaxTask
      BY Ids, NextIds
    <2>3. \A u \in Task : procOf[u] \in ProcId \cup {0}
      BY <1>0 DEF Typed
    <2>4. /\ \A u \in Task : u \in Nat
          /\ \A q \in ProcId : q \in Nat /\ q # 0
      BY Ids
    <2>5. \A u \in Task : procOf[u] \in Nat
      BY <2>3, <2>4
    <2> QED BY <1>c, <2>1, <2>2, <2>4, <2>5
  <1>2. /\ \A u \in Task : procOf[u] = 0 <=> u >= n
        /\ \A u \in Task : procOf[u] < nextProc
    BY <1>0, <1>c, ZenonT(30) DEF Tree
  <1>b. /\ sched.run[n] = "Absent" /\ live[<<"task", n>>]
        /\ pc[n].at = "entry" /\ taskRefs[n] = {} /\ live[<<"proc", p>>]
    <2>1. n >= nextTask /\ (p = nextProc => p >= nextProc)
      BY <1>c, <1>1
    <2> QED BY <1>0, <1>d, <2>1 DEF Fresh
  <1>3. \A u \in Task : procOf'[u] = IF u = n THEN p ELSE procOf[u]
    BY <1>0, ZenonT(30) DEF Typed, Birth
  <1>4. t # n /\ t < n
    BY <1>1, <1>2, CurrentExists, SMTT(30)
  <1>5. p < nextProc' /\ nextProc <= nextProc' /\ nextProc' \in 3..(MaxProc + 1)
    <2>1. sophonTest => nextProc > Runner + 1
      BY <1>0 DEF Tree
    <2>2. p <= MaxProc
      BY Ids, NextIds, <1>1
    <2> QED BY <1>d, <1>1, <2>1, <2>2 DEF Runner
  <1>6. \A u \in Task : u # n => (IsUser(u)' <=> IsUser(u))
    BY <1>c, <1>3, ZenonT(30) DEF IsUser
  <1>7. IsUser(n)' <=> p = nextProc
    <2>1. sophonTest => nextProc > Runner + 1
      BY <1>0 DEF Tree
    <2>2. p = nextProc => ~(sophonTest /\ p = Runner + 1)
      BY <1>1, <2>1 DEF Runner
    <2>3. IsUser(n)' <=> ~(sophonTest /\ p = Runner + 1)
      BY <1>c, <1>1, <1>3 DEF IsUser
    <2> QED BY <1>d, <2>2, <2>3, ZenonT(30)
  <1>8. \A u \in Task : u # n => taskRefs'[u] = taskRefs[u]
    BY <1>0 DEF Typed, Birth
  <1>9. /\ taskRefs' \in [Task -> TaskHolders]
        /\ \A u \in Task : <<"thread", u>> \in taskRefs'[n] => u = Runner /\ sophonTest
        /\ ~IsUser(n)' => <<"thread", Runner>> \in taskRefs'[n]
    <2>1. <<"thread", Runner>> \in {"thread"} \X Task
      BY Ids, ZenonT(30)
    <2>2. CASE p = nextProc
      <3>1. taskRefs' = [taskRefs EXCEPT ![n] = {TASKS}]
        <4>1. ~(sophonTest /\ p = Runner + 1)
          BY <1>0, <1>1, <2>2 DEF Tree, Runner
        <4> QED BY <4>1 DEF Birth
      <3> QED BY <1>0, <1>7, <2>2, <3>1, ZenonT(30) DEF Typed, TASKS, TaskHolders
    <2>3. CASE p # nextProc
      <3>1. sophonTest /\ taskRefs' = [taskRefs EXCEPT ![n] = {TASKS, <<"thread", Runner>>}]
        BY <2>3 DEF Birth
      <3> QED BY <1>0, <2>1, <3>1, ZenonT(30) DEF Typed, TASKS, TaskHolders
    <2> QED BY <2>2, <2>3
  <1>10. Typed'
    <2>1. /\ procOf' \in [Task -> ProcId \cup {0}] /\ DOMAIN threads' = ProcId
      BY <1>0, ZenonT(30) DEF Typed, Birth
    <2>2. nextTask' \in 2..MaxTask
      BY <1>c, <1>1
    <2> QED BY <1>0, <1>c, <1>5, <1>9, <2>1, <2>2, ZenonT(30) DEF Typed, BirthFrame
  <1>11. Tree'
    <2>1. /\ \A u \in Task : procOf'[u] = 0 <=> u >= nextTask'
          /\ \A u \in Task : procOf'[u] < nextProc'
      BY <1>c, <1>1, <1>2, <1>3, <1>5
    <2>2. \A q \in ProcId : q # p => threads'[q] = threads[q]
      BY <1>0 DEF Typed, Birth
    <2>3. \A q \in ProcId : q >= nextProc' => threads'[q] = <<>>
      BY <1>0, <1>1, <1>5, <2>2, SMTT(30) DEF Tree
    <2>4. sophonTest' => Runner \in Task /\ procOf'[Runner] = Runner + 1 /\ nextProc' > Runner + 1
      <3>1. sophonTest => Runner \in Task /\ procOf[Runner] = Runner + 1 /\ nextProc > Runner + 1
        BY <1>0 DEF Tree
      <3>2. sophonTest => Runner # n
        BY <1>1, <1>2, <3>1 DEF Runner
      <3> QED BY <1>c, <1>1, <1>3, <1>5, <3>1, <3>2 DEF Runner
    <2>5. ASSUME NEW u \in Task, procOf'[u] # 0, IsUser(u)'
          PROVE  threads'[procOf'[u]] = <<u>> /\ \A w \in Task : procOf'[w] = procOf'[u] => w = u
      <3>1. CASE u = n
        <4>1. p = nextProc /\ threads[p] = <<>>
          BY <1>0, <1>1, <1>7, <2>5, <3>1, SMTT(30) DEF Tree
        <4>2. threads'[p] = Append(<<>>, n)
          BY <1>0, <4>1, ZenonT(30) DEF Typed, Birth
        <4>3. Append(<<>>, n) = <<n>>
          OBVIOUS
        <4>4. \A w \in Task : w # n => procOf'[w] # p
          BY <1>1, <1>2, <1>3, <4>1, SMTT(30)
        <4> QED BY <1>3, <3>1, <4>2, <4>3, <4>4, ZenonT(30)
      <3>2. CASE u # n
        <4>1. procOf'[u] = procOf[u] /\ IsUser(u) /\ procOf[u] # 0 /\ procOf[u] \in ProcId
          BY <1>0, <1>3, <1>6, <2>5, <3>2 DEF Typed
        <4>2. procOf[u] # p
          BY <1>d, <1>1, <1>2, <4>1 DEF IsUser
        <4>3. threads[procOf[u]] = <<u>> /\ \A w \in Task : procOf[w] = procOf[u] => w = u
          BY <1>0, <4>1, ZenonT(30) DEF Tree
        <4> QED BY <1>3, <2>2, <4>1, <4>2, <4>3, ZenonT(30)
      <3> QED BY <3>1, <3>2, ZenonT(30)
    <2> QED BY <2>1, <2>3, <2>4, <2>5, ZenonT(30) DEF Tree
  <1>12. Fresh'
    <2>1. \A u \in Task : u >= nextTask' => u # n /\ u # t /\ u >= nextTask
      BY <1>c, <1>1, <1>4
    <2>2. \A u \in Task : u >= nextTask' =>
            /\ sched'.run[u] = "Absent" /\ live'[<<"task", u>>]
            /\ pc'[u].at = "entry" /\ taskRefs'[u] = {}
      BY <1>0, <1>c, <1>8, <2>1, SMTT(30) DEF Fresh, BirthFrame
    <2>3. \A q \in ProcId : q >= nextProc' => live'[<<"proc", q>>]
      BY <1>0, <1>c, <1>1, <1>5 DEF Fresh
    <2>4. pc'[Idle] = pc[Idle]
      BY Ids, ZenonT(30) DEF BirthFrame
    <2> QED BY <1>0, <1>c, <2>2, <2>3, <2>4 DEF Fresh
  <1>13. ASSUME NEW u \in Task PROVE PlaceOK(u, pc[u].at, pc[u].obj)'
    <2>1. CASE u = t
      BY <2>1, ZenonT(30) DEF BirthFrame
    <2>2. CASE u = n
      <3>1. pc'[u].at = "entry"
        BY <1>b, <1>4, <2>2, ZenonT(30) DEF BirthFrame
      <3> QED BY <3>1, ZenonT(30) DEF PlaceOK, Holding
    <2>3. CASE u # t /\ u # n
      <3>1. pc'[u] = pc[u] /\ PlaceOK(u, pc[u].at, pc[u].obj) /\ procOf'[u] = procOf[u]
        BY <1>0, <1>3, <2>3, ZenonT(30) DEF Places, BirthFrame
      <3>2. IsHandle(u, pc[u].obj) => IsHandle(u, pc[u].obj)'
        BY <1>b, <1>8, <3>1, ZenonT(30) DEF IsHandle
      <3>3. IsChild(u, pc[u].obj) => IsChild(u, pc[u].obj)'
        BY <1>6, <2>3, <3>1, ZenonT(30) DEF IsChild
      <3>4. IsOwn(u, pc[u].obj) => IsOwn(u, pc[u].obj)'
        BY <1>6, <2>3, <3>1 DEF IsOwn
      <3>5. pc[u].at # "entry" => procOf[u] \in ProcId /\ procOf[u] < nextProc
        <4>1. pc[u].at # "entry" => ~(u >= nextTask)
          BY <1>0, ZenonT(30) DEF Fresh
        <4> QED BY <1>0, <1>c, <1>2, <4>1, ZenonT(30) DEF Typed
      <3>6. pc[u].at # "entry" /\ IsUser(u) => <<"run", u>> \in procRefs'[procOf'[u]]
        <4>1. pc[u].at # "entry" /\ IsUser(u) => <<"run", u>> \in procRefs[procOf[u]]
          BY <3>1, ZenonT(30) DEF PlaceOK
        <4>2. \A q \in ProcId : q < nextProc => procRefs'[q] = procRefs[q]
          BY ZenonT(30) DEF BirthFrame
        <4> QED BY <3>1, <3>5, <4>1, <4>2, ZenonT(30)
      <3>7. locks'.locked = locks.locked
        BY DEF BirthFrame
      <3> QED BY <1>c, <1>6, <2>3, <3>1, <3>2, <3>3, <3>4, <3>6, <3>7, ZenonT(30) DEF PlaceOK, Holding
    <2> QED BY <2>1, <2>2, <2>3, ZenonT(30)
  <1>14. Refs'
    BY <1>0, <1>c, <1>6, <1>8, <1>9, Ids, ZenonT(30) DEF Refs
  <1>15. Dead'
    <2>2. \A u \in Task : ~live'[<<"task", u>>] => sched'.run[u] = "Absent" /\ TASKS \notin taskRefs'[u]
      BY <1>0, <1>b, <1>c, <1>8, ZenonT(30) DEF Dead, BirthFrame
    <2>3. ASSUME NEW u \in Task, procOf'[u] # 0, ~live'[<<"proc", procOf'[u]>>]
          PROVE  sched'.run[u] = "Absent"
      <3>1. u # n /\ procOf'[u] = procOf[u]
        BY <1>b, <1>c, <1>3, <2>3, ZenonT(30)
      <3> QED BY <1>0, <1>c, <2>3, <3>1, ZenonT(30) DEF Dead, BirthFrame
    <2>4. \A u \in Task : \A y \in waited'[u] :
            ~live'[y] /\ \A w \in Task : y = <<"task", w>> => <<"thread", u>> \in taskRefs'[w]
      BY <1>0, <1>b, <1>c, <1>8, ZenonT(30) DEF Dead
    <2> QED BY <2>2, <2>3, <2>4, ZenonT(30) DEF Dead
  <1>16. KernelOK(sched, locks)'
    BY DEF BirthFrame
  <1> QED BY <1>10, <1>11, <1>12, <1>13, <1>14, <1>15, <1>16, ZenonT(30) DEF ProcInv, Places

\* Syscall::Exec.
LEMMA ExecKeeps ==
  ASSUME ProcInv, NEW t \in Task, Exec(t)
  PROVE  ProcInv'
  <1>0. /\ Typed /\ Tree /\ Fresh /\ Places /\ Current(t) /\ pc[t].at = "run" /\ IsUser(t)
    BY DEF Exec, InState, ProcInv
  <1>1. nextTask \in Nat /\ nextTask < MaxTask /\ nextProc \in Nat /\ nextProc # 0 /\ nextProc <= MaxProc
    <2>1. nextTask \in 2..MaxTask /\ nextProc \in 3..(MaxProc + 1) /\ MaxTask \in Nat /\ MaxProc \in Nat
      BY <1>0, ProcessesAssumption, ZenonT(30) DEF Typed
    <2>2. nextTask < MaxTask /\ nextProc <= MaxProc
      BY DEF Exec
    <2> QED BY <2>1, <2>2
  <1>2. nextTask \in Task /\ nextProc \in ProcId
    BY <1>1, NextIds
  <1>n. PICK n \in Task : n = nextTask
    BY <1>2
  <1>p. PICK p \in ProcId : p = nextProc
    BY <1>2
  <1>x. PICK x \in Obj : x = <<"proc", p>>
    BY Names, ZenonT(30)
  <1>3. t # Idle
    BY <1>0, Ids, ZenonT(30) DEF IsUser
  <1>4. /\ KernelOK(sched, locks) /\ sched \in SchedState /\ locks \in LockState
        /\ sched.current = t /\ t \in Task \ {Idle} /\ sched.run[t] = "Running"
        /\ x \in Mutex /\ x \in Cond /\ procOf[t] \in ProcId
    BY <1>0, <1>3, CurrentExists, Monitor, ZenonT(30)
  <1>5. /\ procOf' = [procOf EXCEPT ![n] = p]
        /\ threads' = [threads EXCEPT ![p] = Append(@, n)]
        /\ nextTask' = n + 1 /\ nextProc' = p + 1
        /\ taskRefs' = [taskRefs EXCEPT ![n] = {TASKS}]
        /\ procRefs' = [procRefs EXCEPT ![p] = {PROCS, <<"exec", t>>}]
        /\ lazy' = [lazy EXCEPT ![x] = "ready"]
        /\ locks' = Parked(Acquired(locks, x), x, x, t)
        /\ sched' = Sleep(Created(sched, n))
        /\ pc' = [pc EXCEPT ![t] = At("wlock", x)]
        /\ UNCHANGED <<live, waited, sophonTest>>
    BY <1>n, <1>p, <1>x DEF Exec, NewTask, Spawned
  <1>6. sched.run[n] = "Absent" /\ n >= nextTask /\ pc[n].at = "entry"
    <2>1. n >= nextTask
      BY <1>1, <1>n
    <2> QED BY <1>0, <2>1, ZenonT(30) DEF Fresh
  <1> DEFINE v == Created(sched, n)
  <1>7. KernelOK(v, locks) /\ v.current = t /\ \A u \in Task : u # n => v.run[u] = sched.run[u]
    BY <1>4, <1>6, SpawnKernel, ZenonT(30)
  <1> HIDE DEF v
  <1>8. v \in SchedState /\ ~locks.locked[x]
    BY <1>4, <1>7, <1>x, ZenonT(30) DEF KernelOK, SchedOK, LocksOK
  <1>9. KernelOK(Sleep(v), locks') /\ StaysOut(v, Sleep(v)) /\ locks'.locked = locks.locked
    BY <1>4, <1>5, <1>7, <1>8, LockParkKernel
  <1>10. /\ KernelOK(sched, locks)'
         /\ \A u \in Task : u # n /\ sched.run[u] = "Absent" => sched'.run[u] = "Absent"
    BY <1>5, <1>7, <1>9, ZenonT(30) DEF v, StaysOut
  <1>11. lazy' \in [Obj -> LazyState]
    BY <1>0, <1>5, ZenonT(30) DEF Typed, LazyState
  <1>12. procRefs' \in [ProcId -> ProcHolders]
    <2>1. <<"exec", t>> \in {"exec", "run"} \X Task
      BY ZenonT(30)
    <2> QED BY <1>0, <1>5, <2>1 DEF Typed, ProcHolders
  <1>14. \A q \in ProcId : q < nextProc => procRefs'[q] = procRefs[q]
    <2>1. \A q \in ProcId : q # p => procRefs'[q] = procRefs[q]
      BY <1>0, <1>5, ZenonT(30) DEF Typed
    <2> QED BY <1>1, <1>p, <2>1
  <1>15. /\ pc' \in [Task -> Place]
         /\ \A u \in Task : u # t => pc'[u] = pc[u]
         /\ pc'[t].at = "wlock" /\ pc'[t].obj = x
    <2>1. At("wlock", x) \in Place
      BY ZenonT(30) DEF At, Label, Place
    <2> QED BY <1>0, <1>5, <2>1, ZenonT(30) DEF Typed, At
  <1>16. PlaceOK(t, pc[t].at, pc[t].obj)'
    <2>1. procOf'[t] = procOf[t]
      BY <1>0, <1>5, <1>6, ZenonT(30) DEF Typed
    <2>2. IsUser(t)' /\ IsChild(t, x)'
      BY <1>0, <1>5, <1>x, <2>1, ZenonT(30) DEF IsUser, IsChild
    <2>3. <<"run", t>> \in procRefs[procOf[t]]
      BY <1>0, ZenonT(30) DEF Places, PlaceOK
    <2>4. <<"run", t>> \in procRefs'[procOf'[t]]
      BY <1>0, <1>4, <1>14, <2>1, <2>3, ZenonT(30) DEF Tree
    <2> QED BY <1>x, <1>15, <2>2, <2>4, ZenonT(30) DEF PlaceOK, Holding, IsChild
  <1>17. Birth(t, n, p)
    BY <1>n, <1>p, <1>5, ZenonT(30) DEF Birth
  <1>18. BirthFrame(t, n)
    BY <1>9, <1>10, <1>11, <1>12, <1>14, <1>15, <1>16, ZenonT(30) DEF BirthFrame
  <1> QED BY <1>0, <1>3, <1>17, <1>18, BirthKeeps, ZenonT(30)

\* Process::spawn_task.
LEMMA SpawnTaskKeeps ==
  ASSUME ProcInv, NEW t \in Task, SpawnTask(t)
  PROVE  ProcInv'
  <1>0. /\ Typed /\ Tree /\ Fresh /\ Places /\ Current(t) /\ pc[t].at = "run"
        /\ sophonTest /\ t = Runner
    BY ZenonT(30) DEF SpawnTask, InState, ProcInv
  <1>1. nextTask \in Nat /\ nextTask < MaxTask
    <2>1. nextTask \in 2..MaxTask /\ MaxTask \in Nat
      BY <1>0, ProcessesAssumption DEF Typed
    <2>2. nextTask < MaxTask
      BY ZenonT(30) DEF SpawnTask
    <2> QED BY <2>1, <2>2
  <1>n. PICK n \in Task : n = nextTask
    BY <1>1, NextIds, ZenonT(30)
  <1>3. t # Idle
    BY <1>0, Ids DEF Runner
  <1>4. /\ KernelOK(sched, locks) /\ sched \in SchedState /\ locks \in LockState
        /\ procOf[t] \in ProcId
    BY <1>0, <1>3, CurrentExists, ZenonT(30)
  <1>p. PICK p \in ProcId : p = procOf[t] /\ p = Runner + 1
    BY <1>0, <1>4, ZenonT(30) DEF Tree
  <1>5. /\ procOf' = [procOf EXCEPT ![n] = p]
        /\ threads' = [threads EXCEPT ![p] = Append(@, n)]
        /\ nextTask' = n + 1
        /\ taskRefs' = [taskRefs EXCEPT ![n] = {TASKS, <<"thread", Runner>>}]
        /\ sched' = Created(sched, n)
        /\ UNCHANGED <<locks, pc, lazy, procRefs, nextProc, live, waited, sophonTest>>
    BY <1>0, <1>n, <1>p DEF SpawnTask, NewTask, Spawned
  <1>6. sched.run[n] = "Absent" /\ n >= nextTask /\ pc[n].at = "entry"
    <2>1. n >= nextTask
      BY <1>1, <1>n
    <2> QED BY <1>0, <2>1, ZenonT(30) DEF Fresh
  <1>7. KernelOK(sched', locks) /\ \A u \in Task : u # n => sched'.run[u] = sched.run[u]
    BY <1>4, <1>5, <1>6, SpawnKernel, ZenonT(30)
  <1>8. /\ lazy' \in [Obj -> LazyState]
        /\ procRefs' \in [ProcId -> ProcHolders]
        /\ pc' \in [Task -> Place]
    BY <1>0, <1>5, ZenonT(30) DEF Typed
  <1>9. PlaceOK(t, pc[t].at, pc[t].obj)'
    <2>1. procOf'[t] = Runner + 1
      BY <1>0, <1>5, <1>6, <1>p, ZenonT(30) DEF Typed
    <2>2. ~IsUser(t)'
      BY <1>0, <1>5, <2>1, ZenonT(30) DEF IsUser
    <2> QED BY <1>0, <1>5, <2>2, ZenonT(30) DEF PlaceOK, Holding
  <1>10. Birth(t, n, p)
    BY <1>0, <1>n, <1>p, <1>5 DEF Birth
  <1>11. BirthFrame(t, n)
    BY <1>5, <1>7, <1>8, <1>9, ZenonT(30) DEF BirthFrame
  <1> QED BY <1>0, <1>3, <1>10, <1>11, BirthKeeps, ZenonT(30)

-----------------------------------------------------------------------------
(* The invariant holds, and what it says.                                  *)

\* _start: the idle task is made first, so it is there to be scheduled.
LEMMA BootKernel ==
  ASSUME sophonTest \in BOOLEAN
  PROVE  /\ KernelOK(Schedule(BootSched), FreshLocks)
         /\ \A t \in Task : t >= Booted => Schedule(BootSched).run[t] = "Absent"
  <1> DEFINE a == Created(EmptySched, 0)
             b == Created(a, 1)
             c == Created(b, Runner)
             s == BootSched
             r == Schedule(s)
  <1>1. SchedOK(EmptySched) /\ EmptySched.current = NoTask
    <2>1. EmptySched \in SchedState
      BY SMTT(30) DEF EmptySched, SchedState
    <2>2. QueueOK(EmptySched)
      BY DEF EmptySched, QueueOK
    <2>3. CurrentOK(EmptySched)
      BY TaskAssumption DEF EmptySched, CurrentOK
    <2> QED BY <2>1, <2>2, <2>3, ZenonT(30) DEF EmptySched, SchedOK
  <1>2. \A t \in Task : EmptySched.run[t] = "Absent"
    BY ZenonT(30) DEF EmptySched
  <1>3. 0 \in Task /\ 1 \in Task /\ Runner \in Task /\ Runner # 0 /\ Runner # 1 /\ Idle = 0
    BY Ids DEF Runner
  <1>4. SchedOK(a) /\ a.current = NoTask /\ a.run = [EmptySched.run EXCEPT ![0] = "Ready"]
    BY <1>1, <1>2, <1>3, SpawnKeeps, ZenonT(30) DEF Created
  <1>5. \A t \in Task : a.run[t] = IF t = 0 THEN "Ready" ELSE "Absent"
    BY <1>1, <1>2, <1>4, ZenonT(30) DEF SchedOK, SchedState
  <1> HIDE DEF a
  <1>6. SchedOK(b) /\ b.current = NoTask /\ b.run = [a.run EXCEPT ![1] = "Ready"]
    <2>1. a.run[1] = "Absent"
      BY <1>3, <1>5
    <2> QED BY <1>3, <1>4, <2>1, SpawnKeeps, ZenonT(30) DEF Created
  <1>7. \A t \in Task : b.run[t] = IF t \in {0, 1} THEN "Ready" ELSE "Absent"
    BY <1>4, <1>5, <1>6, ZenonT(30) DEF SchedOK, SchedState
  <1> HIDE DEF b
  <1>8. SchedOK(c) /\ c.current = NoTask /\ c.run = [b.run EXCEPT ![Runner] = "Ready"]
    BY <1>3, <1>6, <1>7, SpawnKeeps, ZenonT(30) DEF Created
  <1>9. \A t \in Task : c.run[t] = IF t \in {0, 1, Runner} THEN "Ready" ELSE "Absent"
    BY <1>6, <1>7, <1>8 DEF SchedOK, SchedState
  <1> HIDE DEF c
  <1>10. s = IF sophonTest THEN c ELSE b
    BY ZenonT(30) DEF BootSched, a, b, c
  <1>11. SchedOK(s) /\ s.current = NoTask /\ s.run[Idle] = "Ready"
    BY <1>3, <1>6, <1>7, <1>8, <1>9, <1>10, ZenonT(30)
  <1>12. \A t \in Task : t >= Booted => s.run[t] = "Absent"
    BY <1>7, <1>9, <1>10, Ids DEF Booted, Runner
  <1> HIDE DEF s
  <1>13. /\ SchedOK(r)
         /\ \A t \in Task : \/ r.run[t] = s.run[t]
                            \/ s.run[t] = "Ready" /\ r.run[t] = "Running"
    BY <1>3, <1>11, StartKeeps
  <1> HIDE DEF r
  <1>14. r.run[Idle] \in {"Ready", "Running"}
    BY <1>3, <1>11, <1>13, ZenonT(30)
  <1>15. /\ FreshLocks \in LockState /\ LocksOK(FreshLocks)
         /\ \A m \in Mutex : FreshLocks.mwait[m] = <<>>
         /\ \A m \in Cond : FreshLocks.cwait[m] = <<>>
         /\ DOMAIN FreshLocks.mwait = Mutex /\ DOMAIN FreshLocks.cwait = Cond
    BY SMTT(30) DEF FreshLocks, LockState, LocksOK
  <1>16. WaitersOK(r, FreshLocks)
    BY <1>15, SMTT(30) DEF WaitersOK, AllAsleep, Once, Apart
  <1>17. KernelOK(r, FreshLocks)
    BY <1>13, <1>14, <1>15, <1>16, ZenonT(30) DEF KernelOK
  <1>18. \A t \in Task : t >= Booted => r.run[t] = "Absent"
    BY <1>12, <1>13
  <1> QED BY <1>17, <1>18, ZenonT(30) DEF r, s

LEMMA InitInv ==
  ASSUME Init
  PROVE  ProcInv
  <1>1. sophonTest \in BOOLEAN
    BY ProcessesAssumption DEF Init
  <1>2. /\ MaxTask \in Nat /\ MaxTask > 2 /\ MaxProc \in Nat /\ MaxProc > 2
        /\ Task = 0..(MaxTask - 1) /\ ProcId = 1..MaxProc
    BY ProcessesAssumption DEF ProcId
  <1>3. /\ Booted \in {2, 3} /\ BootTasks = 0..(Booted - 1) /\ (sophonTest <=> Booted = 3)
        /\ Runner = 2
    BY <1>1 DEF Booted, BootTasks, Runner
  <1>4. \A t \in Task : t \in BootTasks <=> t < Booted
    BY <1>2, <1>3
  <1>5. \A p \in ProcId : p - 1 \in BootTasks <=> p - 1 < Booted
    BY <1>2, <1>3
  <1>6. KernelOK(sched, locks) /\ \A t \in Task : t >= Booted => sched.run[t] = "Absent"
    BY <1>1, BootKernel, ZenonT(30) DEF Init
  <1>7. /\ procOf = [t \in Task |-> IF t < Booted THEN t + 1 ELSE 0]
        /\ threads = [p \in ProcId |-> IF p - 1 < Booted THEN <<p - 1>> ELSE <<>>]
        /\ taskRefs = [t \in Task |-> IF t < Booted THEN {TASKS} ELSE {}]
        /\ pc = [t \in Task |-> At("entry", NoObj)]
        /\ live = [x \in Obj |-> TRUE] /\ lazy = [x \in Obj |-> "uninit"]
        /\ waited = [t \in Task |-> {}]
        /\ nextTask = Booted /\ nextProc = Booted + 1
    BY <1>4, <1>5, ZenonT(30) DEF Init
  <1>8. procRefs \in [ProcId -> ProcHolders]
    BY DEF Init, ProcHolders
  <1>9. \A t \in Task : pc[t].at = "entry"
    BY <1>7, ZenonT(30) DEF At
  <1>10. Typed
    <2>1. At("entry", NoObj) \in Place
      BY DEF At, Label, Preemptible, Place
    <2>2. procOf \in [Task -> ProcId \cup {0}]
      BY <1>2, <1>3, <1>7
    <2>3. taskRefs \in [Task -> TaskHolders]
      BY <1>7, ZenonT(30) DEF TaskHolders
    <2>4. /\ pc \in [Task -> Place] /\ live \in [Obj -> BOOLEAN] /\ DOMAIN threads = ProcId
          /\ waited \in [Task -> SUBSET Obj]
      BY <1>7, <2>1
    <2>5. lazy \in [Obj -> LazyState]
      BY <1>7, ZenonT(30) DEF LazyState
    <2>6. nextTask \in 2..MaxTask /\ nextProc \in 3..(MaxProc + 1)
      BY <1>2, <1>3, <1>7
    <2> QED BY <1>1, <1>8, <2>2, <2>3, <2>4, <2>5, <2>6, ZenonT(30) DEF Typed
  <1>11. Tree
    <2>1. \A t \in Task : procOf[t] = IF t < Booted THEN t + 1 ELSE 0
      BY <1>7, ZenonT(30)
    <2>2. \A t \in Task : (procOf[t] = 0 <=> t >= nextTask) /\ procOf[t] < nextProc
      BY <1>2, <1>3, <1>7, <2>1
    <2>3. \A p \in ProcId : p >= nextProc => threads[p] = <<>>
      BY <1>2, <1>3, <1>7
    <2>4. sophonTest => Runner \in Task /\ procOf[Runner] = Runner + 1 /\ nextProc > Runner + 1
      BY <1>2, <1>3, <1>7, <2>1
    <2>5. ASSUME NEW t \in Task, procOf[t] # 0
          PROVE  threads[procOf[t]] = <<t>> /\ \A u \in Task : procOf[u] = procOf[t] => u = t
      <3>1. t < Booted /\ procOf[t] = t + 1 /\ t \in Nat
        BY <1>2, <2>1, <2>5
      <3>2. t + 1 \in ProcId /\ (t + 1) - 1 = t
        BY <1>2, <1>3, <3>1
      <3>3. threads[t + 1] = <<t>>
        BY <1>7, <3>1, <3>2, ZenonT(30)
      <3>4. \A u \in Task : procOf[u] = procOf[t] => u = t
        BY <1>2, <2>1, <3>1
      <3> QED BY <3>1, <3>3, <3>4, ZenonT(30)
    <2> QED BY <2>2, <2>3, <2>4, <2>5 DEF Tree
  <1>12. Fresh
    <2>1. /\ \A t \in Task : live[<<"task", t>>]
          /\ \A p \in ProcId : live[<<"proc", p>>]
      BY <1>7, Names, ZenonT(30)
    <2>2. \A t \in Task : t >= nextTask => taskRefs[t] = {} /\ sched.run[t] = "Absent"
      BY <1>2, <1>3, <1>6, <1>7
    <2>3. Runner + 1 \in ProcId
      BY <1>2, <1>3
    <2> QED BY <1>9, <2>1, <2>2, <2>3, Ids, ZenonT(30) DEF Fresh
  <1>13. Places
    BY <1>9, ZenonT(30) DEF Places, PlaceOK, Holding
  <1>14. Refs
    <2>1. \A u \in Task : taskRefs[u] \subseteq {TASKS}
      BY <1>7
    <2>2. \A t, u \in Task : <<"thread", t>> \notin taskRefs[u]
      BY <2>1, ZenonT(30) DEF TASKS
    <2>3. \A t \in Task : t # Idle /\ t # Runner => procOf[t] # Runner + 1
      BY <1>2, <1>3, <1>7
    <2> QED BY <2>2, <2>3, Ids, ZenonT(30) DEF Refs, IsUser
  <1>15. Dead
    <2>1. \A x \in Obj : live[x]
      BY <1>7, ZenonT(30)
    <2>2. \A t \in Task : procOf[t] # 0 => <<"proc", procOf[t]>> \in Obj
      BY <1>10, Names, ZenonT(30) DEF Typed
    <2> QED BY <1>7, <2>1, <2>2, Names DEF Dead
  <1> QED BY <1>6, <1>10, <1>11, <1>12, <1>13, <1>14, <1>15, ZenonT(30) DEF ProcInv

LEMMA NextInv ==
  ASSUME ProcInv, [Next]_vars
  PROVE  ProcInv'
  <1>0. Typed /\ Places /\ Fresh /\ Tree
    BY ZenonT(30) DEF ProcInv
  <1>1. ASSUME NEW t \in Task, Exit(t) PROVE ProcInv'
    <2>1. Current(t) /\ t # Idle /\ pc[t].at # "entry" /\ IsUser(t)
      BY <1>1, Ids, ZenonT(30) DEF Exit, InState
    <2>x. PICK x \in Obj : x = <<"proc", procOf[t]>>
      BY <2>1, CurrentExists, Names, ZenonT(30)
    <2>2. IsOwn(t, x) /\ ExitLoop(t, x)
      BY <1>1, <2>1, <2>x, ZenonT(30) DEF IsOwn, Exit
    <2> QED BY <2>1, <2>2, ExitKeepsInv, ZenonT(30)
  <1>2. ASSUME NEW t \in Task, ThreadExit(t) PROVE ProcInv'
    <2>1. Current(t) /\ t # Idle /\ t # Runner /\ pc[t].at # "entry" /\ ~IsUser(t)
      BY <1>2, Ids DEF ThreadExit, InState, Runner
    <2>x. PICK x \in Obj : x = <<"task", t>>
      BY Names, ZenonT(30)
    <2>2. IsOwn(t, x) /\ ExitLoop(t, x)
      BY <1>2, <2>1, <2>x, ZenonT(30) DEF IsOwn, ThreadExit
    <2> QED BY <2>1, <2>2, ExitKeepsInv, ZenonT(30)
  <1>3. ASSUME NEW t \in Task, ExitResume(t) PROVE ProcInv'
    <2>1. Current(t) /\ pc[t].at \in {"xlock", "xspin"}
      BY <1>3, ZenonT(30) DEF ExitResume, InState
    <2>2. t # Idle /\ IsOwn(t, pc[t].obj)
      BY <1>0, <2>1, ZenonT(30) DEF Fresh, Places, PlaceOK
    <2>x. PICK x \in Obj : x = pc[t].obj
      BY <2>1, <2>2, CurrentExists, Names DEF IsOwn
    <2>3. IsOwn(t, x) /\ ExitLoop(t, x)
      BY <1>3, <2>2, <2>x, ZenonT(30) DEF ExitResume
    <2> QED BY <2>1, <2>2, <2>3, ExitKeepsInv, ZenonT(30)
  <1>4. CASE UNCHANGED vars
    <2>1. KernelOK(sched, locks)' /\ Typed' /\ Tree' /\ Fresh' /\ Refs'
      BY <1>4, ZenonT(30) DEF vars, ProcInv, Typed, Tree, Fresh, Refs, IsUser
    <2>2. Places' /\ Dead'
      BY <1>4, ZenonT(30) DEF vars, ProcInv, Places, PlaceOK, IsHandle, IsChild, IsOwn, IsUser, Dead
    <2> QED BY <2>1, <2>2, ZenonT(30) DEF ProcInv
  <1> QED
    BY <1>1, <1>2, <1>3, <1>4, EnterKeeps, LocalKeeps, WaitLockKeeps, ParkKeeps, DropGuardKeeps,
       ExecKeeps, SpawnTaskKeeps, WaitCallKeeps, TickInv DEF Next, Step

\* ProcInv holds of processes and tasks in every reachable state, whatever
\* the number of them.
THEOREM ProcessesInv == Spec => []ProcInv
  <1>1. Init => ProcInv
    BY InitInv
  <1>2. ProcInv /\ [Next]_vars => ProcInv'
    BY NextInv, ZenonT(30)
  <1> QED BY <1>1, <1>2, PTL DEF Spec

\* No unwrap, assertion or panic! of the scheduler, of TASKS or of an Arc's
\* destructor fires between spawn and exit.
THEOREM NeverPanics == Spec => []NoPanic
  <1>1. ProcInv => NoPanic
    BY ZenonT(30) DEF ProcInv, KernelOK, SchedOK, NoPanic
  <1> QED BY <1>1, ProcessesInv, PTL

\* What wait_for_completion returned from is gone: its tasks are not in
\* TASKS, not queued and not current.
THEOREM WaitedForIsGone == Spec => []CompletedIsGone
  <1>1. ASSUME ProcInv PROVE CompletedIsGone
    <2>0. KernelOK(sched, locks) /\ Typed /\ Dead /\ SchedOK(sched)
      BY <1>1, ZenonT(30) DEF ProcInv, KernelOK
    <2>1. ASSUME NEW t \in Task, NEW x \in waited[t], NEW u \in TasksOf(x)
          PROVE  u \in Task /\ sched.run[u] = "Absent"
      <3>0. x \in Obj /\ ~live[x]
        BY <2>0, ZenonT(30) DEF Typed, Dead
      <3>1. CASE x[1] = "task"
        <4>1. PICK w \in Task : x = <<"task", w>>
          BY <3>0, <3>1 DEF Obj
        <4>2. u = w
          BY <4>1, ZenonT(30) DEF TasksOf
        <4> QED BY <2>0, <3>0, <4>1, <4>2, ZenonT(30) DEF Dead
      <3>2. CASE x[1] # "task"
        <4>1. PICK p \in ProcId : x = <<"proc", p>>
          BY <3>0, <3>2 DEF Obj
        <4>2. u \in Task /\ procOf[u] = p /\ p # 0
          BY <4>1, Ids DEF TasksOf
        <4> QED BY <2>0, <3>0, <4>1, <4>2, ZenonT(30) DEF Dead
      <3> QED BY <3>1, <3>2, ZenonT(30)
    <2>2. ASSUME NEW u \in Task, sched.run[u] = "Absent"
          PROVE  u \notin Range(sched.queue) /\ u # sched.current
      <3>1. sched.queue \in Seq(Task) /\ QueueOK(sched) /\ CurrentOK(sched)
        BY <2>0, ZenonT(30) DEF SchedOK, SchedState
      <3>2. DOMAIN sched.queue = 1..Len(sched.queue)
        BY <3>1
      <3>3. \A i \in 1..Len(sched.queue) : sched.queue[i] # u
        BY <2>2, <3>1, ZenonT(30) DEF QueueOK
      <3> QED BY <2>2, <3>1, <3>2, <3>3, ZenonT(30) DEF Range, CurrentOK
    <2> QED BY <2>1, <2>2 DEF CompletedIsGone
  <1> QED BY <1>1, ProcessesInv, PTL

\* thread_test's assertion on Arc::strong_count after its wait holds.
THEOREM HandleAlone == Spec => []HandleIsLastReference
  <1>1. ASSUME ProcInv PROVE HandleIsLastReference
    <2>1. Typed /\ Refs /\ Dead
      BY <1>1 DEF ProcInv
    <2>2. ASSUME NEW t \in Task, NEW u \in Task, <<"task", u>> \in waited[t]
          PROVE  taskRefs[u] = {<<"thread", t>>}
      <3>1. ~live[<<"task", u>>] /\ <<"thread", t>> \in taskRefs[u]
        BY <2>1, <2>2, ZenonT(30) DEF Dead
      <3>2. TASKS \notin taskRefs[u]
        BY <2>1, <3>1 DEF Dead
      <3>3. taskRefs[u] \subseteq {TASKS} \cup ({"thread"} \X Task)
        BY <2>1, ZenonT(30) DEF Typed, TaskHolders
      <3>4. \A w \in Task : <<"thread", w>> \in taskRefs[u] => w = t
        BY <2>1, <3>1, ZenonT(30) DEF Refs
      <3>5. ASSUME NEW e \in taskRefs[u] PROVE e = <<"thread", t>>
        <4>1. e \in {"thread"} \X Task
          BY <3>2, <3>3, ZenonT(30)
        <4>2. PICK w \in Task : e = <<"thread", w>>
          BY <4>1
        <4> QED BY <3>4, <4>2
      <3> QED BY <3>1, <3>5, ZenonT(30)
    <2> QED BY <2>2, ZenonT(30) DEF HandleIsLastReference
  <1> QED BY <1>1, ProcessesInv, PTL

\* A preempted waiter acts on a value of *live that is still right.
THEOREM LiveReadStaysFresh == Spec => []LiveReadIsFresh
  <1>1. ProcInv => LiveReadIsFresh
    BY ZenonT(30) DEF ProcInv, Places, PlaceOK, LiveReadIsFresh
  <1> QED BY <1>1, ProcessesInv, PTL
=============================================================================
