--------------------------- MODULE MonitorsProofs ---------------------------
(***************************************************************************)
(* The kernel's mutexes and condition variables, for any tasks, locks and  *)
(* bounds: MonitorInv is inductive, two tasks are never inside one mutex,  *)
(* and the locks implement AbstractMonitor.                                *)
(***************************************************************************)
EXTENDS Monitors, SchedulingProofs

\* The time that a leaf may take.
USE SMTT(30)

-----------------------------------------------------------------------------
(* The invariant.                                                          *)

\* The tasks after Idle, in the order they were spawned.
LEMMA StartQueue ==
  /\ Others \in Seq(Task)
  /\ \A t \in Task \ {Idle} : \E i \in 1..Len(Others) : Others[i] = t
  /\ \A i \in 1..Len(Others) : Others[i] \in Task \ {Idle}
  /\ \A i, j \in 1..Len(Others) : Others[i] = Others[j] => i = j
  <1> DEFINE n == Cardinality(Task) - 1
  <1>1. n \in Nat /\ Others \in Orders
    BY FiniteAssumption DEF Others
  <1>2. /\ Others \in [1..n -> Task \ {Idle}] /\ IsInjective(Others)
        /\ \A t \in Task \ {Idle} : \E i \in DOMAIN Others : Others[i] = t
    BY <1>1 DEF Orders
  <1> HIDE DEF n
  <1>3. Others \in Seq(Task) /\ Len(Others) = n /\ DOMAIN Others = 1..n
    BY <1>1, <1>2
  <1> QED BY <1>2, <1>3 DEF IsInjective

\* Every task spawned, Idle running, no lock in use.
LEMMA InitMonitorInv == Init => MonitorInv
  <1> SUFFICES ASSUME Init PROVE MonitorInv
    OBVIOUS
  <1> DEFINE q == Others
  <1>1. /\ q \in Seq(Task)
        /\ \A t \in Task \ {Idle} : \E i \in 1..Len(q) : q[i] = t
        /\ \A i \in 1..Len(q) : q[i] \in Task \ {Idle}
        /\ \A i, j \in 1..Len(q) : q[i] = q[j] => i = j
    BY StartQueue
  <1>2. /\ sched.run = [t \in Task |-> IF t = Idle THEN "Running" ELSE "Ready"]
        /\ sched.slice = [[t \in Task |-> 0] EXCEPT ![Idle] = 1]
        /\ sched.queue = q /\ sched.current = Idle /\ sched.panic = FALSE
        /\ sched = [run |-> sched.run, slice |-> sched.slice, queue |-> q,
                    current |-> Idle, panic |-> FALSE]
    BY ZenonT(30) DEF Init, Started, EmptySched, UNIT_TIME_SLICE
  <1> HIDE DEF q
  <1>3. /\ sched.run \in [Task -> RunState \cup {"Absent"}]
        /\ sched.slice \in [Task -> Nat] /\ sched.slice[Idle] = 1
    BY <1>2, TaskAssumption DEF RunState
  <1>4. sched \in SchedState
    BY <1>1, <1>2, <1>3, TaskAssumption, ZenonT(30) DEF SchedState
  <1>5. QueueOK(sched)
    BY <1>1, <1>2 DEF QueueOK
  <1>6. CurrentOK(sched)
    BY <1>2, <1>3 DEF CurrentOK, UNIT_TIME_SLICE
  <1>7. SchedOK(sched) /\ sched.current \in Task
    BY <1>2, <1>4, <1>5, <1>6, TaskAssumption DEF SchedOK
  <1>8. /\ locks \in LockState
        /\ \A m \in Mutex : locks.mwait[m] = <<>> /\ locks.locked[m] = FALSE
        /\ \A c \in Cond : locks.cwait[c] = <<>>
    BY DEF Init, FreshLocks, LockState
  <1>9. TypeOK
    BY <1>4, <1>8, BoundAssumption DEF TypeOK, Init
  <1>10. IdleAwake
    BY <1>2, TaskAssumption DEF IdleAwake, Init
  <1>11. WaitersSleep
    <2>1. /\ \A m \in DOMAIN locks.mwait : Len(locks.mwait[m]) = 0
          /\ \A c \in DOMAIN locks.cwait : Len(locks.cwait[c]) = 0
      BY <1>8 DEF LockState
    <2>2. 1..0 = {}
      OBVIOUS
    <2>3. AllAsleep(sched, locks.mwait) /\ AllAsleep(sched, locks.cwait)
      BY <2>1, <2>2, ZenonT(30) DEF AllAsleep
    <2>4. Once(locks.mwait) /\ Once(locks.cwait)
      BY <2>1, <2>2, ZenonT(30) DEF Once
    <2>5. Apart(locks.mwait, locks.cwait)
      BY <2>1, <2>2, ZenonT(30) DEF Apart
    <2> QED BY <2>3, <2>4, <2>5 DEF WaitersSleep, WaitersOK
  <1>12. MutualExclusion
    BY <1>8 DEF MutualExclusion, Init
  <1> QED BY <1>7, <1>9, <1>10, <1>11, <1>12 DEF MonitorInv

-----------------------------------------------------------------------------
(* Each step keeps the invariant.                                          *)

\* lock: fetch_or found false, the caller holds the mutex.
LEMMA AcquireKeeps ==
  ASSUME MonitorInv, NEW t \in Task \ {Idle}, NEW m \in Mutex,
         ~locks.locked[m], locks' = Acquired(locks, m), sched' = sched,
         want' = [want EXCEPT ![t] = {}],
         holds' = [holds EXCEPT ![t] = @ \cup {m}],
         calls' \in [Task -> 0..MaxCalls]
  PROVE  MonitorInv'
  <1>1. TypeOK /\ WaitersSleep /\ MutualExclusion /\ IdleAwake
    BY DEF MonitorInv
  <1>2. /\ locks' \in LockState /\ locks'.locked = [locks.locked EXCEPT ![m] = TRUE]
        /\ locks'.mwait = locks.mwait /\ locks'.cwait = locks.cwait
    <2>1. /\ Acquired(locks, m) \in LockState
          /\ Acquired(locks, m).locked = [locks.locked EXCEPT ![m] = TRUE]
          /\ Acquired(locks, m).mwait = locks.mwait
          /\ Acquired(locks, m).cwait = locks.cwait
      BY <1>1, AcquiredFields, ZenonT(30) DEF TypeOK
    <2> QED BY <2>1
  <1>3. TypeOK'
    BY <1>1, <1>2, ZenonT(30) DEF TypeOK
  <1>4. WaitersSleep'
    BY <1>1, <1>2 DEF WaitersSleep, WaitersOK
  <1>5. MutualExclusion'
    BY <1>1, <1>2 DEF MutualExclusion, TypeOK, LockState
  <1>6. IdleAwake'
    BY <1>1, TaskAssumption, ZenonT(30) DEF IdleAwake, TypeOK
  <1> QED BY <1>3, <1>4, <1>5, <1>6 DEF MonitorInv

\* lock: fetch_or found true, the caller is pushed and sleeps.
LEMMA QueueKeeps ==
  ASSUME MonitorInv, NEW t \in Task \ {Idle}, NEW m \in Mutex,
         sched.current = t, locks' = Queued(locks, m, t), sched' = Sleep(sched),
         want' = [want EXCEPT ![t] = {m}], holds' = holds,
         calls' \in [Task -> 0..MaxCalls]
  PROVE  MonitorInv'
  <1>1. /\ TypeOK /\ WaitersOK(sched, locks) /\ MutualExclusion /\ IdleAwake
        /\ SchedOK(sched) /\ locks \in LockState
    BY DEF MonitorInv, WaitersSleep, TypeOK
  <1>2. /\ SchedOK(Sleep(sched)) /\ Sleep(sched).current \in Task
        /\ sched.run[t] = "Running" /\ Sleep(sched).run[t] = "Sleeping"
        /\ Sleep(sched).run[Idle] \in {"Ready", "Running"}
        /\ \A u \in Task : sched.run[u] = "Sleeping" => Sleep(sched).run[u] = "Sleeping"
    BY <1>1, CurrentSleeps DEF IdleAwake
  <1>3. WaitersOK(Sleep(sched), Queued(locks, m, t))
    BY <1>1, <1>2, QueuedWaiters, ZenonT(30)
  <1>4. /\ Queued(locks, m, t) \in LockState
        /\ Queued(locks, m, t).locked = locks.locked
    BY <1>1, QueuedFields
  <1>5. TypeOK'
    BY <1>1, <1>2, <1>4, ZenonT(30) DEF TypeOK, SchedOK
  <1>6. MutualExclusion'
    BY <1>1, <1>4 DEF MutualExclusion
  <1>7. IdleAwake'
    BY <1>1, <1>2 DEF IdleAwake, TypeOK
  <1>8. WaitersSleep'
    BY <1>3 DEF WaitersSleep
  <1>9. SchedOK(sched)' /\ sched'.current \in Task
    BY <1>2
  <1> QED BY <1>5, <1>6, <1>7, <1>8, <1>9 DEF MonitorInv

\* unlock wakes all the waiters of the mutex, and only them.
LEMMA UnlockKeeps ==
  ASSUME MonitorInv, NEW t \in Task, NEW m \in Mutex, m \in holds[t],
         locks' = Unlocked(locks, m), sched' = WakeAll(sched, locks.mwait[m]),
         holds' = [holds EXCEPT ![t] = @ \ {m}], want' = want, calls' = calls
  PROVE  MonitorInv'
  <1> DEFINE r == WakeAll(sched, locks.mwait[m])
  <1>1. /\ TypeOK /\ WaitersOK(sched, locks) /\ MutualExclusion /\ IdleAwake
        /\ SchedOK(sched) /\ sched.current \in Task /\ locks \in LockState
    BY DEF MonitorInv, WaitersSleep, TypeOK
  <1>2. /\ SchedOK(r) /\ r.current = sched.current
        /\ \A u \in Task : r.run[u] = sched.run[u] \/ r.run[u] = "Ready"
        /\ WaitersOK(r, Unlocked(locks, m))
    BY <1>1, UnlockedWaiters
  <1>3. /\ Unlocked(locks, m) \in LockState
        /\ Unlocked(locks, m).locked = [locks.locked EXCEPT ![m] = FALSE]
    BY <1>1, UnlockedFields, ZenonT(30)
  <1>4. sched' = r
    BY ZenonT(30)
  <1> HIDE DEF r
  <1>5. TypeOK'
    BY <1>1, <1>2, <1>3, <1>4, ZenonT(30) DEF TypeOK, SchedOK
  <1>6. MutualExclusion'
    BY <1>1, <1>3 DEF MutualExclusion, TypeOK, LockState
  <1>7. IdleAwake'
    BY <1>1, <1>2, <1>4, TaskAssumption, ZenonT(30) DEF IdleAwake, TypeOK
  <1>8. WaitersSleep' /\ SchedOK(sched)' /\ sched'.current \in Task
    BY <1>1, <1>2, <1>4 DEF WaitersSleep
  <1> QED BY <1>5, <1>6, <1>7, <1>8 DEF MonitorInv

\* notify_all wakes all the waiters of the condvar, and only them.
LEMMA NotifyKeeps ==
  ASSUME MonitorInv, NEW c \in Cond,
         locks' = Notified(locks, c), sched' = WakeAll(sched, locks.cwait[c]),
         holds' = holds, want' = want, calls' \in [Task -> 0..MaxCalls]
  PROVE  MonitorInv'
  <1> DEFINE r == WakeAll(sched, locks.cwait[c])
  <1>1. /\ TypeOK /\ WaitersOK(sched, locks) /\ MutualExclusion /\ IdleAwake
        /\ SchedOK(sched) /\ sched.current \in Task /\ locks \in LockState
    BY ZenonT(30) DEF MonitorInv, WaitersSleep, TypeOK
  <1>2. /\ SchedOK(r) /\ r.current = sched.current
        /\ \A u \in Task : r.run[u] = sched.run[u] \/ r.run[u] = "Ready"
        /\ WaitersOK(r, Notified(locks, c))
    BY <1>1, NotifiedWaiters
  <1>3. Notified(locks, c) \in LockState /\ Notified(locks, c).locked = locks.locked
    BY <1>1, NotifiedFields, ZenonT(30)
  <1>4. sched' = r
    BY ZenonT(30)
  <1> HIDE DEF r
  <1>5. TypeOK'
    BY <1>1, <1>2, <1>3, <1>4, ZenonT(30) DEF TypeOK, SchedOK
  <1>6. MutualExclusion'
    BY <1>1, <1>3 DEF MutualExclusion
  <1>7. IdleAwake'
    BY <1>1, <1>2, <1>4, TaskAssumption, ZenonT(30) DEF IdleAwake, TypeOK
  <1>8. WaitersSleep' /\ SchedOK(sched)' /\ sched'.current \in Task
    BY <1>1, <1>2, <1>4, ZenonT(30) DEF WaitersSleep
  <1> QED BY <1>5, <1>6, <1>7, <1>8 DEF MonitorInv

\* Condvar wait: the mutex is unlocked as in unlock, then the caller sleeps.
LEMMA WaitKeeps ==
  ASSUME MonitorInv, NEW t \in Task, NEW m \in Mutex, NEW c \in Cond,
         m \in holds[t], sched.current = t, locks' = Parked(locks, c, m, t),
         sched' = Sleep(WakeAll(sched, locks.mwait[m])),
         holds' = [holds EXCEPT ![t] = @ \ {m}],
         want' = [want EXCEPT ![t] = {m}], calls' = calls
  PROVE  MonitorInv'
  <1> DEFINE r == WakeAll(sched, locks.mwait[m])
             k == Parked(locks, c, m, t)
             l == Unlocked(locks, m)
  <1>1. /\ TypeOK /\ WaitersOK(sched, locks) /\ MutualExclusion /\ IdleAwake
        /\ SchedOK(sched) /\ locks \in LockState
    BY ZenonT(30) DEF MonitorInv, WaitersSleep, TypeOK
  <1>2. /\ SchedOK(r) /\ r.current = t
        /\ \A u \in Task : r.run[u] = sched.run[u] \/ r.run[u] = "Ready"
        /\ WaitersOK(r, l)
    BY <1>1, UnlockedWaiters
  <1>3. /\ k \in LockState /\ k.locked = [locks.locked EXCEPT ![m] = FALSE]
        /\ k.mwait = [locks.mwait EXCEPT ![m] = <<>>]
        /\ k.cwait = Pushed(locks.cwait, c, t)
    BY <1>1, ParkedFields
  <1>4. /\ l \in LockState /\ l.mwait = [locks.mwait EXCEPT ![m] = <<>>]
        /\ l.cwait = locks.cwait
    BY <1>1, UnlockedFields, ZenonT(30)
  <1>5. sched' = Sleep(r) /\ locks' = k
    OBVIOUS
  <1> HIDE DEF r, k, l
  <1>6. t # Idle /\ r.run[Idle] \in {"Ready", "Running"}
    BY <1>1, <1>2, TaskAssumption, ZenonT(30) DEF IdleAwake
  <1>7. /\ SchedOK(Sleep(r)) /\ Sleep(r).current \in Task
        /\ r.run[t] = "Running" /\ Sleep(r).run[t] = "Sleeping"
        /\ Sleep(r).run[Idle] \in {"Ready", "Running"}
        /\ \A u \in Task : r.run[u] = "Sleeping" => Sleep(r).run[u] = "Sleeping"
    BY <1>2, <1>6, CurrentSleeps
  <1>8. WaitersOK(Sleep(r), k)
    <2>1. /\ k.mwait = l.mwait
          /\ k.cwait = Pushed(l.cwait, c, t)
          /\ r.run[t] # "Sleeping"
      BY <1>3, <1>4, <1>7, ZenonT(30)
    <2> QED BY <1>2, <1>3, <1>4, <1>7, <2>1, ParkedWaiters
  <1>9. TypeOK'
    BY <1>1, <1>3, <1>5, <1>7 DEF TypeOK, SchedOK
  <1>10. MutualExclusion'
    BY <1>1, <1>3, <1>5 DEF MutualExclusion, TypeOK, LockState
  <1>11. IdleAwake'
    BY <1>1, <1>5, <1>6, <1>7 DEF IdleAwake, TypeOK
  <1>12. WaitersSleep' /\ SchedOK(sched)' /\ sched'.current \in Task
    BY <1>5, <1>7, <1>8 DEF WaitersSleep
  <1> QED BY <1>9, <1>10, <1>11, <1>12 DEF MonitorInv

\* The timer interrupt moves no task in or out of a waiters list.
LEMMA TickKeeps ==
  ASSUME MonitorInv, sched' = TimerTick(sched), UNCHANGED <<locks, want, holds, calls>>
  PROVE  MonitorInv'
  <1> DEFINE r == TimerTick(sched)
  <1>1. /\ TypeOK /\ WaitersOK(sched, locks) /\ MutualExclusion /\ IdleAwake
        /\ SchedOK(sched) /\ sched.current \in Task /\ locks \in LockState
    BY DEF MonitorInv, WaitersSleep, TypeOK
  <1>2. /\ SchedOK(r) /\ r.current \in Task
        /\ \A u \in Task : sched.run[u] \in {"Ready", "Running"}
                             => r.run[u] \in {"Ready", "Running"}
        /\ \A u \in Task : sched.run[u] = "Sleeping" => r.run[u] = "Sleeping"
    BY <1>1, TimerTickKeeps
  <1>3. sched' = r
    BY ZenonT(30)
  <1> HIDE DEF r
  <1>4. /\ locks.mwait \in [Mutex -> Seq(Task)] /\ locks.cwait \in [Cond -> Seq(Task)]
        /\ AllAsleep(sched, locks.mwait) /\ AllAsleep(sched, locks.cwait)
    BY <1>1 DEF LockState, WaitersOK
  <1>a. AllAsleep(r, locks.mwait) /\ AllAsleep(r, locks.cwait)
    BY <1>2, <1>4, AsleepStays, ZenonT(30)
  <1>5. WaitersOK(r, locks)
    BY <1>1, <1>a, ZenonT(30) DEF WaitersOK
  <1>6. TypeOK' /\ MutualExclusion'
    BY <1>1, <1>2, <1>3, ZenonT(30) DEF TypeOK, SchedOK, MutualExclusion
  <1>7. IdleAwake'
    BY <1>1, <1>2, <1>3, TaskAssumption DEF IdleAwake
  <1>8. WaitersSleep' /\ SchedOK(sched)' /\ sched'.current \in Task
    BY <1>2, <1>3, <1>5, ZenonT(30) DEF WaitersSleep
  <1> QED BY <1>6, <1>7, <1>8 DEF MonitorInv

\* One turn of the loop of RawMutex::lock.
LEMMA LockLoopKeeps ==
  ASSUME MonitorInv, NEW t \in Task \ {Idle}, NEW m \in Mutex,
         sched.current = t, LockLoop(t, m), calls' \in [Task -> 0..MaxCalls]
  PROVE  MonitorInv'
  <1>1. CASE locks.locked[m]
    BY <1>1, QueueKeeps DEF LockLoop
  <1>2. CASE ~locks.locked[m]
    BY <1>2, AcquireKeeps, ZenonT(30) DEF LockLoop
  <1> QED BY <1>1, <1>2

\* A lock or notify call is counted within the bound.
LEMMA CallCounts ==
  ASSUME MonitorInv, NEW t \in Task, Call(t)
  PROVE  calls' \in [Task -> 0..MaxCalls] /\ t # Idle /\ sched.current = t
  BY BoundAssumption DEF Call, InUser, MonitorInv, TypeOK

\* Each action keeps the invariant.
LEMMA NextMonitorInv == MonitorInv /\ [Next]_vars => MonitorInv'
  <1> SUFFICES ASSUME MonitorInv, [Next]_vars PROVE MonitorInv'
    OBVIOUS
  <1>0. calls \in [Task -> 0..MaxCalls] /\ want[Idle] = {}
    BY DEF MonitorInv, TypeOK, IdleAwake
  <1>1. ASSUME NEW t \in Task, LockResume(t) PROVE MonitorInv'
    <2>1. PICK m \in want[t] : LockLoop(t, m)
      BY <1>1, ZenonT(30) DEF LockResume
    <2>2. m \in Mutex /\ t # Idle /\ sched.current = t /\ calls' = calls
      BY <1>0, <1>1, <2>1 DEF LockResume, MonitorInv, TypeOK
    <2> QED BY <1>0, <2>1, <2>2, LockLoopKeeps
  <1>2. ASSUME NEW t \in Task, NEW m \in Mutex, MutexLock(t, m) PROVE MonitorInv'
    BY <1>2, CallCounts, LockLoopKeeps DEF MutexLock
  <1>3. ASSUME NEW t \in Task, NEW m \in Mutex, MutexUnlock(t, m) PROVE MonitorInv'
    BY <1>3, UnlockKeeps, ZenonT(30) DEF MutexUnlock
  <1>4. ASSUME NEW t \in Task, NEW m \in Mutex, NEW c \in Cond, CondvarWait(t, c, m)
        PROVE  MonitorInv'
    BY <1>4, WaitKeeps, ZenonT(30) DEF CondvarWait, InUser
  <1>5. ASSUME NEW t \in Task, NEW c \in Cond, CondvarNotifyAll(t, c) PROVE MonitorInv'
    <2>1. calls' \in [Task -> 0..MaxCalls]
      BY <1>5, CallCounts, ZenonT(30) DEF CondvarNotifyAll
    <2> QED BY <1>5, <2>1, NotifyKeeps DEF CondvarNotifyAll
  <1>6. CASE Tick
    BY <1>6, TickKeeps, ZenonT(30) DEF Tick
  <1>7. CASE UNCHANGED vars
    BY <1>7 DEF vars, MonitorInv, TypeOK, IdleAwake, WaitersSleep, MutualExclusion
  <1> QED BY <1>1, <1>2, <1>3, <1>4, <1>5, <1>6, <1>7 DEF Next

\* Through every interleaving of lock, unlock, wait, notify_all and the timer
\* the scheduler never panics, and every task in a waiters list sleeps.
THEOREM LocksConsistent == Spec => []MonitorInv
  BY InitMonitorInv, NextMonitorInv, PTL DEF Spec

\* RawMutex: two tasks are never inside the same mutex, for any number of
\* tasks, mutexes, condvars and calls.
THEOREM LocksExclude == Spec => []MutualExclusion
  <1>1. MonitorInv => MutualExclusion
    BY DEF MonitorInv
  <1> QED BY <1>1, LocksConsistent, PTL

-----------------------------------------------------------------------------
(* The refinement of AbstractMonitor.                                      *)

\* With at most one task inside a mutex, Holder names it.
LEMMA HolderIs ==
  ASSUME NEW h, \A t, u \in Task : t # u => h[t] \cap h[u] = {}
  PROVE  /\ \A m \in Mutex, t \in Task : m \in h[t] => Holder(h)[m] = t
         /\ \A m \in Mutex : (\A t \in Task : m \notin h[t]) => Holder(h)[m] = NoTask
  <1>1. ASSUME NEW m \in Mutex, NEW t \in Task, m \in h[t] PROVE Holder(h)[m] = t
    <2>1. Holder(h)[m] = CHOOSE u \in Task : m \in h[u]
      BY <1>1 DEF Holder
    <2>2. Holder(h)[m] \in Task /\ m \in h[Holder(h)[m]]
      BY <1>1, <2>1, ZenonT(30)
    <2> QED BY <1>1, <2>2
  <1>2. ASSUME NEW m \in Mutex, \A t \in Task : m \notin h[t]
        PROVE  Holder(h)[m] = NoTask
    BY <1>2 DEF Holder
  <1> QED BY <1>1, <1>2, ZenonT(30)

\* lock returns to t: t is the abstract holder of the mutex, and no other
\* mutex changes hands.
LEMMA HolderTakes ==
  ASSUME NEW h \in [Task -> SUBSET Mutex], NEW t \in Task, NEW m \in Mutex,
         \A u, v \in Task : u # v => h[u] \cap h[v] = {},
         \A u \in Task : m \notin h[u]
  PROVE  /\ Holder(h)[m] = NoTask
         /\ Holder([h EXCEPT ![t] = @ \cup {m}]) = [Holder(h) EXCEPT ![m] = t]
  <1> DEFINE g == [h EXCEPT ![t] = @ \cup {m}]
  <1>1. /\ \A u \in Task : g[u] = IF u = t THEN h[u] \cup {m} ELSE h[u]
        /\ \A u, v \in Task : u # v => g[u] \cap g[v] = {}
    BY ZenonT(30)
  <1>2. Holder(h)[m] = NoTask
    BY HolderIs
  <1> HIDE DEF g
  <1>3. Holder(g)[m] = t
    BY <1>1, HolderIs, ZenonT(30)
  <1>4. ASSUME NEW n \in Mutex, n # m PROVE Holder(g)[n] = Holder(h)[n]
    <2>1. CASE \E u \in Task : n \in h[u]
      <3>1. PICK u \in Task : n \in h[u]
        BY <2>1
      <3>2. n \in g[u]
        BY <1>1, <3>1, ZenonT(30)
      <3> QED BY <1>1, <3>1, <3>2, HolderIs
    <2>2. CASE \A u \in Task : n \notin h[u]
      <3>1. \A u \in Task : n \notin g[u]
        BY <1>1, <1>4, <2>2, ZenonT(30)
      <3> QED BY <1>1, <2>2, <3>1, HolderIs
    <2> QED BY <2>1, <2>2, ZenonT(30)
  <1>5. Holder(g) = [n \in Mutex |-> Holder(g)[n]] /\ Holder(h) = [n \in Mutex |-> Holder(h)[n]]
    BY DEF Holder
  <1>6. Holder(g) = [Holder(h) EXCEPT ![m] = t]
    BY <1>3, <1>4, <1>5
  <1> QED BY <1>2, <1>6 DEF g

\* unlock, or wait, by t: the abstract mutex has no holder.
LEMMA HolderGives ==
  ASSUME NEW h \in [Task -> SUBSET Mutex], NEW t \in Task, NEW m \in Mutex,
         \A u, v \in Task : u # v => h[u] \cap h[v] = {},
         m \in h[t]
  PROVE  /\ Holder(h)[m] = t
         /\ Holder([h EXCEPT ![t] = @ \ {m}]) = [Holder(h) EXCEPT ![m] = NoTask]
  <1> DEFINE g == [h EXCEPT ![t] = @ \ {m}]
  <1>1. /\ \A u \in Task : g[u] = IF u = t THEN h[u] \ {m} ELSE h[u]
        /\ \A u, v \in Task : u # v => g[u] \cap g[v] = {}
        /\ \A u \in Task : m \notin g[u]
    OBVIOUS
  <1>2. Holder(h)[m] = t
    BY HolderIs
  <1> HIDE DEF g
  <1>3. Holder(g)[m] = NoTask
    BY <1>1, HolderIs, ZenonT(30)
  <1>4. ASSUME NEW n \in Mutex, n # m PROVE Holder(g)[n] = Holder(h)[n]
    <2>1. CASE \E u \in Task : n \in h[u]
      <3>1. PICK u \in Task : n \in h[u]
        BY <2>1, ZenonT(30)
      <3>2. n \in g[u]
        BY <1>1, <1>4, <3>1, ZenonT(30)
      <3> QED BY <1>1, <3>1, <3>2, HolderIs
    <2>2. CASE \A u \in Task : n \notin h[u]
      <3>1. \A u \in Task : n \notin g[u]
        BY <1>1, <2>2, ZenonT(30)
      <3> QED BY <1>1, <2>2, <3>1, HolderIs
    <2> QED BY <2>1, <2>2, ZenonT(30)
  <1>5. Holder(g) = [n \in Mutex |-> Holder(g)[n]] /\ Holder(h) = [n \in Mutex |-> Holder(h)[n]]
    BY DEF Holder
  <1>6. Holder(g) = [Holder(h) EXCEPT ![m] = NoTask]
    BY <1>3, <1>4, <1>5
  <1> QED BY <1>2, <1>6, ZenonT(30) DEF g

\* wait pushes the caller: the abstract condvar parks it.
LEMMA SleepersPushed ==
  ASSUME NEW l \in LockState, NEW k \in LockState, NEW c \in Cond, NEW t \in Task,
         k.cwait = Pushed(l.cwait, c, t)
  PROVE  Sleepers(k) = [Sleepers(l) EXCEPT ![c] = @ \cup {t}]
  <1>1. l.cwait \in [Cond -> Seq(Task)] /\ k.cwait = [l.cwait EXCEPT ![c] = Append(l.cwait[c], t)]
    BY DEF LockState, Pushed
  <1>2. \A d \in Cond : d # c => k.cwait[d] = l.cwait[d]
    BY <1>1
  <1>3. Range(k.cwait[c]) = Range(l.cwait[c]) \cup {t}
    <2> DEFINE w == l.cwait[c]
    <2>1. w \in Seq(Task) /\ k.cwait[c] = Append(w, t)
      BY <1>1
    <2> HIDE DEF w
    <2>2. /\ DOMAIN w = 1..Len(w) /\ Len(w) \in Nat
          /\ DOMAIN Append(w, t) = 1..(Len(w) + 1)
          /\ \A i \in 1..Len(w) : Append(w, t)[i] = w[i]
          /\ Append(w, t)[Len(w) + 1] = t
      BY <2>1
    <2>3. ASSUME NEW x \in Range(Append(w, t)) PROVE x \in Range(w) \cup {t}
      <3>1. PICK i \in 1..(Len(w) + 1) : x = Append(w, t)[i]
        BY <2>2 DEF Range
      <3>2. CASE i = Len(w) + 1
        BY <2>2, <3>1, <3>2
      <3>3. CASE i # Len(w) + 1
        <4>1. i \in 1..Len(w) /\ x = w[i]
          BY <2>2, <3>1, <3>3
        <4> QED BY <2>2, <4>1, ZenonT(30) DEF Range
      <3> QED BY <3>2, <3>3, ZenonT(30)
    <2>4. ASSUME NEW x \in Range(w) PROVE x \in Range(Append(w, t))
      <3>1. PICK i \in 1..Len(w) : x = w[i]
        BY <2>2, ZenonT(30) DEF Range
      <3>2. i \in 1..(Len(w) + 1) /\ x = Append(w, t)[i]
        BY <2>2, <3>1
      <3> QED BY <2>2, <3>2 DEF Range
    <2>5. t \in Range(Append(w, t))
      <3>1. Len(w) + 1 \in 1..(Len(w) + 1)
        BY <2>2
      <3> QED BY <2>2, <3>1 DEF Range
    <2> QED BY <2>1, <2>3, <2>4, <2>5, ZenonT(30) DEF w
  <1> QED BY <1>2, <1>3, ZenonT(30) DEF Sleepers

\* notify_all drains the list: the abstract condvar parks nobody.
LEMMA SleepersNotified ==
  ASSUME NEW l \in LockState, NEW c \in Cond
  PROVE  Sleepers(Notified(l, c)) = [Sleepers(l) EXCEPT ![c] = {}]
  <1> DEFINE k == Notified(l, c)
  <1>1. l.cwait \in [Cond -> Seq(Task)] /\ k.cwait = [l.cwait EXCEPT ![c] = <<>>]
    BY NotifiedFields, ZenonT(30) DEF LockState
  <1> HIDE DEF k
  <1>2. Range(<<>>) = {}
    BY DEF Range
  <1>3. /\ \A d \in Cond : d # c => k.cwait[d] = l.cwait[d]
        /\ Range(k.cwait[c]) = {}
    BY <1>1, <1>2
  <1>4. Sleepers(k) = [Sleepers(l) EXCEPT ![c] = {}]
    BY <1>3, ZenonT(30) DEF Sleepers
  <1> QED BY <1>4 DEF k

\* Initially no mutex is held and no task is parked.
LEMMA InitMaps == Init => Abs!Init
  <1> SUFFICES ASSUME Init PROVE Abs!Init
    OBVIOUS
  <1>1. Holder(holds) = [m \in Mutex |-> NoTask]
    BY DEF Init, Holder
  <1>2. Range(<<>>) = {}
    BY DEF Range
  <1>3. Sleepers(locks) = [c \in Cond |-> {}]
    BY <1>2, ZenonT(30) DEF Init, Sleepers, FreshLocks
  <1> QED BY <1>1, <1>3 DEF Abs!Init

\* Each step is a step of the abstract monitor or leaves it as it is.
LEMMA NextMaps == MonitorInv /\ [Next]_vars => [Abs!Next]_(Abs!vars)
  <1> SUFFICES ASSUME MonitorInv, [Next]_vars PROVE [Abs!Next]_(Abs!vars)
    OBVIOUS
  <1>0. /\ locks \in LockState /\ holds \in [Task -> SUBSET Mutex]
        /\ want \in [Task -> SUBSET Mutex] /\ SchedOK(sched)
        /\ WaitersOK(sched, locks)
        /\ \A t, u \in Task : t # u => holds[t] \cap holds[u] = {}
        /\ \A m \in Mutex : ~locks.locked[m] => \A t \in Task : m \notin holds[t]
    BY ZenonT(30) DEF MonitorInv, TypeOK, WaitersSleep, MutualExclusion
  <1>a. /\ holds \in [Task -> SUBSET Mutex]
        /\ \A t, u \in Task : t # u => holds[t] \cap holds[u] = {}
    BY <1>0
  <1>1. ASSUME NEW t \in Task, sched.current = t PROVE Abs!Free(t)
    <2>1. sched.run[t] # "Sleeping"
      BY <1>0, <1>1, ZenonT(30) DEF SchedOK, CurrentOK
    <2>2. \A c \in Cond : \A i \in 1..Len(locks.cwait[c]) : locks.cwait[c][i] # t
      <3>1. AllAsleep(sched, locks.cwait) /\ DOMAIN locks.cwait = Cond
        BY <1>0 DEF WaitersOK, LockState
      <3> QED BY <2>1, <3>1 DEF AllAsleep
    <2>3. \A c \in Cond : DOMAIN locks.cwait[c] = 1..Len(locks.cwait[c])
      BY <1>0 DEF LockState
    <2>4. \A c \in Cond : t \notin Range(locks.cwait[c])
      BY <2>2, <2>3 DEF Range
    <2> QED BY <2>4 DEF Abs!Free, Sleepers
  <1>2. ASSUME NEW t \in Task, NEW m \in Mutex, sched.current = t, LockLoop(t, m)
        PROVE  Abs!Acquire(t, m) \/ UNCHANGED Abs!vars
    <2>1. CASE locks.locked[m]
      <3>1. Queued(locks, m, t).cwait = locks.cwait
        BY <1>0, QueuedFields, ZenonT(30)
      <3>2. locks'.cwait = locks.cwait /\ holds' = holds
        BY <1>2, <2>1, <3>1 DEF LockLoop
      <3> QED BY <3>2, ZenonT(30) DEF Abs!vars, Sleepers
    <2>2. CASE ~locks.locked[m]
      <3>1. Acquired(locks, m).cwait = locks.cwait
        BY <1>0, AcquiredFields, ZenonT(30)
      <3>2. locks'.cwait = locks.cwait /\ holds' = [holds EXCEPT ![t] = @ \cup {m}]
        BY <1>2, <2>2, <3>1 DEF LockLoop
      <3>3. /\ Holder(holds)[m] = NoTask
            /\ Holder(holds') = [Holder(holds) EXCEPT ![m] = t]
        BY <1>0, <2>2, <3>2, HolderTakes, ZenonT(30)
      <3>4. Sleepers(locks') = Sleepers(locks)
        BY <3>2 DEF Sleepers
      <3> QED BY <1>1, <1>2, <3>3, <3>4, ZenonT(30) DEF Abs!Acquire
    <2> QED BY <2>1, <2>2
  <1>3. ASSUME NEW t \in Task, LockResume(t) PROVE Abs!Next \/ UNCHANGED Abs!vars
    <2>1. PICK m \in Mutex : LockLoop(t, m) /\ sched.current = t
      BY <1>0, <1>3, ZenonT(30) DEF LockResume
    <2> QED BY <1>2, <2>1 DEF Abs!Next
  <1>4. ASSUME NEW t \in Task, NEW m \in Mutex, MutexLock(t, m)
        PROVE  Abs!Next \/ UNCHANGED Abs!vars
    <2>1. LockLoop(t, m) /\ sched.current = t
      BY <1>4 DEF MutexLock, Call, InUser
    <2> QED BY <1>2, <2>1 DEF Abs!Next
  <1>5. ASSUME NEW t \in Task, NEW m \in Mutex, MutexUnlock(t, m) PROVE Abs!Next
    <2>1. Unlocked(locks, m).cwait = locks.cwait
      BY <1>0, UnlockedFields, ZenonT(30)
    <2>2. /\ locks'.cwait = locks.cwait /\ holds' = [holds EXCEPT ![t] = @ \ {m}]
          /\ m \in holds[t] /\ sched.current = t
      BY <1>5, <2>1 DEF MutexUnlock, InUser
    <2>3. /\ Holder(holds)[m] = t
          /\ Holder(holds') = [Holder(holds) EXCEPT ![m] = NoTask]
      <3>1. /\ Holder(holds)[m] = t
            /\ Holder([holds EXCEPT ![t] = @ \ {m}]) = [Holder(holds) EXCEPT ![m] = NoTask]
        <4>1. m \in holds[t]
          BY <2>2
        <4> QED BY <1>a, <4>1, HolderGives, ZenonT(30)
      <3> QED BY <2>2, <3>1, ZenonT(30)
    <2>4. Sleepers(locks') = Sleepers(locks)
      BY <2>2, ZenonT(30) DEF Sleepers
    <2>5. Abs!Release(t, m)
      BY <1>1, <2>2, <2>3, <2>4, ZenonT(30) DEF Abs!Release
    <2> QED BY <2>5, ZenonT(30) DEF Abs!Next
  <1>6. ASSUME NEW t \in Task, NEW m \in Mutex, NEW c \in Cond, CondvarWait(t, c, m)
        PROVE  Abs!Next
    <2>1. /\ Parked(locks, c, m, t) \in LockState
          /\ Parked(locks, c, m, t).locked = [locks.locked EXCEPT ![m] = FALSE]
          /\ Parked(locks, c, m, t).mwait = [locks.mwait EXCEPT ![m] = <<>>]
          /\ Parked(locks, c, m, t).cwait = Pushed(locks.cwait, c, t)
      BY <1>0, ParkedFields, SMTT(30)
    <2>2. /\ locks' = Parked(locks, c, m, t) /\ holds' = [holds EXCEPT ![t] = @ \ {m}]
          /\ m \in holds[t] /\ sched.current = t
      BY <1>6 DEF CondvarWait, InUser
    <2>3. /\ Holder(holds)[m] = t
          /\ Holder(holds') = [Holder(holds) EXCEPT ![m] = NoTask]
      <3>1. /\ Holder(holds)[m] = t
            /\ Holder([holds EXCEPT ![t] = @ \ {m}]) = [Holder(holds) EXCEPT ![m] = NoTask]
        <4>1. m \in holds[t]
          BY <2>2, ZenonT(30)
        <4> QED BY <1>a, <4>1, HolderGives, ZenonT(30)
      <3> QED BY <2>2, <3>1
    <2>4. Sleepers(Parked(locks, c, m, t)) = [Sleepers(locks) EXCEPT ![c] = @ \cup {t}]
      BY <1>0, <2>1, SleepersPushed, SMTT(30)
    <2>5. Abs!Wait(t, c, m)
      BY <1>1, <2>2, <2>3, <2>4, ZenonT(30) DEF Abs!Wait
    <2> QED BY <2>5, ZenonT(30) DEF Abs!Next
  <1>7. ASSUME NEW t \in Task, NEW c \in Cond, CondvarNotifyAll(t, c) PROVE Abs!Next
    <2>1. locks' = Notified(locks, c) /\ holds' = holds
      BY <1>7 DEF CondvarNotifyAll
    <2>2. Sleepers(Notified(locks, c)) = [Sleepers(locks) EXCEPT ![c] = {}]
      BY <1>0, SleepersNotified, ZenonT(30)
    <2>3. Abs!NotifyAll(c)
      BY <2>1, <2>2 DEF Abs!NotifyAll
    <2> QED BY <2>3 DEF Abs!Next
  <1>8. CASE Tick
    BY <1>8 DEF Tick, Abs!vars
  <1>9. CASE UNCHANGED vars
    BY <1>9 DEF vars, Abs!vars
  <1> QED BY <1>3, <1>4, <1>5, <1>6, <1>7, <1>8, <1>9 DEF Next

\* RawMutex and RawCondvar, with their run queue, waiters lists and re-tested
\* loop, implement the monitor their users are promised.
THEOREM LocksImplementMonitor == Spec => ImplementsMonitor
  BY LocksConsistent, InitMaps, NextMaps, PTL DEF Spec, ImplementsMonitor, Abs!Spec
=============================================================================
