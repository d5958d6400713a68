------------------------------ MODULE Monitors ------------------------------
(***************************************************************************)
(* Tasks that use the kernel's mutexes and condition variables through     *)
(* libs/sync (each call is an svc to the pm module), preempted by the      *)
(* timer between two calls.  A guard discipline is what libs/sync gives:   *)
(* a task unlocks and waits only with a mutex it holds, and does not lock  *)
(* a mutex it holds already.  At most Nesting mutexes are held at once.    *)
(*                                                                         *)
(* Each task makes at most MaxCalls lock and notify calls, a bound on the  *)
(* programs and not on the kernel: without it a task that locks again and  *)
(* again can starve a waiter, since unlock does not hand the mutex over.   *)
(***************************************************************************)
EXTENDS LockOps, SpawnedTasks

CONSTANTS MaxCalls, Nesting

ASSUME BoundAssumption == MaxCalls \in Nat /\ Nesting \in Nat

VARIABLES sched,   \* the scheduler
          locks,   \* the mutexes and condvars
          want,    \* want[t]: {} in user code with interrupts on, else the
                   \* mutex whose lock() loop t is in, interrupts masked
          holds,   \* the mutexes whose lock() returned to t
          calls    \* how many calls t has made

vars == <<sched, locks, want, holds, calls>>

Init ==
  /\ sched = Started
  /\ locks = FreshLocks
  /\ want  = [t \in Task |-> {}]
  /\ holds = [t \in Task |-> {}]
  /\ calls = [t \in Task |-> 0]

InUser(t) == sched.current = t /\ ~sched.panic /\ want[t] = {}

Call(t) ==
  /\ InUser(t) /\ t # Idle
  /\ calls[t] < MaxCalls
  /\ calls' = [calls EXCEPT ![t] = @ + 1]

-----------------------------------------------------------------------------
(* Mutants.                                                                *)

\* `if` instead of `while` in RawMutex::lock: the woken task does not test
\* is_locked again.
LockLoopOnce(t, m) ==
  IF locks.locked[m] /\ want[t] = {}
  THEN /\ locks' = Queued(locks, m, t)
       /\ sched' = Sleep(sched)
       /\ want'  = [want EXCEPT ![t] = {m}]
       /\ UNCHANGED holds
  ELSE /\ locks' = Acquired(locks, m)
       /\ want'  = [want EXCEPT ![t] = {}]
       /\ holds' = [holds EXCEPT ![t] = @ \cup {m}]
       /\ UNCHANGED sched

-----------------------------------------------------------------------------

\* One turn of the loop of RawMutex::lock.
LockLoop(t, m) ==
  IF locks.locked[m]
  THEN /\ locks' = Queued(locks, m, t)
       /\ sched' = Sleep(sched)
       /\ want'  = [want EXCEPT ![t] = {m}]
       /\ UNCHANGED holds
  ELSE /\ locks' = Acquired(locks, m)
       /\ want'  = [want EXCEPT ![t] = {}]
       /\ holds' = [holds EXCEPT ![t] = @ \cup {m}]
       /\ UNCHANGED sched

\* ProcRequest::MutexLock
MutexLock(t, m) ==
  /\ Call(t)
  /\ m \notin holds[t] /\ Cardinality(holds[t]) < Nesting
  /\ LockLoop(t, m)

\* A task that slept in lock(), or in wait() and goes on with lock(), is
\* scheduled again; interrupts are still masked.
LockResume(t) ==
  /\ sched.current = t /\ ~sched.panic
  /\ \E m \in want[t] : LockLoop(t, m)
  /\ UNCHANGED calls

\* ProcRequest::MutexUnlock
MutexUnlock(t, m) ==
  /\ InUser(t) /\ m \in holds[t]
  /\ sched' = WakeAll(sched, locks.mwait[m])
  /\ locks' = Unlocked(locks, m)
  /\ holds' = [holds EXCEPT ![t] = @ \ {m}]
  /\ UNCHANGED <<want, calls>>

\* ProcRequest::CondvarWait up to the point where the caller sleeps; its
\* last statement, lock.lock(), is LockResume.
CondvarWait(t, c, m) ==
  /\ InUser(t) /\ m \in holds[t]
  /\ sched' = Sleep(WakeAll(sched, locks.mwait[m]))
  /\ locks' = Parked(locks, c, m, t)
  /\ holds' = [holds EXCEPT ![t] = @ \ {m}]
  /\ want'  = [want EXCEPT ![t] = {m}]
  /\ UNCHANGED calls

\* ProcRequest::CondvarNotifyAll
CondvarNotifyAll(t, c) ==
  /\ Call(t)
  /\ sched' = WakeAll(sched, locks.cwait[c])
  /\ locks' = Notified(locks, c)
  /\ UNCHANGED <<want, holds>>

\* The timer interrupt, taken only while interrupts are enabled.
Tick ==
  /\ \E t \in Task : InUser(t)
  /\ sched' = TimerTick(sched)
  /\ UNCHANGED <<locks, want, holds, calls>>

Next ==
  \/ \E t \in Task :
       \/ LockResume(t)
       \/ \E m \in Mutex :
            \/ MutexLock(t, m)
            \/ MutexUnlock(t, m)
            \/ \E c \in Cond : CondvarWait(t, c, m)
       \/ \E c \in Cond : CondvarNotifyAll(t, c)
  \/ Tick

Spec == Init /\ [][Next]_vars

\* The timer keeps ticking; a masked section runs on once entered; and a
\* task that is given the processor again and again with a mutex held gets
\* on with its program and unlocks it (a slice is long against a step).
FairSpec ==
  /\ Spec
  /\ WF_vars(Tick)
  /\ \A t \in Task : WF_vars(LockResume(t))
  /\ \A t \in Task, m \in Mutex : SF_vars(MutexUnlock(t, m))

-----------------------------------------------------------------------------

TypeOK ==
  /\ sched \in SchedState
  /\ locks \in LockState
  /\ want  \in [Task -> SUBSET Mutex]
  /\ holds \in [Task -> SUBSET Mutex]
  /\ calls \in [Task -> 0..MaxCalls]

\* Two tasks are never inside the same mutex, and is_locked says exactly
\* whether one is: what RawMutex::lock and unlock are for.
MutualExclusion ==
  /\ \A t, u \in Task : t # u => holds[t] \cap holds[u] = {}
  /\ \A m \in Mutex : locks.locked[m] <=> \E t \in Task : m \in holds[t]

\* lock() returns, provided no two mutexes are nested: a task that sleeps
\* in a mutex's waiters list eventually holds the mutex.
LockReturns ==
  \A t \in Task, m \in Mutex :
    (t \in Range(locks.mwait[m])) ~> (m \in holds[t])

\* A wait() that has been notified returns with the mutex held.
NotifiedWaitReturns ==
  \A t \in Task, m \in Mutex :
    (m \in want[t] /\ sched.run[t] = "Ready") ~> (m \in holds[t])

\* Who is inside each mutex, and who sleeps in each condvar.
Holder(h) ==
  [m \in Mutex |-> IF \E t \in Task : m \in h[t]
                  THEN CHOOSE t \in Task : m \in h[t]
                  ELSE NoTask]

Sleepers(l) == [c \in Cond |-> Range(l.cwait[c])]

Abs == INSTANCE AbstractMonitor WITH holder <- Holder(holds), parked <- Sleepers(locks)

\* The locks implement the abstract monitor: a mutex has one holder, wait
\* releases and parks in one step, and a parked task stays out until it is
\* notified.
ImplementsMonitor == Abs!Spec

-----------------------------------------------------------------------------
(* The inductive invariant of MonitorsProofs.                              *)

\* Every task in a waiters list sleeps and will be found there by wake_up.
WaitersSleep == WaitersOK(sched, locks)

\* The idle task uses no lock, so it can always run.
IdleAwake ==
  /\ sched.run[Idle] \in {"Ready", "Running"}
  /\ want[Idle] = {} /\ holds[Idle] = {}

MonitorInv ==
  /\ TypeOK
  /\ SchedOK(sched) /\ sched.current \in Task
  /\ IdleAwake
  /\ WaitersSleep
  /\ MutualExclusion
=============================================================================
