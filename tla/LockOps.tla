------------------------------ MODULE LockOps -------------------------------
(***************************************************************************)
(* RawMutex and RawCondvar (modules/pm/src/locks.rs) as functions on the   *)
(* scheduler state and on a lock state l:                                  *)
(*   l.locked[m]  RawMutex.is_locked                                       *)
(*   l.mwait[m]   RawMutex.waiters                                         *)
(*   l.cwait[c]   RawCondvar.waiters                                       *)
(*                                                                         *)
(* Each function holds interrupt::uninterruptible from its first statement *)
(* to its last, and runs on the only core.  The one place where another    *)
(* task can get in is syscall::wait(), a nested svc that puts the caller   *)
(* to sleep; the code after it runs when the task is scheduled again, with *)
(* interrupts still masked (the svc saved them masked).                    *)
(***************************************************************************)
EXTENDS SchedulerOps

CONSTANTS Mutex, Cond

LockState ==
  [locked : [Mutex -> BOOLEAN],
   mwait  : [Mutex -> Seq(Task)],
   cwait  : [Cond -> Seq(Task)]]

\* RawMutex::new and RawCondvar::new for every lock of the model.
FreshLocks ==
  [locked |-> [m \in Mutex |-> FALSE],
   mwait  |-> [m \in Mutex |-> <<>>],
   cwait  |-> [c \in Cond |-> <<>>]]

-----------------------------------------------------------------------------
(* Mutants.                                                                *)

WakeFirst(s, w) == IF w = <<>> THEN s ELSE WakeUp(s, Head(w))

UnlockedKeepsLock(l, m) == [l EXCEPT !.mwait[m] = <<>>]

NotifiedKeepsWaiters(l, c) == l

AcquiredNotSet(l, m) == l

-----------------------------------------------------------------------------

\* The loop `for t in &*waiters { wake_up(*t) }`.  Its effect is one
\* concatenation when the waiters are distinct and asleep, which they always
\* are (WaitersOK, below); otherwise it is the loop itself.
WakeAll(s, w) ==
  IF IsInjective(w) /\ \A i \in DOMAIN w : s.run[w[i]] = "Sleeping"
  THEN [s EXCEPT !.run   = [t \in Task |-> IF t \in Range(w) THEN "Ready" ELSE @[t]],
                 !.queue = @ \o w]
  ELSE LET woken[i \in 0..Len(w)] == IF i = 0 THEN s ELSE WakeUp(woken[i - 1], w[i])
       IN  woken[Len(w)]

\* lock: fetch_or found false.
Acquired(l, m) == [l EXCEPT !.locked[m] = TRUE]

\* lock: fetch_or found true, the task is pushed and will sleep.
Queued(l, m, t) == [l EXCEPT !.mwait[m] = Append(@, t)]

\* unlock, on the mutex; WakeAll(s, l.mwait[m]) is its effect on the tasks.
Unlocked(l, m) == [l EXCEPT !.locked[m] = FALSE, !.mwait[m] = <<>>]

\* Condvar wait up to its syscall::wait(): unlock, then push.
Parked(l, c, m, t) ==
  [l EXCEPT !.locked[m] = FALSE,
            !.mwait[m]  = <<>>,
            !.cwait[c]  = Append(@, t)]

\* notify_all, on the condvar; WakeAll(s, l.cwait[c]) is the rest.
Notified(l, c) == [l EXCEPT !.cwait[c] = <<>>]

-----------------------------------------------------------------------------

\* On a family w of waiters lists: every entry sleeps, and no task is entered
\* twice; and on two families: no task is in both.
AllAsleep(s, w) == \A x \in DOMAIN w : \A i \in 1..Len(w[x]) : s.run[w[x][i]] = "Sleeping"

Once(w) ==
  \A x, y \in DOMAIN w : \A i \in 1..Len(w[x]), j \in 1..Len(w[y]) :
    w[x][i] = w[y][j] => x = y /\ i = j

Apart(w, v) ==
  \A x \in DOMAIN w, y \in DOMAIN v : \A i \in 1..Len(w[x]), j \in 1..Len(v[y]) :
    w[x][i] # v[y][j]

\* A task is in at most one waiters list, once, and only while it sleeps:
\* what lets wake_up find every waiter asleep and lose none.
WaitersOK(s, l) ==
  /\ AllAsleep(s, l.mwait) /\ AllAsleep(s, l.cwait)
  /\ Once(l.mwait) /\ Once(l.cwait)
  /\ Apart(l.mwait, l.cwait)
=============================================================================
