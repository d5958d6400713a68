-------------------------- MODULE AbstractMonitor ---------------------------
(***************************************************************************)
(* What the locks of libs/sync promise to their users, with no scheduler,  *)
(* no run queue and no waiters lists: a mutex has at most one holder, and  *)
(* Condvar::wait gives the mutex up and parks the caller in one step; a    *)
(* parked task takes no mutex until a notify_all has released it.          *)
(***************************************************************************)
CONSTANTS Task, NoTask, Mutex, Cond

VARIABLES holder,   \* who is inside the mutex, or NoTask
          parked    \* the tasks inside Condvar::wait and not yet notified

vars == <<holder, parked>>

Init ==
  /\ holder = [m \in Mutex |-> NoTask]
  /\ parked = [c \in Cond |-> {}]

Free(t) == \A c \in Cond : t \notin parked[c]

Acquire(t, m) ==
  /\ holder[m] = NoTask /\ Free(t)
  /\ holder' = [holder EXCEPT ![m] = t]
  /\ UNCHANGED parked

Release(t, m) ==
  /\ holder[m] = t /\ Free(t)
  /\ holder' = [holder EXCEPT ![m] = NoTask]
  /\ UNCHANGED parked

Wait(t, c, m) ==
  /\ holder[m] = t /\ Free(t)
  /\ holder' = [holder EXCEPT ![m] = NoTask]
  /\ parked' = [parked EXCEPT ![c] = @ \cup {t}]

NotifyAll(c) ==
  /\ parked' = [parked EXCEPT ![c] = {}]
  /\ UNCHANGED holder

Next ==
  \/ \E t \in Task, m \in Mutex :
       Acquire(t, m) \/ Release(t, m) \/ (\E c \in Cond : Wait(t, c, m))
  \/ \E c \in Cond : NotifyAll(c)

Spec == Init /\ [][Next]_vars
=============================================================================
