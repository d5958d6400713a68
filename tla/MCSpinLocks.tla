----------------------------- MODULE MCSpinLocks ----------------------------
(* What kernel tasks call with interrupts enabled, and inside system calls. *)
EXTENDS GuardedCalls

\* Calls that mask interrupts before they take their first lock.
MaskedCalls == {FrameCall, MapCall, NotifyCall(HeapSlowCall)}
AllSvc == {HeapSlowCall, NotifyCall(HeapCall)}
=============================================================================
