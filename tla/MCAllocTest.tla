----------------------------- MODULE MCAllocTest ----------------------------
(* A test that runs as a kernel task, and allocates with interrupts enabled. *)
EXTENDS SpinLocks

AllocTest == {HeapCall, HeapSlowCall}
NoSvc == {}
=============================================================================
