---------------------------- MODULE GuardedCalls ----------------------------
(***************************************************************************)
(* The kernel calls of SpinLocks, sorted by where they may be made: with   *)
(* interrupts enabled only those that mask them before their first lock,   *)
(* in a system call all of them.                                           *)
(***************************************************************************)
EXTENDS SpinLocks

MaskingCalls ==
  {FrameCall, MapCall} \cup {WakeCall(a) : a \in Allocation}
                       \cup {NotifyCall(a) : a \in Allocation}

KernelCalls == MaskingCalls \cup {TaskCall, HeapCall, HeapSlowCall}

ASSUME CallsAssumption == TaskCalls \subseteq MaskingCalls /\ SvcCalls \subseteq KernelCalls
=============================================================================
