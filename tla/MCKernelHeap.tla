---------------------------- MODULE MCKernelHeap ----------------------------
(* Instances of the kernel heap: 2M is two 4K pages, 4M four. *)
EXTENDS KernelHeap

MCFrames == <<[start |-> 1, end |-> 12]>>
MoreFrames == <<[start |-> 1, end |-> 16]>>
MCLargePages == {1, 2}
=============================================================================
