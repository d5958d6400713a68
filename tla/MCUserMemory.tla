---------------------------- MODULE MCUserMemory ----------------------------
(* Two ranges of frames, neither of them a power of two long nor aligned.     *)
(* They hold two processes with one sbrk each, and not with two.              *)
EXTENDS UserMemory

MCFrames == <<[start |-> 1, end |-> 4], [start |-> 7, end |-> 31]>>

MCSymmetry == Permutations(Proc)
=============================================================================
