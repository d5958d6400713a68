----------------------------- MODULE FileTable ------------------------------
(***************************************************************************)
(* ProcData, the descriptor table and working directory of one process     *)
(* (modules/vfs/src/lib.rs).  nodes[i] is the Option of a FileDescriptor,  *)
(* a set of at most one; files is the index that the next open will use.   *)
(***************************************************************************)
EXTENDS Integers, FiniteSets

CONSTANT NumNodes     \* the length of ProcData.nodes: 16

ASSUME NumNodesAssumption == NumNodes \in Nat /\ NumNodes > 3

Slots == 0..(NumNodes - 1)

Descriptor(node) == [node |-> node, offset |-> 0]

-----------------------------------------------------------------------------
(* Mutants.                                                                *)

\* The offset is overwritten with the length read.
AdvancedSets(d, fd, v) ==
  [d EXCEPT !.nodes[fd] =
     {[node |-> x.node, offset |-> v] : x \in d.nodes[fd]}]

-----------------------------------------------------------------------------

\* ProcData::new, with the node that /dev/tty.serial opened.
NewTable(cwd, stdio) ==
  [nodes |-> [i \in Slots |-> IF i < 3 THEN {Descriptor(stdio)} ELSE {}],
   cwd   |-> cwd,
   files |-> 3]

\* nodes[fd] panics: the index is out of bounds.
OutOfBounds(fd) == fd >= NumNodes

\* The end of Open: the slot files is assigned whatever it holds.
Opened(d, node) ==
  [nodes |-> [d.nodes EXCEPT ![d.files] = {Descriptor(node)}],
   cwd   |-> d.cwd,
   files |-> d.files + 1]

\* Close
Closed(d, fd) ==
  IF fd < 3 \/ d.nodes[fd] = {} THEN d
  ELSE [d EXCEPT !.nodes[fd] = {}, !.files = @ - 1]

\* The end of Read and Write: the descriptor is looked up again.
Advanced(d, fd, v) ==
  [d EXCEPT !.nodes[fd] =
     {[node |-> x.node, offset |-> x.offset + v] : x \in d.nodes[fd]}]

OpenSlots(d) == {i \in Slots : d.nodes[i] # {}}
=============================================================================
