------------------------ MODULE PhysicalPageResource ------------------------
(***************************************************************************)
(* The allocator of physical frames                                        *)
(* (sophon/src/memory/physical/physical_page_resource.rs) as functions on  *)
(* its table of free lists.  Addresses are counted in 4K frames, so the    *)
(* cells of size class sc are 2^sc frames long.  A free list is threaded   *)
(* through the free cells themselves and ends at address 0: a list is      *)
(* modelled by the sequence of cells met from its head.                    *)
(***************************************************************************)
EXTENDS Integers, Sequences, SequencesExt, FiniteSetsExt

CONSTANT MaxClass   \* NUM_SIZE_CLASS - 1, the class of the largest cell

ASSUME MaxClassAssumption == MaxClass \in Nat

Class == 0 .. MaxClass

Size(sc) == 2^sc

SizeClass(size) == Min({sc \in Class : Size(sc) >= size})

\* The frames of the cell of class sc at address a
CellFrames(a, sc) == a .. (a + Size(sc) - 1)

EmptyTable == [sc \in Class |-> <<>>]

NoCell == 0

-----------------------------------------------------------------------------
(* Mutants *)

TileClassUnaligned(start, size) ==
  IF size = Size(SizeClass(size)) THEN SizeClass(size) ELSE SizeClass(size) - 1

-----------------------------------------------------------------------------

\* Storing the cell at address 0 as the head is storing the end of the list.
Push(table, cell, sc) ==
  [table EXCEPT ![sc] = IF cell = 0 THEN <<>> ELSE <<cell>> \o @]

\* split_cell: the address of the second half, of class `child`
SecondHalf(unit, child) == unit + Size(child)

\* allocate_cell, its slow path included: the first cell of the smallest class
\* that has one, whose second halves go to the classes below, down to the
\* requested one.
AllocateCell(table, request) ==
  LET from == {sc \in request .. MaxClass : table[sc] # <<>>}
      unit == Head(table[Min(from)])
  IN  IF from = {} THEN [cell |-> NoCell, table |-> table]
      ELSE [cell |-> unit,
            table |-> [sc \in Class |->
              IF sc = Min(from) THEN Tail(table[sc])
              ELSE IF sc \in request .. Min(from) - 1
                   THEN <<SecondHalf(unit, sc)>> \o table[sc]
              ELSE table[sc]]]

\* The class of the next cell cut from `size` frames at `start`: no larger than
\* what is left and than the alignment of start.
TileClass(start, size) ==
  LET fits == IF size = Size(SizeClass(size)) THEN SizeClass(size)
              ELSE SizeClass(size) - 1
  IN  Max({sc \in 0 .. fits : start % Size(sc) = 0})

ReleaseContiguous(table, start, limit) ==
  LET release[s \in start .. limit, t \in [Class -> Seq(Nat)]] ==
        IF s = limit THEN t
        ELSE LET sc == TileClass(s, limit - s)
             IN  release[s + Size(sc), Push(t, s, sc)]
  IN  release[start, table]

\* init: `frames` is the sequence of ranges [start, end) the boot loader found.
Released(frames) ==
  FoldLeft(LAMBDA table, r : ReleaseContiguous(table, r.start, r.end),
           EmptyTable, frames)
=============================================================================
