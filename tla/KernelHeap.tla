----------------------------- MODULE KernelHeap -----------------------------
(***************************************************************************)
(* The kernel heap (sophon/src/memory/kernel/heap.rs): the free lists of   *)
(* cells (libs/memory/src/free_list_allocator.rs) over virtual pages (the  *)
(* buddy bitmap), frames (the physical page resource) and the kernel's     *)
(* page table (libs/memory/src/page_table/page_table.rs) that connects     *)
(* the two.                                                                *)
(*                                                                         *)
(* Addresses are counted in 4K pages, physical ones from 0 and virtual     *)
(* ones from the base of the heap.  A Size2M page is 2^Large of them; cell *)
(* classes below Large stand for the sizes under 1M, class Large for those *)
(* up to 2M.  The bytes of a cell, the flags of an entry and the TLB are   *)
(* left out.                                                               *)
(***************************************************************************)
EXTENDS PhysicalPageResource, BitMapOps

CONSTANTS
  Frames,       \* available_physical_memory: a sequence of ranges
  Large,        \* the class of Size2M, in 4K pages
  Region,       \* the class of Size1G, what one P2 table maps
  LargePages,   \* the lengths of large objects, in Size2M pages
  StackPages    \* KERNEL_STACK_PAGES + 1, the pages of a kernel stack

ASSUME KernelHeapAssumption ==
  /\ Large \in 1 .. Region /\ Region \in 1 .. LogUnits
  /\ Large \in Class
  /\ LargePages \subseteq Nat \ {0}
  /\ StackPages \in Nat \ {0}

VARIABLE heap

\* free    the cells of the virtual bitmap marked FREE
\* table   the free lists of frames
\* tables  the frames of the page tables: <<level, index>> -> frame
\* pages   the mapped pages: [page, sc, frame]
\* cells   the free lists of heap cells
\* objs    the live small objects: [cell, sc]
\* large   the live large objects: [start, n]
\* panic   "none", "oom" for a failed unwrap or assertion on exhaustion,
\*         "align" for the debug_assert of Page::new, "unmapped" for the unwrap
\*         of translate

CellClass == 0 .. (Large + 1)

\* The pages one table of level 1, 2 or 3 maps
Span(level) == CASE level = 1 -> 2^Large [] level = 2 -> 2^Region [] level = 3 -> 2^LogUnits

TableOf(level, page) == <<level, page \div Span(level)>>

Panic(h, why) == IF h.panic = "none" THEN [h EXCEPT !.panic = why] ELSE h

With(f, x, y) == [z \in DOMAIN f \cup {x} |-> IF z = x THEN y ELSE f[z]]
Without(f, x) == [z \in DOMAIN f \ {x} |-> f[z]]

-----------------------------------------------------------------------------
(* Page table *)

\* The tables a walk to a page of class sc goes through, below P4
Walk(sc) == IF sc = 0 THEN <<3, 2, 1>> ELSE <<3, 2>>

\* alloc_frame4k for a missing table
NewTable(h, t, r) ==
  IF r.cell = NoCell THEN Panic(h, "oom")
  ELSE [h EXCEPT !.table = r.table, !.tables = With(@, t, r.cell)]

\* map: every missing table on the way is a new 4K frame.
Map(h, page, sc, frame) ==
  LET step(g, level) ==
        IF TableOf(level, page) \in DOMAIN g.tables THEN g
        ELSE NewTable(g, TableOf(level, page), AllocateCell(g.table, 0))
  IN  [FoldLeft(step, h, Walk(sc)) EXCEPT
         !.pages = @ \cup {[page |-> page, sc |-> sc, frame |-> frame]}]

\* is_clear: nothing is mapped through the table
IsClear(h, t) == \A p \in h.pages : TableOf(t[1], p.page) # t

\* unmap::<S>: tables that become clear are released, from the lowest up, as
\* frames of size S; Page::new asserts that their address is aligned to S.
Unmap(h, p) ==
  LET release(g, level) ==
        LET t == TableOf(level, p.page)
            frame == g.tables[t]
        IN  IF ~IsClear(g, t) \/ g.panic # "none" THEN g
            ELSE IF frame % Size(p.sc) # 0 THEN Panic(g, "align")
            ELSE [g EXCEPT !.table = Push(@, frame, p.sc), !.tables = Without(@, t)]
  IN  FoldLeft(release, [h EXCEPT !.pages = @ \ {p}], Reverse(Walk(p.sc)))

-----------------------------------------------------------------------------
(* Pages backed by frames *)

\* One page of a range gets its frame.
Backed(h, page, sc, f) ==
  IF f.cell = NoCell THEN Panic(h, "oom")
  ELSE Map([h EXCEPT !.table = f.table], page, sc, f.cell)

\* acquire_pages::<S>: a virtual range, and a frame for each of its pages
BackedRange(h, sc, n, r) ==
  LET back(g, i) == Backed(g, r.unit + i * 2^sc, sc, AllocateCell(g.table, sc))
  IN  IF ~r.some THEN [start |-> 0, heap |-> Panic(h, "oom")]
      ELSE [start |-> r.unit,
            heap |-> FoldLeft(back, [h EXCEPT !.free = r.free], [i \in 1 .. n |-> i - 1])]

AcquirePages(h, sc, n) == BackedRange(h, sc, n, AcquireUnits(h.free, n * 2^sc))

\* Mutant of the next definition
ReleasePagesKeepsFrames(h, start, n) ==
  LET release(g, i) ==
        LET found == {q \in g.pages : q.page = start + i * 2^Large}
        IN  IF found = {} THEN Panic(g, "unmapped") ELSE Unmap(g, CHOOSE q \in found : TRUE)
  IN  FoldLeft(release, h, [i \in 1 .. n |-> i - 1])

\* release_pages::<Size2M>: each page is translated (an unwrap), unmapped and its
\* frame released.  The virtual range is not given back.
ReleasePages(h, start, n) ==
  LET freed(g, p) ==
        IF g.panic # "none" THEN g ELSE [g EXCEPT !.table = Push(@, p.frame, Large)]
      release(g, i) ==
        LET found == {q \in g.pages : q.page = start + i * 2^Large}
        IN  IF found = {} THEN Panic(g, "unmapped")
            ELSE LET p == CHOOSE q \in found : TRUE IN freed(Unmap(g, p), p)
  IN  FoldLeft(release, h, [i \in 1 .. n |-> i - 1])

-----------------------------------------------------------------------------
(* Free lists of cells *)

PushCell(h, sc, cell) == [h EXCEPT !.cells[sc] = <<cell>> \o @]

\* Mutant of the next definition but one
AllocCellAt(h, sc, Half(_, _)) ==
  LET from == {k \in sc .. Large + 1 : h.cells[k] # <<>>}
      cell == Head(h.cells[Min(from)])
  IN  IF from = {} THEN [some |-> FALSE]
      ELSE [some |-> TRUE, cell |-> cell,
            heap |-> [h EXCEPT !.cells =
              [k \in CellClass |->
                 IF k = Min(from) THEN Tail(@[k])
                 ELSE IF k \in sc .. Min(from) - 1 THEN <<Half(cell, k)>> \o @[k]
                 ELSE @[k]]]]
AllocCellKeepsFirst(h, sc) == AllocCellAt(h, sc, LAMBDA cell, k : cell)

\* alloc_cell: the first cell of the smallest class that has one; the second
\* half of every cell that is split goes to the class below.
AllocCell(h, sc) ==
  LET from == {k \in sc .. Large + 1 : h.cells[k] # <<>>}
      cell == Head(h.cells[Min(from)])
  IN  IF from = {} THEN [some |-> FALSE]
      ELSE [some |-> TRUE, cell |-> cell,
            heap |-> [h EXCEPT !.cells =
              [k \in CellClass |->
                 IF k = Min(from) THEN Tail(@[k])
                 ELSE IF k \in sc .. Min(from) - 1 THEN <<cell + 2^k>> \o @[k]
                 ELSE @[k]]]]

\* New pages are pushed as aligned cells, from the left.
Chopped(h, start, limit) ==
  LET size(c) == Min({limit - c, 2^Max({k \in CellClass : c % 2^k = 0})})
      cuts[c \in start .. limit] ==
        IF c = limit THEN <<>> ELSE <<c>> \o cuts[c + size(c)]
      push(g, c) == PushCell(g, Max({k \in CellClass : 2^k <= size(c)}), c)
  IN  FoldLeft(push, h, cuts[start])

\* alloc_cell_slow when no list has a cell: twice the pages the cell needs, and
\* one more attempt, which must succeed (assert "OutOfMemory").
MoreCells(h, sc) ==
  LET n == 2 * ((2^sc + 2^Large - 1) \div 2^Large)
      Expect(r, g) == IF r.some THEN r ELSE [cell |-> 0, heap |-> Panic(g, "oom")]
      Again(r) ==
        IF r.heap.panic # "none" THEN [cell |-> 0, heap |-> r.heap]
        ELSE Expect(AllocCell(Chopped(r.heap, r.start, r.start + n * 2^Large), sc), r.heap)
  IN  Again(AcquirePages(h, Large, n))

AllocCellSlow(h, sc) ==
  LET OrMore(r) == IF r.some THEN r ELSE MoreCells(h, sc)
  IN  OrMore(AllocCell(h, sc))

\* Mutant of the next definition
ReleaseLargePagesOneMore(h) ==
  LET give(g, c) == ReleasePages([g EXCEPT !.cells[c[1]] = Tail(@)], c[2], 2)
      listed(sc) == [i \in DOMAIN h.cells[sc] |-> <<sc, h.cells[sc][i]>>]
  IN  FoldLeft(give, h, listed(Large) \o listed(Large + 1))

\* release_large_pages: all free cells of Size2M and more go back.
ReleaseLargePages(h) ==
  LET give(g, c) == ReleasePages([g EXCEPT !.cells[c[1]] = Tail(@)], c[2], 2^(c[1] - Large))
      listed(sc) == [i \in DOMAIN h.cells[sc] |-> <<sc, h.cells[sc][i]>>]
  IN  FoldLeft(give, h, listed(Large) \o listed(Large + 1))

-----------------------------------------------------------------------------
(* The calls of the kernel *)

\* GlobalAlloc::alloc of an object of class sc, below 2M
Allocated(h, sc) ==
  LET Recorded(r) ==
        IF r.heap.panic # "none" THEN r.heap
        ELSE [r.heap EXCEPT !.objs = @ \cup {[cell |-> r.cell, sc |-> sc]}]
  IN  Recorded(AllocCellSlow(h, sc))

\* KernelStack::new: pages of 4K that are never released
Stacked(h) == AcquirePages(h, 0, StackPages).heap

\* The heap after boot: a stack and an object that live as long as the kernel
BootHeap ==
  Allocated(Stacked([free |-> InitialBitMap, table |-> Released(Frames),
                     tables |-> <<>>, pages |-> {}, cells |-> [sc \in CellClass |-> <<>>],
                     objs |-> {}, large |-> {}, panic |-> "none"]), 0)

BootObjs == BootHeap.objs

Init == heap = BootHeap

Alloc(sc) ==
  /\ heap.panic = "none"
  /\ heap' = Allocated(heap, sc)

\* GlobalAlloc::dealloc of a small object
Dealloc(o) ==
  /\ heap.panic = "none"
  /\ heap' = ReleaseLargePages(PushCell([heap EXCEPT !.objs = @ \ {o}], o.sc, o.cell))

\* alloc_large
LargeAllocated(r, n) ==
  IF r.heap.panic # "none" THEN r.heap
  ELSE [r.heap EXCEPT !.large = @ \cup {[start |-> r.start, n |-> n]}]

AllocLarge(n) ==
  /\ heap.panic = "none"
  /\ heap' = LargeAllocated(AcquirePages(heap, Large, n), n)

\* dealloc_large
DeallocLarge(l) ==
  /\ heap.panic = "none"
  /\ heap' = ReleasePages([heap EXCEPT !.large = @ \ {l}], l.start, l.n)

NewKernelStack ==
  /\ heap.panic = "none"
  /\ heap' = Stacked(heap)

Next ==
  \/ \E sc \in 0 .. Large : Alloc(sc)
  \/ \E o \in heap.objs \ BootObjs : Dealloc(o)
  \/ \E n \in LargePages : AllocLarge(n)
  \/ \E l \in heap.large : DeallocLarge(l)
  \/ NewKernelStack

Spec == Init /\ [][Next]_heap

-----------------------------------------------------------------------------

CellSet == UNION {{[cell |-> heap.cells[sc][i], sc |-> sc] : i \in DOMAIN heap.cells[sc]} :
                    sc \in CellClass}

Extent(c) == c.cell .. (c.cell + 2^c.sc - 1)
LargeExtent(l) == l.start .. (l.start + l.n * 2^Large - 1)
PageExtent(p) == p.page .. (p.page + 2^p.sc - 1)
FrameExtent(p) == p.frame .. (p.frame + 2^p.sc - 1)
MappedUnits == UNION {PageExtent(p) : p \in heap.pages}

Memory == UNION {r.start .. (r.end - 1) : r \in Range(Frames)}

Disjoint(S, Ext(_)) == \A x, y \in S : x # y => Ext(x) \cap Ext(y) = {}

\* Frames and cells are aligned to their size.
TypeOK ==
  /\ heap.free \subseteq SizeClasses \X Unit
  /\ heap.table \in [Class -> Seq(Memory)]
  /\ \A t \in DOMAIN heap.tables : t[1] \in 1 .. 3 /\ heap.tables[t] \in Memory
  /\ heap.pages \subseteq [page : Unit, sc : {0, Large}, frame : Memory]
  /\ heap.cells \in [CellClass -> Seq(Unit)]
  /\ \A c \in CellSet : c.cell % 2^c.sc = 0
  /\ \A p \in heap.pages : p.frame % 2^p.sc = 0
  /\ heap.objs \subseteq [cell : Unit, sc : 0 .. Large]
  /\ heap.large \subseteq [start : Unit, n : LargePages]
  /\ heap.panic \in {"none", "oom", "align", "unmapped"}

\* Nothing on the heap overlaps: live small objects, free cells and live large
\* objects are pairwise disjoint (alloc_cell splits, free pushes back).
ObjectsDisjoint ==
  /\ \A sc \in CellClass : IsInjective(heap.cells[sc])
  /\ heap.objs \cap CellSet = {}
  /\ Disjoint(heap.objs \cup CellSet, Extent)
  /\ Disjoint(heap.large, LargeExtent)
  /\ \A l \in heap.large : \A c \in heap.objs \cup CellSet : LargeExtent(l) \cap Extent(c) = {}

\* Every live object and every free cell is mapped: release_large_pages never
\* unmaps what is in use, and a free list is never threaded through a page that
\* was unmapped.  So translate(...).unwrap() in release_pages does not fail.
\* (Page::new in unmap is another matter: see FreedFramesAligned.)
HeapIsBacked ==
  /\ heap.panic # "unmapped"
  /\ heap.panic = "none" =>
       /\ \A c \in heap.objs \cup CellSet : Extent(c) \subseteq MappedUnits
       /\ \A l \in heap.large : LargeExtent(l) \subseteq MappedUnits

Users == {<<"page", p>> : p \in heap.pages} \cup
         {<<"table", t>> : t \in DOMAIN heap.tables} \cup
         UNION {{<<"free", <<sc, heap.table[sc][i]>>>> : i \in DOMAIN heap.table[sc]} : sc \in Class}

FramesOf(u) ==
  CASE u[1] = "page" -> FrameExtent(u[2])
    [] u[1] = "table" -> {heap.tables[u[2]]}
    [] u[1] = "free" -> CellFrames(u[2][2], u[2][1])

\* A frame has one use: it backs one heap page, or is one page table, or is free;
\* and no frame is lost (acquire_pages, map, unmap and release_pages together), as
\* long as the heap stays within one P2 table, which unmap then never releases.
FramesUsedOnce ==
  heap.panic = "none" =>
    /\ Disjoint(Users, FramesOf)
    /\ UNION {FramesOf(u) : u \in Users} = Memory

\* Page::new asserts that the frames unmap gives back are aligned to their size
\* (libs/memory/src/page.rs): releasing large objects never trips it.
FreedFramesAligned == heap.panic # "align"

\* No call changes the frame behind an object that stays alive: whatever is
\* allocated and freed meanwhile, the object keeps its contents.
LiveObjectsStay ==
  [][\A o \in heap.objs \cap heap'.objs :
       heap'.panic = "none" =>
         {p \in heap.pages : PageExtent(p) \cap Extent(o) # {}}
           = {p \in heap'.pages : PageExtent(p) \cap Extent(o) # {}}]_heap
=============================================================================
