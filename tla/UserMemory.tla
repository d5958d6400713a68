----------------------------- MODULE UserMemory -----------------------------
(***************************************************************************)
(* The memory of user processes: UserTask::run builds the page table, the  *)
(* program and the stack (sophon/src/task/runnables.rs), sbrk grows the    *)
(* heap (sophon/src/memory/utils.rs), and the kernel takes and returns     *)
(* frames meanwhile.  All of it shares one allocator of frames.            *)
(*                                                                         *)
(* run is a kernel task with interrupts enabled: another task gets in      *)
(* between taking a frame and mapping it.  acquire, release and map mask   *)
(* interrupts and switch to the kernel's page table (enable_temporarily),  *)
(* so each is one step; a system call is one step as a whole.              *)
(*                                                                         *)
(* Pages and frames are counted in 4K.  A table has an entry for each      *)
(* index; an entry is the frame it points to, or Empty.  User memory has   *)
(* no block entries.  Flags, TLB and contents of pages are left out.       *)
(***************************************************************************)
EXTENDS PhysicalPageResource, Steps

CONSTANTS
  Frames,        \* available_physical_memory: a sequence of ranges
  Proc,          \* the processes that are ever spawned
  Fan,           \* the entries of a table below P4 that are in use (512)
  KernelIndex,   \* the P4 index of KERNEL_MEMORY_RANGE
  ElfBase, ElfPages,
  StackStart, StackPages,
  HeapStart,     \* USER_SPACE_MEMORY_RANGE.start
  MaxSbrk,       \* bound on the calls of sbrk of a process
  HeldClass,     \* the classes of frames the kernel takes for itself
  MaxTaken       \* bound on the number of times it does

VARIABLES
  free,    \* the free lists of frames
  mem,     \* the page tables: frame -> index -> entry
  mm,      \* process -> its MMState: page table pt and highwater top
  task,    \* process -> where its main thread is, see Step
  held,    \* the frames of the kernel, as [cell, sc]
  taken,   \* how many times the kernel took one
  fault    \* NoFault, or why the kernel panicked or aborted

vars == <<free, mem, mm, task, held, taken, fault>>

Memory == UNION {r.start .. (r.end - 1) : r \in Range(Frames)}

\* Size2M, in 4K pages
Large == Fan

ASSUME UserMemoryAssumption ==
  /\ 0 \notin Memory
  /\ Fan \in Nat \ {0, 1} /\ KernelIndex >= Fan - 1
  /\ HeapStart % Large = 0

Empty      == 0
KernelRoot == -1     \* the frame of the kernel's page table
KernelP3   == -2     \* and of the P3 table of the kernel's memory
Index      == 0 .. KernelIndex

\* The unwrap of an acquire that found no cell of class sc or above; every other
\* fault has only its cause.
OutOfMemory(sc) == [why |-> "oom", sc |-> sc]
Fault(why)      == [why |-> why, sc |-> 0]
NoFault         == Fault("none")

Init ==
  /\ free = Released(Frames)
  /\ mem = [f \in {KernelRoot} |-> [i \in Index |-> IF i = KernelIndex THEN KernelP3 ELSE Empty]]
  /\ mm = [p \in Proc |-> [pt |-> KernelRoot, top |-> HeapStart]]
  /\ task = [p \in Proc |-> [pc |-> "none", i |-> 0, frame |-> Empty,
                             ttbr |-> KernelRoot, calls |-> 0]]
  /\ held = {}
  /\ taken = 0
  /\ fault = NoFault

-----------------------------------------------------------------------------
(* Page tables.                                                            *)

GetIndex(level, page) ==
  IF level = 4 THEN page \div Fan^3 ELSE (page \div Fan^(level - 1)) % Fan

EmptyTableFrame == [i \in Index |-> Empty]

\* alloc_frame4k for the missing table at index i of table g.at; g is the free
\* lists, the tables, the table that the walk has reached and the fault.
NewTable(g, i, r) ==
  IF r.cell = NoCell THEN [g EXCEPT !.fault = OutOfMemory(0)]
  ELSE [free  |-> r.table,
        mem   |-> (r.cell :> EmptyTableFrame) @@ [g.mem EXCEPT ![g.at][i] = r.cell],
        at    |-> r.cell,
        fault |-> g.fault]

\* One level of the walk of map
Descend(g, i) ==
  IF g.fault # NoFault THEN g
  ELSE IF g.mem[g.at][i] = Empty
  THEN Then(AllocateCell(g.free, 0), LAMBDA r : NewTable(g, i, r))
  ELSE [g EXCEPT !.at = g.mem[g.at][i]]

\* The walk of map down to the P1 table of the page
Walked(s, root, page) ==
  FoldLeft(LAMBDA g, level : Then(g, LAMBDA h : Descend(h, GetIndex(level, page))),
           [free |-> s.free, mem |-> s.mem, at |-> root, fault |-> s.fault],
           <<4, 3, 2>>)

EntrySet(g, page, frame) ==
  IF g.fault # NoFault THEN g
  ELSE [g EXCEPT !.mem = [@ EXCEPT ![g.at][GetIndex(1, page)] = frame]]

\* map::<Size4K>
Map(s, root, page, frame) ==
  Then(Walked(s, root, page), LAMBDA g : EntrySet(g, page, frame))

\* translate
Translate(root, page) ==
  LET down(f, level) == IF f = Empty THEN Empty ELSE mem[f][GetIndex(level, page)]
  IN  FoldLeft(down, root, <<4, 3, 2, 1>>)

\* Mutant: the table itself is not released.
ReleaseUserPageTableKeepsTables(root) ==
  LET entries(f, level) ==
        {i \in Index : mem[f][i] # Empty /\ ~(level = 4 /\ i >= KernelIndex)}
      walk[level \in 1 .. 4, f \in DOMAIN mem] ==
        FoldLeft(LAMBDA out, i :
                   out \o (IF level = 1 THEN <<mem[f][i]>> ELSE walk[level - 1, mem[f][i]]),
                 <<>>, SetToSortSeq(entries(f, level), <))
  IN  walk[4, root]

\* release_user_page_table: the frames it releases, in order.
ReleaseUserPageTable(root) ==
  LET entries(f, level) ==
        {i \in Index : mem[f][i] # Empty /\ ~(level = 4 /\ i >= KernelIndex)}
      walk[level \in 1 .. 4, f \in DOMAIN mem] ==
        Append(
          FoldLeft(LAMBDA out, i :
                     out \o (IF level = 1 THEN <<mem[f][i]>> ELSE walk[level - 1, mem[f][i]]),
                   <<>>, SetToSortSeq(entries(f, level), <)),
          f)
  IN  walk[4, root]

-----------------------------------------------------------------------------
(* UserTask::run                                                           *)

At(p, pc) == fault = NoFault /\ task[p].pc = pc

\* PROCESS_MANAGER.spawn: MMState::new takes the kernel's page table.
Spawn(p) ==
  /\ At(p, "none")
  /\ mm' = [mm EXCEPT ![p] = [pt |-> KernelRoot, top |-> HeapStart]]
  /\ task' = [task EXCEPT ![p].pc = "root", ![p].ttbr = KernelRoot]
  /\ UNCHANGED <<free, mem, held, taken, fault>>

\* The thread is interrupted; return_to_user loads the page table of its
\* process when it runs again.
Switched(p) ==
  /\ At(p, "set") \/ At(p, "activate")
  /\ task[p].ttbr # mm[p].pt
  /\ task' = [task EXCEPT ![p].ttbr = mm[p].pt]
  /\ UNCHANGED <<free, mem, mm, held, taken, fault>>

\* PHYSICAL_MEMORY.acquire::<Size4K>().unwrap(), for the P4 table and for the
\* pages of the program and of the stack.
Acquire(p) ==
  LET r == AllocateCell(free, 0)
  IN  /\ \/ At(p, "root")
         \/ At(p, "elf") /\ task[p].i < ElfPages
         \/ At(p, "stack") /\ task[p].i < StackPages
      /\ task[p].frame = Empty
      /\ IF r.cell = NoCell
         THEN fault' = OutOfMemory(0) /\ UNCHANGED <<free, task>>
         ELSE /\ free' = r.table
              /\ task' = [task EXCEPT ![p].frame = r.cell,
                                      ![p].pc = IF @ = "root" THEN "set" ELSE @]
              /\ UNCHANGED fault
      /\ UNCHANGED <<mem, mm, held, taken>>

\* Mutant: PageTable::set comes before the new table is filled in.
SetPageTableEarly(p) ==
  /\ At(p, "set")
  /\ mem' = (task[p].frame :> EmptyTableFrame) @@ mem
  /\ mm' = [mm EXCEPT ![p].pt = task[p].frame]
  /\ task' = [task EXCEPT ![p].pc = "activate", ![p].frame = Empty]
  /\ UNCHANGED <<free, held, taken, fault>>

\* The frame is zeroed, the kernel's entry copied from the table in use, and
\* the table becomes that of the process.  The frame is written at its
\* physical address, which only the kernel's page table maps.
SetPageTable(p) ==
  /\ At(p, "set")
  /\ IF task[p].ttbr # KernelRoot
     THEN fault' = Fault("access") /\ UNCHANGED <<mem, mm, task>>
     ELSE /\ mem' = (task[p].frame :>
                       [EmptyTableFrame EXCEPT ![KernelIndex] = mem[task[p].ttbr][KernelIndex]])
                    @@ mem
          /\ mm' = [mm EXCEPT ![p].pt = task[p].frame]
          /\ task' = [task EXCEPT ![p].pc = "activate", ![p].frame = Empty]
          /\ UNCHANGED fault
  /\ UNCHANGED <<free, held, taken>>

\* PageTable::set(page_table)
Activate(p) ==
  /\ At(p, "activate")
  /\ task' = [task EXCEPT ![p].pc = "elf", ![p].ttbr = mm[p].pt]
  /\ UNCHANGED <<free, mem, mm, held, taken, fault>>

\* page_table.map of the frame that Acquire took
MapPage(p) ==
  /\ At(p, "elf") \/ At(p, "stack")
  /\ task[p].frame # Empty
  /\ LET page == (IF task[p].pc = "elf" THEN ElfBase ELSE StackStart) + task[p].i
     IN  \E g \in {Map([free |-> free, mem |-> mem, fault |-> fault],
                      mm[p].pt, page, task[p].frame)} :
           /\ free' = g.free
           /\ mem' = g.mem
           /\ fault' = g.fault
  /\ task' = [task EXCEPT ![p].frame = Empty, ![p].i = @ + 1]
  /\ UNCHANGED <<mm, held, taken>>

Mapped(p, start, n) == \A page \in start .. start + n - 1 : Translate(mm[p].pt, page) # Empty

\* The loader has all pages and copies the program into them.
Loaded(p) ==
  /\ At(p, "elf") /\ task[p].i = ElfPages
  /\ fault' = IF task[p].ttbr = mm[p].pt /\ Mapped(p, ElfBase, ElfPages) THEN fault
              ELSE Fault("access")
  /\ task' = [task EXCEPT ![p].pc = "stack", ![p].i = 0]
  /\ UNCHANGED <<free, mem, mm, held, taken>>

\* The arguments are copied to the stack; enter_usermode.
EnterUsermode(p) ==
  /\ At(p, "stack") /\ task[p].i = StackPages
  /\ fault' = IF task[p].ttbr = mm[p].pt /\ Mapped(p, StackStart, StackPages) THEN fault
              ELSE Fault("access")
  /\ task' = [task EXCEPT ![p].pc = "user", ![p].i = 0, ![p].ttbr = mm[p].pt]
  /\ UNCHANGED <<free, mem, mm, held, taken>>

-----------------------------------------------------------------------------
(* Running processes.                                                      *)

\* Mutant: the highwater stays one page below the last page that is mapped.
TopAfterShort(top, n) == top + n - 1

\* The new highwater: n pages above the old one, which fetch_update aligns.
TopAfter(top, n) == top + n

\* One page of sbrk: a frame, and its mapping
SbrkPage(g, root, page) ==
  IF g.fault # NoFault THEN g
  ELSE Then(AllocateCell(g.free, 0),
            LAMBDA r : IF r.cell = NoCell THEN [g EXCEPT !.fault = OutOfMemory(0)]
                       ELSE Map([free |-> r.table, mem |-> g.mem, fault |-> NoFault],
                                root, page, r.cell))

\* The loop of sbrk over the pages from start to start + n
SbrkPages(root, start, n) ==
  FoldLeft(LAMBDA g, page : Then(g, LAMBDA h : SbrkPage(h, root, page)),
           [free |-> free, mem |-> mem, fault |-> NoFault],
           [i \in 1 .. n |-> start + i - 1])

\* Syscall::Sbrk.  FreeListAllocator asks UserPageResource for an even number
\* 2k of Size2M pages, and acquire_pages asserts that what it gets is aligned.
Sbrk(p, k) ==
  LET n == 2 * k * Large
      top == mm[p].top
  IN  /\ At(p, "user")
      /\ task[p].calls < MaxSbrk
      /\ \E g \in {SbrkPages(mm[p].pt, top, n)} :
           /\ free' = g.free
           /\ mem' = g.mem
           /\ fault' = IF g.fault # NoFault THEN g.fault
                       ELSE IF top % Large # 0 THEN Fault("unaligned") ELSE NoFault
      /\ mm' = [mm EXCEPT ![p].top = TopAfter(top, n)]
      /\ task' = [task EXCEPT ![p].calls = @ + 1]
      /\ UNCHANGED <<held, taken>>

\* Syscall::Exit.  The page table stays: run holds a reference to the process
\* that enter_usermode never lets it drop, so the MMState is not dropped.
Exit(p) ==
  /\ At(p, "user")
  /\ task' = [task EXCEPT ![p].pc = "gone"]
  /\ UNCHANGED <<free, mem, mm, held, taken, fault>>

\* The kernel takes a frame for its heap, its stacks or its tables, and stops
\* when there is none of that size: acquire_pages unwraps it.  Frames are
\* released with the size they were taken with.
KernelAcquire(sc) ==
  LET r == AllocateCell(free, sc)
  IN  /\ fault = NoFault
      /\ taken < MaxTaken
      /\ taken' = taken + 1
      /\ IF r.cell = NoCell
         THEN fault' = OutOfMemory(sc) /\ UNCHANGED <<free, held>>
         ELSE /\ free' = r.table
              /\ held' = held \cup {[cell |-> r.cell, sc |-> sc]}
              /\ UNCHANGED fault
      /\ UNCHANGED <<mem, mm, task>>

KernelRelease(f) ==
  /\ fault = NoFault
  /\ free' = Push(free, f.cell, f.sc)
  /\ held' = held \ {f}
  /\ UNCHANGED <<mem, mm, task, taken, fault>>

Run(p) ==
  \/ Acquire(p)
  \/ SetPageTable(p)
  \/ Activate(p)
  \/ MapPage(p)
  \/ Loaded(p)
  \/ EnterUsermode(p)

Next ==
  \/ \E p \in Proc : Spawn(p) \/ Switched(p) \/ Run(p) \/ Sbrk(p, 1) \/ Exit(p)
  \/ \E sc \in HeldClass : KernelAcquire(sc)
  \/ \E f \in held : KernelRelease(f)

Spec == Init /\ [][Next]_vars

-----------------------------------------------------------------------------
(* Properties.                                                             *)

FreeCells == UNION {{[cell |-> c, sc |-> sc] : c \in Range(free[sc])} : sc \in Class}

Cells == FreeCells \cup held

\* What dropping the MMState of p would release, and the frame that its thread
\* has taken and not mapped yet.
FramesOf(p) ==
  (IF mm[p].pt = KernelRoot THEN <<>> ELSE ReleaseUserPageTable(mm[p].pt))
    \o (IF task[p].frame = Empty THEN <<>> ELSE <<task[p].frame>>)

\* Each frame has one place: a free list, the kernel, or one process, where
\* release_user_page_table meets it exactly once and meets nothing else.
\* However tasks interleave, no frame is lost by mapping over it, handed out
\* twice, or shared with the kernel's tables.  (The parts are all of the memory,
\* and their lengths add up to its size.)
EachFrameOnce ==
  fault = NoFault =>
    LET users == FoldFunction(LAMBDA x, y : x \o y, <<>>, [p \in Proc |-> FramesOf(p)])
        cells == UNION {CellFrames(c.cell, c.sc) : c \in Cells}
        sizes == MapThenSumSet(LAMBDA sc : Len(free[sc]) * Size(sc), Class)
                 + MapThenSumSet(LAMBDA c : Size(c.sc), held)
    IN  \E u \in {users} :
          /\ cells \cup Range(u) = Memory
          /\ sizes + Len(u) = Cardinality(Memory)

\* Every cell is aligned to its size: Frame::new asserts it for each frame that
\* acquire returns, and a block entry of a page table needs it.
CellsAligned == \A c \in Cells : c.cell % Size(c.sc) = 0

\* A process in user mode has its program, its stack and its heap up to the
\* highwater mapped, and the kernel's memory through the kernel's own table,
\* so that an exception taken there finds the kernel.
UserMemoryMapped ==
  fault = NoFault =>
    \A p \in Proc : task[p].pc = "user" =>
      /\ Mapped(p, ElfBase, ElfPages)
      /\ Mapped(p, StackStart, StackPages)
      /\ Mapped(p, HeapStart, mm[p].top - HeapStart)
      /\ mem[mm[p].pt][KernelIndex] = mem[KernelRoot][KernelIndex]
      /\ task[p].ttbr = mm[p].pt

\* Nothing panics but for want of memory: frames are written only where the
\* kernel's page table maps them, the program and the arguments are copied to
\* mapped pages, and the heap gets aligned memory (the assertions of sbrk and of
\* acquire_pages).  A request is refused only when no cell of its size or above
\* is free, however the tasks got there.  So a process, which takes 4K frames,
\* fails with no free frame left at all; the kernel's heap, which takes 2M frames,
\* may fail while smaller cells are free, for they are not merged.
OnlyExhaustionPanics ==
  \/ fault = NoFault
  \/ fault.why = "oom" /\ \A c \in FreeCells : c.sc < fault.sc
=============================================================================
