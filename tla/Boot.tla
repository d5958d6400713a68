-------------------------------- MODULE Boot --------------------------------
(***************************************************************************)
(* From the firmware to the first task: the UEFI loader builds the page    *)
(* table, reads the files, loads the kernel and gathers the boot           *)
(* information (boot/uefi/src/main.rs); the kernel takes over the memory,  *)
(* loads its modules one after the other and schedules                     *)
(* (sophon/src/main.rs).                                                   *)
(*                                                                         *)
(* One processor runs all of it.  What differs from one boot to another    *)
(* comes from the firmware and the disk: the memory map, the frames that   *)
(* allocate_pages chooses, the kernel's file, the device tree and the      *)
(* build.  Frame f holds the words f * PageWords onwards.                  *)
(***************************************************************************)
EXTENDS ElfLoader, ModuleRegistry

CONSTANTS
  MemoryMaps,    \* the memory maps of the firmware: frame -> MemoryType
  Policies,      \* how it chooses a frame, see Pick
  Kernels,       \* the files "sophon" on the disk, parsed
  InitFs,        \* the file "init.fs": a sequence of words
  DtbFile,       \* the file that the command line names: a sequence of words
  Trees,         \* device trees, each with what it describes: see DevicesFound
  DtbSources,    \* where read_dtb finds the device tree
  Fan,           \* the entries of a page table (512)
  Giga,          \* Size1G, in frames
  MapBuffer,     \* the descriptors that a buffer of 4096 bytes holds (85)
  KernelBase,    \* the page of 0xff0000000000
  UartPage,      \* the page of 0xdead_0000_0000
  KernelTests,   \* the number of #[test] functions of the kernel itself
  Chunk          \* the buffer of read_file, in words

VARIABLES
  pc,        \* the step that comes next
  input,     \* the firmware, disk and build of this boot
  loader,    \* the loader's memory: owner : frame -> MemoryType, tab : the page
             \* tables, leaf : page -> frame, id : the identity-mapped frames,
             \* m : see ElfLoader, got : the last new frame, files : what was
             \* read, fault
  rd,        \* read_file: the position, the buffer buf and the data so far
  at,        \* the index of the loop that pc is in
  info,      \* the memory map: its page buf, its length n, the cursor, and the
             \* frames that PHYSICAL_MEMORY was initialized with
  kernel     \* see ModuleRegistry

vars == <<pc, input, loader, rd, at, info, kernel>>

\* MemoryType
LoaderCode       == 1
BootServicesData == 4
Conventional     == 7

AllFrames == DOMAIN input.map

ConventionalFrames(owner) == {f \in DOMAIN owner : owner[f] = Conventional}

Junk == [junk |-> TRUE]

NoRead == [pos |-> 0, buf |-> [w \in 1 .. Chunk |-> Num(0)], data |-> <<>>]

Init ==
  /\ pc = "establish"
  /\ input \in [map : MemoryMaps, policy : Policies, elf : Kernels, dt : Trees,
                dtb : DtbSources, test : BOOLEAN]
  /\ loader =
       [owner |-> input.map, tab |-> <<>>, leaf |-> <<>>, id |-> {},
        m |-> [mem   |-> [w \in 0 .. Cardinality(AllFrames) * PageWords - 1 |-> Junk],
               dirty |-> {}],
        got |-> 0, files |-> <<>>, fault |-> "none"]
  /\ rd = NoRead
  /\ at = 1
  /\ info = [buf |-> <<>>, n |-> 0, cursor |-> 0, memory |-> {}]
  /\ kernel = NewKernel

-----------------------------------------------------------------------------
(* Frames and page tables of the loader.                                   *)

\* The frame that allocate_pages(AnyPages) chooses is up to the firmware.
Pick(policy, owner) ==
  LET S == ConventionalFrames(owner)
  IN  CASE policy = "lowest"    -> Min(S)
        [] policy = "highest"   -> Max(S)
        [] policy = "scattered" -> IF Cardinality(S) % 2 = 0 THEN Min(S) ELSE Max(S)

\* The new frame is in got.
NewPage4K(g) ==
  IF ConventionalFrames(g.owner) = {} THEN [g EXCEPT !.fault = "unwrap"]
  ELSE Then(Pick(input.policy, g.owner), LAMBDA f :
    [g EXCEPT !.owner[f] = LoaderCode, !.got = f,
              !.m.mem = [w \in DOMAIN @ |-> IF w \div PageWords = f THEN Num(0) ELSE @[w]]])

\* A table is known by its level and the part of the page number above it.
TableKey(level, page) == <<level, page \div Fan^level>>

WithTable(g, level, page) ==
  IF g.fault # "none" \/ TableKey(level, page) \in DOMAIN g.tab THEN g
  ELSE Then(NewPage4K(g), LAMBDA h :
         [h EXCEPT !.tab = (TableKey(level, page) :> h.got) @@ @])

MapKernelPage4K(g, page, frame) ==
  Then(FoldLeft(LAMBDA h, level : Then(h, LAMBDA x : WithTable(x, level, page)),
                g, <<3, 2, 1>>),
       LAMBDA h : [h EXCEPT !.leaf = (page :> frame) @@ @])

\* memory_map: the runs of frames of one type, as [type, start, pages]
MemoryMap(owner) ==
  LET starts == {f \in DOMAIN owner : f - 1 \notin DOMAIN owner \/ owner[f - 1] # owner[f]}
      ends   == {f + 1 : f \in {f \in DOMAIN owner : f + 1 \notin DOMAIN owner
                                                     \/ owner[f + 1] # owner[f]}}
  IN  SortedBy({[type  |-> owner[f], start |-> f,
                 pages |-> Min({e \in ends : e > f}) - f] : f \in starts},
               LAMBDA d : d.start)

\* memory_map succeeds: the map fits into the buffer that it is given.
MapFits(owner) == Len(MemoryMap(owner)) <= MapBuffer

\* The blocks of the identity map, up to the end of the highest descriptor
BlocksRoundedDown(top) == top \div Giga

Blocks(top) == (top + Giga - 1) \div Giga

\* establish_el1_page_table: the map of the memory is read behind the P4 table.
Establish ==
  /\ pc = "establish"
  /\ \E g \in {WithTable(loader, 4, 0)} :
       IF ~ MapFits(g.owner) THEN loader' = [g EXCEPT !.fault = "unwrap"] /\ UNCHANGED pc
       ELSE LET top == Max({d.start + d.pages : d \in Range(MemoryMap(g.owner))})
            IN  /\ \E h \in {WithTable(g, 3, 0)} :
                     loader' = [h EXCEPT !.id = 0 .. (Blocks(top) * Giga - 1)]
                /\ pc' = "sophon"
  /\ UNCHANGED <<input, rd, at, info, kernel>>

-----------------------------------------------------------------------------
(* Files.                                                                  *)

\* Size of a read: firmware reads come back short only at the end of the file.
ReadSize(content) == Min({Chunk, Len(content) - rd.pos})

\* One pass of the loop of read_file: the whole of buf is appended, and what is
\* too much goes when the loop is over.
ReadFile(name, content, next) ==
  /\ pc = name
  /\ LET size == ReadSize(content)
         buf  == [w \in 1 .. Chunk |-> IF w <= size THEN content[rd.pos + w] ELSE rd.buf[w]]
     IN  \/ /\ size > 0
            /\ rd' = [pos |-> rd.pos + size, buf |-> buf, data |-> rd.data \o buf]
            /\ UNCHANGED <<pc, loader>>
         \/ /\ size = 0
            /\ loader' = [loader EXCEPT !.files = (name :> SubSeq(rd.data, 1, rd.pos)) @@ @]
            /\ rd' = NoRead
            /\ pc' = next
  /\ UNCHANGED <<input, at, info, kernel>>

ReadKernel == ReadFile("sophon", input.elf.file, "init.fs")

ReadInitFs == ReadFile("init.fs", InitFs, "read_dtb")

ReadDtbFile == ReadFile("dtb", DtbFile, "map")

\* read_dtb: the command line comes before the configuration table.
ReadDtb ==
  /\ pc = "read_dtb"
  /\ \/ input.dtb = "options" /\ pc' = "dtb" /\ UNCHANGED loader
     \/ input.dtb = "table" /\ pc' = "map" /\ UNCHANGED loader
     \/ input.dtb = "none" /\ loader' = [loader EXCEPT !.fault = "no device tree"]
                           /\ UNCHANGED pc
  /\ UNCHANGED <<input, rd, at, info, kernel>>

-----------------------------------------------------------------------------
(* load_elf.                                                               *)

\* The file as it was read, with the headers that xmas_elf finds in it
Elf == [input.elf EXCEPT !.file = loader.files["sophon"]]

BaseWords == KernelBase * PageWords

\* The loader's translate, on the kernel's pages
Physical ==
  [v \in UNION {p * PageWords .. p * PageWords + PageWords - 1 : p \in DOMAIN loader.leaf} |->
     loader.leaf[v \div PageWords] * PageWords + (v % PageWords)]

\* One pass of the loop of map_kernel_pages_4k
MapPage ==
  /\ pc = "map"
  /\ LET pages == SortedBy(LoadPages(Elf), LAMBDA p : p)
     IN  /\ \E g \in {NewPage4K(loader)} :
              loader' = MapKernelPage4K(g, KernelBase + pages[at], g.got)
         /\ IF at < Len(pages) THEN at' = at + 1 /\ UNCHANGED pc
            ELSE at' = 1 /\ pc' = "load"
  /\ UNCHANGED <<input, rd, info, kernel>>

\* A pass of one of the loops of do_load over the PT_LOAD headers
Segment(loop, next, memory) ==
  /\ pc = loop
  /\ loader' = [loader EXCEPT !.m = memory]
  /\ IF at < Len(Elf.load) THEN at' = at + 1 /\ UNCHANGED pc
     ELSE at' = 1 /\ pc' = next
  /\ UNCHANGED <<input, rd, info, kernel>>

Load ==
  Segment("load", "relocate",
          Then(Physical, LAMBDA tr :
               LoadSegment(loader.m, tr, Elf, Elf.load[at], BaseWords)))

Relocate ==
  /\ pc = "relocate"
  /\ loader' = [loader EXCEPT !.m = Then(Physical, LAMBDA tr :
                                         ApplyRelocation(loader.m, tr, Elf, BaseWords))]
  /\ pc' = "flush"
  /\ UNCHANGED <<input, rd, at, info, kernel>>

FlushSegments ==
  Segment("flush", "uart",
          Then(Physical, LAMBDA tr :
               FlushSegment(loader.m, tr, Elf.load[at], BaseWords)))

-----------------------------------------------------------------------------
(* gen_boot_info and launch_kernel.                                        *)

MapUart ==
  /\ pc = "uart"
  /\ LET n == Compatible(input.dt.tree, "arm,pl011")
     IN  IF n = 0 THEN loader' = [loader EXCEPT !.fault = "unwrap"] /\ UNCHANGED pc
         ELSE /\ loader' = MapKernelPage4K(loader, UartPage, DeviceFrame(input.dt.tree, n, 1))
              /\ pc' = "snapshot"
  /\ UNCHANGED <<input, rd, at, info, kernel>>

\* A descriptor takes 48 bytes: its type, start and number of pages are in the
\* words 0, 1 and 3.  A range takes 16.
DescWords  == 6
RangeWords == 2

DescriptorWord(d, w) ==
  CASE w = 0 -> d.type [] w = 1 -> d.start [] w = 3 -> d.pages [] OTHER -> 0

\* gen_available_physical_memory: the page for the map is taken before the map.
Snapshot ==
  /\ pc = "snapshot"
  /\ \E g \in {NewPage4K(loader)} :
       IF ~ MapFits(g.owner)
       THEN loader' = [g EXCEPT !.fault = "unwrap"] /\ UNCHANGED <<pc, info>>
       ELSE /\ loader' = g
            /\ \E d \in {MemoryMap(g.owner)} :
                 info' = [info EXCEPT
                            !.buf = [w \in 0 .. Len(d) * DescWords - 1 |->
                                       DescriptorWord(d[w \div DescWords + 1], w % DescWords)],
                            !.n = Len(d)]
            /\ pc' = "scan"
  /\ UNCHANGED <<input, rd, at, kernel>>

IsUnused(type) == type \in {Conventional, LoaderCode}

IsAvailable(type) == type = Conventional

\* One pass of the loop over the descriptors: the ranges go over the map itself.
Scan ==
  /\ pc = "scan"
  /\ LET desc  == (at - 1) * DescWords
         start == info.buf[desc + 1]
         end   == start + info.buf[desc + 3]
         slot  == info.cursor * RangeWords
     IN  info' = IF IsAvailable(info.buf[desc])
                 THEN [info EXCEPT !.buf = (slot :> start @@ slot + 1 :> end) @@ @,
                                   !.cursor = @ + 1]
                 ELSE info
  /\ IF at < info.n THEN at' = at + 1 /\ UNCHANGED pc
     ELSE at' = 1 /\ pc' = "launch"
  /\ UNCHANGED <<input, loader, rd, kernel>>

\* boot_info.available_physical_memory
AvailableRanges ==
  [r \in 1 .. info.cursor |-> [start |-> info.buf[(r - 1) * RangeWords],
                               end   |-> info.buf[(r - 1) * RangeWords + 1]]]

\* kernel_entry: the init_array of the kernel registers its tests.
KernelEntry(k) == MergeTests(k, IF input.test THEN KernelTests ELSE 0)

\* launch_kernel, kernel_entry, and _start up to the loop over the modules
Launch ==
  /\ pc = "launch"
  /\ info' = [info EXCEPT !.memory = UNION {r.start .. r.end - 1 : r \in Range(AvailableRanges)}]
  /\ kernel' = KernelEntry([kernel EXCEPT !.masked = TRUE])
  /\ pc' = "modules"
  /\ UNCHANGED <<input, loader, rd, at>>

-----------------------------------------------------------------------------
(* _start.                                                                 *)

ALL_MODULES ==
  <<"hello", "bcm2711-gpio", "gic", "gic-timer", "vfs", "pm", "dev", "pl011", "round-robin">>

LoadModule ==
  /\ pc = "modules" /\ kernel.fault = "none"
  /\ kernel' = Register(kernel, ALL_MODULES[at], input.dt.tree, input.test)
  /\ IF at < Len(ALL_MODULES) THEN at' = at + 1 /\ UNCHANGED pc
     ELSE at' = 1 /\ pc' = "idle"
  /\ UNCHANGED <<input, loader, rd, info>>

\* The boot tests allocate and read; the test runner is a third process.
Spawns(step, task, next) ==
  /\ pc = step /\ kernel.fault = "none"
  /\ kernel' = SpawnTask(kernel, task)
  /\ pc' = next
  /\ UNCHANGED <<input, loader, rd, at, info>>

SpawnIdle == Spawns("idle", "idle", "init")

SpawnInit == Spawns("init", "init", IF input.test THEN "runner" ELSE "schedule")

SpawnTestRunner == Spawns("runner", "runner", "schedule")

Schedule ==
  /\ pc = "schedule" /\ kernel.fault = "none"
  /\ kernel' = FirstSchedule(kernel)
  /\ pc' = "scheduled"
  /\ UNCHANGED <<input, loader, rd, at, info>>

\* An interrupt comes as soon as it is enabled and not masked.
Interrupt ==
  /\ kernel.fault = "none" /\ ~ kernel.masked
  /\ \E irq \in kernel.enabled : kernel' = TakeInterrupt(kernel, irq)
  /\ UNCHANGED <<pc, input, loader, rd, at, info>>

Loading ==
  /\ loader.fault = "none"
  /\ \/ Establish \/ ReadKernel \/ ReadInitFs \/ ReadDtb \/ ReadDtbFile
     \/ MapPage \/ Load \/ Relocate \/ FlushSegments \/ MapUart \/ Snapshot
     \/ Scan \/ Launch

Starting == LoadModule \/ SpawnIdle \/ SpawnInit \/ SpawnTestRunner \/ Schedule

Next == Loading \/ Starting \/ Interrupt

\* There is a next statement to execute.
Running == loader.fault = "none" /\ kernel.fault = "none" /\ pc # "scheduled"

\* The processor does not stop by itself: weak fairness of the steps above, which
\* are enabled exactly while the boot is Running.
Fairness == []<>(~ Running) \/ []<><<Loading \/ Starting>>_vars

Spec == Init /\ [][Next]_vars /\ Fairness

-----------------------------------------------------------------------------
(* Properties.                                                             *)

Launched == pc \in {"modules", "idle", "init", "runner", "schedule", "scheduled"}

Loaded == Launched \/ pc \in {"uart", "snapshot", "scan", "launch"}

\* The kernel is given exactly the frames that nobody uses: none that holds a
\* page table, the kernel, the boot information or memory of the firmware, and
\* every one that is free.  Every frame the loader takes must be taken before the
\* memory map is, and the ranges, written over the map, must not reach a
\* descriptor that is still to be read (gen_boot_info,
\* gen_available_physical_memory).
AvailableIsFree ==
  Launched => info.memory = ConventionalFrames(loader.owner)

\* All memory, the page tables, the memory map and the kernel's frames among it,
\* is identity-mapped when the kernel runs on the loader's table
\* (establish_el1_page_table).
IdentityCoversMemory ==
  Launched => /\ info.memory \subseteq loader.id
              /\ Range(loader.tab) \subseteq loader.id
              /\ \A p \in DOMAIN loader.leaf : p = UartPage \/ loader.leaf[p] \in loader.id

\* The file offset of address v, in the segment that holds it
FileWord(elf, v) ==
  {elf.file[ph.offset + v - ph.vaddr + 1] :
     ph \in {p \in Range(elf.load) : v \in p.vaddr .. p.vaddr + p.filesz - 1}}

\* What the linker meant word v of the image to be
ExpectedWord(elf, v) ==
  LET relas == UNION {UNION {FileWord(elf, r.ptr + e) : e \in 0 .. r.n - 1} : r \in elf.rela}
      hits  == {Num(e.addend + BaseWords) : e \in {e \in relas : e.relative /\ e.slot = v}}
  IN  IF hits # {} THEN hits ELSE IF FileWord(elf, v) # {} THEN FileWord(elf, v) ELSE {Num(0)}

\* The files reach the kernel whole, and its image is what the linker meant: file
\* contents, zeros behind them and relocated pointers, on frames that are not
\* contiguous.  Every word that came from the file or was relocated in it has
\* been flushed since it was last written (read_file, ELFLoader::do_load).
ImageLoaded ==
  Loaded =>
    /\ loader.files["init.fs"] = InitFs
    /\ input.dtb = "options" => loader.files["dtb"] = DtbFile
    /\ \A p \in LoadPages(input.elf) : \A v \in p * PageWords .. (p + 1) * PageWords - 1 :
         LET w == loader.leaf[KernelBase + p] * PageWords + (v % PageWords)
         IN  /\ {loader.m.mem[w]} = ExpectedWord(input.elf, v)
             /\ FileWord(input.elf, v) # {} => w \notin loader.m.dirty

\* The drivers map the devices where the board has them and serve the interrupts
\* that they raise: addresses go through the ranges of every bus above the device
\* (DeviceTree, and init of the modules gic, gic-timer, pl011 and bcm2711-gpio).
DevicesFound ==
  pc = "scheduled" /\ kernel.fault = "none" =>
    /\ loader.leaf[UartPage] = input.dt.uart
    /\ kernel.mapped["uart"] = <<input.dt.uart>>
    /\ kernel.mapped["gic"] = input.dt.gic
    /\ ("gpio" \in DOMAIN kernel.mapped) = (input.dt.gpio # {})
    /\ "gpio" \in DOMAIN kernel.mapped => Range(kernel.mapped["gpio"]) = input.dt.gpio
    /\ kernel.handlers = (input.dt.timerIrq :> "timer") @@ (input.dt.uartIrq :> "uart")
    /\ kernel.enabled = DOMAIN kernel.handlers

\* Taking frames from the ends of what is free leaves at most one descriptor more
\* at each end.
RoomForLoader == Len(MemoryMap(input.map)) + 2 <= MapBuffer

\* With a device tree, and a memory map that leaves room for the loader's own
\* pages, the boot gets to the first task: the map is read twice and fits into its
\* page both times, no module uses another one's instance, call handler or device
\* before it is there, none is set twice, no module call spins on the locks that
\* register holds, and the interrupts that the timer raises from then on find all
\* that their handlers need.
BootReachesScheduler ==
  input.dtb # "none" /\ RoomForLoader => <>[](pc = "scheduled" /\ kernel.fault = "none")
=============================================================================
