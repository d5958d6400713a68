------------------------------- MODULE Files --------------------------------
(***************************************************************************)
(* The virtual file system as its callers see it: the requests of          *)
(* modules/vfs/src/lib.rs, the device file system of modules/dev, and the  *)
(* exec system call of sophon/src/task/syscall.rs as a client of them.     *)
(*                                                                         *)
(* A request runs with interrupts masked, so it is one step, except where  *)
(* the device puts the caller to sleep: a read of the serial line gives up *)
(* the lock of the table, waits, and looks the descriptor up again.        *)
(* A panic ends the behaviours of the model, and panic holds its cause. In *)
(* a test build handle_panic halts the system; in others it ends the       *)
(* calling task, with the locks of the module still held, and what the     *)
(* other tasks do from then on is left out.                                *)
(***************************************************************************)
EXTENDS VfsPaths, FileTable

CONSTANTS
  InitFiles,    \* the files of init.fs, in order: pairs of a path below "/"
                \* and a length
  Task,         \* user threads
  ProcOf,       \* the process of each, a function; 1 is the first process
  Paths,        \* the strings that programs pass
  MaxCalls      \* bound on the number of requests

Proc == {ProcOf[t] : t \in Task}

ASSUME FirstProcess == 1 \in Proc

ASSUME PathsAssumption == Paths \subseteq Seq(STRING)

\* init.fs has an etc directory, and /dev is left for the device file system.
ASSUME InitFilesAssumption ==
  /\ InitFiles \in Seq(Seq(STRING) \X Nat)
  /\ \A i \in DOMAIN InitFiles : InitFiles[i][1] # <<>> /\ InitFiles[i][1][1] # "dev"
  /\ \E i \in DOMAIN InitFiles : InitFiles[i][1][1] = "etc"

Tty  == <<Empty, "dev", "tty.serial">>

VARIABLES
  stage,    \* how far the module loader is: "rootfs", "devfs", "pl011", "up"
  fs,       \* ROOT_FS, MOUNT_POINTS and DEV_FS, see VfsPaths
  data,     \* process id -> ProcData, for the processes that were created
  pend,     \* task -> Option of the device read that it sleeps in
  waits,    \* task -> Option of the process that its exec waits for
  gone,     \* the processes that exited
  panic,    \* cause of the panic, or "no"
  last,     \* the last request and its result, when it was an open
  calls,    \* number of requests so far
  lifo,     \* history: the process only closed its newest descriptor
  raced,    \* history: a descriptor went away under a sleeping read
  seen      \* history: the bytes delivered through each descriptor, in order

vars == <<stage, fs, data, pend, waits, gone, panic, last, calls, lifo, raced,
          seen>>

Other == [op |-> "other", ret |-> 0]

\* build_initfs.rs: gen_dir and gen_file insert the files one by one.
InitRam ==
  LET ram[i \in 0..Len(InitFiles)] ==
        IF i = 0 THEN EmptyRam
        ELSE Inserted(ram[i - 1], InitFiles[i][1], File(InitFiles[i][2]))
  IN  ram[Len(InitFiles)]

Init ==
  /\ stage = "rootfs"
  /\ fs = [ram |-> EmptyRam, mounts |-> <<>>, devs |-> {}]
  /\ data = <<>>
  /\ pend = [t \in Task |-> {}]
  /\ waits = [t \in Task |-> {}]
  /\ gone = {}
  /\ panic = "no"
  /\ last = Other
  /\ calls = 0
  /\ lifo = [p \in Proc |-> TRUE]
  /\ raced = [p \in Proc |-> FALSE]
  /\ seen = [p \in Proc |-> [i \in Slots |-> <<>>]]

-----------------------------------------------------------------------------
(* Mutants.                                                                *)

\* set_cwd does not look whether the directory exists.
SetCwdCallUnchecked(d, path) == [d |-> [d EXCEPT !.cwd = path], ret |-> 0,
                                 panic |-> "no"]

\* exec opens and does not close.
ExecReadLeaks(d, fd, node) ==
  IF Get(fs.ram, node.path) = {Dir}
  THEN [d |-> d, ret |-> -1, panic |-> "no"]
  ELSE [d |-> [d EXCEPT !.nodes[fd] = {}], ret |-> 0, panic |-> "no"]

-----------------------------------------------------------------------------
(* The requests, as functions of the caller's table: the new table, the    *)
(* value returned, and the cause of a panic.                               *)

Result(d, ret, why) == [d |-> d, ret |-> ret, panic |-> why]

The(S) == CHOOSE x \in S : TRUE

\* Mutant: Open keeps the mount point itself.
OpenNodeIgnoresMount(d, node) ==
  IF OutOfBounds(d.files) THEN Result(d, -1, "index")
  ELSE Result(Opened(d, node), d.files, "no")

\* Open, once vfs_open found a node.
OpenNode(d, node) ==
  IF ~(node.mount \subseteq DOMAIN fs.mounts) THEN Result(d, -1, "mount")
  ELSE IF OutOfBounds(d.files) THEN Result(d, -1, "index")
  ELSE Result(Opened(d, IF node.mount = {} THEN node
                        ELSE fs.mounts[The(node.mount)]),
              d.files, "no")

OpenPath(d, path) ==
  IF WalkAsserts(fs, path) THEN Result(d, -1, "fs.rs:16")
  ELSE IF VfsOpen(fs, path) = {} THEN Result(d, -1, "no")
  ELSE OpenNode(d, The(VfsOpen(fs, path)))

\* canonicalize unwraps the prefix "/" of the working directory.
CwdPanics(d, s) == ~StartsWithSlash(s) /\ ~StartsWithSlash(d.cwd)

\* VFSRequest::Open
OpenCall(d, s) ==
  IF CwdPanics(d, s) THEN Result(d, -1, "cwd")
  ELSE IF Canonicalize(d.cwd, s) = {} THEN Result(d, -1, "no")
  ELSE OpenPath(d, The(Canonicalize(d.cwd, s)))

\* VFSRequest::Close
CloseCall(d, fd) ==
  IF fd < 3 THEN Result(d, -1, "no")
  ELSE IF OutOfBounds(fd) THEN Result(d, -1, "index")
  ELSE Result(Closed(d, fd), IF d.nodes[fd] = {} THEN -1 ELSE 0, "no")

\* RootFS::read: the Option of the number of bytes.
RootRead(x, n) ==
  {IF x.offset >= e.len THEN 0
   ELSE (IF e.len < x.offset + n THEN e.len ELSE x.offset + n) - x.offset :
     e \in {e \in Get(fs.ram, x.node.path) : e.kind = "file"}}

\* The descriptor is one of the serial line, where a read sleeps.
IsTty(d, fd) ==
  /\ ~OutOfBounds(fd)
  /\ \E x \in d.nodes[fd] : x.node.fs = "devfs" /\ x.node.name \in fs.devs

\* VFSRequest::Read of anything else: no descriptor, the root of the mount,
\* which DevFS::read does not know, or a node of the root file system.
ReadCall(d, fd, n) ==
  IF OutOfBounds(fd) THEN Result(d, -1, "index")
  ELSE IF d.nodes[fd] = {} THEN Result(d, -1, "no")
  ELSE LET x == The(d.nodes[fd])
       IN  IF x.node.fs = "devfs" THEN Result(d, -1, "no")
           ELSE IF ~AbsoluteOnly(x.node.path) THEN Result(d, -1, "ramfs.rs:150")
           ELSE IF RootRead(x, n) = {} THEN Result(d, -1, "no")
           ELSE Result(Advanced(d, fd, The(RootRead(x, n))),
                       The(RootRead(x, n)), "no")

\* VFSRequest::Write; DevFS::write fails for the root of the mount.
WriteCall(d, fd, n) ==
  IF OutOfBounds(fd) THEN Result(d, -1, "index")
  ELSE IF d.nodes[fd] = {} THEN Result(d, -1, "no")
  ELSE LET node == The(d.nodes[fd]).node
       IN  IF node.fs = "rootfs" THEN Result(d, -1, "unimplemented")
           ELSE IF ~IsTty(d, fd) THEN Result(d, -1, "no")
           ELSE Result(Advanced(d, fd, n), n, "no")

\* read_dir of the two file systems: the Option of the number of entries.
Entries(node) ==
  IF node.fs = "devfs"
  THEN IF node.path = DevDir THEN {Cardinality(fs.devs)} ELSE {}
  ELSE LET dir == IF node.path = <<Empty>> THEN <<>> ELSE Below(node.path)
       IN  IF dir \in DOMAIN fs.ram /\ fs.ram[dir] = Dir
           THEN {Cardinality({p \in DOMAIN fs.ram \ {<<>>} : Front(p) = dir})}
           ELSE {}

\* VFSRequest::ReadDir
ReadDirCall(d, fd, i) ==
  IF OutOfBounds(fd) THEN Result(d, -1, "index")
  ELSE IF d.nodes[fd] = {} \/ Entries(The(d.nodes[fd]).node) = {}
  THEN Result(d, -1, "no")
  ELSE Result(d, IF i >= The(Entries(The(d.nodes[fd]).node)) THEN 0 ELSE 1, "no")

\* ProcData::set_cwd, once the path is canonical.
SetCwdTo(d, path) ==
  IF WalkAsserts(fs, path) THEN Result(d, -1, "fs.rs:16")
  ELSE IF ~DirOrMntExists(fs, path) THEN Result(d, -1, "no")
  ELSE Result([d EXCEPT !.cwd = path], 0, "no")

\* VFSRequest::SetCwd
SetCwdCall(d, s) ==
  IF CwdPanics(d, s) THEN Result(d, -1, "cwd")
  ELSE IF Canonicalize(d.cwd, s) = {} THEN Result(d, -1, "no")
  ELSE SetCwdTo(d, The(Canonicalize(d.cwd, s)))

\* exec, once the file is open as fd: read to the end and close.  A read that
\* fails returns at once, and the descriptor stays.
ExecRead(d, fd, node) ==
  IF node.fs = "devfs" THEN Result(d, -1, "no")
  ELSE IF ~AbsoluteOnly(node.path) THEN Result(d, -1, "ramfs.rs:150")
  ELSE IF Get(fs.ram, node.path) = {Dir} THEN Result(d, -1, "no")
  ELSE Result(Closed(d, fd), 0, "no")

ExecOpened(o) ==
  IF o.ret < 0 THEN o ELSE ExecRead(o.d, o.ret, The(o.d.nodes[o.ret]).node)

-----------------------------------------------------------------------------
(* Loading the modules vfs, dev and pl011, and the first process.          *)

Booting(from, to) == stage = from /\ panic = "no" /\ stage' = to

Idle == UNCHANGED <<pend, waits, gone, last, calls, lifo, raced, seen>>

\* set_vfs_manager: VFS::init, RootFS::init
RootInit ==
  /\ Booting("rootfs", "devfs")
  /\ fs' = [fs EXCEPT !.ram = InitRam]
  /\ panic' = IF Get(InitRam, <<Empty, "etc">>) = {} THEN "etc" ELSE "no"
  /\ UNCHANGED data /\ Idle

\* DEV::init: register_fs and VFSRequest::Mount
DevInit ==
  /\ Booting("devfs", "pl011")
  /\ IF Mountable(fs, DevDir)
     THEN fs' = VfsMounted(fs, DevDir, "devfs") /\ UNCHANGED panic
     ELSE panic' = "mount" /\ UNCHANGED fs
  /\ UNCHANGED data /\ Idle

\* The end of PL011::init: DevRequest::RegisterDev
RegisterDev ==
  /\ Booting("pl011", "spawn")
  /\ fs' = [fs EXCEPT !.devs = @ \cup {"tty.serial"}]
  /\ UNCHANGED <<data, panic>> /\ Idle

\* What /dev/tty.serial opens.
TtyNode == The(VfsOpen(fs, Tty))

WithTable(p, cwd) ==
  [q \in DOMAIN data \cup {p} |->
     IF q = p THEN NewTable(cwd, TtyNode) ELSE data[q]]

\* register_process for the first process, when no task is current.
SpawnInit ==
  /\ Booting("spawn", "up")
  /\ IF VfsOpen(fs, Tty) = {} THEN panic' = "stdio" /\ UNCHANGED data
     ELSE data' = WithTable(1, Slash) /\ UNCHANGED panic
  /\ UNCHANGED fs /\ Idle

-----------------------------------------------------------------------------
(* Requests.                                                               *)

\* Task t runs in user mode and may make another request.
Runs(t) ==
  /\ panic = "no"
  /\ calls < MaxCalls
  /\ ProcOf[t] \in DOMAIN data \ gone
  /\ pend[t] = {} /\ waits[t] = {}

Table(t) == data[ProcOf[t]]

\* A task sleeps in a read of descriptor fd of process p.
ReadSleeps(p, fd) ==
  \E t \in Task : ProcOf[t] = p /\ \E r \in pend[t] : r.fd = fd

Return(t, r, answer) ==
  /\ data' = [data EXCEPT ![ProcOf[t]] = r.d]
  /\ panic' = r.panic
  /\ last' = answer
  /\ calls' = calls + 1

Static == UNCHANGED <<stage, fs, gone>>

\* What is recorded of a descriptor that was just opened as fd.
OpenedAs(p, fd) ==
  /\ raced' = [raced EXCEPT ![p] = @ \/ ReadSleeps(p, fd)]
  /\ seen' = [seen EXCEPT ![p][fd] = <<>>]

OpenReturns(t, s, r) ==
  /\ Return(t, r, [op |-> "open", ret |-> r.ret, proc |-> ProcOf[t],
                   path |-> Canonicalize(Table(t).cwd, s)])
  /\ IF r.ret >= 0 THEN OpenedAs(ProcOf[t], r.ret) ELSE UNCHANGED <<raced, seen>>
  /\ UNCHANGED <<pend, waits, lifo>> /\ Static

Open(t, s) == Runs(t) /\ OpenReturns(t, s, OpenCall(Table(t), s))

Close(t, fd) ==
  /\ Runs(t)
  /\ LET r == CloseCall(Table(t), fd)
     IN  /\ Return(t, r, Other)
         /\ lifo' = [lifo EXCEPT ![ProcOf[t]] =
                       @ /\ (r.ret = 0 => fd = Table(t).files - 1)]
         /\ raced' = [raced EXCEPT ![ProcOf[t]] =
                       @ \/ (r.ret = 0 /\ ReadSleeps(ProcOf[t], fd))]
  /\ UNCHANGED <<pend, waits, seen>> /\ Static

\* Read that needs no device.
ReadNow(t, fd, n) ==
  /\ Runs(t)
  /\ ~IsTty(Table(t), fd)
  /\ LET r == ReadCall(Table(t), fd, n)
     IN  /\ Return(t, r, Other)
         /\ IF r.ret <= 0 THEN UNCHANGED seen
            ELSE seen' = [seen EXCEPT ![ProcOf[t]][fd] = @ \o
                   [i \in 1..r.ret |-> The(Table(t).nodes[fd]).offset + i]]
  /\ UNCHANGED <<pend, waits, lifo, raced>> /\ Static

\* Read of the serial line: the lock of the table is dropped and the task
\* sleeps until n characters came.
ReadTty(t, fd, n) ==
  /\ Runs(t)
  /\ IsTty(Table(t), fd)
  /\ pend' = [pend EXCEPT ![t] = {[fd |-> fd, n |-> n]}]
  /\ calls' = calls + 1
  /\ last' = Other
  /\ UNCHANGED <<data, waits, panic, lifo, raced, seen>> /\ Static

\* The characters came: Read locks the table and looks for fd again.
ReadWakes(t) ==
  /\ panic = "no"
  /\ \E r \in pend[t] :
       data' = [data EXCEPT ![ProcOf[t]] = Advanced(@, r.fd, r.n)]
  /\ pend' = [pend EXCEPT ![t] = {}]
  /\ last' = Other
  /\ UNCHANGED <<waits, panic, calls, lifo, raced, seen>> /\ Static

Write(t, fd, n) ==
  /\ Runs(t)
  /\ LET r == WriteCall(Table(t), fd, n) IN Return(t, r, Other)
  /\ UNCHANGED <<pend, waits, lifo, raced, seen>> /\ Static

ReadDir(t, fd, i) ==
  /\ Runs(t)
  /\ LET r == ReadDirCall(Table(t), fd, i) IN Return(t, r, Other)
  /\ UNCHANGED <<pend, waits, lifo, raced, seen>> /\ Static

SetCwd(t, s) ==
  /\ Runs(t)
  /\ LET r == SetCwdCall(Table(t), s) IN Return(t, r, Other)
  /\ UNCHANGED <<pend, waits, lifo, raced, seen>> /\ Static

\* exec of a file that is not the serial line: open, read, close, spawn and
\* wait.  The new process inherits the working directory of the caller.
ExecReturns(t, p, o, r) ==
  /\ panic' = IF r.panic = "no" /\ r.ret = 0 /\ VfsOpen(fs, Tty) = {}
              THEN "stdio" ELSE r.panic
  /\ data' = IF panic' = "no" /\ r.ret = 0
             THEN [WithTable(p, r.d.cwd) EXCEPT ![ProcOf[t]] = r.d]
             ELSE [data EXCEPT ![ProcOf[t]] = r.d]
  /\ waits' = IF panic' = "no" /\ r.ret = 0 THEN [waits EXCEPT ![t] = {p}]
              ELSE waits
  /\ IF o.ret >= 0 THEN OpenedAs(ProcOf[t], o.ret) ELSE UNCHANGED <<raced, seen>>

Exec(t, s) ==
  /\ Runs(t)
  /\ \E p \in Proc \ DOMAIN data :
       LET o == OpenCall(Table(t), s)
       IN  /\ o.ret >= 0 => ~IsTty(o.d, o.ret)
           /\ ExecReturns(t, p, o, ExecOpened(o))
  /\ last' = Other
  /\ calls' = calls + 1
  /\ UNCHANGED <<pend, lifo>> /\ Static

\* exit: the process goes with all its threads, and exec returns in the task
\* that waits for it.  deregister_process does nothing.
Exit(t) ==
  /\ Runs(t)
  /\ gone' = gone \cup {ProcOf[t]}
  /\ waits' = [u \in Task |-> waits[u] \ {ProcOf[t]}]
  /\ pend' = [u \in Task |-> IF ProcOf[u] = ProcOf[t] THEN {} ELSE pend[u]]
  /\ calls' = calls + 1
  /\ last' = Other
  /\ UNCHANGED <<stage, fs, data, panic, lifo, raced, seen>>

Fds   == 0..NumNodes      \* NumNodes itself is out of bounds
Sizes == {1, 2}

Next ==
  \/ RootInit \/ DevInit \/ RegisterDev \/ SpawnInit
  \/ \E t \in Task :
       \/ \E s \in Paths : Open(t, s) \/ SetCwd(t, s) \/ Exec(t, s)
       \/ \E fd \in Fds : Close(t, fd) \/ ReadDir(t, fd, 1)
       \/ \E fd \in Fds : ReadTty(t, fd, 1) \/ Write(t, fd, 1)
       \/ \E fd \in Fds, n \in Sizes : ReadNow(t, fd, n)
       \/ ReadWakes(t)
       \/ Exit(t)

Spec == Init /\ [][Next]_vars

-----------------------------------------------------------------------------
(* Properties.                                                             *)

\* Every table has its shape: the slots hold at most one descriptor, and the
\* next index is one that Close has not taken below the first three.
TypeOK ==
  /\ stage \in {"rootfs", "devfs", "pl011", "spawn", "up"}
  /\ DOMAIN data \subseteq Proc
  /\ \A p \in DOMAIN data :
       /\ DOMAIN data[p].nodes = Slots
       /\ \A i \in Slots : Cardinality(data[p].nodes[i]) <= 1
       /\ data[p].files \in Nat
  /\ \A t \in Task : \A r \in pend[t] : r.fd \in Slots
  /\ gone \subseteq DOMAIN data

\* The descriptors 0, 1 and 2 of every process are the serial line for ever:
\* whatever a process opens and closes, in whatever order, `files` never falls
\* below 3, so the slot that Open assigns is never one of them.
StdioStays ==
  \A p \in DOMAIN data :
    /\ data[p].files >= 3
    /\ \A i \in 0..2 : \E x \in data[p].nodes[i] : x.node = TtyNode

\* A process that closes only its newest descriptor keeps the others: the
\* open slots are exactly those below `files`, so Open never replaces one.
\* (Open takes `files` for a free slot, which a close out of order breaks.)
DescriptorsKept ==
  \A p \in DOMAIN data : lifo[p] => OpenSlots(data[p]) = 0..(data[p].files - 1)

\* Reads through a descriptor of a file deliver its bytes in order, none
\* skipped and none twice, whichever threads read, open and close: unless a
\* descriptor went away under a sleeping read, whose length is then added to
\* the offset of whatever the slot holds.
ReadsInOrder ==
  \A p \in DOMAIN data : \A i \in Slots : \A x \in data[p].nodes[i] :
    x.node.fs = "rootfs" /\ ~raced[p] => seen[p][i] = [k \in 1..x.offset |-> k]

\* The working directory is an absolute path of a directory or mount point,
\* so that canonicalize can strip its prefix, also in a process that
\* inherited it.
CwdIsDirectory ==
  \A p \in DOMAIN data :
    StartsWithSlash(data[p].cwd) /\ DirOrMntExists(fs, data[p].cwd)

\* What the kernel takes for granted holds: the mount of /dev succeeds, a
\* mount key has a mount point, /dev/tty.serial opens for every new process,
\* and the working directory is absolute.  Only a request can panic: with a
\* descriptor or a table out of bounds, a write to the root file system, or
\* one of the assertions on paths.
OnlyRequestsPanic == panic \notin {"etc", "mount", "stdio", "cwd"}

\* The names of the system, flat: what a path that passes through directories
\* and mount points only should open.
NamedNode(path) ==
  LET p == Segments(path)
  IN  IF Len(p) = 2 /\ p[1] = "dev" THEN [fs |-> "devfs", path |-> <<Empty>> \o p]
      ELSE IF p = <<"dev">> THEN [fs |-> "devfs", path |-> DevDir]
      ELSE [fs |-> "rootfs", path |-> <<Empty>> \o p]

Names == DOMAIN fs.ram \cup {<<"dev", n>> : n \in fs.devs}

FileInside(path) ==
  \E i \in 1..(Len(Segments(path)) - 1) :
    LET p == SubSeq(Segments(path), 1, i)
    IN  \/ p \in Names \ DOMAIN fs.ram
        \/ p \in DOMAIN fs.ram /\ fs.ram[p].kind = "file"

\* Open finds exactly the names of the system: the descriptor returned is
\* fresh and its node is the one that the path names across mount points, and
\* a path that names nothing is refused.  (A path that runs through a file is
\* taken for the file, see vfs_locate_node, and is left out.)
OpenResolves ==
  last.op = "open" /\ panic = "no" =>
    \A path \in last.path :
      ~FileInside(path) =>
        /\ last.ret >= 0 <=> Segments(path) \in Names
        /\ last.ret >= 0 =>
             \E x \in data[last.proc].nodes[last.ret] :
               /\ x.offset = 0
               /\ [fs |-> x.node.fs, path |-> x.node.path] = NamedNode(path)

\* The assertions of the path walk hold for every request:
\* assert!(!path.starts_with("/")) in vfs_locate_node and
\* debug_assert!(path.starts_with('/')) in RamFS::get.
PathAssertsHold == panic \notin {"fs.rs:16", "ramfs.rs:150"}
=============================================================================
