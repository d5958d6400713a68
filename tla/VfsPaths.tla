------------------------------ MODULE VfsPaths ------------------------------
(***************************************************************************)
(* Paths, the tree of the RAM file system, mount points and the walk from  *)
(* a path to a node: modules/vfs/src/{lib,fs,mount,rootfs}.rs,             *)
(* libs/vfs/src/ramfs.rs and the name lookup of modules/dev/src/lib.rs.    *)
(*                                                                         *)
(* A path string is the sequence that split("/") makes of it, so           *)
(*   "/"         is <<"", "">>          "/etc/x"  is <<"", "etc", "x">>    *)
(*   ""          is <<"">>              "etc/"    is <<"etc", "">>         *)
(* and appending "/" and a name is Append.  Names hold no white space, so  *)
(* path.trim() changes nothing.  An Option is a set of at most one value.  *)
(*                                                                         *)
(* A file system state f is a record:                                      *)
(*   f.ram     the tree of ROOT_FS: from the path below "/" (a sequence of *)
(*             names) to its Entry                                         *)
(*   f.mounts  MOUNT_POINTS: from the key to the root node of the mount    *)
(*   f.devs    the names in DEV_FS.devices                                 *)
(***************************************************************************)
EXTENDS Integers, Sequences

Dir       == [kind |-> "dir"]
File(n)   == [kind |-> "file", len |-> n]
MountAt(k) == [kind |-> "mnt", key |-> k]

\* The tree with the root only.
EmptyRam == [p \in {<<>>} |-> Dir]

\* What split gives before a leading "/" and behind a final one.
Empty == ""

Slash  == <<Empty, Empty>>
DevDir == <<Empty, "dev">>

StartsWithSlash(s) == Len(s) > 1 /\ s[1] = Empty
EndsWithSlash(s)   == Len(s) > 1 /\ s[Len(s)] = Empty

\* Vec::pop and its like.
Front(s) == SubSeq(s, 1, Len(s) - 1)

\* split("/").filter(|x| !x.is_empty())
Segments(s) ==
  LET kept[i \in 0..Len(s)] ==
        IF i = 0 THEN <<>>
        ELSE IF s[i] = Empty THEN kept[i - 1] ELSE Append(kept[i - 1], s[i])
  IN  kept[Len(s)]

-----------------------------------------------------------------------------
(* Mutant.                                                                 *)

\* The mount point is not recognised while walking.
FollowedStaysInRoot(f, node, entry, stat) ==
  [node EXCEPT !.path = Append(@, entry), !.name = entry]

-----------------------------------------------------------------------------

\* One segment of the loop of ProcData::canonicalize, on the Option of the
\* buffer.
Push(bufs, seg) ==
  IF seg = "." THEN bufs
  ELSE IF seg = ".." THEN {Front(b) : b \in bufs \ {<<>>}}
  ELSE {Append(b, seg) : b \in bufs}

\* The loop, from the Option of the buffer b.
PushAll(b, segs) ==
  LET bufs[i \in 0..Len(segs)] ==
        IF i = 0 THEN b ELSE Push(bufs[i - 1], segs[i])
  IN  bufs[Len(segs)]

\* ProcData::canonicalize
Canonicalize(cwd, s) ==
  IF StartsWithSlash(s) THEN {s}
  ELSE {<<Empty>> \o (IF b = <<>> THEN <<Empty>> ELSE b) :
          b \in PushAll({Segments(cwd)}, Segments(s))}

-----------------------------------------------------------------------------
(* ramfs.rs                                                                *)

\* The path a string names below the root, a final "/" dropped.
Below(s) ==
  LET p == Tail(s)
  IN  IF p = <<Empty>> THEN <<>> ELSE IF EndsWithSlash(p) THEN Front(p) ELSE p

\* RamFS::get with Dir::get; its debug_assert is AbsoluteOnly.
Get(ram, s) == IF Below(s) \in DOMAIN ram THEN {ram[Below(s)]} ELSE {}

AbsoluteOnly(s) == StartsWithSlash(s)

\* RamFS::insert and mount: missing directories are made on the way.
Inserted(ram, p, entry) ==
  LET dirs == {SubSeq(p, 1, i) : i \in 0..(Len(p) - 1)}
  IN  [q \in DOMAIN ram \cup dirs \cup {p} |->
         IF q = p THEN entry ELSE IF q \in DOMAIN ram THEN ram[q] ELSE Dir]

\* The assertion and the unreachable! of insert and mount do not trigger.
Insertable(ram, p) ==
  /\ p \notin DOMAIN ram
  /\ \A i \in 0..(Len(p) - 1) :
       SubSeq(p, 1, i) \in DOMAIN ram => ram[SubSeq(p, 1, i)] = Dir

-----------------------------------------------------------------------------
(* The FileSystem operations that the walk uses.                           *)

RootNode == [fs |-> "rootfs", name |-> "/", path |-> <<Empty>>, mount |-> {}]

Keys(entry) == IF entry.kind = "mnt" THEN {entry.key} ELSE {}

\* RootFS::stat
RootStat(f, parent, entry) ==
  {[mount |-> Keys(e), is_dir |-> e.kind = "dir"] :
     e \in Get(f.ram, Append(parent.path, entry))}

\* DevFS::stat
DevStat(f, parent, entry) ==
  IF parent.path = DevDir /\ entry \in f.devs
  THEN {[mount |-> {}, is_dir |-> FALSE]} ELSE {}

Stat(f, parent, entry) ==
  IF parent.fs = "rootfs" THEN RootStat(f, parent, entry)
  ELSE DevStat(f, parent, entry)

\* RootFS::open
RootOpen(f, parent, entry) ==
  {[fs |-> "rootfs", name |-> entry, path |-> Append(parent.path, entry),
    mount |-> Keys(e)] : e \in Get(f.ram, Append(parent.path, entry))}

\* DevFS::open
DevOpen(f, parent, entry) ==
  IF entry \in f.devs
  THEN {[fs |-> "devfs", name |-> entry, path |-> Append(parent.path, entry),
         mount |-> {}]}
  ELSE {}

OpenAt(f, parent, entry) ==
  IF parent.fs = "rootfs" THEN RootOpen(f, parent, entry)
  ELSE DevOpen(f, parent, entry)

-----------------------------------------------------------------------------
(* The walk.  at: "walk" while vfs_locate_node calls itself, then "found", *)
(* "none" or "assert".                                                     *)

WalkBegins == [at |-> "walk", node |-> RootNode, entry |-> Empty]

\* The node vfs_locate_node goes on from, behind a directory or a mount.
Followed(f, node, entry, stat) ==
  IF stat.is_dir THEN [node EXCEPT !.path = Append(@, entry), !.name = entry]
  ELSE f.mounts[CHOOSE k \in stat.mount : TRUE]

\* One call of vfs_locate_node, for the string made of the segments from i.
LocateStep(f, path, w, i) ==
  IF w.at # "walk" THEN w
  ELSE IF path[i] = Empty /\ i < Len(path) THEN [w EXCEPT !.at = "assert"]
  ELSE IF Stat(f, w.node, path[i]) = {} THEN [w EXCEPT !.at = "none"]
  ELSE LET stat == CHOOSE x \in Stat(f, w.node, path[i]) : TRUE
           last == i = Len(path) \/ (i = Len(path) - 1 /\ path[i + 1] = Empty)
       IN  IF last \/ ~(stat.is_dir \/ stat.mount # {})
           THEN [w EXCEPT !.at = "found", !.entry = path[i]]
           ELSE IF ~stat.is_dir /\ ~(stat.mount \subseteq DOMAIN f.mounts)
           THEN [w EXCEPT !.at = "none"]
           ELSE [w EXCEPT !.node = Followed(f, w.node, path[i], stat)]

\* vfs_locate_node from the root node.
Locate(f, path) ==
  LET walk[i \in 0..Len(path)] ==
        IF i = 0 THEN WalkBegins ELSE LocateStep(f, path, walk[i - 1], i)
  IN  walk[Len(path)]

\* The trimming that vfs_open and vfs_locate_node_from_path begin with.
Trimmed(s) ==
  LET t == IF EndsWithSlash(s) THEN Front(s) ELSE s
  IN  IF StartsWithSlash(t) THEN Tail(t) ELSE t

\* Whether the walk to s hits the assertion of vfs_locate_node.
WalkAsserts(f, s) ==
  StartsWithSlash(s) /\ s # Slash /\ Locate(f, Trimmed(s)).at = "assert"

\* vfs_open
VfsOpen(f, s) ==
  IF ~StartsWithSlash(s) THEN {}
  ELSE IF s = Slash THEN {RootNode}
  ELSE LET w == Locate(f, Trimmed(s))
       IN  IF w.at = "found" THEN OpenAt(f, w.node, w.entry) ELSE {}

\* dir_or_mnt_exists
DirOrMntExists(f, s) ==
  LET w == Locate(f, Trimmed(s))
  IN  /\ w.at = "found"
      /\ \E x \in Stat(f, w.node, w.entry) : x.is_dir \/ x.mount # {}

-----------------------------------------------------------------------------
(* mount.rs                                                                *)

\* One call of vfs_mount_impl; "found" is the node the mount is made under.
MountStep(f, path, w, i) ==
  IF w.at # "walk" THEN w
  ELSE LET stats == Stat(f, w.node, path[i])
       IN  IF \E x \in stats : x.is_dir
           THEN IF i = Len(path) THEN [w EXCEPT !.at = "none"]
                ELSE [w EXCEPT !.node.path = Append(@, path[i]),
                               !.node.name = path[i]]
           ELSE IF stats # {} \/ i = Len(path)
           THEN [w EXCEPT !.at = "found", !.entry = path[i]]
           ELSE [w EXCEPT !.at = "none"]

MountWalk(f, s) ==
  LET walk[i \in 0..(Len(s) - 1)] ==
        IF i = 0 THEN WalkBegins ELSE MountStep(f, Tail(s), walk[i - 1], i)
  IN  walk[Len(s) - 1]

MountKeys == 0..31       \* the length of MOUNT_POINTS

FreeKeys(f) == MountKeys \ DOMAIN f.mounts

\* vfs_mount returns Some: a key is free, the mount point did not exist and
\* its directory does.
Mountable(f, s) ==
  /\ s # Slash
  /\ FreeKeys(f) # {}
  /\ MountWalk(f, s).at = "found"
  /\ Insertable(f.ram, Tail(s))

\* RootFS::mount
RootMounted(ram, path, k) == Inserted(ram, Tail(path), MountAt(k))

\* vfs_mount: the first free key is taken, RootFS::mount adds the entry to
\* the tree, and the root of the mount is that node in the other system.
VfsMounted(f, s, fs) ==
  LET k == CHOOSE k \in FreeKeys(f) : \A j \in FreeKeys(f) : k <= j
      w == MountWalk(f, s)
      path == Append(w.node.path, w.entry)
      root == [fs |-> fs, name |-> w.entry, path |-> path, mount |-> {}]
  IN  [f EXCEPT !.ram    = RootMounted(@, path, k),
                !.mounts = [j \in DOMAIN @ \cup {k} |-> IF j = k THEN root ELSE @[j]]]
=============================================================================
