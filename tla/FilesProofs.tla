---------------------------- MODULE FilesProofs -----------------------------
(***************************************************************************)
(* The descriptor table, for every table length, set of processes, file    *)
(* tree and sequence of requests: the standard descriptors stay            *)
(* (StdioStays) and a process that closes in order keeps its descriptors   *)
(* (DescriptorsKept).                                                      *)
(*                                                                         *)
(* The first is not inductive: that `files` stays at least 3 needs that    *)
(* each close is matched by a descriptor that is counted, so the invariant *)
(* says that no more slots from 3 on are open than `files` exceeds 3 by.   *)
(*                                                                         *)
(* The second half shows that steps keep ReadsInv, the invariant behind    *)
(* ReadsInOrder; PathsProofs completes it with what the console is.        *)
(***************************************************************************)
EXTENDS Files, TLAPS

\* The time that a leaf may take.
USE SMTT(30)

-----------------------------------------------------------------------------
(* The table of a process.                                                 *)

\* The slots in use above the standard ones.
Extra(d) == {i \in 3..(NumNodes - 1) : d.nodes[i] # {}}

\* A ProcData, whatever its nodes and paths are.
TableShape(d) ==
  \E N, C : d \in [nodes : [Slots -> N], cwd : C, files : Nat]

\* The slots of S have indices below n of their own, from 3 on: there are no
\* more of them than n exceeds 3 by.
Counted(S, n) ==
  \E g : /\ \A i \in S : g[i] \in 3..(n - 1)
        /\ \A i, j \in S : g[i] = g[j] => i = j

\* The table of a process whose console is tty; l says that it has closed in
\* order.
TableInv(d, tty, l) ==
  /\ TableShape(d)
  /\ d.files >= 3
  /\ \A i \in 0..2 : \E x \in d.nodes[i] : x.node = tty
  /\ Counted(Extra(d), d.files)
  /\ l => OpenSlots(d) = 0..(d.files - 1)

\* One more slot takes the next index.
LEMMA CountedMore ==
  ASSUME NEW S, NEW n \in Nat, n >= 3, Counted(S, n)
  PROVE  Counted(S \cup {n}, n + 1)
<1>1. PICK g : /\ \A i \in S : g[i] \in 3..(n - 1)
               /\ \A i, j \in S : g[i] = g[j] => i = j
  BY DEF Counted
<1> DEFINE h == [i \in S \cup {n} |-> IF i = n THEN n ELSE g[i]]
<1>2. \A i \in S \cup {n} : h[i] \in 3..n /\ (h[i] = n <=> i = n)
  BY <1>1
<1>3. \A i, j \in S \cup {n} : h[i] = h[j] => i = j
  BY <1>1
<1> HIDE DEF h
<1>4. \A i \in S \cup {n} : h[i] \in 3..((n + 1) - 1)
  BY <1>2
<1> QED BY <1>3, <1>4 DEF Counted

\* A slot that is given up leaves its index to the slot that has the last one.
LEMMA CountedLess ==
  ASSUME NEW S, NEW n \in Nat, NEW a \in S, Counted(S, n)
  PROVE  n >= 4 /\ Counted(S \ {a}, n - 1)
<1>1. PICK g : /\ \A i \in S : g[i] \in 3..(n - 1)
               /\ \A i, j \in S : g[i] = g[j] => i = j
  BY DEF Counted
<1>2. n >= 4
  BY <1>1
<1> DEFINE h == [i \in S |-> IF g[i] = n - 1 THEN g[a] ELSE g[i]]
<1>3. \A i \in S \ {a} : h[i] \in 3..((n - 1) - 1)
  BY <1>1
<1>4. \A i, j \in S \ {a} : h[i] = h[j] => i = j
  BY <1>1
<1> HIDE DEF h
<1> QED BY <1>2, <1>3, <1>4 DEF Counted

\* ProcData::new makes a table that satisfies the invariant.
LEMMA NewTableInv ==
  ASSUME NEW cwd, NEW tty, NEW l
  PROVE  TableInv(NewTable(cwd, tty), tty, l)
<1> DEFINE d == NewTable(cwd, tty)
<1>1. d \in [nodes : [Slots -> {{}, {Descriptor(tty)}}], cwd : {cwd}, files : Nat]
  BY DEF NewTable
<1>2. TableShape(d)
  BY <1>1, ZenonT(30) DEF TableShape
<1>3. d.files = 3 /\ \A i \in Slots : d.nodes[i] = IF i < 3 THEN {Descriptor(tty)} ELSE {}
  BY DEF NewTable
<1>4. \A i \in 0..2 : \E x \in d.nodes[i] : x.node = tty
  <2>1. Descriptor(tty).node = tty
    BY DEF Descriptor
  <2>2. \A i \in 0..2 : i \in Slots /\ i < 3
    BY NumNodesAssumption DEF Slots
  <2> HIDE DEF d
  <2> QED
    BY <1>3, <2>1, <2>2
<1>5. Extra(d) = {}
  BY <1>3, NumNodesAssumption DEF Extra, Slots
<1>6. OpenSlots(d) = 0..(d.files - 1)
  BY <1>3, NumNodesAssumption DEF OpenSlots, Slots
<1> QED
  BY <1>2, <1>3, <1>4, <1>5, <1>6 DEF TableInv, Counted

\* Open assigns a slot above the standard ones and counts it.
LEMMA OpenedInv ==
  ASSUME NEW d, NEW tty, NEW l, NEW node, TableInv(d, tty, l), ~OutOfBounds(d.files)
  PROVE  TableInv(Opened(d, node), tty, l)
<1> DEFINE e == Opened(d, node)
<1>1. PICK N, C : d \in [nodes : [Slots -> N], cwd : C, files : Nat]
  BY ZenonT(30) DEF TableInv, TableShape
<1>2. d.files \in Slots /\ d.files >= 3
  BY <1>1, NumNodesAssumption DEF TableInv, OutOfBounds, Slots
<1> DEFINE n == [d.nodes EXCEPT ![d.files] = {Descriptor(node)}]
<1>3. e \in [nodes : [Slots -> N \cup {{Descriptor(node)}}], cwd : C, files : Nat]
  <2>1. n \in [Slots -> N \cup {{Descriptor(node)}}]
    BY <1>1, <1>2
  <2>2. e = [nodes |-> n, cwd |-> d.cwd, files |-> d.files + 1]
    BY DEF Opened
  <2> QED
    BY <1>1, <2>1, <2>2
<1>4. e.files = d.files + 1
  BY <1>1, <1>2 DEF Opened
<1>5. \A i \in Slots : e.nodes[i] = IF i = d.files THEN {Descriptor(node)} ELSE d.nodes[i]
  BY <1>1, <1>2 DEF Opened
<1>6. TableShape(e)
  BY <1>3, ZenonT(30) DEF TableShape
<1> HIDE DEF e
<1>7. \A i \in 0..2 : \E x \in e.nodes[i] : x.node = tty
  BY <1>2, <1>5, NumNodesAssumption DEF TableInv, Slots
<1>8. Extra(e) = Extra(d) \cup {d.files}
  BY <1>2, <1>5, NumNodesAssumption DEF Extra, Slots
<1>9. Counted(Extra(e), e.files)
  BY <1>1, <1>2, <1>4, <1>8, CountedMore DEF TableInv
<1>10. l => OpenSlots(e) = 0..(e.files - 1)
  BY <1>2, <1>4, <1>5, NumNodesAssumption DEF TableInv, OpenSlots, Slots
<1> QED
  BY <1>2, <1>4, <1>6, <1>7, <1>9, <1>10 DEF TableInv, e, Slots

\* Close leaves the standard slots alone, and what it takes from the count it
\* takes from the open slots.  In order, it takes the newest.
LEMMA ClosedInv ==
  ASSUME NEW d, NEW tty, NEW l, NEW fd \in Slots, TableInv(d, tty, l)
  PROVE  TableInv(Closed(d, fd), tty, l /\ (fd < 3 \/ d.nodes[fd] = {} \/ fd = d.files - 1))
<1>1. CASE fd < 3 \/ d.nodes[fd] = {}
  BY <1>1 DEF Closed, TableInv
<1>2. CASE ~(fd < 3 \/ d.nodes[fd] = {})
  <2> DEFINE e == Closed(d, fd)
  <2>1. PICK N, C : d \in [nodes : [Slots -> N], cwd : C, files : Nat]
    BY ZenonT(30) DEF TableInv, TableShape
  <2>2. fd \in 3..(NumNodes - 1) /\ d.files >= 3
    BY <1>2, NumNodesAssumption DEF TableInv, Slots
  <2>3. fd \in Extra(d)
    BY <1>2, <2>2 DEF Extra
  <2>4. d.files >= 4 /\ Counted(Extra(d) \ {fd}, d.files - 1)
    BY <2>1, <2>3, CountedLess DEF TableInv
  <2>7. /\ e.files = d.files - 1
        /\ e \in [nodes : [Slots -> N \cup {{}}], cwd : C, files : Nat]
    <3> DEFINE n == [d.nodes EXCEPT ![fd] = {}]
    <3>1. n \in [Slots -> N \cup {{}}]
      BY <2>1
    <3>2. e = [nodes |-> n, cwd |-> d.cwd, files |-> d.files - 1]
      BY <1>2, <2>1, ZenonT(30) DEF Closed
    <3> QED
      BY <2>1, <2>4, <3>1, <3>2
  <2>8. \A i \in Slots : e.nodes[i] = IF i = fd THEN {} ELSE d.nodes[i]
    BY <1>2, <2>1 DEF Closed
  <2>9. TableShape(e)
    BY <2>7, ZenonT(30) DEF TableShape
  <2> HIDE DEF e
  <2>10. \A i \in 0..2 : \E x \in e.nodes[i] : x.node = tty
    BY <2>2, <2>8, NumNodesAssumption DEF TableInv, Slots
  <2>11. Extra(e) = Extra(d) \ {fd}
    BY <2>2, <2>8, NumNodesAssumption DEF Extra, Slots
  <2>12. Counted(Extra(e), e.files)
    BY <2>4, <2>7, <2>11
  <2>13. l /\ fd = d.files - 1 => OpenSlots(e) = 0..(e.files - 1)
    BY <2>1, <2>2, <2>7, <2>8, NumNodesAssumption DEF TableInv, OpenSlots, Slots
  <2> QED
    BY <1>2, <2>1, <2>4, <2>7, <2>9, <2>10, <2>12, <2>13 DEF TableInv, e
<1> QED
  BY <1>1, <1>2

\* Adding to an offset leaves every node where it is.
LEMMA AdvancedInv ==
  ASSUME NEW d, NEW tty, NEW l, NEW fd \in Slots, NEW v, TableInv(d, tty, l)
  PROVE  TableInv(Advanced(d, fd, v), tty, l)
<1> DEFINE e == Advanced(d, fd, v)
           new == {[node |-> x.node, offset |-> x.offset + v] : x \in d.nodes[fd]}
<1>1. PICK N, C : d \in [nodes : [Slots -> N], cwd : C, files : Nat]
  BY ZenonT(30) DEF TableInv, TableShape
<1>2. e \in [nodes : [Slots -> N \cup {new}], cwd : C, files : Nat]
  BY <1>1 DEF Advanced
<1>3. e.files = d.files /\ \A i \in Slots : e.nodes[i] = IF i = fd THEN new ELSE d.nodes[i]
  BY <1>1 DEF Advanced
<1>4. TableShape(e)
  BY <1>2, ZenonT(30) DEF TableShape
<1>5. new = {} <=> d.nodes[fd] = {}
  BY ZenonT(30)
<1>6. ASSUME NEW x \in d.nodes[fd], x.node = tty
      PROVE  \E y \in new : y.node = tty
  <2>1. [node |-> x.node, offset |-> x.offset + v] \in new
    OBVIOUS
  <2> QED
    BY <1>6, <2>1
<1> HIDE DEF e, new
<1>7. \A i \in 0..2 : \E x \in e.nodes[i] : x.node = tty
  BY <1>3, <1>6, NumNodesAssumption DEF TableInv, Slots
<1>8. Extra(e) = Extra(d) /\ OpenSlots(e) = OpenSlots(d)
  BY <1>3, <1>5, NumNodesAssumption DEF Extra, OpenSlots, Slots
<1> QED
  BY <1>3, <1>4, <1>7, <1>8 DEF TableInv, e

-----------------------------------------------------------------------------
(* The requests.                                                           *)

\* Open leaves the table alone, or assigns the slot `files`.
LEMMA OpenCallCases ==
  ASSUME NEW d, NEW s
  PROVE  \E w, node :
           \/ OpenCall(d, s) = Result(d, -1, w)
           \/ /\ ~OutOfBounds(d.files)
              /\ OpenCall(d, s) = Result(Opened(d, node), d.files, "no")
<1>1. ASSUME NEW node
      PROVE  \E w, m :
               \/ OpenNode(d, node) = Result(d, -1, w)
               \/ /\ ~OutOfBounds(d.files)
                  /\ OpenNode(d, node) = Result(Opened(d, m), d.files, "no")
  BY DEF OpenNode
<1>2. ASSUME NEW path
      PROVE  \E w, m :
               \/ OpenPath(d, path) = Result(d, -1, w)
               \/ /\ ~OutOfBounds(d.files)
                  /\ OpenPath(d, path) = Result(Opened(d, m), d.files, "no")
  BY <1>1 DEF OpenPath
<1> QED
  BY <1>2 DEF OpenCall

\* Open, with every way it fails.
LEMMA OpenCallInv ==
  ASSUME NEW d, NEW tty, NEW l, NEW s, TableInv(d, tty, l)
  PROVE  /\ TableInv(OpenCall(d, s).d, tty, l)
         /\ OpenCall(d, s).ret >= 0 =>
              /\ OpenCall(d, s).ret \in Slots
              /\ OpenCall(d, s).ret = OpenCall(d, s).d.files - 1
<1>1. PICK w, node :
           \/ OpenCall(d, s) = Result(d, -1, w)
           \/ /\ ~OutOfBounds(d.files)
              /\ OpenCall(d, s) = Result(Opened(d, node), d.files, "no")
  BY OpenCallCases
<1>2. CASE OpenCall(d, s) = Result(d, -1, w)
  BY <1>2 DEF Result
<1>3. CASE /\ ~OutOfBounds(d.files)
           /\ OpenCall(d, s) = Result(Opened(d, node), d.files, "no")
  <2>1. TableInv(Opened(d, node), tty, l)
    BY <1>3, OpenedInv
  <2>2. d.files \in Nat
    BY DEF TableInv, TableShape
  <2>3. d.files \in Slots /\ d.files = Opened(d, node).files - 1
    BY <1>3, <2>2, NumNodesAssumption DEF OutOfBounds, Slots, Opened
  <2>4. OpenCall(d, s).d = Opened(d, node) /\ OpenCall(d, s).ret = d.files
    BY <1>3 DEF Result
  <2> QED
    BY <2>1, <2>3, <2>4
<1> QED
  BY <1>1, <1>2, <1>3

\* Close.
LEMMA CloseCallInv ==
  ASSUME NEW d, NEW tty, NEW l, NEW fd \in Nat, TableInv(d, tty, l)
  PROVE  TableInv(CloseCall(d, fd).d, tty,
                  l /\ (CloseCall(d, fd).ret = 0 => fd = d.files - 1))
<1>1. CASE fd < 3 \/ OutOfBounds(fd)
  <2>1. CloseCall(d, fd).d = d /\ CloseCall(d, fd).ret = -1
    BY <1>1 DEF CloseCall, Result
  <2> QED
    BY <2>1 DEF TableInv
<1>2. CASE ~(fd < 3 \/ OutOfBounds(fd))
  <2>1. fd \in Slots
    BY <1>2, NumNodesAssumption DEF OutOfBounds, Slots
  <2>2. /\ CloseCall(d, fd).d = Closed(d, fd)
        /\ CloseCall(d, fd).ret = IF d.nodes[fd] = {} THEN -1 ELSE 0
    BY <1>2 DEF CloseCall, Result
  <2>3. TableInv(Closed(d, fd), tty,
                 l /\ (fd < 3 \/ d.nodes[fd] = {} \/ fd = d.files - 1))
    BY <2>1, ClosedInv
  <2> QED
    BY <1>2, <2>2, <2>3 DEF TableInv
<1> QED
  BY <1>1, <1>2

\* Write: the offset grows, or nothing changes.
LEMMA WriteCallInv ==
  ASSUME NEW d, NEW tty, NEW l, NEW fd \in Nat, NEW n, TableInv(d, tty, l)
  PROVE  TableInv(WriteCall(d, fd, n).d, tty, l)
<1>1. \/ WriteCall(d, fd, n).d = d
      \/ ~OutOfBounds(fd) /\ WriteCall(d, fd, n).d = Advanced(d, fd, n)
  BY DEF WriteCall, Result
<1>2. ~OutOfBounds(fd) => fd \in Slots
  BY NumNodesAssumption DEF OutOfBounds, Slots
<1> QED
  BY <1>1, <1>2, AdvancedInv

\* Read of anything but a device.
LEMMA ReadCallInv ==
  ASSUME NEW d, NEW tty, NEW l, NEW fd \in Nat, NEW n, TableInv(d, tty, l)
  PROVE  TableInv(ReadCall(d, fd, n).d, tty, l)
<1>1. \E v : \/ ReadCall(d, fd, n).d = d
             \/ ~OutOfBounds(fd) /\ ReadCall(d, fd, n).d = Advanced(d, fd, v)
  BY DEF ReadCall, Result
<1>2. ~OutOfBounds(fd) => fd \in Slots
  BY NumNodesAssumption DEF OutOfBounds, Slots
<1> QED
  BY <1>1, <1>2, AdvancedInv

\* chdir changes the working directory only.
LEMMA SetCwdCallInv ==
  ASSUME NEW d, NEW tty, NEW l, NEW s, TableInv(d, tty, l)
  PROVE  TableInv(SetCwdCall(d, s).d, tty, l)
<1>1. ASSUME NEW path
      PROVE  \/ SetCwdTo(d, path).d = d
             \/ SetCwdTo(d, path).d = [d EXCEPT !.cwd = path]
  BY DEF SetCwdTo, Result
<1>2. \E path : \/ SetCwdCall(d, s).d = d
                \/ SetCwdCall(d, s).d = [d EXCEPT !.cwd = path]
  BY <1>1, ZenonT(30) DEF SetCwdCall, Result
<1>3. ASSUME NEW path
      PROVE  TableInv([d EXCEPT !.cwd = path], tty, l)
  <2> DEFINE e == [d EXCEPT !.cwd = path]
  <2>1. PICK N, C : d \in [nodes : [Slots -> N], cwd : C, files : Nat]
    BY ZenonT(30) DEF TableInv, TableShape
  <2>2. e \in [nodes : [Slots -> N], cwd : C \cup {path}, files : Nat]
    BY <2>1
  <2>3. e.nodes = d.nodes /\ e.files = d.files
    BY <2>1
  <2>4. TableShape(e)
    BY <2>2, ZenonT(30) DEF TableShape
  <2> HIDE DEF e
  <2>5. Extra(e) = Extra(d) /\ OpenSlots(e) = OpenSlots(d)
    BY <2>3 DEF Extra, OpenSlots
  <2>6. TableInv(e, tty, l)
    BY <2>3, <2>4, <2>5 DEF TableInv
  <2> QED
    BY <2>6 DEF e
<1> QED
  BY <1>2, <1>3

\* What exec leaves in the table of its caller.
LEMMA ExecInv ==
  ASSUME NEW d, NEW tty, NEW l, NEW s, TableInv(d, tty, l)
  PROVE  TableInv(ExecOpened(OpenCall(d, s)).d, tty, l)
<1> DEFINE o == OpenCall(d, s)
<1>1. /\ TableInv(o.d, tty, l)
      /\ o.ret >= 0 => o.ret \in Slots /\ o.ret = o.d.files - 1
  BY OpenCallInv
<1>2. o.ret \in Int
  <2>1. d.files \in Nat
    BY DEF TableInv, TableShape
  <2> QED
    BY <2>1, OpenCallCases DEF Result
<1> HIDE DEF o
<1>3. ASSUME NEW node
      PROVE  \/ ExecRead(o.d, o.ret, node).d = o.d
             \/ ExecRead(o.d, o.ret, node).d = Closed(o.d, o.ret)
  BY DEF ExecRead, Result
<1>4. CASE o.ret < 0
  BY <1>1, <1>4 DEF ExecOpened, o
<1>5. CASE ~(o.ret < 0)
  <2>1. o.ret \in Slots /\ o.ret = o.d.files - 1
    BY <1>1, <1>2, <1>5
  <2>2. TableInv(Closed(o.d, o.ret), tty,
                 l /\ (o.ret < 3 \/ o.d.nodes[o.ret] = {} \/ o.ret = o.d.files - 1))
    BY <1>1, <2>1, ClosedInv
  <2>3. TableInv(Closed(o.d, o.ret), tty, l)
    BY <2>1, <2>2 DEF TableInv
  <2>4. ExecOpened(o).d = o.d \/ ExecOpened(o).d = Closed(o.d, o.ret)
    BY <1>3, <1>5 DEF ExecOpened
  <2> QED
    BY <1>1, <2>3, <2>4 DEF o
<1> QED
  BY <1>4, <1>5, <1>2

-----------------------------------------------------------------------------
(* The inductive invariant.                                                *)

FilesInv ==
  /\ lifo \in [Proc -> BOOLEAN]
  /\ pend \in [Task -> SUBSET [fd : Slots, n : Nat]]
  /\ DOMAIN data \subseteq Proc
  /\ DOMAIN data # {} => stage = "up"
  /\ \A p \in DOMAIN data : TableInv(data[p], TtyNode, lifo[p])

\* No process is there before the module loader is through.
LEMMA InitInv == Init => FilesInv
  BY DEF Init, FilesInv

\* A request that changes only its caller's table keeps the invariant when
\* the new table satisfies it.
LEMMA RequestInv ==
  ASSUME FilesInv,
         NEW q \in DOMAIN data, NEW e, NEW k \in BOOLEAN,
         TableInv(e, TtyNode, k),
         data' = [data EXCEPT ![q] = e],
         lifo' = [lifo EXCEPT ![q] = k],
         pend' \in [Task -> SUBSET [fd : Slots, n : Nat]],
         UNCHANGED <<stage, fs>>
  PROVE  FilesInv'
<1>1. TtyNode' = TtyNode
  BY DEF TtyNode
<1>2. DOMAIN data' = DOMAIN data
  OBVIOUS
<1>3. lifo' \in [Proc -> BOOLEAN]
  BY DEF FilesInv
<1>4. ASSUME NEW p \in DOMAIN data
      PROVE  TableInv(data'[p], TtyNode, lifo'[p])
  <2>1. p \in Proc /\ q \in Proc
    BY DEF FilesInv
  <2>2. CASE p = q
    <3>1. data'[p] = e /\ lifo'[p] = k
      BY <2>1, <2>2 DEF FilesInv
    <3> QED
      BY <3>1
  <2>3. CASE p # q
    <3>1. data'[p] = data[p] /\ lifo'[p] = lifo[p]
      BY <2>1, <2>3 DEF FilesInv
    <3> QED
      BY <3>1 DEF FilesInv
  <2> QED
    BY <2>2, <2>3
<1> QED
  BY <1>1, <1>2, <1>3, <1>4 DEF FilesInv

\* A request that does not touch the history of closes.
LEMMA PlainRequestInv ==
  ASSUME FilesInv,
         NEW q \in DOMAIN data, NEW e,
         TableInv(e, TtyNode, lifo[q]),
         data' = [data EXCEPT ![q] = e],
         pend' \in [Task -> SUBSET [fd : Slots, n : Nat]],
         UNCHANGED <<stage, fs, lifo>>
  PROVE  FilesInv'
<1>1. lifo[q] \in BOOLEAN /\ lifo' = [lifo EXCEPT ![q] = lifo[q]]
  BY DEF FilesInv
<1> QED
  BY <1>1, RequestInv, ZenonT(30)

\* The steps of the module loader.
LEMMA BootInv ==
  ASSUME FilesInv, RootInit \/ DevInit \/ RegisterDev \/ SpawnInit
  PROVE  FilesInv'
<1>1. DOMAIN data = {}
  BY ZenonT(30) DEF FilesInv, RootInit, DevInit, RegisterDev, SpawnInit, Booting
<1>2. pend' = pend /\ lifo' = lifo
  BY DEF RootInit, DevInit, RegisterDev, SpawnInit, Idle
<1>3. CASE data' = data
  BY <1>1, <1>2, <1>3 DEF FilesInv
<1>4. CASE SpawnInit /\ data' = WithTable(1, Slash)
  <2>1. TtyNode' = TtyNode /\ stage' = "up"
    BY <1>4 DEF TtyNode, SpawnInit, Booting
  <2>2. DOMAIN data' = {1} /\ data'[1] = NewTable(Slash, TtyNode)
    BY <1>1, <1>4, ZenonT(30) DEF WithTable
  <2>3. TableInv(data'[1], TtyNode', lifo'[1])
    BY <2>1, <2>2, NewTableInv
  <2> QED
    BY <1>2, <2>1, <2>2, <2>3, FirstProcess DEF FilesInv
<1> QED
  BY <1>3, <1>4 DEF RootInit, DevInit, RegisterDev, SpawnInit

\* Exec: the table of the caller, and that of the process it makes.
LEMMA ExecStepInv ==
  ASSUME FilesInv, NEW t \in Task, NEW s, Exec(t, s)
  PROVE  FilesInv'
<1> DEFINE q == ProcOf[t]
           d == data[q]
           o == OpenCall(d, s)
           r == ExecOpened(o)
<1>1. PICK p \in Proc \ DOMAIN data : ExecReturns(t, p, o, r)
  BY ZenonT(30) DEF Exec, Table
<1>2. q \in DOMAIN data /\ UNCHANGED <<stage, fs, lifo, pend>>
  BY DEF Exec, Runs, Static
<1>3. TtyNode' = TtyNode
  BY <1>2 DEF TtyNode
<1>4. TableInv(r.d, TtyNode, lifo[q])
  BY <1>2, ExecInv, ZenonT(30) DEF FilesInv
<1>5. \/ data' = [data EXCEPT ![q] = r.d]
      \/ data' = [WithTable(p, r.d.cwd) EXCEPT ![q] = r.d]
  BY <1>1, ZenonT(30) DEF ExecReturns
<1> HIDE DEF r
<1>6. CASE data' = [data EXCEPT ![q] = r.d]
  BY <1>2, <1>4, <1>6, PlainRequestInv, ZenonT(30) DEF FilesInv
<1>7. CASE data' = [WithTable(p, r.d.cwd) EXCEPT ![q] = r.d]
  <2>1. /\ DOMAIN data' = DOMAIN data \cup {p}
        /\ data'[q] = r.d
        /\ data'[p] = NewTable(r.d.cwd, TtyNode)
        /\ \A x \in DOMAIN data \ {q} : data'[x] = data[x]
    BY <1>1, <1>2, <1>7, ZenonT(30) DEF WithTable
  <2>2. TableInv(data'[p], TtyNode, lifo[p])
    BY <2>1, NewTableInv
  <2>3. \A x \in DOMAIN data' : TableInv(data'[x], TtyNode, lifo[x])
    BY <1>4, <2>1, <2>2, ZenonT(30) DEF FilesInv
  <2> QED
    BY <1>1, <1>2, <1>3, <2>1, <2>3, ZenonT(30) DEF FilesInv
<1> QED
  BY <1>5, <1>6, <1>7

\* Every step keeps the invariant.
LEMMA NextInv ==
  ASSUME FilesInv, [Next]_vars
  PROVE  FilesInv'
<1>1. CASE UNCHANGED vars
  <2>1. TtyNode' = TtyNode
    BY <1>1 DEF vars, TtyNode
  <2> QED
    BY <1>1, <2>1 DEF vars, FilesInv
<1>2. CASE RootInit \/ DevInit \/ RegisterDev \/ SpawnInit
  BY <1>2, BootInv
<1>3. ASSUME NEW t \in Task, Runs(t)
      PROVE  /\ ProcOf[t] \in DOMAIN data
             /\ TableInv(Table(t), TtyNode, lifo[ProcOf[t]])
  BY <1>3 DEF Runs, Table, FilesInv
<1>4. Fds \subseteq Nat
  BY NumNodesAssumption DEF Fds
<1>5. ASSUME NEW t \in Task, NEW s \in Paths, Open(t, s)
      PROVE  FilesInv'
  <2>1. /\ data' = [data EXCEPT ![ProcOf[t]] = OpenCall(Table(t), s).d]
        /\ UNCHANGED <<stage, fs, lifo, pend>>
    BY <1>5 DEF Open, OpenReturns, Return, Static
  <2>2. TableInv(OpenCall(Table(t), s).d, TtyNode, lifo[ProcOf[t]])
    BY <1>3, <1>5, OpenCallInv, ZenonT(30) DEF Open
  <2> QED
    BY <1>3, <1>5, <2>1, <2>2, PlainRequestInv, ZenonT(30) DEF Open, FilesInv
<1>6. ASSUME NEW t \in Task, NEW s \in Paths, SetCwd(t, s)
      PROVE  FilesInv'
  <2>1. /\ data' = [data EXCEPT ![ProcOf[t]] = SetCwdCall(Table(t), s).d]
        /\ UNCHANGED <<stage, fs, lifo, pend>>
    BY <1>6 DEF SetCwd, Return, Static
  <2>2. TableInv(SetCwdCall(Table(t), s).d, TtyNode, lifo[ProcOf[t]])
    BY <1>3, <1>6, SetCwdCallInv, ZenonT(30) DEF SetCwd
  <2> QED
    BY <1>3, <1>6, <2>1, <2>2, PlainRequestInv, ZenonT(30) DEF SetCwd, FilesInv
<1>7. ASSUME NEW t \in Task, NEW s \in Paths, Exec(t, s)
      PROVE  FilesInv'
  BY <1>7, ExecStepInv
<1>8. ASSUME NEW t \in Task, NEW fd \in Fds, Close(t, fd)
      PROVE  FilesInv'
  <2> DEFINE r == CloseCall(Table(t), fd)
             q == ProcOf[t]
             k == lifo[q] /\ (r.ret = 0 => fd = Table(t).files - 1)
  <2>1. /\ data' = [data EXCEPT ![q] = r.d]
        /\ lifo' = [lifo EXCEPT ![q] = k]
        /\ UNCHANGED <<stage, fs, pend>>
    BY <1>8, ZenonT(30) DEF Close, Return, Static
  <2>2. q \in DOMAIN data /\ TableInv(r.d, TtyNode, k)
    BY <1>3, <1>4, <1>8, CloseCallInv DEF Close
  <2> QED
    BY <2>1, <2>2, RequestInv, ZenonT(30) DEF FilesInv
<1>9. ASSUME NEW t \in Task, NEW fd \in Fds, Write(t, fd, 1)
      PROVE  FilesInv'
  <2>1. /\ data' = [data EXCEPT ![ProcOf[t]] = WriteCall(Table(t), fd, 1).d]
        /\ UNCHANGED <<stage, fs, lifo, pend>>
    BY <1>9, ZenonT(30) DEF Write, Return, Static
  <2>2. TableInv(WriteCall(Table(t), fd, 1).d, TtyNode, lifo[ProcOf[t]])
    BY <1>3, <1>4, <1>9, WriteCallInv DEF Write
  <2> QED
    BY <1>3, <1>9, <2>1, <2>2, PlainRequestInv, ZenonT(30) DEF Write, FilesInv
<1>10. ASSUME NEW t \in Task, NEW fd \in Fds, ReadDir(t, fd, 1)
       PROVE  FilesInv'
  <2>1. /\ data' = [data EXCEPT ![ProcOf[t]] = ReadDirCall(Table(t), fd, 1).d]
        /\ UNCHANGED <<stage, fs, lifo, pend>>
    BY <1>10, ZenonT(30) DEF ReadDir, Return, Static
  <2>2. ReadDirCall(Table(t), fd, 1).d = Table(t)
    BY ZenonT(30) DEF ReadDirCall, Result
  <2> QED
    BY <1>3, <1>10, <2>1, <2>2, PlainRequestInv, ZenonT(30) DEF ReadDir, FilesInv
<1>11. ASSUME NEW t \in Task, NEW fd \in Fds, NEW n \in Sizes, ReadNow(t, fd, n)
       PROVE  FilesInv'
  <2>1. /\ data' = [data EXCEPT ![ProcOf[t]] = ReadCall(Table(t), fd, n).d]
        /\ UNCHANGED <<stage, fs, lifo, pend>>
    BY <1>11, ZenonT(30) DEF ReadNow, Return, Static
  <2>2. TableInv(ReadCall(Table(t), fd, n).d, TtyNode, lifo[ProcOf[t]])
    BY <1>3, <1>4, <1>11, ReadCallInv, ZenonT(30) DEF ReadNow
  <2> QED
    BY <1>3, <1>11, <2>1, <2>2, PlainRequestInv, ZenonT(30) DEF ReadNow, FilesInv
<1>12. ASSUME NEW t \in Task, NEW fd \in Fds, ReadTty(t, fd, 1)
       PROVE  FilesInv'
  <2>1. fd \in Slots
    BY <1>4, <1>12, NumNodesAssumption DEF ReadTty, IsTty, OutOfBounds, Slots
  <2>2. /\ pend' = [pend EXCEPT ![t] = {[fd |-> fd, n |-> 1]}]
        /\ UNCHANGED <<stage, fs, lifo, data>>
    BY <1>12 DEF ReadTty, Static
  <2>3. pend' \in [Task -> SUBSET [fd : Slots, n : Nat]]
    BY <2>1, <2>2 DEF FilesInv
  <2>4. TtyNode' = TtyNode
    BY <2>2 DEF TtyNode
  <2> QED
    BY <2>2, <2>3, <2>4 DEF FilesInv
<1>13. ASSUME NEW t \in Task, ReadWakes(t)
       PROVE  FilesInv'
  <2>1. PICK r \in pend[t] :
          data' = [data EXCEPT ![ProcOf[t]] = Advanced(data[ProcOf[t]], r.fd, r.n)]
    BY <1>13, ZenonT(30) DEF ReadWakes
  <2>2. r.fd \in Slots /\ UNCHANGED <<stage, fs, lifo>>
    BY <1>13 DEF ReadWakes, Static, FilesInv
  <2>3. pend' \in [Task -> SUBSET [fd : Slots, n : Nat]]
    BY <1>13 DEF ReadWakes, FilesInv
  <2>4. CASE ProcOf[t] \in DOMAIN data
    BY <2>1, <2>2, <2>3, <2>4, AdvancedInv, PlainRequestInv, ZenonT(30) DEF FilesInv
  <2>5. CASE ProcOf[t] \notin DOMAIN data
    <3>1. DOMAIN data' = DOMAIN data /\ \A p \in DOMAIN data : data'[p] = data[p]
      BY <2>1, <2>5, ZenonT(30)
    <3>2. TtyNode' = TtyNode
      BY <2>2 DEF TtyNode
    <3> QED
      BY <2>2, <2>3, <3>1, <3>2, ZenonT(30) DEF FilesInv
  <2> QED
    BY <2>4, <2>5
<1>14. ASSUME NEW t \in Task, Exit(t)
       PROVE  FilesInv'
  <2>1. UNCHANGED <<stage, fs, data, lifo>>
    BY <1>14 DEF Exit
  <2>2. pend' \in [Task -> SUBSET [fd : Slots, n : Nat]]
    BY <1>14 DEF Exit, FilesInv
  <2>3. TtyNode' = TtyNode
    BY <2>1 DEF TtyNode
  <2> QED
    BY <2>1, <2>2, <2>3, ZenonT(30) DEF FilesInv
<1> QED
  BY <1>1, <1>2, <1>5, <1>6, <1>7, <1>8, <1>9, <1>10, <1>11, <1>12, <1>13, <1>14, ZenonT(30)
     DEF Next

\* FilesInv is an invariant of the file system.
THEOREM TablesConsistent == Spec => []FilesInv
  BY InitInv, NextInv, PTL DEF Spec

\* Descriptors 0, 1 and 2 of every process are what /dev/tty.serial opens,
\* for every table length, file tree and sequence of requests (Open and Close
\* of modules/vfs/src/lib.rs).
THEOREM StandardDescriptors == Spec => []StdioStays
<1>1. FilesInv => StdioStays
  BY ZenonT(30) DEF FilesInv, TableInv, StdioStays
<1> QED
  BY <1>1, TablesConsistent, PTL

\* A process that only closes its newest descriptor never loses another to
\* Open, whatever its threads, exec and reads that sleep do in between.
THEOREM DescriptorsStay == Spec => []DescriptorsKept
<1>1. FilesInv => DescriptorsKept
  BY DEF FilesInv, TableInv, DescriptorsKept
<1> QED
  BY <1>1, TablesConsistent, PTL

-----------------------------------------------------------------------------
(* The bytes read.                                                         *)

\* A slot holds at most one descriptor.
SlotsOK(d) ==
  \A i \in Slots : d.nodes[i] # {} => \E x : d.nodes[i] = {x} /\ x.offset \in Nat

\* What was delivered through a descriptor of a file is all up to its offset.
InOrder(d, got) ==
  \A i \in Slots : \A x \in d.nodes[i] :
    x.node.fs = "rootfs" => got[i] = [k \in 1..x.offset |-> k]

\* The slots that tasks of process p sleep on hold no file, if z are the
\* sleeping reads.
Sleepers == [Task -> SUBSET [fd : Slots, n : Nat]]

SleepOK(d, p, z) ==
  \A t \in Task : ProcOf[t] = p =>
    \A r \in z[t] : \A x \in d.nodes[r.fd] : x.node.fs # "rootfs"

\* The table of process p, when b says that a descriptor went away under a
\* sleeping read.
ReadsOK(d, p, b, got, z) ==
  /\ SlotsOK(d)
  /\ got \in [Slots -> Seq(Nat)]
  /\ b \/ (InOrder(d, got) /\ SleepOK(d, p, z))

ReadsInv ==
  /\ raced \in [Proc -> BOOLEAN]
  /\ seen \in [Proc -> [Slots -> Seq(Nat)]]
  /\ \A t \in Task : pend[t] # {} => ProcOf[t] \in DOMAIN data
  /\ \A p \in DOMAIN data : ReadsOK(data[p], p, raced[p], seen[p], pend)

\* A file has a length.
FilesLong ==
  \A s \in DOMAIN fs.ram : fs.ram[s].kind = "file" => fs.ram[s].len \in Nat

\* When the first process is spawned the serial line is there and is a device.
ConsoleUp ==
  stage \in {"spawn", "up"} => TtyNode.fs = "devfs" /\ FilesLong

\* The sleeping reads, as a function.
LEMMA PendType == FilesInv => pend \in Sleepers
  BY DEF FilesInv, Sleepers

\* Nothing is read before the first process.
LEMMA InitReads == Init => ReadsInv
<1> SUFFICES ASSUME Init PROVE ReadsInv
  OBVIOUS
<1>1. raced \in [Proc -> BOOLEAN] /\ seen \in [Proc -> [Slots -> Seq(Nat)]]
  BY DEF Init
<1>2. \A t \in Task : pend[t] = {}
  BY ZenonT(30) DEF Init
<1>3. DOMAIN data = {}
  BY DEF Init
<1> QED BY <1>1, <1>2, <1>3 DEF ReadsInv

\* Nothing was read through a new descriptor.
LEMMA FreshReads ==
  ASSUME NEW z \in Sleepers, NEW d, NEW q, NEW got \in [Slots -> Seq(Nat)], NEW node,
         TableShape(d), SlotsOK(d), d.files \in Slots
  PROVE  LET e == Opened(d, node)
             g == [got EXCEPT ![d.files] = <<>>]
         IN  /\ SlotsOK(e)
             /\ g \in [Slots -> Seq(Nat)]
             /\ InOrder(d, got) => InOrder(e, g)
             /\ SleepOK(d, q, z) /\ (\A t \in Task : ProcOf[t] = q => \A r \in z[t] : r.fd # d.files)
                  => SleepOK(e, q, z)
<1> DEFINE e == Opened(d, node)
           g == [got EXCEPT ![d.files] = <<>>]
           n == Descriptor(node)
<1>1. PICK N, C : d \in [nodes : [Slots -> N], cwd : C, files : Nat]
  BY ZenonT(30) DEF TableShape
<1>2. \A i \in Slots : e.nodes[i] = IF i = d.files THEN {n} ELSE d.nodes[i]
  BY <1>1 DEF Opened
<1>3. n.offset = 0
  BY DEF Descriptor
<1>4. g \in [Slots -> Seq(Nat)] /\ g[d.files] = <<>> /\ \A i \in Slots \ {d.files} : g[i] = got[i]
  OBVIOUS
<1> HIDE DEF e, g, n
<1>5. SlotsOK(e)
  <2>1. \E x : {n} = {x} /\ x.offset \in Nat
    BY <1>3
  <2> QED BY <1>2, <2>1, ZenonT(30) DEF SlotsOK
<1>6. ASSUME InOrder(d, got) PROVE InOrder(e, g)
  <2>1. ASSUME NEW i \in Slots, NEW x \in e.nodes[i], x.node.fs = "rootfs"
        PROVE  g[i] = [k \in 1..x.offset |-> k]
    <3>1. CASE i = d.files
      <4>1. x.offset = 0
        BY <1>2, <1>3, <3>1
      <4>2. [k \in 1..0 |-> k] = <<>>
        OBVIOUS
      <4> QED BY <1>4, <3>1, <4>1, <4>2
    <3>2. CASE i # d.files
      BY <1>2, <1>4, <1>6, <2>1, <3>2 DEF InOrder
    <3> QED BY <3>1, <3>2, ZenonT(30)
  <2> QED BY <2>1, ZenonT(30) DEF InOrder
<1>7. ASSUME SleepOK(d, q, z), \A t \in Task : ProcOf[t] = q => \A r \in z[t] : r.fd # d.files
      PROVE  SleepOK(e, q, z)
  <2>1. ASSUME NEW t \in Task, ProcOf[t] = q, NEW r \in z[t]
        PROVE  r.fd \in Slots /\ r.fd # d.files
    BY <1>7, <2>1 DEF Sleepers
  <2> QED BY <1>2, <1>7, <2>1, ZenonT(30) DEF SleepOK
<1> QED BY <1>4, <1>5, <1>6, <1>7 DEF e, g

\* Close empties a slot; nobody may sleep on it unseen.
LEMMA ClosedReads ==
  ASSUME NEW z \in Sleepers, NEW d, NEW q, NEW got, NEW fd \in Slots,
         TableShape(d), SlotsOK(d)
  PROVE  LET e == Closed(d, fd)
         IN  /\ SlotsOK(e)
             /\ InOrder(d, got) => InOrder(e, got)
             /\ SleepOK(d, q, z) => SleepOK(e, q, z)
<1> DEFINE e == Closed(d, fd)
<1>1. PICK N, C : d \in [nodes : [Slots -> N], cwd : C, files : Nat]
  BY DEF TableShape
<1>2. \A i \in Slots : e.nodes[i] = {} \/ e.nodes[i] = d.nodes[i]
  BY <1>1, ZenonT(30) DEF Closed
<1> HIDE DEF e
<1>3. SlotsOK(e)
  BY <1>2, ZenonT(30) DEF SlotsOK
<1>4. InOrder(d, got) => InOrder(e, got)
  BY <1>2 DEF InOrder
<1>5. SleepOK(d, q, z) => SleepOK(e, q, z)
  <2>1. \A t \in Task : \A r \in z[t] : r.fd \in Slots
    BY DEF Sleepers
  <2> QED BY <1>2, <2>1, ZenonT(30) DEF SleepOK
<1> QED BY <1>3, <1>4, <1>5 DEF e

\* The offset grows by what was delivered, if the descriptor is a file's.
LEMMA AdvancedSlots ==
  ASSUME NEW d, NEW fd \in Slots, NEW v \in Nat, TableShape(d), SlotsOK(d)
  PROVE  LET e == Advanced(d, fd, v)
         IN  /\ SlotsOK(e)
             /\ \A i \in Slots \ {fd} : e.nodes[i] = d.nodes[i]
             /\ \A y \in e.nodes[fd] :
                  \E x \in d.nodes[fd] : y.node = x.node /\ y.offset = x.offset + v
<1> DEFINE e == Advanced(d, fd, v)
           adv(x) == [node |-> x.node, offset |-> x.offset + v]
           n == {adv(x) : x \in d.nodes[fd]}
<1>1. PICK N, C : d \in [nodes : [Slots -> N], cwd : C, files : Nat]
  BY DEF TableShape
<1>2. \A i \in Slots : e.nodes[i] = IF i = fd THEN n ELSE d.nodes[i]
  BY <1>1 DEF Advanced
<1>3. \A x : adv(x).node = x.node /\ adv(x).offset = x.offset + v
  OBVIOUS
<1>4. n # {} => \E x : n = {adv(x)} /\ d.nodes[fd] = {x} /\ x.offset \in Nat
  <2>1. ASSUME NEW x, d.nodes[fd] = {x} PROVE n = {adv(x)}
    <3> HIDE DEF adv
    <3> QED BY <2>1
  <2>2. n # {} => d.nodes[fd] # {}
    OBVIOUS
  <2> HIDE DEF n, adv
  <2> QED BY <2>1, <2>2, ZenonT(30) DEF SlotsOK
<1> HIDE DEF e, n, adv
<1>5. SlotsOK(e)
  <2>1. n # {} => \E y : n = {y} /\ y.offset \in Nat
    BY <1>3, <1>4
  <2> QED BY <1>2, <2>1, ZenonT(30) DEF SlotsOK
<1>6. \A y \in n : \E x \in d.nodes[fd] : y.node = x.node /\ y.offset = x.offset + v
  BY <1>3 DEF n
<1> QED BY <1>2, <1>5, <1>6 DEF e

\* The slots that are slept on stay devices.
LEMMA AdvancedSleep ==
  ASSUME NEW z \in Sleepers, NEW d, NEW q, NEW fd \in Slots, NEW v \in Nat,
         TableShape(d), SlotsOK(d), SleepOK(d, q, z)
  PROVE  SleepOK(Advanced(d, fd, v), q, z)
<1> DEFINE e == Advanced(d, fd, v)
<1>1. /\ \A i \in Slots \ {fd} : e.nodes[i] = d.nodes[i]
      /\ \A y \in e.nodes[fd] :
           \E x \in d.nodes[fd] : y.node = x.node /\ y.offset = x.offset + v
  BY AdvancedSlots, ZenonT(30)
<1> HIDE DEF e
<1>2. \A t \in Task : \A r \in z[t] : r.fd \in Slots
  BY DEF Sleepers
<1>3. SleepOK(e, q, z)
  BY <1>1, <1>2 DEF SleepOK
<1> QED BY <1>3, ZenonT(30) DEF e

\* The bytes delivered and the offset grow together.
LEMMA AdvancedOrder ==
  ASSUME NEW d, NEW got, NEW g, NEW fd \in Slots, NEW v \in Nat,
         TableShape(d), SlotsOK(d), InOrder(d, got),
         \A i \in Slots \ {fd} : g[i] = got[i],
         \A x \in d.nodes[fd] :
            x.node.fs = "rootfs" => g[fd] = [k \in 1..(x.offset + v) |-> k]
  PROVE  InOrder(Advanced(d, fd, v), g)
<1> DEFINE e == Advanced(d, fd, v)
<1>1. /\ \A i \in Slots \ {fd} : e.nodes[i] = d.nodes[i]
      /\ \A y \in e.nodes[fd] :
           \E x \in d.nodes[fd] : y.node = x.node /\ y.offset = x.offset + v
  BY AdvancedSlots
<1> HIDE DEF e
<1>2. ASSUME NEW i \in Slots, NEW y \in e.nodes[i], y.node.fs = "rootfs"
      PROVE  g[i] = [k \in 1..y.offset |-> k]
  <2>1. CASE i = fd
    <3>1. PICK x \in d.nodes[fd] : y.node = x.node /\ y.offset = x.offset + v
      BY <1>1, <1>2, <2>1
    <3>2. g[fd] = [k \in 1..(x.offset + v) |-> k]
      BY <1>2, <3>1, ZenonT(30)
    <3> QED BY <2>1, <3>1, <3>2, ZenonT(30)
  <2>2. CASE i # fd
    BY <1>1, <1>2, <2>2, ZenonT(30) DEF InOrder
  <2> QED BY <2>1, <2>2, ZenonT(30)
<1>3. InOrder(e, g)
  BY <1>2 DEF InOrder
<1> QED BY <1>3, ZenonT(30) DEF e

\* A request that changes its caller's table and what it has seen.
LEMMA RequestReads ==
  ASSUME ReadsInv, NEW q \in DOMAIN data, DOMAIN data \subseteq Proc,
         NEW e, NEW b \in BOOLEAN, NEW got, ReadsOK(e, q, b, got, pend),
         data' = [data EXCEPT ![q] = e],
         raced' = [raced EXCEPT ![q] = b],
         seen' = [seen EXCEPT ![q] = got],
         pend' = pend
  PROVE  ReadsInv'
<1>1. q \in Proc
  OBVIOUS
<1>2. DOMAIN data' = DOMAIN data /\ \A p \in DOMAIN data : data'[p] = IF p = q THEN e ELSE data[p]
  OBVIOUS
<1>3. /\ raced' \in [Proc -> BOOLEAN] /\ seen' \in [Proc -> [Slots -> Seq(Nat)]]
      /\ \A p \in Proc : /\ raced'[p] = IF p = q THEN b ELSE raced[p]
                         /\ seen'[p] = IF p = q THEN got ELSE seen[p]
  <2>1. got \in [Slots -> Seq(Nat)]
    BY DEF ReadsOK
  <2> QED BY <1>1, <2>1, ZenonT(30) DEF ReadsInv
<1>4. ASSUME NEW p \in DOMAIN data PROVE ReadsOK(data'[p], p, raced'[p], seen'[p], pend)
  BY <1>2, <1>3 DEF ReadsInv
<1>5. \A p \in DOMAIN data' : ReadsOK(data[p], p, raced[p], seen[p], pend)'
  BY <1>2, <1>4 
<1> QED BY <1>2, <1>3, <1>5 DEF ReadsInv

\* A request that records nothing.
LEMMA PlainReads ==
  ASSUME ReadsInv, NEW q \in DOMAIN data, DOMAIN data \subseteq Proc,
         NEW e, ReadsOK(e, q, raced[q], seen[q], pend),
         data' = [data EXCEPT ![q] = e], UNCHANGED <<raced, seen, pend>>
  PROVE  ReadsInv'
<1>1. raced[q] \in BOOLEAN /\ raced' = [raced EXCEPT ![q] = raced[q]]
  BY DEF ReadsInv
<1>2. seen' = [seen EXCEPT ![q] = seen[q]]
  BY DEF ReadsInv
<1>3. pend' = pend
  OBVIOUS
<1> QED BY <1>1, <1>2, <1>3, RequestReads, ZenonT(30)

\* The table of a new process holds the serial line only.
LEMMA NewReads ==
  ASSUME NEW z, NEW cwd, NEW tty, tty.fs = "devfs", NEW p, NEW b, NEW got \in [Slots -> Seq(Nat)], z \in Sleepers
  PROVE  ReadsOK(NewTable(cwd, tty), p, b, got, z)
<1> DEFINE d == NewTable(cwd, tty)
           n == Descriptor(tty)
<1>1. \A i \in Slots : d.nodes[i] = IF i < 3 THEN {n} ELSE {}
  BY DEF NewTable
<1>2. n.node = tty /\ n.offset = 0
  BY DEF Descriptor
<1> HIDE DEF d, n
<1>3. SlotsOK(d)
  <2>1. \E x : {n} = {x} /\ x.offset \in Nat
    BY <1>2
  <2> QED BY <1>1, <2>1, ZenonT(30) DEF SlotsOK
<1>4. \A i \in Slots : \A x \in d.nodes[i] : x.node.fs # "rootfs"
  BY <1>1, <1>2
<1>5. InOrder(d, got)
  BY <1>4 DEF InOrder
<1>6. SleepOK(d, p, z)
  <2>1. \A t \in Task : \A r \in z[t] : r.fd \in Slots
    BY DEF Sleepers
  <2> QED BY <1>4, <2>1 DEF SleepOK
<1>7. ReadsOK(d, p, b, got, z)
  BY <1>3, <1>5, <1>6 DEF ReadsOK
<1> QED BY <1>7 DEF d

\* The steps of the module loader.
LEMMA BootReads ==
  ASSUME FilesInv, ConsoleUp, ReadsInv, RootInit \/ DevInit \/ RegisterDev \/ SpawnInit
  PROVE  ReadsInv'
<1>1. DOMAIN data = {}
  BY ZenonT(30) DEF FilesInv, RootInit, DevInit, RegisterDev, SpawnInit, Booting
<1>2. UNCHANGED <<pend, raced, seen>>
  BY ZenonT(30) DEF RootInit, DevInit, RegisterDev, SpawnInit, Idle
<1>3. CASE data' = data
  BY <1>1, <1>2, <1>3 DEF ReadsInv
<1>4. CASE SpawnInit /\ data' = WithTable(1, Slash)
  <2>2. TtyNode.fs = "devfs"
    BY <1>4, ZenonT(30) DEF SpawnInit, Booting, ConsoleUp
  <2>3. DOMAIN data' = {1} /\ data'[1] = NewTable(Slash, TtyNode)
    BY <1>1, <1>4 DEF WithTable
  <2>4. ReadsOK(data'[1], 1, raced[1], seen[1], pend)
    BY <2>2, <2>3, NewReads, FirstProcess, PendType DEF ReadsInv
  <2>5. \A p \in DOMAIN data' : ReadsOK(data[p], p, raced[p], seen[p], pend)'
    BY <1>2, <2>3, <2>4 , ZenonT(30)
  <2>6. \A t \in Task : pend'[t] = {}
    BY <1>1, <1>2, ZenonT(30) DEF ReadsInv
  <2> QED BY <1>2, <2>5, <2>6, ZenonT(30) DEF ReadsInv
<1> QED BY <1>3, <1>4 DEF RootInit, DevInit, RegisterDev, SpawnInit

\* Open: nothing, or a descriptor in a slot where nobody sleeps unseen.
LEMMA OpenReads ==
  ASSUME FilesInv, ReadsInv, NEW q \in DOMAIN data, NEW s,
         NEW o, o = OpenCall(data[q], s),
         o.ret >= 0 => OpenedAs(q, o.ret),
         ~(o.ret >= 0) => UNCHANGED <<raced, seen>>
  PROVE  /\ ReadsOK(o.d, q, raced'[q], seen'[q], pend)
         /\ raced' = [raced EXCEPT ![q] = raced'[q]] /\ raced'[q] \in BOOLEAN
         /\ seen' = [seen EXCEPT ![q] = seen'[q]]
         /\ TableShape(o.d)
         /\ o.ret >= 0 => o.ret \in Slots
<1> DEFINE d == data[q]
<1>1. TableInv(d, TtyNode, lifo[q]) /\ q \in Proc /\ ReadsOK(d, q, raced[q], seen[q], pend)
  BY ZenonT(30) DEF FilesInv, ReadsInv
<1>2. TableShape(o.d) /\ (o.ret >= 0 => o.ret \in Slots)
  BY <1>1, OpenCallInv, ZenonT(30) DEF TableInv
<1>3. PICK w, node :
           \/ OpenCall(d, s) = Result(d, -1, w)
           \/ /\ ~OutOfBounds(d.files)
              /\ OpenCall(d, s) = Result(Opened(d, node), d.files, "no")
  BY OpenCallCases, ZenonT(30)
<1>4. CASE OpenCall(d, s) = Result(d, -1, w)
  <2>1. o.d = d /\ o.ret = -1
    BY <1>4 DEF Result
  <2>2. UNCHANGED <<raced, seen>>
    BY <2>1
  <2> QED BY <1>1, <1>2, <2>1, <2>2, ZenonT(30) DEF ReadsInv
<1>5. CASE ~OutOfBounds(d.files) /\ OpenCall(d, s) = Result(Opened(d, node), d.files, "no")
  <2>1. o.d = Opened(d, node) /\ o.ret = d.files
    BY <1>5 DEF Result
  <2>2. d.files \in Nat /\ d.files \in Slots
    BY <1>1, <1>5, NumNodesAssumption DEF TableInv, TableShape, OutOfBounds, Slots
  <2>3. /\ raced' = [raced EXCEPT ![q] = @ \/ ReadSleeps(q, d.files)]
        /\ seen' = [seen EXCEPT ![q][d.files] = <<>>]
    BY <2>1, <2>2 DEF OpenedAs
  <2>4. /\ raced'[q] = (raced[q] \/ ReadSleeps(q, d.files))
        /\ raced[q] \in BOOLEAN
        /\ seen'[q] = [seen[q] EXCEPT ![d.files] = <<>>]
        /\ seen' = [seen EXCEPT ![q] = seen'[q]]
    BY <1>1, <2>3, ZenonT(30) DEF ReadsInv
  <2>5. raced'[q] \in BOOLEAN /\ raced' = [raced EXCEPT ![q] = raced'[q]]
    BY <1>1, <2>3, <2>4, ZenonT(30) DEF ReadsInv, ReadSleeps
  <2>6. ReadsOK(Opened(d, node), q, raced'[q], [seen[q] EXCEPT ![d.files] = <<>>], pend)
    <3> DEFINE e == Opened(d, node)
               g == [seen[q] EXCEPT ![d.files] = <<>>]
    <3>1. /\ pend \in Sleepers /\ TableShape(d) /\ SlotsOK(d)
          /\ seen[q] \in [Slots -> Seq(Nat)]
          /\ raced[q] \/ (InOrder(d, seen[q]) /\ SleepOK(d, q, pend))
      BY <1>1, PendType, ZenonT(30) DEF TableInv, ReadsOK
    <3>2. /\ SlotsOK(e) /\ g \in [Slots -> Seq(Nat)]
          /\ InOrder(d, seen[q]) => InOrder(e, g)
          /\ SleepOK(d, q, pend)
             /\ (\A t \in Task : ProcOf[t] = q => \A r \in pend[t] : r.fd # d.files)
                  => SleepOK(e, q, pend)
      BY <2>2, <3>1, FreshReads, ZenonT(30)
    <3>3. raced'[q] \/ \A t \in Task : ProcOf[t] = q => \A r \in pend[t] : r.fd # d.files
      BY <2>4, ZenonT(30) DEF ReadSleeps
    <3> HIDE DEF e, g
    <3>4. raced'[q] \/ (InOrder(e, g) /\ SleepOK(e, q, pend))
      BY <2>4, <3>1, <3>2, <3>3, ZenonT(30)
    <3>5. ReadsOK(e, q, raced'[q], g, pend)
      <4> DEFINE b == raced'[q]
      <4>1. /\ SlotsOK(e) /\ g \in [Slots -> Seq(Nat)]
            /\ b \/ (InOrder(e, g) /\ SleepOK(e, q, pend))
        BY <3>2, <3>4, ZenonT(30)
      <4> HIDE DEF b
      <4>2. ReadsOK(e, q, b, g, pend)
        BY <4>1, ZenonT(30) DEF ReadsOK
      <4> QED BY <4>2, ZenonT(30) DEF b
    <3> QED BY <3>5, ZenonT(30) DEF e, g
  <2> QED BY <1>2, <2>1, <2>4, <2>5, <2>6, ZenonT(30)
<1> QED BY <1>3, <1>4, <1>5, ZenonT(30)

\* Exec opens, reads and closes in the caller, and makes a table.
LEMMA ExecReads ==
  ASSUME FilesInv, ConsoleUp, ReadsInv, NEW t \in Task, NEW s \in Paths, Exec(t, s)
  PROVE  ReadsInv'
<1> DEFINE q == ProcOf[t]
           d == data[q]
           o == OpenCall(d, s)
           r == ExecOpened(o)
<1>1. PICK p \in Proc \ DOMAIN data : ExecReturns(t, p, o, r)
  BY ZenonT(30) DEF Exec, Table
<1>2. q \in DOMAIN data /\ pend' = pend /\ DOMAIN data \subseteq Proc
  BY ZenonT(30) DEF Exec, Runs, FilesInv
<1>3. (o.ret >= 0 => OpenedAs(q, o.ret)) /\ (~(o.ret >= 0) => UNCHANGED <<raced, seen>>)
  BY <1>1, ZenonT(30) DEF ExecReturns
<1>4. /\ ReadsOK(o.d, q, raced'[q], seen'[q], pend)
      /\ raced' = [raced EXCEPT ![q] = raced'[q]] /\ raced'[q] \in BOOLEAN
      /\ seen' = [seen EXCEPT ![q] = seen'[q]]
      /\ TableShape(o.d)
      /\ o.ret >= 0 => o.ret \in Slots
  BY <1>2, <1>3, OpenReads, ZenonT(30)
<1>5. \/ data' = [data EXCEPT ![q] = r.d]
      \/ data' = [WithTable(p, r.d.cwd) EXCEPT ![q] = r.d]
  BY <1>1, ZenonT(30) DEF ExecReturns
<1>6. o.ret \in Int
  <2>1. d.files \in Nat
    BY <1>2, ZenonT(30) DEF FilesInv, TableInv, TableShape
  <2> QED BY <2>1, OpenCallCases DEF Result
<1> HIDE DEF o
<1>7. ReadsOK(r.d, q, raced'[q], seen'[q], pend)
  <2>1. ASSUME NEW node
        PROVE  \/ ExecRead(o.d, o.ret, node).d = o.d
               \/ ExecRead(o.d, o.ret, node).d = Closed(o.d, o.ret)
    BY ZenonT(30) DEF ExecRead, Result
  <2>2. r.d = o.d \/ (o.ret >= 0 /\ r.d = Closed(o.d, o.ret))
    BY <1>6, <2>1 DEF ExecOpened
  <2> HIDE DEF r
  <2>3. o.ret >= 0 => ReadsOK(Closed(o.d, o.ret), q, raced'[q], seen'[q], pend)
    <3>1. ASSUME o.ret >= 0 PROVE ReadsOK(Closed(o.d, o.ret), q, raced'[q], seen'[q], pend)
      <4>1. o.ret \in Slots /\ TableShape(o.d) /\ SlotsOK(o.d) /\ pend \in Sleepers
        BY <1>4, <3>1, PendType, ZenonT(30) DEF ReadsOK
      <4> DEFINE e == Closed(o.d, o.ret)
                 g == seen'[q]
      <4>2. /\ SlotsOK(e)
            /\ InOrder(o.d, g) => InOrder(e, g)
            /\ SleepOK(o.d, q, pend) => SleepOK(e, q, pend)
        BY <4>1, ClosedReads, ZenonT(30)
      <4> HIDE DEF e
      <4>3. ReadsOK(e, q, raced'[q], seen'[q], pend)
        BY <1>4, <4>2, ZenonT(30) DEF ReadsOK
      <4> QED BY <4>3, ZenonT(30) DEF e
    <3> QED BY <3>1, ZenonT(30)
  <2> QED BY <1>4, <2>2, <2>3, ZenonT(30)
<1> HIDE DEF r
<1>8. CASE data' = [data EXCEPT ![q] = r.d]
  BY <1>2, <1>4, <1>7, <1>8, RequestReads, ZenonT(30)
<1>9. CASE data' = [WithTable(p, r.d.cwd) EXCEPT ![q] = r.d]
  <2>1. /\ DOMAIN data' = DOMAIN data \cup {p}
        /\ data'[q] = r.d
        /\ data'[p] = NewTable(r.d.cwd, TtyNode)
        /\ \A x \in DOMAIN data \ {q} : data'[x] = data[x]
    BY <1>1, <1>2, <1>9, ZenonT(30) DEF WithTable
  <2>3. TtyNode.fs = "devfs"
    BY <1>2, ZenonT(30) DEF FilesInv, ConsoleUp
  <2>4. p # q /\ p \in Proc /\ q \in Proc
    BY <1>1, <1>2, ZenonT(30)
  <2>5. /\ raced' \in [Proc -> BOOLEAN] /\ seen' \in [Proc -> [Slots -> Seq(Nat)]]
        /\ \A x \in Proc \ {q} : raced'[x] = raced[x] /\ seen'[x] = seen[x]
    <3>1. seen'[q] \in [Slots -> Seq(Nat)]
      BY <1>4, ZenonT(30) DEF ReadsOK
    <3> DEFINE b == raced'[q]
               g == seen'[q]
    <3> HIDE DEF b, g
    <3>2. raced' = [raced EXCEPT ![q] = b] /\ seen' = [seen EXCEPT ![q] = g]
          /\ b \in BOOLEAN /\ g \in [Slots -> Seq(Nat)]
      BY <1>4, <3>1, ZenonT(30) DEF b, g
    <3> QED BY <2>4, <3>2, ZenonT(30) DEF ReadsInv
  <2>6. ReadsOK(data'[p], p, raced'[p], seen'[p], pend)
    BY <2>1, <2>3, <2>4, <2>5, NewReads, PendType
  <2>7. ASSUME NEW x \in DOMAIN data' PROVE ReadsOK(data'[x], x, raced'[x], seen'[x], pend)
    BY <1>2, <1>7, <2>1, <2>5, <2>6, ZenonT(30) DEF ReadsInv
  <2>8. \A x \in DOMAIN data' : ReadsOK(data[x], x, raced[x], seen[x], pend)'
    BY <1>2, <2>7 
  <2>9. \A u \in Task : pend'[u] # {} => ProcOf[u] \in DOMAIN data'
    BY <1>2, <2>1, ZenonT(30) DEF ReadsInv
  <2> QED BY <2>5, <2>8, <2>9, ZenonT(30) DEF ReadsInv
<1> QED BY <1>5, <1>8, <1>9, ZenonT(30)

\* A read of the root file system: what it delivers is what the offset grows
\* by.
LEMMA RootReads ==
  ASSUME FilesLong, NEW x, x.offset \in Nat, NEW n \in Sizes, NEW v \in RootRead(x, n)
  PROVE  v \in Nat
<1>1. PICK e \in Get(fs.ram, x.node.path) :
        /\ e.kind = "file"
        /\ v = IF x.offset >= e.len THEN 0
               ELSE (IF e.len < x.offset + n THEN e.len ELSE x.offset + n) - x.offset
  BY ZenonT(30) DEF RootRead
<1>3. e.len \in Nat
  BY <1>1 DEF Get, FilesLong
<1>4. n \in Nat
  BY DEF Sizes
<1> QED BY <1>1, <1>3, <1>4

\* Counting on from n by v is counting to n + v.
LEMMA CountOn ==
  ASSUME NEW n \in Nat, NEW v \in Nat
  PROVE  [k \in 1..n |-> k] \o [i \in 1..v |-> n + i] = [k \in 1..(n + v) |-> k]
<1> DEFINE a == [k \in 1..n |-> k]
           b == [i \in 1..v |-> n + i]
           w == a \o b
<1>1. a \in Seq(Nat) /\ Len(a) = n /\ b \in Seq(Nat) /\ Len(b) = v
  OBVIOUS
<1>2. ASSUME NEW k \in 1..(n + v) PROVE w[k] = k
  BY <1>1
<1>3. w \in Seq(Nat) /\ Len(w) = n + v
  <2> HIDE DEF a, b
  <2> QED BY <1>1
<1> HIDE DEF w
<1>4. w \in [1..(n + v) -> Nat]
  BY <1>3
<1>5. w = [k \in 1..(n + v) |-> k]
  BY <1>2, <1>4, ZenonT(30)
<1> QED BY <1>5 DEF w

\* A read of a file appends what it delivers.
LEMMA ReadNowReads ==
  ASSUME FilesInv, ConsoleUp, ReadsInv,
         NEW t \in Task, NEW fd \in Fds, NEW n \in Sizes, ReadNow(t, fd, n)
  PROVE  ReadsInv'
<1> DEFINE q == ProcOf[t]
           d == data[q]
           r == ReadCall(d, fd, n)
           g == seen[q]
           off == The(d.nodes[fd]).offset
           new == g[fd] \o [i \in 1..r.ret |-> off + i]
           got == IF r.ret <= 0 THEN g ELSE [g EXCEPT ![fd] = new]
<1>1. q \in DOMAIN data /\ UNCHANGED <<pend, raced>> /\ DOMAIN data \subseteq Proc
  BY ZenonT(30) DEF ReadNow, Runs, FilesInv
<1>2. data' = [data EXCEPT ![q] = r.d]
  BY ZenonT(30) DEF ReadNow, Return, Table
<1>3. seen' = [seen EXCEPT ![q] = got]
  <2>1. CASE r.ret <= 0
    <3>1. seen' = seen /\ got = seen[q]
      BY <2>1, ZenonT(30) DEF ReadNow, Table
    <3> HIDE DEF got, r
    <3> QED BY <1>1, <3>1, ZenonT(30) DEF ReadsInv
  <2>2. CASE ~(r.ret <= 0)
    <3>1. seen' = [seen EXCEPT ![q][fd] = new] /\ got = [seen[q] EXCEPT ![fd] = new]
      BY <2>2, ZenonT(30) DEF ReadNow, Table
    <3> HIDE DEF got, r, new
    <3> QED BY <1>1, <3>1, ZenonT(30) DEF ReadsInv
  <2> QED BY <2>1, <2>2, ZenonT(30)
<1>4. ReadsOK(d, q, raced[q], g, pend) /\ TableShape(d) /\ FilesLong
  BY <1>1, ZenonT(30) DEF ReadsInv, FilesInv, TableInv, ConsoleUp
<1>5. raced[q] \in BOOLEAN /\ raced' = [raced EXCEPT ![q] = raced[q]] /\ pend \in Sleepers
  BY <1>1, PendType, ZenonT(30) DEF ReadsInv
<1>6. CASE r.d = d /\ r.ret <= 0
  <2>1. ReadsOK(r.d, q, raced[q], got, pend)
    BY <1>4, <1>6, ZenonT(30)
  <2> HIDE DEF r, got
  <2> QED BY <1>1, <1>2, <1>3, <1>5, <2>1, RequestReads, ZenonT(30)
<1>7. CASE ~(r.d = d /\ r.ret <= 0)
  <2> DEFINE x == The(d.nodes[fd])
             v == The(RootRead(x, n))
             e == Advanced(d, fd, v)
  <2>1. /\ ~OutOfBounds(fd) /\ d.nodes[fd] # {} /\ RootRead(x, n) # {}
        /\ r = Result(e, v, "no")
    <3>1. ASSUME NEW w PROVE r # Result(d, -1, w)
      <4>1. Result(d, -1, w).d = d /\ Result(d, -1, w).ret = -1
        BY ZenonT(30) DEF Result
      <4> HIDE DEF r
      <4> QED BY <1>7, <4>1
    <3> QED BY <3>1, ZenonT(30) DEF ReadCall
  <2>2. r.d = e /\ r.ret = v
    BY <2>1 DEF Result
  <2>3. fd \in Slots
    <3>1. ~OutOfBounds(fd)
      BY <2>1, ZenonT(30)
    <3> QED BY <3>1, NumNodesAssumption DEF OutOfBounds, Fds, Slots
  <2>4. PICK y : d.nodes[fd] = {y} /\ y.offset \in Nat
    BY <1>4, <2>1, <2>3, ZenonT(30) DEF ReadsOK, SlotsOK
  <2>5. x = y
    BY <2>4, ZenonT(30) DEF The
  <2>6. v \in Nat
    <3>1. v \in RootRead(x, n)
      BY <2>1, ZenonT(30) DEF The
    <3> HIDE DEF v
    <3> QED BY <1>4, <2>4, <2>5, <3>1, RootReads, ZenonT(30)
  <2>7. off = x.offset /\ x.offset \in Nat /\ d.nodes[fd] = {x} /\ g \in [Slots -> Seq(Nat)]
    BY <1>4, <2>4, <2>5, ZenonT(30) DEF x, ReadsOK
  <2> HIDE DEF r, x, v, e, off, g
  <2> DEFINE more == [i \in 1..v |-> x.offset + i]
  <2>8. new = g[fd] \o more
    BY <2>2, <2>7, ZenonT(30)
  <2>9. new \in Seq(Nat)
    <3>1. more \in Seq(Nat) /\ g[fd] \in Seq(Nat)
      BY <2>3, <2>6, <2>7
    <3> HIDE DEF more, new
    <3> QED BY <2>8, <3>1
  <2>10. ASSUME g[fd] = [k \in 1..x.offset |-> k]
         PROVE  new = [k \in 1..(x.offset + v) |-> k]
    BY <2>6, <2>7, <2>8, <2>10, CountOn, ZenonT(30)
  <2>11. v = 0 => got = g
    BY <2>2
  <2>12. v # 0 => got = [g EXCEPT ![fd] = new]
    BY <2>2, <2>6
  <2> HIDE DEF new, got, more
  <2>13. got \in [Slots -> Seq(Nat)] /\ \A i \in Slots \ {fd} : got[i] = g[i]
    BY <2>7, <2>9, <2>11, <2>12, ZenonT(30)
  <2>14. ASSUME InOrder(d, g), x.node.fs = "rootfs"
         PROVE  got[fd] = [k \in 1..(x.offset + v) |-> k]
    <3>1. g[fd] = [k \in 1..x.offset |-> k]
      BY <2>3, <2>7, <2>14, ZenonT(30) DEF InOrder
    <3>2. CASE v = 0
      <4>1. x.offset + v = x.offset
        BY <2>7, <3>2
      <4> QED BY <2>11, <3>1, <3>2, <4>1, ZenonT(30)
    <3>3. CASE v # 0
      BY <2>3, <2>7, <2>10, <2>12, <3>1, <3>3, ZenonT(30)
    <3> QED BY <3>2, <3>3, ZenonT(30)
  <2>15. /\ SlotsOK(d) /\ pend \in Sleepers
         /\ raced[q] \/ (InOrder(d, g) /\ SleepOK(d, q, pend))
    BY <1>4, <1>5, ZenonT(30) DEF ReadsOK
  <2>16. /\ SlotsOK(e)
         /\ SleepOK(d, q, pend) => SleepOK(e, q, pend)
         /\ InOrder(d, g) => InOrder(e, got)
    <3>1. SlotsOK(e)
      BY <1>4, <2>3, <2>6, <2>15, AdvancedSlots, ZenonT(30) DEF e
    <3>2. SleepOK(d, q, pend) => SleepOK(e, q, pend)
      BY <1>4, <2>3, <2>6, <2>15, AdvancedSleep, ZenonT(30) DEF e
    <3>3. ASSUME InOrder(d, g) PROVE InOrder(e, got)
      <4>1. \A y0 \in d.nodes[fd] :
              y0.node.fs = "rootfs" => got[fd] = [k \in 1..(y0.offset + v) |-> k]
        BY <2>7, <2>14, <3>3, ZenonT(30)
      <4> QED BY <1>4, <2>3, <2>6, <2>13, <2>15, <3>3, <4>1, AdvancedOrder, ZenonT(30) DEF e
    <3> QED BY <3>1, <3>2, <3>3, ZenonT(30)
  <2>17. ReadsOK(e, q, raced[q], got, pend)
    BY <2>13, <2>15, <2>16, ZenonT(30) DEF ReadsOK
  <2> QED BY <1>1, <1>2, <1>3, <1>5, <2>2, <2>17, RequestReads, ZenonT(30)
<1> QED BY <1>6, <1>7, ZenonT(30)

\* Fewer sleeping reads.
LEMMA FewerSleep ==
  ASSUME NEW d, NEW p, NEW b, NEW got, NEW z, NEW y, ReadsOK(d, p, b, got, z),
         \A t \in Task : y[t] \subseteq z[t]
  PROVE  ReadsOK(d, p, b, got, y)
  BY DEF ReadsOK, SleepOK

\* A write delivers nothing, and moves only the offset of a device.
LEMMA WriteReads ==
  ASSUME FilesInv, ReadsInv, NEW t \in Task, NEW fd \in Fds, Write(t, fd, 1)
  PROVE  ReadsInv'
<1> DEFINE q == ProcOf[t]
           d == data[q]
           r == WriteCall(d, fd, 1)
           e == Advanced(d, fd, 1)
<1>1. /\ q \in DOMAIN data /\ UNCHANGED <<pend, raced, seen>> /\ DOMAIN data \subseteq Proc
      /\ data' = [data EXCEPT ![q] = r.d]
  BY ZenonT(30) DEF Write, Runs, Return, Table, FilesInv
<1>2. ReadsOK(d, q, raced[q], seen[q], pend) /\ TableShape(d)
  BY <1>1, ZenonT(30) DEF ReadsInv, FilesInv, TableInv
<1>3. ReadsOK(r.d, q, raced[q], seen[q], pend)
  <2>1. \/ r.d = d
        \/ /\ r.d = e /\ ~OutOfBounds(fd) /\ d.nodes[fd] # {}
           /\ The(d.nodes[fd]).node.fs # "rootfs"
    BY ZenonT(30) DEF WriteCall, Result
  <2>2. CASE r.d = d
    BY <1>2, <2>2, ZenonT(30)
  <2>3. CASE /\ r.d = e /\ ~OutOfBounds(fd) /\ d.nodes[fd] # {}
             /\ The(d.nodes[fd]).node.fs # "rootfs"
    <3>1. fd \in Slots
      BY <2>3, NumNodesAssumption DEF OutOfBounds, Fds, Slots
    <3>2. /\ SlotsOK(d) /\ pend \in Sleepers /\ seen[q] \in [Slots -> Seq(Nat)]
          /\ raced[q] \/ (InOrder(d, seen[q]) /\ SleepOK(d, q, pend))
      BY <1>2, PendType, ZenonT(30) DEF ReadsOK
    <3>3. \A x \in d.nodes[fd] : x.node.fs # "rootfs"
      <4>1. PICK y : d.nodes[fd] = {y}
        BY <2>3, <3>1, <3>2, ZenonT(30) DEF SlotsOK
      <4> QED BY <2>3, <4>1 DEF The
    <3>4. SlotsOK(e)
      BY <1>2, <3>1, <3>2, AdvancedSlots, ZenonT(30)
    <3>5. SleepOK(d, q, pend) => SleepOK(e, q, pend)
      BY <1>2, <3>1, <3>2, AdvancedSleep, ZenonT(30)
    <3>6. InOrder(d, seen[q]) => InOrder(e, seen[q])
      BY <1>2, <3>1, <3>2, <3>3, AdvancedOrder, ZenonT(30)
    <3> HIDE DEF e
    <3> QED BY <2>3, <3>2, <3>4, <3>5, <3>6, ZenonT(30) DEF ReadsOK
  <2> QED BY <2>1, <2>2, <2>3, ZenonT(30)
<1> HIDE DEF r
<1> QED BY <1>1, <1>3, PlainReads, ZenonT(30)

\* A sleeping read ends: its length is added to the slot, which holds a device.
LEMMA WakesReads ==
  ASSUME FilesInv, ReadsInv, NEW t \in Task, ReadWakes(t)
  PROVE  ReadsInv'
<1> DEFINE q == ProcOf[t]
           d == data[q]
<1>1. PICK r \in pend[t] : data' = [data EXCEPT ![q] = Advanced(data[q], r.fd, r.n)]
  BY ZenonT(30) DEF ReadWakes
<1> DEFINE e == Advanced(d, r.fd, r.n)
<1>2. r.fd \in Slots /\ r.n \in Nat /\ q \in DOMAIN data /\ pend \in Sleepers
  BY <1>1, PendType DEF FilesInv, ReadsInv
<1>3. UNCHANGED <<raced, seen>> /\ pend' = [pend EXCEPT ![t] = {}]
  BY DEF ReadWakes
<1>4. /\ ReadsOK(d, q, raced[q], seen[q], pend) /\ TableShape(d)
      /\ SlotsOK(d) /\ seen[q] \in [Slots -> Seq(Nat)]
      /\ raced[q] \/ (InOrder(d, seen[q]) /\ SleepOK(d, q, pend))
  BY <1>2, ZenonT(30) DEF ReadsInv, FilesInv, TableInv, ReadsOK
<1>5. ReadsOK(e, q, raced[q], seen[q], pend)
  <2>1. SlotsOK(e)
    BY <1>2, <1>4, AdvancedSlots, ZenonT(30)
  <2>2. SleepOK(d, q, pend) => SleepOK(e, q, pend)
    BY <1>2, <1>4, AdvancedSleep, ZenonT(30)
  <2>3. SleepOK(d, q, pend) => \A x \in d.nodes[r.fd] : x.node.fs # "rootfs"
    BY <1>1 DEF SleepOK
  <2>4. SleepOK(d, q, pend) /\ InOrder(d, seen[q]) => InOrder(e, seen[q])
    BY <1>2, <1>4, <2>3, AdvancedOrder, ZenonT(30)
  <2> HIDE DEF e
  <2> QED BY <1>4, <2>1, <2>2, <2>4, ZenonT(30) DEF ReadsOK
<1> HIDE DEF e
<1>6. DOMAIN data' = DOMAIN data /\ \A p \in DOMAIN data : data'[p] = IF p = q THEN e ELSE data[p]
  BY <1>1, ZenonT(30) DEF e
<1>7. \A u \in Task : pend'[u] \subseteq pend[u]
  BY <1>3, ZenonT(30) DEF FilesInv
<1>8. ASSUME NEW p \in DOMAIN data PROVE ReadsOK(data'[p], p, raced[p], seen[p], pend)
  BY <1>5, <1>6, ZenonT(30) DEF ReadsInv
<1>9. ASSUME NEW p \in DOMAIN data PROVE ReadsOK(data'[p], p, raced'[p], seen'[p], pend')
  BY <1>3, <1>7, <1>8, FewerSleep, ZenonT(30)
<1>10. \A u \in Task : pend'[u] # {} => ProcOf[u] \in DOMAIN data'
  BY <1>6, <1>7, ZenonT(30) DEF ReadsInv
<1> QED BY <1>3, <1>6, <1>9, <1>10, ZenonT(30) DEF ReadsInv

\* A read of the serial line goes to sleep.
LEMMA TtyReads ==
  ASSUME FilesInv, ReadsInv, NEW t \in Task, NEW fd \in Fds, ReadTty(t, fd, 1)
  PROVE  ReadsInv'
<1> DEFINE q == ProcOf[t]
           d == data[q]
<1>1. /\ q \in DOMAIN data /\ UNCHANGED <<data, raced, seen>>
      /\ pend' = [pend EXCEPT ![t] = {[fd |-> fd, n |-> 1]}]
      /\ fd \in Slots
  <2>1. fd \in Nat
    BY NumNodesAssumption DEF Fds
  <2> QED BY <2>1, NumNodesAssumption DEF ReadTty, Runs, IsTty, OutOfBounds, Slots
<1>2. \A x \in d.nodes[fd] : x.node.fs # "rootfs"
  <2>1. PICK x \in d.nodes[fd] : x.node.fs = "devfs"
    BY ZenonT(30) DEF ReadTty, IsTty, Table
  <2>2. PICK y : d.nodes[fd] = {y}
    BY <1>1, <2>1, ZenonT(30) DEF ReadsInv, ReadsOK, SlotsOK
  <2> QED BY <2>1, <2>2
<1>3. ASSUME NEW p \in DOMAIN data, SleepOK(data[p], p, pend)
      PROVE  SleepOK(data[p], p, pend')
  <2>1. ASSUME NEW u \in Task, ProcOf[u] = p, NEW r \in pend'[u], NEW x \in data[p].nodes[r.fd]
        PROVE  x.node.fs # "rootfs"
    <3>1. CASE u = t
      <4>1. r = [fd |-> fd, n |-> 1]
        BY <1>1, <2>1, <3>1, ZenonT(30) DEF FilesInv
      <4>2. r.fd = fd /\ p = q
        BY <2>1, <3>1, <4>1, ZenonT(30)
      <4> QED BY <1>2, <2>1, <4>2, ZenonT(30)
    <3>2. CASE u # t
      <4>1. r \in pend[u]
        BY <1>1, <2>1, <3>2, ZenonT(30) DEF FilesInv
      <4> QED BY <1>3, <2>1, <4>1, ZenonT(30) DEF SleepOK
    <3> QED BY <3>1, <3>2, ZenonT(30)
  <2> QED BY <2>1 DEF SleepOK
<1>4. ASSUME NEW p \in DOMAIN data PROVE ReadsOK(data[p], p, raced[p], seen[p], pend')
  BY <1>3, ZenonT(30) DEF ReadsInv, ReadsOK
<1>5. \A u \in Task : pend'[u] # {} => ProcOf[u] \in DOMAIN data
  BY <1>1 DEF ReadsInv, FilesInv
<1> QED BY <1>1, <1>4, <1>5, ZenonT(30) DEF ReadsInv

\* Every step keeps ReadsInv.
LEMMA NextReads ==
  ASSUME FilesInv, ConsoleUp, ReadsInv, [Next]_vars
  PROVE  ReadsInv'
<1>1. CASE UNCHANGED vars
  BY <1>1, ZenonT(30) DEF vars, ReadsInv
<1>2. CASE RootInit \/ DevInit \/ RegisterDev \/ SpawnInit
  BY <1>2, BootReads, ZenonT(30)
<1>3. ASSUME NEW t \in Task, Runs(t)
      PROVE  /\ ProcOf[t] \in DOMAIN data /\ DOMAIN data \subseteq Proc /\ Table(t) = data[ProcOf[t]]
             /\ TableShape(Table(t))
             /\ ReadsOK(Table(t), ProcOf[t], raced[ProcOf[t]], seen[ProcOf[t]], pend)
  BY <1>3, ZenonT(30) DEF Runs, Table, FilesInv, TableInv, ReadsInv
<1>4. ASSUME NEW t \in Task, NEW s \in Paths, Open(t, s)
      PROVE  ReadsInv'
  <2> DEFINE q == ProcOf[t]
             o == OpenCall(data[q], s)
  <2>1. Runs(t) /\ pend' = pend /\ data' = [data EXCEPT ![q] = o.d]
    BY <1>4 DEF Open, OpenReturns, Return, Table
  <2>2. (o.ret >= 0 => OpenedAs(q, o.ret)) /\ (~(o.ret >= 0) => UNCHANGED <<raced, seen>>)
    BY <1>4, ZenonT(30) DEF Open, OpenReturns, Table
  <2>3. q \in DOMAIN data /\ DOMAIN data \subseteq Proc
    BY <1>3, <2>1
  <2>4. /\ ReadsOK(o.d, q, raced'[q], seen'[q], pend)
        /\ raced' = [raced EXCEPT ![q] = raced'[q]] /\ raced'[q] \in BOOLEAN
        /\ seen' = [seen EXCEPT ![q] = seen'[q]]
    BY <2>2, <2>3, OpenReads, ZenonT(30)
  <2> HIDE DEF o
  <2> QED BY <2>1, <2>3, <2>4, RequestReads, ZenonT(30)
<1>5. ASSUME NEW t \in Task, NEW e, Runs(t), data' = [data EXCEPT ![ProcOf[t]] = e],
             e.nodes = Table(t).nodes, UNCHANGED <<raced, seen, pend>>
      PROVE  ReadsInv'
  <2>1. ReadsOK(e, ProcOf[t], raced[ProcOf[t]], seen[ProcOf[t]], pend)
    <3> DEFINE d == Table(t)
               q == ProcOf[t]
    <3>1. ReadsOK(d, q, raced[q], seen[q], pend) /\ e.nodes = d.nodes
      BY <1>3, <1>5, ZenonT(30)
    <3> HIDE DEF d, q
    <3>2. ReadsOK(e, q, raced[q], seen[q], pend)
      BY <3>1, ZenonT(30) DEF ReadsOK, SlotsOK, InOrder, SleepOK
    <3> QED BY <3>2 DEF q
  <2> QED BY <1>3, <1>5, <2>1, PlainReads, ZenonT(30)
<1>6. ASSUME NEW t \in Task, NEW s \in Paths, SetCwd(t, s)
      PROVE  ReadsInv'
  <2> DEFINE d == Table(t)
             e == SetCwdCall(d, s).d
  <2>1. /\ Runs(t) /\ data' = [data EXCEPT ![ProcOf[t]] = e]
        /\ UNCHANGED <<raced, seen, pend>>
    BY <1>6 DEF SetCwd, Return
  <2>2. e.nodes = d.nodes
    <3>1. ASSUME NEW path
          PROVE  \/ SetCwdTo(d, path).d = d
                 \/ SetCwdTo(d, path).d = [d EXCEPT !.cwd = path]
      BY DEF SetCwdTo, Result
    <3>2. \E path : \/ e = d
                    \/ e = [d EXCEPT !.cwd = path]
      BY <3>1, ZenonT(30) DEF SetCwdCall, Result
    <3>3. PICK N, C : d \in [nodes : [Slots -> N], cwd : C, files : Nat]
      BY <1>3, <2>1, ZenonT(30) DEF TableShape
    <3> HIDE DEF e, d
    <3> QED BY <3>2, <3>3
  <2> HIDE DEF e
  <2> QED BY <1>5, <2>1, <2>2, ZenonT(30)
<1>7. ASSUME NEW t \in Task, NEW s \in Paths, Exec(t, s)
      PROVE  ReadsInv'
  BY <1>7, ExecReads
<1>8. ASSUME NEW t \in Task, NEW fd \in Fds, Close(t, fd)
      PROVE  ReadsInv'
  <2> DEFINE q == ProcOf[t]
             d == Table(t)
             r == CloseCall(d, fd)
             b == raced[q] \/ (r.ret = 0 /\ ReadSleeps(q, fd))
  <2>1. /\ Runs(t) /\ data' = [data EXCEPT ![q] = r.d] /\ UNCHANGED <<seen, pend>>
        /\ raced' = [raced EXCEPT ![q] = b]
    BY <1>8 DEF Close, Return
  <2>2. /\ q \in DOMAIN data /\ DOMAIN data \subseteq Proc /\ TableShape(d)
        /\ ReadsOK(d, q, raced[q], seen[q], pend)
    BY <1>3, <2>1, ZenonT(30)
  <2>3. b \in BOOLEAN
    BY <2>2, ZenonT(30) DEF ReadsInv, ReadSleeps
  <2>4. r.d = d \/ (~OutOfBounds(fd) /\ r.d = Closed(d, fd))
    BY ZenonT(30) DEF CloseCall, Result
  <2>5. ReadsOK(r.d, q, b, seen[q], pend)
    <3> HIDE DEF r, d
    <3>1. /\ SlotsOK(d) /\ pend \in Sleepers /\ seen[q] \in [Slots -> Seq(Nat)]
          /\ raced[q] \/ (InOrder(d, seen[q]) /\ SleepOK(d, q, pend))
      BY <2>2, PendType, ZenonT(30) DEF ReadsOK
    <3>2. CASE r.d = d
      BY <3>1, <3>2, ZenonT(30) DEF ReadsOK
    <3>3. CASE ~OutOfBounds(fd) /\ r.d = Closed(d, fd)
      <4>1. fd \in Slots
        BY <3>3, NumNodesAssumption DEF OutOfBounds, Fds, Slots
      <4>2. /\ SlotsOK(r.d)
            /\ InOrder(d, seen[q]) => InOrder(r.d, seen[q])
            /\ SleepOK(d, q, pend) => SleepOK(r.d, q, pend)
        BY <2>2, <3>1, <3>3, <4>1, ClosedReads, ZenonT(30)
      <4> QED BY <3>1, <4>2, ZenonT(30) DEF ReadsOK
    <3> QED BY <2>4, <3>2, <3>3, ZenonT(30)
  <2>6. seen' = [seen EXCEPT ![q] = seen[q]]
    BY <2>1, <2>2, ZenonT(30) DEF ReadsInv
  <2> HIDE DEF r, b
  <2> QED BY <2>1, <2>2, <2>3, <2>5, <2>6, RequestReads, ZenonT(30)
<1>9. ASSUME NEW t \in Task, NEW fd \in Fds, Write(t, fd, 1)
      PROVE  ReadsInv'
  BY <1>9, WriteReads
<1>10. ASSUME NEW t \in Task, NEW fd \in Fds, ReadDir(t, fd, 1)
       PROVE  ReadsInv'
  <2>1. /\ Runs(t) /\ data' = [data EXCEPT ![ProcOf[t]] = ReadDirCall(Table(t), fd, 1).d]
        /\ UNCHANGED <<raced, seen, pend>>
    BY <1>10, ZenonT(30) DEF ReadDir, Return
  <2>2. ReadDirCall(Table(t), fd, 1).d = Table(t)
    BY DEF ReadDirCall, Result
  <2> QED BY <1>5, <2>1, <2>2, ZenonT(30)
<1>11. ASSUME NEW t \in Task, NEW fd \in Fds, NEW n \in Sizes, ReadNow(t, fd, n)
       PROVE  ReadsInv'
  BY <1>11, ReadNowReads
<1>12. ASSUME NEW t \in Task, NEW fd \in Fds, ReadTty(t, fd, 1)
       PROVE  ReadsInv'
  BY <1>12, TtyReads
<1>13. ASSUME NEW t \in Task, ReadWakes(t)
       PROVE  ReadsInv'
  BY <1>13, WakesReads, ZenonT(30)
<1>14. ASSUME NEW t \in Task, Exit(t)
       PROVE  ReadsInv'
  <2>1. UNCHANGED <<data, raced, seen>> /\ \A u \in Task : pend'[u] \subseteq pend[u]
    BY <1>14 DEF Exit
  <2>2. ASSUME NEW p \in DOMAIN data PROVE ReadsOK(data[p], p, raced[p], seen[p], pend')
    BY <2>1, FewerSleep, ZenonT(30) DEF ReadsInv
  <2>3. \A p \in DOMAIN data' : ReadsOK(data[p], p, raced[p], seen[p], pend)'
    BY <2>1, <2>2, ZenonT(30)
  <2>4. \A u \in Task : pend'[u] # {} => ProcOf[u] \in DOMAIN data'
    <3>1. \A u \in Task : pend'[u] # {} => pend[u] # {}
      BY <2>1, ZenonT(30)
    <3> QED BY <2>1, <3>1, ZenonT(30) DEF ReadsInv
  <2>5. raced' \in [Proc -> BOOLEAN] /\ seen' \in [Proc -> [Slots -> Seq(Nat)]]
    BY <2>1, ZenonT(30) DEF ReadsInv
  <2> QED BY <2>3, <2>4, <2>5, ZenonT(30) DEF ReadsInv
<1> QED
  BY <1>1, <1>2, <1>4, <1>6, <1>7, <1>8, <1>9, <1>10, <1>11, <1>12, <1>13, <1>14, ZenonT(30)
     DEF Next
=============================================================================
