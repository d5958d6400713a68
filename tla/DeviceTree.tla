----------------------------- MODULE DeviceTree -----------------------------
(***************************************************************************)
(* libs/device-tree/src/lib.rs: what the drivers and the boot loader look  *)
(* up in the device tree.  A tree is a sequence of nodes in index order,   *)
(* the root first and a parent before its children.  A node is             *)
(*   [compatible : set of names, parent : its position (0 at the root),    *)
(*    addressCells, sizeCells, interruptCells, ranges, reg, interrupts]    *)
(* and each of the last six is a property: the empty set when it is        *)
(* absent, or the set of its value.  The values of ranges, reg and         *)
(* interrupts are sequences of big-endian 32-bit words.  The flattened     *)
(* form and its index belong to the crate fdt_rs.                          *)
(***************************************************************************)
EXTENDS Integers, Sequences, FiniteSets, SequencesExt

CONSTANT WordBase      \* 2^32

Prop(p) == CHOOSE v \in p : TRUE

\* The first node that lists name under "compatible", 0 for None
Compatible(tree, name) ==
  LET hits == {n \in 1 .. Len(tree) : name \in tree[n].compatible}
  IN  IF hits = {} THEN 0 ELSE CHOOSE n \in hits : \A m \in hits : n <= m

\* n and the nodes above it, n first
Ancestors(tree, n) ==
  LET up[k \in 0 .. Len(tree)] == IF k = 0 THEN <<>> ELSE <<k>> \o up[tree[k].parent]
  IN  up[n]

\* A property that a node inherits, def when no node above has it
Inherited(tree, n, property, def) ==
  LET has == SelectSeq(Ancestors(tree, n), LAMBDA k : tree[k][property] # {})
  IN  IF has = <<>> THEN def ELSE Prop(tree[has[1]][property])

AddressCells(tree, n) == Inherited(tree, n, "addressCells", 2)

SizeCells(tree, n) == Inherited(tree, n, "sizeCells", 1)

InterruptCells(tree, n) == Inherited(tree, n, "interruptCells", 1)

\* read_u32 or read_u64 at word i of buf; any other width is unreachable!(), and
\* the trees of the boards have none where a driver looks.
ReadCells(buf, i, cells) ==
  IF cells = 1 THEN buf[i] ELSE buf[i] * WordBase + buf[i + 1]

\* The entries of a property: each is one number for each element of cells
Entries(buf, cells) ==
  LET at(i)  == FoldLeft(LAMBDA x, y : x + y, 0, SubSeq(cells, 1, i - 1))
      width  == at(Len(cells) + 1)
  IN  [e \in 1 .. Len(buf) \div width |->
         [i \in 1 .. Len(cells) |-> ReadCells(buf, (e - 1) * width + at(i) + 1, cells[i])]]

\* Mutant: the address of the parent has the width of the child's.
RangesOfOneWidth(tree, n) ==
  Entries(Prop(tree[n].ranges),
          <<AddressCells(tree, n), AddressCells(tree, n), SizeCells(tree, n)>>)

\* The root, which has no parent to give a width, has no ranges.
Ranges(tree, n) ==
  Entries(Prop(tree[n].ranges),
          <<AddressCells(tree, n), AddressCells(tree, tree[n].parent), SizeCells(tree, n)>>)

\* The start of each register block of n
Regs(tree, n) ==
  LET up == tree[n].parent
      es == Entries(Prop(tree[n].reg), <<AddressCells(tree, up), SizeCells(tree, up)>>)
  IN  [e \in DOMAIN es |-> es[e][1]]

\* One node of the recursion of translate: r holds the address so far and
\* whether the recursion goes on above node k.
TranslatedBelow(tree, r, k) ==
  IF ~ r.on \/ tree[k].ranges = {} THEN r
  ELSE LET hit == SelectSeq(Ranges(tree, k), LAMBDA e : e[1] <= r.a /\ r.a < e[1] + e[3])
       IN  IF hit = <<>> THEN [r EXCEPT !.on = FALSE]
           ELSE [r EXCEPT !.a = hit[1][2] + (r.a - hit[1][1])]

Translate(tree, n, a) ==
  FoldLeft(LAMBDA r, k : TranslatedBelow(tree, r, k), [a |-> a, on |-> TRUE],
           Ancestors(tree, n)).a

\* The interrupt numbers of n: PPIs start at 16 and SPIs at 32
Interrupts(tree, n) ==
  LET c  == InterruptCells(tree, n)
      es == Entries(Prop(tree[n].interrupts), <<c, c, c>>)
  IN  [e \in DOMAIN es |-> (IF es[e][1] # 0 THEN 16 ELSE 32) + es[e][2]]
=============================================================================
