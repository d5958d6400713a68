------------------------------- MODULE MCBoot -------------------------------
(* Four memory maps, three kernel files, and boards of four kinds.         *)
EXTENDS Boot

MapWith(n, reserved) ==
  [f \in 0 .. n |-> IF f \in reserved THEN BootServicesData ELSE Conventional]

\* Firmware memory at both ends of what is conventional, or scattered in it.  The
\* last two have too many descriptors: one with the loader's pages, one by itself.
MCMemoryMaps ==
  {MapWith(20, {0, 1, 20}), MapWith(21, {3, 8, 13, 18}),
   MapWith(22, {3, 8, 13, 18, 22}), MapWith(20, {2, 4, 6, 8, 10, 12})}

Rela(slot, addend) == [relative |-> TRUE, slot |-> slot, addend |-> addend]

Absolute(slot) == [relative |-> FALSE, slot |-> slot, addend |-> 0]

Words(n) == [w \in 1 .. n |-> Num(10 + w)]

Seg(vaddr, offset, filesz, memsz) ==
  [vaddr |-> vaddr, offset |-> offset, filesz |-> filesz, memsz |-> memsz]

\* One segment with zeros behind it; a second segment that starts inside a page
\* and is elsewhere in the file; a first page other than 0, and a segment of
\* zeros only.
MCKernels ==
  {[file |-> <<Rela(3, 1), Absolute(2)>> \o Words(2), load |-> <<Seg(0, 0, 4, 7)>>,
    rela |-> {[ptr |-> 0, n |-> 2]}],
   [file |-> <<Num(7), Rela(6, 2), Rela(8, 0)>> \o Words(4),
    load |-> <<Seg(0, 0, 3, 3), Seg(5, 3, 4, 5)>>, rela |-> {[ptr |-> 1, n |-> 2]}],
   [file |-> Words(2), load |-> <<Seg(4, 0, 2, 2), Seg(7, 2, 0, 4)>>, rela |-> {}]}

MCInitFs  == Words(4)
MCDtbFile == Words(3)

-----------------------------------------------------------------------------
(* Boards: the number v takes c cells.                                     *)

Cells(v, c) == IF c = 1 THEN <<v>> ELSE <<v \div WordBase, v % WordBase>>

Node(names, parent) ==
  [compatible |-> names, parent |-> parent, addressCells |-> {}, sizeCells |-> {},
   interruptCells |-> {}, ranges |-> {}, reg |-> {}, interrupts |-> {}]

Root(a, s) == [Node({}, 0) EXCEPT !.addressCells = {a}, !.sizeCells = {s}]

\* The interrupts of the boards: SPI 9 of the serial line, and four PPIs
Uart(parent, a, s, addr) ==
  [Node({"arm,pl011", "arm,primecell"}, parent) EXCEPT
     !.reg = {Cells(addr, a) \o Cells(2, s)}, !.interrupts = {<<0, 9, 4>>}]

Gic(name, parent, a, s, addr) ==
  [Node({name}, parent) EXCEPT
     !.reg = {Cells(addr, a) \o Cells(1, s) \o Cells(addr + 2, a) \o Cells(1, s)},
     !.interruptCells = {3}]

Timer(name) ==
  [Node({name}, 1) EXCEPT !.interrupts = {<<1, 13, 8, 1, 14, 8, 1, 11, 8, 1, 10, 8>>}]

Board(tree, gic, uart, gpio) ==
  [tree |-> tree, gic |-> <<gic, gic + 2>>, uart |-> uart, gpio |-> gpio,
   uartIrq |-> 41, timerIrq |-> 30]

\* The devices are children of the root (qemu-virt.dts).
Virt(a, s) ==
  Board(<<Root(a, s), Uart(1, a, s, 40),
          [Gic("arm,cortex-a15-gic", 1, a, s, 50) EXCEPT !.ranges = {<<>>}],
          Timer("arm,armv8-timer")>>, 50, 40, {})

\* The devices are on a bus with two windows (bcm2711-rpi-4-b.dts).
Soc(a, s, ba, bs) ==
  LET window(c, p, n) == Cells(c, ba) \o Cells(p, a) \o Cells(n, bs)
  IN  Board(<<Root(a, s),
              [Node({"simple-bus"}, 1) EXCEPT !.addressCells = {ba}, !.sizeCells = {bs},
                 !.ranges = {window(20, 40, 8) \o window(28, 52, 8)}],
              Uart(2, ba, bs, 21), Gic("arm,gic-400", 2, ba, bs, 28),
              [Node({"brcm,bcm2711-gpio"}, 2) EXCEPT !.reg = {Cells(27, ba) \o Cells(1, bs)}],
              Timer("arm,armv7-timer")>>, 52, 41, {47})

\* The serial line is on a bus with an empty ranges property.
Plain(a, s) ==
  Board(<<Root(a, s), [Node({"simple-bus"}, 1) EXCEPT !.ranges = {<<>>}],
          Uart(2, a, s, 42), Gic("arm,gic-400", 1, a, s, 50),
          Timer("arm,armv8-timer")>>, 50, 42, {})

\* The serial line is on a second bus, which takes its cells from the first.
Nested(a, s) ==
  Board(<<Root(a, s),
          [Node({"simple-bus"}, 1) EXCEPT !.ranges = {Cells(20, a) \o Cells(40, a) \o Cells(9, s)}],
          [Node({"simple-bus"}, 2) EXCEPT !.ranges = {Cells(2, a) \o Cells(20, a) \o Cells(4, s)}],
          Uart(3, a, s, 5), Gic("arm,gic-400", 2, a, s, 24), Timer("arm,armv8-timer")>>,
        44, 43, {})

MCTrees == {Virt(2, 2), Virt(1, 2), Soc(2, 1, 1, 1), Soc(1, 2, 2, 1), Nested(2, 1),
           Plain(2, 1)}

MCModuleTests ==
  [m \in Range(ALL_MODULES) |-> IF m \in {"hello", "vfs"} THEN 2 ELSE 0]
=============================================================================
