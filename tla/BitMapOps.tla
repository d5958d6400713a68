----------------------------- MODULE BitMapOps ------------------------------
(***************************************************************************)
(* The buddy allocator of virtual pages                                    *)
(* (libs/memory/src/bitmap_page_allocator.rs) as functions on its bitmap.  *)
(* The bitmap has one bit for every cell of every size class; the model is *)
(* the set of the cells <<sc, unit>> whose bit is FREE.  Units are 4K      *)
(* pages, counted from the base of the heap.                               *)
(***************************************************************************)
EXTENDS Integers, Sequences, FiniteSetsExt, SequencesExt

CONSTANT LogUnits   \* LOG_UNITS: log2 of the number of pages

ASSUME LogUnitsAssumption == LogUnits \in Nat

Unit == 0 .. (2^LogUnits - 1)
SizeClasses == 0 .. LogUnits

CellUnits(sc, unit) == unit .. (unit + 2^sc - 1)

\* size_class: the class of the next power of two
UnitsClass(units) == Min({sc \in SizeClasses : 2^sc >= units})

\* The unit of the cell of class sc that contains a unit (parent_unit)
CellAt(sc, unit) == unit - (unit % 2^sc)

\* sibling_unit
Sibling(sc, unit) ==
  IF (unit \div 2^sc) % 2 = 0 THEN unit + 2^sc ELSE unit - 2^sc

\* init: the whole heap is one free cell.
InitialBitMap == {<<LogUnits, 0>>}

-----------------------------------------------------------------------------
(* Mutants *)

ReleaseCellMergesOnce(m, sc, unit) ==
  LET buddy == <<sc, Sibling(sc, unit)>>
  IN  IF sc < LogUnits /\ buddy \in m.free
      THEN [m EXCEPT !.free = (@ \ {buddy}) \cup {<<sc + 1, CellAt(sc + 1, unit)>>}]
      ELSE [m EXCEPT !.free = @ \cup {<<sc, unit>>}]

AcquireUnitsKeepsTail(free, units) ==
  LET sc == UnitsClass(units)
      from == {k \in sc .. LogUnits : \E c \in free : c[1] = k}
      unit == Min({c[2] : c \in {d \in free : d[1] = Min(from)}})
  IN  IF from = {} THEN [some |-> FALSE, panic |-> FALSE, free |-> free]
      ELSE [some |-> TRUE, unit |-> unit, panic |-> FALSE,
            free |-> (free \ {<<Min(from), unit>>})
                       \cup {<<k, unit + 2^k>> : k \in sc .. Min(from) - 1}]

-----------------------------------------------------------------------------

\* acquire_cell: the first free cell of the smallest class that has one; on the
\* way back from the recursion every second half becomes a free cell.
AcquireCell(free, sc) ==
  LET from == {k \in sc .. LogUnits : \E c \in free : c[1] = k}
      unit == Min({c[2] : c \in {d \in free : d[1] = Min(from)}})
  IN  IF from = {} THEN [some |-> FALSE, free |-> free]
      ELSE [some |-> TRUE, unit |-> unit,
            free |-> (free \ {<<Min(from), unit>>})
                       \cup {<<k, unit + 2^k>> : k \in sc .. Min(from) - 1}]

\* release_cell: the cell merges with its sibling as long as that is free.  The
\* assertions say that no cell on the way up is marked FREE already.
ReleaseCell(m, sc, unit) ==
  LET buddy(k) == <<k, Sibling(k, CellAt(k, unit))>>
      top == Min({k \in sc .. LogUnits : k = LogUnits \/ buddy(k) \notin m.free})
  IN  [free |-> (m.free \ {buddy(k) : k \in sc .. top - 1})
                  \cup {<<top, CellAt(top, unit)>>},
       panic |-> m.panic \/ \E k \in sc .. top : <<k, CellAt(k, unit)>> \in m.free]

\* release_units: the range is cut into the largest aligned cells, from the left.
ReleaseUnits(m, start, units) ==
  LET limit == start + units
      fits(n) == IF n = 2^UnitsClass(n) THEN UnitsClass(n) ELSE UnitsClass(n) - 1
      class(s) == Max({sc \in 0 .. fits(limit - s) : s % 2^sc = 0})
      cells[s \in start .. limit] ==
        IF s = limit THEN <<>>
        ELSE <<<<class(s), s>>>> \o cells[s + 2^class(s)]
  IN  FoldLeft(LAMBDA r, c : ReleaseCell(r, c[1], c[2]), m, cells[start])

\* acquire_units: what the power-of-two cell has beyond `units` is released again.
Trimmed(r, units, size) ==
  LET Kept(rest) == [some |-> TRUE, unit |-> r.unit, panic |-> rest.panic, free |-> rest.free]
  IN  IF ~r.some THEN [some |-> FALSE, panic |-> FALSE, free |-> r.free]
      ELSE Kept(ReleaseUnits([free |-> r.free, panic |-> FALSE], r.unit + units, size - units))

AcquireUnits(free, units) ==
  LET SizedCell(sc) == Trimmed(AcquireCell(free, sc), units, 2^sc)
  IN  SizedCell(UnitsClass(units))
=============================================================================
