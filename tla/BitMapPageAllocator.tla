------------------------ MODULE BitMapPageAllocator -------------------------
(***************************************************************************)
(* The buddy allocator of virtual pages and its clients, which acquire     *)
(* ranges of any length and release each range they hold once.             *)
(***************************************************************************)
EXTENDS BitMapOps

VARIABLES
  free,     \* the cells marked FREE
  held,     \* the ranges clients hold, as [start, units]
  panic     \* a debug_assert has failed

vars == <<free, held, panic>>

Init ==
  /\ free = InitialBitMap
  /\ held = {}
  /\ panic = FALSE

\* acquire; its unwrap stops the kernel when there is no cell left.
Acquire(units) ==
  LET r == AcquireUnits(free, units)
  IN  /\ ~panic
      /\ r.some
      /\ free' = r.free
      /\ held' = held \cup {[start |-> r.unit, units |-> units]}
      /\ panic' = r.panic

\* release
Release(h) ==
  LET r == ReleaseUnits([free |-> free, panic |-> FALSE], h.start, h.units)
  IN  /\ ~panic
      /\ free' = r.free
      /\ held' = held \ {h}
      /\ panic' = r.panic

Next ==
  \/ \E units \in 1 .. 2^LogUnits : Acquire(units)
  \/ \E h \in held : Release(h)

Spec == Init /\ [][Next]_vars

-----------------------------------------------------------------------------

\* Cells start at multiples of their size.
TypeOK ==
  /\ free \subseteq {c \in SizeClasses \X Unit : c[2] % 2^c[1] = 0}
  /\ held \subseteq [start : Unit, units : 1 .. 2^LogUnits]
  /\ panic \in BOOLEAN

HeldUnits(h) == h.start .. (h.start + h.units - 1)
FreeUnits == UNION {CellUnits(c[1], c[2]) : c \in free}

\* Each page is held once or free once: no page is handed out twice, the pages of
\* a cell beyond the requested length return to the bitmap at once, and every
\* released page does (acquire_units, release_units).  So the debug_asserts of
\* release_cell hold: a range that is given back, in whatever pieces, is not
\* marked FREE in any size class on the way up.
EachPageOnce ==
  /\ ~panic
  /\ \A g, h \in held : g # h => HeldUnits(g) \cap HeldUnits(h) = {}
  /\ \A h \in held : HeldUnits(h) \cap FreeUnits = {}
  /\ \A c, d \in free :
       c # d => CellUnits(c[1], c[2]) \cap CellUnits(d[1], d[2]) = {}
  /\ FreeUnits \cup UNION {HeldUnits(h) : h \in held} = Unit

\* Merging is complete: an aligned power-of-two run of free pages always lies in
\* one free cell, so acquire_cell fails only when no such run exists.
Coalesced ==
  \A sc \in SizeClasses : \A unit \in Unit :
    (unit % 2^sc = 0 /\ CellUnits(sc, unit) \subseteq FreeUnits)
      => \E k \in sc .. LogUnits : <<k, CellAt(k, unit)>> \in free
=============================================================================
