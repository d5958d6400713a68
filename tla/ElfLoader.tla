----------------------------- MODULE ElfLoader ------------------------------
(***************************************************************************)
(* libs/elf-loader/src/lib.rs, as the boot loader uses it: the segments go *)
(* to virtual pages that are backed by scattered frames, so every copy is  *)
(* cut at the page boundaries and sent through translate.                  *)
(*                                                                         *)
(* Addresses count 8-byte words and a page has PageWords of them.  A file  *)
(* is a sequence of words, word i at offset i - 1; a word is Num(n) or, in *)
(* the relocation table, an entry [relative, slot, addend].  An elf is     *)
(*   [file, load : the PT_LOAD headers [vaddr, offset, filesz, memsz],     *)
(*    rela : the Rela, RelaSize and RelaEnt tags of PT_DYNAMIC, as the set *)
(*    {} or {[ptr, n]}].                                                   *)
(* m is [mem : physical word -> content, dirty : the words written since   *)
(* they were last flushed]; tr[v] is the physical address of v.            *)
(***************************************************************************)
EXTENDS Integers, Sequences, FiniteSets, FiniteSetsExt, SequencesExt, TLC, Steps

CONSTANT PageWords     \* Size4K::BYTES, in words

\* A set of elements in ascending order of their keys
SortedBy(S, Key(_)) ==
  Then(S, LAMBDA T :
    [r \in 1 .. Cardinality(T) |->
       CHOOSE x \in T : Cardinality({y \in T : Key(y) < Key(x)}) = r - 1])

Num(n) == [num |-> n]

Align(a) == (a \div PageWords) * PageWords

AlignUp(a) == Align(a + PageWords - 1)

\* map_memory: the pages from the lowest to the highest loaded address
LoadPages(elf) ==
  LET start == Min({p.vaddr : p \in Range(elf.load)})
      end   == Max({p.vaddr + p.memsz : p \in Range(elf.load)})
  IN  (Align(start) \div PageWords) .. (AlignUp(end) \div PageWords - 1)

\* The length of the piece that starts at cursor
PieceAcross(cursor, limit) == Min({PageWords, limit - cursor})

Piece(cursor, limit) == Min({Align(cursor) + PageWords, limit}) - cursor

\* The pieces [at, n] of dst .. dst + len, in the order of the loop
Pieces(dst, len) ==
  LET from[cursor \in dst .. dst + len] ==
        IF cursor = dst + len THEN <<>>
        ELSE LET n == Piece(cursor, dst + len)
             IN  <<[at |-> cursor, n |-> n]>> \o from[cursor + n]
  IN  from[dst]

Written(m, at, words) ==
  LET old == m.mem
  IN  [mem   |-> [w \in DOMAIN old |-> IF w \in at .. at + Len(words) - 1
                                       THEN words[w - at + 1] ELSE old[w]],
       dirty |-> m.dirty \cup (at .. at + Len(words) - 1)]

Copy(m, tr, src, dst) ==
  FoldLeft(LAMBDA g, p : Then(g, LAMBDA h :
             Written(h, tr[p.at], SubSeq(src, p.at - dst + 1, p.at - dst + p.n))),
           m, Pieces(dst, Len(src)))

Zero(m, tr, dst, len) == Copy(m, tr, [i \in 1 .. len |-> Num(0)], dst)

Flush(m, tr, dst, len) ==
  [m EXCEPT !.dirty = @ \ UNION {tr[p.at] .. tr[p.at] + p.n - 1 : p \in Range(Pieces(dst, len))}]

LoadSegment(m, tr, elf, ph, base) ==
  LET start == ph.vaddr + base
  IN  Then(Copy(m, tr, SubSeq(elf.file, ph.offset + 1, ph.offset + ph.filesz), start),
        LAMBDA c : Then(Zero(c, tr, start + ph.filesz, ph.memsz - ph.filesz),
        LAMBDA z : Flush(z, tr, start, ph.filesz)))

FlushSegment(m, tr, ph, base) == Flush(m, tr, ph.vaddr + base, ph.filesz)

\* The address in the Rela tag is taken as an offset in the file.
ApplyRelocation(m, tr, elf, base) ==
  LET relas == UNION {{elf.file[r.ptr + i] : i \in 1 .. r.n} : r \in elf.rela}
      slots == {e \in relas : e.relative}
  IN  FoldSet(LAMBDA e, g : Then(g, LAMBDA h :
                Written(h, tr[e.slot + base], <<Num(e.addend + base)>>)), m, slots)
=============================================================================
