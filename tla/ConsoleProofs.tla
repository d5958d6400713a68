--------------------------- MODULE ConsoleProofs ----------------------------
(***************************************************************************)
(* The serial line and the kernel's entry and exit, for any tasks,         *)
(* characters and bounds: ConsoleInv is inductive.  One task runs and      *)
(* every other one rests, with the frames that tell where it stands; the   *)
(* monitor of the PL011 is free between two steps and nobody waits for its *)
(* mutex; and the characters are where they should be.                     *)
(***************************************************************************)
EXTENDS Console, SchedulingProofs

\* The time that a leaf may take.
USE SMTT(30)

-----------------------------------------------------------------------------
(* The invariant.                                                          *)

\* Frame f is the one of task t's own code.
Own(f, t) ==
  /\ f.x21 = t /\ f.x22 = t /\ f.x23 = t /\ f.x30 = t /\ f.x31 = t
  /\ f.elr_el1 = t /\ f.spsr_el1 = "el0"

\* The core runs task t's own code.
OwnCpu(c, t) ==
  /\ c.x21 = t /\ c.x22 = t /\ c.x23 = t /\ c.x30 = t /\ c.sp_el0 = t
  /\ c.pc = t /\ c.ttbr0 = t /\ c.pstate = "el0"

\* How task t rests, with `left` characters of its read missing and x expected
\* in x0: not started, preempted in the kernel's part of its start or in its own
\* code, or asleep in the svc that sleeps, in the svc to pm, in the user's svc.
Rests(k, t, left, x) ==
  \/ left = 0 /\ k.entries[t] = 0 /\ k.frames[t] = <<>>
  \/ /\ left = 0 /\ k.entries[t] = 1 /\ k.status[t] = {} /\ Len(k.frames[t]) = 1
     /\ \/ k.frames[t][1].spsr_el1 = "el1"
        \/ Own(k.frames[t][1], t) /\ k.frames[t][1].x0 = x
  \/ /\ left > 0 /\ k.entries[t] = 1 /\ k.status[t] = {} /\ Len(k.frames[t]) = 3
     /\ Own(k.frames[t][1], t)
     /\ k.frames[t][2].spsr_el1 = "masked" /\ k.frames[t][3].spsr_el1 = "masked"

\* How the current task runs: in the kernel's part of its start, in its own
\* code, or woken in the middle of a read.
Runs(k, t, left, x) ==
  /\ k.entries[t] = 1 /\ k.status[t] = {}
  /\ \/ left = 0 /\ k.frames[t] = <<>> /\ k.cpu.pstate = "el1"
     \/ left = 0 /\ k.frames[t] = <<>> /\ OwnCpu(k.cpu, t) /\ k.cpu.x0 = x
     \/ /\ left > 0 /\ k.cpu.pstate = "masked" /\ Len(k.frames[t]) = 2
        /\ Own(k.frames[t][1], t) /\ k.frames[t][2].spsr_el1 = "masked"

\* What holds wherever the kernel is: the scheduler is consistent, Idle can
\* run, whoever waits sleeps, and nobody waits for the mutex of the PL011.
BaseOK(k) ==
  /\ k \in Machine
  /\ SchedOK(k.sched) /\ k.sched.current \in Task
  /\ k.sched.run[Idle] \in {"Ready", "Running"}
  /\ WaitersOK(k.sched, k.locks) /\ k.locks.mwait[Uart] = <<>>
  /\ k.fault = "none" 

\* The monitor is free and no interrupt is being handled.
KernelOK(k) ==
  /\ BaseOK(k) /\ k.locks.locked[Uart] = FALSE
  /\ k.iar = <<>> /\ k.active = {}

\* Every task rests in kernel state k, with reads r and expectations x.
AllRest(k, r, x) == \A t \in Task : Rests(k, t, r[t].left, x[t])

\* Every task but c rests.
OthersRest(k, c, r, x) == \A t \in Task : t # c => Rests(k, t, r[t].left, x[t])

\* Between two steps: one task runs and the others rest.
Outside(k, r, x) ==
  LET c == k.sched.current
  IN  KernelOK(k) /\ OthersRest(k, c, r, x) /\ Runs(k, c, r[c].left, x[c])

\* The invariant.
ConsoleInv == TypeOK /\ Outside(m, reads, expect) /\ InputInOrder

\* The context of task t is the same in k and in l.
SameTask(k, l, t) ==
  l.frames[t] = k.frames[t] /\ l.status[t] = k.status[t] /\ l.entries[t] = k.entries[t]

\* Only the scheduler and the locks differ between k and e.
KernelStep(k, e) ==
  /\ e \in Machine
  /\ e.cpu = k.cpu /\ e.frames = k.frames /\ e.status = k.status
  /\ e.entries = k.entries /\ e.iar = k.iar /\ e.active = k.active /\ e.fault = k.fault

\* Task t is in a system call of its own code.
InCall(k, t) ==
  /\ k.entries[t] = 1 /\ k.status[t] = {}
  /\ Len(k.frames[t]) = 1 /\ Own(k.frames[t][1], t)

\* What getchar returns.
Cooks == {Cooked(c) : c \in Char}

\* The values of reads[t].
Readings == [size : Sizes \cup {0}, left : Nat]

-----------------------------------------------------------------------------
(* Sequences.                                                              *)

\* A sequence is a function on 1..n, and the other way round.
LEMMA SeqIsFunction ==
  ASSUME NEW S, NEW q \in Seq(S)
  PROVE  q \in [1..Len(q) -> S] /\ Len(q) \in Nat
  OBVIOUS

\* A function on 1..n is a sequence.
LEMMA FunctionIsSeq ==
  ASSUME NEW S, NEW n \in Nat, NEW q \in [1..n -> S]
  PROVE  q \in Seq(S) /\ Len(q) = n
  OBVIOUS

\* Sequences with the same entries are equal.
LEMMA SeqEq ==
  ASSUME NEW S, NEW p \in Seq(S), NEW q \in Seq(S), Len(p) = Len(q),
         \A i \in 1..Len(p) : p[i] = q[i]
  PROVE  p = q
  OBVIOUS

\* The only entry of a sequence is replaced.
LEMMA OnlyReplaced ==
  ASSUME NEW S, NEW q \in Seq(S), Len(q) = 1, NEW f \in S
  PROVE  LET g == [q EXCEPT ![1] = f] IN
         g \in Seq(S) /\ Len(g) = 1 /\ g[1] = f
  <1> DEFINE g == [q EXCEPT ![1] = f]
  <1>0. 1 \in 1..1 /\ 1 \in Nat
    OBVIOUS
  <1>1. q \in [1..Len(q) -> S]
    BY SeqIsFunction
  <1>2. q \in [1..1 -> S]
    BY <1>1
  <1>3. g \in [1..1 -> S] /\ g[1] = f
    BY <1>0, <1>2
  <1> HIDE DEF g
  <1>4. g \in Seq(S) /\ Len(g) = 1
    BY <1>0, <1>3, FunctionIsSeq, ZenonT(30)
  <1> QED BY <1>3, <1>4 DEF g

\* The entries of a concatenation.
LEMMA Concatenated ==
  ASSUME NEW S, NEW p \in Seq(S), NEW q \in Seq(S)
  PROVE  /\ p \o q \in Seq(S) /\ Len(p) \in Nat /\ Len(q) \in Nat
         /\ Len(p \o q) = Len(p) + Len(q)
         /\ \A i \in 1..Len(p) : (p \o q)[i] = p[i]
         /\ \A i \in (Len(p) + 1)..(Len(p) + Len(q)) : (p \o q)[i] = q[i - Len(p)]
  OBVIOUS

\* A buffer is what is taken from it and what is left.
LEMMA Divided ==
  ASSUME NEW S, NEW b \in Seq(S), NEW n \in 0..Len(b)
  PROVE  /\ SubSeq(b, 1, n) \in Seq(S) /\ SubSeq(b, n + 1, Len(b)) \in Seq(S)
         /\ SubSeq(b, 1, n) \o SubSeq(b, n + 1, Len(b)) = b
  <1> DEFINE p == SubSeq(b, 1, n)
             q == SubSeq(b, n + 1, Len(b))
             d == p \o q
  <1>0. Len(b) \in Nat /\ n \in Nat /\ n <= Len(b)
    BY SeqIsFunction
  <1>1. p \in Seq(S) /\ Len(p) = n /\ \A i \in 1..n : p[i] = b[i]
    BY <1>0
  <1>2. /\ q \in Seq(S) /\ Len(q) = Len(b) - n
        /\ \A i \in 1..(Len(b) - n) : q[i] = b[i + n]
    BY <1>0
  <1> HIDE DEF p, q
  <1>3. /\ d \in Seq(S) /\ Len(d) = Len(p) + Len(q)
        /\ \A i \in 1..Len(p) : d[i] = p[i]
        /\ \A i \in (Len(p) + 1)..(Len(p) + Len(q)) : d[i] = q[i - Len(p)]
    BY <1>1, <1>2, Concatenated
  <1> HIDE DEF d
  <1>4. Len(d) = Len(b)
    BY <1>0, <1>1, <1>2, <1>3
  <1>5. ASSUME NEW i \in 1..Len(d) PROVE d[i] = b[i]
    <2>1. CASE i <= n
      BY <1>0, <1>1, <1>3, <1>4, <2>1
    <2>2. CASE i > n
      <3>1. i - n \in 1..(Len(b) - n) /\ (i - n) + n = i
        BY <1>0, <1>4, <2>2
      <3>2. i \in (Len(p) + 1)..(Len(p) + Len(q))
        BY <1>0, <1>1, <1>2, <1>4, <2>2
      <3>3. d[i] = q[i - n]
        BY <1>1, <1>3, <3>2, ZenonT(30)
      <3> QED BY <1>2, <3>1, <3>3
    <2> QED BY <1>0, <1>4, <2>1, <2>2
  <1>6. d = b
    BY <1>3, <1>4, <1>5, SeqEq
  <1> QED BY <1>1, <1>2, <1>6, ZenonT(30) DEF d, p, q

-----------------------------------------------------------------------------
(* The characters.                                                         *)

\* getchar maps characters one by one.
LEMMA CookedSeq ==
  ASSUME NEW q \in Seq(Char)
  PROVE  /\ CookedAll(q) \in Seq(Cooks) /\ Len(CookedAll(q)) = Len(q)
         /\ \A i \in 1..Len(q) : CookedAll(q)[i] = Cooked(q[i])
  <1> DEFINE f == CookedAll(q)
  <1>1. q \in [1..Len(q) -> Char] /\ Len(q) \in Nat
    BY SeqIsFunction
  <1>2. f = [i \in 1..Len(q) |-> Cooked(q[i])]
    BY <1>1 DEF CookedAll
  <1>3. f \in [1..Len(q) -> Cooks]
    BY <1>1, <1>2 DEF Cooks
  <1>4. \A i \in 1..Len(q) : f[i] = Cooked(q[i])
    BY <1>2
  <1> HIDE DEF f
  <1>5. f \in Seq(Cooks) /\ Len(f) = Len(q)
    BY <1>1, <1>3, FunctionIsSeq, ZenonT(30)
  <1> QED BY <1>4, <1>5 DEF f

\* CookedAll of a concatenation.
LEMMA CookedConcat ==
  ASSUME NEW p \in Seq(Char), NEW q \in Seq(Char)
  PROVE  CookedAll(p \o q) = CookedAll(p) \o CookedAll(q)
  <1> DEFINE a == CookedAll(p)
             b == CookedAll(q)
             c == CookedAll(p \o q)
             d == a \o b
  <1>1. /\ a \in Seq(Cooks) /\ Len(a) = Len(p) /\ \A i \in 1..Len(p) : a[i] = Cooked(p[i])
        /\ b \in Seq(Cooks) /\ Len(b) = Len(q) /\ \A i \in 1..Len(q) : b[i] = Cooked(q[i])
    BY CookedSeq
  <1>2. /\ p \o q \in Seq(Char) /\ Len(p) \in Nat /\ Len(q) \in Nat
        /\ Len(p \o q) = Len(p) + Len(q)
        /\ \A i \in 1..Len(p) : (p \o q)[i] = p[i]
        /\ \A i \in (Len(p) + 1)..(Len(p) + Len(q)) : (p \o q)[i] = q[i - Len(p)]
    BY Concatenated
  <1>3. /\ c \in Seq(Cooks) /\ Len(c) = Len(p \o q)
        /\ \A i \in 1..Len(p \o q) : c[i] = Cooked((p \o q)[i])
    BY <1>2, CookedSeq, ZenonT(30)
  <1> HIDE DEF a, b, c
  <1>4. /\ d \in Seq(Cooks) /\ Len(d) = Len(a) + Len(b)
        /\ \A i \in 1..Len(a) : d[i] = a[i]
        /\ \A i \in (Len(a) + 1)..(Len(a) + Len(b)) : d[i] = b[i - Len(a)]
    BY <1>1, Concatenated, ZenonT(30)
  <1> HIDE DEF d
  <1>5. ASSUME NEW i \in 1..Len(c) PROVE c[i] = d[i]
    <2>1. CASE i \in 1..Len(p)
      BY <1>1, <1>2, <1>3, <1>4, <2>1, ZenonT(30)
    <2>2. CASE i \in (Len(p) + 1)..(Len(p) + Len(q))
      <3>1. i - Len(p) \in 1..Len(q)
        BY <1>2, <2>2
      <3> QED BY <1>1, <1>2, <1>3, <1>4, <2>2, <3>1, ZenonT(30)
    <2> QED BY <1>2, <1>3, <2>1, <2>2
  <1>6. Len(c) = Len(d)
    BY <1>1, <1>2, <1>3, <1>4
  <1>7. c = d
    BY <1>3, <1>4, <1>5, <1>6, SeqEq
  <1> QED BY <1>7 DEF a, b, c, d

\* Characters delivered, taken and left.
LEMMA CooksAssociate ==
  \A g, a, b \in Seq(Cooks) : (g \o a) \o b = g \o (a \o b)
  OBVIOUS

\* Taking n characters from the buffer keeps the order.
LEMMA TakesInOrder ==
  ASSUME TypeOK, InputInOrder, NEW n \in 0..Len(buffer),
         buffer' = SubSeq(buffer, n + 1, Len(buffer)),
         got' = got \o CookedAll(Taken(n)), fifo' = fifo, sent' = sent
  PROVE  InputInOrder' /\ buffer' \in Seq(Char) /\ got' \in Seq(Cooks)
  <1> DEFINE p == SubSeq(buffer, 1, n)
             q == SubSeq(buffer, n + 1, Len(buffer))
             a == CookedAll(p)
             b == CookedAll(q)
             c == CookedAll(fifo)
  <1>1. buffer \in Seq(Char) /\ fifo \in Seq(Char) /\ got \in Seq(Cooks)
    BY DEF TypeOK, Cooks
  <1>2. p \in Seq(Char) /\ q \in Seq(Char) /\ p \o q = buffer
    BY <1>1, Divided, ZenonT(30)
  <1> HIDE DEF p, q
  <1>3. a \in Seq(Cooks) /\ b \in Seq(Cooks) /\ c \in Seq(Cooks)
    BY <1>1, <1>2, CookedSeq
  <1>4. CookedAll(buffer) = a \o b
    BY <1>2, CookedConcat, ZenonT(30)
  <1> HIDE DEF a, b, c
  <1>5. (got \o a) \o b = got \o (a \o b)
    <2>1. got \in Seq(Cooks) /\ a \in Seq(Cooks) /\ b \in Seq(Cooks)
      BY <1>1, <1>3
    <2> QED BY <2>1, CooksAssociate, ZenonT(30)
  <1>6. got' = got \o a /\ buffer' = q
    BY DEF Taken, a, p, q
  <1>7. got' \in Seq(Cooks)
    BY <1>1, <1>3, <1>6, Concatenated
  <1>8. (got \o CookedAll(buffer)) \o CookedAll(fifo) = CookedAll(sent)
    BY DEF InputInOrder
  <1>9. (got' \o CookedAll(buffer')) \o CookedAll(fifo') = CookedAll(sent')
    BY <1>4, <1>5, <1>6, <1>8, ZenonT(30) DEF b
  <1> QED BY <1>2, <1>6, <1>7, <1>9, ZenonT(30) DEF InputInOrder

-----------------------------------------------------------------------------
(* Registers and frames.                                                   *)

\* The saved modes of at most three frames.
LEMMA FrameModes ==
  ASSUME NEW q \in Seq(Frame)
  PROVE  LET modes == [i \in DOMAIN q |-> q[i].spsr_el1] IN
         /\ q = <<>> => modes = <<>>
         /\ Len(q) = 1 => modes = <<q[1].spsr_el1>>
         /\ Len(q) = 2 => modes = <<q[1].spsr_el1, q[2].spsr_el1>>
         /\ Len(q) = 3 => modes = <<q[1].spsr_el1, q[2].spsr_el1, q[3].spsr_el1>>
  <1> DEFINE modes == [i \in DOMAIN q |-> q[i].spsr_el1]
  <1>1. DOMAIN q = 1..Len(q) /\ Len(q) \in Nat
    OBVIOUS
  <1>2. \A i \in 1..Len(q) : q[i].spsr_el1 \in Mode
    <2>1. \A i \in 1..Len(q) : q[i] \in Frame
      OBVIOUS
    <2>2. \A f \in Frame : f.spsr_el1 \in Mode
      BY DEF Frame
    <2> QED BY <2>1, <2>2
  <1>3. modes \in [1..Len(q) -> Mode] /\ \A i \in 1..Len(q) : modes[i] = q[i].spsr_el1
    BY <1>1, <1>2, ZenonT(30)
  <1> HIDE DEF modes
  <1>4. modes \in Seq(Mode) /\ Len(modes) = Len(q)
    BY <1>1, <1>3, FunctionIsSeq, ZenonT(30)
  <1>5. ASSUME q = <<>> PROVE modes = <<>>
    BY <1>4, <1>5
  <1>6. ASSUME Len(q) = 1 PROVE modes = <<q[1].spsr_el1>>
    BY <1>3, <1>4, <1>6
  <1>7. ASSUME Len(q) = 2 PROVE modes = <<q[1].spsr_el1, q[2].spsr_el1>>
    BY <1>3, <1>4, <1>7
  <1>8. ASSUME Len(q) = 3 PROVE modes = <<q[1].spsr_el1, q[2].spsr_el1, q[3].spsr_el1>>
    BY <1>3, <1>4, <1>8
  <1> QED BY <1>5, <1>6, <1>7, <1>8 DEF modes

\* push_exception_frame.
LEMMA Appended ==
  \A q \in Seq(Frame) : \A f \in Frame :
    /\ Append(q, f) \in Seq(Frame) /\ Len(Append(q, f)) = Len(q) + 1
    /\ \A i \in 1..Len(q) : Append(q, f)[i] = q[i]
    /\ Append(q, f)[Len(q) + 1] = f
  OBVIOUS

\* Two nested system calls leave three frames.
LEMMA ThreeFrames ==
  ASSUME NEW q \in Seq(Frame), Len(q) = 1, NEW f \in Frame, NEW g \in Frame
  PROVE  LET p == Append(Append(q, f), g) IN
         Len(p) = 3 /\ p[1] = q[1] /\ p[2] = f /\ p[3] = g
  <1> DEFINE p == Append(q, f)
             o == Append(p, g)
  <1>0. 1 \in 1..1 /\ 1 \in 1..2 /\ 2 \in 1..2 /\ 1 + 1 = 2 /\ 2 + 1 = 3
    OBVIOUS
  <1>1. /\ p \in Seq(Frame) /\ Len(p) = Len(q) + 1
        /\ \A i \in 1..Len(q) : p[i] = q[i]
        /\ p[Len(q) + 1] = f
    BY Appended, ZenonT(30)
  <1>2. p \in Seq(Frame) /\ Len(p) = 2 /\ p[1] = q[1] /\ p[2] = f
    BY <1>0, <1>1
  <1> HIDE DEF p
  <1>3. /\ Len(o) = Len(p) + 1 /\ \A i \in 1..Len(p) : o[i] = p[i]
        /\ o[Len(p) + 1] = g
    <2>1. p \in Seq(Frame)
      BY <1>2
    <2> QED BY <2>1, Appended, ZenonT(30)
  <1> HIDE DEF o
  <1>4. Len(o) = 3 /\ o[1] = p[1] /\ o[2] = p[2] /\ o[3] = g
    BY <1>0, <1>2, <1>3
  <1> QED BY <1>2, <1>4 DEF o, p

\* The constants that registers hold.
LEMMA Values ==
  /\ Mode \subseteq Val /\ Task \subseteq Val
  /\ "argc" \in Val /\ "context" \in Val /\ "entry" \in Val /\ "junk" \in Val
  /\ "kernel" \in Val /\ "none" \in Val
  /\ "el0" \in Mode /\ "el1" \in Mode /\ "masked" \in Mode
  /\ \A n \in Sizes \cup {0} : ToString(n) \in Val
  BY DEF Val, Mode

\* The core takes an exception and push_all saves the registers: the frame
\* has all that the interrupted code needs to go on.
LEMMA PushedFrame ==
  ASSUME NEW c \in Registers
  PROVE  LET f == PushAll(Trap(c)) IN
         /\ f \in Frame
         /\ f.x0 = c.x0 /\ f.x21 = c.x21 /\ f.x22 = c.x22 /\ f.x23 = c.x23
         /\ f.x30 = c.x30 /\ f.x31 = c.sp_el0 /\ f.elr_el1 = c.pc
         /\ f.spsr_el1 = c.pstate
         /\ Clobbered(Trap(c)) \in Registers
         /\ Clobbered(Trap(c)).pstate = "masked"
  <1> DEFINE d == Trap(c)
  <1>1. d \in Registers /\ d.pstate = "masked"
    BY Values, ZenonT(30) DEF Trap, Registers
  <1>2. d.x0 = c.x0 /\ d.x21 = c.x21 /\ d.x22 = c.x22 /\ d.x23 = c.x23
    BY DEF Trap, Registers
  <1>3. d.x30 = c.x30 /\ d.sp_el0 = c.sp_el0 /\ d.elr_el1 = c.pc /\ d.spsr_el1 = c.pstate
    BY DEF Trap, Registers
  <1>4. c.pstate \in Mode
    BY DEF Registers
  <1> HIDE DEF d
  <1>5. PushAll(d) \in Frame
    BY <1>1, <1>3, <1>4 DEF PushAll, Frame, Registers
  <1>6. Clobbered(d) \in Registers
    BY <1>1, Values, ZenonT(30) DEF Clobbered, Registers
  <1>7. Clobbered(d).pstate = "masked"
    BY <1>1 DEF Clobbered, Registers
  <1> QED BY <1>2, <1>3, <1>5, <1>6, <1>7 DEF d, PushAll

\* pop_all and eret give the registers of the frame back.
LEMMA PoppedFrame ==
  ASSUME NEW c \in Registers, NEW f \in Frame, NEW t \in Task
  PROVE  LET d == Eret(PopAll([c EXCEPT !.ttbr0 = t], f)) IN
         /\ d \in Registers
         /\ d.x0 = f.x0 /\ d.x21 = f.x21 /\ d.x22 = f.x22 /\ d.x23 = f.x23
         /\ d.x30 = f.x30 /\ d.sp_el0 = f.x31 /\ d.pc = f.elr_el1
         /\ d.pstate = f.spsr_el1 /\ d.ttbr0 = t
  <1> DEFINE a == [c EXCEPT !.ttbr0 = t]
             b == [a EXCEPT !.x22 = f.elr_el1, !.x23 = f.spsr_el1,
                            !.x30 = f.x30, !.x21 = f.x31]
             e == [b EXCEPT !.sp_el0 = b.x21, !.elr_el1 = b.x22, !.spsr_el1 = b.x23]
             p == [e EXCEPT !.x0 = f.x0, !.x21 = f.x21, !.x22 = f.x22, !.x23 = f.x23]
             d == [p EXCEPT !.pc = p.elr_el1, !.pstate = p.spsr_el1]
  <1>0. d = Eret(PopAll([c EXCEPT !.ttbr0 = t], f))
    BY DEF Eret, PopAll
  <1>f. /\ f.x0 \in Val /\ f.x21 \in Val /\ f.x22 \in Val /\ f.x23 \in Val /\ f.x30 \in Val
        /\ f.x31 \in Val /\ f.elr_el1 \in Val /\ f.spsr_el1 \in Mode
    BY DEF Frame
  <1>1. a \in Registers /\ a.ttbr0 = t
    BY Values DEF Registers
  <1> HIDE DEF a
  <1>2. b \in Registers
    BY <1>1, <1>f, Values, ZenonT(30) DEF Registers
  <1>3. b.x22 = f.elr_el1 /\ b.x23 = f.spsr_el1 /\ b.x30 = f.x30 /\ b.x21 = f.x31 /\ b.ttbr0 = t
    BY <1>1 DEF Registers
  <1> HIDE DEF b
  <1>4. e \in Registers
    BY <1>2, ZenonT(30) DEF Registers
  <1>5. e.sp_el0 = f.x31 /\ e.elr_el1 = f.elr_el1 /\ e.spsr_el1 = f.spsr_el1
    BY <1>2, <1>3 DEF Registers
  <1>6. e.x30 = f.x30 /\ e.ttbr0 = t
    BY <1>2, <1>3 DEF Registers
  <1> HIDE DEF e
  <1>7. p \in Registers
    BY <1>4, <1>f, ZenonT(30) DEF Registers
  <1>8. p.x0 = f.x0 /\ p.x21 = f.x21 /\ p.x22 = f.x22 /\ p.x23 = f.x23
    BY <1>4 DEF Registers
  <1>9. /\ p.sp_el0 = f.x31 /\ p.elr_el1 = f.elr_el1 /\ p.spsr_el1 = f.spsr_el1
        /\ p.x30 = f.x30 /\ p.ttbr0 = t
    BY <1>4, <1>5, <1>6 DEF Registers
  <1> HIDE DEF p
  <1>10. d \in Registers
    BY <1>7, <1>9, <1>f, ZenonT(30) DEF Registers
  <1>11. d.pc = f.elr_el1 /\ d.pstate = f.spsr_el1
    BY <1>7, <1>9 DEF Registers
  <1>12. /\ d.x0 = f.x0 /\ d.x21 = f.x21 /\ d.x22 = f.x22 /\ d.x23 = f.x23
         /\ d.x30 = f.x30 /\ d.sp_el0 = f.x31 /\ d.ttbr0 = t
    BY <1>7, <1>8, <1>9 DEF Registers
  <1> HIDE DEF d
  <1> QED BY <1>0, <1>10, <1>11, <1>12

-----------------------------------------------------------------------------
(* The machine as it starts.                                               *)

\* The tasks after Idle, in the order they were spawned.
LEMMA StartQueue ==
  /\ Others \in Seq(Task)
  /\ \A t \in Task \ {Idle} : \E i \in 1..Len(Others) : Others[i] = t
  /\ \A i \in 1..Len(Others) : Others[i] \in Task \ {Idle}
  /\ \A i, j \in 1..Len(Others) : Others[i] = Others[j] => i = j
  <1> DEFINE n == Cardinality(Task) - 1
  <1>1. n \in Nat /\ Others \in Orders
    BY FiniteAssumption DEF Others
  <1>2. /\ Others \in [1..n -> Task \ {Idle}] /\ IsInjective(Others)
        /\ \A t \in Task \ {Idle} : \E i \in DOMAIN Others : Others[i] = t
    BY <1>1 DEF Orders
  <1> HIDE DEF n
  <1>3. Others \in Seq(Task) /\ Len(Others) = n /\ DOMAIN Others = 1..n
    BY <1>1, <1>2
  <1> QED BY <1>2, <1>3 DEF IsInjective

\* The kernel as _start leaves it to the first schedule().
LEMMA BootedKernel ==
  KernelOK(BootMachine) /\ BootMachine.cpu.pstate = "masked"
  <1> DEFINE s == Started
             l == FreshLocks
  <1>1. /\ Others \in Seq(Task)
        /\ \A t \in Task \ {Idle} : \E i \in 1..Len(Others) : Others[i] = t
        /\ \A i \in 1..Len(Others) : Others[i] \in Task \ {Idle}
        /\ \A i, j \in 1..Len(Others) : Others[i] = Others[j] => i = j
    BY StartQueue
  <1>2. /\ s.run = [t \in Task |-> IF t = Idle THEN "Running" ELSE "Ready"]
        /\ s.slice = [[t \in Task |-> 0] EXCEPT ![Idle] = 1]
        /\ s.queue = Others /\ s.current = Idle /\ s.panic = FALSE
        /\ s = [run |-> s.run, slice |-> s.slice, queue |-> Others,
                current |-> Idle, panic |-> FALSE]
    <2>1. PICK u : u = Started
      OBVIOUS
    <2>2. /\ u.run = [t \in Task |-> IF t = Idle THEN "Running" ELSE "Ready"]
          /\ u.slice = [[t \in Task |-> 0] EXCEPT ![Idle] = 1]
          /\ u.queue = Others /\ u.current = Idle /\ u.panic = FALSE
          /\ u = [run |-> u.run, slice |-> u.slice, queue |-> Others,
                  current |-> Idle, panic |-> FALSE]
      BY <2>1, ZenonT(30) DEF Started, EmptySched, UNIT_TIME_SLICE
    <2> QED BY <2>1, <2>2, ZenonT(30)
  <1> HIDE DEF s
  <1>3. /\ s.run \in [Task -> RunState \cup {"Absent"}] /\ s.run[Idle] = "Running"
        /\ s.slice \in [Task -> Nat] /\ s.slice[Idle] = 1
    BY <1>2, TaskAssumption DEF RunState
  <1>4. s \in SchedState
    BY <1>1, <1>2, <1>3, TaskAssumption, ZenonT(30) DEF SchedState
  <1>5. QueueOK(s)
    BY <1>1, <1>2 DEF QueueOK
  <1>6. CurrentOK(s)
    BY <1>2, <1>3, ZenonT(30) DEF CurrentOK, UNIT_TIME_SLICE
  <1>7. SchedOK(s) /\ s.current \in Task
    BY <1>2, <1>4, <1>5, <1>6, TaskAssumption, ZenonT(30) DEF SchedOK
  <1>8. /\ l \in LockState
        /\ \A x \in Mutex : l.mwait[x] = <<>> /\ l.locked[x] = FALSE
        /\ \A c \in Cond : l.cwait[c] = <<>>
    BY DEF FreshLocks, LockState
  <1> HIDE DEF l
  <1>9. WaitersOK(s, l)
    <2>1. /\ \A x \in DOMAIN l.mwait : Len(l.mwait[x]) = 0
          /\ \A c \in DOMAIN l.cwait : Len(l.cwait[c]) = 0
      BY <1>8 DEF LockState
    <2>2. 1..0 = {}
      OBVIOUS
    <2>3. AllAsleep(s, l.mwait) /\ AllAsleep(s, l.cwait)
      BY <2>1, <2>2, ZenonT(30) DEF AllAsleep
    <2>4. Once(l.mwait) /\ Once(l.cwait)
      BY <2>1, <2>2, ZenonT(30) DEF Once
    <2>5. Apart(l.mwait, l.cwait)
      BY <2>1, <2>2, ZenonT(30) DEF Apart
    <2> QED BY <2>3, <2>4, <2>5 DEF WaitersOK
  <1>10. BootCpu \in Registers /\ BootCpu.pstate = "masked"
    BY Values DEF BootCpu, Registers
  <1>11. /\ BootMachine.sched = s /\ BootMachine.locks = l /\ BootMachine.cpu = BootCpu
         /\ BootMachine.iar = <<>> /\ BootMachine.active = {}
         /\ BootMachine.fault = "none"
    BY ZenonT(30) DEF BootMachine, s, l
  <1>12. BootMachine \in Machine
    <2>1. /\ [t \in Task |-> <<>>] \in [Task -> Seq(Frame)]
          /\ [t \in Task |-> {"context"}] \in [Task -> SUBSET {"context"}]
          /\ [t \in Task |-> 0] \in [Task -> 0..2]
      OBVIOUS
    <2>2. <<>> \in Seq({"timer", "uart"})
      OBVIOUS
    <2> QED
      BY <1>4, <1>8, <1>10, <2>1, <2>2, ZenonT(30) DEF BootMachine, Machine, s, l
  <1>13. Uart \in Mutex
    BY UartAssumption, ZenonT(30)
  <1>14. BaseOK(BootMachine)
    BY <1>3, <1>7, <1>8, <1>9, <1>11, <1>12, <1>13, ZenonT(30) DEF BaseOK
  <1> QED BY <1>8, <1>10, <1>11, <1>13, <1>14 DEF KernelOK

-----------------------------------------------------------------------------
(* Machines and tasks.                                                     *)

\* A task rests as long as its context does not change.
LEMMA StillRests ==
  ASSUME NEW k, NEW l, NEW t, NEW n, NEW x, Rests(k, t, n, x), SameTask(k, l, t)
  PROVE  Rests(l, t, n, x)
  BY ZenonT(30) DEF Rests, SameTask

\* The same of all tasks.
LEMMA StillAllRest ==
  ASSUME NEW k, NEW e, NEW r, NEW x, AllRest(k, r, x),
         e.frames = k.frames, e.status = k.status, e.entries = k.entries
  PROVE  AllRest(e, r, x)
  <1> SUFFICES ASSUME NEW u \in Task PROVE Rests(e, u, r[u].left, x[u])
    BY DEF AllRest
  <1>1. SameTask(k, e, u)
    BY ZenonT(30) DEF SameTask
  <1>2. Rests(k, u, r[u].left, x[u])
    BY ZenonT(30) DEF AllRest
  <1> QED BY <1>1, <1>2, StillRests, ZenonT(30)

\* The same of all tasks but one.
LEMMA StillOthersRest ==
  ASSUME NEW k, NEW e, NEW t, NEW r, NEW x, OthersRest(k, t, r, x),
         \A u \in Task \ {t} : SameTask(k, e, u)
  PROVE  OthersRest(e, t, r, x)
  <1> SUFFICES ASSUME NEW u \in Task, u # t PROVE Rests(e, u, r[u].left, x[u])
    BY ZenonT(30) DEF OthersRest
  <1>1. SameTask(k, e, u)
    OBVIOUS
  <1>2. Rests(k, u, r[u].left, x[u])
    BY DEF OthersRest
  <1> QED BY <1>1, <1>2, StillRests

\* The other tasks rest whatever the current one reads and expects.
LEMMA Rest ==
  ASSUME NEW k, NEW t, NEW r, NEW x, NEW q, NEW y, OthersRest(k, t, r, x),
         \A u \in Task \ {t} : q[u] = r[u] /\ y[u] = x[u]
  PROVE  OthersRest(k, t, q, y)
  BY ZenonT(30) DEF OthersRest

\* Updates of a machine.
LEMMA SetsSched ==
  ASSUME NEW k \in Machine, NEW s \in SchedState
  PROVE  LET e == [k EXCEPT !.sched = s] IN
         KernelStep(k, e) /\ e.sched = s /\ e.locks = k.locks
  <1> DEFINE e == [k EXCEPT !.sched = s]
  <1>1. /\ e.cpu = k.cpu /\ e.frames = k.frames /\ e.status = k.status
        /\ e.entries = k.entries /\ e.iar = k.iar /\ e.active = k.active
        /\ e.fault = k.fault /\ e.locks = k.locks /\ e.sched = s
    BY ZenonT(30) DEF Machine
  <1>2. e \in Machine
    BY <1>1, ZenonT(30) DEF Machine
  <1> QED BY <1>1, <1>2 DEF KernelStep

\* The locks change.
LEMMA SetsLocks ==
  ASSUME NEW k \in Machine, NEW l \in LockState
  PROVE  LET e == [k EXCEPT !.locks = l] IN
         KernelStep(k, e) /\ e.sched = k.sched /\ e.locks = l
  <1> DEFINE e == [k EXCEPT !.locks = l]
  <1>1. /\ e.cpu = k.cpu /\ e.frames = k.frames /\ e.status = k.status
        /\ e.entries = k.entries /\ e.iar = k.iar /\ e.active = k.active
        /\ e.fault = k.fault /\ e.locks = l /\ e.sched = k.sched
    BY ZenonT(30) DEF Machine
  <1>2. e \in Machine
    BY <1>1, ZenonT(30) DEF Machine
  <1> QED BY <1>1, <1>2 DEF KernelStep

\* The scheduler and the locks change.
LEMMA SetsBoth ==
  ASSUME NEW k \in Machine, NEW s \in SchedState, NEW l \in LockState
  PROVE  LET e == [k EXCEPT !.locks = l, !.sched = s] IN
         /\ KernelStep(k, e) /\ e.sched = s /\ e.locks = l
         /\ e = [k EXCEPT !.sched = s, !.locks = l]
  <1> DEFINE e == [k EXCEPT !.locks = l, !.sched = s]
  <1>1. /\ e.cpu = k.cpu /\ e.frames = k.frames /\ e.status = k.status
        /\ e.entries = k.entries /\ e.iar = k.iar /\ e.active = k.active
        /\ e.fault = k.fault /\ e.locks = l /\ e.sched = s
    BY ZenonT(30) DEF Machine
  <1>2. e \in Machine
    BY <1>1, ZenonT(30) DEF Machine
  <1>3. e = [k EXCEPT !.sched = s, !.locks = l]
    BY ZenonT(30)
  <1> QED BY <1>1, <1>2, <1>3, ZenonT(30) DEF KernelStep

\* Waking the tasks of an empty list.
LEMMA NobodyWoken ==
  ASSUME NEW s, SchedOK(s)
  PROVE  /\ SchedOK(WakeAll(s, <<>>)) /\ WakeAll(s, <<>>).current = s.current
         /\ \A u \in Task : WakeAll(s, <<>>).run[u] = s.run[u]
  <1>0. <<>> \in Seq(Task)
    OBVIOUS
  <1>1. PICK w \in Seq(Task) : w = <<>>
    BY <1>0, ZenonT(30)
  <1>2. 1..Len(w) = {}
    BY <1>1
  <1>3. /\ \A i \in 1..Len(w) : s.run[w[i]] = "Sleeping"
        /\ \A i, j \in 1..Len(w) : w[i] = w[j] => i = j
        /\ \A u \in Task : \A i \in 1..Len(w) : w[i] # u
    BY <1>2, ZenonT(30)
  <1>4. /\ SchedOK(WakeAll(s, w)) /\ WakeAll(s, w).current = s.current
        /\ \A u \in Task : WakeAll(s, w).run[u] = s.run[u]
    BY <1>3, WakeAllKeeps
  <1> QED BY <1>1, <1>4

\* RawCondvar::wait unlocks the mutex and parks its caller.
LEMMA ParksCaller ==
  ASSUME NEW l \in LockState, l.mwait[Uart] = <<>>, NEW t \in Task
  PROVE  LET p == Parked(l, Uart, Uart, t) IN
         /\ p \in LockState /\ p.locked[Uart] = FALSE
         /\ p.mwait = l.mwait /\ p.cwait = Pushed(l.cwait, Uart, t)
  <1> DEFINE p == Parked(l, Uart, Uart, t)
  <1>0. Uart \in Mutex /\ Uart \in Cond
    BY UartAssumption, ZenonT(30)
  <1>1. /\ p \in LockState
        /\ p.locked = [l.locked EXCEPT ![Uart] = FALSE]
        /\ p.mwait = [l.mwait EXCEPT ![Uart] = <<>>]
        /\ p.cwait = Pushed(l.cwait, Uart, t)
    BY <1>0, ParkedFields
  <1> HIDE DEF p
  <1>2. l.mwait \in [Mutex -> Seq(Task)] /\ l.locked \in [Mutex -> BOOLEAN]
    BY DEF LockState
  <1>3. p.mwait = l.mwait /\ p.locked[Uart] = FALSE
    BY <1>0, <1>1, <1>2, ZenonT(30)
  <1> QED BY <1>1, <1>3 DEF p

-----------------------------------------------------------------------------
(* Entering and leaving the kernel.                                        *)

\* The vector pushes one frame for the current task and changes nothing else.
LEMMA Entry ==
  ASSUME NEW k \in Machine, NEW t \in Task, k.sched.current = t
  PROVE  LET e == Entered(k)
             f == PushAll(Trap(k.cpu)) IN
         /\ e \in Machine
         /\ e.sched = k.sched /\ e.locks = k.locks /\ e.status = k.status
         /\ e.entries = k.entries /\ e.iar = k.iar /\ e.active = k.active
         /\ e.fault = k.fault
         /\ e.cpu.pstate = "masked"
         /\ \A u \in Task \ {t} : e.frames[u] = k.frames[u]
         /\ e.frames[t] = Append(k.frames[t], f)
  <1> DEFINE f == PushAll(Trap(k.cpu))
             c == Clobbered(Trap(k.cpu))
             e == [k EXCEPT !.frames[t] = Append(@, f), !.cpu = c]
  <1>1. k.cpu \in Registers /\ k.frames \in [Task -> Seq(Frame)]
    BY ZenonT(30) DEF Machine
  <1>2. f \in Frame /\ c \in Registers /\ c.pstate = "masked"
    BY <1>1, PushedFrame, ZenonT(30)
  <1>3. Entered(k) = e
    BY TaskAssumption, ZenonT(30) DEF Entered
  <1> HIDE DEF f, c
  <1>4. /\ e.sched = k.sched /\ e.locks = k.locks /\ e.status = k.status
        /\ e.entries = k.entries /\ e.iar = k.iar /\ e.active = k.active
        /\ e.fault = k.fault
    BY ZenonT(30) DEF Machine
  <1>5. e.cpu = c
    BY ZenonT(30) DEF Machine
  <1>6. e.frames = [k.frames EXCEPT ![t] = Append(k.frames[t], f)]
    BY ZenonT(30) DEF Machine
  <1>7. e.frames \in [Task -> Seq(Frame)]
    BY <1>1, <1>2, <1>6
  <1>8. e \in Machine
    BY <1>2, <1>4, <1>5, <1>7, ZenonT(30) DEF Machine
  <1> HIDE DEF e
  <1>9. /\ \A u \in Task \ {t} : e.frames[u] = k.frames[u]
        /\ e.frames[t] = Append(k.frames[t], f)
    BY <1>1, <1>6
  <1> QED BY <1>2, <1>3, <1>4, <1>5, <1>8, <1>9 DEF f

\* return_to_user pops one frame of the current task, or starts it.
LEMMA Exit ==
  ASSUME NEW k \in Machine, NEW t \in Task, k.sched.current = t,
         k.fault = "none", ~k.sched.panic, k.cpu.pstate = "masked"
  PROVE  LET r == ReturnToUser(k)
             f == ResultOf(k, t, TopFrame(k, t)) IN
         /\ r \in Machine
         /\ r.sched = k.sched /\ r.locks = k.locks /\ r.iar = k.iar
         /\ r.active = k.active /\ r.fault = "none"
         /\ \A u \in Task \ {t} : /\ r.frames[u] = k.frames[u] /\ r.status[u] = k.status[u]
                                  /\ r.entries[u] = k.entries[u]
         /\ r.status[t] = {}
         /\ k.frames[t] = <<>> => r.frames[t] = <<>> /\ (k.entries[t] = 0 => r.entries[t] = 1)
         /\ k.frames[t] # <<>> => r.frames[t] = Front(k.frames[t]) /\ r.entries[t] = k.entries[t]
         /\ r.cpu.x0 = f.x0 /\ r.cpu.x21 = f.x21 /\ r.cpu.x22 = f.x22 /\ r.cpu.x23 = f.x23
         /\ r.cpu.x30 = f.x30 /\ r.cpu.sp_el0 = f.x31 /\ r.cpu.pc = f.elr_el1
         /\ r.cpu.pstate = f.spsr_el1 /\ r.cpu.ttbr0 = t
  <1> DEFINE f == ResultOf(k, t, TopFrame(k, t))
             g == IF k.frames[t] = <<>> THEN k.frames[t] ELSE Front(k.frames[t])
             n == IF k.frames[t] = <<>> /\ k.entries[t] < 2 THEN k.entries[t] + 1
                  ELSE k.entries[t]
             c == Eret(PopAll([k.cpu EXCEPT !.ttbr0 = t], f))
             a == [k EXCEPT !.entries[t] = n, !.frames[t] = g, !.cpu = c]
             r == [a EXCEPT !.status[t] = {}]
  <1>1. /\ k.cpu \in Registers /\ k.frames \in [Task -> Seq(Frame)]
        /\ k.entries \in [Task -> 0..2] /\ k.status \in [Task -> SUBSET {"context"}]
    BY ZenonT(30) DEF Machine
  <1>2. ReturnToUser(k) = r
    <2>1. ReturnToUser(k) = ReturnTo(k, t)
      BY TaskAssumption, ZenonT(30) DEF ReturnToUser
    <2>2. ReturnTo(k, t) = TakeStatus(a, t)
      BY ZenonT(30) DEF ReturnTo
    <2> QED BY <2>1, <2>2 DEF TakeStatus
  <1>3. f \in Frame
    <2>1. TopFrame(k, t) \in Frame
      <3>1. EntryFrame \in Frame
        BY Values, ZenonT(30) DEF EntryFrame, Frame
      <3>2. k.frames[t] # <<>> => k.frames[t][Len(k.frames[t])] \in Frame
        BY <1>1
      <3> QED BY <3>1, <3>2, ZenonT(30) DEF TopFrame, Last
    <2>2. k.status[t] # {} => (CHOOSE s \in k.status[t] : TRUE) = "context"
      BY <1>1, ZenonT(30)
    <2> QED BY <2>1, <2>2, Values, ZenonT(30) DEF ResultOf, Frame
  <1>4. g \in Seq(Frame)
    BY <1>1 DEF Front
  <1>5. n \in 0..2
    BY <1>1
  <1>6. /\ c \in Registers
        /\ c.x0 = f.x0 /\ c.x21 = f.x21 /\ c.x22 = f.x22 /\ c.x23 = f.x23
        /\ c.x30 = f.x30 /\ c.sp_el0 = f.x31 /\ c.pc = f.elr_el1
        /\ c.pstate = f.spsr_el1 /\ c.ttbr0 = t
    <2> HIDE DEF f
    <2> QED BY <1>1, <1>3, PoppedFrame
  <1> HIDE DEF f, g, n, c
  <1>7. /\ a.sched = k.sched /\ a.locks = k.locks /\ a.status = k.status
        /\ a.iar = k.iar /\ a.active = k.active /\ a.fault = k.fault
    BY ZenonT(30) DEF Machine
  <1>8. a.cpu = c
    BY ZenonT(30) DEF Machine
  <1>9. a.frames = [k.frames EXCEPT ![t] = g]
    BY ZenonT(30) DEF Machine
  <1>10. a.entries = [k.entries EXCEPT ![t] = n]
    BY ZenonT(30) DEF Machine
  <1>11. a \in Machine
    BY <1>1, <1>4, <1>5, <1>6, <1>7, <1>8, <1>9, <1>10, ZenonT(30) DEF Machine
  <1> HIDE DEF a
  <1>12. /\ r.sched = a.sched /\ r.locks = a.locks /\ r.frames = a.frames
         /\ r.iar = a.iar /\ r.active = a.active /\ r.fault = a.fault
    BY <1>11, ZenonT(30) DEF Machine
  <1>13. r.cpu = c /\ r.entries = a.entries /\ r.status = [k.status EXCEPT ![t] = {}]
    BY <1>7, <1>8, <1>11, ZenonT(30) DEF Machine
  <1>14. r \in Machine
    BY <1>1, <1>11, <1>12, <1>13, ZenonT(30) DEF Machine
  <1> HIDE DEF r
  <1>15. \A u \in Task \ {t} : /\ r.frames[u] = k.frames[u] /\ r.status[u] = k.status[u]
                              /\ r.entries[u] = k.entries[u]
    <2>1. \A u \in Task \ {t} : r.frames[u] = k.frames[u]
      BY <1>1, <1>9, <1>12, ZenonT(30)
    <2>2. \A u \in Task \ {t} : r.status[u] = k.status[u]
      BY <1>1, <1>13, ZenonT(30)
    <2>3. \A u \in Task \ {t} : r.entries[u] = k.entries[u]
      BY <1>1, <1>10, <1>13, ZenonT(30)
    <2> QED BY <2>1, <2>2, <2>3, ZenonT(30)
  <1>16. r.status[t] = {} /\ r.frames[t] = g /\ r.entries[t] = n
    BY <1>1, <1>9, <1>10, <1>12, <1>13, ZenonT(30)
  <1>17. /\ k.frames[t] = <<>> => r.frames[t] = <<>> /\ (k.entries[t] = 0 => r.entries[t] = 1)
         /\ k.frames[t] # <<>> => r.frames[t] = Front(k.frames[t]) /\ r.entries[t] = k.entries[t]
    BY <1>16 DEF g, n
  <1> QED BY <1>2, <1>6, <1>7, <1>12, <1>13, <1>14, <1>15, <1>16, <1>17, ZenonT(30) DEF f

\* return_to_user when every task has the frames it should: the next task runs.
LEMMA Returned ==
  ASSUME NEW k, KernelOK(k), k.cpu.pstate = "masked", NEW r, NEW x, AllRest(k, r, x)
  PROVE  Outside(ReturnToUser(k), r, x)
  <1> DEFINE l == ReturnToUser(k)
             t == k.sched.current
             f == ResultOf(k, t, TopFrame(k, t))
             n == r[t].left
  <1>1. /\ k \in Machine /\ t \in Task /\ k.fault = "none" /\ ~k.sched.panic
    BY ZenonT(30) DEF KernelOK, BaseOK, SchedOK
  <1>2. /\ l \in Machine
        /\ l.sched = k.sched /\ l.locks = k.locks /\ l.iar = k.iar
        /\ l.active = k.active /\ l.fault = "none"
        /\ \A u \in Task \ {t} : /\ l.frames[u] = k.frames[u] /\ l.status[u] = k.status[u]
                                 /\ l.entries[u] = k.entries[u]
        /\ l.status[t] = {}
        /\ k.frames[t] = <<>> => l.frames[t] = <<>> /\ (k.entries[t] = 0 => l.entries[t] = 1)
        /\ k.frames[t] # <<>> => l.frames[t] = Front(k.frames[t]) /\ l.entries[t] = k.entries[t]
        /\ l.cpu.x0 = f.x0 /\ l.cpu.x21 = f.x21 /\ l.cpu.x22 = f.x22 /\ l.cpu.x23 = f.x23
        /\ l.cpu.x30 = f.x30 /\ l.cpu.sp_el0 = f.x31 /\ l.cpu.pc = f.elr_el1
        /\ l.cpu.pstate = f.spsr_el1 /\ l.cpu.ttbr0 = t
    BY <1>1, Exit, ZenonT(30)
  <1> HIDE DEF l
  <1>3. KernelOK(l)
    BY <1>2, ZenonT(30) DEF KernelOK, BaseOK
  <1>4. OthersRest(l, t, r, x)
    <2> SUFFICES ASSUME NEW u \in Task, u # t PROVE Rests(l, u, r[u].left, x[u])
      BY ZenonT(30) DEF OthersRest
    <2>1. SameTask(k, l, u)
      BY <1>2 DEF SameTask
    <2>2. Rests(k, u, r[u].left, x[u])
      BY ZenonT(30) DEF AllRest
    <2> QED BY <2>1, <2>2, StillRests, ZenonT(30)
  <1>5. Rests(k, t, n, x[t]) /\ k.frames[t] \in Seq(Frame)
    BY <1>1, ZenonT(30) DEF AllRest, Machine
  <1> HIDE DEF n
  <1>6. Runs(l, t, n, x[t])
    <2>1. CASE n = 0 /\ k.entries[t] = 0 /\ k.frames[t] = <<>>
      <3>1. TopFrame(k, t) = EntryFrame
        BY <2>1, ZenonT(30) DEF TopFrame
      <3>2. f.spsr_el1 = "el1"
        BY <3>1 DEF ResultOf, EntryFrame
      <3> QED BY <1>2, <2>1, <3>2, ZenonT(30) DEF Runs
    <2>2. CASE /\ n = 0 /\ k.entries[t] = 1 /\ k.status[t] = {} /\ Len(k.frames[t]) = 1
               /\ \/ k.frames[t][1].spsr_el1 = "el1"
                  \/ Own(k.frames[t][1], t) /\ k.frames[t][1].x0 = x[t]
      <3>1. k.frames[t] # <<>> /\ Front(k.frames[t]) = <<>>
        BY <1>5, <2>2 DEF Front
      <3>2. f = k.frames[t][1]
        BY <2>2, <3>1, ZenonT(30) DEF ResultOf, TopFrame, Last
      <3>3. l.frames[t] = <<>> /\ l.entries[t] = 1 /\ l.status[t] = {}
        BY <1>2, <2>2, <3>1, ZenonT(30)
      <3>4. CASE k.frames[t][1].spsr_el1 = "el1"
        BY <1>2, <2>2, <3>2, <3>3, <3>4, ZenonT(30) DEF Runs
      <3>5. CASE Own(k.frames[t][1], t) /\ k.frames[t][1].x0 = x[t]
        <4>1. OwnCpu(l.cpu, t) /\ l.cpu.x0 = x[t]
          <5>1. /\ f.x21 = t /\ f.x22 = t /\ f.x23 = t /\ f.x30 = t /\ f.x31 = t
                /\ f.elr_el1 = t /\ f.spsr_el1 = "el0" /\ f.x0 = x[t]
            BY <3>2, <3>5, ZenonT(30) DEF Own
          <5>2. /\ l.cpu.x21 = f.x21 /\ l.cpu.x22 = f.x22 /\ l.cpu.x23 = f.x23
                /\ l.cpu.x30 = f.x30 /\ l.cpu.sp_el0 = f.x31 /\ l.cpu.pc = f.elr_el1
                /\ l.cpu.ttbr0 = t /\ l.cpu.pstate = f.spsr_el1 /\ l.cpu.x0 = f.x0
            BY <1>2, ZenonT(30)
          <5> QED BY <5>1, <5>2, ZenonT(30) DEF OwnCpu
        <4> QED BY <2>2, <3>3, <4>1, ZenonT(30) DEF Runs
      <3> QED BY <2>2, <3>4, <3>5, ZenonT(30)
    <2>3. CASE /\ n > 0 /\ k.entries[t] = 1 /\ k.status[t] = {} /\ Len(k.frames[t]) = 3
               /\ Own(k.frames[t][1], t)
               /\ k.frames[t][2].spsr_el1 = "masked" /\ k.frames[t][3].spsr_el1 = "masked"
      <3>1. /\ k.frames[t] # <<>> /\ Len(Front(k.frames[t])) = 2
            /\ Front(k.frames[t])[1] = k.frames[t][1] /\ Front(k.frames[t])[2] = k.frames[t][2]
        BY <1>5, <2>3 DEF Front
      <3>2. f = k.frames[t][3]
        BY <2>3, <3>1, ZenonT(30) DEF ResultOf, TopFrame, Last
      <3>3. l.entries[t] = 1 /\ l.status[t] = {} /\ l.cpu.pstate = "masked"
        BY <1>2, <2>3, <3>1, <3>2, ZenonT(30)
      <3>4. /\ Len(l.frames[t]) = 2 /\ Own(l.frames[t][1], t)
            /\ l.frames[t][2].spsr_el1 = "masked"
        BY <1>2, <2>3, <3>1, ZenonT(30)
      <3> QED BY <2>3, <3>3, <3>4, ZenonT(30) DEF Runs
    <2> QED BY <1>5, <2>1, <2>2, <2>3, ZenonT(30) DEF Rests
  <1> QED BY <1>2, <1>3, <1>4, <1>6, ZenonT(30) DEF l, n, Outside

\* A task outside the kernel is interrupted or makes a system call.
LEMMA Preempted ==
  ASSUME NEW k, BaseOK(k), k.cpu.pstate # "masked", NEW r, NEW x, NEW t \in Task,
         k.sched.current = t, OthersRest(k, t, r, x), Runs(k, t, r[t].left, x[t])
  PROVE  LET e == Entered(k) IN
         /\ BaseOK(e) /\ AllRest(e, r, x) /\ e.cpu.pstate = "masked"
         /\ e.sched = k.sched /\ e.locks = k.locks /\ e.iar = k.iar /\ e.active = k.active
         /\ r[t].left = 0 /\ e.entries[t] = 1 /\ e.status[t] = {} /\ Len(e.frames[t]) = 1
         /\ k.cpu.pstate = "el0" => Own(e.frames[t][1], t)
  <1> DEFINE e == Entered(k)
             f == PushAll(Trap(k.cpu))
             n == r[t].left
  <1>1. k \in Machine /\ k.cpu \in Registers /\ k.fault = "none"
    BY ZenonT(30) DEF BaseOK, Machine
  <1>2. /\ e \in Machine
        /\ e.sched = k.sched /\ e.locks = k.locks /\ e.status = k.status
        /\ e.entries = k.entries /\ e.iar = k.iar /\ e.active = k.active
        /\ e.fault = k.fault
        /\ e.cpu.pstate = "masked"
        /\ \A u \in Task \ {t} : e.frames[u] = k.frames[u]
        /\ e.frames[t] = Append(k.frames[t], f)
    BY <1>1, Entry, ZenonT(30)
  <1>3. /\ f.x0 = k.cpu.x0 /\ f.x21 = k.cpu.x21 /\ f.x22 = k.cpu.x22 /\ f.x23 = k.cpu.x23
        /\ f.x30 = k.cpu.x30 /\ f.x31 = k.cpu.sp_el0 /\ f.elr_el1 = k.cpu.pc
        /\ f.spsr_el1 = k.cpu.pstate
    BY <1>1, PushedFrame, ZenonT(30)
  <1> HIDE DEF e, f, n
  <1>4. BaseOK(e)
    BY <1>2, ZenonT(30) DEF BaseOK
  <1>5. /\ n = 0 /\ k.frames[t] = <<>> /\ k.entries[t] = 1 /\ k.status[t] = {}
        /\ k.cpu.pstate = "el1" \/ (OwnCpu(k.cpu, t) /\ k.cpu.x0 = x[t])
    BY ZenonT(30) DEF Runs, n
  <1>6. e.frames[t] = <<f>> /\ Len(e.frames[t]) = 1 /\ e.frames[t][1] = f
    BY <1>2, <1>5
  <1>7. e.entries[t] = 1 /\ e.status[t] = {}
    BY <1>2, <1>5, ZenonT(30)
  <1>8. k.cpu.pstate = "el0" => Own(f, t) /\ f.x0 = x[t]
    BY <1>3, <1>5, ZenonT(30) DEF OwnCpu, Own
  <1>9. k.cpu.pstate \in {"el0", "el1"}
    BY <1>5, ZenonT(30) DEF OwnCpu
  <1>10. Rests(e, t, n, x[t])
    BY <1>3, <1>5, <1>6, <1>7, <1>8, <1>9, ZenonT(30) DEF Rests
  <1>11. \A u \in Task : u # t => Rests(e, u, r[u].left, x[u])
    <2> SUFFICES ASSUME NEW u \in Task, u # t PROVE Rests(e, u, r[u].left, x[u])
      BY ZenonT(30)
    <2>1. SameTask(k, e, u)
      BY <1>2, ZenonT(30) DEF SameTask
    <2>2. Rests(k, u, r[u].left, x[u])
      BY DEF OthersRest
    <2> QED BY <2>1, <2>2, StillRests
  <1>12. AllRest(e, r, x)
    BY <1>10, <1>11, ZenonT(30) DEF AllRest, n
  <1> QED BY <1>2, <1>4, <1>5, <1>6, <1>7, <1>8, <1>12 DEF e, n

\* interrupt_begin and the vector.
LEMMA Interrupts ==
  ASSUME NEW k, NEW r, NEW x, NEW irq \in {"timer", "uart"}, Outside(k, r, x),
         k.cpu.pstate # "masked"
  PROVE  LET e == Interrupted(k, irq) IN
         /\ BaseOK(e) /\ AllRest(e, r, x) /\ e.cpu.pstate = "masked"
         /\ e.sched = k.sched /\ e.locks = k.locks /\ e.iar = <<irq>> /\ e.active = {irq}
  <1> DEFINE b == [k EXCEPT !.active = k.active \cup {irq}, !.iar = Append(k.iar, irq)]
             t == k.sched.current
  <1>1. /\ KernelOK(k) /\ BaseOK(k) /\ k \in Machine /\ t \in Task
        /\ OthersRest(k, t, r, x) /\ Runs(k, t, r[t].left, x[t])
        /\ k.iar = <<>> /\ k.active = {}
    BY DEF Outside, KernelOK, BaseOK
  <1>2. Interrupted(k, irq) = Entered(b)
    BY DEF Interrupted, Then
  <1>3. /\ b.sched = k.sched /\ b.locks = k.locks /\ b.cpu = k.cpu /\ b.frames = k.frames
        /\ b.status = k.status /\ b.entries = k.entries /\ b.fault = k.fault
    BY <1>1, ZenonT(30) DEF Machine
  <1>4. b.iar = <<irq>> /\ b.active = {irq}
    <2>1. b.iar = Append(k.iar, irq) /\ b.active = k.active \cup {irq}
      BY <1>1, ZenonT(30) DEF Machine
    <2>2. Append(<<>>, irq) = <<irq>>
      OBVIOUS
    <2> QED BY <1>1, <2>1, <2>2, ZenonT(30)
  <1>5. b \in Machine
    <2> DEFINE I == {"timer", "uart"}
    <2>1. irq \in I
      BY ZenonT(30)
    <2> HIDE DEF I
    <2>2. <<irq>> \in Seq(I) /\ {irq} \in SUBSET I
      BY <2>1
    <2> QED BY <1>1, <1>3, <1>4, <2>2, ZenonT(30) DEF Machine, I
  <1> HIDE DEF b
  <1>6. BaseOK(b)
    BY <1>1, <1>3, <1>5, ZenonT(30) DEF BaseOK
  <1>7. OthersRest(b, t, r, x)
    <2> SUFFICES ASSUME NEW u \in Task, u # t PROVE Rests(b, u, r[u].left, x[u])
      BY DEF OthersRest
    <2>1. SameTask(k, b, u)
      BY <1>3, ZenonT(30) DEF SameTask
    <2>2. Rests(k, u, r[u].left, x[u])
      BY <1>1, ZenonT(30) DEF OthersRest
    <2> QED BY <2>1, <2>2, StillRests, ZenonT(30)
  <1>8. Runs(b, t, r[t].left, x[t])
    BY <1>1, <1>3, ZenonT(30) DEF Runs
  <1>9. b.sched.current = t /\ b.cpu.pstate # "masked"
    BY <1>3, ZenonT(30)
  <1> HIDE DEF t
  <1>10. LET e == Entered(b) IN
         /\ BaseOK(e) /\ AllRest(e, r, x) /\ e.cpu.pstate = "masked"
         /\ e.sched = b.sched /\ e.locks = b.locks /\ e.iar = b.iar /\ e.active = b.active
    BY <1>1, <1>6, <1>7, <1>8, <1>9, Preempted
  <1> QED BY <1>2, <1>3, <1>4, <1>10, ZenonT(30)

\* interrupt_end.
LEMMA EndsInterrupt ==
  ASSUME NEW k \in Machine, NEW irq \in {"timer", "uart"}, k.iar = <<irq>>, k.active = {irq}
  PROVE  LET e == InterruptEnd(k) IN
         /\ e \in Machine /\ e.iar = <<>> /\ e.active = {}
         /\ e.sched = k.sched /\ e.locks = k.locks /\ e.cpu = k.cpu /\ e.frames = k.frames
         /\ e.status = k.status /\ e.entries = k.entries /\ e.fault = k.fault
  <1> DEFINE e == [k EXCEPT !.iar = Front(k.iar), !.active = k.active \ {Last(k.iar)}]
  <1>1. Front(k.iar) = <<>> /\ Last(k.iar) = irq /\ k.iar # <<>>
    BY DEF Front, Last
  <1>2. InterruptEnd(k) = e
    BY <1>1 DEF InterruptEnd
  <1>3. /\ e.sched = k.sched /\ e.locks = k.locks /\ e.cpu = k.cpu /\ e.frames = k.frames
        /\ e.status = k.status /\ e.entries = k.entries /\ e.fault = k.fault
    BY ZenonT(30) DEF Machine
  <1>4. e.iar = Front(k.iar) /\ e.active = k.active \ {Last(k.iar)}
    BY ZenonT(30) DEF Machine
  <1>5. e.iar = <<>> /\ e.active = {}
    BY <1>1, <1>4
  <1>6. e \in Machine
    <2>1. <<>> \in Seq({"timer", "uart"})
      OBVIOUS
    <2> QED BY <1>3, <1>5, <2>1, ZenonT(30) DEF Machine
  <1> QED BY <1>2, <1>3, <1>5, <1>6, ZenonT(30)

-----------------------------------------------------------------------------
(* The interrupt handlers.                                                 *)

\* The handler of the timer.
LEMMA TimerReturns ==
  ASSUME NEW k, NEW r, NEW x, Outside(k, r, x), k.cpu.pstate # "masked"
  PROVE  Outside(Then(Interrupted(k, "timer"), TimerHandled), r, x)
  <1> DEFINE e == Interrupted(k, "timer")
             h == InterruptEnd(e)
             s == TimerTick(h.sched)
             g == [h EXCEPT !.sched = s]
  <1>1. /\ BaseOK(e) /\ AllRest(e, r, x) /\ e.cpu.pstate = "masked" /\ e \in Machine
        /\ e.sched = k.sched /\ e.locks = k.locks /\ e.iar = <<"timer">> /\ e.active = {"timer"}
    BY Interrupts, ZenonT(30) DEF BaseOK
  <1>2. /\ h \in Machine /\ h.iar = <<>> /\ h.active = {}
        /\ h.sched = e.sched /\ h.locks = e.locks /\ h.cpu = e.cpu /\ h.frames = e.frames
        /\ h.status = e.status /\ h.entries = e.entries /\ h.fault = e.fault
    <2> HIDE DEF e
    <2> QED BY <1>1, EndsInterrupt, ZenonT(30)
  <1>3. Then(e, TimerHandled) = ReturnToUser(g)
    <2>1. Then(e, TimerHandled) = TimerHandled(e)
      BY ZenonT(30) DEF Then
    <2> QED BY <2>1 DEF TimerHandled, Then
  <1> HIDE DEF e, h
  <1>4. /\ SchedOK(h.sched) /\ h.sched.current \in Task
        /\ h.sched.run[Idle] \in {"Ready", "Running"} /\ WaitersOK(h.sched, h.locks)
        /\ h.locks.mwait[Uart] = <<>> /\ h.locks.locked[Uart] = FALSE /\ h.fault = "none"
    BY <1>1, <1>2, ZenonT(30) DEF BaseOK, Outside, KernelOK
  <1>5. /\ SchedOK(s) /\ s.current \in Task
        /\ \A u \in Task : h.sched.run[u] \in {"Ready", "Running"}
                              => s.run[u] \in {"Ready", "Running"}
        /\ \A u \in Task : h.sched.run[u] \in {"Sleeping", "Absent"}
                              => s.run[u] = h.sched.run[u]
    BY <1>4, TimerTickKeeps, ZenonT(30)
  <1> HIDE DEF s
  <1>6. s \in SchedState
    BY <1>5, ZenonT(30) DEF SchedOK
  <1>7. KernelStep(h, g) /\ g.sched = s /\ g.locks = h.locks
    BY <1>2, <1>6, SetsSched, ZenonT(30)
  <1> HIDE DEF g
  <1>8. WaitersOK(s, h.locks)
    <2>1. h.locks.mwait \in [Mutex -> Seq(Task)] /\ h.locks.cwait \in [Cond -> Seq(Task)]
      BY <1>2, ZenonT(30) DEF Machine, LockState
    <2>2. \A u \in Task : h.sched.run[u] = "Sleeping" => s.run[u] = "Sleeping"
      BY <1>5
    <2>3. AllAsleep(s, h.locks.mwait)
      BY <1>4, <2>1, <2>2, AsleepStays, ZenonT(30) DEF WaitersOK
    <2>4. AllAsleep(s, h.locks.cwait)
      BY <1>4, <2>1, <2>2, AsleepStays, ZenonT(30) DEF WaitersOK
    <2> QED BY <1>4, <2>3, <2>4, ZenonT(30) DEF WaitersOK
  <1>9. KernelOK(g)
    BY <1>2, <1>4, <1>5, <1>7, <1>8, TaskAssumption, ZenonT(30) DEF KernelOK, BaseOK, KernelStep
  <1>10. AllRest(g, r, x)
    BY <1>1, <1>2, <1>7, StillAllRest DEF KernelStep
  <1>11. g.cpu.pstate = "masked"
    BY <1>1, <1>2, <1>7, ZenonT(30) DEF KernelStep
  <1>12. Outside(ReturnToUser(g), r, x)
    BY <1>9, <1>10, <1>11, Returned, ZenonT(30)
  <1> QED BY <1>3, <1>12, ZenonT(30) DEF e

\* The handler of the UART takes the monitor, wakes its waiters and gives it back.
LEMMA UartNotifies ==
  ASSUME NEW k, BaseOK(k), k.locks.locked[Uart] = FALSE
  PROVE  LET e == UartHandled(k) IN
         /\ BaseOK(e) /\ e.locks.locked[Uart] = FALSE /\ KernelStep(k, e)
  <1> DEFINE a == [k EXCEPT !.locks = Acquired(k.locks, Uart)]
             c == a.locks.cwait[Uart]
             w == a.locks.mwait[Uart]
             n == Notified(a.locks, Uart)
             u == Unlocked(n, Uart)
             s == WakeAll(a.sched, c)
             r == WakeAll(s, w)
             e == [a EXCEPT !.locks = u, !.sched = r]
  <1>0. Uart \in Mutex /\ Uart \in Cond
    BY UartAssumption
  <1>1. /\ k \in Machine /\ k.sched \in SchedState /\ k.locks \in LockState
        /\ SchedOK(k.sched) /\ k.sched.current \in Task
        /\ k.sched.run[Idle] \in {"Ready", "Running"}
        /\ WaitersOK(k.sched, k.locks) /\ k.locks.mwait[Uart] = <<>> /\ k.fault = "none"
    BY ZenonT(30) DEF BaseOK, Machine
  <1>2. /\ Acquired(k.locks, Uart) \in LockState
        /\ Acquired(k.locks, Uart).mwait = k.locks.mwait
        /\ Acquired(k.locks, Uart).cwait = k.locks.cwait
    BY <1>0, <1>1, AcquiredFields, ZenonT(30)
  <1>3. UartHandled(k) = UartNotified(a)
    BY ZenonT(30) DEF UartHandled, Then
  <1>4. UartNotified(a) = [a EXCEPT !.sched = r, !.locks = u]
    BY DEF UartNotified
  <1>5. /\ KernelStep(k, a) /\ a.sched = k.sched /\ a.locks \in LockState
        /\ a.locks.mwait = k.locks.mwait /\ a.locks.cwait = k.locks.cwait
    <2> DEFINE l == Acquired(k.locks, Uart)
    <2> HIDE DEF l
    <2>1. l \in LockState /\ l.mwait = k.locks.mwait /\ l.cwait = k.locks.cwait
      BY <1>2, ZenonT(30) DEF l
    <2>2. LET b == [k EXCEPT !.locks = l] IN
          KernelStep(k, b) /\ b.sched = k.sched /\ b.locks = l
      BY <1>1, <2>1, SetsLocks
    <2> QED BY <2>1, <2>2, ZenonT(30) DEF l
  <1> HIDE DEF a
  <1>6. WaitersOK(a.sched, a.locks) /\ SchedOK(a.sched) /\ w = <<>>
    BY <1>1, <1>5, ZenonT(30) DEF WaitersOK
  <1>7. /\ SchedOK(s) /\ s.current = a.sched.current
        /\ \A t \in Task : \/ s.run[t] = a.sched.run[t]
                           \/ a.sched.run[t] = "Sleeping" /\ s.run[t] = "Ready"
        /\ WaitersOK(s, n)
    BY <1>0, <1>5, <1>6, NotifiedWaiters, ZenonT(30)
  <1>8. /\ n \in LockState /\ n.mwait = a.locks.mwait
    BY <1>0, <1>5, NotifiedFields, ZenonT(30)
  <1>9. w = n.mwait[Uart]
    BY <1>8, ZenonT(30)
  <1> HIDE DEF n, s
  <1>10. /\ SchedOK(r) /\ r.current = s.current
         /\ \A t \in Task : \/ r.run[t] = s.run[t]
                            \/ s.run[t] = "Sleeping" /\ r.run[t] = "Ready"
         /\ WaitersOK(r, u)
    BY <1>0, <1>7, <1>8, <1>9, UnlockedWaiters
  <1>11. /\ u \in LockState /\ u.locked = [n.locked EXCEPT ![Uart] = FALSE]
         /\ u.mwait = [n.mwait EXCEPT ![Uart] = <<>>]
    BY <1>0, <1>8, UnlockedFields, ZenonT(30)
  <1>12. u.locked[Uart] = FALSE /\ u.mwait[Uart] = <<>>
    BY <1>0, <1>8, <1>11, ZenonT(30) DEF LockState
  <1> HIDE DEF u, r
  <1>13. a \in Machine /\ r \in SchedState
    BY <1>5, <1>10, ZenonT(30) DEF KernelStep, SchedOK
  <1>14. /\ KernelStep(a, e) /\ e.sched = r /\ e.locks = u
         /\ e = [a EXCEPT !.sched = r, !.locks = u]
    BY <1>11, <1>13, SetsBoth, ZenonT(30)
  <1> HIDE DEF e
  <1>15. KernelStep(k, e)
    BY <1>5, <1>14, ZenonT(30) DEF KernelStep
  <1>16. r.run[Idle] \in {"Ready", "Running"} /\ r.current \in Task
    BY <1>1, <1>5, <1>7, <1>10, TaskAssumption, ZenonT(30)
  <1>17. BaseOK(e)
    BY <1>1, <1>10, <1>12, <1>14, <1>15, <1>16, ZenonT(30) DEF BaseOK, KernelStep
  <1> QED BY <1>3, <1>4, <1>12, <1>14, <1>15, <1>17, ZenonT(30)

\* The UART's interrupt, from the vector to the return.
LEMMA UartReturns ==
  ASSUME NEW k, NEW r, NEW x, Outside(k, r, x), k.cpu.pstate # "masked"
  PROVE  Outside(Then(Then(Then(Interrupted(k, "uart"), UartHandled), InterruptEnd),
                      ReturnToUser), r, x)
  <1> DEFINE e == Interrupted(k, "uart")
             h == UartHandled(e)
             g == InterruptEnd(h)
  <1>1. /\ BaseOK(e) /\ AllRest(e, r, x) /\ e.cpu.pstate = "masked"
        /\ e.sched = k.sched /\ e.locks = k.locks /\ e.iar = <<"uart">> /\ e.active = {"uart"}
    BY Interrupts
  <1>2. Then(Then(Then(e, UartHandled), InterruptEnd), ReturnToUser) = ReturnToUser(g)
    <2>1. Then(e, UartHandled) = h
      BY ZenonT(30) DEF Then
    <2>2. Then(h, InterruptEnd) = g
      BY ZenonT(30) DEF Then
    <2>3. Then(g, ReturnToUser) = ReturnToUser(g)
      BY ZenonT(30) DEF Then
    <2> QED BY <2>1, <2>2, <2>3, ZenonT(30)
  <1>3. e.locks.locked[Uart] = FALSE
    BY <1>1, ZenonT(30) DEF Outside, KernelOK
  <1>4. BaseOK(h) /\ h.locks.locked[Uart] = FALSE /\ KernelStep(e, h)
    <2> HIDE DEF e
    <2> QED BY <1>1, <1>3, UartNotifies, ZenonT(30)
  <1> HIDE DEF e, h
  <1>5. h \in Machine /\ h.iar = <<"uart">> /\ h.active = {"uart"}
    BY <1>1, <1>4 DEF KernelStep
  <1>6. /\ g \in Machine /\ g.iar = <<>> /\ g.active = {}
        /\ g.sched = h.sched /\ g.locks = h.locks /\ g.cpu = h.cpu /\ g.frames = h.frames
        /\ g.status = h.status /\ g.entries = h.entries /\ g.fault = h.fault
    BY <1>5, EndsInterrupt, ZenonT(30)
  <1> HIDE DEF g
  <1>7. KernelOK(g)
    BY <1>4, <1>6, ZenonT(30) DEF KernelOK, BaseOK
  <1>8. AllRest(g, r, x)
    <2>1. g.frames = e.frames /\ g.status = e.status /\ g.entries = e.entries
      BY <1>4, <1>6, ZenonT(30) DEF KernelStep
    <2> QED BY <1>1, <2>1, StillAllRest, ZenonT(30)
  <1>9. g.cpu.pstate = "masked"
    BY <1>1, <1>4, <1>6, ZenonT(30) DEF KernelStep
  <1>10. Outside(ReturnToUser(g), r, x)
    BY <1>7, <1>8, <1>9, Returned
  <1> QED BY <1>2, <1>10, ZenonT(30) DEF e

-----------------------------------------------------------------------------
(* The readers.                                                            *)

\* monitor.wait(guard): two nested system calls, and the caller sleeps.
LEMMA WaitSleeps ==
  ASSUME NEW k, BaseOK(k), k.iar = <<>>, k.active = {}, k.cpu.pstate = "masked",
         NEW t \in Users, k.sched.current = t, InCall(k, t), NEW r, NEW x,
         OthersRest(k, t, r, x), r[t].left > 0
  PROVE  Outside(MonitorWait(k, t), r, x)
  <1> DEFINE a == Entered(k)
             s == WakeAll(a.sched, k.locks.mwait[Uart])
             l == Parked(a.locks, Uart, Uart, t)
             b == [a EXCEPT !.locks = l, !.sched = s]
             c == Entered(b)
             z == Sleep(c.sched)
             g == [c EXCEPT !.sched = z]
             f1 == PushAll(Trap(k.cpu))
             f2 == PushAll(Trap(b.cpu))
  <1>0. Uart \in Mutex /\ Uart \in Cond /\ t \in Task
    BY UartAssumption, ZenonT(30) DEF Users
  <1>1. /\ k \in Machine /\ k.sched \in SchedState /\ k.locks \in LockState
        /\ k.cpu \in Registers
        /\ SchedOK(k.sched) /\ k.sched.current \in Task
        /\ k.sched.run[Idle] \in {"Ready", "Running"}
        /\ WaitersOK(k.sched, k.locks) /\ k.locks.mwait[Uart] = <<>> /\ k.fault = "none"
    BY ZenonT(30) DEF BaseOK, Machine
  <1>2. MonitorWait(k, t) = ReturnToUser(g)
    <2>1. MonitorWait(k, t) = Asleep(b)
      BY ZenonT(30) DEF MonitorWait, Then, NestedSvc
    <2>2. Asleep(b) = ReturnToUser(g)
      BY ZenonT(30) DEF Asleep, Then, NestedSvc
    <2> QED BY <2>1, <2>2
  <1>3. /\ a \in Machine
        /\ a.sched = k.sched /\ a.locks = k.locks /\ a.status = k.status
        /\ a.entries = k.entries /\ a.iar = k.iar /\ a.active = k.active
        /\ a.fault = k.fault /\ a.cpu.pstate = "masked"
        /\ \A u \in Task \ {t} : a.frames[u] = k.frames[u]
        /\ a.frames[t] = Append(k.frames[t], f1)
    BY <1>0, <1>1, Entry, ZenonT(30)
  <1>4. f1 \in Frame /\ f1.spsr_el1 = "masked"
    BY <1>1, PushedFrame, ZenonT(30)
  <1> HIDE DEF a, f1
  <1>5. /\ SchedOK(s) /\ s.current = t /\ \A u \in Task : s.run[u] = k.sched.run[u]
    <2>1. s = WakeAll(k.sched, <<>>)
      BY <1>1, <1>3, ZenonT(30)
    <2> QED BY <1>1, <2>1, NobodyWoken, ZenonT(30)
  <1>6. /\ l \in LockState /\ l.locked[Uart] = FALSE
        /\ l.mwait = k.locks.mwait /\ l.cwait = Pushed(k.locks.cwait, Uart, t)
    <2>1. l = Parked(k.locks, Uart, Uart, t)
      BY <1>3, ZenonT(30)
    <2> HIDE DEF l
    <2> QED BY <1>0, <1>1, <2>1, ParksCaller, ZenonT(30)
  <1>7. l.mwait[Uart] = <<>>
    BY <1>1, <1>6
  <1> HIDE DEF s, l
  <1>8. KernelStep(a, b) /\ b.sched = s /\ b.locks = l
    <2>1. s \in SchedState
      BY <1>5, ZenonT(30) DEF SchedOK
    <2>2. a \in Machine /\ l \in LockState
      BY <1>3, <1>6
    <2>3. /\ KernelStep(a, b) /\ b.sched = s /\ b.locks = l
          /\ b = [a EXCEPT !.sched = s, !.locks = l]
      BY <2>1, <2>2, SetsBoth, ZenonT(30)
    <2> QED BY <2>3, ZenonT(30)
  <1>9. b \in Machine /\ b.sched.current = t /\ b.cpu.pstate = "masked" /\ b.cpu \in Registers
    BY <1>3, <1>5, <1>8, ZenonT(30) DEF KernelStep, Machine
  <1> HIDE DEF b
  <1>10. /\ c \in Machine
         /\ c.sched = b.sched /\ c.locks = b.locks /\ c.status = b.status
         /\ c.entries = b.entries /\ c.iar = b.iar /\ c.active = b.active
         /\ c.fault = b.fault /\ c.cpu.pstate = "masked"
         /\ \A u \in Task \ {t} : c.frames[u] = b.frames[u]
         /\ c.frames[t] = Append(b.frames[t], f2)
    BY <1>0, <1>9, Entry, ZenonT(30)
  <1>11. f2 \in Frame /\ f2.spsr_el1 = "masked"
    BY <1>9, PushedFrame, ZenonT(30)
  <1> HIDE DEF c, f2
  <1>12. /\ SchedOK(c.sched) /\ c.sched.current = t /\ c.sched.current \in Task \ {Idle}
         /\ c.sched.run[Idle] \in {"Ready", "Running"}
    BY <1>1, <1>5, <1>8, <1>10, TaskAssumption, ZenonT(30) DEF Users
  <1>13. /\ SchedOK(z) /\ z.current \in Task
         /\ c.sched.run[t] = "Running" /\ z.run[t] = "Sleeping"
         /\ z.run[Idle] \in {"Ready", "Running"}
         /\ \A u \in Task : c.sched.run[u] \in {"Sleeping", "Absent"} => z.run[u] = c.sched.run[u]
    BY <1>12, CurrentSleeps
  <1> HIDE DEF z
  <1>14. KernelStep(c, g) /\ g.sched = z /\ g.locks = c.locks
    BY <1>10, <1>13, SetsSched, ZenonT(30) DEF SchedOK
  <1> HIDE DEF g
  <1>15. WaitersOK(z, l)
    <2>1. k.sched.run[t] # "Sleeping" /\ z.run[t] = "Sleeping"
      BY <1>0, <1>5, <1>8, <1>10, <1>13, ZenonT(30)
    <2>2. \A u \in Task : k.sched.run[u] = "Sleeping" => z.run[u] = "Sleeping"
      BY <1>5, <1>8, <1>10, <1>13
    <2> QED BY <1>0, <1>1, <1>6, <1>7, <2>1, <2>2, ParkedWaiters
  <1>16. KernelOK(g)
    <2>1. g.locks = l /\ g.sched = z
      BY <1>8, <1>10, <1>14, ZenonT(30)
    <2>2. g.iar = <<>> /\ g.active = {} /\ g.fault = "none" /\ g \in Machine
      <3>1. g \in Machine /\ g.iar = c.iar /\ g.active = c.active /\ g.fault = c.fault
        BY <1>14, ZenonT(30) DEF KernelStep
      <3>2. b.iar = a.iar /\ b.active = a.active /\ b.fault = a.fault
        BY <1>8, ZenonT(30) DEF KernelStep
      <3>3. a.iar = k.iar /\ a.active = k.active /\ a.fault = k.fault
        BY <1>3, ZenonT(30)
      <3> QED BY <1>1, <1>10, <3>1, <3>2, <3>3, ZenonT(30)
    <2> QED BY <1>6, <1>7, <1>13, <1>15, <2>1, <2>2, ZenonT(30) DEF KernelOK, BaseOK
  <1>17. g.cpu.pstate = "masked"
    BY <1>10, <1>14, ZenonT(30) DEF KernelStep
  <1>18. \A u \in Task \ {t} : SameTask(k, g, u)
    BY <1>3, <1>8, <1>10, <1>14 DEF KernelStep, SameTask
  <1>19. Rests(g, t, r[t].left, x[t])
    <2> DEFINE q == k.frames[t]
    <2>1. q \in Seq(Frame) /\ Len(q) = 1 /\ Own(q[1], t)
      BY <1>0, <1>1, ZenonT(30) DEF Machine, InCall
    <2>2. g.frames[t] = Append(Append(q, f1), f2)
      BY <1>3, <1>8, <1>10, <1>14, ZenonT(30) DEF KernelStep
    <2> HIDE DEF q
    <2>3. /\ Len(g.frames[t]) = 3 /\ g.frames[t][1] = q[1] /\ g.frames[t][2] = f1
          /\ g.frames[t][3] = f2
      BY <1>4, <1>11, <2>1, <2>2, ThreeFrames
    <2>4. g.entries[t] = 1 /\ g.status[t] = {}
      BY <1>3, <1>8, <1>10, <1>14 DEF KernelStep, InCall
    <2> QED BY <1>4, <1>11, <2>1, <2>3, <2>4, ZenonT(30) DEF Rests
  <1>20. AllRest(g, r, x)
    <2>1. OthersRest(g, t, r, x)
      BY <1>18, StillOthersRest, ZenonT(30)
    <2> QED BY <1>19, <2>1 DEF AllRest, OthersRest
  <1>21. Outside(ReturnToUser(g), r, x)
    BY <1>16, <1>17, <1>20, Returned
  <1> QED BY <1>2, <1>21, ZenonT(30)

\* The result of the system call is written to its frame.
LEMMA ResultWritten ==
  ASSUME NEW k \in Machine, NEW t \in Task, InCall(k, t), NEW v \in Val
  PROVE  LET e == WithResult(k, t, v) IN
         /\ e \in Machine /\ e.sched = k.sched /\ e.locks = k.locks /\ e.cpu = k.cpu
         /\ e.iar = k.iar /\ e.active = k.active /\ e.fault = k.fault
         /\ \A u \in Task \ {t} : SameTask(k, e, u)
         /\ InCall(e, t) /\ e.frames[t][1].x0 = v
  <1> DEFINE q == k.frames[t]
             f == [q[1] EXCEPT !.x0 = v]
             g == [q EXCEPT ![1] = f]
             e == WithResult(k, t, v)
  <1>1. /\ k.frames \in [Task -> Seq(Frame)] /\ q \in Seq(Frame) /\ Len(q) = 1
        /\ Own(q[1], t) /\ k.entries[t] = 1 /\ k.status[t] = {}
    BY ZenonT(30) DEF Machine, InCall
  <1>2. q[1] \in Frame
    BY <1>1
  <1>3. e = [k EXCEPT !.frames[t] = g]
    BY <1>1, ZenonT(30) DEF WithResult
  <1> HIDE DEF q
  <1>4. f \in Frame /\ f.x0 = v
    BY <1>2, ZenonT(30) DEF Frame
  <1>5. Own(f, t)
    BY <1>1, <1>2, ZenonT(30) DEF Own, Frame
  <1> HIDE DEF f
  <1>6. g \in Seq(Frame) /\ Len(g) = 1 /\ g[1] = f
    BY <1>1, <1>4, OnlyReplaced
  <1> HIDE DEF g, e
  <1>7. /\ e.sched = k.sched /\ e.locks = k.locks /\ e.cpu = k.cpu
        /\ e.iar = k.iar /\ e.active = k.active /\ e.fault = k.fault
        /\ e.status = k.status /\ e.entries = k.entries
    BY <1>3, ZenonT(30) DEF Machine
  <1>8. e.frames = [k.frames EXCEPT ![t] = g]
    BY <1>3, ZenonT(30) DEF Machine
  <1>9. e.frames \in [Task -> Seq(Frame)]
    BY <1>1, <1>6, <1>8, ZenonT(30)
  <1>10. e \in Machine
    BY <1>3, <1>7, <1>9, ZenonT(30) DEF Machine
  <1>11. e.frames[t] = g /\ \A u \in Task \ {t} : e.frames[u] = k.frames[u]
    BY <1>1, <1>8, ZenonT(30)
  <1>12. \A u \in Task \ {t} : SameTask(k, e, u)
    BY <1>7, <1>11, ZenonT(30) DEF SameTask
  <1>13. InCall(e, t) /\ e.frames[t][1].x0 = v
    BY <1>1, <1>4, <1>5, <1>6, <1>7, <1>11, ZenonT(30) DEF InCall
  <1> QED BY <1>7, <1>10, <1>12, <1>13, ZenonT(30) DEF e

\* The system call returns v.
LEMMA CallReturns ==
  ASSUME NEW k, KernelOK(k), k.cpu.pstate = "masked", NEW t \in Task, k.sched.current = t,
         InCall(k, t), NEW r, NEW x, OthersRest(k, t, r, x), r[t].left = 0,
         NEW v \in Val, x[t] = v
  PROVE  Outside(Then(WithResult(k, t, v), ReturnToUser), r, x)
  <1> DEFINE e == WithResult(k, t, v)
  <1>1. k \in Machine
    BY ZenonT(30) DEF KernelOK, BaseOK
  <1>2. /\ e \in Machine /\ e.sched = k.sched /\ e.locks = k.locks /\ e.cpu = k.cpu
        /\ e.iar = k.iar /\ e.active = k.active /\ e.fault = k.fault
        /\ \A u \in Task \ {t} : SameTask(k, e, u)
        /\ InCall(e, t) /\ e.frames[t][1].x0 = v
    BY <1>1, ResultWritten
  <1>3. Then(e, ReturnToUser) = ReturnToUser(e)
    BY ZenonT(30) DEF Then
  <1> HIDE DEF e
  <1>4. KernelOK(e) /\ e.cpu.pstate = "masked"
    BY <1>2, ZenonT(30) DEF KernelOK, BaseOK
  <1>5. OthersRest(e, t, r, x)
    BY <1>2, StillOthersRest
  <1>6. Rests(e, t, r[t].left, x[t])
    BY <1>2, ZenonT(30) DEF Rests, InCall
  <1>7. AllRest(e, r, x)
    BY <1>5, <1>6, ZenonT(30) DEF AllRest, OthersRest
  <1>8. Outside(ReturnToUser(e), r, x)
    BY <1>4, <1>7, Returned, ZenonT(30)
  <1> QED BY <1>3, <1>8, ZenonT(30) DEF e

\* The lock is taken where it is free, with interrupts masked.
LEMMA TakesLock ==
  ASSUME NEW k, BaseOK(k)
  PROVE  LET e == [k EXCEPT !.locks = Acquired(k.locks, Uart)] IN
         BaseOK(e) /\ KernelStep(k, e) /\ e.sched = k.sched
  <1> DEFINE l == Acquired(k.locks, Uart)
             e == [k EXCEPT !.locks = l]
  <1>1. k \in Machine /\ k.locks \in LockState /\ Uart \in Mutex
    BY UartAssumption, ZenonT(30) DEF BaseOK, Machine
  <1>2. l \in LockState /\ l.mwait = k.locks.mwait /\ l.cwait = k.locks.cwait
    BY <1>1, AcquiredFields, ZenonT(30)
  <1> HIDE DEF l
  <1>3. KernelStep(k, e) /\ e.sched = k.sched /\ e.locks = l
    BY <1>1, <1>2, SetsLocks, ZenonT(30)
  <1> HIDE DEF e
  <1>4. WaitersOK(e.sched, e.locks)
    BY <1>2, <1>3, ZenonT(30) DEF BaseOK, WaitersOK
  <1>5. BaseOK(e)
    BY <1>2, <1>3, <1>4, ZenonT(30) DEF BaseOK, KernelStep
  <1> QED BY <1>3, <1>5, ZenonT(30) DEF e, l

\* A reader with characters missing: it locks the monitor and waits on it.
LEMMA ReaderWaits ==
  ASSUME NEW k, KernelOK(k), k.cpu.pstate = "masked", NEW t \in Users,
         k.sched.current = t, InCall(k, t), NEW r, NEW x, OthersRest(k, t, r, x),
         r[t].left > 0
  PROVE  Outside(LocksAndWaits(k, t), r, x)
  <1> DEFINE e == [k EXCEPT !.locks = Acquired(k.locks, Uart)]
  <1>1. BaseOK(k) /\ k.locks.locked[Uart] = FALSE /\ k.iar = <<>> /\ k.active = {}
    BY DEF KernelOK
  <1>2. LocksAndWaits(k, t) = MonitorWait(e, t)
    BY <1>1 DEF LocksAndWaits, Then
  <1>3. BaseOK(e) /\ KernelStep(k, e) /\ e.sched = k.sched
    BY <1>1, TakesLock, ZenonT(30)
  <1> HIDE DEF e
  <1>4. InCall(e, t) /\ e.iar = <<>> /\ e.active = {} /\ e.cpu.pstate = "masked"
    BY <1>1, <1>3, ZenonT(30) DEF KernelStep, InCall
  <1>5. OthersRest(e, t, r, x)
    <2>1. \A u \in Task \ {t} : SameTask(k, e, u)
      BY <1>3, ZenonT(30) DEF KernelStep, SameTask
    <2> QED BY <2>1, StillOthersRest, ZenonT(30)
  <1>6. Outside(MonitorWait(e, t), r, x)
    BY <1>3, <1>4, <1>5, WaitSleeps, ZenonT(30)
  <1> QED BY <1>2, <1>6, ZenonT(30)

\* A reader that goes on finds the mutex free, and the svc to pm returns.
LEMMA Relocks ==
  ASSUME NEW k, NEW r, NEW x, Outside(k, r, x), k.cpu.pstate = "masked",
         NEW t \in Task, k.sched.current = t
  PROVE  LET e == ReturnToUser([k EXCEPT !.locks = Acquired(k.locks, Uart)]) IN
         /\ BaseOK(e) /\ e.iar = <<>> /\ e.active = {} /\ e.cpu.pstate = "masked"
         /\ e.sched.current = t /\ InCall(e, t) /\ OthersRest(e, t, r, x) /\ r[t].left > 0
  <1> DEFINE b == [k EXCEPT !.locks = Acquired(k.locks, Uart)]
             e == ReturnToUser(b)
             f == ResultOf(b, t, TopFrame(b, t))
             q == k.frames[t]
  <1>1. /\ KernelOK(k) /\ BaseOK(k) /\ k.iar = <<>> /\ k.active = {}
        /\ OthersRest(k, t, r, x) /\ Runs(k, t, r[t].left, x[t])
        /\ k \in Machine /\ q \in Seq(Frame)
    BY ZenonT(30) DEF Outside, KernelOK, BaseOK, Machine
  <1>2. BaseOK(b) /\ KernelStep(k, b) /\ b.sched = k.sched
    BY <1>1, TakesLock, ZenonT(30)
  <1> HIDE DEF b
  <1>3. /\ b \in Machine /\ b.fault = "none" /\ ~b.sched.panic /\ b.cpu.pstate = "masked"
        /\ b.sched.current = t /\ b.iar = <<>> /\ b.active = {} /\ b.frames[t] = q
        /\ b.status[t] = k.status[t] /\ b.entries[t] = k.entries[t]
    BY <1>1, <1>2, ZenonT(30) DEF BaseOK, KernelStep, SchedOK
  <1>4. /\ r[t].left > 0 /\ Len(q) = 2 /\ Own(q[1], t) /\ q[2].spsr_el1 = "masked"
        /\ k.entries[t] = 1 /\ k.status[t] = {}
    BY <1>1, ZenonT(30) DEF Runs, OwnCpu
  <1>5. q # <<>> /\ Len(Front(q)) = 1 /\ Front(q)[1] = q[1]
    BY <1>1, <1>4 DEF Front
  <1> HIDE DEF q
  <1>6. f = q[2]
    BY <1>3, <1>4, <1>5, ZenonT(30) DEF ResultOf, TopFrame, Last
  <1>7. /\ e \in Machine
        /\ e.sched = b.sched /\ e.locks = b.locks /\ e.iar = b.iar
        /\ e.active = b.active /\ e.fault = "none"
        /\ \A u \in Task \ {t} : /\ e.frames[u] = b.frames[u] /\ e.status[u] = b.status[u]
                                 /\ e.entries[u] = b.entries[u]
        /\ e.status[t] = {}
        /\ b.frames[t] # <<>> => e.frames[t] = Front(b.frames[t]) /\ e.entries[t] = b.entries[t]
        /\ e.cpu.pstate = f.spsr_el1
    BY <1>3, Exit, ZenonT(30)
  <1> HIDE DEF e, f
  <1>8. BaseOK(e) /\ e.iar = <<>> /\ e.active = {} /\ e.cpu.pstate = "masked"
    BY <1>2, <1>3, <1>4, <1>6, <1>7, ZenonT(30) DEF BaseOK
  <1>9. InCall(e, t)
    BY <1>3, <1>4, <1>5, <1>7, ZenonT(30) DEF InCall
  <1>10. OthersRest(e, t, r, x)
    <2>1. \A u \in Task \ {t} : SameTask(k, e, u)
      BY <1>2, <1>7 DEF KernelStep, SameTask
    <2> QED BY <1>1, <2>1, StillOthersRest, ZenonT(30)
  <1> QED BY <1>3, <1>4, <1>7, <1>8, <1>9, <1>10 DEF e, b

\* The guard is dropped.
LEMMA DropsGuard ==
  ASSUME NEW k, BaseOK(k), k.iar = <<>>, k.active = {}
  PROVE  LET e == [k EXCEPT !.locks = Unlocked(k.locks, Uart),
                            !.sched = WakeAll(k.sched, k.locks.mwait[Uart])] IN
         KernelOK(e) /\ KernelStep(k, e) /\ e.sched.current = k.sched.current
  <1> DEFINE l == Unlocked(k.locks, Uart)
             s == WakeAll(k.sched, k.locks.mwait[Uart])
             e == [k EXCEPT !.locks = l, !.sched = s]
  <1>1. /\ k \in Machine /\ k.locks \in LockState /\ Uart \in Mutex
        /\ SchedOK(k.sched) /\ WaitersOK(k.sched, k.locks) /\ k.sched.current \in Task
        /\ k.sched.run[Idle] \in {"Ready", "Running"} /\ k.fault = "none"
    BY UartAssumption, ZenonT(30) DEF BaseOK, Machine
  <1>2. /\ SchedOK(s) /\ s.current = k.sched.current
        /\ \A u \in Task : \/ s.run[u] = k.sched.run[u]
                           \/ k.sched.run[u] = "Sleeping" /\ s.run[u] = "Ready"
        /\ WaitersOK(s, l)
    BY <1>1, UnlockedWaiters, ZenonT(30)
  <1>3. /\ l \in LockState /\ l.locked = [k.locks.locked EXCEPT ![Uart] = FALSE]
        /\ l.mwait = [k.locks.mwait EXCEPT ![Uart] = <<>>]
    BY <1>1, UnlockedFields, ZenonT(30)
  <1>4. l.locked[Uart] = FALSE /\ l.mwait[Uart] = <<>>
    BY <1>1, <1>3, ZenonT(30) DEF LockState
  <1> HIDE DEF l, s
  <1>5. s \in SchedState
    BY <1>2, ZenonT(30) DEF SchedOK
  <1>6. /\ KernelStep(k, e) /\ e.sched = s /\ e.locks = l
        /\ e = [k EXCEPT !.sched = s, !.locks = l]
    BY <1>1, <1>3, <1>5, SetsBoth, ZenonT(30)
  <1> HIDE DEF e
  <1>7. s.run[Idle] \in {"Ready", "Running"} /\ s.current \in Task
    BY <1>1, <1>2, TaskAssumption, ZenonT(30)
  <1>8. KernelOK(e)
    BY <1>1, <1>2, <1>4, <1>6, <1>7, ZenonT(30) DEF KernelOK, BaseOK, KernelStep
  <1> QED BY <1>2, <1>6, <1>8, ZenonT(30) DEF e, l, s

-----------------------------------------------------------------------------
(* Each step keeps the invariant.                                          *)

\* The first task runs, the others have not started.
LEMMA InitConsoleInv == Init => ConsoleInv
  <1> SUFFICES ASSUME Init PROVE ConsoleInv
    BY ZenonT(30)
  <1>1. /\ reads = [t \in Task |-> NoRead] /\ expect = [t \in Task |-> "none"]
        /\ m = ReturnToUser(BootMachine)
        /\ timer = FALSE /\ fifo = <<>> /\ buffer = <<>> /\ sent = <<>> /\ got = <<>>
    BY DEF Init
  <1>2. \A t \in Task : reads[t].left = 0
    BY <1>1, ZenonT(30) DEF NoRead
  <1>3. \A t \in Task : BootMachine.entries[t] = 0 /\ BootMachine.frames[t] = <<>>
    BY ZenonT(30) DEF BootMachine
  <1>4. AllRest(BootMachine, reads, expect)
    BY <1>2, <1>3, ZenonT(30) DEF AllRest, Rests
  <1>5. Outside(m, reads, expect)
    BY <1>1, <1>4, BootedKernel, Returned, ZenonT(30)
  <1>6. m \in Machine
    BY <1>5, ZenonT(30) DEF Outside, KernelOK, BaseOK
  <1>7. reads \in [Task -> [size : Sizes \cup {0}, left : Nat]] /\ expect \in [Task -> Val]
    BY <1>1, Values, ZenonT(30) DEF NoRead
  <1>8. /\ <<>> \in Seq(Char) /\ Len(<<>>) = 0 /\ 0 <= MaxChars
        /\ <<>> \in Seq({Cooked(c) : c \in Char})
    BY ConsoleAssumption
  <1>9. TypeOK
    <2>1. /\ fifo \in Seq(Char) /\ Len(fifo) <= 1 /\ buffer \in Seq(Char)
          /\ sent \in Seq(Char) /\ Len(sent) <= MaxChars
      BY <1>1, <1>8
    <2>2. got \in Seq({Cooked(c) : c \in Char})
      BY <1>1, <1>8
    <2>3. timer \in BOOLEAN
      BY <1>1, ZenonT(30)
    <2> QED BY <1>6, <1>7, <2>1, <2>2, <2>3, ZenonT(30) DEF TypeOK
  <1>10. InputInOrder
    <2>1. CookedAll(<<>>) = <<>>
      <3>1. CookedAll(<<>>) \in Seq(Cooks) /\ Len(CookedAll(<<>>)) = Len(<<>>)
        BY <1>8, CookedSeq, ZenonT(30)
      <3> QED BY <3>1
    <2>2. (<<>> \o <<>>) \o <<>> = <<>>
      OBVIOUS
    <2> QED BY <1>1, <2>1, <2>2, ZenonT(30) DEF InputInOrder
  <1> QED BY <1>5, <1>9, <1>10, ZenonT(30) DEF ConsoleInv

\* The loop of PL011::read takes what is there, and returns or waits.
LEMMA ReadKeeps ==
  ASSUME TypeOK, InputInOrder, NEW k, KernelOK(k), k.cpu.pstate = "masked",
         NEW t \in Users, k.sched.current = t, InCall(k, t),
         OthersRest(k, t, reads, expect), NEW r \in Readings, ReadOn(k, t, r),
         UNCHANGED <<timer, fifo, sent>>
  PROVE  ConsoleInv'
  <1> DEFINE n == IF r.left < Len(buffer) THEN r.left ELSE Len(buffer)
             v == ToString(r.size)
  <1>0. t \in Task
    BY ZenonT(30) DEF Users
  <1>1. /\ buffer \in Seq(Char) /\ r.left \in Nat /\ r.size \in Sizes \cup {0}
        /\ reads \in [Task -> Readings] /\ expect \in [Task -> Val]
    BY ZenonT(30) DEF TypeOK, Readings
  <1>2. Len(buffer) \in Nat
    BY <1>1, SeqIsFunction, ZenonT(30)
  <1>3. n \in 0..Len(buffer) /\ n <= r.left
    BY <1>1, <1>2
  <1>4. /\ buffer' = SubSeq(buffer, n + 1, Len(buffer))
        /\ got' = got \o CookedAll(Taken(n))
        /\ \/ /\ n = r.left
              /\ m' = Then(WithResult(k, t, v), ReturnToUser)
              /\ expect' = [expect EXCEPT ![t] = v]
              /\ reads' = [reads EXCEPT ![t] = NoRead]
           \/ /\ n # r.left
              /\ m' = LocksAndWaits(k, t)
              /\ reads' = [reads EXCEPT ![t] = [r EXCEPT !.left = r.left - n]]
              /\ expect' = expect
    BY ZenonT(30) DEF ReadOn
  <1>5. v \in Val
    BY <1>1, Values
  <1> HIDE DEF n, v
  <1>6. InputInOrder' /\ buffer' \in Seq(Char) /\ got' \in Seq(Cooks)
    BY <1>3, <1>4, TakesInOrder, ZenonT(30)
  <1>7. Outside(m', reads', expect') /\ reads' \in [Task -> Readings] /\ expect' \in [Task -> Val]
    <2>1. CASE n = r.left
      <3>1. /\ m' = Then(WithResult(k, t, v), ReturnToUser)
            /\ expect' = [expect EXCEPT ![t] = v] /\ reads' = [reads EXCEPT ![t] = NoRead]
        BY <1>4, <2>1, ZenonT(30)
      <3>2. NoRead \in Readings /\ NoRead.left = 0
        BY ZenonT(30) DEF NoRead, Readings
      <3>3. /\ reads' \in [Task -> Readings] /\ expect' \in [Task -> Val]
            /\ reads'[t].left = 0 /\ expect'[t] = v
            /\ \A u \in Task \ {t} : reads'[u] = reads[u] /\ expect'[u] = expect[u]
        BY <1>0, <1>1, <1>5, <3>1, <3>2, ZenonT(30)
      <3>4. OthersRest(k, t, reads', expect')
        BY <3>3, Rest, ZenonT(30)
      <3>5. Outside(Then(WithResult(k, t, v), ReturnToUser), reads', expect')
        BY <1>0, <1>5, <3>3, <3>4, CallReturns, ZenonT(30)
      <3> QED BY <3>1, <3>3, <3>5, ZenonT(30)
    <2>2. CASE n # r.left
      <3>1. /\ m' = LocksAndWaits(k, t) /\ expect' = expect
            /\ reads' = [reads EXCEPT ![t] = [r EXCEPT !.left = r.left - n]]
        BY <1>4, <2>2, ZenonT(30)
      <3>2. r.left - n \in Nat /\ r.left - n > 0
        BY <1>1, <1>2, <1>3, <2>2
      <3>3. LET q == [r EXCEPT !.left = r.left - n] IN q \in Readings /\ q.left > 0
        BY <3>2, ZenonT(30) DEF Readings
      <3>4. /\ reads' \in [Task -> Readings] /\ reads'[t].left > 0
            /\ \A u \in Task \ {t} : reads'[u] = reads[u] /\ expect'[u] = expect[u]
        BY <1>0, <1>1, <3>1, <3>3
      <3>5. OthersRest(k, t, reads', expect')
        BY <3>4, Rest, ZenonT(30)
      <3>6. Outside(LocksAndWaits(k, t), reads', expect')
        BY <3>4, <3>5, ReaderWaits, ZenonT(30)
      <3> QED BY <1>1, <3>1, <3>4, <3>6
    <2> QED BY <2>1, <2>2, ZenonT(30)
  <1>8. m' \in Machine
    BY <1>7, ZenonT(30) DEF Outside, KernelOK, BaseOK
  <1>9. TypeOK'
    BY <1>6, <1>7, <1>8, ZenonT(30) DEF TypeOK, Cooks, Readings
  <1> QED BY <1>6, <1>7, <1>9, ZenonT(30) DEF ConsoleInv

\* A program reads.
LEMMA SysReadKeeps ==
  ASSUME ConsoleInv, NEW t \in Users, NEW n \in Sizes, SysRead(t, n)
  PROVE  ConsoleInv'
  <1> DEFINE k == Entered(m)
             r == [size |-> n, left |-> n]
  <1>0. t \in Task
    BY ZenonT(30) DEF Users
  <1>1. /\ TypeOK /\ InputInOrder /\ KernelOK(m) /\ BaseOK(m)
        /\ m.sched.current = t /\ m.cpu.pstate = "el0"
        /\ OthersRest(m, t, reads, expect) /\ Runs(m, t, reads[t].left, expect[t])
    BY DEF ConsoleInv, Outside, KernelOK, SysRead, Current
  <1>2. ReadOn(k, t, r) /\ UNCHANGED <<timer, fifo, sent>>
    BY ZenonT(30) DEF SysRead
  <1>3. /\ BaseOK(k) /\ AllRest(k, reads, expect) /\ k.cpu.pstate = "masked"
        /\ k.sched = m.sched /\ k.locks = m.locks /\ k.iar = m.iar /\ k.active = m.active
        /\ k.entries[t] = 1 /\ k.status[t] = {} /\ Len(k.frames[t]) = 1
        /\ Own(k.frames[t][1], t)
    BY <1>0, <1>1, Preempted, ZenonT(30)
  <1> HIDE DEF k
  <1>4. KernelOK(k)
    BY <1>1, <1>3, ZenonT(30) DEF KernelOK
  <1>5. InCall(k, t) /\ OthersRest(k, t, reads, expect) /\ k.sched.current = t
    BY <1>1, <1>3, ZenonT(30) DEF InCall, OthersRest, AllRest
  <1>6. r \in Readings
    BY ConsoleAssumption, ZenonT(30) DEF Readings
  <1> HIDE DEF r
  <1> QED BY <1>1, <1>2, <1>3, <1>4, <1>5, <1>6, ReadKeeps, ZenonT(30)

\* A reader that was woken waits again or reads on.
LEMMA ResumeKeeps ==
  ASSUME ConsoleInv, NEW t \in Users, Resume(t)
  PROVE  ConsoleInv'
  <1> DEFINE e == ReturnToUser([m EXCEPT !.locks = Acquired(m.locks, Uart)])
  <1>0. t \in Task
    BY ZenonT(30) DEF Users
  <1>1. /\ TypeOK /\ InputInOrder /\ Outside(m, reads, expect)
        /\ m.sched.current = t /\ m.cpu.pstate = "masked" /\ m.locks.locked[Uart] = FALSE
    BY ZenonT(30) DEF ConsoleInv, Outside, KernelOK, Resume, SleepsAgain, ReadsOn, Current
  <1>2. /\ BaseOK(e) /\ e.iar = <<>> /\ e.active = {} /\ e.cpu.pstate = "masked"
        /\ e.sched.current = t /\ InCall(e, t) /\ OthersRest(e, t, reads, expect)
        /\ reads[t].left > 0
    BY <1>0, <1>1, Relocks
  <1>3. Relocked(m, t) = Waited(e, t)
    BY ZenonT(30) DEF Relocked, Then
  <1> HIDE DEF e
  <1>4. CASE SleepsAgain(t)
    <2>1. /\ m' = Relocked(m, t) /\ buffer = <<>>
          /\ UNCHANGED <<timer, fifo, sent, buffer, got, reads, expect>>
      BY <1>1, <1>4 DEF SleepsAgain
    <2>2. m' = MonitorWait(e, t)
      BY <1>3, <2>1, ZenonT(30) DEF Waited
    <2>3. Outside(MonitorWait(e, t), reads, expect)
      BY <1>2, WaitSleeps, ZenonT(30)
    <2>4. Outside(m', reads', expect')
      BY <2>1, <2>2, <2>3, ZenonT(30)
    <2>5. m' \in Machine
      BY <2>4, ZenonT(30) DEF Outside, KernelOK, BaseOK
    <2>6. TypeOK'
      BY <1>1, <2>1, <2>5, ZenonT(30) DEF TypeOK
    <2>7. InputInOrder'
      BY <1>1, <2>1 DEF InputInOrder
    <2> QED BY <2>4, <2>6, <2>7, ZenonT(30) DEF ConsoleInv
  <1>5. CASE ReadsOn(t)
    <2> DEFINE k == [e EXCEPT !.locks = Unlocked(e.locks, Uart),
                              !.sched = WakeAll(e.sched, e.locks.mwait[Uart])]
    <2>1. /\ ReadOn(Relocked(m, t), t, reads[t]) /\ buffer # <<>>
          /\ UNCHANGED <<timer, fifo, sent>>
      BY <1>5, ZenonT(30) DEF ReadsOn
    <2>2. Relocked(m, t) = k
      BY <1>3, <2>1, ZenonT(30) DEF Waited
    <2>3. KernelOK(k) /\ KernelStep(e, k) /\ k.sched.current = e.sched.current
      BY <1>2, DropsGuard, ZenonT(30)
    <2> HIDE DEF k
    <2>4. InCall(k, t) /\ k.cpu.pstate = "masked" /\ k.sched.current = t
      BY <1>2, <2>3, ZenonT(30) DEF KernelStep, InCall
    <2>5. OthersRest(k, t, reads, expect)
      <3>1. \A u \in Task \ {t} : SameTask(e, k, u)
        BY <2>3, ZenonT(30) DEF KernelStep, SameTask
      <3> QED BY <1>2, <3>1, StillOthersRest, ZenonT(30)
    <2>6. reads[t] \in Readings
      BY <1>0, <1>1, ZenonT(30) DEF TypeOK, Readings
    <2>7. ReadOn(k, t, reads[t])
      BY <2>1, <2>2
    <2> QED BY <1>1, <2>1, <2>3, <2>4, <2>5, <2>6, <2>7, ReadKeeps, ZenonT(30)
  <1> QED BY <1>4, <1>5 DEF Resume

\* UserTask::run enters user mode.
LEMMA EnterKeeps ==
  ASSUME ConsoleInv, NEW t \in Users, EnterUsermode(t)
  PROVE  ConsoleInv'
  <1> DEFINE c == [x0 |-> "argc", x21 |-> t, x22 |-> t, x23 |-> t,
                   x30 |-> t, sp_el0 |-> t, ttbr0 |-> t, pc |-> t,
                   pstate |-> "el0", elr_el1 |-> t, spsr_el1 |-> "el0"]
             e == [m EXCEPT !.cpu = c]
  <1>0. t \in Task
    BY DEF Users
  <1>1. /\ TypeOK /\ InputInOrder /\ KernelOK(m) /\ m \in Machine
        /\ m.sched.current = t /\ m.cpu.pstate = "el1"
        /\ OthersRest(m, t, reads, expect) /\ Runs(m, t, reads[t].left, expect[t])
    BY ZenonT(30) DEF ConsoleInv, Outside, KernelOK, BaseOK, EnterUsermode, Current
  <1>2. /\ m' = e /\ expect' = [expect EXCEPT ![t] = "argc"]
        /\ UNCHANGED <<timer, fifo, buffer, reads, sent, got>>
    BY ZenonT(30) DEF EnterUsermode
  <1>3. c \in Registers
    BY <1>0, Values, ZenonT(30) DEF Registers
  <1>4. OwnCpu(c, t) /\ c.x0 = "argc"
    BY ZenonT(30) DEF OwnCpu
  <1> HIDE DEF c
  <1>5. /\ e.sched = m.sched /\ e.locks = m.locks /\ e.frames = m.frames
        /\ e.status = m.status /\ e.entries = m.entries /\ e.iar = m.iar
        /\ e.active = m.active /\ e.fault = m.fault /\ e.cpu = c
    BY <1>1, ZenonT(30) DEF Machine
  <1>6. e \in Machine
    BY <1>1, <1>3, <1>5, ZenonT(30) DEF Machine
  <1> HIDE DEF e
  <1>7. KernelOK(e)
    BY <1>1, <1>5, <1>6, ZenonT(30) DEF KernelOK, BaseOK
  <1>8. /\ expect' \in [Task -> Val] /\ expect'[t] = "argc"
        /\ \A u \in Task \ {t} : reads'[u] = reads[u] /\ expect'[u] = expect[u]
    BY <1>0, <1>1, <1>2, Values, ZenonT(30) DEF TypeOK
  <1>9. OthersRest(e, t, reads', expect')
    <2>1. \A u \in Task \ {t} : SameTask(m, e, u)
      BY <1>5, ZenonT(30) DEF SameTask
    <2>2. OthersRest(e, t, reads, expect)
      BY <1>1, <2>1, StillOthersRest, ZenonT(30)
    <2> QED BY <1>8, <2>2, Rest, ZenonT(30)
  <1>10. Runs(e, t, reads'[t].left, expect'[t])
    <2>1. /\ reads[t].left = 0 /\ m.frames[t] = <<>> /\ m.entries[t] = 1
          /\ m.status[t] = {}
      BY <1>1, ZenonT(30) DEF Runs, OwnCpu
    <2> QED BY <1>2, <1>4, <1>5, <1>8, <2>1, ZenonT(30) DEF Runs
  <1>11. Outside(m', reads', expect')
    BY <1>1, <1>2, <1>5, <1>7, <1>9, <1>10, ZenonT(30) DEF Outside
  <1>12. TypeOK'
    BY <1>1, <1>2, <1>6, <1>8, ZenonT(30) DEF TypeOK
  <1>13. InputInOrder'
    BY <1>1, <1>2, ZenonT(30) DEF InputInOrder
  <1> QED BY <1>11, <1>12, <1>13 DEF ConsoleInv

\* The interrupts of the timer and of the UART.
LEMMA IrqKeeps ==
  ASSUME ConsoleInv, TimerIrq \/ UartIrq
  PROVE  ConsoleInv'
  <1>1. TypeOK /\ InputInOrder /\ Outside(m, reads, expect) /\ m.cpu.pstate # "masked"
    BY ZenonT(30) DEF ConsoleInv, TimerIrq, UartIrq, Signals
  <1>2. CASE TimerIrq
    <2>1. /\ m' = Then(Interrupted(m, "timer"), TimerHandled) /\ timer' = FALSE
          /\ UNCHANGED <<fifo, buffer, reads, sent, got, expect>>
      BY <1>2, ZenonT(30) DEF TimerIrq
    <2>2. Outside(m', reads', expect')
      BY <1>1, <2>1, TimerReturns, ZenonT(30)
    <2>3. m' \in Machine
      BY <2>2, ZenonT(30) DEF Outside, KernelOK, BaseOK
    <2>4. TypeOK'
      BY <1>1, <2>1, <2>3, ZenonT(30) DEF TypeOK
    <2>5. InputInOrder'
      BY <1>1, <2>1, ZenonT(30) DEF InputInOrder
    <2> QED BY <2>2, <2>4, <2>5, ZenonT(30) DEF ConsoleInv
  <1>3. CASE UartIrq
    <2>1. /\ m' = Then(Then(Then(Interrupted(m, "uart"), UartHandled), InterruptEnd),
                       ReturnToUser)
          /\ buffer' = buffer \o fifo /\ fifo' = <<>>
          /\ UNCHANGED <<timer, reads, sent, got, expect>>
      BY <1>3, ZenonT(30) DEF UartIrq
    <2>2. Outside(m', reads', expect')
      BY <1>1, <2>1, UartReturns
    <2>3. m' \in Machine
      BY <2>2 DEF Outside, KernelOK, BaseOK
    <2>4. /\ buffer \in Seq(Char) /\ fifo \in Seq(Char) /\ got \in Seq(Cooks)
          /\ <<>> \in Seq(Char)
      BY <1>1 DEF TypeOK, Cooks
    <2>5. buffer' \in Seq(Char) /\ fifo' \in Seq(Char) /\ Len(fifo') <= 1
      BY <2>1, <2>4
    <2>6. TypeOK'
      BY <1>1, <2>1, <2>3, <2>5, ZenonT(30) DEF TypeOK
    <2>7. InputInOrder'
      <3> DEFINE a == CookedAll(buffer)
                 b == CookedAll(fifo)
                 c == CookedAll(<<>>)
      <3>1. a \in Seq(Cooks) /\ b \in Seq(Cooks)
        BY <2>4, CookedSeq, ZenonT(30)
      <3>2. c = <<>>
        <4>1. c \in Seq(Cooks) /\ Len(c) = Len(<<>>)
          BY <2>4, CookedSeq, ZenonT(30)
        <4> QED BY <4>1
      <3>3. CookedAll(buffer \o fifo) = a \o b
        BY <2>4, CookedConcat, ZenonT(30)
      <3>4. (got \o a) \o b = CookedAll(sent)
        BY <1>1, ZenonT(30) DEF InputInOrder
      <3>5. (got' \o CookedAll(buffer')) \o CookedAll(fifo') = (got \o (a \o b)) \o <<>>
        BY <2>1, <3>2, <3>3, ZenonT(30)
      <3> HIDE DEF a, b
      <3>6. (got \o (a \o b)) \o <<>> = got \o (a \o b)
        <4>1. got \o (a \o b) \in Seq(Cooks)
          BY <2>4, <3>1
        <4> QED BY <4>1
      <3>7. got \o (a \o b) = (got \o a) \o b
        BY <2>4, <3>1
      <3>8. sent' = sent
        BY <2>1, ZenonT(30)
      <3> QED BY <3>4, <3>5, <3>6, <3>7, <3>8, ZenonT(30) DEF InputInOrder
    <2> QED BY <2>2, <2>6, <2>7 DEF ConsoleInv
  <1> QED BY <1>2, <1>3

\* The timer elapses, a character arrives.
LEMMA HardwareKeeps ==
  ASSUME ConsoleInv, TimerElapses \/ \E c \in Char : CharArrives(c)
  PROVE  ConsoleInv'
  <1>1. TypeOK /\ InputInOrder /\ Outside(m, reads, expect)
    BY ZenonT(30) DEF ConsoleInv
  <1>2. CASE TimerElapses
    <2>1. timer' = TRUE /\ UNCHANGED <<m, fifo, buffer, reads, sent, got, expect>>
      BY <1>2 DEF TimerElapses
    <2>2. Outside(m', reads', expect')
      BY <1>1, <2>1, ZenonT(30)
    <2>3. TypeOK'
      BY <1>1, <2>1, ZenonT(30) DEF TypeOK
    <2>4. InputInOrder'
      BY <1>1, <2>1 DEF InputInOrder
    <2> QED BY <2>2, <2>3, <2>4, ZenonT(30) DEF ConsoleInv
  <1>3. ASSUME NEW c \in Char, CharArrives(c)
        PROVE  ConsoleInv'
    <2>1. /\ Len(sent) < MaxChars /\ fifo = <<>> /\ fifo' = <<c>> /\ sent' = Append(sent, c)
          /\ UNCHANGED <<m, timer, buffer, reads, got, expect>>
      BY <1>3, ZenonT(30) DEF CharArrives
    <2>2. /\ sent \in Seq(Char) /\ buffer \in Seq(Char) /\ got \in Seq(Cooks)
          /\ <<c>> \in Seq(Char) /\ Len(<<c>>) = 1 /\ <<>> \in Seq(Char)
      BY <1>1 DEF TypeOK, Cooks
    <2>3. Append(sent, c) = sent \o <<c>>
      BY <2>2
    <2>4. Append(sent, c) \in Seq(Char) /\ Len(Append(sent, c)) = Len(sent) + 1
          /\ Len(sent) \in Nat
      BY <2>2
    <2>5. Outside(m', reads', expect')
      BY <1>1, <2>1
    <2>6. Len(sent') <= MaxChars
      BY <2>1, <2>4, ConsoleAssumption
    <2>7. TypeOK'
      BY <1>1, <2>1, <2>2, <2>4, <2>6 DEF TypeOK
    <2>8. InputInOrder'
      <3> DEFINE a == CookedAll(buffer)
                 g == got \o a
      <3>1. a \in Seq(Cooks)
        BY <2>2, CookedSeq
      <3>2. g \in Seq(Cooks)
        BY <2>2, <3>1
      <3>3. CookedAll(<<>>) = <<>>
        <4>1. CookedAll(<<>>) \in Seq(Cooks) /\ Len(CookedAll(<<>>)) = Len(<<>>)
          BY <2>2, CookedSeq, ZenonT(30)
        <4> QED BY <4>1
      <3>4. g \o CookedAll(fifo) = CookedAll(sent)
        BY <1>1, ZenonT(30) DEF InputInOrder
      <3> HIDE DEF g
      <3>5. g = CookedAll(sent)
        BY <2>1, <3>2, <3>3, <3>4
      <3>6. CookedAll(Append(sent, c)) = CookedAll(sent) \o CookedAll(<<c>>)
        BY <2>2, <2>3, CookedConcat, ZenonT(30)
      <3>7. (got' \o CookedAll(buffer')) \o CookedAll(fifo') = g \o CookedAll(<<c>>)
        BY <2>1, ZenonT(30) DEF g
      <3> QED BY <2>1, <3>5, <3>6, <3>7, ZenonT(30) DEF InputInOrder
    <2> QED BY <2>5, <2>7, <2>8, ZenonT(30) DEF ConsoleInv
  <1> QED BY <1>2, <1>3

\* Every step keeps the invariant.
LEMMA NextConsoleInv == ConsoleInv /\ [Next]_vars => ConsoleInv'
  <1> SUFFICES ASSUME ConsoleInv, [Next]_vars PROVE ConsoleInv'
    BY ZenonT(30)
  <1>1. CASE TimerElapses \/ \E c \in Char : CharArrives(c)
    BY <1>1, HardwareKeeps, ZenonT(30)
  <1>2. CASE TimerIrq \/ UartIrq
    BY <1>2, IrqKeeps
  <1>3. ASSUME NEW t \in Users, EnterUsermode(t) PROVE ConsoleInv'
    BY <1>3, EnterKeeps, ZenonT(30)
  <1>4. ASSUME NEW t \in Users, NEW n \in Sizes, SysRead(t, n) PROVE ConsoleInv'
    BY <1>4, SysReadKeeps, ZenonT(30)
  <1>5. ASSUME NEW t \in Users, Resume(t) PROVE ConsoleInv'
    BY <1>5, ResumeKeeps
  <1>6. CASE UNCHANGED vars
    <2>1. UNCHANGED <<m, timer, fifo, buffer, reads, sent, got, expect>>
      BY <1>6, ZenonT(30) DEF vars
    <2>2. Outside(m', reads', expect')
      BY <2>1, ZenonT(30) DEF ConsoleInv
    <2>3. TypeOK'
      BY <2>1, ZenonT(30) DEF TypeOK, ConsoleInv
    <2>4. InputInOrder'
      BY <2>1, ZenonT(30) DEF InputInOrder, ConsoleInv
    <2> QED BY <2>2, <2>3, <2>4, ZenonT(30) DEF ConsoleInv
  <1> QED BY <1>1, <1>2, <1>3, <1>4, <1>5, <1>6, ZenonT(30) DEF Next

-----------------------------------------------------------------------------
(* The theorems.                                                           *)

\* ConsoleInv holds in every state of the console, whatever the tasks, the
\* characters and the sizes of the reads.
THEOREM ConsoleConsistent == Spec => []ConsoleInv
  <1>1. Init => ConsoleInv
    BY InitConsoleInv, ZenonT(30)
  <1>2. ConsoleInv /\ [Next]_vars => ConsoleInv'
    BY NextConsoleInv, ZenonT(30)
  <1> QED BY <1>1, <1>2, PTL DEF Spec

\* No unwrap on a missing task, interrupt or character fails, no assertion of
\* the scheduler or of return_to_user does, and the handler of the UART never
\* goes to sleep.
THEOREM KernelNeverFaults == Spec => []NoFault
  <1>1. ConsoleInv => NoFault
    BY ZenonT(30) DEF ConsoleInv, Outside, KernelOK, BaseOK, SchedOK, NoFault
  <1> QED BY <1>1, ConsoleConsistent, PTL

\* push_all, pop_all and return_to_user: whatever happened in between, a user
\* program finds its registers, its stack and its page table, and in x0 the
\* result of its last system call.
THEOREM RegistersKept == Spec => []UserSeesOwnRegisters
  <1>1. ConsoleInv => UserSeesOwnRegisters
    <2> SUFFICES ASSUME ConsoleInv, m.cpu.pstate = "el0"
                 PROVE  /\ {m.cpu.x21, m.cpu.x22, m.cpu.x23, m.cpu.x30, m.cpu.sp_el0,
                            m.cpu.ttbr0, m.cpu.pc} = {m.sched.current}
                        /\ m.cpu.x0 = expect[m.sched.current]
      BY ZenonT(30) DEF UserSeesOwnRegisters, Current
    <2>1. Runs(m, m.sched.current, reads[m.sched.current].left, expect[m.sched.current])
      BY ZenonT(30) DEF ConsoleInv, Outside
    <2>2. OwnCpu(m.cpu, m.sched.current) /\ m.cpu.x0 = expect[m.sched.current]
      BY <2>1, ZenonT(30) DEF Runs
    <2> QED BY <2>2, ZenonT(30) DEF OwnCpu
  <1> QED BY <1>1, ConsoleConsistent, PTL

\* The stack of exception frames of a task tells where it stands: none, one,
\* two or three, saved in the modes that belong there.
THEOREM FramesTellWhere == Spec => []FramesFit
  <1>1. ConsoleInv => FramesFit
    <2> SUFFICES ASSUME ConsoleInv, NEW t \in Task
        PROVE LET asleep  == reads[t].left > 0
                  resumed == t = Current /\ m.cpu.pstate = "masked"
                  modes   == [i \in DOMAIN m.frames[t] |-> m.frames[t][i].spsr_el1]
              IN  IF asleep
                  THEN modes = IF resumed THEN <<"el0", "masked">>
                               ELSE <<"el0", "masked", "masked">>
                  ELSE IF t = Current \/ m.entries[t] = 0 THEN modes = <<>>
                  ELSE modes \in {<<"el0">>, <<"el1">>}
      BY DEF FramesFit
    <2> DEFINE modes == [i \in DOMAIN m.frames[t] |-> m.frames[t][i].spsr_el1]
               n == reads[t].left
               q == m.frames[t]
    <2>1. q \in Seq(Frame)
      BY ZenonT(30) DEF ConsoleInv, TypeOK, Machine
    <2>2. /\ q = <<>> => modes = <<>>
          /\ Len(q) = 1 => modes = <<q[1].spsr_el1>>
          /\ Len(q) = 2 => modes = <<q[1].spsr_el1, q[2].spsr_el1>>
          /\ Len(q) = 3 => modes = <<q[1].spsr_el1, q[2].spsr_el1, q[3].spsr_el1>>
      BY <2>1, FrameModes, ZenonT(30)
    <2>3. n \in Nat
      BY DEF ConsoleInv, TypeOK
    <2> HIDE DEF modes, n, q
    <2>s. n > 0 \/ n = 0
      BY <2>3
    <2>4. CASE t = Current
      <3>1. Runs(m, t, n, expect[t])
        BY <2>4, ZenonT(30) DEF ConsoleInv, Outside, Current, n
      <3>2. CASE n > 0
        <4>1. m.cpu.pstate = "masked" /\ modes = <<"el0", "masked">>
          <5>1. n # 0
            BY <2>3, <3>2
          <5>2. /\ m.cpu.pstate = "masked" /\ Len(q) = 2
                /\ q[1].spsr_el1 = "el0" /\ q[2].spsr_el1 = "masked"
            BY <3>1, <5>1, ZenonT(30) DEF Runs, Own, q
          <5> QED BY <2>2, <5>2, ZenonT(30)
        <4> QED BY <2>4, <3>2, <4>1, ZenonT(30) DEF modes, n
      <3>3. CASE n = 0
        <4>1. modes = <<>>
          BY <2>2, <2>3, <3>1, <3>3 DEF Runs, q
        <4> QED BY <2>4, <3>3, <4>1 DEF modes, n
      <3> QED BY <2>s, <3>2, <3>3, ZenonT(30)
    <2>5. CASE t # Current
      <3>1. Rests(m, t, n, expect[t])
        BY <2>5, ZenonT(30) DEF ConsoleInv, Outside, OthersRest, Current, n
      <3>2. CASE n > 0
        <4>1. modes = <<"el0", "masked", "masked">>
          <5>1. n # 0
            BY <2>3, <3>2
          <5>2. /\ Len(q) = 3 /\ q[1].spsr_el1 = "el0"
                /\ q[2].spsr_el1 = "masked" /\ q[3].spsr_el1 = "masked"
            BY <3>1, <5>1, ZenonT(30) DEF Rests, Own, q
          <5> QED BY <2>2, <5>2, ZenonT(30)
        <4> QED BY <2>5, <3>2, <4>1, ZenonT(30) DEF modes, n
      <3>3. CASE n = 0
        <4>1. \/ m.entries[t] = 0 /\ modes = <<>>
              \/ m.entries[t] = 1 /\ modes \in {<<"el0">>, <<"el1">>}
          <5>1. ~(n > 0)
            BY <2>3, <3>3
          <5>2. \/ m.entries[t] = 0 /\ q = <<>>
                \/ /\ m.entries[t] = 1 /\ Len(q) = 1
                   /\ q[1].spsr_el1 = "el0" \/ q[1].spsr_el1 = "el1"
            BY <3>1, <5>1, ZenonT(30) DEF Rests, Own, q
          <5> QED BY <2>2, <5>2, ZenonT(30)
        <4> QED BY <2>5, <3>3, <4>1 DEF modes, n
      <3> QED BY <2>s, <3>2, <3>3, ZenonT(30)
    <2> QED BY <2>4, <2>5, ZenonT(30)
  <1> QED BY <1>1, ConsoleConsistent, PTL

\* Every character that the receiver accepted is delivered once and in order.
THEOREM InputDeliveredInOrder == Spec => []InputInOrder
  <1>1. ConsoleInv => InputInOrder
    BY DEF ConsoleInv
  <1> QED BY <1>1, ConsoleConsistent, PTL
=============================================================================
