----------------------------- MODULE GuardProofs ----------------------------
(***************************************************************************)
(* Spin locks are held with interrupts masked, for any number of tasks.    *)
(*                                                                         *)
(* What a task is about to execute is a sequence of steps, so the          *)
(* invariant speaks about its run: the masks and guards that those steps   *)
(* go through when nobody else steps in between.  Runs compose, and so the *)
(* handler of an interrupt can be put before the rest of a call.           *)
(***************************************************************************)
EXTENDS GuardedCalls, TLAPS

\* The time that a leaf may take.
USE SMTT(30)

-----------------------------------------------------------------------------
(* Runs.                                                                   *)

Guard     == [lock : Locks \cup {""}, irq : BOOLEAN]
Operation == [op : {"mask", "lock", "drop", "switch", "eret"},
              lock : Locks \cup {""}, keeps : BOOLEAN]

\* What a task sees of the core: the mask, and the guards it holds.
View == [irq : BOOLEAN, gs : Seq(Guard)]
Sees(i, gs) == [irq |-> i, gs |-> gs]

LockFree(gs) == \A i \in 1..Len(gs) : gs[i].lock = ""

\* No lock is held with interrupts enabled.
Safe(v) == v.irq => LockFree(v.gs)

\* The step can be taken in v: there is a guard to drop, and a task is left with
\* interrupts masked and no lock held.
Allowed(v, x) ==
  /\ x.op = "lock" => x.lock \in Locks
  /\ x.op = "drop" => v.gs # <<>>
  /\ x.op = "switch" => ~v.irq /\ LockFree(v.gs)

\* The view behind the step.
Effect(v, x) ==
  IF x.op = "mask" THEN Sees(FALSE, Append(v.gs, [lock |-> "", irq |-> v.irq]))
  ELSE IF x.op = "lock"
  THEN Sees(v.irq, Append(v.gs, [lock |-> x.lock, irq |-> x.keeps /\ v.irq]))
  ELSE IF x.op = "drop" THEN Sees(v.irq \/ Last(v.gs).irq, Front(v.gs))
  ELSE IF x.op = "eret" THEN Sees(TRUE, v.gs)
  ELSE v

\* e is the run of the steps q: the views before each step and behind the last.
IsRun(q, e) ==
  /\ Len(e) = Len(q) + 1
  /\ \A i \in 1..Len(e) : Safe(e[i])
  /\ \A i \in 1..Len(q) : Allowed(e[i], q[i]) /\ e[i + 1] = Effect(e[i], q[i])

\* The steps q lead from v to z.
Leads(q, v, z) ==
  \E e \in Seq(View) : IsRun(q, e) /\ e[1] = v /\ e[Len(e)] = z

\* No step, one step.
LEMMA NoStep ==
  ASSUME NEW v \in View, Safe(v)
  PROVE  Leads(<<>>, v, v)
<1> DEFINE e == <<v>>
<1>1. e \in Seq(View) /\ Len(e) = 1 /\ e[1] = v
  OBVIOUS
<1> HIDE DEF e
<1>2. IsRun(<<>>, e)
  BY <1>1 DEF IsRun
<1>3. e[Len(e)] = v
  BY <1>1, ZenonT(30)
<1> QED BY <1>1, <1>2, <1>3, ZenonT(30) DEF Leads

LEMMA OneStep ==
  ASSUME NEW v \in View, NEW x, Safe(v), Allowed(v, x), Effect(v, x) \in View,
         Safe(Effect(v, x))
  PROVE  Leads(<<x>>, v, Effect(v, x))
<1> DEFINE z == Effect(v, x)
           e == <<v, z>>
<1>1. z \in View /\ Safe(z) /\ z = Effect(v, x)
  OBVIOUS
<1> HIDE DEF z
<1>2. e \in Seq(View) /\ Len(e) = 2 /\ e[1] = v /\ e[2] = z
  BY <1>1
<1> HIDE DEF e
<1>3. IsRun(<<x>>, e)
  BY <1>1, <1>2 DEF IsRun
<1>4. Leads(<<x>>, v, z)
  BY <1>2, <1>3 DEF Leads
<1> QED BY <1>1, <1>4

\* Steps behind steps.
LEMMA Compose ==
  ASSUME NEW S, NEW p \in Seq(S), NEW q \in Seq(S), NEW v, NEW y, NEW z,
         Leads(p, v, y), Leads(q, y, z)
  PROVE  Leads(p \o q, v, z)
<1>1. PICK d \in Seq(View) : IsRun(p, d) /\ d[1] = v /\ d[Len(d)] = y
  BY DEF Leads
<1>2. PICK e \in Seq(View) : IsRun(q, e) /\ e[1] = y /\ e[Len(e)] = z
  BY DEF Leads
<1> DEFINE m == Len(p)
           n == Len(q)
           f == [i \in 1..(m + n + 1) |-> IF i <= m THEN d[i] ELSE e[i - m]]
           r == p \o q
<1>3. m \in Nat /\ n \in Nat /\ Len(d) = m + 1 /\ Len(e) = n + 1
  BY <1>1, <1>2 DEF IsRun
<1>4. /\ Len(r) = m + n
      /\ \A i \in 1..m : r[i] = p[i]
      /\ \A i \in (m + 1)..(m + n) : r[i] = q[i - m]
  OBVIOUS
<1>5. /\ \A i \in 1..(m + 1) : d[i] \in View /\ Safe(d[i])
      /\ \A i \in 1..m : Allowed(d[i], p[i]) /\ d[i + 1] = Effect(d[i], p[i])
  BY <1>1, <1>3 DEF IsRun
<1>6. /\ \A i \in 1..(n + 1) : e[i] \in View /\ Safe(e[i])
      /\ \A i \in 1..n : Allowed(e[i], q[i]) /\ e[i + 1] = Effect(e[i], q[i])
  BY <1>2, <1>3 DEF IsRun
<1> HIDE DEF m, n, r
<1>7. \A i \in 1..(m + n + 1) : f[i] \in View /\ Safe(f[i])
  BY <1>3, <1>5, <1>6
<1>8. f \in Seq(View) /\ Len(f) = m + n + 1
  <2>1. m + n + 1 \in Nat
    BY <1>3
  <2>2. f \in [1..(m + n + 1) -> View]
    BY <1>7
  <2> DEFINE k == m + n + 1
  <2>3. k \in Nat /\ f \in [1..k -> View]
    BY <2>1, <2>2
  <2> HIDE DEF k, f
  <2>4. f \in Seq(View)
    BY <2>3
  <2>5. Len(f) = k
    BY <2>3, <2>4
  <2> QED BY <2>4, <2>5 DEF k
<1>9. /\ \A i \in 1..(m + 1) : f[i] = d[i]
      /\ \A i \in (m + 1)..(m + n + 1) : f[i] = e[i - m]
  BY <1>1, <1>2, <1>3
<1> HIDE DEF f
<1>10. ASSUME NEW i \in 1..(m + n)
       PROVE  Allowed(f[i], r[i]) /\ f[i + 1] = Effect(f[i], r[i])
  <2>1. CASE i \in 1..m
    <3>1. i + 1 \in 1..(m + 1) /\ i \in 1..(m + 1)
      BY <1>3, <2>1
    <3>2. f[i] = d[i] /\ f[i + 1] = d[i + 1] /\ r[i] = p[i]
      BY <1>4, <1>9, <2>1, <3>1, ZenonT(30)
    <3> QED BY <1>5, <2>1, <3>2, ZenonT(30)
  <2>2. CASE i \in (m + 1)..(m + n)
    <3>1. /\ i - m \in 1..n /\ (i - m) + 1 = (i + 1) - m
          /\ i + 1 \in (m + 1)..(m + n + 1) /\ i \in (m + 1)..(m + n + 1)
      BY <1>3, <2>2
    <3>2. f[i] = e[i - m] /\ f[i + 1] = e[(i - m) + 1] /\ r[i] = q[i - m]
      <4>1. f[i] = e[i - m] /\ r[i] = q[i - m]
        BY <1>4, <1>9, <2>2, <3>1, ZenonT(30)
      <4>2. f[i + 1] = e[(i + 1) - m]
        BY <1>9, <3>1, ZenonT(30)
      <4> QED BY <3>1, <4>1, <4>2, ZenonT(30)
    <3> QED BY <1>6, <3>1, <3>2, ZenonT(30)
  <2> QED BY <1>3, <2>1, <2>2
<1>11. IsRun(r, f)
  <2>1. Len(f) = Len(r) + 1
    BY <1>3, <1>4, <1>8
  <2> QED BY <1>4, <1>7, <1>8, <1>10, <2>1, ZenonT(30) DEF IsRun
<1>12. f[1] = v /\ f[Len(f)] = z
  <2>1. f[1] = d[1]
    BY <1>3, <1>9
  <2>2. f[m + n + 1] = e[n + 1]
    BY <1>3, <1>9
  <2> QED BY <1>1, <1>2, <1>3, <1>8, <2>1, <2>2
<1> QED BY <1>8, <1>11, <1>12 DEF Leads, r

\* What a run says of its first step.
LEMMA FirstStep ==
  ASSUME NEW S, NEW q \in Seq(S), q # <<>>, NEW v, NEW z, Leads(q, v, z)
  PROVE  /\ v \in View /\ Safe(v) /\ Allowed(v, Head(q))
         /\ Leads(Tail(q), Effect(v, Head(q)), z)
<1>1. PICK e \in Seq(View) : IsRun(q, e) /\ e[1] = v /\ e[Len(e)] = z
  BY DEF Leads
<1> DEFINE n == Len(q)
           r == Tail(q)
           f == Tail(e)
<1>2. n \in Nat /\ n > 0 /\ Len(e) = n + 1 /\ Head(q) = q[1]
  BY <1>1 DEF IsRun
<1>3. Len(r) = n - 1 /\ \A i \in 1..(n - 1) : r[i] = q[i + 1]
  BY <1>2
<1>4. f \in Seq(View) /\ Len(f) = n /\ \A i \in 1..n : f[i] = e[i + 1]
  BY <1>2
<1>5. /\ \A i \in 1..(n + 1) : e[i] \in View /\ Safe(e[i])
      /\ \A i \in 1..n : Allowed(e[i], q[i]) /\ e[i + 1] = Effect(e[i], q[i])
  BY <1>1, <1>2 DEF IsRun
<1> HIDE DEF n, r, f
<1>6. ASSUME NEW i \in 1..(n - 1)
      PROVE  Allowed(f[i], r[i]) /\ f[i + 1] = Effect(f[i], r[i])
  <2>1. i + 1 \in 1..n /\ i \in 1..n
    BY <1>2
  <2>2. f[i] = e[i + 1] /\ f[i + 1] = e[(i + 1) + 1] /\ r[i] = q[i + 1]
    BY <1>3, <1>4, <2>1, ZenonT(30)
  <2> QED BY <1>5, <2>1, <2>2, ZenonT(30)
<1>7. \A i \in 1..n : Safe(f[i])
  BY <1>2, <1>4, <1>5
<1>8. IsRun(r, f)
  BY <1>2, <1>3, <1>4, <1>6, <1>7 DEF IsRun
<1>9. f[1] = e[2] /\ f[n] = e[n + 1] /\ e[2] = Effect(v, Head(q))
  <2>1. 1 \in 1..n /\ n \in 1..n /\ 1 + 1 = 2
    BY <1>2
  <2> QED BY <1>1, <1>2, <1>4, <1>5, <2>1
<1>10. Leads(r, Effect(v, Head(q)), z)
  BY <1>1, <1>2, <1>4, <1>8, <1>9 DEF Leads
<1> QED BY <1>1, <1>2, <1>5, <1>10 DEF r

\* and when it has none.
LEMMA Arrived ==
  ASSUME NEW v, NEW z, Leads(<<>>, v, z)
  PROVE  v = z
BY DEF Leads, IsRun

\* A run begins safely.
LEMMA BeginsSafely ==
  ASSUME NEW q, Len(q) \in Nat, NEW v, NEW z, Leads(q, v, z)
  PROVE  v \in View /\ Safe(v)
BY DEF Leads, IsRun

-----------------------------------------------------------------------------
(* Calls made with interrupts masked leave the mask and the guards as they *)
(* were.                                                                   *)

Quiet(q) ==
  /\ q \in Seq(Operation)
  /\ \A gs \in Seq(Guard) : Leads(q, Sees(FALSE, gs), Sees(FALSE, gs))

\* No steps are quiet, and quiet calls one after the other are.
LEMMA QuietNothing == Quiet(<<>>)
<1>1. ASSUME NEW gs \in Seq(Guard) PROVE Leads(<<>>, Sees(FALSE, gs), Sees(FALSE, gs))
  <2>1. Sees(FALSE, gs) \in View /\ Safe(Sees(FALSE, gs))
    BY DEF Sees, View, Safe
  <2> QED BY <2>1, NoStep, ZenonT(30)
<1>2. <<>> \in Seq(Operation)
  OBVIOUS
<1> QED BY <1>1, <1>2, ZenonT(30) DEF Quiet

LEMMA QuietThen ==
  ASSUME NEW p, NEW q, Quiet(p), Quiet(q)
  PROVE  Quiet(p \o q)
<1>1. p \in Seq(Operation) /\ q \in Seq(Operation) /\ p \o q \in Seq(Operation)
  BY DEF Quiet
<1>2. ASSUME NEW gs \in Seq(Guard) PROVE Leads(p \o q, Sees(FALSE, gs), Sees(FALSE, gs))
  BY <1>1, Compose, ZenonT(30) DEF Quiet
<1> QED BY <1>1, <1>2, ZenonT(30) DEF Quiet

\* The operations are what they should be.
LEMMA Operations ==
  /\ Mask \in Operation /\ Drop \in Operation /\ Switch \in Operation /\ Eret \in Operation
  /\ \A l \in Locks : Spin(l) \in Operation /\ SpinUninterruptible(l) \in Operation
BY ZenonT(30) DEF Mask, Drop, Switch, Eret, Spin, SpinUninterruptible, Operation

\* A guard that was taken is the one dropped.
LEMMA Pushed ==
  ASSUME NEW gs \in Seq(Guard), NEW g \in Guard
  PROVE  /\ Append(gs, g) \in Seq(Guard) /\ Append(gs, g) # <<>>
         /\ Last(Append(gs, g)) = g /\ Front(Append(gs, g)) = gs
<1> DEFINE h == Append(gs, g)
<1>1. h \in Seq(Guard) /\ Len(h) = Len(gs) + 1 /\ h[Len(gs) + 1] = g
  OBVIOUS
<1>2. SubSeq(h, 1, Len(h) - 1) = gs
  OBVIOUS
<1> QED BY <1>1, <1>2 DEF Last, Front

\* Interrupts enabled or not, dropping a guard undoes taking it: the call x, q, drop
\* for a guard x that masks, and q quiet, leaves everything as it was
LEMMA AroundQuiet ==
  ASSUME NEW x \in Operation, NEW q, Quiet(q), NEW i \in BOOLEAN, NEW gs \in Seq(Guard),
         i => LockFree(gs),
         \/ x.op = "mask"
         \/ x.op = "lock" /\ x.lock \in Locks /\ ~i
  PROVE  Leads(<<x>> \o q \o <<Drop>>, Sees(i, gs), Sees(i, gs))
<1> DEFINE v == Sees(i, gs)
           g == IF x.op = "mask" THEN [lock |-> "", irq |-> i] ELSE [lock |-> x.lock, irq |-> FALSE]
           w == Sees(FALSE, Append(gs, g))
<1>1. v \in View /\ Safe(v) /\ v.irq = i /\ v.gs = gs
  BY DEF v, Sees, View, Safe
<1>2. g \in Guard /\ g.irq = i
  BY ZenonT(30) DEF Guard, Operation
<1>3. w \in View /\ Safe(w) /\ w.irq = FALSE /\ w.gs = Append(gs, g)
  <2>1. Append(gs, g) \in Seq(Guard)
    BY <1>2, Pushed, ZenonT(30)
  <2> QED BY <2>1, ZenonT(30) DEF Sees, View, Safe
<1>4. Effect(v, x) = w /\ Allowed(v, x)
  BY <1>1, ZenonT(30) DEF Effect, Allowed, Operation
<1>5. Effect(w, Drop) = v /\ Allowed(w, Drop)
  <2>1. Last(w.gs) = g /\ Front(w.gs) = gs /\ w.gs # <<>>
    BY <1>2, <1>3, Pushed, ZenonT(30)
  <2> QED BY <1>2, <1>3, <2>1, ZenonT(30) DEF Effect, Allowed, Drop
<1> HIDE DEF v, w
<1>6. Leads(<<x>>, v, w)
  BY <1>1, <1>3, <1>4, OneStep, ZenonT(30)
<1>7. Leads(q, w, w)
  BY <1>2, Pushed, ZenonT(30) DEF Quiet, w
<1>8. Leads(<<Drop>>, w, v)
  BY <1>1, <1>3, <1>5, OneStep, ZenonT(30)
<1>9. <<x>> \in Seq(Operation) /\ q \in Seq(Operation) /\ <<Drop>> \in Seq(Operation)
      /\ <<x>> \o q \in Seq(Operation)
  BY Operations DEF Quiet
<1>10. Leads(<<x>> \o q, v, w)
  BY <1>6, <1>7, <1>9, Compose, ZenonT(30)
<1>11. Leads(<<x>> \o q \o <<Drop>>, v, v)
  BY <1>8, <1>9, <1>10, Compose, ZenonT(30)
<1> QED BY <1>11 DEF v

\* so that masked calls nest,
LEMMA QuietInside ==
  ASSUME NEW x \in Operation, NEW q, Quiet(q),
         x.op = "mask" \/ (x.op = "lock" /\ x.lock \in Locks)
  PROVE  Quiet(<<x>> \o q \o <<Drop>>)
<1>1. <<x>> \o q \o <<Drop>> \in Seq(Operation)
  BY Operations DEF Quiet
<1>2. ASSUME NEW gs \in Seq(Guard)
      PROVE  Leads(<<x>> \o q \o <<Drop>>, Sees(FALSE, gs), Sees(FALSE, gs))
  BY AroundQuiet, ZenonT(30)
<1> QED BY <1>1, <1>2, ZenonT(30) DEF Quiet

\* Concatenations, element by element.
LEMMA Behind ==
  ASSUME NEW a \in Seq(Operation), NEW b \in Seq(Operation)
  PROVE  \A i \in 1..Len(b) : (a \o b)[Len(a) + i] = b[i]
OBVIOUS

LEMMA Before ==
  ASSUME NEW a \in Seq(Operation), NEW b \in Seq(Operation)
  PROVE  Len(a \o b) = Len(a) + Len(b) /\ \A i \in 1..Len(a) : (a \o b)[i] = a[i]
OBVIOUS

LEMMA Singles ==
  ASSUME NEW a \in Seq(Operation), NEW b \in Seq(Operation), Len(a) = 1, Len(b) = 1
  PROVE  /\ a \o b \in Seq(Operation) /\ Len(a \o b) = 2
         /\ (a \o b)[1] = a[1] /\ (a \o b)[2] = b[1]
<1>1. 1 \in 1..Len(b) /\ Len(a) + 1 = 2
  OBVIOUS
<1>2. (a \o b)[Len(a) + 1] = b[1]
  BY <1>1, Behind, ZenonT(30)
<1>3. (a \o b)[1] = a[1] /\ Len(a \o b) = 2
  <2>1. Len(a) + Len(b) = 2 /\ 1 \in 1..Len(a)
    OBVIOUS
  <2> QED BY <2>1, Before, ZenonT(30)
<1>4. a \o b \in Seq(Operation)
  OBVIOUS
<1>5. (a \o b)[2] = b[1]
  BY <1>1, <1>2, ZenonT(30)
<1> QED BY <1>3, <1>4, <1>5

\* A pair of steps is one behind the other.
LEMMA Two ==
  ASSUME NEW x \in Operation, NEW y \in Operation
  PROVE  <<x, y>> = <<x>> \o <<y>>
<1> DEFINE a == <<x>>
           b == <<y>>
           c == a \o b
<1>1. a \in Seq(Operation) /\ Len(a) = 1 /\ a[1] = x
  OBVIOUS
<1>2. b \in Seq(Operation) /\ Len(b) = 1 /\ b[1] = y
  OBVIOUS
<1> HIDE DEF a, b
<1>3. c \in Seq(Operation) /\ Len(c) = 2 /\ c[1] = x /\ c[2] = y
  BY <1>1, <1>2, Singles, ZenonT(30)
<1> HIDE DEF c
<1>4. c = <<x, y>>
  BY <1>3
<1> QED BY <1>4, ZenonT(30) DEF a, b, c

\* and a guard can be taken and dropped.
LEMMA QuietGuard ==
  ASSUME NEW x \in Operation, x.op = "mask" \/ (x.op = "lock" /\ x.lock \in Locks)
  PROVE  Quiet(<<x, Drop>>)
<1>1. Quiet(<<x>> \o <<>> \o <<Drop>>)
  BY QuietInside, QuietNothing, ZenonT(30)
<1>2. <<x>> \o <<>> = <<x>>
  OBVIOUS
<1>3. <<x>> \o <<Drop>> = <<x, Drop>>
  BY Two, Operations, ZenonT(30)
<1> QED BY <1>1, <1>2, <1>3, ZenonT(30)

\* How concatenations group, as predicates so that a lemma can be matched with them.
Associated(p, q, r) == (p \o q) \o r = p \o (q \o r)

LEMMA Associate ==
  \A p, q, r \in Seq(Operation) : Associated(p, q, r)
BY DEF Associated

Regrouped(a, b, q, d) == a \o b \o q \o d = a \o (b \o q \o d)

LEMMA Regroup ==
  ASSUME NEW a \in Seq(Operation), NEW b \in Seq(Operation), NEW q \in Seq(Operation),
         NEW d \in Seq(Operation)
  PROVE  Regrouped(a, b, q, d)
<1> DEFINE Cat(r, s) == r \o s
           S == Seq(Operation)
<1>1. \A r, s, t \in S : Cat(Cat(r, s), t) = Cat(r, Cat(s, t))
  BY Associate, ZenonT(30) DEF Associated
<1>2. \A r, s \in S : Cat(r, s) \in S
  OBVIOUS
<1>3. a \in S /\ b \in S /\ q \in S /\ d \in S
  OBVIOUS
<1> HIDE DEF Cat, S
<1>4. Cat(Cat(Cat(a, b), q), d) = Cat(a, Cat(Cat(b, q), d))
  BY <1>1, <1>2, <1>3
<1> QED BY <1>4, ZenonT(30) DEF Cat, Regrouped

\* Two guards around a call.
LEMMA TwoGuards ==
  ASSUME NEW x \in Operation, NEW y \in Operation, NEW q \in Seq(Operation)
  PROVE  <<x, y>> \o q \o <<Drop, Drop>> = <<x>> \o (<<y>> \o q \o <<Drop>>) \o <<Drop>>
<1>1. Drop \in Operation
  BY Operations
<1>2. /\ <<x>> \in Seq(Operation) /\ <<y>> \in Seq(Operation) /\ <<Drop>> \in Seq(Operation)
  BY <1>1
<1>a. <<x, y>> = <<x>> \o <<y>> /\ <<Drop, Drop>> = <<Drop>> \o <<Drop>>
  BY Two, Operations, ZenonT(30)
<1> DEFINE a == <<x>>
           b == <<y>>
           d == <<Drop>>
<1>3. a \in Seq(Operation) /\ b \in Seq(Operation) /\ d \in Seq(Operation)
  BY <1>2
<1> HIDE DEF a, b, d
<1>4. (a \o b) \o q \o (d \o d) = a \o (b \o q \o d) \o d
  <2> DEFINE e == a \o b \o q
  <2>1. e \o d = a \o (b \o q \o d)
    <3>1. Regrouped(a, b, q, d)
      BY <1>3, Regroup, ZenonT(30)
    <3> QED BY <3>1, ZenonT(30) DEF Regrouped
  <2>2. e \in Seq(Operation)
    BY <1>3
  <2> HIDE DEF e
  <2>3. e \o (d \o d) = (e \o d) \o d
    <3>1. Associated(e, d, d)
      BY <1>3, <2>2, Associate, ZenonT(30)
    <3> QED BY <3>1, ZenonT(30) DEF Associated
  <2> QED BY <2>1, <2>3, ZenonT(30) DEF e
<1> QED BY <1>a, <1>4, ZenonT(30) DEF a, b, d

-----------------------------------------------------------------------------
(* The calls of the kernel.                                                *)

\* The guard masks interrupts before anything else happens.
MasksFirst(c) == \E q : Quiet(q) /\ c = <<Mask>> \o q \o <<Drop>>

\* Such a call is quiet.
LEMMA MaskedQuiet ==
  ASSUME NEW c, MasksFirst(c)
  PROVE  Quiet(c)
<1>1. Mask \in Operation /\ Mask.op = "mask"
  BY Operations, ZenonT(30) DEF Mask
<1> QED BY <1>1, QuietInside, ZenonT(30) DEF MasksFirst

\* The guards that calls take.
LEMMA Guards ==
  /\ Mask \in Operation /\ Mask.op = "mask"
  /\ \A l \in Locks : /\ Spin(l) \in Operation /\ Spin(l).op = "lock" /\ Spin(l).lock = l
                      /\ SpinUninterruptible(l) \in Operation
                      /\ SpinUninterruptible(l).op = "lock" /\ SpinUninterruptible(l).lock = l
BY Operations, ZenonT(30) DEF Mask, Spin, SpinUninterruptible

\* PhysicalMemory::acquire and release, and KernelMemoryMapper::map.
LEMMA FrameQuiet == MasksFirst(FrameCall)
<1> DEFINE x == SpinUninterruptible("FRAMES")
<1>1. x \in Operation /\ x.op = "lock" /\ x.lock \in Locks
  BY Guards, ZenonT(30) DEF Locks
<1> HIDE DEF x
<1>2. Quiet(<<x, Drop>>)
  BY <1>1, QuietGuard, ZenonT(30)
<1>3. <<Mask, x, Drop, Drop>> = <<Mask>> \o <<x, Drop>> \o <<Drop>>
  OBVIOUS
<1> QED BY <1>2, <1>3, ZenonT(30) DEF MasksFirst, FrameCall, x

LEMMA MapQuiet == MasksFirst(MapCall)
BY FrameQuiet, MaskedQuiet, ZenonT(30) DEF MasksFirst, MapCall

\* Task::by_id, alloc and dealloc.
LEMMA TaskQuiet == Quiet(TaskCall)
BY Guards, QuietGuard, ZenonT(30) DEF TaskCall, Locks

LEMMA HeapQuiet == Quiet(HeapCall)
BY Guards, QuietGuard, ZenonT(30) DEF HeapCall, Locks

\* alloc_cell_slow: two locks, one after the other, under the lock of the heap.
LEMMA HeapSlowQuiet == Quiet(HeapSlowCall)
<1> DEFINE x == SpinUninterruptible("HEAP")
           y == Spin("VIRTUAL")
           v == <<y, Drop>>
           d == <<Drop>>
           a == <<x>>
<1>1. /\ x \in Operation /\ x.op = "lock" /\ x.lock \in Locks
      /\ y \in Operation /\ y.op = "lock" /\ y.lock \in Locks
  BY Guards, ZenonT(30) DEF Locks
<1> HIDE DEF x, y
<1>2. Quiet(v) /\ Quiet(FrameCall) /\ Quiet(MapCall)
  BY <1>1, QuietGuard, FrameQuiet, MapQuiet, MaskedQuiet, ZenonT(30)
<1>3. Quiet(v \o FrameCall) /\ Quiet(v \o FrameCall \o MapCall)
  BY <1>2, QuietThen, ZenonT(30)
<1>4. Quiet(a \o (v \o FrameCall \o MapCall) \o d)
  BY <1>1, <1>3, QuietInside, ZenonT(30)
<1>5. <<x, y, Drop>> = a \o v /\ a \in Seq(Operation)
  BY <1>1
<1> HIDE DEF v, a, d
<1>6. a \o v \o FrameCall \o MapCall = a \o (v \o FrameCall \o MapCall)
  <2>1. v \in Seq(Operation) /\ FrameCall \in Seq(Operation) /\ MapCall \in Seq(Operation)
    BY <1>2, ZenonT(30) DEF Quiet
  <2>2. Regrouped(a, v, FrameCall, MapCall)
    BY <1>5, <2>1, Regroup, ZenonT(30)
  <2> QED BY <2>2, ZenonT(30) DEF Regrouped
<1>7. HeapSlowCall = (a \o v) \o FrameCall \o MapCall \o d
  BY <1>5, ZenonT(30) DEF HeapSlowCall, x, y, d
<1> QED BY <1>4, <1>6, <1>7, ZenonT(30)

LEMMA AllocationQuiet == \A a \in Allocation : Quiet(a)
BY QuietNothing, HeapQuiet, HeapSlowQuiet, ZenonT(30) DEF Allocation

\* wake_up and notify_all.
LEMMA WakeQuiet ==
  ASSUME NEW a \in Allocation
  PROVE  MasksFirst(WakeCall(a))
<1>1. Quiet(a) /\ Quiet(TaskCall) /\ Quiet(TaskCall \o a)
  BY AllocationQuiet, TaskQuiet, QuietThen, ZenonT(30)
<1>2. a \in Seq(Operation) /\ TaskCall \in Seq(Operation) /\ <<Mask>> \in Seq(Operation)
  BY <1>1, Operations DEF Quiet
<1>3. (<<Mask>> \o TaskCall) \o a = <<Mask>> \o (TaskCall \o a)
  <2>1. Associated(<<Mask>>, TaskCall, a)
    BY <1>2, Associate, ZenonT(30)
  <2> QED BY <2>1, ZenonT(30) DEF Associated
<1> QED BY <1>1, <1>3, ZenonT(30) DEF MasksFirst, WakeCall

LEMMA NotifyQuiet ==
  ASSUME NEW a \in Allocation
  PROVE  MasksFirst(NotifyCall(a))
<1> DEFINE y == Spin("WAITERS")
           w == WakeCall(a)
<1>1. y \in Operation /\ y.op = "lock" /\ y.lock \in Locks
  BY Guards, ZenonT(30) DEF Locks
<1>2. Quiet(w)
  BY WakeQuiet, MaskedQuiet, ZenonT(30)
<1> HIDE DEF y, w
<1>3. Quiet(<<y>> \o w \o <<Drop>>)
  BY <1>1, <1>2, QuietInside, ZenonT(30)
<1>4. <<Mask, y>> \o w \o <<Drop, Drop>> = <<Mask>> \o (<<y>> \o w \o <<Drop>>) \o <<Drop>>
  BY <1>1, <1>2, TwoGuards, Operations, ZenonT(30) DEF Quiet
<1> QED BY <1>3, <1>4, ZenonT(30) DEF MasksFirst, NotifyCall, y, w

\* With interrupts masked every call is quiet.
LEMMA KernelQuiet == \A c \in KernelCalls : Quiet(c)
BY FrameQuiet, MapQuiet, WakeQuiet, NotifyQuiet, TaskQuiet, HeapQuiet, HeapSlowQuiet,
   MaskedQuiet, ZenonT(30) DEF KernelCalls, MaskingCalls

\* The calls that mask first can be made with interrupts enabled.
LEMMA MaskingLeads ==
  ASSUME NEW c \in MaskingCalls
  PROVE  /\ c \in Seq(Operation)
         /\ Leads(c, Sees(TRUE, <<>>), Sees(TRUE, <<>>))
<1>1. MasksFirst(c)
  BY FrameQuiet, MapQuiet, WakeQuiet, NotifyQuiet, ZenonT(30) DEF MaskingCalls
<1>2. PICK q : Quiet(q) /\ c = <<Mask>> \o q \o <<Drop>>
  BY <1>1, ZenonT(30) DEF MasksFirst
<1>3. <<>> \in Seq(Guard) /\ LockFree(<<>>)
  BY DEF LockFree
<1>4. c \in Seq(Operation)
  BY <1>1, MaskedQuiet, ZenonT(30) DEF Quiet
<1>5. Leads(c, Sees(TRUE, <<>>), Sees(TRUE, <<>>))
  BY <1>2, <1>3, Guards, AroundQuiet, ZenonT(30)
<1> QED BY <1>4, <1>5, ZenonT(30)

\* push_exception_frame
LEMMA PushQuiet ==
  ASSUME NEW a \in Allocation
  PROVE  Quiet(PushFrame(a))
<1> DEFINE y == Spin("CONTEXT")
           m == <<Mask, y>>
           d == <<Drop, Drop>>
<1>1. y \in Operation /\ y.op = "lock" /\ y.lock \in Locks
  BY Guards, ZenonT(30) DEF Locks
<1>2. Quiet(a) /\ Quiet(TaskCall) /\ a \in Seq(Operation) /\ TaskCall \in Seq(Operation)
  BY AllocationQuiet, TaskQuiet, ZenonT(30) DEF Quiet
<1> HIDE DEF y
<1>3. Quiet(<<y>> \o a \o <<Drop>>)
  BY <1>1, <1>2, QuietInside, ZenonT(30)
<1>4. m \o a \o d = <<Mask>> \o (<<y>> \o a \o <<Drop>>) \o <<Drop>>
  BY <1>1, <1>2, TwoGuards, Operations, ZenonT(30)
<1>5. Quiet(m \o a \o d)
  BY <1>3, <1>4, Guards, QuietInside, ZenonT(30)
<1>6. m \in Seq(Operation) /\ d \in Seq(Operation)
  BY <1>1, Operations
<1> HIDE DEF m, d
<1>7. TaskCall \o m \o a \o d = TaskCall \o (m \o a \o d)
  <2>1. Regrouped(TaskCall, m, a, d)
    BY <1>2, <1>6, Regroup, ZenonT(30)
  <2> QED BY <2>1, ZenonT(30) DEF Regrouped
<1>8. Quiet(TaskCall \o (m \o a \o d))
  BY <1>2, <1>5, QuietThen, ZenonT(30)
<1> QED BY <1>7, <1>8, ZenonT(30) DEF PushFrame, m, d, y

\* The return from an exception enables interrupts and keeps the guards of the task.
LEMMA Returns ==
  ASSUME NEW gs \in Seq(Guard), LockFree(gs)
  PROVE  /\ ReturnToUser \in Seq(Operation)
         /\ Leads(ReturnToUser, Sees(FALSE, gs), Sees(TRUE, gs))
<1> DEFINE y == Spin("CONTEXT")
           m == <<Mask, y, Drop, Drop>>
           r == <<Eret>>
           v == Sees(FALSE, gs)
           z == Sees(TRUE, gs)
<1>1. y \in Operation /\ y.op = "lock" /\ y.lock \in Locks
  BY Guards, ZenonT(30) DEF Locks
<1> HIDE DEF y
<1>2. Quiet(m)
  <2>1. Quiet(<<y, Drop>>)
    BY <1>1, QuietGuard, ZenonT(30)
  <2>2. <<Mask, y, Drop, Drop>> = <<Mask>> \o <<y, Drop>> \o <<Drop>>
    OBVIOUS
  <2>3. Quiet(<<Mask>> \o <<y, Drop>> \o <<Drop>>)
    BY <2>1, Guards, QuietInside, ZenonT(30)
  <2> QED BY <2>2, <2>3, ZenonT(30)
<1>3. <<Mask, y, Drop, Drop, Eret>> = m \o r
  OBVIOUS
<1>4. r \in Seq(Operation)
  BY Operations
<1>5. Leads(r, v, z)
  <2>1. v \in View /\ z \in View /\ Safe(v) /\ Safe(z)
    BY ZenonT(30) DEF Sees, View, Safe
  <2>2. Effect(v, Eret) = z /\ Allowed(v, Eret)
    BY ZenonT(30) DEF Sees, Effect, Allowed, Eret
  <2> HIDE DEF v, z
  <2> QED BY <2>1, <2>2, OneStep, ZenonT(30)
<1> HIDE DEF m, r
<1>6. /\ m \in Seq(Operation) /\ TaskCall \in Seq(Operation)
      /\ Leads(m, v, v) /\ Leads(TaskCall, v, v)
  BY <1>2, TaskQuiet, ZenonT(30) DEF Quiet
<1>7. m \o r \in Seq(Operation) /\ TaskCall \o (m \o r) \in Seq(Operation)
  BY <1>4, <1>6
<1> HIDE DEF v, z
<1>8. Leads(m \o r, v, z)
  BY <1>4, <1>5, <1>6, Compose, ZenonT(30)
<1>9. Leads(TaskCall \o (m \o r), v, z)
  BY <1>6, <1>7, <1>8, Compose, ZenonT(30)
<1>10. ReturnToUser = TaskCall \o (m \o r)
  BY <1>3, ZenonT(30) DEF ReturnToUser, y
<1> QED BY <1>7, <1>9, <1>10, ZenonT(30) DEF v, z

\* The timer interrupt too, of a task that holds no lock.
LEMMA HandlerLeads ==
  ASSUME NEW f \in Allocation, NEW a \in Allocation, NEW gs \in Seq(Guard), LockFree(gs)
  PROVE  /\ TimerHandler(f, a) \in Seq(Operation)
         /\ Leads(TimerHandler(f, a), Sees(FALSE, gs), Sees(TRUE, gs))
<1> DEFINE p == PushFrame(f) \o TaskCall \o a
           v == Sees(FALSE, gs)
           z == Sees(TRUE, gs)
<1>1. Quiet(p)
  BY PushQuiet, TaskQuiet, AllocationQuiet, QuietThen, ZenonT(30)
<1>2. Leads(<<Switch>>, v, v)
  <2>1. v \in View /\ Safe(v)
    BY ZenonT(30) DEF Sees, View, Safe
  <2>2. Effect(v, Switch) = v /\ Allowed(v, Switch)
    BY ZenonT(30) DEF Sees, Effect, Allowed, Switch
  <2> HIDE DEF v
  <2> QED BY <2>1, <2>2, OneStep, ZenonT(30)
<1>3. <<Switch>> \in Seq(Operation)
  BY Operations
<1>4. ReturnToUser \in Seq(Operation) /\ Leads(ReturnToUser, v, z)
  BY Returns, ZenonT(30)
<1>5. p \in Seq(Operation) /\ Leads(p, v, v)
  BY <1>1, ZenonT(30) DEF Quiet
<1>6. TimerHandler(f, a) = (p \o <<Switch>>) \o ReturnToUser
  BY ZenonT(30) DEF TimerHandler
<1> HIDE DEF p
<1>7. p \o <<Switch>> \in Seq(Operation)
  BY <1>3, <1>5
<1>8. (p \o <<Switch>>) \o ReturnToUser \in Seq(Operation)
  BY <1>4, <1>7
<1> HIDE DEF v, z
<1>9. Leads(p \o <<Switch>>, v, v)
  BY <1>2, <1>3, <1>5, Compose, ZenonT(30)
<1>10. Leads((p \o <<Switch>>) \o ReturnToUser, v, z)
  BY <1>4, <1>7, <1>9, Compose, ZenonT(30)
<1> QED BY <1>6, <1>8, <1>10, ZenonT(30) DEF v, z

-----------------------------------------------------------------------------
(* The inductive invariant.                                                *)

\* A task is home when interrupts are enabled and it holds no guard.
Home == Sees(TRUE, <<>>)

Holds(gs, l) == \E i \in 1..Len(gs) : gs[i].lock = l

\* Every task gets home by the steps it has left, the current one from the mask of
\* the core and the others masked; only the current task holds locks, and a lock
\* that is taken is in a guard of its holder.
GuardInv ==
  /\ cur \in Task /\ irqOn \in BOOLEAN
  /\ holder \in [Locks -> Task \cup {None}]
  /\ guards \in [Task -> Seq(Guard)] /\ todo \in [Task -> Seq(Operation)]
  /\ Leads(todo[cur], Sees(irqOn, guards[cur]), Home)
  /\ \A t \in Task \ {cur} : Leads(todo[t], Sees(FALSE, guards[t]), Home)
  /\ \A t \in Task \ {cur} : LockFree(guards[t])
  /\ \A l \in Locks : holder[l] # None => Holds(guards[holder[l]], l)

\* It says what it should.
LEMMA GuardsSafe ==
  ASSUME GuardInv
  PROVE  HeldMeansMasked
<1>1. SUFFICES ASSUME NEW l \in Locks, holder[l] # None, irqOn PROVE FALSE
  BY ZenonT(30) DEF HeldMeansMasked
<1>2. holder[l] \in Task /\ Holds(guards[holder[l]], l)
  BY <1>1, ZenonT(30) DEF GuardInv
<1>3. l # ""
  BY <1>1, ZenonT(30) DEF Locks
<1>4. ASSUME NEW t \in Task, LockFree(guards[t]), Holds(guards[t], l) PROVE FALSE
  BY <1>3, <1>4, ZenonT(30) DEF LockFree, Holds
<1>5. holder[l] = cur
  BY <1>2, <1>4, ZenonT(30) DEF GuardInv
<1>6. Safe(Sees(irqOn, guards[cur]))
  <2>1. todo[cur] \in Seq(Operation) /\ Leads(todo[cur], Sees(irqOn, guards[cur]), Home)
    BY ZenonT(30) DEF GuardInv
  <2>2. Len(todo[cur]) \in Nat
    BY <2>1
  <2> QED BY <2>1, <2>2, BeginsSafely, ZenonT(30)
<1>7. LockFree(guards[cur])
  BY <1>1, <1>6, ZenonT(30) DEF Safe, Sees
<1> QED BY <1>2, <1>4, <1>5, <1>7, ZenonT(30)

\* It holds at the start.
LEMMA InitGuards ==
  ASSUME Init
  PROVE  GuardInv
<1>1. <<>> \in Seq(Guard) /\ <<>> \in Seq(Operation) /\ LockFree(<<>>)
  BY DEF LockFree
<1>2. /\ ReturnToUser \in Seq(Operation) /\ Leads(ReturnToUser, Sees(FALSE, <<>>), Home)
  BY <1>1, Returns, ZenonT(30) DEF Home
<1>3. Leads(<<>>, Home, Home)
  <2>1. Home \in View /\ Safe(Home)
    BY <1>1, ZenonT(30) DEF Home, Sees, View, Safe
  <2> QED BY <2>1, NoStep, ZenonT(30)
<1>4. 0 \in Task
  BY NumTasksAssumption DEF Task
<1>5. /\ cur = 0 /\ irqOn = TRUE /\ \A t \in Task : guards[t] = <<>>
      /\ \A t \in Task : todo[t] = IF t = 0 THEN <<>> ELSE ReturnToUser
      /\ \A l \in Locks : holder[l] = None
  BY ZenonT(30) DEF Init
<1>6. /\ guards \in [Task -> Seq(Guard)] /\ todo \in [Task -> Seq(Operation)]
      /\ holder \in [Locks -> Task \cup {None}]
  BY <1>1, <1>2, ZenonT(30) DEF Init
<1>7. Leads(todo[cur], Sees(irqOn, guards[cur]), Home)
  BY <1>3, <1>4, <1>5, ZenonT(30) DEF Home
<1>8. \A t \in Task \ {cur} : Leads(todo[t], Sees(FALSE, guards[t]), Home) /\ LockFree(guards[t])
  BY <1>1, <1>2, <1>5, ZenonT(30)
<1> QED BY <1>4, <1>5, <1>6, <1>7, <1>8, ZenonT(30) DEF GuardInv

\* A step in which the current task stays the current one.
LEMMA Stays ==
  ASSUME GuardInv, NEW q \in Seq(Operation), NEW i \in BOOLEAN, NEW gs \in Seq(Guard),
         cur' = cur, irqOn' = i,
         todo' = [todo EXCEPT ![cur] = q], guards' = [guards EXCEPT ![cur] = gs],
         Leads(q, Sees(i, gs), Home),
         holder' \in [Locks -> Task \cup {None}],
         \A l \in Locks : /\ holder'[l] = cur => Holds(gs, l)
                          /\ holder'[l] \in Task \ {cur} => holder[l] = holder'[l]
  PROVE  GuardInv'
<1>1. /\ cur \in Task /\ guards \in [Task -> Seq(Guard)] /\ todo \in [Task -> Seq(Operation)]
  BY ZenonT(30) DEF GuardInv
<1>2. /\ todo'[cur] = q /\ guards'[cur] = gs
      /\ \A t \in Task \ {cur} : todo'[t] = todo[t] /\ guards'[t] = guards[t]
  BY <1>1, ZenonT(30)
<1>3. guards' \in [Task -> Seq(Guard)] /\ todo' \in [Task -> Seq(Operation)]
  BY <1>1, ZenonT(30)
<1>4. Leads(todo'[cur], Sees(i, guards'[cur]), Home)
  BY <1>2, ZenonT(30)
<1>5. /\ \A t \in Task \ {cur} : Leads(todo'[t], Sees(FALSE, guards'[t]), Home)
      /\ \A t \in Task \ {cur} : LockFree(guards'[t])
  BY <1>2, ZenonT(30) DEF GuardInv
<1>6. ASSUME NEW l \in Locks, holder'[l] # None PROVE Holds(guards'[holder'[l]], l)
  <2>1. holder'[l] \in Task
    BY <1>6, ZenonT(30)
  <2>2. CASE holder'[l] = cur
    BY <1>2, <2>2, ZenonT(30)
  <2>3. CASE holder'[l] # cur
    <3>1. holder[l] = holder'[l]
      BY <2>1, <2>3, ZenonT(30)
    <3>2. Holds(guards[holder[l]], l)
      BY <1>6, <3>1, ZenonT(30) DEF GuardInv
    <3> QED BY <1>2, <2>1, <2>3, <3>1, <3>2, ZenonT(30)
  <2> QED BY <2>2, <2>3
<1> QED BY <1>1, <1>3, <1>4, <1>5, <1>6, ZenonT(30) DEF GuardInv

\* What the invariant says of the next step of the current task.
LEMMA NextAllowed ==
  ASSUME GuardInv, todo[cur] # <<>>
  PROVE  LET v == Sees(irqOn, guards[cur])
             x == Head(todo[cur])
         IN  /\ v \in View /\ Safe(v) /\ Allowed(v, x) /\ x \in Operation
             /\ Tail(todo[cur]) \in Seq(Operation) /\ Leads(Tail(todo[cur]), Effect(v, x), Home)
<1> DEFINE q == todo[cur]
<1>1. q \in Seq(Operation) /\ q # <<>> /\ Leads(q, Sees(irqOn, guards[cur]), Home)
  BY ZenonT(30) DEF GuardInv
<1> HIDE DEF q
<1>2. Head(q) \in Operation /\ Tail(q) \in Seq(Operation)
  BY <1>1
<1>3. /\ Sees(irqOn, guards[cur]) \in View /\ Safe(Sees(irqOn, guards[cur]))
      /\ Allowed(Sees(irqOn, guards[cur]), Head(q))
      /\ Leads(Tail(q), Effect(Sees(irqOn, guards[cur]), Head(q)), Home)
  BY <1>1, FirstStep, ZenonT(30)
<1> QED BY <1>2, <1>3, ZenonT(30) DEF q

-----------------------------------------------------------------------------
(* The steps of the core.                                                  *)

\* An idle task is home.
LEMMA AtHome ==
  ASSUME GuardInv, todo[cur] = <<>>
  PROVE  irqOn = TRUE /\ guards[cur] = <<>>
<1>1. Sees(irqOn, guards[cur]) = Home
  BY Arrived, ZenonT(30) DEF GuardInv
<1>2. Sees(irqOn, guards[cur]).irq = irqOn /\ Sees(irqOn, guards[cur]).gs = guards[cur]
  BY ZenonT(30) DEF Sees
<1>3. Home.irq = TRUE /\ Home.gs = <<>>
  BY ZenonT(30) DEF Sees, Home
<1> QED BY <1>1, <1>2, <1>3, ZenonT(30)

\* Locks and guards that do not change.
LEMMA SameLocks ==
  ASSUME GuardInv, holder' = holder
  PROVE  /\ holder' \in [Locks -> Task \cup {None}]
         /\ \A l \in Locks : /\ holder'[l] = cur => Holds(guards[cur], l)
                             /\ holder'[l] \in Task \ {cur} => holder[l] = holder'[l]
<1>1. cur # None
  BY NumTasksAssumption DEF GuardInv, Task, None
<1> QED BY <1>1, ZenonT(30) DEF GuardInv

LEMMA SameGuards ==
  ASSUME GuardInv, guards' = guards
  PROVE  guards' = [guards EXCEPT ![cur] = guards[cur]] /\ guards[cur] \in Seq(Guard)
BY DEF GuardInv

\* A call with interrupts enabled: it masks first.
LEMMA CallGuards ==
  ASSUME GuardInv, NEW c \in TaskCalls, Call(c)
  PROVE  GuardInv'
<1>1. /\ todo[cur] = <<>> /\ todo' = [todo EXCEPT ![cur] = c]
      /\ cur' = cur /\ irqOn' = irqOn /\ holder' = holder /\ guards' = guards
  BY ZenonT(30) DEF Call
<1>2. irqOn = TRUE /\ guards[cur] = <<>>
  BY <1>1, AtHome, ZenonT(30)
<1>3. c \in Seq(Operation) /\ Leads(c, Sees(TRUE, guards[cur]), Home)
  BY <1>2, CallsAssumption, MaskingLeads, ZenonT(30) DEF Home
<1>4. irqOn' = TRUE
  BY <1>1, <1>2, ZenonT(30)
<1> QED BY <1>1, <1>3, <1>4, SameLocks, SameGuards, Stays, ZenonT(30)

\* A system call: it is masked until it returns.
LEMMA SvcGuards ==
  ASSUME GuardInv, NEW c \in SvcCalls, Svc(c)
  PROVE  GuardInv'
<1>1. /\ todo[cur] = <<>>
      /\ cur' = cur /\ irqOn' = FALSE /\ holder' = holder /\ guards' = guards
  BY ZenonT(30) DEF Svc
<1>2. PICK f \in FrameAllocation :
        todo' = [todo EXCEPT ![cur] = PushFrame(f) \o c \o ReturnToUser]
  BY ZenonT(30) DEF Svc
<1> DEFINE p == PushFrame(f) \o c
           v == Sees(FALSE, guards[cur])
<1>3. f \in Allocation
  BY <1>2, ZenonT(30) DEF FrameAllocation, Allocation
<1>4. Quiet(p)
  BY <1>3, CallsAssumption, KernelQuiet, PushQuiet, QuietThen, ZenonT(30)
<1>5. guards[cur] = <<>> /\ guards[cur] \in Seq(Guard) /\ LockFree(guards[cur])
  <2>1. <<>> \in Seq(Guard) /\ LockFree(<<>>)
    BY DEF LockFree
  <2> QED BY <1>1, <2>1, AtHome, ZenonT(30)
<1>6. p \in Seq(Operation) /\ Leads(p, v, v)
  BY <1>4, <1>5, ZenonT(30) DEF Quiet
<1>7. ReturnToUser \in Seq(Operation) /\ Leads(ReturnToUser, v, Home)
  BY <1>5, Returns, ZenonT(30) DEF Home
<1> HIDE DEF p, v
<1>8. p \o ReturnToUser \in Seq(Operation)
  BY <1>6, <1>7
<1>9. Leads(p \o ReturnToUser, v, Home)
  BY <1>6, <1>7, Compose, ZenonT(30)
<1>10. todo' = [todo EXCEPT ![cur] = p \o ReturnToUser]
  BY <1>2, ZenonT(30) DEF p
<1> QED BY <1>1, <1>8, <1>9, <1>10, SameLocks, SameGuards, Stays, ZenonT(30) DEF v

\* Taking a guard, without and with a lock.
LEMMA MaskGuards ==
  ASSUME GuardInv, MaskStep
  PROVE  GuardInv'
<1> DEFINE x == Head(todo[cur])
           v == Sees(irqOn, guards[cur])
           g == [lock |-> "", irq |-> irqOn]
           gs == Append(guards[cur], g)
           q == Tail(todo[cur])
<1>1. /\ todo[cur] # <<>> /\ x.op = "mask" /\ guards' = [guards EXCEPT ![cur] = gs]
      /\ irqOn' = FALSE /\ todo' = [todo EXCEPT ![cur] = q] /\ cur' = cur /\ holder' = holder
  BY ZenonT(30) DEF MaskStep, NextStep, Advance
<1>2. q \in Seq(Operation) /\ Leads(q, Effect(v, x), Home)
  BY <1>1, NextAllowed, ZenonT(30)
<1>3. v.irq = irqOn /\ v.gs = guards[cur]
  BY ZenonT(30) DEF Sees
<1>4. Effect(v, x) = Sees(FALSE, gs)
  BY <1>1, <1>3, ZenonT(30) DEF Effect
<1>5. guards[cur] \in Seq(Guard) /\ g \in Guard
  BY ZenonT(30) DEF GuardInv, Guard
<1> HIDE DEF g, x, v, q
<1>6. gs \in Seq(Guard) /\ \A l : Holds(guards[cur], l) => Holds(gs, l)
  BY <1>5 DEF Holds
<1> HIDE DEF gs
<1>7. Leads(q, Sees(FALSE, gs), Home)
  BY <1>2, <1>4, ZenonT(30)
<1> QED BY <1>1, <1>2, <1>6, <1>7, SameLocks, Stays, ZenonT(30)

LEMMA LockGuards ==
  ASSUME GuardInv, LockStep
  PROVE  GuardInv'
<1> DEFINE x == Head(todo[cur])
           v == Sees(irqOn, guards[cur])
           g == [lock |-> x.lock, irq |-> x.keeps /\ irqOn]
           gs == Append(guards[cur], g)
           q == Tail(todo[cur])
<1>1. /\ todo[cur] # <<>> /\ x.op = "lock" /\ guards' = [guards EXCEPT ![cur] = gs]
      /\ irqOn' = irqOn /\ todo' = [todo EXCEPT ![cur] = q] /\ cur' = cur
      /\ holder' = [holder EXCEPT ![x.lock] = cur]
  BY ZenonT(30) DEF LockStep, NextStep, Advance
<1>2. /\ q \in Seq(Operation) /\ Leads(q, Effect(v, x), Home)
      /\ x \in Operation /\ Allowed(v, x)
  BY <1>1, NextAllowed, ZenonT(30)
<1>3. v.irq = irqOn /\ v.gs = guards[cur]
  BY ZenonT(30) DEF Sees
<1>4. Effect(v, x) = Sees(irqOn, gs)
  BY <1>1, <1>3, ZenonT(30) DEF Effect
<1>5. x.lock \in Locks
  BY <1>1, <1>2, ZenonT(30) DEF Allowed
<1>6. guards[cur] \in Seq(Guard) /\ g \in Guard /\ g.lock = x.lock
  BY <1>2, <1>5, ZenonT(30) DEF GuardInv, Guard, Operation
<1>7. irqOn \in BOOLEAN /\ cur \in Task
  BY ZenonT(30) DEF GuardInv
<1> HIDE DEF g, x, v, q
<1>8. /\ gs \in Seq(Guard) /\ \A l : Holds(guards[cur], l) => Holds(gs, l)
      /\ Holds(gs, x.lock)
  BY <1>6 DEF Holds
<1> HIDE DEF gs
<1>9. Leads(q, Sees(irqOn, gs), Home)
  BY <1>2, <1>4, ZenonT(30)
<1>10. /\ holder' \in [Locks -> Task \cup {None}]
       /\ \A l \in Locks : /\ holder'[l] = cur => Holds(gs, l)
                           /\ holder'[l] \in Task \ {cur} => holder[l] = holder'[l]
  <2>1. holder \in [Locks -> Task \cup {None}]
    BY ZenonT(30) DEF GuardInv
  <2>2. \A l \in Locks : holder'[l] = IF l = x.lock THEN cur ELSE holder[l]
    BY <1>1, <2>1, ZenonT(30)
  <2>3. cur # None
    BY <1>7, NumTasksAssumption DEF Task, None
  <2>4. \A l \in Locks : holder[l] = cur => Holds(gs, l)
    BY <1>8, <2>3, ZenonT(30) DEF GuardInv
  <2>5. holder' \in [Locks -> Task \cup {None}]
    BY <1>1, <1>5, <1>7, <2>1, ZenonT(30)
  <2> QED BY <1>8, <2>2, <2>4, <2>5, ZenonT(30)
<1> QED BY <1>1, <1>2, <1>7, <1>8, <1>9, <1>10, Stays, ZenonT(30)

LEMMA Prefix ==
  ASSUME NEW gs \in Seq(Guard), NEW k \in Nat, k <= Len(gs)
  PROVE  SubSeq(gs, 1, k) \in Seq(Guard) /\ Len(SubSeq(gs, 1, k)) = k
OBVIOUS

\* The guard dropped is the last, and the others stay.
LEMMA Dropped ==
  ASSUME NEW gs \in Seq(Guard), gs # <<>>
  PROVE  /\ Front(gs) \in Seq(Guard) /\ Last(gs) \in Guard
         /\ \A l : Holds(gs, l) /\ l # Last(gs).lock => Holds(Front(gs), l)
<1> DEFINE n == Len(gs)
           fs == SubSeq(gs, 1, n - 1)
<1>1. n \in Nat /\ n > 0
  OBVIOUS
<1>2. fs \in Seq(Guard) /\ Len(fs) = n - 1
  <2>1. n - 1 \in Nat /\ n - 1 <= n
    BY <1>1
  <2> QED BY <2>1, Prefix, ZenonT(30)
<1>3. \A i \in 1..(n - 1) : fs[i] = gs[i]
  BY <1>1
<1>4. gs[n] \in Guard
  BY <1>1
<1>5. ASSUME NEW l, Holds(gs, l), l # gs[n].lock PROVE Holds(fs, l)
  <2>1. PICK i \in 1..n : gs[i].lock = l
    BY <1>5, ZenonT(30) DEF Holds
  <2> HIDE DEF fs, n
  <2>2. i # n
    BY <1>5, <2>1, ZenonT(30)
  <2>3. i \in 1..(n - 1)
    BY <1>1, <2>1, <2>2
  <2> QED BY <1>2, <1>3, <2>1, <2>3, ZenonT(30) DEF Holds
<1> HIDE DEF fs
<1> QED BY <1>2, <1>4, <1>5, ZenonT(30) DEF Front, Last, fs, n

\* Dropping one: its lock is free again, and the others are in the guards left.
LEMMA DropGuards ==
  ASSUME GuardInv, DropStep
  PROVE  GuardInv'
<1> DEFINE x == Head(todo[cur])
           v == Sees(irqOn, guards[cur])
           g == Last(guards[cur])
           gs == Front(guards[cur])
           q == Tail(todo[cur])
           i == irqOn \/ g.irq
<1>1. /\ todo[cur] # <<>> /\ x.op = "drop" /\ guards' = [guards EXCEPT ![cur] = gs]
      /\ irqOn' = i /\ todo' = [todo EXCEPT ![cur] = q] /\ cur' = cur
      /\ holder' = IF g.lock = "" THEN holder ELSE [holder EXCEPT ![g.lock] = None]
  BY ZenonT(30) DEF DropStep, NextStep, Advance
<1>2. q \in Seq(Operation) /\ Leads(q, Effect(v, x), Home) /\ Allowed(v, x)
  BY <1>1, NextAllowed, ZenonT(30)
<1>3. v.irq = irqOn /\ v.gs = guards[cur]
  BY ZenonT(30) DEF Sees
<1>4. Effect(v, x) = Sees(i, gs)
  BY <1>1, <1>3, ZenonT(30) DEF Effect
<1>5. guards[cur] \in Seq(Guard) /\ guards[cur] # <<>>
  BY <1>1, <1>2, <1>3, ZenonT(30) DEF GuardInv, Allowed
<1>6. i \in BOOLEAN
  BY ZenonT(30)
<1> HIDE DEF x, v, q, i
<1>7. /\ gs \in Seq(Guard) /\ g \in Guard
      /\ \A l : Holds(guards[cur], l) /\ l # g.lock => Holds(gs, l)
  BY <1>5, Dropped, ZenonT(30)
<1> HIDE DEF gs, g
<1>8. Leads(q, Sees(i, gs), Home)
  BY <1>2, <1>4, ZenonT(30)
<1>9. /\ holder' \in [Locks -> Task \cup {None}]
      /\ \A l \in Locks : /\ holder'[l] = cur => Holds(gs, l)
                          /\ holder'[l] \in Task \ {cur} => holder[l] = holder'[l]
  <2>1. holder \in [Locks -> Task \cup {None}] /\ cur \in Task
    BY ZenonT(30) DEF GuardInv
  <2>2. /\ holder' \in [Locks -> Task \cup {None}]
        /\ \A l \in Locks : holder'[l] = IF l = g.lock THEN None ELSE holder[l]
    <3>1. \A l \in Locks : l # ""
      BY ZenonT(30) DEF Locks
    <3> QED BY <1>1, <2>1, <3>1, ZenonT(30)
  <2>3. None \notin Task
    BY NumTasksAssumption DEF Task, None
  <2>4. ASSUME NEW l \in Locks, holder'[l] = cur PROVE Holds(gs, l)
    <3>1. l # g.lock /\ holder[l] = cur
      BY <2>1, <2>2, <2>3, <2>4, ZenonT(30)
    <3>2. Holds(guards[cur], l)
      BY <2>1, <2>3, <3>1, ZenonT(30) DEF GuardInv
    <3> QED BY <1>7, <3>1, <3>2, ZenonT(30)
  <2>5. ASSUME NEW l \in Locks, holder'[l] \in Task \ {cur} PROVE holder[l] = holder'[l]
    BY <2>2, <2>3, <2>5, ZenonT(30)
  <2> QED BY <2>2, <2>4, <2>5, ZenonT(30)
<1> QED BY <1>1, <1>2, <1>6, <1>7, <1>8, <1>9, Stays, ZenonT(30)

\* A task is left with interrupts masked, so the next one goes on masked.
LEMMA SwitchGuards ==
  ASSUME GuardInv, SwitchStep
  PROVE  GuardInv'
<1> DEFINE x == Head(todo[cur])
           v == Sees(irqOn, guards[cur])
           q == Tail(todo[cur])
           n == (cur + 1) % NumTasks
<1>1. /\ todo[cur] # <<>> /\ x.op = "switch" /\ guards' = guards
      /\ irqOn' = irqOn /\ todo' = [todo EXCEPT ![cur] = q] /\ cur' = n /\ holder' = holder
  BY ZenonT(30) DEF SwitchStep, NextStep, Advance
<1>2. q \in Seq(Operation) /\ Leads(q, Effect(v, x), Home) /\ Allowed(v, x)
  BY <1>1, NextAllowed, ZenonT(30)
<1>3. v.irq = irqOn /\ v.gs = guards[cur]
  BY ZenonT(30) DEF Sees
<1>4. Effect(v, x) = v
  BY <1>1, ZenonT(30) DEF Effect
<1>5. ~irqOn /\ LockFree(guards[cur]) /\ irqOn \in BOOLEAN
  BY <1>1, <1>2, <1>3, ZenonT(30) DEF Allowed, GuardInv
<1>6. irqOn = FALSE
  BY <1>5, ZenonT(30)
<1>7. Leads(q, Sees(FALSE, guards[cur]), Home)
  BY <1>2, <1>4, <1>6, ZenonT(30)
<1>8. n \in Task
  BY NumTasksAssumption DEF GuardInv, Task
<1> HIDE DEF x, v, q, n
<1>9. /\ cur \in Task /\ todo \in [Task -> Seq(Operation)] /\ guards \in [Task -> Seq(Guard)]
      /\ holder \in [Locks -> Task \cup {None}]
  BY ZenonT(30) DEF GuardInv
<1>10. /\ todo' \in [Task -> Seq(Operation)] /\ todo'[cur] = q
       /\ \A t \in Task \ {cur} : todo'[t] = todo[t]
  BY <1>1, <1>2, <1>9, ZenonT(30)
<1>11. \A t \in Task : Leads(todo'[t], Sees(FALSE, guards[t]), Home) /\ LockFree(guards[t])
  BY <1>5, <1>7, <1>10, ZenonT(30) DEF GuardInv
<1>12. \A l \in Locks : holder[l] # None => Holds(guards[holder[l]], l)
  BY ZenonT(30) DEF GuardInv
<1>13. /\ cur' \in Task /\ irqOn' = FALSE /\ guards' = guards /\ holder' = holder
  BY <1>1, <1>6, <1>8, ZenonT(30)
<1> QED BY <1>9, <1>10, <1>11, <1>12, <1>13, ZenonT(30) DEF GuardInv

\* Returning from an exception.
LEMMA EretGuards ==
  ASSUME GuardInv, EretStep
  PROVE  GuardInv'
<1> DEFINE x == Head(todo[cur])
           v == Sees(irqOn, guards[cur])
           q == Tail(todo[cur])
<1>1. /\ todo[cur] # <<>> /\ x.op = "eret" /\ guards' = guards
      /\ irqOn' = TRUE /\ todo' = [todo EXCEPT ![cur] = q] /\ cur' = cur /\ holder' = holder
  BY ZenonT(30) DEF EretStep, NextStep, Advance
<1>2. q \in Seq(Operation) /\ Leads(q, Effect(v, x), Home)
  BY <1>1, NextAllowed, ZenonT(30)
<1>3. Effect(v, x) = Sees(TRUE, guards[cur])
  <2>1. v.gs = guards[cur]
    BY ZenonT(30) DEF Sees
  <2> QED BY <1>1, <2>1, ZenonT(30) DEF Effect
<1> HIDE DEF x, v, q
<1>4. Leads(q, Sees(TRUE, guards[cur]), Home)
  BY <1>2, <1>3, ZenonT(30)
<1> QED BY <1>1, <1>2, <1>4, SameLocks, SameGuards, Stays, ZenonT(30)

\* The timer interrupts with interrupts enabled, so no lock is held, and the handler
\* comes before what the task was doing.
LEMMA TimerGuards ==
  ASSUME GuardInv, TimerIrq
  PROVE  GuardInv'
<1>1. /\ irqOn /\ irqOn' = FALSE /\ cur' = cur /\ holder' = holder /\ guards' = guards
  BY ZenonT(30) DEF TimerIrq
<1>2. PICK f \in FrameAllocation, a \in Allocation :
        todo' = [todo EXCEPT ![cur] = TimerHandler(f, a) \o @]
  BY ZenonT(30) DEF TimerIrq
<1> DEFINE h == TimerHandler(f, a)
           q == todo[cur]
           v == Sees(FALSE, guards[cur])
           w == Sees(TRUE, guards[cur])
<1>3. f \in Allocation
  BY <1>2, ZenonT(30) DEF FrameAllocation, Allocation
<1>4. irqOn = TRUE
  BY <1>1, ZenonT(30) DEF GuardInv
<1>5. q \in Seq(Operation) /\ Leads(q, w, Home) /\ guards[cur] \in Seq(Guard)
  BY <1>4, ZenonT(30) DEF GuardInv
<1>6. LockFree(guards[cur])
  <2>1. Len(q) \in Nat
    BY <1>5
  <2>2. Safe(w)
    BY <1>5, <2>1, BeginsSafely, ZenonT(30)
  <2> QED BY <2>2, ZenonT(30) DEF Safe, Sees
<1>7. h \in Seq(Operation) /\ Leads(h, v, w)
  BY <1>2, <1>3, <1>5, <1>6, HandlerLeads, ZenonT(30)
<1>8. todo' = [todo EXCEPT ![cur] = h \o q]
  BY <1>2, ZenonT(30)
<1> HIDE DEF h, q, v, w
<1>9. h \o q \in Seq(Operation)
  BY <1>5, <1>7
<1>10. Leads(h \o q, v, Home)
  BY <1>5, <1>7, Compose, ZenonT(30)
<1> QED BY <1>1, <1>8, <1>9, <1>10, SameLocks, SameGuards, Stays, ZenonT(30) DEF v

\* The tasks, their guards and the locks stay consistent: every task gets home by the
\* steps it has left, and only the running one holds locks.
THEOREM GuardsConsistent == Spec => []GuardInv
<1>1. GuardInv /\ [Next]_vars => GuardInv'
  <2> SUFFICES ASSUME GuardInv, [Next]_vars PROVE GuardInv'
    OBVIOUS
  <2>1. CASE UNCHANGED vars
    <3>1. cur' = cur /\ irqOn' = irqOn /\ holder' = holder /\ guards' = guards /\ todo' = todo
      BY <2>1, ZenonT(30) DEF vars
    <3> QED BY <3>1, ZenonT(30) DEF GuardInv
  <2>2. CASE Next
    BY <2>2, CallGuards, SvcGuards, MaskGuards, LockGuards, DropGuards, SwitchGuards,
       EretGuards, TimerGuards, ZenonT(30) DEF Next, Step
  <2> QED BY <2>1, <2>2
<1> QED BY <1>1, InitGuards, PTL DEF Spec

\* A spin lock is held only with interrupts masked, for any number of tasks that make
\* calls which mask first with interrupts enabled (uninterruptible) and any call in a
\* system call: the timer never preempts a task that holds a lock.
THEOREM LocksHeldMasked == Spec => []HeldMeansMasked
BY GuardsConsistent, GuardsSafe, PTL
=============================================================================
