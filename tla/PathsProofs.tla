---------------------------- MODULE PathsProofs -----------------------------
(***************************************************************************)
(* Paths, mount points and panics, for every init.fs, set of processes and *)
(* sequence of requests: working directories exist (WorkingDirectories),   *)
(* what the kernel expects of its own file system holds                    *)
(* (KernelNeverPanics), and files are read in order (FilesReadInOrder).    *)
(*                                                                         *)
(* The walks and the tree of init.fs are recursive functions.  That they   *)
(* compute what their definitions say, and keep a property from one step   *)
(* to the next, is proved by induction (Recursion, UpTo) from the fact     *)
(* that the order of the numbers is well-founded.  The invariant           *)
(* PathInv says what the file system is at each stage of the module loader *)
(* and that every working directory exists in the last of them, which no   *)
(* request changes.                                                        *)
(***************************************************************************)
EXTENDS FilesProofs, WellFoundedInduction

\* The time that a leaf may take.
USE SMTT(30)

-----------------------------------------------------------------------------
(* Induction.                                                              *)

\* The order of the numbers is well-founded.
LEMMA LessThan ==
  \E R : IsWellFoundedOn(R, Nat) /\ \A j, k \in Nat : j < k => <<j, k>> \in R
<1>1. \A j, k \in Nat : j < k => <<j, k>> \in OpToRel(<, Nat)
  BY DEF OpToRel
<1>2. IsWellFoundedOn(OpToRel(<, Nat), Nat)
  BY NatLessThanWellFounded, ZenonT(30)
<1> QED BY <1>1, <1>2, ZenonT(30)

\* Every set of numbers has a least one.
LEMMA LeastNat ==
  ASSUME NEW T, T \subseteq Nat, T # {}
  PROVE  \E n \in T : \A k \in T : n <= k
<1>1. PICK R : IsWellFoundedOn(R, Nat) /\ \A j, k \in Nat : j < k => <<j, k>> \in R
  BY LessThan
<1>2. IsWellFoundedOn(R, Nat)
  BY <1>1
<1>3. \E x \in T : \A y \in T : ~ (<<y, x>> \in R)
  BY <1>2, WFMin, ZenonT(30)
<1>4. PICK x \in T : \A y \in T : ~ (<<y, x>> \in R)
  BY <1>3, ZenonT(30)
<1>5. ASSUME NEW y \in T PROVE ~(y < x)
  <2>1. x \in Nat /\ y \in Nat
    OBVIOUS
  <2>2. ~ (<<y, x>> \in R)
    BY <1>4
  <2> QED BY <1>1, <2>1, <2>2, ZenonT(30)
<1> QED BY <1>5

\* Induction over the numbers.
LEMMA Induction ==
  ASSUME NEW S, 0 \in S, \A n \in Nat : n \in S => n + 1 \in S
  PROVE  Nat \subseteq S
<1> DEFINE T == Nat \ S
<1>1. SUFFICES ASSUME T # {} PROVE FALSE
  OBVIOUS
<1>2. PICK n \in T : \A k \in T : n <= k
  BY <1>1, LeastNat, ZenonT(30)
<1>3. n # 0 /\ n - 1 \in Nat /\ n - 1 \in S
  BY <1>2
<1> QED BY <1>2, <1>3

\* What holds at 0 and is handed on up to n.
LEMMA UpTo ==
  ASSUME NEW n \in Nat, NEW S, 0 \in S, \A i \in 1..n : i - 1 \in S => i \in S
  PROVE  0..n \subseteq S
<1> DEFINE T == {i \in Nat : i <= n => i \in S}
<1>1. 0 \in T
  OBVIOUS
<1>2. \A i \in Nat : i \in T => i + 1 \in T
  OBVIOUS
<1> HIDE DEF T
<1>3. Nat \subseteq T
  BY <1>1, <1>2, Induction
<1> QED BY <1>3 DEF T

\* The functions on 0..n, and the n steps from one value of D to the next.
Tables(n, D) == [0..n -> D]
Steps(n, D) == [1..n -> [D -> D]]
Iterates(g, n, b, F) == g[0] = b /\ \A i \in 1..n : g[i] = F[i][g[i - 1]]

\* A recursive function on 0..n exists.
LEMMA Recursion ==
  ASSUME NEW n \in Nat, NEW D, NEW b \in D, NEW F \in Steps(n, D)
  PROVE  \E g \in Tables(n, D) : Iterates(g, n, b, F)
<1> USE DEF Steps
<1> DEFINE Up(k, g) == g[0] = b /\ \A i \in 1..k : g[i] = F[i][g[i - 1]]
           S == {k \in 0..n : \E g \in [0..k -> D] : Up(k, g)}
<1>1. 0 \in S
  <2> DEFINE g == [i \in 0..0 |-> b]
  <2>1. g \in [0..0 -> D] /\ Up(0, g)
    OBVIOUS
  <2>2. 0 \in 0..n
    OBVIOUS
  <2> HIDE DEF g, Up
  <2> QED BY <2>1, <2>2, ZenonT(30)
<1>2. ASSUME NEW k \in 1..n, k - 1 \in S
      PROVE  k \in S
  <2>1. PICK g \in [0..(k - 1) -> D] : Up(k - 1, g)
    BY <1>2
  <2> DEFINE h == [i \in 0..k |-> IF i = k THEN F[k][g[k - 1]] ELSE g[i]]
  <2>2. h \in [0..k -> D]
    BY <2>1
  <2>3. Up(k, h)
    <3>1. h[0] = b
      BY <2>1
    <3>2. ASSUME NEW i \in 1..k PROVE h[i] = F[i][h[i - 1]]
      BY <2>1, <3>2
    <3> QED BY <3>1, <3>2, ZenonT(30)
  <2>4. k \in 0..n
    OBVIOUS
  <2> HIDE DEF h, Up
  <2> QED BY <2>2, <2>3, <2>4, ZenonT(30)
<1> HIDE DEF S, Up
<1>3. n \in S
  <2>1. 0..n \subseteq S
    BY <1>1, <1>2, UpTo, ZenonT(30)
  <2> QED BY <2>1
<1> QED BY <1>3, ZenonT(30) DEF S, Up, Tables, Iterates

-----------------------------------------------------------------------------
(* The tree of init.fs.                                                    *)

\* STRING: the provers do not know that a literal is in it.
Name == STRING \cup {Empty, "dev", "tty.serial"}

\* The names that the code itself uses.
LEMMA NameFacts ==
  /\ Seq(STRING) \subseteq Seq(Name)
  /\ Empty # "dev" /\ Empty # "etc" /\ Empty # "tty.serial"
  /\ Empty \in Name /\ "dev" \in Name /\ "tty.serial" \in Name
<1>1. Empty # "dev" /\ Empty # "etc" /\ Empty # "tty.serial"
  BY ZenonT(30) DEF Empty
<1>2. Empty \in Name /\ "dev" \in Name /\ "tty.serial" \in Name /\ STRING \subseteq Name
  BY DEF Name
<1>3. ASSUME NEW s \in Seq(STRING) PROVE s \in Seq(Name)
  <2>1. s \in [1..Len(s) -> STRING] /\ Len(s) \in Nat
    OBVIOUS
  <2>2. s \in [1..Len(s) -> Name]
    BY <1>2, <2>1, ZenonT(30)
  <2> QED BY <2>1, <2>2
<1> QED BY <1>1, <1>2, <1>3

Entry == {Dir} \cup {File(n) : n \in Nat}

\* Trees of files with a root, and with no /dev.
Rams ==
  {r \in UNION {[P -> Entry] : P \in SUBSET Seq(Name)} :
     <<>> \in DOMAIN r /\ r[<<>>] = Dir /\ <<"dev">> \notin DOMAIN r}

\* The directories on the way to p.
LEMMA Prefixes ==
  ASSUME NEW p \in Seq(Name), p # <<>>
  PROVE  /\ \A i \in 0..(Len(p) - 1) : SubSeq(p, 1, i) \in Seq(Name)
         /\ \A i \in 0..(Len(p) - 1) : SubSeq(p, 1, i) # <<>> => SubSeq(p, 1, i)[1] = p[1]
         /\ p = <<p[1]>> \/ (1 \in 0..(Len(p) - 1) /\ SubSeq(p, 1, 1) = <<p[1]>>)
<1>1. Len(p) \in Nat \ {0}
  OBVIOUS
<1>2. ASSUME NEW i \in 0..(Len(p) - 1)
      PROVE  SubSeq(p, 1, i) \in Seq(Name) /\ (SubSeq(p, 1, i) # <<>> => SubSeq(p, 1, i)[1] = p[1])
  BY <1>1
<1>3. CASE Len(p) = 1
  BY <1>3
<1>4. CASE Len(p) # 1
  <2>1. 1 \in 0..(Len(p) - 1)
    <3>1. PICK k \in Nat : k = Len(p) /\ k # 0 /\ k # 1
      BY <1>1, <1>4
    <3>2. 1 \in 0..(k - 1)
      BY <3>1
    <3> QED BY <3>1, <3>2
  <2>2. SubSeq(p, 1, 1) = <<p[1]>>
    <3>1. SubSeq(p, 1, 1) = [i \in 1..1 |-> p[i]]
      OBVIOUS
    <3>2. <<p[1]>> = [i \in 1..1 |-> p[i]]
      OBVIOUS
    <3> QED BY <3>1, <3>2, ZenonT(30)
  <2> QED BY <2>1, <2>2
<1> QED BY <1>2, <1>3, <1>4

\* Adding a file of init.fs leaves a tree, with no /dev.
LEMMA InsertedRam ==
  ASSUME NEW r \in Rams, NEW p \in Seq(Name), p # <<>>, p[1] # "dev", NEW n \in Nat
  PROVE  LET s == Inserted(r, p, File(n)) IN
         /\ s \in Rams
         /\ DOMAIN r \subseteq DOMAIN s
         /\ p[1] = "etc" => <<"etc">> \in DOMAIN s
<1> DEFINE dirs == {SubSeq(p, 1, i) : i \in 0..(Len(p) - 1)}
           P == DOMAIN r \cup dirs \cup {p}
           s == Inserted(r, p, File(n))
<1>1. s = [q \in P |-> IF q = p THEN File(n) ELSE IF q \in DOMAIN r THEN r[q] ELSE Dir]
  BY DEF Inserted
<1>2. dirs \subseteq Seq(Name) /\ \A q \in dirs : q # <<>> => q[1] = p[1]
  BY Prefixes, ZenonT(30)
<1>3. p = <<p[1]>> \/ <<p[1]>> \in dirs
  BY Prefixes, ZenonT(30)
<1> HIDE DEF dirs, s
<1>4. PICK Q \in SUBSET Seq(Name) : r \in [Q -> Entry]
  BY DEF Rams
<1>5. <<>> \in DOMAIN r /\ r[<<>>] = Dir /\ <<"dev">> \notin DOMAIN r
  BY DEF Rams
<1>6. P \in SUBSET Seq(Name) /\ <<>> \in P
  BY <1>2, <1>4, <1>5
<1>7. s \in [P -> Entry]
  BY <1>1, <1>4, ZenonT(30) DEF Entry
<1>8. s[<<>>] = Dir
  BY <1>1, <1>5, <1>6
<1>9. <<"dev">> \notin P
  BY <1>2, <1>5
<1>10. DOMAIN s = P
  BY <1>1, ZenonT(30)
<1>11. s \in Rams
  BY <1>6, <1>7, <1>8, <1>9, <1>10, ZenonT(30) DEF Rams
<1>12. p[1] = "etc" => <<"etc">> \in P
  BY <1>3, ZenonT(30)
<1> QED BY <1>10, <1>11, <1>12 DEF s

\* build_initfs.rs makes such a tree.
LEMMA InitRamFacts == InitRam \in Rams /\ <<"etc">> \in DOMAIN InitRam
<1> DEFINE n == Len(InitFiles)
           F == [i \in 1..n |-> [r \in Rams |-> Inserted(r, InitFiles[i][1], File(InitFiles[i][2]))]]
           Is(g) == g = [i \in 0..n |-> IF i = 0 THEN EmptyRam
                                       ELSE Inserted(g[i - 1], InitFiles[i][1], File(InitFiles[i][2]))]
           ram == CHOOSE g : Is(g)
<1>1. n \in Nat /\ \A i \in 1..n : /\ InitFiles[i][1] \in Seq(Name)
                                  /\ InitFiles[i][1] # <<>>
                                  /\ InitFiles[i][1][1] # "dev"
                                  /\ InitFiles[i][2] \in Nat
  <2>1. n \in Nat /\ \A i \in 1..n : InitFiles[i] \in Seq(STRING) \X Nat
    BY InitFilesAssumption
  <2>2. \A i \in 1..n : InitFiles[i][1] \in Seq(STRING) /\ InitFiles[i][2] \in Nat
    BY <2>1
  <2>3. DOMAIN InitFiles = 1..n
    BY InitFilesAssumption
  <2> QED BY <2>1, <2>2, <2>3, NameFacts, InitFilesAssumption, ZenonT(30)
<1>2. EmptyRam \in Rams
  <2>1. EmptyRam \in [{<<>>} -> Entry] /\ {<<>>} \in SUBSET Seq(Name)
    BY DEF EmptyRam, Entry
  <2>2. DOMAIN EmptyRam = {<<>>} /\ EmptyRam[<<>>] = Dir
    BY DEF EmptyRam
  <2>3. <<"dev">> # <<>>
    OBVIOUS
  <2> QED BY <2>1, <2>2, <2>3, ZenonT(30) DEF Rams
<1>3. \A i \in 1..n : \A r \in Rams :
        LET s == Inserted(r, InitFiles[i][1], File(InitFiles[i][2])) IN
        /\ s \in Rams
        /\ DOMAIN r \subseteq DOMAIN s
        /\ InitFiles[i][1][1] = "etc" => <<"etc">> \in DOMAIN s
  BY <1>1, InsertedRam, ZenonT(30)
<1>4. F \in [1..n -> [Rams -> Rams]]
  BY <1>3
<1>5. PICK g \in [0..n -> Rams] : g[0] = EmptyRam /\ \A i \in 1..n : g[i] = F[i][g[i - 1]]
  <2>1. n \in Nat /\ F \in Steps(n, Rams)
    BY <1>1, <1>4, ZenonT(30) DEF Steps
  <2>2. \E g \in Tables(n, Rams) : Iterates(g, n, EmptyRam, F)
    <3> HIDE DEF F, n
    <3> QED BY <1>2, <2>1, Recursion, ZenonT(30)
  <2> HIDE DEF F, n
  <2> QED BY <2>2, ZenonT(30) DEF Tables, Iterates
<1>6. Is(g)
  <2>1. ASSUME NEW i \in 0..n, i # 0
        PROVE  F[i][g[i - 1]] = Inserted(g[i - 1], InitFiles[i][1], File(InitFiles[i][2]))
    <3>1. i \in 1..n /\ i - 1 \in 0..n
      BY <1>1, <2>1
    <3>2. g[i - 1] \in Rams
      BY <1>5, <3>1, ZenonT(30)
    <3> QED BY <3>1, <3>2
  <2> HIDE DEF F, n
  <2>2. g = [i \in 0..n |-> g[i]]
    BY <1>5, ZenonT(30)
  <2>3. ASSUME NEW i \in 0..n
        PROVE  g[i] = IF i = 0 THEN EmptyRam
                      ELSE Inserted(g[i - 1], InitFiles[i][1], File(InitFiles[i][2]))
    <3>1. i = 0 \/ i \in 1..n
      BY <1>1
    <3> QED BY <1>5, <2>1, <3>1
  <2> QED BY <2>2, <2>3, ZenonT(30)
<1>7. Is(ram)
  BY <1>6, ZenonT(30)
<1>8. InitRam = ram[n]
  BY DEF InitRam
<1> HIDE DEF ram
<1>9. /\ ram[0] = EmptyRam
      /\ \A i \in 1..n : ram[i] = Inserted(ram[i - 1], InitFiles[i][1], File(InitFiles[i][2]))
  BY <1>1, <1>7
<1> DEFINE Etc(i) == (\E j \in 1..i : InitFiles[j][1][1] = "etc")
                       => <<"etc">> \in DOMAIN ram[i]
           S == {i \in 0..n : ram[i] \in Rams /\ Etc(i)}
<1>10. 0 \in S
  BY <1>1, <1>2, <1>9
<1>11. ASSUME NEW i \in 1..n, i - 1 \in S PROVE i \in S
  <2>a. ram[i - 1] \in Rams /\ Etc(i - 1)
    <3> HIDE DEF Etc
    <3> QED BY <1>11
  <2>1. i \in 0..n /\ ram[i - 1] \in Rams
    BY <1>1, <2>a
  <2>2. /\ ram[i] \in Rams /\ DOMAIN ram[i - 1] \subseteq DOMAIN ram[i]
        /\ InitFiles[i][1][1] = "etc" => <<"etc">> \in DOMAIN ram[i]
    BY <1>3, <1>9, <2>1, ZenonT(30)
  <2>3. ASSUME NEW j \in 1..i, InitFiles[j][1][1] = "etc"
        PROVE  <<"etc">> \in DOMAIN ram[i]
    <3>1. j = i \/ j \in 1..(i - 1)
      BY <1>1
    <3>2. CASE j = i
      BY <2>2, <2>3, <3>2
    <3>3. CASE j \in 1..(i - 1)
      BY <2>a, <2>2, <2>3, <3>3
    <3> QED BY <3>1, <3>2, <3>3
  <2> QED BY <2>1, <2>2, <2>3
<1>12. n \in S
  <2> HIDE DEF S, n
  <2>1. 0..n \subseteq S
    BY <1>1, <1>10, <1>11, UpTo, ZenonT(30)
  <2> QED BY <1>1, <2>1
<1>13. \E j \in 1..n : InitFiles[j][1][1] = "etc"
  BY InitFilesAssumption
<1>14. ram[n] \in Rams /\ Etc(n)
  <2> HIDE DEF Etc, n
  <2> QED BY <1>12
<1> QED BY <1>8, <1>13, <1>14, ZenonT(30)

-----------------------------------------------------------------------------
(* The file system from one stage of the module loader to the next.        *)

DevRoot == [fs |-> "devfs", name |-> "dev", path |-> DevDir, mount |-> {}]

FsEmpty   == [ram |-> EmptyRam, mounts |-> <<>>, devs |-> {}]
FsLoaded  == [ram |-> InitRam, mounts |-> <<>>, devs |-> {}]
FsMounted == [ram    |-> Inserted(InitRam, <<"dev">>, MountAt(0)),
              mounts |-> [k \in {0} |-> DevRoot],
              devs   |-> {}]
FsUp      == [FsMounted EXCEPT !.devs = {"tty.serial"}]

\* The walks of one and of two segments.
LEMMA Locate1 ==
  ASSUME NEW f, NEW path \in Seq(Name), Len(path) = 1
  PROVE  Locate(f, path) = LocateStep(f, path, WalkBegins, 1)
<1> DEFINE Is(g) == g = [i \in 0..Len(path) |->
                           IF i = 0 THEN WalkBegins ELSE LocateStep(f, path, g[i - 1], i)]
           one == LocateStep(f, path, WalkBegins, 1)
           h == [i \in 0..1 |-> IF i = 0 THEN WalkBegins ELSE one]
           walk == CHOOSE g : Is(g)
<1>1. Locate(f, path) = walk[1]
  BY DEF Locate
<1>2. Is(h)
  <2>1. \A i \in 0..1 : i = 0 \/ (i = 1 /\ h[i - 1] = WalkBegins)
    OBVIOUS
  <2> QED BY <2>1
<1>3. Is(walk)
  <2> HIDE DEF Is
  <2> QED BY <1>2, ZenonT(30)
<1> HIDE DEF walk
<1>4. walk[0] = WalkBegins /\ walk[1] = LocateStep(f, path, walk[0], 1)
  BY <1>3
<1> QED BY <1>1, <1>4

LEMMA Locate2 ==
  ASSUME NEW f, NEW path \in Seq(Name), Len(path) = 2
  PROVE  Locate(f, path) = LocateStep(f, path, LocateStep(f, path, WalkBegins, 1), 2)
<1> DEFINE Is(g) == g = [i \in 0..Len(path) |->
                           IF i = 0 THEN WalkBegins ELSE LocateStep(f, path, g[i - 1], i)]
           one == LocateStep(f, path, WalkBegins, 1)
           two == LocateStep(f, path, one, 2)
           h == [i \in 0..2 |-> IF i = 0 THEN WalkBegins ELSE IF i = 1 THEN one ELSE two]
           walk == CHOOSE g : Is(g)
<1>1. Locate(f, path) = walk[2]
  BY DEF Locate
<1>2. Is(h)
  <2>1. \A i \in 0..2 : \/ i = 0
                        \/ i = 1 /\ h[i - 1] = WalkBegins
                        \/ i = 2 /\ h[i - 1] = one
    OBVIOUS
  <2> QED BY <2>1
<1>3. Is(walk)
  <2> HIDE DEF Is
  <2> QED BY <1>2, ZenonT(30)
<1> HIDE DEF walk
<1>4. /\ walk[0] = WalkBegins
      /\ walk[1] = LocateStep(f, path, walk[0], 1)
      /\ walk[2] = LocateStep(f, path, walk[1], 2)
  BY <1>3
<1> QED BY <1>1, <1>4

LEMMA MountWalk1 ==
  ASSUME NEW f, NEW s \in Seq(Name), Len(s) = 2
  PROVE  MountWalk(f, s) = MountStep(f, Tail(s), WalkBegins, 1)
<1> DEFINE Is(g) == g = [i \in 0..(Len(s) - 1) |->
                           IF i = 0 THEN WalkBegins ELSE MountStep(f, Tail(s), g[i - 1], i)]
           one == MountStep(f, Tail(s), WalkBegins, 1)
           h == [i \in 0..1 |-> IF i = 0 THEN WalkBegins ELSE one]
           walk == CHOOSE g : Is(g)
<1>1. MountWalk(f, s) = walk[1]
  BY DEF MountWalk
<1>2. Is(h)
  <2>1. \A i \in 0..1 : i = 0 \/ (i = 1 /\ h[i - 1] = WalkBegins)
    OBVIOUS
  <2> QED BY <2>1
<1>3. Is(walk)
  <2> HIDE DEF Is
  <2> QED BY <1>2, ZenonT(30)
<1> HIDE DEF walk
<1>4. walk[0] = WalkBegins /\ walk[1] = MountStep(f, Tail(s), walk[0], 1)
  BY <1>3
<1> QED BY <1>1, <1>4

\* Short sequences.
LEMMA Pair ==
  ASSUME NEW S, NEW a \in S, NEW b \in S
  PROVE  /\ <<a, b>> \in Seq(S) /\ Len(<<a, b>>) = 2
         /\ Tail(<<a, b>>) = <<b>>
         /\ Append(<<a>>, b) = <<a, b>>
<1>1. <<a, b>> \in [1..2 -> S]
  OBVIOUS
<1>2. <<a>> \in Seq(S) /\ Len(<<a>>) = 1
  OBVIOUS
<1> DEFINE u == Append(<<a>>, b)
<1>3. u \in Seq(S) /\ Len(u) = 2 /\ u[1] = a /\ u[2] = b
  BY <1>2
<1>4. u = [i \in 1..2 |-> IF i = 1 THEN a ELSE b]
  <2> HIDE DEF u
  <2> QED BY <1>3
<1>5. <<a, b>> = [i \in 1..2 |-> IF i = 1 THEN a ELSE b]
  OBVIOUS
<1>6. Tail(<<a, b>>) = <<b>>
  OBVIOUS
<1>7. <<a, b>> \in Seq(S) /\ Len(<<a, b>>) = 2
  BY <1>1
<1> QED BY <1>4, <1>5, <1>6, <1>7, ZenonT(30)

LEMMA Triple ==
  ASSUME NEW S, NEW a \in S, NEW b \in S, NEW c \in S
  PROVE  /\ <<a, b, c>> \in Seq(S) /\ Len(<<a, b, c>>) = 3
         /\ Tail(<<a, b, c>>) = <<b, c>>
<1>1. <<a, b, c>> \in [1..3 -> S]
  OBVIOUS
<1>2. Tail(<<a, b, c>>) = <<b, c>>
  OBVIOUS
<1>3. <<a, b, c>> \in Seq(S) /\ Len(<<a, b, c>>) = 3
  BY <1>1
<1> QED BY <1>2, <1>3

\* The paths that the code itself uses.
LEMMA PathFacts ==
  /\ DevDir \in Seq(Name) /\ Len(DevDir) = 2 /\ DevDir[1] = Empty
  /\ Tail(DevDir) = <<"dev">> /\ DevDir # Slash
  /\ Append(<<Empty>>, "dev") = DevDir
  /\ Slash \in Seq(Name) /\ Len(Slash) = 2 /\ Slash[1] = Empty /\ Slash[2] = Empty
  /\ Tail(Slash) = <<Empty>> /\ Append(<<Empty>>, Empty) = Slash
  /\ Tty \in Seq(Name) /\ Len(Tty) = 3 /\ Tail(Tty) = <<"dev", "tty.serial">>
  /\ Tty[1] = Empty /\ Tty[3] = "tty.serial" /\ Tty # Slash
  /\ <<"dev", "tty.serial">> \in Seq(Name) /\ Len(<<"dev", "tty.serial">>) = 2
  /\ <<Empty>> \in Seq(Name) /\ Len(<<Empty>>) = 1 /\ <<Empty>>[1] = Empty
  /\ <<"dev">> # <<Empty>>
<1>1. /\ DevDir \in Seq(Name) /\ Len(DevDir) = 2
      /\ Tail(DevDir) = <<"dev">> /\ Append(<<Empty>>, "dev") = DevDir
  BY NameFacts, Pair, ZenonT(30) DEF DevDir
<1>2. /\ Slash \in Seq(Name) /\ Len(Slash) = 2
      /\ Tail(Slash) = <<Empty>> /\ Append(<<Empty>>, Empty) = Slash
  BY NameFacts, Pair, ZenonT(30) DEF Slash
<1>3. /\ Slash[1] = Empty /\ Slash[2] = Empty /\ DevDir[1] = Empty /\ DevDir[2] = "dev"
      /\ Tty[1] = Empty /\ Tty[2] = "dev" /\ Tty[3] = "tty.serial"
  BY DEF Slash, DevDir, Tty
<1>4. Tty \in Seq(Name) /\ Len(Tty) = 3 /\ Tail(Tty) = <<"dev", "tty.serial">>
  BY NameFacts, Triple, ZenonT(30) DEF Tty
<1>5. <<"dev", "tty.serial">> \in Seq(Name) /\ Len(<<"dev", "tty.serial">>) = 2
  BY NameFacts, Pair, ZenonT(30)
<1>6. <<Empty>> \in Seq(Name) /\ Len(<<Empty>>) = 1 /\ <<Empty>>[1] = Empty
  BY NameFacts
<1>7. DevDir # Slash /\ Tty # Slash
  BY <1>3, NameFacts, ZenonT(30)
<1>8. <<"dev">> # <<Empty>>
  <2>1. <<"dev">>[1] = "dev"
    OBVIOUS
  <2> QED BY <1>6, <2>1, NameFacts
<1> QED BY <1>1, <1>2, <1>3, <1>4, <1>5, <1>6, <1>7, <1>8, ZenonT(30)

\* What the tree holds at "/dev" and at "/".
LEMMA GetDev ==
  ASSUME NEW ram
  PROVE  /\ Get(ram, DevDir) = IF <<"dev">> \in DOMAIN ram THEN {ram[<<"dev">>]} ELSE {}
         /\ Get(ram, Slash) = IF <<>> \in DOMAIN ram THEN {ram[<<>>]} ELSE {}
<1>1. Below(DevDir) = <<"dev">>
  <2>1. <<"dev">> # <<Empty>>
    BY PathFacts
  <2>2. ~(Len(<<"dev">>) > 1)
    OBVIOUS
  <2> QED BY <2>1, <2>2, PathFacts, ZenonT(30) DEF Below, EndsWithSlash
<1>2. Below(Slash) = <<>>
  BY PathFacts DEF Below
<1> QED BY <1>1, <1>2, ZenonT(30) DEF Get

\* The walk of vfs_mount ends under the root, and nothing is there.
LEMMA MountWalkDev ==
  MountWalk(FsLoaded, DevDir) = [at |-> "found", node |-> RootNode, entry |-> "dev"]
<1> DEFINE s == DevDir
<1>1. Stat(FsLoaded, RootNode, "dev") = {}
  <2>1. RootNode.fs = "rootfs" /\ RootNode.path = <<Empty>>
    BY DEF RootNode
  <2>2. Append(RootNode.path, "dev") = s
    BY <2>1, PathFacts, ZenonT(30)
  <2>3. Get(InitRam, s) = {}
    BY InitRamFacts, GetDev DEF Rams
  <2> HIDE DEF s
  <2> QED BY <2>1, <2>2, <2>3, ZenonT(30) DEF Stat, RootStat, FsLoaded
<1>2. WalkBegins.at = "walk" /\ WalkBegins.node = RootNode
  BY DEF WalkBegins
<1>3. Tail(s) = <<"dev">> /\ <<"dev">>[1] = "dev" /\ Len(<<"dev">>) = 1
  BY PathFacts, ZenonT(30)
<1>4. MountStep(FsLoaded, <<"dev">>, WalkBegins, 1) = [WalkBegins EXCEPT !.at = "found", !.entry = "dev"]
  BY <1>1, <1>2, <1>3, ZenonT(30) DEF MountStep
<1>5. MountWalk(FsLoaded, s) = MountStep(FsLoaded, <<"dev">>, WalkBegins, 1)
  BY <1>3, PathFacts, MountWalk1, ZenonT(30)
<1> QED BY <1>4, <1>5, ZenonT(30) DEF WalkBegins

\* The mount of the device file system succeeds.
LEMMA DevMountable == Mountable(FsLoaded, DevDir)
<1>1. <<"dev">> \notin DOMAIN InitRam /\ <<>> \in DOMAIN InitRam /\ InitRam[<<>>] = Dir
  BY InitRamFacts DEF Rams
<1>2. 0 \in FreeKeys(FsLoaded)
  BY DEF FreeKeys, MountKeys, FsLoaded
<1>3. Insertable(InitRam, <<"dev">>)
  <2>1. \A i \in 0..(Len(<<"dev">>) - 1) : SubSeq(<<"dev">>, 1, i) = <<>>
    OBVIOUS
  <2> QED BY <1>1, <2>1, ZenonT(30) DEF Insertable
<1>4. MountWalk(FsLoaded, DevDir).at = "found"
  <2> DEFINE w == MountWalk(FsLoaded, DevDir)
  <2>1. w = [at |-> "found", node |-> RootNode, entry |-> "dev"]
    BY MountWalkDev, ZenonT(30)
  <2> HIDE DEF w
  <2>2. w.at = "found"
    BY <2>1
  <2> QED BY <2>2 DEF w
<1>5. FsLoaded.ram = InitRam
  BY DEF FsLoaded
<1> QED BY <1>2, <1>3, <1>4, <1>5, PathFacts, ZenonT(30) DEF Mountable

\* vfs_mount takes the first key, and /dev is a mount point.
LEMMA DevMounted == VfsMounted(FsLoaded, DevDir, "devfs") = FsMounted
<1> DEFINE s == DevDir
           k == CHOOSE k \in FreeKeys(FsLoaded) : \A j \in FreeKeys(FsLoaded) : k <= j
           w == MountWalk(FsLoaded, s)
           ram == RootMounted(InitRam, s, 0)
           root == [fs |-> "devfs", name |-> "dev", path |-> s, mount |-> {}]
<1>1. FreeKeys(FsLoaded) = 0..31
  BY DEF FreeKeys, MountKeys, FsLoaded
<1>2. k = 0
  BY <1>1
<1>3. w.entry = "dev" /\ w.node = RootNode /\ RootNode.path = <<Empty>>
  <2>1. w = [at |-> "found", node |-> RootNode, entry |-> "dev"]
    BY MountWalkDev
  <2> HIDE DEF w
  <2> QED BY <2>1, ZenonT(30) DEF RootNode
<1>4. Append(w.node.path, w.entry) = s
  BY <1>3, PathFacts
<1>5. VfsMounted(FsLoaded, s, "devfs")
        = [FsLoaded EXCEPT !.ram = RootMounted(@, Append(w.node.path, w.entry), k),
                           !.mounts = [j \in DOMAIN @ \cup {k} |->
                              IF j = k THEN [fs |-> "devfs", name |-> w.entry,
                                             path |-> Append(w.node.path, w.entry), mount |-> {}]
                              ELSE @[j]]]
  BY ZenonT(30) DEF VfsMounted
<1> HIDE DEF w, k
<1>6. VfsMounted(FsLoaded, s, "devfs")
        = [FsLoaded EXCEPT !.ram = RootMounted(@, s, 0),
                           !.mounts = [j \in DOMAIN @ \cup {0} |-> IF j = 0 THEN root ELSE @[j]]]
  <2> HIDE DEF s
  <2> QED BY <1>2, <1>3, <1>4, <1>5, ZenonT(30)
<1>7. ram = Inserted(InitRam, <<"dev">>, MountAt(0))
  BY PathFacts, ZenonT(30) DEF RootMounted
<1>8. root = DevRoot
  BY ZenonT(30) DEF DevRoot
<1> HIDE DEF ram, root
<1>9. [j \in DOMAIN FsLoaded.mounts \cup {0} |-> IF j = 0 THEN root ELSE FsLoaded.mounts[j]]
         = [j \in {0} |-> DevRoot]
  BY <1>8 DEF FsLoaded
<1>10. FsLoaded.ram = InitRam
  BY DEF FsLoaded
<1> QED BY <1>6, <1>7, <1>9, <1>10, ZenonT(30) DEF FsMounted, FsLoaded, ram

\* The entries of the tree, with the mount point of /dev.
Entries0 == Entry \cup {MountAt(0)}

\* The file system when the first process starts.
LEMMA UpFacts ==
  /\ FsUp.ram = Inserted(InitRam, <<"dev">>, MountAt(0))
  /\ FsUp.mounts = [k \in {0} |-> DevRoot]
  /\ FsUp.devs = {"tty.serial"}
  /\ \A p \in DOMAIN FsUp.ram : FsUp.ram[p] \in Entries0
  /\ <<"dev">> \in DOMAIN FsUp.ram /\ FsUp.ram[<<"dev">>] = MountAt(0)
  /\ <<>> \in DOMAIN FsUp.ram /\ FsUp.ram[<<>>] = Dir
<1>1. /\ FsUp.ram = Inserted(InitRam, <<"dev">>, MountAt(0))
      /\ FsUp.mounts = [k \in {0} |-> DevRoot]
      /\ FsUp.devs = {"tty.serial"}
  BY DEF FsUp, FsMounted
<1>2. /\ <<>> \in DOMAIN InitRam /\ InitRam[<<>>] = Dir
      /\ \A p \in DOMAIN InitRam : InitRam[p] \in Entry
  BY InitRamFacts DEF Rams
<1> DEFINE p == <<"dev">>
           dirs == {SubSeq(p, 1, i) : i \in 0..(Len(p) - 1)}
           P == DOMAIN InitRam \cup dirs \cup {p}
<1>3. FsUp.ram = [q \in P |-> IF q = p THEN MountAt(0)
                              ELSE IF q \in DOMAIN InitRam THEN InitRam[q] ELSE Dir]
  BY <1>1 DEF Inserted
<1>4. p # <<>>
  BY ZenonT(30)
<1> HIDE DEF p, dirs
<1>5. Dir \in Entry
  BY ZenonT(30) DEF Entry
<1>6. \A q \in DOMAIN FsUp.ram : FsUp.ram[q] \in Entries0
  BY <1>2, <1>3, <1>5 DEF Entries0
<1>7. p \in DOMAIN FsUp.ram /\ FsUp.ram[p] = MountAt(0)
  BY <1>3, ZenonT(30)
<1>8. <<>> \in DOMAIN FsUp.ram /\ FsUp.ram[<<>>] = Dir
  BY <1>2, <1>3, <1>4, ZenonT(30)
<1> QED BY <1>1, <1>6, <1>7, <1>8 DEF p

\* A key in the tree has its mount point.
LEMMA KeysMounted == \A e \in Entries0 : Keys(e) \subseteq {0}
  BY DEF Entries0, Entry, Keys, Dir, File, MountAt

\* What open finds has no mount key but that of /dev.
LEMMA OpenedMounts ==
  ASSUME NEW s, NEW x \in VfsOpen(FsUp, s)
  PROVE  x.mount \subseteq DOMAIN FsUp.mounts
<1> DEFINE w == Locate(FsUp, Trimmed(s))
<1>1. x \in {RootNode} \cup RootOpen(FsUp, w.node, w.entry) \cup DevOpen(FsUp, w.node, w.entry)
  BY DEF VfsOpen, OpenAt
<1> HIDE DEF w
<1>2. DOMAIN FsUp.mounts = {0}
  BY UpFacts
<1>3. CASE x = RootNode
  BY <1>3, ZenonT(30) DEF RootNode
<1>4. CASE x \in RootOpen(FsUp, w.node, w.entry)
  <2> DEFINE path == Append(w.node.path, w.entry)
  <2>1. PICK e \in Get(FsUp.ram, path) :
          x = [fs |-> "rootfs", name |-> w.entry, path |-> path, mount |-> Keys(e)]
    BY <1>4 DEF RootOpen
  <2>2. e \in Entries0
    BY UpFacts, <2>1, ZenonT(30) DEF Get
  <2> HIDE DEF path
  <2>3. x.mount = Keys(e)
    BY <2>1
  <2> QED BY <1>2, <2>2, <2>3, KeysMounted, ZenonT(30)
<1>5. CASE x \in DevOpen(FsUp, w.node, w.entry)
  <2>1. x.mount = {}
    BY <1>5 DEF DevOpen
  <2> QED BY <2>1
<1> QED BY <1>1, <1>3, <1>4, <1>5, ZenonT(30)

\* "/" is a directory, for the first process to start in.
LEMMA SlashExists == DirOrMntExists(FsUp, Slash)
<1>1. Trimmed(Slash) = <<Empty>>
  <2>1. EndsWithSlash(Slash)
    BY PathFacts DEF EndsWithSlash
  <2>2. Front(Slash) = <<Empty>>
    <3>1. SubSeq(Slash, 1, 1) = [i \in 1..1 |-> Slash[i]]
      BY PathFacts
    <3>2. <<Empty>> = [i \in 1..1 |-> Slash[i]]
      BY PathFacts
    <3>3. Front(Slash) = SubSeq(Slash, 1, 1)
      BY PathFacts DEF Front
    <3> QED BY <3>1, <3>2, <3>3, ZenonT(30)
  <2>3. ~(Len(<<Empty>>) > 1)
    OBVIOUS
  <2> QED BY <2>1, <2>2, <2>3 DEF Trimmed, StartsWithSlash
<1>2. Stat(FsUp, RootNode, Empty) = {[mount |-> {}, is_dir |-> TRUE]}
  <2>1. RootNode.fs = "rootfs" /\ RootNode.path = <<Empty>>
    BY DEF RootNode
  <2>2. Append(RootNode.path, Empty) = Slash
    BY <2>1, PathFacts, ZenonT(30)
  <2>3. Get(FsUp.ram, Slash) = {Dir}
    BY GetDev, UpFacts
  <2>4. Keys(Dir) = {} /\ Dir.kind = "dir"
    BY ZenonT(30) DEF Keys, Dir
  <2> QED BY <2>1, <2>2, <2>3, <2>4, ZenonT(30) DEF Stat, RootStat
<1>3. <<Empty>> \in Seq(Name) /\ Len(<<Empty>>) = 1 /\ <<Empty>>[1] = Empty
  BY PathFacts, ZenonT(30)
<1> DEFINE path == <<Empty>>
           w == LocateStep(FsUp, path, WalkBegins, 1)
<1>4. WalkBegins.at = "walk" /\ WalkBegins.node = RootNode
  BY DEF WalkBegins
<1>5. w = [WalkBegins EXCEPT !.at = "found", !.entry = Empty]
  <2>1. path[1] = Empty /\ Len(path) = 1
    BY <1>3, ZenonT(30)
  <2> HIDE DEF path
  <2>2. Stat(FsUp, WalkBegins.node, path[1]) # {}
    BY <1>2, <1>4, <2>1, ZenonT(30)
  <2> QED BY <1>4, <2>1, <2>2 DEF LocateStep
<1>6. w.at = "found" /\ w.node = RootNode /\ w.entry = Empty
  BY <1>5, ZenonT(30) DEF WalkBegins
<1>7. Locate(FsUp, path) = w
  BY <1>3, Locate1, ZenonT(30)
<1> HIDE DEF w
<1>8. \E x \in Stat(FsUp, w.node, w.entry) : x.is_dir \/ x.mount # {}
  <2>1. [mount |-> {}, is_dir |-> TRUE] \in Stat(FsUp, w.node, w.entry)
    BY <1>2, <1>6
  <2>2. [mount |-> {}, is_dir |-> TRUE].is_dir
    BY ZenonT(30)
  <2> QED BY <2>1, <2>2, ZenonT(30)
<1> QED BY <1>1, <1>6, <1>7, <1>8, ZenonT(30) DEF DirOrMntExists

\* /dev/tty.serial opens: across the mount point to the device.
LEMMA TtyOpens ==
  \E x : VfsOpen(FsUp, Tty) = {x} /\ x.fs = "devfs"
<1> DEFINE path == <<"dev", "tty.serial">>
           one == LocateStep(FsUp, path, WalkBegins, 1)
           two == LocateStep(FsUp, path, one, 2)
           mnt == [mount |-> {0}, is_dir |-> FALSE]
           dev == [mount |-> {}, is_dir |-> FALSE]
<1>1. Trimmed(Tty) = path /\ StartsWithSlash(Tty)
  BY PathFacts, NameFacts DEF Trimmed, EndsWithSlash, StartsWithSlash
<1>2. /\ path \in Seq(Name) /\ Len(path) = 2
      /\ path[1] = "dev" /\ path[2] = "tty.serial"
  BY PathFacts, ZenonT(30)
<1>3. WalkBegins.at = "walk" /\ WalkBegins.node = RootNode
  BY DEF WalkBegins
<1>4. Stat(FsUp, RootNode, "dev") = {mnt}
  <2>1. RootNode.fs = "rootfs" /\ RootNode.path = <<Empty>>
    BY DEF RootNode
  <2>2. Append(RootNode.path, "dev") = DevDir
    BY <2>1, PathFacts
  <2>3. Get(FsUp.ram, DevDir) = {MountAt(0)}
    BY GetDev, UpFacts, ZenonT(30)
  <2>4. Keys(MountAt(0)) = {0} /\ MountAt(0).kind # "dir"
    BY DEF Keys, MountAt
  <2> QED BY <2>1, <2>2, <2>3, <2>4, ZenonT(30) DEF Stat, RootStat
<1>5. mnt.mount = {0} /\ ~mnt.is_dir /\ dev.mount = {} /\ ~dev.is_dir
  OBVIOUS
<1> HIDE DEF path, mnt, dev
<1>6. one = [WalkBegins EXCEPT !.node = DevRoot]
  <2>1. Stat(FsUp, WalkBegins.node, path[1]) = {mnt}
    BY <1>2, <1>3, <1>4
  <2>2. (CHOOSE x \in {mnt} : TRUE) = mnt
    BY ZenonT(30)
  <2>3. (CHOOSE k \in {0} : TRUE) = 0
    OBVIOUS
  <2>4. Followed(FsUp, RootNode, "dev", mnt) = DevRoot
    BY <1>5, <2>3, UpFacts DEF Followed
  <2>5. {0} \subseteq DOMAIN FsUp.mounts
    BY UpFacts, ZenonT(30)
  <2>6. (CHOOSE x \in Stat(FsUp, WalkBegins.node, path[1]) : TRUE) = mnt
    BY <2>1, <2>2, ZenonT(30)
  <2>7. Followed(FsUp, WalkBegins.node, path[1], mnt) = DevRoot
    BY <1>2, <1>3, <2>4
  <2>8. path[1] # Empty /\ path[1 + 1] # Empty /\ 1 # Len(path)
    BY <1>2, NameFacts
  <2>9. Stat(FsUp, WalkBegins.node, path[1]) # {}
    BY <2>1, ZenonT(30)
  <2> QED BY <1>3, <1>5, <2>5, <2>6, <2>7, <2>8, <2>9, ZenonT(30) DEF LocateStep
<1>7. one.at = "walk" /\ one.node = DevRoot
  BY <1>6 DEF WalkBegins
<1> HIDE DEF one
<1>8. Stat(FsUp, DevRoot, "tty.serial") = {dev}
  <2>1. DevRoot.fs = "devfs" /\ DevRoot.path = DevDir
    BY ZenonT(30) DEF DevRoot
  <2> QED BY <2>1, UpFacts, ZenonT(30) DEF Stat, DevStat, dev
<1>9. two = [one EXCEPT !.at = "found", !.entry = "tty.serial"]
  <2>1. Stat(FsUp, one.node, path[2]) # {}
    BY <1>2, <1>7, <1>8, ZenonT(30)
  <2> QED BY <1>2, <1>7, <2>1 DEF LocateStep
<1>10. two.at = "found" /\ two.node = DevRoot /\ two.entry = "tty.serial"
  BY <1>6, <1>9, ZenonT(30) DEF WalkBegins
<1> HIDE DEF two
<1>11. Locate(FsUp, path) = two
  BY <1>2, Locate2 DEF one, two
<1> DEFINE x == [fs |-> "devfs", name |-> "tty.serial",
                 path |-> Append(DevRoot.path, "tty.serial"), mount |-> {}]
<1>12. OpenAt(FsUp, DevRoot, "tty.serial") = {x}
  BY UpFacts, ZenonT(30) DEF OpenAt, DevOpen, DevRoot
<1>13. x.fs = "devfs"
  BY ZenonT(30)
<1> HIDE DEF x
<1>14. VfsOpen(FsUp, Tty) = {x}
  BY <1>1, <1>10, <1>11, <1>12, PathFacts, ZenonT(30) DEF VfsOpen
<1> QED BY <1>13, <1>14, ZenonT(30)

\* /etc is there when the root file system is initialised.
LEMMA EtcThere == Get(InitRam, <<Empty, "etc">>) # {}
<1>1. Tail(<<Empty, "etc">>) = <<"etc">>
  OBVIOUS
<1>2. <<"etc">> # <<Empty>>
  <2>1. <<"etc">>[1] = "etc" /\ <<Empty>>[1] = Empty
    BY ZenonT(30)
  <2> QED BY <2>1, NameFacts
<1>3. ~(Len(<<"etc">>) > 1)
  OBVIOUS
<1>4. Below(<<Empty, "etc">>) = <<"etc">>
  BY <1>1, <1>2, <1>3 DEF Below, EndsWithSlash
<1> QED BY <1>4, InitRamFacts, ZenonT(30) DEF Get

-----------------------------------------------------------------------------
(* Canonical paths.                                                        *)

\* The segments of a path are a path.
LEMMA SegmentsSeq ==
  ASSUME NEW s \in Seq(Name)
  PROVE  Segments(s) \in Seq(Name)
<1> DEFINE n == Len(s)
           D == Seq(Name)
           F == [i \in 1..n |-> [u \in D |-> IF s[i] = Empty THEN u ELSE Append(u, s[i])]]
           Is(g) == g = [i \in 0..n |->
                           IF i = 0 THEN <<>>
                           ELSE IF s[i] = Empty THEN g[i - 1] ELSE Append(g[i - 1], s[i])]
           kept == CHOOSE g : Is(g)
<1>1. Segments(s) = kept[n]
  BY DEF Segments
<1>2. n \in Nat /\ <<>> \in D /\ F \in Steps(n, D)
  BY DEF Steps
<1>3. PICK g \in Tables(n, D) : Iterates(g, n, <<>>, F)
  <2> HIDE DEF F, n, D
  <2> QED BY <1>2, Recursion, ZenonT(30)
<1>4. g \in [0..n -> D] /\ g[0] = <<>> /\ \A i \in 1..n : g[i] = F[i][g[i - 1]]
  BY <1>3, ZenonT(30) DEF Tables, Iterates
<1>5. ASSUME NEW i \in 1..n
      PROVE  g[i] = IF s[i] = Empty THEN g[i - 1] ELSE Append(g[i - 1], s[i])
  <2>1. i - 1 \in 0..n
    BY <1>2
  <2>2. g[i - 1] \in D
    BY <1>4, <2>1, ZenonT(30)
  <2> QED BY <1>4, <2>2, ZenonT(30)
<1>6. Is(g)
  <2> HIDE DEF n, D, F
  <2>1. \A i \in 0..n : i = 0 \/ i \in 1..n
    BY <1>2
  <2>2. g = [i \in 0..n |-> g[i]]
    BY <1>4
  <2> QED BY <1>4, <1>5, <2>1, <2>2, ZenonT(30)
<1>7. Is(kept)
  <2> HIDE DEF Is
  <2> QED BY <1>6
<1> HIDE DEF kept
<1> DEFINE S == {i \in 0..n : kept[i] \in Seq(Name)}
<1>8. 0 \in S
  BY <1>2, <1>7
<1>9. ASSUME NEW i \in 1..n, i - 1 \in S PROVE i \in S
  <2>1. i \in 0..n /\ i # 0 /\ s[i] \in Name /\ kept[i - 1] \in Seq(Name)
    BY <1>2, <1>9
  <2>2. kept[i] = IF s[i] = Empty THEN kept[i - 1] ELSE Append(kept[i - 1], s[i])
    BY <1>7, <2>1, ZenonT(30)
  <2>3. kept[i] \in Seq(Name)
    BY <2>1, <2>2
  <2> QED BY <2>1, <2>3, ZenonT(30)
<1>10. n \in S
  <2> HIDE DEF S, n
  <2>1. 0..n \subseteq S
    BY <1>2, <1>8, <1>9, UpTo, ZenonT(30)
  <2> QED BY <1>2, <2>1
<1> QED BY <1>1, <1>10

\* One segment of canonicalize.
LEMMA PushSeq ==
  ASSUME NEW b \in SUBSET Seq(Name), NEW x \in Name
  PROVE  Push(b, x) \in SUBSET Seq(Name)
<1>1. ASSUME NEW u \in b \ {<<>>} PROVE Front(u) \in Seq(Name)
  <2>1. u \in Seq(Name) /\ Len(u) \in Nat
    OBVIOUS
  <2> QED BY <2>1 DEF Front
<1>2. ASSUME NEW u \in b PROVE Append(u, x) \in Seq(Name)
  OBVIOUS
<1> QED BY <1>1, <1>2, ZenonT(30) DEF Push

\* All segments of canonicalize.
LEMMA PushAllSeq ==
  ASSUME NEW b \in SUBSET Seq(Name), NEW s \in Seq(Name)
  PROVE  PushAll(b, s) \in SUBSET Seq(Name)
<1> DEFINE n == Len(s)
           D == SUBSET Seq(Name)
           F == [i \in 1..n |-> [u \in D |-> Push(u, s[i])]]
           Is(g) == g = [i \in 0..n |-> IF i = 0 THEN b ELSE Push(g[i - 1], s[i])]
           bufs == CHOOSE g : Is(g)
<1>1. PushAll(b, s) = bufs[n]
  BY ZenonT(30) DEF PushAll
<1>2. n \in Nat /\ b \in D /\ F \in Steps(n, D)
  BY PushSeq DEF Steps
<1>3. PICK g \in Tables(n, D) : Iterates(g, n, b, F)
  <2> HIDE DEF F, n, D
  <2> QED BY <1>2, Recursion, ZenonT(30)
<1>4. g \in [0..n -> D] /\ g[0] = b /\ \A i \in 1..n : g[i] = F[i][g[i - 1]]
  BY <1>3, ZenonT(30) DEF Tables, Iterates
<1>5. ASSUME NEW i \in 1..n
      PROVE  g[i] = Push(g[i - 1], s[i])
  <2>1. i - 1 \in 0..n
    BY <1>2
  <2>2. g[i - 1] \in D
    BY <1>4, <2>1, ZenonT(30)
  <2> QED BY <1>4, <2>2, ZenonT(30)
<1>6. Is(g)
  <2> HIDE DEF n, D, F
  <2>1. \A i \in 0..n : i = 0 \/ i \in 1..n
    BY <1>2
  <2>2. g = [i \in 0..n |-> g[i]]
    BY <1>4, ZenonT(30)
  <2> QED BY <1>4, <1>5, <2>1, <2>2, ZenonT(30)
<1>7. Is(bufs)
  <2> HIDE DEF Is
  <2> QED BY <1>6, ZenonT(30)
<1> HIDE DEF bufs
<1> DEFINE S == {i \in 0..n : bufs[i] \in D}
<1>8. 0 \in S
  BY <1>2, <1>7
<1>9. ASSUME NEW i \in 1..n, i - 1 \in S PROVE i \in S
  <2>1. i \in 0..n /\ i # 0 /\ s[i] \in Name /\ bufs[i - 1] \in D
    BY <1>2, <1>9
  <2>2. bufs[i] = Push(bufs[i - 1], s[i])
    BY <1>7, <2>1
  <2>3. bufs[i] \in D
    BY <2>1, <2>2, PushSeq, ZenonT(30)
  <2> QED BY <2>1, <2>3, ZenonT(30)
<1>10. n \in S
  <2> HIDE DEF S, n
  <2>1. 0..n \subseteq S
    BY <1>2, <1>8, <1>9, UpTo, ZenonT(30)
  <2> QED BY <1>2, <2>1
<1> QED BY <1>1, <1>10

\* What canonicalize returns is an absolute path.
LEMMA CanonicalAbsolute ==
  ASSUME NEW cwd \in Seq(Name), NEW s \in Seq(Name), NEW p \in Canonicalize(cwd, s)
  PROVE  p \in Seq(Name) /\ StartsWithSlash(p)
<1>1. CASE StartsWithSlash(s)
  BY <1>1, ZenonT(30) DEF Canonicalize
<1>2. CASE ~StartsWithSlash(s)
  <2> DEFINE B == PushAll({Segments(cwd)}, Segments(s))
  <2>1. B \in SUBSET Seq(Name)
    BY SegmentsSeq, PushAllSeq, ZenonT(30)
  <2>2. PICK b \in B : p = <<Empty>> \o (IF b = <<>> THEN <<Empty>> ELSE b)
    BY <1>2, ZenonT(30) DEF Canonicalize
  <2> HIDE DEF B
  <2> DEFINE c == IF b = <<>> THEN <<Empty>> ELSE b
  <2>3. c \in Seq(Name) /\ Len(c) >= 1
    BY <2>1, <2>2, PathFacts
  <2> HIDE DEF c
  <2>4. p = <<Empty>> \o c
    BY <2>2, ZenonT(30) DEF c
  <2> QED BY <2>3, <2>4, PathFacts DEF StartsWithSlash
<1> QED BY <1>1, <1>2, ZenonT(30)

-----------------------------------------------------------------------------
(* The working directory, and the causes of a panic.                       *)

\* The causes that only the kernel could bring about.
Causes == {"etc", "mount", "stdio", "cwd"}

CwdOK(d) ==
  /\ d.cwd \in Seq(Name)
  /\ StartsWithSlash(d.cwd)
  /\ DirOrMntExists(FsUp, d.cwd)

\* What a request leaves.
ResultOK(r) == CwdOK(r.d) /\ r.panic \notin Causes

PathInv ==
  /\ stage \in {"rootfs", "devfs", "pl011", "spawn", "up"}
  /\ stage = "rootfs" => fs = FsEmpty
  /\ stage = "devfs" => fs = FsLoaded
  /\ stage = "pl011" => fs = FsMounted
  /\ stage \in {"spawn", "up"} => fs = FsUp
  /\ panic \notin Causes
  /\ \A p \in DOMAIN data : CwdOK(data[p])

\* The paths of programs are sequences of names.
LEMMA PathsAreSeqs == \A s \in Paths : s \in Seq(Name)
  BY PathsAssumption, NameFacts, ZenonT(30)

\* Only chdir changes the working directory.
LEMMA CwdKept ==
  ASSUME NEW d, TableShape(d), NEW x, NEW v
  PROVE  Opened(d, x).cwd = d.cwd /\ Closed(d, x).cwd = d.cwd /\ Advanced(d, x, v).cwd = d.cwd
<1>1. PICK N, C : d \in [nodes : [Slots -> N], cwd : C, files : Nat]
  BY DEF TableShape
<1>2. Opened(d, x).cwd = d.cwd
  BY DEF Opened
<1>3. Closed(d, x).cwd = d.cwd
  BY <1>1 DEF Closed
<1>4. Advanced(d, x, v).cwd = d.cwd
  BY <1>1, ZenonT(30) DEF Advanced
<1> QED BY <1>2, <1>3, <1>4

\* Open.
LEMMA OpenResult ==
  ASSUME fs = FsUp, NEW d, TableShape(d), CwdOK(d), NEW s \in Paths
  PROVE  ResultOK(OpenCall(d, s))
<1>1. ASSUME NEW w, w \notin Causes, NEW r PROVE ResultOK(Result(d, r, w))
  BY <1>1 DEF ResultOK, Result
<1>2. ASSUME NEW node, NEW r PROVE ResultOK(Result(Opened(d, node), r, "no"))
  <2>1. CwdOK(Opened(d, node))
    BY CwdKept DEF CwdOK
  <2> QED BY <2>1, ZenonT(30) DEF ResultOK, Result, Causes
<1>3. "no" \notin Causes /\ "index" \notin Causes /\ "fs.rs:16" \notin Causes
  BY DEF Causes
<1>4. ~CwdPanics(d, s)
  BY ZenonT(30) DEF CwdPanics, CwdOK
<1>6. ASSUME NEW p, NEW x \in VfsOpen(fs, p) PROVE ResultOK(OpenNode(d, x))
  <2>1. x.mount \subseteq DOMAIN fs.mounts
    BY <1>6, OpenedMounts
  <2> QED BY <1>1, <1>2, <1>3, <2>1, ZenonT(30) DEF OpenNode
<1>7. ASSUME NEW p PROVE ResultOK(OpenPath(d, p))
  <2>1. CASE VfsOpen(fs, p) # {}
    <3>1. The(VfsOpen(fs, p)) \in VfsOpen(fs, p)
      BY <2>1 DEF The
    <3>2. ResultOK(OpenNode(d, The(VfsOpen(fs, p))))
      BY <1>6, <3>1, ZenonT(30)
    <3> QED BY <1>1, <1>3, <3>2, ZenonT(30) DEF OpenPath
  <2>2. CASE VfsOpen(fs, p) = {}
    BY <1>1, <1>3, <2>2, ZenonT(30) DEF OpenPath
  <2> QED BY <2>1, <2>2, ZenonT(30)
<1> QED BY <1>1, <1>3, <1>4, <1>7, ZenonT(30) DEF OpenCall

\* SetCwd: the directory is looked up before it is stored.
LEMMA SetCwdResult ==
  ASSUME fs = FsUp, NEW d, TableShape(d), CwdOK(d), NEW s \in Paths
  PROVE  ResultOK(SetCwdCall(d, s))
<1>1. ASSUME NEW w, w \notin Causes, NEW r PROVE ResultOK(Result(d, r, w))
  BY <1>1 DEF ResultOK, Result
<1>2. "no" \notin Causes /\ "fs.rs:16" \notin Causes
  BY ZenonT(30) DEF Causes
<1>3. ~CwdPanics(d, s)
  BY DEF CwdPanics, CwdOK
<1>4. ASSUME NEW p \in Canonicalize(d.cwd, s) PROVE ResultOK(SetCwdTo(d, p))
  <2>1. p \in Seq(Name) /\ StartsWithSlash(p)
    BY CanonicalAbsolute, PathsAreSeqs DEF CwdOK
  <2>2. CASE ~WalkAsserts(fs, p) /\ DirOrMntExists(fs, p)
    <3> DEFINE e == [d EXCEPT !.cwd = p]
    <3>1. e.cwd = p
      <4>1. PICK N, C : d \in [nodes : [Slots -> N], cwd : C, files : Nat]
        BY DEF TableShape
      <4> QED BY <4>1
    <3>2. SetCwdTo(d, p) = Result(e, 0, "no")
      BY <2>2, ZenonT(30) DEF SetCwdTo
    <3> HIDE DEF e
    <3>3. CwdOK(e)
      BY <2>1, <2>2, <3>1, ZenonT(30) DEF CwdOK
    <3> QED BY <1>2, <3>2, <3>3 DEF ResultOK, Result
  <2>3. CASE ~(~WalkAsserts(fs, p) /\ DirOrMntExists(fs, p))
    BY <1>1, <1>2, <2>3 DEF SetCwdTo
  <2> QED BY <2>2, <2>3, ZenonT(30)
<1>5. CASE Canonicalize(d.cwd, s) = {}
  BY <1>1, <1>2, <1>3, <1>5, ZenonT(30) DEF SetCwdCall
<1>6. CASE Canonicalize(d.cwd, s) # {}
  <2>1. The(Canonicalize(d.cwd, s)) \in Canonicalize(d.cwd, s)
    BY <1>6 DEF The
  <2> QED BY <1>3, <1>4, <1>6, <2>1, ZenonT(30) DEF SetCwdCall
<1> QED BY <1>5, <1>6

\* The requests on a descriptor.
LEMMA DescriptorResults ==
  ASSUME NEW d, TableShape(d), CwdOK(d), NEW fd, NEW n
  PROVE  /\ ResultOK(CloseCall(d, fd)) /\ ResultOK(ReadCall(d, fd, n))
         /\ ResultOK(WriteCall(d, fd, n)) /\ ResultOK(ReadDirCall(d, fd, n))
<1> DEFINE Good(w) == w \in {"no", "index", "ramfs.rs:150", "unimplemented"}
<1>1. ASSUME NEW e, e.cwd = d.cwd, NEW w, Good(w), NEW r PROVE ResultOK(Result(e, r, w))
  BY <1>1, ZenonT(30) DEF ResultOK, Result, CwdOK, Causes
<1>2. Good("no") /\ Good("index") /\ Good("ramfs.rs:150") /\ Good("unimplemented")
  OBVIOUS
<1> HIDE DEF Good
<1>3. ResultOK(CloseCall(d, fd))
  BY <1>1, <1>2, CwdKept, ZenonT(30) DEF CloseCall
<1>4. ResultOK(ReadCall(d, fd, n))
  BY <1>1, <1>2, CwdKept DEF ReadCall
<1>5. ResultOK(WriteCall(d, fd, n))
  BY <1>1, <1>2, CwdKept, ZenonT(30) DEF WriteCall
<1>6. ResultOK(ReadDirCall(d, fd, n))
  BY <1>1, <1>2 DEF ReadDirCall
<1> QED BY <1>3, <1>4, <1>5, <1>6, ZenonT(30)

\* Exec, behind its open.
LEMMA ExecResult ==
  ASSUME NEW o, TableShape(o.d), ResultOK(o)
  PROVE  ResultOK(ExecOpened(o))
<1>1. "no" \notin Causes /\ "ramfs.rs:150" \notin Causes
  BY ZenonT(30) DEF Causes
<1>2. ASSUME NEW e, e.cwd = o.d.cwd, NEW w, w \notin Causes, NEW r PROVE ResultOK(Result(e, r, w))
  BY <1>2, ZenonT(30) DEF ResultOK, Result, CwdOK
<1>3. ASSUME NEW node PROVE ResultOK(ExecRead(o.d, o.ret, node))
  BY <1>1, <1>2, CwdKept, ZenonT(30) DEF ExecRead
<1> QED BY <1>3, ZenonT(30) DEF ExecOpened

\* The module loader has not begun.
LEMMA InitPath == Init => PathInv
  BY DEF Init, PathInv, FsEmpty, Causes

\* The module loader brings the file system up, and nothing fails on the way.
LEMMA BootPath ==
  ASSUME FilesInv, PathInv, RootInit \/ DevInit \/ RegisterDev \/ SpawnInit
  PROVE  PathInv'
<1>1. DOMAIN data = {}
  BY ZenonT(30) DEF FilesInv, RootInit, DevInit, RegisterDev, SpawnInit, Booting
<1>2. "no" \notin Causes
  BY ZenonT(30) DEF Causes
<1>3. CASE RootInit
  <2>1. stage = "rootfs" /\ stage' = "devfs" /\ data' = data
    BY <1>3, ZenonT(30) DEF RootInit, Booting
  <2>2. fs' = FsLoaded
    <3>1. fs = FsEmpty
      BY <2>1 DEF PathInv
    <3>2. fs' = [fs EXCEPT !.ram = InitRam]
      BY <1>3, ZenonT(30) DEF RootInit
    <3>3. [FsEmpty EXCEPT !.ram = InitRam] = FsLoaded
      BY DEF FsEmpty, FsLoaded
    <3> QED BY <3>1, <3>2, <3>3, ZenonT(30)
  <2>3. panic' = "no"
    BY <1>3, EtcThere DEF RootInit
  <2> QED BY <1>1, <1>2, <2>1, <2>2, <2>3 DEF PathInv
<1>4. CASE DevInit
  <2>1. stage = "devfs" /\ stage' = "pl011" /\ data' = data /\ panic = "no"
    BY <1>4, ZenonT(30) DEF DevInit, Booting
  <2>2. fs = FsLoaded
    BY <2>1 DEF PathInv
  <2>3. fs' = FsMounted /\ panic' = panic
    BY <1>4, <2>2, DevMountable, DevMounted, ZenonT(30) DEF DevInit
  <2> QED BY <1>1, <1>2, <2>1, <2>3, ZenonT(30) DEF PathInv
<1>5. CASE RegisterDev
  <2>1. stage = "pl011" /\ stage' = "spawn" /\ data' = data /\ panic' = panic
    BY <1>5 DEF RegisterDev, Booting
  <2>2. fs = FsMounted
    BY <2>1, ZenonT(30) DEF PathInv
  <2>3. fs' = FsUp
    BY <1>5, <2>2, ZenonT(30) DEF RegisterDev, FsUp, FsMounted
  <2> QED BY <1>1, <2>1, <2>3, ZenonT(30) DEF PathInv
<1>6. CASE SpawnInit
  <2>1. stage = "spawn" /\ stage' = "up" /\ fs' = fs /\ panic = "no"
    BY <1>6, ZenonT(30) DEF SpawnInit, Booting
  <2>2. fs = FsUp
    BY <2>1, ZenonT(30) DEF PathInv
  <2>3. VfsOpen(fs, Tty) # {}
    BY <2>2, TtyOpens
  <2>4. data' = WithTable(1, Slash) /\ panic' = panic
    BY <1>6, <2>3, ZenonT(30) DEF SpawnInit
  <2>5. DOMAIN data' = {1} /\ data'[1] = NewTable(Slash, TtyNode)
    BY <1>1, <2>4, ZenonT(30) DEF WithTable
  <2>6. data'[1].cwd = Slash
    BY <2>5 DEF NewTable
  <2>7. CwdOK(data'[1])
    BY <2>6, SlashExists, PathFacts DEF CwdOK, StartsWithSlash
  <2> QED BY <1>2, <2>1, <2>2, <2>4, <2>5, <2>7, ZenonT(30) DEF PathInv
<1> QED BY <1>3, <1>4, <1>5, <1>6

\* A request that changes only its caller's table.
LEMMA RequestPath ==
  ASSUME PathInv, NEW q \in DOMAIN data, NEW r, ResultOK(r),
         data' = [data EXCEPT ![q] = r.d], panic' = r.panic, UNCHANGED <<stage, fs>>
  PROVE  PathInv'
<1>1. DOMAIN data' = DOMAIN data /\ \A p \in DOMAIN data : data'[p] = IF p = q THEN r.d ELSE data[p]
  OBVIOUS
<1>2. \A p \in DOMAIN data' : CwdOK(data'[p])
  BY <1>1, ZenonT(30) DEF PathInv, ResultOK
<1> QED BY <1>2, ZenonT(30) DEF PathInv, ResultOK

\* Exec: the new process inherits the directory and gets its console.
LEMMA ExecPath ==
  ASSUME FilesInv, PathInv, NEW t \in Task, NEW s \in Paths, Exec(t, s)
  PROVE  PathInv'
<1> DEFINE q == ProcOf[t]
           d == data[q]
           o == OpenCall(d, s)
           r == ExecOpened(o)
<1>1. PICK p \in Proc \ DOMAIN data : ExecReturns(t, p, o, r)
  BY ZenonT(30) DEF Exec, Table
<1>2. q \in DOMAIN data /\ UNCHANGED <<stage, fs>>
  BY DEF Exec, Runs, Static
<1>3. stage = "up" /\ fs = FsUp
  BY <1>2, ZenonT(30) DEF FilesInv, PathInv
<1>4. TableInv(d, TtyNode, lifo[q]) /\ CwdOK(d)
  BY <1>2, ZenonT(30) DEF FilesInv, PathInv
<1>5. ResultOK(o) /\ TableShape(o.d)
  BY <1>3, <1>4, OpenResult, OpenCallInv, ZenonT(30) DEF TableInv
<1>6. ResultOK(r)
  BY <1>5, ExecResult
<1>7. VfsOpen(fs, Tty) # {}
  BY <1>3, TtyOpens, ZenonT(30)
<1> HIDE DEF r, o
<1>8. panic' = r.panic
  BY <1>1, <1>7, ZenonT(30) DEF ExecReturns
<1>9. CASE data' = [data EXCEPT ![q] = r.d]
  BY <1>2, <1>6, <1>8, <1>9, RequestPath, ZenonT(30)
<1>10. CASE data' = [WithTable(p, r.d.cwd) EXCEPT ![q] = r.d]
  <2>1. /\ DOMAIN data' = DOMAIN data \cup {p}
        /\ data'[q] = r.d
        /\ data'[p] = NewTable(r.d.cwd, TtyNode)
        /\ \A x \in DOMAIN data \ {q} : data'[x] = data[x]
    BY <1>1, <1>2, <1>10, ZenonT(30) DEF WithTable
  <2>2. data'[p].cwd = r.d.cwd
    BY <2>1 DEF NewTable
  <2>3. CwdOK(data'[p])
    BY <1>6, <2>2, ZenonT(30) DEF CwdOK, ResultOK
  <2>4. \A x \in DOMAIN data' : CwdOK(data'[x])
    BY <1>6, <2>1, <2>3, ZenonT(30) DEF PathInv, ResultOK
  <2> QED BY <1>2, <1>6, <1>8, <2>4, ZenonT(30) DEF PathInv, ResultOK
<1> QED BY <1>1, <1>9, <1>10, ZenonT(30) DEF ExecReturns

\* Every step keeps PathInv.
LEMMA NextPath ==
  ASSUME FilesInv, PathInv, [Next]_vars
  PROVE  PathInv'
<1>1. CASE UNCHANGED vars
  BY <1>1, ZenonT(30) DEF vars, PathInv
<1>2. CASE RootInit \/ DevInit \/ RegisterDev \/ SpawnInit
  BY <1>2, BootPath, ZenonT(30)
<1>3. ASSUME NEW t \in Task, Runs(t)
      PROVE  ProcOf[t] \in DOMAIN data /\ fs = FsUp /\ TableShape(Table(t)) /\ CwdOK(Table(t))
  BY <1>3 DEF Runs, Table, FilesInv, TableInv, PathInv
<1>4. ASSUME NEW t \in Task, NEW r, ResultOK(r), NEW answer, Runs(t), Return(t, r, answer),
             UNCHANGED <<stage, fs>>
      PROVE  PathInv'
  BY <1>3, <1>4, RequestPath, ZenonT(30) DEF Return
<1>5. ASSUME NEW t \in Task, NEW s \in Paths, Open(t, s)
      PROVE  PathInv'
  <2>1. ResultOK(OpenCall(Table(t), s))
    BY <1>3, <1>5, OpenResult, ZenonT(30) DEF Open
  <2> QED BY <1>4, <1>5, <2>1, ZenonT(30) DEF Open, OpenReturns, Static
<1>6. ASSUME NEW t \in Task, NEW s \in Paths, SetCwd(t, s)
      PROVE  PathInv'
  <2>1. ResultOK(SetCwdCall(Table(t), s))
    BY <1>3, <1>6, SetCwdResult, ZenonT(30) DEF SetCwd
  <2> QED BY <1>4, <1>6, <2>1, ZenonT(30) DEF SetCwd, Static
<1>7. ASSUME NEW t \in Task, NEW s \in Paths, Exec(t, s)
      PROVE  PathInv'
  BY <1>7, ExecPath, ZenonT(30)
<1>8. ASSUME NEW t \in Task, NEW fd \in Fds, Close(t, fd)
      PROVE  PathInv'
  <2>1. ResultOK(CloseCall(Table(t), fd))
    BY <1>3, <1>8, DescriptorResults, ZenonT(30) DEF Close
  <2> QED BY <1>4, <1>8, <2>1 DEF Close, Static
<1>9. ASSUME NEW t \in Task, NEW fd \in Fds, Write(t, fd, 1)
      PROVE  PathInv'
  <2>1. ResultOK(WriteCall(Table(t), fd, 1))
    BY <1>3, <1>9, DescriptorResults, ZenonT(30) DEF Write
  <2> QED BY <1>4, <1>9, <2>1, ZenonT(30) DEF Write, Static
<1>10. ASSUME NEW t \in Task, NEW fd \in Fds, ReadDir(t, fd, 1)
       PROVE  PathInv'
  <2>1. ResultOK(ReadDirCall(Table(t), fd, 1))
    BY <1>3, <1>10, DescriptorResults, ZenonT(30) DEF ReadDir
  <2> QED BY <1>4, <1>10, <2>1 DEF ReadDir, Static
<1>11. ASSUME NEW t \in Task, NEW fd \in Fds, NEW n \in Sizes, ReadNow(t, fd, n)
       PROVE  PathInv'
  <2>1. ResultOK(ReadCall(Table(t), fd, n))
    BY <1>3, <1>11, DescriptorResults, ZenonT(30) DEF ReadNow
  <2> QED BY <1>4, <1>11, <2>1 DEF ReadNow, Static
<1>12. ASSUME NEW t \in Task, NEW fd \in Fds, ReadTty(t, fd, 1)
       PROVE  PathInv'
  BY <1>12, ZenonT(30) DEF ReadTty, Static, PathInv
<1>13. ASSUME NEW t \in Task, ReadWakes(t)
       PROVE  PathInv'
  <2>1. PICK r \in pend[t] :
          data' = [data EXCEPT ![ProcOf[t]] = Advanced(data[ProcOf[t]], r.fd, r.n)]
    BY <1>13, ZenonT(30) DEF ReadWakes
  <2>2. UNCHANGED <<stage, fs, panic>>
    BY <1>13, ZenonT(30) DEF ReadWakes, Static
  <2>3. \A p \in DOMAIN data : TableShape(data[p])
    BY ZenonT(30) DEF FilesInv, TableInv
  <2>4. DOMAIN data' = DOMAIN data /\ \A p \in DOMAIN data : data'[p].cwd = data[p].cwd
    BY <2>1, <2>3, CwdKept
  <2> QED BY <2>2, <2>4, ZenonT(30) DEF PathInv, CwdOK
<1>14. ASSUME NEW t \in Task, Exit(t)
       PROVE  PathInv'
  BY <1>14, ZenonT(30) DEF Exit, PathInv
<1> QED
  BY <1>1, <1>2, <1>5, <1>6, <1>7, <1>8, <1>9, <1>10, <1>11, <1>12, <1>13, <1>14, ZenonT(30)
     DEF Next

\* PathInv is an invariant of the file system.
THEOREM PathsConsistent == Spec => []PathInv
  BY InitPath, NextPath, TablesConsistent, PTL DEF Spec

\* The working directory of every process is the absolute path of a directory or
\* mount point that exists (set_cwd checks it, exec inherits it), whatever the
\* programs request.
THEOREM WorkingDirectories == Spec => []CwdIsDirectory
<1>1. FilesInv /\ PathInv => CwdIsDirectory
  BY ZenonT(30) DEF FilesInv, PathInv, CwdOK, CwdIsDirectory
<1> QED BY <1>1, TablesConsistent, PathsConsistent, PTL

\* The expectations of the kernel itself hold for every init.fs and every
\* sequence of requests: the mount of /dev, the mount points behind keys, the
\* console of a new process and the prefix that canonicalize strips.
THEOREM KernelNeverPanics == Spec => []OnlyRequestsPanic
<1>1. PathInv => OnlyRequestsPanic
  BY DEF PathInv, Causes, OnlyRequestsPanic
<1> QED BY <1>1, PathsConsistent, PTL

\* ReadsInv is an invariant of the file system.
THEOREM ReadsConsistent == Spec => []ReadsInv
<1>1. PathInv => ConsoleUp
  <2>1. SUFFICES ASSUME fs = FsUp PROVE TtyNode.fs = "devfs" /\ FilesLong
    BY DEF PathInv, ConsoleUp
  <2>2. TtyNode.fs = "devfs"
    BY <2>1, TtyOpens, ZenonT(30) DEF TtyNode, The
  <2>3. ASSUME NEW s \in DOMAIN fs.ram, fs.ram[s].kind = "file" PROVE fs.ram[s].len \in Nat
    <3>1. fs.ram[s] \in Entries0
      BY <2>1, UpFacts
    <3> QED BY <2>3, <3>1 DEF Entries0, Entry, Dir, File, MountAt
  <2> QED BY <2>2, <2>3, ZenonT(30) DEF FilesLong
<1> QED
  BY <1>1, InitReads, NextReads, TablesConsistent, PathsConsistent, PTL DEF Spec

\* What a process has read of a file is, in order, all of the file up to the
\* descriptor's offset (read advances the offset by what it delivered), as
\* long as no other task of the process used the descriptor during the read.
THEOREM FilesReadInOrder == Spec => []ReadsInOrder
<1>1. ReadsInv => ReadsInOrder
  <2>1. SUFFICES ASSUME ReadsInv, NEW p \in DOMAIN data, NEW i \in Slots,
                        NEW x \in data[p].nodes[i], x.node.fs = "rootfs", ~raced[p]
                 PROVE  seen[p][i] = [k \in 1..x.offset |-> k]
    BY DEF ReadsInOrder
  <2>2. ReadsOK(data[p], p, raced[p], seen[p], pend)
    BY <2>1 DEF ReadsInv
  <2>3. InOrder(data[p], seen[p])
    BY <2>1, <2>2, ZenonT(30) DEF ReadsOK
  <2> QED BY <2>1, <2>3, ZenonT(30) DEF InOrder
<1> QED BY <1>1, ReadsConsistent, PTL

=============================================================================
