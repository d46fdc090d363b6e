--------------------------- MODULE BringupProofs ---------------------------
(***************************************************************************)
(* The windows that probe assigns, for every card and every override; and  *)
(* the order in which probe acquires and the kernel releases: what the     *)
(* handler and the end of teardown rely on, for every set of slots and     *)
(* every failing step.                                                     *)
(***************************************************************************)
EXTENDS Bringup, SequenceTheorems, WellFoundedInduction, TLAPS

---------------------------------------------------------------------------
(* Induction, and the discovery loop.                                      *)

\* A set of numbers that is not empty has a least one.
LEMMA LeastNumber ==
  ASSUME NEW T, T \subseteq Nat, T # {}
  PROVE  \E m \in T : \A n \in T : m <= n
<1> DEFINE R == OpToRel(<, Nat)
<1>1. IsWellFoundedOn(R, Nat)
  BY NatLessThanWellFounded
<1>2. \A x, y \in Nat : x < y => <<x, y>> \in R
  BY DEF OpToRel
<1> HIDE DEF R
<1>3. PICK m \in T : \A n \in T : ~(<<n, m>> \in R)
  BY <1>1, WFMin
<1>4. \A n \in T : m <= n
  <2> SUFFICES ASSUME NEW n \in T PROVE m <= n
    OBVIOUS
  <2>1. m \in Nat /\ n \in Nat /\ ~(n < m)
    BY <1>2, <1>3
  <2> QED BY <2>1
<1> QED BY <1>4

\* Induction: a set with nought and every successor has every number.
LEMMA Induct ==
  ASSUME NEW S, 0 \in S, \A n \in Nat : n \in S => n + 1 \in S
  PROVE  \A n \in Nat : n \in S
<1> DEFINE T == Nat \ S
<1> SUFFICES ASSUME T # {} PROVE FALSE
  OBVIOUS
<1>1. PICK m \in T : \A n \in T : m <= n
  BY LeastNumber
<1>2. m # 0 /\ m - 1 \in Nat /\ m - 1 \in S
  BY <1>1
<1> QED BY <1>1, <1>2

---------------------------------------------------------------------------
\* scan is what the discovery loop has found, turn by turn.
IsScan(scan, bars, w, n) ==
  scan = [i \in 0 .. n |-> IF i = 0 THEN w ELSE Discovered(bars, scan[i - 1], i - 1)]

\* The loop's recursion defines something for any number of turns.
LEMMA ScanExists ==
  ASSUME NEW bars, NEW w
  PROVE  \A n \in Nat : \E scan : IsScan(scan, bars, w, n)
<1> DEFINE S == {n \in Nat : \E scan : IsScan(scan, bars, w, n)}
<1>1. 0 \in S
  <2> DEFINE g == [i \in 0 .. 0 |-> w]
  <2>1. IsScan(g, bars, w, 0) BY DEF IsScan
  <2> QED BY <2>1
<1>2. \A n \in Nat : n \in S => n + 1 \in S
  <2> SUFFICES ASSUME NEW n \in Nat, NEW g, IsScan(g, bars, w, n)
               PROVE  \E scan : IsScan(scan, bars, w, n + 1)
    OBVIOUS
  <2> DEFINE f == [i \in 0 .. n + 1 |-> IF i <= n THEN g[i] ELSE Discovered(bars, g[n], n)]
  <2>1. \A i \in 0 .. n + 1 :
          f[i] = IF i = 0 THEN w ELSE Discovered(bars, f[i - 1], i - 1)
    <3> SUFFICES ASSUME NEW i \in 0 .. n + 1
                 PROVE  f[i] = IF i = 0 THEN w ELSE Discovered(bars, f[i - 1], i - 1)
      OBVIOUS
    <3>1. CASE i = 0 BY <3>1 DEF IsScan
    <3>2. CASE i \in 1 .. n BY <3>2 DEF IsScan
    <3>3. CASE i = n + 1 BY <3>3
    <3> QED BY <3>1, <3>2, <3>3
  <2>2. IsScan(f, bars, w, n + 1)
    BY <2>1 DEF IsScan
  <2> QED BY <2>2
<1> QED
  <2> HIDE DEF S
  <2>1. \A n \in Nat : n \in S BY <1>1, <1>2, Induct
  <2> QED BY <2>1 DEF S

\* AutoDiscovered is where the loop stands after its last turn.
LEMMA ScanEnds ==
  ASSUME NEW bars, NEW w
  PROVE  \E scan : IsScan(scan, bars, w, NumBars) /\ AutoDiscovered(bars, w) = scan[NumBars]
<1>1. NumBars \in Nat BY WindowsAssumption
<1>2. PICK g : IsScan(g, bars, w, NumBars) BY <1>1, ScanExists
<1> DEFINE f == CHOOSE scan : scan = [i \in 0 .. NumBars |-> IF i = 0 THEN w ELSE Discovered(bars, scan[i - 1], i - 1)]
<1>3. IsScan(f, bars, w, NumBars) BY <1>2, ZenonT(30) DEF IsScan
<1>4. AutoDiscovered(bars, w) = f[NumBars] BY DEF AutoDiscovered
<1> QED BY <1>3, <1>4

\* What holds at the start and is kept by every turn holds at the end.
LEMMA ScanKeeps ==
  ASSUME NEW bars, NEW w, NEW Good,
         w \in Good[0],
         \A i \in BarIndex : \A v \in Good[i] : Discovered(bars, v, i) \in Good[i + 1]
  PROVE  AutoDiscovered(bars, w) \in Good[NumBars]
<1>1. PICK scan : IsScan(scan, bars, w, NumBars) /\ AutoDiscovered(bars, w) = scan[NumBars]
  BY ScanEnds
<1> DEFINE S == {n \in Nat : n <= NumBars => scan[n] \in Good[n]}
<1>0. NumBars \in Nat BY WindowsAssumption
<1>2. 0 \in S BY <1>0, <1>1 DEF IsScan
<1>3. \A n \in Nat : n \in S => n + 1 \in S
  <2> SUFFICES ASSUME NEW n \in Nat, n + 1 <= NumBars, scan[n] \in Good[n]
               PROVE  scan[n + 1] \in Good[n + 1]
    BY <1>0
  <2>1. scan[n + 1] = Discovered(bars, scan[n], n) BY <1>0, <1>1 DEF IsScan
  <2>2. n \in BarIndex BY <1>0 DEF BarIndex
  <2> QED BY <2>1, <2>2
<1> HIDE DEF S
<1>4. NumBars \in S BY <1>0, <1>2, <1>3, Induct
<1> QED BY <1>0, <1>1, <1>4 DEF S

---------------------------------------------------------------------------
\* Some turns into the loop: roles that are taken stay taken, the port and
\* window B as they were given, and every role names a BAR that is mapped.
Mapped(bars, i) == i = None \/ (i \in BarIndex /\ bars[i].kind # "none")

Sound(bars, w) ==
  {v \in Roles :
     /\ Mapped(bars, v.port) /\ Mapped(bars, v.a) /\ Mapped(bars, v.b)
     /\ w.port # None => v.port = w.port
     /\ w.b # None => v.b = w.b
     /\ v.a # None => v.a \in Mem(bars) \cup {w.a}}

\* Overrides are dropped or name a BAR that is mapped.
LEMMA OverriddenRoles ==
  ASSUME NEW bars \in Bars, NEW over \in [{"port", "a", "b"} -> Int]
  PROVE  /\ Overridden(bars, over) \in Roles
         /\ Mapped(bars, Overridden(bars, over).port)
         /\ Mapped(bars, Overridden(bars, over).a)
         /\ Mapped(bars, Overridden(bars, over).b)
         /\ \A r \in {"port", "a", "b"} : Overridden(bars, over)[r] # None => Overridden(bars, over)[r] = over[r]
         /\ \A r \in {"port", "a", "b"} : over[r] = None => Overridden(bars, over)[r] = None
<1> DEFINE w == Overridden(bars, over)
<1>1. w = [r \in {"port", "a", "b"} |->
             IF over[r] \in BarIndex /\ bars[over[r]].kind # "none" THEN over[r] ELSE None]
  BY DEF Overridden
<1>2. \A r \in {"port", "a", "b"} : w[r] \in BarIndex \cup {None}
  BY <1>1
<1>3. w \in Roles
  BY <1>1, <1>2 DEF Roles
<1> QED BY <1>1, <1>2, <1>3 DEF Mapped

\* One turn keeps them so.
LEMMA TurnIsSound ==
  ASSUME NEW bars \in Bars, NEW w, NEW v \in Sound(bars, w), NEW i \in BarIndex
  PROVE  Discovered(bars, v, i) \in Sound(bars, w)
<1>1. v \in Roles /\ i \in BarIndex /\ None \notin BarIndex /\ bars[i].kind \in {"none", "io", "mem"}
  BY DEF Sound, BarIndex, None, Bars
<1>2. bars[i].kind = "mem" => i \in Mem(bars)
  BY DEF Mem
<1> QED BY <1>1, <1>2 DEF Sound, Discovered, Roles, Mapped

\* The smallest BAR of a set that is not empty.
LEMMA FirstMem ==
  ASSUME NEW bars \in Bars, Mem(bars) # {}
  PROVE  (CHOOSE i \in Mem(bars) : \A j \in Mem(bars) : i <= j) \in Mem(bars)
<1>1. Mem(bars) \subseteq Nat BY DEF Mem, BarIndex
<1>2. \E i \in Mem(bars) : \A j \in Mem(bars) : i <= j BY <1>1, LeastNumber
<1> QED BY <1>2

\* What motu424_assign_windows() assigns is what an override asked for, if the
\* override counts, and names BARs that are mapped.
LEMMA AssignedSound ==
  ASSUME NEW bars \in Bars, NEW over \in [{"port", "a", "b"} -> Int], NEW pcie \in BOOLEAN
  PROVE  LET r == AssignWindows(bars, over, pcie)
             w == Overridden(bars, over)
         IN  /\ r \in Roles
             /\ Mapped(bars, r.port) /\ Mapped(bars, r.a) /\ Mapped(bars, r.b)
             /\ w.port # None => r.port = w.port
             /\ w.b # None => r.b = w.b
             /\ r.a # None => r.a \in Mem(bars) \cup {w.a}
<1> DEFINE w == Overridden(bars, over)
           Good == [i \in 0 .. NumBars |-> Sound(bars, w)]
           v == AutoDiscovered(bars, w)
           u == Alone(v)
           r == Fallback(bars, pcie, u)
<1>0. NumBars \in Nat /\ \A i \in BarIndex : i \in 0 .. NumBars /\ i + 1 \in 0 .. NumBars
  BY WindowsAssumption DEF BarIndex
<1>1. w \in Sound(bars, w) BY OverriddenRoles DEF Sound
<1> HIDE DEF w
<1>2. v \in Sound(bars, w)
  <2>1. w \in Good[0] BY <1>0, <1>1
  <2>2. \A i \in BarIndex : \A x \in Good[i] : Discovered(bars, x, i) \in Good[i + 1]
    BY <1>0, TurnIsSound
  <2>3. v \in Good[NumBars]
    <3> HIDE DEF Good
    <3> QED BY <2>1, <2>2, ScanKeeps
  <2> QED BY <1>0, <2>3
<1> HIDE DEF v
<1>3. u \in Sound(bars, w)
  BY <1>2 DEF Alone, Sound, Roles
<1> HIDE DEF u
<1>4. r \in Sound(bars, w)
  <2>1. CASE pcie /\ u.b = None /\ Mem(bars) # {}
    <3> DEFINE i == CHOOSE i \in Mem(bars) : \A j \in Mem(bars) : i <= j
    <3>1. i \in Mem(bars) BY <2>1, FirstMem
    <3>2. r = [u EXCEPT !.b = i] BY <2>1 DEF Fallback
    <3> HIDE DEF i, r
    <3>3. i \in BarIndex /\ bars[i].kind # "none" BY <3>1 DEF Mem
    <3> QED BY <1>3, <2>1, <3>2, <3>3 DEF Sound, Roles, Mapped
  <2>2. CASE ~(pcie /\ u.b = None /\ Mem(bars) # {})
    <3>1. r = u BY <2>2 DEF Fallback
    <3> QED BY <1>3, <3>1
  <2> QED BY <2>1, <2>2
<1>5. r = AssignWindows(bars, over, pcie) BY DEF AssignWindows, u, v, w
<1> HIDE DEF r
<1> QED BY <1>4, <1>5 DEF Sound, w

---------------------------------------------------------------------------
(* What the comment of motu424_assign_windows() says of cards without      *)
(* overrides, some turns into the loop.                                    *)

FirstOf(i, S) == IF S = {} THEN i = None ELSE i \in S /\ \A j \in S : i <= j
Io(bars) == {i \in BarIndex : bars[i].kind = "io"}
Large(bars) == {i \in Mem(bars) : bars[i].len >= WinALen}

Found(bars, n) ==
  {v \in Roles :
     /\ FirstOf(v.port, Io(bars) \cap 0 .. n - 1)
     /\ FirstOf(v.a, Large(bars) \cap 0 .. n - 1)
     /\ FirstOf(v.b, (Mem(bars) \ {v.a}) \cap 0 .. n - 1)}

\* The next BAR is the first of its set if there was none, or changes nothing.
LEMMA FirstOfGrows ==
  ASSUME NEW S \in SUBSET BarIndex, NEW n \in BarIndex, NEW i, FirstOf(i, S \cap 0 .. n - 1)
  PROVE  /\ n \notin S => FirstOf(i, S \cap 0 .. n)
         /\ n \in S /\ i = None => FirstOf(n, S \cap 0 .. n)
         /\ n \in S /\ i # None => FirstOf(i, S \cap 0 .. n)
<1>1. n \in Nat /\ S \subseteq Nat /\ None \notin S BY DEF BarIndex, None
<1>2. n \notin S => S \cap 0 .. n = S \cap 0 .. n - 1 BY <1>1
<1>3. n \in S => S \cap 0 .. n = (S \cap 0 .. n - 1) \cup {n} BY <1>1
<1>4. \A j \in S \cap 0 .. n - 1 : j <= n BY <1>1
<1>5. i = None => S \cap 0 .. n - 1 = {} BY <1>1 DEF FirstOf
<1>6. i # None => i \in S \cap 0 .. n - 1 BY DEF FirstOf
<1> DEFINE P == S \cap 0 .. n - 1
           Q == S \cap 0 .. n
<1> HIDE DEF P, Q
<1>a. n \notin S => Q = P BY <1>2 DEF P, Q
<1>b. n \in S => Q = P \cup {n} BY <1>3 DEF P, Q
<1>c. \A j \in P : j <= n BY <1>4 DEF P
<1>d. i = None => P = {} BY <1>5 DEF P
<1>e. i # None => i \in P BY <1>6 DEF P
<1>f. FirstOf(i, P) BY DEF P
<1>g. FirstOf(n, Q) \/ ~(n \in S /\ i = None)
  BY <1>1, <1>b, <1>d DEF FirstOf
<1>h. FirstOf(i, Q) \/ ~(n \in S /\ i # None)
  BY <1>1, <1>b, <1>c, <1>e, <1>f DEF FirstOf
<1> QED BY <1>a, <1>f, <1>g, <1>h DEF Q

\* One turn of the loop.
LEMMA TurnFinds ==
  ASSUME NEW bars \in Bars, NEW n \in BarIndex, NEW v \in Found(bars, n)
  PROVE  Discovered(bars, v, n) \in Found(bars, n + 1)
<1> DEFINE u == Discovered(bars, v, n)
<1>0. /\ n \in Nat /\ 0 .. (n + 1) - 1 = 0 .. n /\ None \notin BarIndex
      /\ bars[n].kind \in {"none", "io", "mem"} /\ v \in Roles /\ n # None
  BY DEF BarIndex, None, Bars, Found
<1>1. Io(bars) \in SUBSET BarIndex /\ Large(bars) \in SUBSET BarIndex /\ Mem(bars) \ {v.a} \in SUBSET BarIndex
      /\ Mem(bars) \ {n} \in SUBSET BarIndex
  BY DEF Io, Large, Mem
<1>2. /\ FirstOf(v.port, Io(bars) \cap 0 .. n - 1)
      /\ FirstOf(v.a, Large(bars) \cap 0 .. n - 1)
      /\ FirstOf(v.b, (Mem(bars) \ {v.a}) \cap 0 .. n - 1)
  BY DEF Found
<1>3. /\ n \in Io(bars) <=> bars[n].kind = "io"
      /\ n \in Mem(bars) <=> bars[n].kind = "mem"
      /\ n \in Large(bars) <=> bars[n].kind = "mem" /\ bars[n].len >= WinALen
  BY DEF Io, Mem, Large
<1>4. u \in Roles
  BY <1>0 DEF Discovered, Roles
<1>5. SUFFICES /\ FirstOf(u.port, Io(bars) \cap 0 .. n)
               /\ FirstOf(u.a, Large(bars) \cap 0 .. n)
               /\ FirstOf(u.b, (Mem(bars) \ {u.a}) \cap 0 .. n)
  BY <1>0, <1>4 DEF Found
<1> HIDE DEF u
<1>6. CASE bars[n].kind = "io"
  <2>1. u.port = (IF v.port = None THEN n ELSE v.port) /\ u.a = v.a /\ u.b = v.b
    BY <1>0, <1>6 DEF Discovered, Roles, u
  <2>2. n \in Io(bars) /\ n \notin Mem(bars) /\ n \notin Large(bars) BY <1>3, <1>6
  <2>3. FirstOf(u.port, Io(bars) \cap 0 .. n)
    <3>1. CASE v.port = None BY <1>1, <1>2, <2>1, <2>2, <3>1, FirstOfGrows
    <3>2. CASE v.port # None BY <1>1, <1>2, <2>1, <2>2, <3>2, FirstOfGrows
    <3> QED BY <3>1, <3>2
  <2> QED BY <1>1, <1>2, <2>1, <2>2, <2>3, FirstOfGrows
<1>7. CASE bars[n].kind = "none"
  <2>1. u = v BY <1>7 DEF Discovered, u
  <2>2. n \notin Io(bars) /\ n \notin Mem(bars) /\ n \notin Large(bars) BY <1>3, <1>7
  <2> QED BY <1>0, <1>1, <1>2, <2>1, <2>2, FirstOfGrows
<1>8. CASE bars[n].kind = "mem" /\ bars[n].len >= WinALen /\ v.a = None
  <2>1. u.port = v.port /\ u.a = n /\ u.b = v.b
    BY <1>0, <1>8 DEF Discovered, Roles, u
  <2>2. n \notin Io(bars) /\ n \in Mem(bars) /\ n \in Large(bars) BY <1>3, <1>8
  <2>3. (Mem(bars) \ {v.a}) \cap 0 .. n - 1 = (Mem(bars) \ {n}) \cap 0 .. n - 1
    BY <1>0, <1>8 DEF Mem
  <2>4. FirstOf(u.b, (Mem(bars) \ {n}) \cap 0 .. n)
    BY <1>1, <1>2, <2>1, <2>3, FirstOfGrows
  <2> QED BY <1>0, <1>1, <1>2, <1>8, <2>1, <2>2, <2>4, FirstOfGrows
<1>9. CASE bars[n].kind = "mem" /\ ~(bars[n].len >= WinALen /\ v.a = None)
  <2>1. u.port = v.port /\ u.a = v.a /\ u.b = (IF v.b = None THEN n ELSE v.b)
    BY <1>0, <1>9 DEF Discovered, Roles, u
  <2>2. n \notin Io(bars) /\ n \in Mem(bars) BY <1>3, <1>9
  <2>3. v.a # None => v.a \in 0 .. n - 1 BY <1>2 DEF FirstOf
  <2>4. v.a # n BY <1>0, <2>3
  <2>5. n \in Large(bars) => v.a # None BY <1>3, <1>9
  <2>6. FirstOf(v.a, Large(bars) \cap 0 .. n) BY <1>1, <1>2, <2>5, FirstOfGrows
  <2>7. n \in Mem(bars) \ {v.a} BY <2>2, <2>4
  <2>8. FirstOf(u.b, (Mem(bars) \ {v.a}) \cap 0 .. n)
    <3>1. CASE v.b = None BY <1>1, <1>2, <2>1, <2>7, <3>1, FirstOfGrows
    <3>2. CASE v.b # None BY <1>1, <1>2, <2>1, <2>7, <3>2, FirstOfGrows
    <3> QED BY <3>1, <3>2
  <2> QED BY <1>0, <1>1, <1>2, <2>1, <2>2, <2>6, <2>8, FirstOfGrows
<1> QED BY <1>0, <1>6, <1>7, <1>8, <1>9

\* Without overrides the windows are as that comment says.
LEMMA AssignedAsDescribed ==
  ASSUME NEW bars \in Bars, NEW over \in [{"port", "a", "b"} -> Int], NEW pcie \in BOOLEAN,
         \A r \in {"port", "a", "b"} : over[r] = None,
         AssignWindows(bars, over, pcie).b # None
  PROVE  LET r == AssignWindows(bars, over, pcie)
         IN  /\ FirstOf(r.port, Io(bars))
             /\ IF \E i \in Mem(bars) : Mem(bars) = {i} THEN r.a = None /\ r.b \in Mem(bars)
                ELSE FirstOf(r.a, Large(bars)) /\ FirstOf(r.b, Mem(bars) \ {r.a})
<1> DEFINE w == Overridden(bars, over)
           Good == [n \in 0 .. NumBars |-> Found(bars, n)]
           v == AutoDiscovered(bars, w)
           u == Alone(v)
           r == Fallback(bars, pcie, u)
<1>0. NumBars \in Nat /\ \A i \in BarIndex : i \in 0 .. NumBars /\ i + 1 \in 0 .. NumBars
  BY WindowsAssumption DEF BarIndex
<1>1. w \in Found(bars, 0)
  <2>1. w \in Roles /\ w.port = None /\ w.a = None /\ w.b = None BY OverriddenRoles
  <2>2. \A S : S \cap 0 .. -1 = {} OBVIOUS
  <2>3. 0 - 1 = -1 OBVIOUS
  <2> HIDE DEF w
  <2> QED BY <2>1, <2>2, <2>3 DEF Found, FirstOf
<1>2. v \in Found(bars, NumBars)
  <2>1. w \in Good[0] BY <1>0, <1>1
  <2>2. \A i \in BarIndex : \A x \in Good[i] : Discovered(bars, x, i) \in Good[i + 1]
    BY <1>0, TurnFinds
  <2>3. v \in Good[NumBars]
    <3> HIDE DEF Good
    <3> QED BY <2>1, <2>2, ScanKeeps
  <2> QED BY <1>0, <2>3
<1> HIDE DEF v
<1>3. /\ v \in Roles /\ None \notin BarIndex
      /\ FirstOf(v.port, Io(bars)) /\ FirstOf(v.a, Large(bars)) /\ FirstOf(v.b, Mem(bars) \ {v.a})
  <2>1. \A S \in SUBSET BarIndex : S \cap 0 .. NumBars - 1 = S BY DEF BarIndex
  <2>2. Io(bars) \in SUBSET BarIndex /\ Large(bars) \in SUBSET BarIndex /\ Mem(bars) \ {v.a} \in SUBSET BarIndex
    BY DEF Io, Large, Mem
  <2>3. None \notin BarIndex BY DEF BarIndex, None
  <2> QED BY <1>2, <2>1, <2>2, <2>3 DEF Found
<1>4. Large(bars) \subseteq Mem(bars) /\ Mem(bars) \subseteq BarIndex BY DEF Large, Mem
<1>5. r = AssignWindows(bars, over, pcie) BY DEF AssignWindows, u, v, w
<1>6. CASE v.b # None
  <2>1. r = v BY <1>6 DEF Alone, Fallback
  <2>2. v.b \in Mem(bars) /\ v.b # v.a BY <1>3, <1>6 DEF FirstOf
  <2>3. CASE \E i \in Mem(bars) : Mem(bars) = {i}
    <3>1. v.a # None => v.a \in Mem(bars) BY <1>3, <1>4 DEF FirstOf
    <3>2. v.a = None BY <2>2, <2>3, <3>1
    <3> QED BY <1>3, <1>5, <2>1, <2>2, <2>3, <3>2
  <2> QED BY <1>3, <1>5, <2>1, <2>3
<1>7. CASE v.b = None /\ v.a # None
  <2>1. Mem(bars) \ {v.a} = {} /\ v.a \in Mem(bars) BY <1>3, <1>4, <1>7 DEF FirstOf
  <2>2. Mem(bars) = {v.a} BY <2>1
  <2>3. u.port = v.port /\ u.a = None /\ u.b = v.a BY <1>3, <1>7 DEF Alone, Roles
  <2>4. r = u BY <1>7, <2>3 DEF Fallback
  <2> HIDE DEF u, r
  <2> QED BY <1>3, <1>5, <2>1, <2>2, <2>3, <2>4
<1>8. CASE v.b = None /\ v.a = None
  <2>1. Mem(bars) = {} BY <1>3, <1>4, <1>8 DEF FirstOf
  <2>2. r.b = None BY <1>8, <2>1 DEF Alone, Fallback
  <2> QED BY <1>5, <2>2
<1> QED BY <1>6, <1>7, <1>8
---------------------------------------------------------------------------
(* Acquisition and release.                                                *)

\* The managed steps of ProbeOrder, in its order, and how many of them
\* precede each step.
Acquired == <<"card", "enable", "bars", "vectors", "irq", "shutdown", "register">>
Before == <<0, 1, 2, 3, 3, 4, 5, 6, 6>>

\* What is held is the first so many of them.
HeldIsPrefix ==
  /\ held \in Seq(Managed)
  /\ Len(held) \in 0 .. 7
  /\ \A i \in 1 .. Len(held) : held[i] = Acquired[i]

\* How many, and what else holds, by the device's mode.
ModeSays ==
  /\ mode \in {"unbound", "probing", "unwinding", "bound"}
  /\ next \in 1 .. 9
  /\ mode = "unbound" => Len(held) = 0
  /\ mode = "probing" => Len(held) = Before[next]
  /\ mode = "bound" => Len(held) = 7
  /\ mode # "unwinding" /\ (next > 4 \/ mode = "bound") => roles.b # None

\* From the interrupt vectors on, window B is assigned; the handler runs only
\* while the line is held.
LineIsSafe ==
  /\ Len(held) >= 4 => roles.b # None
  /\ handling => Len(held) >= 5

\* Once the shutdown action has been registered and is gone, so is the engine.
ShutDown ==
  armed /\ Len(held) <= 5 =>
    mode \in {"unwinding", "unbound"} /\ (CanQuiesce => engine = "off")

BringInv == HeldIsPrefix /\ ModeSays /\ LineIsSafe /\ ShutDown

\* Which resource sits where.
LEMMA HeldCount ==
  ASSUME HeldIsPrefix
  PROVE  /\ Held("irq") <=> Len(held) >= 5
         /\ Len(held) >= 5 => Held("bars") /\ Held("card")
<1>1. DOMAIN held = 1 .. Len(held) BY DEF HeldIsPrefix
<1>2. \A i \in 1 .. 7 : Acquired[i] = "irq" <=> i = 5 BY DEF Acquired
<1>3. Held("irq") => Len(held) >= 5
  <2> SUFFICES ASSUME NEW i \in DOMAIN held, held[i] = "irq" PROVE Len(held) >= 5
    BY DEF Held
  <2>1. i \in 1 .. 7 /\ i <= Len(held) BY <1>1 DEF HeldIsPrefix
  <2>2. Acquired[i] = "irq" BY <1>1 DEF HeldIsPrefix
  <2> QED BY <1>2, <2>1, <2>2 DEF HeldIsPrefix
<1>4. ASSUME Len(held) >= 5 PROVE Held("irq") /\ Held("bars") /\ Held("card")
  <2>1. 1 \in DOMAIN held /\ 3 \in DOMAIN held /\ 5 \in DOMAIN held
    BY <1>1, <1>4 DEF HeldIsPrefix
  <2>2. held[1] = "card" /\ held[3] = "bars" /\ held[5] = "irq"
    BY <1>4 DEF HeldIsPrefix, Acquired
  <2> QED BY <2>1, <2>2 DEF Held
<1> QED BY <1>3, <1>4

\* An unbound device holds nothing.
LEMMA InitHolds == Init => BringInv
<1> SUFFICES ASSUME Init PROVE BringInv OBVIOUS
<1>1. held = <<>> /\ Len(held) = 0 /\ held \in Seq(Managed) BY DEF Init
<1> QED BY <1>1 DEF Init, BringInv, HeldIsPrefix, ModeSays, LineIsSafe, ShutDown, NoRoles, None

\* Binding starts from nothing, or passes over a slot that is not enabled.
LEMMA ProbeHolds == BringInv /\ Probe => BringInv'
<1> SUFFICES ASSUME BringInv, Probe PROVE BringInv' OBVIOUS
<1>1. UNCHANGED <<held, roles, handling, engine, setup>> /\ mode = "unbound" BY DEF Probe
<1>2. CASE slot \in Enabled
  <2>1. mode' = "probing" /\ next' = 1 /\ armed' = FALSE BY <1>2 DEF Probe
  <2> QED BY <1>1, <2>1 DEF BringInv, HeldIsPrefix, ModeSays, LineIsSafe, ShutDown, Before, CanQuiesce
<1>3. CASE slot \notin Enabled
  <2>1. UNCHANGED <<mode, next, armed>> BY <1>3 DEF Probe
  <2> QED BY <1>1, <2>1 DEF BringInv, HeldIsPrefix, ModeSays, LineIsSafe, ShutDown, CanQuiesce
<1> QED BY <1>2, <1>3

\* A step that succeeds adds the next resource, or assigns the windows.
LEMMA ProbeStepHolds == BringInv /\ ProbeStep => BringInv'
<1> SUFFICES ASSUME BringInv, ProbeStep PROVE BringInv' OBVIOUS
<1>0. /\ mode = "probing" /\ next \in 1 .. 9 /\ Len(held) = Before[next]
      /\ UNCHANGED <<setup, engine, raised, handling>>
      /\ ~(armed /\ Len(held) <= 5)
  BY DEF BringInv, ModeSays, ShutDown, ProbeStep
<1>1. Len(ProbeOrder) = 9 BY DEF ProbeOrder
<1>2. HeldIsPrefix' /\ Len(held') = Before[next] + (IF ProbeOrder[next] \in Managed THEN 1 ELSE 0)
  <2>1. CASE ProbeOrder[next] \in Managed
    <3>1. held' = Append(held, ProbeOrder[next]) BY <2>1 DEF ProbeStep, Step
    <3>2. Acquired[Len(held) + 1] = ProbeOrder[next] /\ Len(held) + 1 <= 7
      BY <1>0, <2>1 DEF Acquired, Before, ProbeOrder, Managed
    <3>3. held \in Seq(Managed) BY DEF BringInv, HeldIsPrefix
    <3>4. held' \in Seq(Managed) /\ Len(held') = Len(held) + 1
      BY <2>1, <3>1, <3>3
    <3>5. \A i \in 1 .. Len(held') : held'[i] = Acquired[i]
      <4> SUFFICES ASSUME NEW i \in 1 .. Len(held') PROVE held'[i] = Acquired[i] OBVIOUS
      <4>1. CASE i = Len(held) + 1 BY <3>1, <3>2, <3>3, <4>1
      <4>2. CASE i # Len(held) + 1
        <5>1. i \in 1 .. Len(held) BY <3>3, <3>4, <4>2
        <5>2. held'[i] = held[i] BY <3>1, <3>3, <5>1
        <5> QED BY <5>1, <5>2 DEF BringInv, HeldIsPrefix
      <4> QED BY <4>1, <4>2
    <3> QED BY <1>0, <2>1, <3>2, <3>3, <3>4, <3>5 DEF HeldIsPrefix, BringInv
  <2>2. CASE ProbeOrder[next] \notin Managed
    <3>1. held' = held BY <2>2 DEF ProbeStep, Step
    <3>2. HeldIsPrefix BY DEF BringInv
    <3>3. HeldIsPrefix' BY <3>1, <3>2 DEF HeldIsPrefix
    <3>4. Len(held') = Len(held) /\ Len(held) \in Nat BY <3>1, <3>2 DEF HeldIsPrefix
    <3> QED BY <1>0, <2>2, <3>3, <3>4
  <2> QED BY <2>1, <2>2
<1>3. next > 4 => roles' = roles
  BY <1>0 DEF ProbeStep, Step, ProbeOrder
<1>4. next = 4 => roles'.b # None BY DEF ProbeStep, Step, ProbeOrder
<1>5. next >= 4 => roles'.b # None
  BY <1>0, <1>3, <1>4 DEF BringInv, ModeSays
<1>6. armed' => armed \/ next = 7
  <2>1. Step = "shutdown" => next = 7 BY <1>0 DEF Step, ProbeOrder
  <2>2. armed' = (armed \/ Step = "shutdown") BY DEF ProbeStep
  <2> QED BY <2>1, <2>2
<1>7. CASE next = 9
  <2>1. mode' = "bound" /\ next' = 1 BY <1>1, <1>7 DEF ProbeStep
  <2>2. Len(held') = 7 BY <1>2, <1>7 DEF Before, ProbeOrder, Managed
  <2>3. roles'.b # None BY <1>5, <1>7
  <2>4. ModeSays' BY <2>1, <2>2, <2>3 DEF ModeSays
  <2>5. LineIsSafe' BY <2>2, <2>3 DEF LineIsSafe
  <2>6. ShutDown' BY <2>2 DEF ShutDown
  <2> QED BY <1>2, <2>4, <2>5, <2>6 DEF BringInv
<1>8. CASE next # 9
  <2>1. mode' = "probing" /\ next' = next + 1 BY <1>0, <1>1, <1>8 DEF ProbeStep
  <2>2. Len(held') = Before[next + 1]
    BY <1>0, <1>2, <1>8 DEF Before, ProbeOrder, Managed
  <2>3. next' \in 1 .. 9 BY <1>0, <1>8, <2>1
  <2>4. ModeSays' BY <1>0, <1>5, <1>8, <2>1, <2>2, <2>3 DEF ModeSays
  <2>5. LineIsSafe'
    <3>1. Len(held') >= 4 => next >= 5 BY <1>0, <1>8, <2>2 DEF Before
    <3>2. Len(held') >= Len(held) /\ Len(held) \in Nat
      BY <1>0, <1>2 DEF Before
    <3>3. Len(held') \in Nat BY <1>2 DEF HeldIsPrefix
    <3> QED BY <1>0, <1>5, <3>1, <3>2, <3>3 DEF BringInv, LineIsSafe
  <2>6. ~(armed' /\ Len(held') <= 5)
    BY <1>0, <1>6, <1>8, <2>2 DEF Before
  <2> QED BY <1>2, <2>4, <2>5, <2>6 DEF BringInv, ShutDown
<1> QED BY <1>7, <1>8

\* One that fails leaves what is held to be released.
LEMMA ProbeFailsHolds == BringInv /\ ProbeFails => BringInv'
<1> SUFFICES ASSUME BringInv, ProbeFails PROVE BringInv' OBVIOUS
<1>0. /\ mode = "probing" /\ mode' = "unwinding" /\ next \in 1 .. 9
      /\ Len(held) = Before[next] /\ UNCHANGED <<setup, next, held, handling, armed>>
  BY DEF BringInv, ModeSays, ProbeFails
<1>1. Len(held) >= 4 => roles' = roles
  BY <1>0 DEF ProbeFails, Step, ProbeOrder, Before
<1>2. ~(armed /\ Len(held) <= 5) BY <1>0 DEF BringInv, ShutDown
<1> QED BY <1>0, <1>1, <1>2 DEF BringInv, HeldIsPrefix, ModeSays, LineIsSafe, ShutDown

\* Releasing takes the newest resource, and the shutdown action the engine.
LEMMA ReleaseHolds == BringInv /\ Release => BringInv'
<1> SUFFICES ASSUME BringInv, Release PROVE BringInv' OBVIOUS
<1> DEFINE n == Len(held)
<1>0. /\ mode = "unwinding" /\ mode' = mode /\ next' = next /\ held \in Seq(Managed)
      /\ UNCHANGED <<setup, handling, armed>> /\ n \in 1 .. 7
      /\ held' = SubSeq(held, 1, n - 1) /\ held[n] = Acquired[n]
  <2>1. held # <<>> /\ held \in Seq(Managed) /\ n \in 0 .. 7
    BY DEF Release, BringInv, HeldIsPrefix
  <2>2. n \in 1 .. 7 BY <2>1
  <2> QED BY <2>1, <2>2 DEF Release, BringInv, HeldIsPrefix
<1>1. HeldIsPrefix' /\ Len(held') = n - 1
  <2>0. held \in Seq(Managed) /\ n \in 1 .. 7 /\ n = Len(held)
        /\ held' = SubSeq(held, 1, n - 1)
    BY <1>0
  <2>1. held' \in Seq(Managed) /\ Len(held') = n - 1
        /\ \A i \in 1 .. n - 1 : held'[i] = held[i]
    <3> HIDE DEF n
    <3> QED BY <2>0, SubSeqProperties
  <2>2. \A i \in 1 .. n - 1 : held'[i] = held[i] BY <2>1
  <2>3. \A i \in 1 .. n - 1 : held[i] = Acquired[i] BY <1>0 DEF BringInv, HeldIsPrefix
  <2> QED BY <1>0, <2>1, <2>2, <2>3 DEF HeldIsPrefix
<1>2. n > 1 => roles' = roles BY <1>0 DEF Release, Acquired
<1>3. n = 1 => roles'.b = None /\ roles'.port = None
  BY <1>0 DEF Release, Acquired, NoRoles
<1>4. n = 5 => ~handling BY <1>0 DEF Release, Acquired
<1>5. n = 6 => engine' \in Quiesced BY <1>0 DEF Release, Acquired
<1>6. n <= 5 => engine' = engine BY <1>0 DEF Release, Acquired
<1>7. LineIsSafe'
  <2>1. (n >= 4 => roles.b # None) /\ (handling => n >= 5) BY DEF BringInv, LineIsSafe
  <2>2. Len(held') = n - 1 /\ n \in 1 .. 7 /\ handling' = handling BY <1>0, <1>1
  <2> HIDE DEF n
  <2>3. Len(held') >= 4 => roles'.b # None BY <1>2, <2>1, <2>2
  <2>4. handling' => Len(held') >= 5 BY <1>4, <2>1, <2>2
  <2> QED BY <2>3, <2>4 DEF LineIsSafe
<1>8. ShutDown'
  <2> SUFFICES ASSUME armed', Len(held') <= 5, CanQuiesce' PROVE engine' = "off"
    BY <1>0 DEF ShutDown
  <2>0. n \in 1 .. 7 /\ Len(held') = n - 1 BY <1>0, <1>1
  <2>1. n > 1
    <3>1. roles'.b # None BY DEF CanQuiesce
    <3>2. n # 1 BY <1>3, <3>1
    <3> HIDE DEF n
    <3> QED BY <2>0, <3>2
  <2>2. CanQuiesce BY <1>0, <1>2, <2>1 DEF CanQuiesce
  <2>3. CASE n = 6 BY <1>5, <2>2, <2>3 DEF Quiesced
  <2>4. CASE n <= 5 BY <1>0, <1>6, <2>2, <2>4 DEF BringInv, ShutDown
  <2>5. n = 6 \/ n <= 5
    <3> HIDE DEF n
    <3> QED BY <2>0
  <2> QED BY <2>3, <2>4, <2>5
<1>9. ModeSays' BY <1>0 DEF BringInv, ModeSays
<1> QED BY <1>1, <1>7, <1>8, <1>9 DEF BringInv

\* The other actions leave what is held, the windows and the history alone.
LEMMA OthersHold ==
  BringInv /\ (\/ Unbind \/ Unwound \/ StreamStart \/ StreamStop \/ CardRaise
               \/ HandlerEnter \/ HandlerReturn \/ UNCHANGED vars) => BringInv'
<1> SUFFICES ASSUME BringInv PROVE
      (\/ Unbind \/ Unwound \/ StreamStart \/ StreamStop \/ CardRaise
       \/ HandlerEnter \/ HandlerReturn \/ UNCHANGED vars) => BringInv'
  OBVIOUS
<1> USE DEF BringInv, HeldIsPrefix, ModeSays, LineIsSafe, ShutDown, CanQuiesce
<1>1. CASE Unbind BY <1>1 DEF Unbind
<1>2. CASE Unwound
  <2>1. held = <<>> /\ Len(held) = 0 /\ mode' = "unbound" /\ next' = 1 BY <1>2 DEF Unwound
  <2> QED BY <1>2, <2>1 DEF Unwound
<1>3. CASE StreamStart BY <1>3 DEF StreamStart
<1>4. CASE StreamStop BY <1>4 DEF StreamStop
<1>5. CASE CardRaise BY <1>5 DEF CardRaise
<1>6. CASE HandlerEnter
  <2>1. Len(held) >= 5 BY <1>6, HeldCount DEF HandlerEnter
  <2> QED BY <1>6, <2>1 DEF HandlerEnter
<1>7. CASE HandlerReturn BY <1>7 DEF HandlerReturn
<1>8. CASE UNCHANGED vars BY <1>8 DEF vars
<1> QED BY <1>1, <1>2, <1>3, <1>4, <1>5, <1>6, <1>7, <1>8

\* Teardown releases what probe acquired in the reverse order, from whatever
\* step probe reached.
THEOREM BringInvariance == Spec => []BringInv
<1>1. Init => BringInv BY InitHolds
<1>2. BringInv /\ [Next]_vars => BringInv'
  BY ProbeHolds, ProbeStepHolds, ProbeFailsHolds, ReleaseHolds, OthersHold DEF Next
<1> QED BY <1>1, <1>2, PTL DEF Spec

\* The handler never finds a card without its windows or its structure.
THEOREM HandlerCorrect == Spec => []HandlerFindsCard
<1>1. BringInv => HandlerFindsCard
  <2> SUFFICES ASSUME BringInv, Held("irq") \/ handling
               PROVE  roles.b # None /\ Held("bars") /\ Held("card")
    BY DEF HandlerFindsCard
  <2>1. HeldIsPrefix BY DEF BringInv
  <2>2. Len(held) \in Nat /\ Len(held) >= 5 BY <2>1, HeldCount DEF BringInv, LineIsSafe, HeldIsPrefix
  <2> QED BY <2>1, <2>2, HeldCount DEF BringInv, LineIsSafe
<1> QED BY <1>1, BringInvariance, PTL

\* The line loses its handler only once the card is quiet.
THEOREM QuietCorrect == Spec => QuietWhenFreed
<1>1. BringInv /\ BringInv' /\ [Next]_vars
      => (Held("irq") /\ ~Held("irq")' /\ armed /\ CanQuiesce => engine' = "off")
  <2> SUFFICES ASSUME BringInv, BringInv', [Next]_vars,
                      Held("irq"), ~Held("irq")', armed, CanQuiesce
               PROVE  engine' = "off"
    OBVIOUS
  <2>1. HeldIsPrefix /\ Len(held) >= 5 BY HeldCount DEF BringInv
  <2>2. HeldIsPrefix' BY DEF BringInv
  <2>3. held' # held
    <3> SUFFICES ASSUME held' = held PROVE FALSE OBVIOUS
    <3> QED BY DEF Held
  <2>4. CASE Release
    <3>1. Len(held) = 5
      <4>1. Len(held') = Len(held) - 1 /\ Len(held) \in Nat
        BY <2>1, <2>4 DEF Release, HeldIsPrefix
      <4>2. CASE Len(held) >= 6
        <5>1. 5 \in DOMAIN held' /\ held'[5] = "irq"
          BY <2>2, <4>1, <4>2 DEF HeldIsPrefix, Acquired
        <5> QED BY <5>1 DEF Held
      <4> QED BY <2>1, <4>1, <4>2
    <3>2. engine = "off" BY <3>1 DEF BringInv, ShutDown
    <3>3. held[Len(held)] = "irq" BY <2>1, <3>1 DEF HeldIsPrefix, Acquired
    <3> QED BY <2>4, <3>2, <3>3 DEF Release
  <2>5. CASE ProbeStep
    <3>1. held' = Append(held, Step) BY <2>3, <2>5 DEF ProbeStep
    <3>2. 5 \in DOMAIN held' /\ held'[5] = held[5] /\ held[5] = "irq"
      BY <2>1, <3>1 DEF HeldIsPrefix, Acquired
    <3> QED BY <3>2 DEF Held
  <2> QED BY <2>3, <2>4, <2>5 DEF Next, vars, Probe, ProbeFails, Unbind, Unwound,
        StreamStart, StreamStop, CardRaise, HandlerEnter, HandlerReturn
<1>2. Spec => []BringInv BY BringInvariance
<1> QED BY <1>1, <1>2, PTL DEF Spec, QuietWhenFreed

---------------------------------------------------------------------------
(* The windows of the card that is bound.                                  *)

\* The roles are none or what motu424_assign_windows() makes of the card.
Configured ==
  /\ setup \in Setups
  /\ roles \in {NoRoles, AssignWindows(setup.bars, setup.over, setup.pcie)}
  /\ slot \in 0 .. Slots
  /\ mode = "probing" => slot < Slots
  /\ engine \in {"off", "on", "left"}
  /\ raised \in BOOLEAN /\ handling \in BOOLEAN /\ armed \in BOOLEAN

\* Only probe assigns windows or takes a slot.
LEMMA ConfiguredStep == Configured /\ BringInv /\ [Next]_vars => Configured'
<1> SUFFICES ASSUME Configured, BringInv, [Next]_vars PROVE Configured'
  OBVIOUS
<1> USE DEF Configured
<1>0. Slots \in Nat /\ Enabled \subseteq 0 .. Slots - 1
  BY BringupAssumption
<1>1. CASE Probe
  <2>1. slot < Slots /\ UNCHANGED <<setup, roles, engine, raised, handling>>
    BY <1>1 DEF Probe, SlotFree
  <2>2. CASE slot \in Enabled
    BY <1>0, <1>1, <2>1, <2>2 DEF Probe
  <2>3. CASE slot \notin Enabled
    <3>1. slot' = slot + 1 /\ mode' = "unbound" /\ armed' = armed BY <1>1, <2>3 DEF Probe
    <3> QED BY <1>0, <2>1, <3>1
  <2> QED BY <2>2, <2>3
<1>2. CASE ProbeStep
  <2>1. roles' \in {roles, AssignWindows(setup.bars, setup.over, setup.pcie)}
        /\ UNCHANGED <<setup, engine, raised, handling>> /\ armed' \in BOOLEAN
    BY <1>2 DEF ProbeStep
  <2>2. slot \in 0 .. Slots - 1
    BY <1>0, <1>2 DEF ProbeStep
  <2>3. slot' \in 0 .. Slots /\ (mode' = "probing" => slot' < Slots)
    <3>1. CASE next = Len(ProbeOrder)
      <4>1. mode' = "bound" /\ slot' = slot + 1 BY <1>2, <3>1 DEF ProbeStep
      <4> QED BY <1>0, <2>2, <4>1
    <3>2. CASE next # Len(ProbeOrder)
      <4>1. slot' = slot BY <1>2, <3>2 DEF ProbeStep
      <4> QED BY <1>0, <2>2, <4>1
    <3> QED BY <3>1, <3>2
  <2> QED BY <2>1, <2>3
<1>3. CASE ProbeFails
  <2>1. roles' \in {roles, AssignWindows(setup.bars, setup.over, setup.pcie)}
        /\ engine' \in {"off", engine} /\ mode' = "unwinding"
        /\ UNCHANGED <<setup, slot, raised, handling, armed>>
    BY <1>3 DEF ProbeFails, Quiesced
  <2> QED BY <2>1
<1>4. CASE Unbind BY <1>4 DEF Unbind
<1>5. CASE Release
  <2>1. roles' \in {roles, NoRoles} /\ engine' \in {"off", engine} /\ mode' = mode
        /\ UNCHANGED <<setup, slot, raised, handling, armed>>
    BY <1>5 DEF Release, Quiesced
  <2> QED BY <2>1
<1>6. CASE Unwound BY <1>6 DEF Unwound
<1>7. CASE StreamStart BY <1>7 DEF StreamStart
<1>8. CASE StreamStop BY <1>8 DEF StreamStop
<1>9. CASE CardRaise BY <1>9 DEF CardRaise
<1>10. CASE HandlerEnter BY <1>10 DEF HandlerEnter
<1>11. CASE HandlerReturn BY <1>11 DEF HandlerReturn
<1>12. CASE UNCHANGED vars BY <1>12 DEF vars
<1> QED BY <1>1, <1>2, <1>3, <1>4, <1>5, <1>6, <1>7, <1>8, <1>9, <1>10, <1>11, <1>12 DEF Next

\* So at every moment.
LEMMA ConfiguredAlways == Spec => []Configured
<1>1. Init => Configured
  <2>1. 0 \in 0 .. Slots BY BringupAssumption
  <2> QED BY <2>1 DEF Init, Configured
<1> QED BY <1>1, ConfiguredStep, BringInvariance, PTL DEF Spec

\* The card of a probe has BARs and overrides of their types.
LEMMA SetupTypes ==
  ASSUME Configured
  PROVE  /\ setup.bars \in Bars /\ setup.over \in [{"port", "a", "b"} -> Int]
         /\ setup.pcie \in BOOLEAN /\ setup.audio \in BOOLEAN
         /\ roles.b # None => roles = AssignWindows(setup.bars, setup.over, setup.pcie)
BY BringupAssumption DEF Configured, NoRoles

\* Every variable keeps to its type, whatever probe meets: in particular the
\* slot counter never passes the last slot, and roles are BARs of the card.
THEOREM BringTypeCorrect == Spec => []TypeOK
<1>1. BringInv /\ Configured => TypeOK
  <2> SUFFICES ASSUME BringInv, Configured PROVE TypeOK
    OBVIOUS
  <2>1. roles \in Roles
    <3>1. NoRoles \in Roles BY DEF NoRoles, Roles
    <3>2. AssignWindows(setup.bars, setup.over, setup.pcie) \in Roles BY SetupTypes, AssignedSound
    <3> QED BY <3>1, <3>2 DEF Configured
  <2>2. next \in DOMAIN ProbeOrder
    <3>1. DOMAIN ProbeOrder = 1 .. 9 BY DEF ProbeOrder
    <3> QED BY <3>1 DEF BringInv, ModeSays
  <2> QED BY <2>1, <2>2 DEF TypeOK, BringInv, HeldIsPrefix, ModeSays, Configured
<1> QED BY <1>1, BringInvariance, ConfiguredAlways, PTL

\* A window that is assigned names a BAR that is mapped: what the upload of
\* firmware takes for granted of window B (FirmwareAssumption).
WindowIsMapped == roles.b # None => roles.b \in BarIndex /\ setup.bars[roles.b].kind # "none"

\* From motu424_hw_init() on, window B is a BAR that is mapped, whatever the
\* overrides and the layout of the card.
THEOREM MappedCorrect == Spec => []WindowIsMapped
<1>1. Configured => WindowIsMapped
  BY SetupTypes, AssignedSound DEF WindowIsMapped, Mapped
<1> QED BY <1>1, ConfiguredAlways, PTL

\* For every number of BARs, every kind and length of them, in every order,
\* the loop of motu424_assign_windows() finds what its comment describes, and
\* an override that names a mapped BAR is honoured.
THEOREM WindowsCorrect == Spec => []WindowsAsDescribed
<1>1. Configured => WindowsAsDescribed
  <2> SUFFICES ASSUME Configured, roles.b # None PROVE WindowsAsDescribed
    BY DEF WindowsAsDescribed
  <2>1. roles = AssignWindows(setup.bars, setup.over, setup.pcie)
    BY SetupTypes
  <2>2. CASE AllAutomatic
    <3>1. \A r \in {"port", "a", "b"} : setup.over[r] = None
      BY <2>2, SetupTypes DEF AllAutomatic
    <3>2. /\ FirstOf(roles.port, Io(setup.bars))
          /\ IF \E i \in Mem(setup.bars) : Mem(setup.bars) = {i} THEN roles.a = None /\ roles.b \in Mem(setup.bars)
             ELSE FirstOf(roles.a, Large(setup.bars)) /\ FirstOf(roles.b, Mem(setup.bars) \ {roles.a})
      BY <2>1, <3>1, SetupTypes, AssignedAsDescribed
    <3> QED BY <2>2, <3>2 DEF WindowsAsDescribed, FirstOf, Io, Large
  <2>3. CASE ~AllAutomatic
    <3> DEFINE w == Overridden(setup.bars, setup.over)
    <3>1. /\ w.port # None => roles.port = w.port
          /\ w.b # None => roles.b = w.b
          /\ roles.a # None => roles.a \in Mem(setup.bars) \cup {w.a}
      BY <2>1, SetupTypes, AssignedSound
    <3>2. \A r \in {"port", "a", "b"} : w[r] # None => w[r] = setup.over[r]
      BY SetupTypes, OverriddenRoles
    <3>3. roles \in Roles BY <2>1, SetupTypes, AssignedSound
    <3>4. \A r \in {"port", "b"} : w[r] # None => roles[r] = setup.over[r]
      BY <3>1, <3>2
    <3>5. roles.a # None => roles.a \in Mem(setup.bars) \cup {setup.over.a}
      <4>1. roles.a # None /\ roles.a = w.a => w.a = setup.over.a BY <3>2
      <4> QED BY <3>1, <4>1
    <3> QED BY <2>3, <3>4, <3>5 DEF WindowsAsDescribed
  <2> QED BY <2>2, <2>3
<1> QED BY <1>1, ConfiguredAlways, PTL

\* Whatever the card address, an access through motu424_addr() stays inside
\* the BAR it is sent to, if that BAR is as long as the driver takes it to be.
THEOREM DispatchCorrect == Spec => []DispatchStaysInside
<1>1. Configured => DispatchStaysInside
  <2> SUFFICES ASSUME Configured, roles.b # None, AllAutomatic,
                      \A i \in Mem(setup.bars) : setup.bars[i].len >= WinBLen,
                      NEW addr \in 0 .. 4 * WinALen - 1
               PROVE  /\ setup.bars[Dispatch(roles, addr).bar].kind = "mem"
                      /\ Dispatch(roles, addr).off < setup.bars[Dispatch(roles, addr).bar].len
    BY DEF DispatchStaysInside
  <2>1. roles = AssignWindows(setup.bars, setup.over, setup.pcie) /\ setup.bars \in Bars
    BY SetupTypes
  <2>2. \A r \in {"port", "a", "b"} : setup.over[r] = None
    BY SetupTypes DEF AllAutomatic
  <2>3. IF \E i \in Mem(setup.bars) : Mem(setup.bars) = {i} THEN roles.a = None /\ roles.b \in Mem(setup.bars)
        ELSE FirstOf(roles.a, Large(setup.bars)) /\ FirstOf(roles.b, Mem(setup.bars) \ {roles.a})
    BY <2>1, <2>2, SetupTypes, AssignedAsDescribed
  <2>4. roles.b \in Mem(setup.bars) /\ (roles.a # None => roles.a \in Large(setup.bars))
    BY <2>3 DEF FirstOf
  <2>5. /\ WinALen \in Nat \ {0} /\ WinBLen \in Nat \ {0} /\ addr \in Int
        /\ addr % WinALen < WinALen /\ addr % WinBLen < WinBLen
        /\ addr % WinALen \in Int /\ addr % WinBLen \in Int
    BY WindowsAssumption
  <2>6. \A i \in Mem(setup.bars) : setup.bars[i].kind = "mem" /\ setup.bars[i].len \in Nat
    BY <2>1 DEF Mem, Bars
  <2>7. \A i \in Large(setup.bars) : i \in Mem(setup.bars) /\ setup.bars[i].len >= WinALen
    BY DEF Large
  <2>8. CASE addr \div WinALen = TagA /\ roles.a # None
    <3>1. Dispatch(roles, addr).bar = roles.a /\ Dispatch(roles, addr).off = addr % WinALen
      BY <2>8 DEF Dispatch
    <3> QED BY <2>4, <2>5, <2>6, <2>7, <2>8, <3>1
  <2>9. CASE ~(addr \div WinALen = TagA /\ roles.a # None)
    <3>1. Dispatch(roles, addr).bar = roles.b /\ Dispatch(roles, addr).off = addr % WinBLen
      BY <2>9 DEF Dispatch
    <3> QED BY <2>4, <2>5, <2>6, <3>1
  <2> QED BY <2>8, <2>9
<1> QED BY <1>1, ConfiguredAlways, PTL

=============================================================================
