---------------------------- MODULE PatchbayProofs ----------------------------
(***************************************************************************)
(* Proofs about Patchbay, for any interfaces, rigs, rate families and      *)
(* depth of the undo stack: the page keeps to its card, "unpatch all" is   *)
(* one undo step, and a snapshot file is restored whole.                   *)
(***************************************************************************)
EXTENDS Patchbay, SequenceTheorems, FiniteSetTheorems, TLAPS

---------------------------------------------------------------------------
(* The undo stack.                                                         *)

Stack(s) == s \in Seq({s[i] : i \in DOMAIN s})

\* A sequence of anything is a stack.
LEMMA SequencesAreStacks ==
  ASSUME NEW S, NEW s \in Seq(S)
  PROVE  Stack(s)
<1>1. Len(s) \in Nat /\ DOMAIN s = 1 .. Len(s) /\ s \in [1 .. Len(s) -> S]
  BY LenProperties
<1>2. s \in [1 .. Len(s) -> {s[i] : i \in DOMAIN s}]
  BY <1>1
<1> QED BY <1>1, <1>2 DEF Stack

\* What is pushed is on top, and what overflows is taken from the bottom.
LEMMA PushedOnTop ==
  ASSUME NEW s, Stack(s), NEW e, NEW depth \in Nat \ {0}
  PROVE  LET t == Append(s, e)
             u == IF Len(t) > depth THEN SubSeq(t, Len(t) - depth + 1, Len(t)) ELSE t
         IN  Stack(u) /\ u[Len(u)] = e
<1> DEFINE R == {s[i] : i \in DOMAIN s} \cup {e}
           t == Append(s, e)
<1>1. s \in Seq(R) /\ e \in R /\ Len(s) \in Nat
  <2>1. s \in Seq({s[i] : i \in DOMAIN s})
    BY DEF Stack
  <2> QED BY <2>1, SeqMonotonic, LenProperties
<1>2. t \in Seq(R) /\ Len(t) = Len(s) + 1 /\ t[Len(t)] = e
  BY <1>1, AppendProperties
<1> HIDE DEF t, R
<1>3. CASE Len(t) > depth
  <2> DEFINE m == Len(t) - depth + 1
             u == SubSeq(t, m, Len(t))
  <2>1. m \in 1 .. Len(t) /\ Len(t) \in Int
    BY <1>1, <1>2, <1>3
  <2>2. \A i \in m .. Len(t) : t[i] \in R
    BY <1>2, <2>1, ElementOfSeq
  <2> HIDE DEF m
  <2>3. u \in Seq(R) /\ Len(u) = Len(t) - m + 1 /\ u[Len(t) - m + 1] = t[m + (Len(t) - m + 1) - 1]
    BY <2>1, <2>2, SubSeqProperties
  <2>4. m + (Len(t) - m + 1) - 1 = Len(t)
    BY <2>1
  <2>5. Stack(u) /\ u[Len(u)] = e
    BY <1>2, <2>3, <2>4, SequencesAreStacks
  <2> QED BY <1>3, <2>5 DEF m, t
<1>4. CASE ~(Len(t) > depth)
  BY <1>2, <1>4, SequencesAreStacks DEF t
<1> QED BY <1>3, <1>4

\* What is left when the top is taken is a stack.
LEMMA PoppedIsStack ==
  ASSUME NEW s, Stack(s), s # <<>>
  PROVE  Stack(SubSeq(s, 1, Len(s) - 1))
<1> DEFINE R == {s[i] : i \in DOMAIN s}
<1>1. s \in Seq(R) /\ Len(s) \in Nat
  BY LenProperties DEF Stack
<1>2. \A i \in 1 .. Len(s) - 1 : s[i] \in R
  BY <1>1, ElementOfSeq
<1> HIDE DEF R
<1>3. SubSeq(s, 1, Len(s) - 1) \in Seq(R)
  BY <1>1, <1>2, SubSeqProperties
<1> QED BY <1>3, SequencesAreStacks

---------------------------------------------------------------------------
(* The invariant: the page and the card are functions on the controls of   *)
(* their families.                                                         *)

OnControls(values, f) ==
  DOMAIN values = Controls(f) /\ values = [c \in Controls(f) |-> values[c]]

IInv ==
  /\ PageIsCards
  /\ OnControls(byname, page)
  /\ OnControls(card, fam)
  /\ Stack(undo)

\* Setting some controls leaves a function on the same ones.
LEMMA OverOnControls ==
  ASSUME NEW p, NEW values, NEW f, OnControls(values, f)
  PROVE  OnControls(Over(p, values), f)
BY DEF OnControls, Over

\* A card of another family is a function on that family's controls.
LEMMA ReplacedOnControls ==
  ASSUME NEW f, NEW old
  PROVE  OnControls(Replaced(f, old), f)
BY DEF OnControls, Replaced

\* Writing controls on the page keeps it in step with a card that is its own,
\* and does not touch one that is not (_apply).
LEMMA WritingKeeps ==
  ASSUME IInv, NEW p, Written(p), UNCHANGED <<rig, fam, page, split>>, queued => queued'
  PROVE  PageIsCards' /\ OnControls(byname, page)' /\ OnControls(card, fam)'
<1>1. OnControls(Over(p, byname), page) /\ OnControls(Over(p, card), fam)
  BY OverOnControls DEF IInv
<1>2. byname' = Over(p, byname) /\ card' \in {card, Over(p, card)}
  BY DEF Written
<1>3. PageIsCards'
  BY DEF IInv, PageIsCards, Written
<1>4. OnControls(byname, page)'
  BY <1>1, <1>2 DEF OnControls, Controls, Outs
<1>5. OnControls(card, fam)'
  BY <1>1, <1>2 DEF IInv, OnControls, Controls, Outs
<1> QED BY <1>3, <1>4, <1>5

\* So does writing controls among which is the rate: a change of family leaves
\* the page behind and asks for a reload (_on_rate, _apply_snapshot).
LEMMA WritingAroundKeeps ==
  ASSUME IInv, NEW p, NEW last, WrittenAround(p, last), UNCHANGED <<rig, page>>
  PROVE  PageIsCards' /\ OnControls(byname, page)' /\ OnControls(card, fam)'
<1> DEFINE rate == IF Rate \in DOMAIN p THEN p[Rate] ELSE fam
           moved == rate # fam
           heard == [c \in {c \in DOMAIN p : ~moved \/ BeforeRate(c, last)} |-> p[c]]
           reached == IF split THEN card ELSE Over(heard, card)
<1>1. /\ byname' = Over(p, byname)
      /\ card' = IF moved THEN Replaced(rate, reached) ELSE reached
      /\ fam' = rate /\ split' = (split \/ moved) /\ queued' = (queued \/ moved)
  BY DEF WrittenAround
<1>2. /\ OnControls(Over(p, byname), page) /\ OnControls(Over(heard, card), fam)
      /\ OnControls(card, fam) /\ OnControls(Replaced(rate, reached), rate)
  BY OverOnControls, ReplacedOnControls DEF IInv
<1>6. ~moved => Over(heard, card) = Over(p, card)
  <2> SUFFICES ASSUME ~moved PROVE Over(heard, card) = Over(p, card)
    OBVIOUS
  <2>1. DOMAIN heard = DOMAIN p /\ \A c \in DOMAIN p : heard[c] = p[c]
    OBVIOUS
  <2> HIDE DEF heard
  <2> QED BY <2>1 DEF Over
<1> HIDE DEF heard
<1>3. PageIsCards'
  BY <1>1, <1>6 DEF IInv, PageIsCards
<1>4. OnControls(byname, page)'
  BY <1>1, <1>2 DEF OnControls, Controls, Outs
<1>5. OnControls(card, fam)'
  <2>1. CASE moved
    BY <1>1, <1>2, <2>1 DEF OnControls, Controls, Outs
  <2>2. CASE ~moved
    BY <1>1, <1>2, <2>2 DEF OnControls, Controls, Outs
  <2> QED BY <2>1, <2>2
<1> QED BY <1>3, <1>4, <1>5

\* The invariant holds of every behaviour.
LEMMA Invariance == Spec => []IInv
<1>1. Init => IInv
  <2> SUFFICES ASSUME Init PROVE IInv
    OBVIOUS
  <2>1. Stack(undo)
    BY SequencesAreStacks, EmptySeq DEF Init
  <2>2. \A on : OnControls([DemoControls(1) EXCEPT ![Switch] = on], 1)
    BY DEF OnControls, DemoControls
  <2> QED BY <2>1, <2>2 DEF Init, IInv, PageIsCards
<1>2. IInv /\ [Next]_vars => IInv'
  <2> SUFFICES ASSUME IInv, [Next]_vars PROVE IInv'
    OBVIOUS
  <2>1. ASSUME UNCHANGED <<rig, fam, card, page, byname, split, undo>>, queued => queued' PROVE IInv'
    BY <2>1 DEF IInv, PageIsCards, OnControls, Controls, Outs
  <2>2. ASSUME NEW p, Written(p), UNCHANGED <<rig, fam, page, split>>, queued => queued', Stack(undo)'
        PROVE  IInv'
    BY <2>2, WritingKeeps DEF IInv
  <2>3. ASSUME NEW p, NEW last, WrittenAround(p, last), UNCHANGED <<rig, page>>, Stack(undo)'
        PROVE  IInv'
    BY <2>3, WritingAroundKeeps DEF IInv
  <2>4. \A p, last : Stack(Remembered(p, last))
    <3> TAKE p, last
    <3> DEFINE e == [old |-> Previous(p), order |-> last]
    <3>1. Stack(undo) /\ UndoDepth \in Nat \ {0}
      BY PatchbayAssumption DEF IInv
    <3> HIDE DEF e
    <3>2. LET t == Append(undo, e)
              u == IF Len(t) > UndoDepth THEN SubSeq(t, Len(t) - UndoDepth + 1, Len(t)) ELSE t
          IN  Stack(u) /\ u[Len(u)] = e
      BY <3>1, PushedOnTop
    <3> QED BY <3>1, <3>2 DEF Remembered, e
  <2>5. ASSUME NEW jack \in Grabbed, Begin(jack) PROVE IInv'
    BY <2>1, <2>5 DEF Begin
  <2>6. ASSUME NEW t, NEW sid, Plugged(t, sid) PROVE IInv'
    BY <2>2, <2>6 DEF Plugged, PatchSet, IInv
  <2>7. ASSUME NEW jack \in Grabbed, End(jack) PROVE IInv'
    BY <2>6, <2>7 DEF End
  <2>8. ASSUME Dropped PROVE IInv'
    BY <2>1, <2>8 DEF Dropped
  <2>9. ASSUME NEW t, DoubleClick(t) PROVE IInv'
    BY <2>2, <2>9 DEF DoubleClick, PatchSet, IInv
  <2>10. ASSUME NEW t, Stereo(t) PROVE IInv'
    BY <2>2, <2>10 DEF Stereo, IInv
  <2>11. ASSUME UnpatchAll PROVE IInv'
    BY <2>2, <2>4, <2>11 DEF UnpatchAll
  <2>12. ASSUME NEW b \in Buttons, Press(b) PROVE IInv'
    BY <2>2, <2>12 DEF Press, IInv
  <2>13. ASSUME NEW f \in Families, SetRate(f) PROVE IInv'
    BY <2>3, <2>13 DEF SetRate, IInv
  <2>14. ASSUME Store PROVE IInv'
    BY <2>1, <2>14 DEF Store
  <2>15. ASSUME NEW p, NEW last, ApplySnapshot(p, last) PROVE IInv'
    BY <2>3, <2>4, <2>15 DEF ApplySnapshot
  <2>16. ASSUME LoadFile \/ RecallScene PROVE IInv'
    BY <2>15, <2>16 DEF LoadFile, RecallScene
  <2>17. ASSUME Undo PROVE IInv'
    BY <2>3, <2>17, PoppedIsStack DEF Undo, IInv
  <2>18. ASSUME Reload PROVE IInv'
    BY <2>18 DEF Reload, IInv, PageIsCards, OnControls, Controls, Outs
  <2>19. CASE UNCHANGED vars
    BY <2>1, <2>19 DEF vars
  <2> QED BY <2>5, <2>7, <2>8, <2>9, <2>10, <2>11, <2>12, <2>13, <2>14, <2>16, <2>17, <2>18,
             <2>19 DEF Next
<1> QED BY <1>1, <1>2, PTL DEF Spec

---------------------------------------------------------------------------
(* Theorems.                                                               *)

\* The page edits the controls of the card it shows, or a reload is on its way
\* (_apply, _on_rate, the demo card's replacement).
THEOREM PageCorrect == Spec => []PageIsCards
<1>1. IInv => PageIsCards
  BY DEF IInv
<1> QED BY <1>1, Invariance, PTL

\* unpatch_all leaves every output at its normal, and the newest undo entry
\* holds exactly what it changed.
THEOREM UnpatchCorrect == Spec => UnpatchIsOneUndo
<1>1. ASSUME IInv, UnpatchAll
      PROVE  /\ \A t \in Outs(page) : byname'[Src(t)] = Normals[t]
             /\ Over(undo'[Len(undo')].old, byname') = byname
  <2> DEFINE p == Unpatched
             patched == {t \in DOMAIN Normals : byname[Src(t)] # Normals[t]}
  <2>1. /\ DOMAIN Normals = Outs(page) /\ DOMAIN p = {Src(t) : t \in patched}
        /\ \A c \in DOMAIN p : p[c] = Normals[c[2]]
    BY DEF Normals, Unpatched
  <2>2. /\ DOMAIN byname = Controls(page) /\ byname = [c \in DOMAIN byname |-> byname[c]]
        /\ Stack(undo) /\ UndoDepth \in Nat \ {0}
    BY <1>1, PatchbayAssumption DEF IInv, OnControls
  <2>3. \A t \in Outs(page) : Src(t) \in DOMAIN byname /\ Src(t)[2] = t
    BY <2>2 DEF Controls, Src
  <2>4. byname' = Over(p, byname) /\ undo' = Remembered(p, "file") /\ DOMAIN p # {}
    BY <1>1 DEF UnpatchAll, Written
  <2>5. DOMAIN p \subseteq DOMAIN byname
    BY <2>1, <2>3
  <2> HIDE DEF p
  <2>6. \A t \in Outs(page) : byname'[Src(t)] = Normals[t]
    <3> TAKE t \in Outs(page)
    <3>1. byname'[Src(t)] = IF Src(t) \in DOMAIN p THEN p[Src(t)] ELSE byname[Src(t)]
      BY <2>3, <2>4 DEF Over
    <3>2. CASE t \in patched
      BY <2>1, <2>3, <3>1, <3>2
    <3>3. CASE t \notin patched
      <4>1. Src(t) \notin DOMAIN p
        BY <2>1, <2>3, <3>3
      <4> QED BY <2>1, <3>1, <3>3, <4>1
    <3> QED BY <3>2, <3>3
  <2>7. undo'[Len(undo')].old = Previous(p)
    <3> DEFINE e == [old |-> Previous(p), order |-> "file"]
    <3> HIDE DEF e
    <3>1. LET t == Append(undo, e)
              u == IF Len(t) > UndoDepth THEN SubSeq(t, Len(t) - UndoDepth + 1, Len(t)) ELSE t
          IN  Stack(u) /\ u[Len(u)] = e
      BY <2>2, PushedOnTop
    <3>2. DOMAIN Previous(p) # {}
      BY <2>4, <2>5 DEF Previous
    <3>3. undo'[Len(undo')] = e
      BY <2>4, <3>1, <3>2 DEF Remembered, e
    <3> QED BY <3>3 DEF e
  <2>8. Over(Previous(p), Over(p, byname)) = byname
    BY <2>2, <2>5 DEF Over, Previous
  <2> QED BY <2>4, <2>6, <2>7, <2>8
<1>2. IInv /\ [Next]_vars =>
        [UNCHANGED <<drag, stored, queued>> /\ UnpatchAll =>
           /\ \A t \in Outs(page) : byname'[Src(t)] = Normals[t]
           /\ Over(undo'[Len(undo')].old, byname') = byname]_vars
  BY <1>1
<1> QED BY <1>2, Invariance, PTL DEF Spec, UnpatchIsOneUndo

\* _snap_load_done restores every control the page and the card share, but for
\* talkback when the file changes the rate family: the card keeps its own.
THEOREM LoadCorrect == Spec => LoadRestores
<1>1. ASSUME IInv, LoadFile, ~split,
             NEW c \in DOMAIN stored \cap DOMAIN byname \cap DOMAIN card'
      PROVE  card'[c] = IF fam' # fam /\ c = Talk THEN card[c] ELSE stored[c]
  <2> DEFINE p == Shown(stored)
             rate == IF Rate \in DOMAIN p THEN p[Rate] ELSE fam
             moved == rate # fam
             heard == [k \in {k \in DOMAIN p : ~moved \/ BeforeRate(k, "file")} |-> p[k]]
  <2>1. /\ card' = IF moved THEN Replaced(rate, Over(heard, card)) ELSE Over(heard, card)
        /\ fam' = rate
    BY <1>1 DEF LoadFile, ApplySnapshot, WrittenAround
  <2>2. byname = card
    BY <1>1 DEF IInv, PageIsCards
  <2>3. c \in DOMAIN p /\ p[c] = stored[c] /\ c \in DOMAIN card
    BY <1>1, <2>2 DEF Shown
  <2>4. /\ c \in DOMAIN Over(heard, card)
        /\ Over(heard, card)[c] = IF moved /\ c \in {Rate, Talk} THEN card[c] ELSE stored[c]
    <3>1. /\ c \in DOMAIN heard <=> ~(moved /\ c \in {Rate, Talk})
          /\ c \in DOMAIN heard => heard[c] = stored[c]
      BY <2>3 DEF BeforeRate
    <3> HIDE DEF p, rate, heard
    <3> QED BY <2>3, <3>1 DEF Over
  <2>5. CASE moved
    <3>1. c \in Controls(rate)
      BY <1>1, <2>1, <2>5 DEF Replaced
    <3>2. c = Rate => rate = stored[c]
      BY <2>3
    <3>3. Talk # Rate
      <4>1. Talk[1] = "Talkback" /\ Rate[1] = "Sample Rate"
        BY DEF Talk, Rate
      <4> QED BY <4>1
    <3>4. card'[c] = IF c = Rate THEN rate ELSE Over(heard, card)[c]
      <4> HIDE DEF p, rate, heard
      <4> QED BY <2>1, <2>4, <2>5, <3>1 DEF Replaced
    <3> HIDE DEF p, rate, heard
    <3> QED BY <2>1, <2>4, <2>5, <3>2, <3>3, <3>4
  <2>6. CASE ~moved
    <3> HIDE DEF p, rate, heard
    <3> QED BY <2>1, <2>4, <2>6
  <2> QED BY <2>5, <2>6
<1>2. IInv /\ [Next]_vars =>
        [LoadFile /\ ~split =>
           \A c \in DOMAIN stored \cap DOMAIN byname \cap DOMAIN card' :
             card'[c] = IF fam' # fam /\ c = Talk THEN card[c] ELSE stored[c]]_vars
  BY <1>1
<1> QED BY <1>2, Invariance, PTL DEF Spec, LoadRestores

---------------------------------------------------------------------------
(* The order of outputs.                                                   *)

\* Every slot in use has an interface of the table.
Fitted == \A s \in DOMAIN rig : s \in Slots /\ \E n \in DOMAIN Ifaces : rig[s] = Ifaces[n]

\* Ranks are numbers.
LEMMA RanksAreNumbers ==
  ASSUME NEW bank \in DOMAIN Rank
  PROVE  Rank[bank] \in Int
<1>1. DOMAIN BankOrder = 1 .. 7
  BY DEF BankOrder
<1>2. \E r \in DOMAIN BankOrder : BankOrder[r] = bank
  BY DEF Rank
<1>3. Rank[bank] \in DOMAIN BankOrder
  BY <1>2 DEF Rank
<1> QED BY <1>1, <1>3

\* An output is one of a row of its slot's table, and has the row's bank.
LEMMA OutputsHaveRows ==
  ASSUME Fitted, NEW f, NEW t \in Outs(f)
  PROVE  /\ t.slot \in DOMAIN rig /\ t.slot \in Int
         /\ t.row \in DOMAIN rig[t.slot] /\ t.row \in Int
         /\ t.bank = rig[t.slot][t.row].bank /\ Rank[t.bank] \in Int
         /\ \A b \in DOMAIN rig[t.slot] : b \in Int /\ (b < t.row => Rank[rig[t.slot][b].bank] < Rank[t.bank])
<1>0. PICK s \in DOMAIN rig : \E b \in DOMAIN rig[s] : \E i \in 0 .. BankCount(rig[s][b].bank, rig[s][b].outs, f) - 1 :
        t = [slot |-> s, bank |-> rig[s][b].bank, row |-> b, idx |-> i]
  BY DEF Outs, Outputs
<1>1. PICK b \in DOMAIN rig[s] : \E i : t = [slot |-> s, bank |-> rig[s][b].bank, row |-> b, idx |-> i]
  BY <1>0
<1>2. PICK n \in DOMAIN Ifaces : rig[s] = Ifaces[n]
  BY DEF Fitted
<1>3. s \in Int
  BY DEF Fitted, Slots
<1>4. /\ b \in DOMAIN Ifaces[n] /\ DOMAIN Ifaces[n] \subseteq Nat
      /\ Ifaces[n][b].bank \in DOMAIN Rank
      /\ \A c \in DOMAIN Ifaces[n] : c < b => Rank[Ifaces[n][c].bank] < Rank[Ifaces[n][b].bank]
  BY <1>2, ChannelsAssumption
<1>5. Rank[Ifaces[n][b].bank] \in Int
  BY <1>4, RanksAreNumbers
<1> QED BY <1>1, <1>2, <1>3, <1>4, <1>5

\* The console's order of outputs is the card's (tok_sort, demo_controls).
LEMMA OrdersAgree ==
  ASSUME Fitted, NEW f, NEW t \in Outs(f), NEW u \in Outs(f)
  PROVE  SortsBefore(u, t) <=> ListedBefore(u, t)
<1>1. CASE u.slot # t.slot
  BY <1>1 DEF SortsBefore, ListedBefore
<1>2. CASE u.slot = t.slot
  <2>1. /\ t.row \in DOMAIN rig[t.slot] /\ u.row \in DOMAIN rig[t.slot]
        /\ t.row \in Int /\ u.row \in Int /\ Rank[t.bank] \in Int /\ Rank[u.bank] \in Int
        /\ t.bank = rig[t.slot][t.row].bank /\ u.bank = rig[t.slot][u.row].bank
        /\ t.slot \in Int
    BY <1>2, OutputsHaveRows
  <2>2. u.row < t.row => Rank[u.bank] < Rank[t.bank]
    BY <1>2, <2>1, OutputsHaveRows
  <2>3. t.row < u.row => Rank[t.bank] < Rank[u.bank]
    BY <1>2, <2>1, OutputsHaveRows
  <2>4. u.row < t.row <=> Rank[u.bank] < Rank[t.bank]
    BY <2>1, <2>2, <2>3
  <2>5. u.row = t.row <=> u.bank = t.bank
    BY <2>1, <2>2, <2>3
  <2> QED BY <1>2, <2>1, <2>4, <2>5 DEF SortsBefore, ListedBefore
<1> QED BY <1>1, <1>2

\* A rig is fitted once and for all, by --rig.
LEMMA FittedAlways == Spec => []Fitted
<1>1. Init => Fitted
  BY DEF Init, Fitted, RigOf, IsRig, Slots
<1>2. Fitted /\ [Next]_vars => Fitted'
  <2> SUFFICES ASSUME Fitted, [Next]_vars PROVE rig' = rig
    BY DEF Fitted
  <2> QED BY DEF Next, Begin, End, Plugged, Dropped, DoubleClick, Stereo, UnpatchAll, Press, SetRate,
                 Store, LoadFile, RecallScene, ApplySnapshot, Undo, Reload, vars
<1> QED BY <1>1, <1>2, PTL DEF Spec

\* For every table whose banks are in order, every rig of it and every family,
\* the console numbers an output's feed as the card does (pcm_of).
THEOREM EnumerationsCorrect == Spec => []EnumerationsAgree
<1>1. Spec => []Fitted
  BY FittedAlways
<1>3. Fitted => EnumerationsAgree
  <2> SUFFICES ASSUME Fitted, NEW t \in Outs(page)
               PROVE  PcmOf(Outs(page), t) = CardPcm(Outs(page), t)
    BY DEF EnumerationsAgree
  <2>1. {u \in Outs(page) : SortsBefore(u, t)} = {u \in Outs(page) : ListedBefore(u, t)}
    BY OrdersAgree
  <2> QED BY <2>1 DEF PcmOf, CardPcm
<1> QED BY <1>1, <1>3, PTL

---------------------------------------------------------------------------
(* Pairs of outputs.                                                       *)

\* A bank keeps whole pairs in every family (bank_count).
LEMMA WholePairs ==
  ASSUME NEW bank, NEW n \in Nat, n % 2 = 0, NEW f \in Nat \ {0}
  PROVE  BankCount(bank, n, f) \in Nat /\ BankCount(bank, n, f) % 2 = 0
<1> DEFINE half == n \div f
<1>1. half \in Int
  OBVIOUS
<1> HIDE DEF half
<1>2. half >= 2 => half - (half % 2) \in Nat /\ (half - (half % 2)) % 2 = 0
  BY <1>1
<1>3. BankCount(bank, n, f) \in {n, 2} \/ (half >= 2 /\ BankCount(bank, n, f) = half - (half % 2))
  BY <1>1 DEF BankCount, half
<1> QED BY <1>2, <1>3

\* An output is its four fields, and its place is one of its bank's.
LEMMA OutputIs ==
  ASSUME Fitted, NEW f \in Nat \ {0}, NEW t \in Outs(f)
  PROVE  /\ t = [slot |-> t.slot, bank |-> t.bank, row |-> t.row, idx |-> t.idx]
         /\ \E count \in Nat :
              /\ count % 2 = 0 /\ t.idx \in 0 .. count - 1
              /\ \A j \in 0 .. count - 1 :
                   [slot |-> t.slot, bank |-> t.bank, row |-> t.row, idx |-> j] \in Outs(f)
<1>1. PICK s \in DOMAIN rig : \E b \in DOMAIN rig[s] : \E i \in 0 .. BankCount(rig[s][b].bank, rig[s][b].outs, f) - 1 :
        t = [slot |-> s, bank |-> rig[s][b].bank, row |-> b, idx |-> i]
  BY DEF Outs, Outputs
<1>2. PICK b \in DOMAIN rig[s] : \E i \in 0 .. BankCount(rig[s][b].bank, rig[s][b].outs, f) - 1 :
        t = [slot |-> s, bank |-> rig[s][b].bank, row |-> b, idx |-> i]
  BY <1>1
<1> DEFINE count == BankCount(rig[s][b].bank, rig[s][b].outs, f)
<1>3. PICK i \in 0 .. count - 1 : t = [slot |-> s, bank |-> rig[s][b].bank, row |-> b, idx |-> i]
  BY <1>2
<1>4. count \in Nat /\ count % 2 = 0
  <2>1. PICK n \in DOMAIN Ifaces : rig[s] = Ifaces[n]
    BY DEF Fitted
  <2>2. rig[s][b].outs \in Nat
    BY <2>1, ChannelsAssumption
  <2>3. rig[s][b].outs % 2 = 0
    BY <2>1, PairsAssumption
  <2> QED BY <2>2, <2>3, WholePairs
<1>5. \A j \in 0 .. count - 1 : [slot |-> s, bank |-> rig[s][b].bank, row |-> b, idx |-> j] \in Outs(f)
  BY DEF Outs, Outputs
<1> HIDE DEF count
<1>6. t.slot = s /\ t.bank = rig[s][b].bank /\ t.row = b /\ t.idx = i
  BY <1>3
<1> QED BY <1>3, <1>4, <1>5, <1>6

\* Both halves of an output's pair are outputs (tok_partner).
LEMMA HalvesAreOutputs ==
  ASSUME Fitted, NEW f \in Nat \ {0}, NEW t \in Outs(f), NEW parity \in {0, 1}
  PROVE  /\ t.idx \in Nat
         /\ Half(t, parity) \in Outs(f)
         /\ Half(t, parity).slot = t.slot /\ Half(t, parity).bank = t.bank /\ Half(t, parity).row = t.row
         /\ Half(t, parity).idx = t.idx - (t.idx % 2) + parity
<1>1. PICK count \in Nat :
        /\ count % 2 = 0 /\ t.idx \in 0 .. count - 1
        /\ \A j \in 0 .. count - 1 : [slot |-> t.slot, bank |-> t.bank, row |-> t.row, idx |-> j] \in Outs(f)
  BY OutputIs
<1> DEFINE j == t.idx - (t.idx % 2) + parity
<1>2. t.idx \in Nat /\ j \in 0 .. count - 1
  BY <1>1
<1> HIDE DEF j
<1>3. Half(t, parity) = [slot |-> t.slot, bank |-> t.bank, row |-> t.row, idx |-> j]
  BY OutputIs DEF Half, j
<1> QED BY <1>1, <1>2, <1>3 DEF j

\* Outputs with the same fields are the same.
LEMMA SameOutput ==
  ASSUME Fitted, NEW f \in Nat \ {0}, NEW t \in Outs(f), NEW u \in Outs(f),
         t.slot = u.slot, t.bank = u.bank, t.row = u.row, t.idx = u.idx
  PROVE  t = u
<1>1. /\ t = [slot |-> t.slot, bank |-> t.bank, row |-> t.row, idx |-> t.idx]
      /\ u = [slot |-> u.slot, bank |-> u.bank, row |-> u.row, idx |-> u.idx]
  BY OutputIs
<1> QED BY <1>1

\* An output is the half of its pair that its parity says.
LEMMA OwnHalf ==
  ASSUME Fitted, NEW f \in Nat \ {0}, NEW t \in Outs(f)
  PROVE  t.idx % 2 \in {0, 1} /\ t = Half(t, t.idx % 2)
<1>1. t.idx \in Nat
  BY HalvesAreOutputs
<1>2. t.idx % 2 \in {0, 1}
  BY <1>1
<1> DEFINE h == Half(t, t.idx % 2)
<1>3. /\ h \in Outs(f) /\ h.slot = t.slot /\ h.bank = t.bank /\ h.row = t.row
      /\ h.idx = t.idx - (t.idx % 2) + (t.idx % 2)
  BY <1>2, HalvesAreOutputs
<1> HIDE DEF h
<1>4. h.idx = t.idx
  BY <1>1, <1>3
<1> QED BY <1>2, <1>3, <1>4, SameOutput DEF h

\* What a function takes from a finite set is finite.
LEMMA FiniteImage ==
  ASSUME NEW S, IsFiniteSet(S), NEW g, g = [x \in S |-> g[x]]
  PROVE  IsFiniteSet({g[x] : x \in S})
<1> DEFINE T == {g[x] : x \in S}
<1>1. g \in Surjection(S, T)
  BY DEF Surjection
<1> QED BY <1>1, FS_Surjection

\* A rig has finitely many outputs.
LEMMA FiniteOutputs ==
  ASSUME Fitted, NEW f \in Nat \ {0}
  PROVE  IsFiniteSet(Outs(f))
<1> DEFINE count(s, b) == BankCount(rig[s][b].bank, rig[s][b].outs, f)
           inRow(s, b) == {[slot |-> s, bank |-> rig[s][b].bank, row |-> b, idx |-> i] : i \in 0 .. count(s, b) - 1}
           inSlot(s) == UNION {inRow(s, b) : b \in DOMAIN rig[s]}
<1>1. ASSUME NEW s \in DOMAIN rig, NEW b \in DOMAIN rig[s]
      PROVE  IsFiniteSet(inRow(s, b))
  <2>1. PICK n \in DOMAIN Ifaces : rig[s] = Ifaces[n]
    BY DEF Fitted
  <2>2. rig[s][b].outs \in Nat /\ rig[s][b].outs % 2 = 0
    BY <2>1, ChannelsAssumption, PairsAssumption
  <2>3. count(s, b) - 1 \in Int
    BY <2>2, WholePairs
  <2> DEFINE I == 0 .. count(s, b) - 1
             g == [i \in I |-> [slot |-> s, bank |-> rig[s][b].bank, row |-> b, idx |-> i]]
  <2>4. IsFiniteSet(I)
    BY <2>3, FS_Interval
  <2>5. inRow(s, b) = {g[i] : i \in I} /\ g = [i \in I |-> g[i]]
    OBVIOUS
  <2> HIDE DEF I, g
  <2> QED BY <2>4, <2>5, FiniteImage
<1>2. ASSUME NEW s \in DOMAIN rig
      PROVE  IsFiniteSet(inSlot(s))
  <2>1. PICK n \in DOMAIN Ifaces : rig[s] = Ifaces[n]
    BY DEF Fitted
  <2>2. IsFiniteSet(DOMAIN rig[s])
    BY <2>1, ChannelsAssumption
  <2> DEFINE g == [b \in DOMAIN rig[s] |-> inRow(s, b)]
             rows == {g[b] : b \in DOMAIN rig[s]}
  <2>3. g = [b \in DOMAIN rig[s] |-> g[b]] /\ rows = {inRow(s, b) : b \in DOMAIN rig[s]}
    OBVIOUS
  <2>4. \A T \in rows : IsFiniteSet(T)
    BY <1>1
  <2>5. IsFiniteSet(rows)
    <3> HIDE DEF g
    <3> QED BY <2>2, <2>3, FiniteImage
  <2> HIDE DEF rows
  <2>6. IsFiniteSet(UNION rows)
    BY <2>4, <2>5, FS_UNION
  <2> QED BY <2>3, <2>6
<1>3. IsFiniteSet(DOMAIN rig)
  <2>1. DOMAIN rig \in SUBSET (1 .. 4)
    BY DEF Fitted, Slots
  <2>2. IsFiniteSet(1 .. 4)
    <3>1. 1 \in Int /\ 4 \in Int
      OBVIOUS
    <3> QED BY <3>1, FS_Interval
  <2> QED BY <2>1, <2>2, FS_Subset
<1> DEFINE g == [s \in DOMAIN rig |-> inSlot(s)]
           all == {g[s] : s \in DOMAIN rig}
<1>4. g = [s \in DOMAIN rig |-> g[s]] /\ all = {inSlot(s) : s \in DOMAIN rig}
  OBVIOUS
<1>5. \A T \in all : IsFiniteSet(T)
  BY <1>2
<1>6. IsFiniteSet(all)
  <2> HIDE DEF g
  <2> QED BY <1>3, <1>4, FiniteImage
<1>7. Outs(f) = UNION all
  BY DEF Outs, Outputs
<1> HIDE DEF all
<1> QED BY <1>5, <1>6, <1>7, FS_UNION

\* A set of outputs in which every output is with its other half.
Paired(S) == \A t \in S : Half(t, 0) \in S /\ Half(t, 1) \in S

\* Such a set has an even number of outputs: as many even ones as odd ones.
LEMMA PairedIsEven ==
  ASSUME Fitted, NEW f \in Nat \ {0}, NEW S \in SUBSET Outs(f), Paired(S)
  PROVE  IsFiniteSet(S) /\ Cardinality(S) \in Nat /\ Cardinality(S) % 2 = 0
<1> DEFINE E == {t \in S : t.idx % 2 = 0}
           O == {t \in S : t.idx % 2 = 1}
           g == [t \in E |-> Half(t, 1)]
<1>1. IsFiniteSet(S) /\ IsFiniteSet(E) /\ IsFiniteSet(O)
  <2>1. IsFiniteSet(S)
    BY FiniteOutputs, FS_Subset
  <2>2. E \in SUBSET S /\ O \in SUBSET S
    OBVIOUS
  <2> HIDE DEF E, O
  <2> QED BY <2>1, <2>2, FS_Subset
<1>2. ASSUME NEW t \in S
      PROVE  /\ t.idx \in Nat /\ t.idx % 2 \in {0, 1}
             /\ Half(t, 0) \in S /\ Half(t, 0).idx = t.idx - (t.idx % 2)
             /\ Half(t, 1) \in S /\ Half(t, 1).idx = t.idx - (t.idx % 2) + 1
  <2>1. /\ t.idx \in Nat
        /\ Half(t, 0).idx = t.idx - (t.idx % 2) + 0 /\ Half(t, 1).idx = t.idx - (t.idx % 2) + 1
    BY HalvesAreOutputs
  <2> QED BY <2>1 DEF Paired
<1>3. g \in [E -> O]
  BY <1>2
<1>4. \A t, u \in E : g[t] = g[u] => t = u
  <2> SUFFICES ASSUME NEW t \in E, NEW u \in E, Half(t, 1) = Half(u, 1) PROVE t = u
    OBVIOUS
  <2>1. t \in Outs(f) /\ u \in Outs(f) /\ t.idx \in Nat /\ u.idx \in Nat /\ t.idx % 2 = 0 /\ u.idx % 2 = 0
    BY <1>2
  <2>2. Half(t, 1).slot = t.slot /\ Half(t, 1).bank = t.bank /\ Half(t, 1).row = t.row
        /\ Half(t, 1).idx = t.idx - (t.idx % 2) + 1
    BY <2>1, HalvesAreOutputs
  <2>3. Half(u, 1).slot = u.slot /\ Half(u, 1).bank = u.bank /\ Half(u, 1).row = u.row
        /\ Half(u, 1).idx = u.idx - (u.idx % 2) + 1
    BY <2>1, HalvesAreOutputs
  <2>4. t.slot = u.slot /\ t.bank = u.bank /\ t.row = u.row /\ t.idx = u.idx
    BY <2>1, <2>2, <2>3
  <2> QED BY <2>1, <2>4, SameOutput
<1>5. \A u \in O : \E t \in E : g[t] = u
  <2> SUFFICES ASSUME NEW u \in O PROVE \E t \in E : Half(t, 1) = u
    OBVIOUS
  <2> DEFINE e == Half(u, 0)
             h == Half(e, 1)
  <2>1. e \in E /\ e.idx = u.idx - 1 /\ u.idx \in Nat /\ u.idx % 2 = 1
    BY <1>2
  <2>2. e \in Outs(f) /\ e.slot = u.slot /\ e.bank = u.bank /\ e.row = u.row
    BY HalvesAreOutputs
  <2> HIDE DEF e
  <2>3. /\ h \in Outs(f) /\ h.slot = e.slot /\ h.bank = e.bank /\ h.row = e.row
        /\ h.idx = e.idx - (e.idx % 2) + 1
    BY <2>2, HalvesAreOutputs
  <2> HIDE DEF h
  <2>4. h.idx = u.idx
    BY <2>1, <2>3
  <2>5. h = u
    BY <2>2, <2>3, <2>4, SameOutput
  <2> QED BY <2>1, <2>5 DEF h
<1>6. g \in Bijection(E, O)
  <2> HIDE DEF E, O, g
  <2> QED BY <1>3, <1>4, <1>5 DEF Bijection, Injection, IsInjective, Surjection
<1>7. S = E \cup O /\ E \cap O = {}
  BY <1>2
<1> HIDE DEF E, O, g
<1>8. Cardinality(E) = Cardinality(O) /\ Cardinality(E) \in Nat
  BY <1>1, <1>6, FS_Bijection, FS_CardinalityType DEF ExistsBijection
<1>9. Cardinality(S) = Cardinality(E) + Cardinality(E)
  BY <1>1, <1>7, <1>8, FS_Union, FS_EmptySet
<1> QED BY <1>1, <1>8, <1>9

\* An output's own feed is a feed of the card, an even one exactly for an even
\* output (pcm_of): pairs of outputs have pairs of feeds.
LEMMA FeedsKeepParity ==
  ASSUME Fitted, NEW f \in Nat \ {0}, NEW t \in Outs(f)
  PROVE  /\ Cardinality(Outs(f)) \in Nat /\ Cardinality(Outs(f)) % 2 = 0
         /\ PcmOf(Outs(f), t) \in 0 .. Cardinality(Outs(f)) - 1
         /\ PcmOf(Outs(f), t) % 2 = t.idx % 2
<1> DEFINE outs == Outs(f)
           e == Half(t, 0)
           before(u) == {v \in outs : SortsBefore(v, u)}
<1>1. IsFiniteSet(outs) /\ Cardinality(outs) \in Nat /\ Cardinality(outs) % 2 = 0
  <2>1. Paired(outs)
    BY HalvesAreOutputs DEF Paired
  <2> QED BY <2>1, PairedIsEven
<1>2. /\ t.idx \in Nat /\ e \in outs /\ e.slot = t.slot /\ e.bank = t.bank /\ e.row = t.row
      /\ e.idx = t.idx - (t.idx % 2) + 0
  BY HalvesAreOutputs
<1>3. t.idx % 2 \in {0, 1} /\ e.idx \in Nat /\ e.idx = t.idx - (t.idx % 2) /\ e.idx % 2 = 0
  BY <1>2
<1> HIDE DEF e
<1>4. ASSUME NEW v \in outs
      PROVE  v.idx \in Nat /\ v.slot \in Int /\ Rank[v.bank] \in Int /\ ~ SortsBefore(v, v)
  <2>1. v.idx \in Nat /\ v.slot \in Int /\ Rank[v.bank] \in Int
    BY OutputsHaveRows, HalvesAreOutputs
  <2> QED BY <2>1 DEF SortsBefore
<1>5. Paired(before(e))
  <2> SUFFICES ASSUME NEW v \in outs, SortsBefore(v, e), NEW parity \in {0, 1}
               PROVE  Half(v, parity) \in outs /\ SortsBefore(Half(v, parity), e)
    BY DEF Paired
  <2>1. /\ Half(v, parity) \in outs /\ Half(v, parity).slot = v.slot /\ Half(v, parity).bank = v.bank
        /\ Half(v, parity).idx = v.idx - (v.idx % 2) + parity /\ v.idx \in Nat
    BY HalvesAreOutputs
  <2>2. v.idx < e.idx => v.idx - (v.idx % 2) + parity < e.idx
    BY <1>3, <2>1
  <2> QED BY <2>1, <2>2 DEF SortsBefore
<1>6. Cardinality(before(e)) \in Nat /\ Cardinality(before(e)) % 2 = 0 /\ IsFiniteSet(before(e))
  <2>1. before(e) \in SUBSET outs
    OBVIOUS
  <2> HIDE DEF before
  <2> QED BY <1>5, <2>1, PairedIsEven
<1>7. Cardinality(before(t)) \in Nat /\ Cardinality(before(t)) % 2 = t.idx % 2
  <2>1. CASE t.idx % 2 = 0
    <3>1. t = e
      BY <2>1, OwnHalf DEF e
    <3> QED BY <1>6, <2>1, <3>1
  <2>2. CASE t.idx % 2 = 1
    <3>1. \A v \in outs : SortsBefore(v, t) <=> SortsBefore(v, e) \/ v = e
      <4> SUFFICES ASSUME NEW v \in outs PROVE SortsBefore(v, t) <=> SortsBefore(v, e) \/ v = e
        OBVIOUS
      <4>1. v.idx \in Nat /\ v.slot \in Int /\ Rank[v.bank] \in Int /\ Rank[t.bank] \in Int /\ t.slot \in Int
        BY <1>4
      <4>2. v.slot = t.slot /\ v.bank = t.bank => v.row = t.row
        BY OutputsHaveRows
      <4>3. v.slot = t.slot /\ v.bank = t.bank /\ v.idx = e.idx => v = e
        BY <1>2, <4>2, SameOutput
      <4>4. e.idx < t.idx /\ (v.idx < t.idx <=> v.idx < e.idx \/ v.idx = e.idx)
        BY <1>2, <1>3, <2>2, <4>1
      <4> QED BY <1>2, <4>1, <4>3, <4>4 DEF SortsBefore
    <3>2. before(t) = before(e) \cup {e} /\ e \notin before(e)
      BY <1>2, <1>4, <3>1
    <3> HIDE DEF before
    <3>3. Cardinality(before(t)) = Cardinality(before(e)) + 1
      BY <1>6, <3>2, FS_AddElement
    <3> QED BY <1>6, <2>2, <3>3
  <2> QED BY <1>3, <2>1, <2>2
<1>8. Cardinality(before(t)) < Cardinality(outs)
  <2>1. before(t) \in SUBSET outs /\ before(t) # outs
    BY <1>4
  <2> HIDE DEF before
  <2>2. Cardinality(before(t)) <= Cardinality(outs) /\ Cardinality(before(t)) # Cardinality(outs)
    BY <1>1, <2>1, FS_Subset
  <2> QED BY <1>1, <1>7, <2>2
<1> QED BY <1>1, <1>7, <1>8 DEF PcmOf

---------------------------------------------------------------------------
(* Rate families.                                                          *)

AllFamilies == Families \cup {1}
HasFamily(values) == Rate \in DOMAIN values => values[Rate] \in AllFamilies

\* Wherever a rate is kept, it is one of the families: on the page, the card, in
\* what was stored and in what can be undone.
FamiliesKnown ==
  /\ page \in AllFamilies /\ fam \in AllFamilies
  /\ HasFamily(byname) /\ HasFamily(card)
  /\ stored = None \/ HasFamily(stored)
  /\ \A i \in DOMAIN undo : HasFamily(undo[i].old)

\* What is on the stack after a push was there before, or is what was pushed.
LEMMA PushedOrOld ==
  ASSUME NEW s, Stack(s), NEW e, NEW depth \in Nat \ {0}
  PROVE  LET t == Append(s, e)
             u == IF Len(t) > depth THEN SubSeq(t, Len(t) - depth + 1, Len(t)) ELSE t
         IN  \A i \in DOMAIN u : u[i] = e \/ \E j \in DOMAIN s : u[i] = s[j]
<1> DEFINE R == {s[i] : i \in DOMAIN s}
           t == Append(s, e)
<1>1. s \in Seq(R) /\ s \in Seq(R \cup {e}) /\ e \in R \cup {e} /\ Len(s) \in Nat
  <2>1. s \in Seq(R)
    BY DEF Stack
  <2> QED BY <2>1, SeqMonotonic, LenProperties
<1>2. t \in Seq(R \cup {e}) /\ Len(t) \in Nat
  BY <1>1, AppendProperties, LenProperties
<1> HIDE DEF t
<1>3. \A u \in Seq(R \cup {e}) : \A i \in DOMAIN u : u[i] = e \/ \E j \in DOMAIN s : u[i] = s[j]
  <2> SUFFICES ASSUME NEW u \in Seq(R \cup {e}), NEW i \in DOMAIN u
               PROVE  u[i] \in R \cup {e}
    OBVIOUS
  <2> HIDE DEF R
  <2> QED BY LenProperties, ElementOfSeq
<1> HIDE DEF R
<1>4. CASE Len(t) > depth
  <2> DEFINE m == Len(t) - depth + 1
  <2>1. m \in 1 .. Len(t) /\ Len(t) \in Int
    BY <1>2, <1>4
  <2>2. \A i \in m .. Len(t) : t[i] \in R \cup {e}
    BY <1>2, <2>1, ElementOfSeq
  <2> HIDE DEF m
  <2>3. SubSeq(t, m, Len(t)) \in Seq(R \cup {e})
    BY <2>1, <2>2, SubSeqProperties
  <2> QED BY <1>3, <1>4, <2>3 DEF m, t
<1>5. CASE ~(Len(t) > depth)
  BY <1>2, <1>3, <1>5 DEF t
<1> QED BY <1>4, <1>5

\* What is left on the stack when the top is taken was there before.
LEMMA PoppedOld ==
  ASSUME NEW s, Stack(s), s # <<>>
  PROVE  /\ Len(s) \in DOMAIN s
         /\ \A i \in DOMAIN SubSeq(s, 1, Len(s) - 1) : \E j \in DOMAIN s : SubSeq(s, 1, Len(s) - 1)[i] = s[j]
<1> DEFINE R == {s[i] : i \in DOMAIN s}
           u == SubSeq(s, 1, Len(s) - 1)
<1>1. s \in Seq(R) /\ Len(s) \in Nat /\ DOMAIN s = 1 .. Len(s)
  BY LenProperties DEF Stack
<1>2. Len(s) # 0
  BY <1>1, EmptySeq
<1>3. \A i \in 1 .. Len(s) - 1 : s[i] \in R
  BY <1>1, ElementOfSeq
<1>4. u \in Seq(R)
  <2> HIDE DEF R
  <2> QED BY <1>1, <1>3, SubSeqProperties
<1>5. \A i \in DOMAIN u : u[i] \in R
  <2> HIDE DEF R, u
  <2> QED BY <1>4, LenProperties, ElementOfSeq
<1> QED BY <1>1, <1>2, <1>5

\* Writing controls with a known family, if any, onto others with one.
LEMMA OverHasFamily ==
  ASSUME NEW p, NEW values, HasFamily(p), HasFamily(values)
  PROVE  HasFamily(Over(p, values))
BY DEF HasFamily, Over

\* No output's control, and not the bay's switch nor talkback, is the rate.
LEMMA RateIsNone ==
  /\ \A t : Src(t) # Rate /\ St(t) # Rate
  /\ Rate \notin Buttons
<1>1. Rate[1] = "Sample Rate" /\ Switch[1] = "Patchbay Switch" /\ Talk[1] = "Talkback"
  BY DEF Rate, Switch, Talk
<1>2. \A t : Src(t)[1] = "Source" /\ St(t)[1] = "Stereo"
  BY DEF Src, St
<1> QED BY <1>1, <1>2 DEF Buttons

\* A card that replaces another is of the new family.
LEMMA ReplacedHasFamily ==
  ASSUME NEW f \in AllFamilies, NEW old
  PROVE  HasFamily(Replaced(f, old))
BY DEF HasFamily, Replaced

\* No write brings in a family that is none.
LEMMA WritesKeepFamilies ==
  ASSUME FamiliesKnown, NEW p, HasFamily(p), UNCHANGED page,
         \/ Written(p) /\ UNCHANGED fam
         \/ \E last : WrittenAround(p, last)
  PROVE  page' \in AllFamilies /\ fam' \in AllFamilies /\ HasFamily(byname') /\ HasFamily(card')
<1>0. HasFamily(Over(p, byname)) /\ HasFamily(Over(p, card)) /\ HasFamily(card)
  BY OverHasFamily DEF FamiliesKnown
<1>1. CASE Written(p) /\ UNCHANGED fam
  BY <1>0, <1>1 DEF Written, FamiliesKnown
<1>2. ASSUME NEW last, WrittenAround(p, last)
      PROVE  page' \in AllFamilies /\ fam' \in AllFamilies /\ HasFamily(byname') /\ HasFamily(card')
  <2> DEFINE rate == IF Rate \in DOMAIN p THEN p[Rate] ELSE fam
             moved == rate # fam
             heard == [c \in {c \in DOMAIN p : ~moved \/ BeforeRate(c, last)} |-> p[c]]
             reached == IF split THEN card ELSE Over(heard, card)
  <2>1. /\ byname' = Over(p, byname) /\ fam' = rate
        /\ card' = IF moved THEN Replaced(rate, reached) ELSE reached
    BY <1>2 DEF WrittenAround
  <2>2. rate \in AllFamilies
    BY DEF FamiliesKnown, HasFamily
  <2>3. HasFamily(reached)
    <3>1. HasFamily(heard)
      BY DEF HasFamily
    <3> HIDE DEF heard
    <3>2. HasFamily(Over(heard, card))
      BY <1>0, <3>1, OverHasFamily
    <3> QED BY <1>0, <3>2
  <2> HIDE DEF rate, reached
  <2>4. HasFamily(Replaced(rate, reached))
    BY <2>2, ReplacedHasFamily
  <2> QED BY <1>0, <2>1, <2>2, <2>3, <2>4 DEF FamiliesKnown
<1> QED BY <1>1, <1>2

\* The rate menu, files, scenes and undo only ever choose among the families.
LEMMA FamiliesInvariance == Spec => []FamiliesKnown
<1>1. Init => FamiliesKnown
  <2> SUFFICES ASSUME Init PROVE FamiliesKnown
    OBVIOUS
  <2>1. \A f \in AllFamilies, b \in Buttons : \A on : HasFamily([DemoControls(f) EXCEPT ![b] = on])
    <3> SUFFICES ASSUME NEW f \in AllFamilies, NEW b \in Buttons, NEW on
                 PROVE  [DemoControls(f) EXCEPT ![b] = on][Rate] \in AllFamilies
      BY DEF HasFamily
    <3>1. Rate \in Controls(f)
      BY DEF Controls
    <3>2. Fresh(f, Rate) = f
      <4>1. Rate[1] # "Source" /\ Rate[1] # "Stereo" /\ Rate \notin Buttons
        BY RateIsNone DEF Rate
      <4> QED BY <4>1 DEF Fresh
    <3>3. DemoControls(f)[Rate] = f /\ DOMAIN DemoControls(f) = Controls(f)
      BY <3>1, <3>2 DEF DemoControls
    <3> QED BY <3>1, <3>3, RateIsNone
  <2>3. stored = None \/ HasFamily(stored)
    BY <2>1, PatchbayAssumption DEF Init, AllFamilies, Buttons
  <2>4. HasFamily(card)
    BY <2>1 DEF Init, AllFamilies, Buttons
  <2>2. DOMAIN undo = {}
    BY EmptySeq, LenProperties DEF Init
  <2> QED BY <2>2, <2>3, <2>4 DEF Init, FamiliesKnown, AllFamilies
<1>2. IInv /\ FamiliesKnown /\ [Next]_vars => FamiliesKnown'
  <2> SUFFICES ASSUME IInv, FamiliesKnown, [Next]_vars PROVE FamiliesKnown'
    OBVIOUS
  <2>w. ASSUME NEW p, HasFamily(p), UNCHANGED <<page, stored>>,
               (Written(p) /\ UNCHANGED fam) \/ \E last : WrittenAround(p, last),
               \A i \in DOMAIN undo' : HasFamily(undo'[i].old)
        PROVE  FamiliesKnown'
    <3>1. page' \in AllFamilies /\ fam' \in AllFamilies /\ HasFamily(byname') /\ HasFamily(card')
      BY <2>w, WritesKeepFamilies
    <3> QED BY <2>w, <3>1 DEF FamiliesKnown, AllFamilies, HasFamily
  <2>u. UNCHANGED undo => \A i \in DOMAIN undo' : HasFamily(undo'[i].old)
    BY DEF FamiliesKnown
  <2>r. \A p, last : \A i \in DOMAIN Remembered(p, last) : HasFamily(Remembered(p, last)[i].old)
    <3> TAKE p, last
    <3> DEFINE e == [old |-> Previous(p), order |-> last]
               s == Append(undo, e)
               u == IF Len(s) > UndoDepth THEN SubSeq(s, Len(s) - UndoDepth + 1, Len(s)) ELSE s
    <3>1. Stack(undo) /\ UndoDepth \in Nat \ {0}
      BY PatchbayAssumption DEF IInv
    <3>2. \A i \in DOMAIN u : u[i] = e \/ \E j \in DOMAIN undo : u[i] = undo[j]
      <4> HIDE DEF e
      <4> QED BY <3>1, PushedOrOld
    <3>3. HasFamily(e.old)
      BY DEF FamiliesKnown, HasFamily, Previous
    <3> HIDE DEF e
    <3>4. \A i \in DOMAIN u : HasFamily(u[i].old)
      BY <3>2, <3>3 DEF FamiliesKnown
    <3>5. Remembered(p, last) \in {undo, u}
      BY DEF Remembered, e
    <3> HIDE DEF u
    <3> QED BY <3>4, <3>5 DEF FamiliesKnown
  <2>n. \A p : (\A c \in DOMAIN p : \E t : c \in {Src(t), St(t)}) => HasFamily(p)
    BY RateIsNone DEF HasFamily
  <2>p. \A t, sid : PatchSet(t, sid) => \E p : HasFamily(p) /\ Written(p)
    BY <2>n DEF PatchSet
  <2>1. ASSUME UNCHANGED <<page, fam, byname, card, undo>>, stored' \in {stored, byname} PROVE FamiliesKnown'
    BY <2>1 DEF FamiliesKnown, HasFamily, AllFamilies
  <2>2. ASSUME NEW jack \in Grabbed, Begin(jack) PROVE FamiliesKnown'
    BY <2>1, <2>2 DEF Begin
  <2>3. ASSUME NEW jack \in Grabbed, End(jack) PROVE FamiliesKnown'
    <3>1. ASSUME NEW t, NEW sid, Plugged(t, sid) PROVE FamiliesKnown'
      BY <2>w, <2>u, <2>p, <3>1 DEF Plugged
    <3> QED BY <2>3, <3>1 DEF End
  <2>4. ASSUME Dropped PROVE FamiliesKnown'
    BY <2>1, <2>4 DEF Dropped
  <2>5. ASSUME NEW t, DoubleClick(t) PROVE FamiliesKnown'
    BY <2>w, <2>u, <2>p, <2>5 DEF DoubleClick
  <2>6. ASSUME NEW t, Stereo(t) PROVE FamiliesKnown'
    <3>1. HasFamily([c \in {St(t)} |-> ~byname[St(t)]])
      BY RateIsNone DEF HasFamily
    <3> QED BY <2>w, <2>u, <2>6, <3>1 DEF Stereo
  <2>7. ASSUME UnpatchAll PROVE FamiliesKnown'
    <3>1. HasFamily(Unpatched)
      BY RateIsNone DEF HasFamily, Unpatched
    <3> QED BY <2>w, <2>r, <2>7, <3>1 DEF UnpatchAll
  <2>8. ASSUME NEW b \in Buttons, Press(b) PROVE FamiliesKnown'
    <3>1. HasFamily([c \in {b} |-> ~byname[b]])
      BY RateIsNone DEF HasFamily
    <3> QED BY <2>w, <2>u, <2>8, <3>1 DEF Press
  <2>9. ASSUME NEW f \in Families, SetRate(f) PROVE FamiliesKnown'
    <3>1. HasFamily([c \in {Rate} |-> f])
      BY DEF HasFamily, AllFamilies
    <3> QED BY <2>w, <2>u, <2>9, <3>1 DEF SetRate
  <2>10. ASSUME Store PROVE FamiliesKnown'
    BY <2>1, <2>10 DEF Store
  <2>11. ASSUME NEW last, stored # None, ApplySnapshot(stored, last) PROVE FamiliesKnown'
    <3>1. HasFamily(Shown(stored))
      BY <2>11 DEF FamiliesKnown, HasFamily, Shown
    <3> QED BY <2>w, <2>r, <2>11, <3>1 DEF ApplySnapshot
  <2>12. ASSUME LoadFile \/ RecallScene PROVE FamiliesKnown'
    BY <2>11, <2>12 DEF LoadFile, RecallScene
  <2>13. ASSUME Undo PROVE FamiliesKnown'
    <3>1. /\ Len(undo) \in DOMAIN undo
          /\ \A i \in DOMAIN undo' : \E j \in DOMAIN undo : undo'[i] = undo[j]
      BY <2>13, PoppedOld DEF Undo, IInv
    <3>2. HasFamily(Shown(undo[Len(undo)].old))
      BY <3>1 DEF FamiliesKnown, HasFamily, Shown
    <3>3. \A i \in DOMAIN undo' : HasFamily(undo'[i].old)
      BY <3>1 DEF FamiliesKnown
    <3> QED BY <2>w, <2>13, <3>2, <3>3 DEF Undo
  <2>14. ASSUME Reload PROVE FamiliesKnown'
    BY <2>14 DEF Reload, FamiliesKnown, HasFamily, AllFamilies
  <2>15. CASE UNCHANGED vars
    BY <2>1, <2>15 DEF vars
  <2> QED BY <2>2, <2>3, <2>4, <2>5, <2>6, <2>7, <2>8, <2>9, <2>10, <2>12, <2>13, <2>14, <2>15 DEF Next
<1> QED BY <1>1, <1>2, Invariance, PTL DEF Spec

---------------------------------------------------------------------------
(* Cables.                                                                 *)

\* A page of a rig: what the invariants say of it.
Page ==
  /\ Fitted /\ page \in Nat \ {0}
  /\ DOMAIN byname = Controls(page)

\* A jack is a feed of the card or a mix's side.
LEMMA JackIs ==
  ASSUME NEW outs, NEW sid \in Jacks(outs)
  PROVE  \/ \E j \in 0 .. Cardinality(outs) - 1 : sid = Pcm(j)
         \/ \E k \in 0 .. NumMixes - 1, side \in {"L", "R"} : sid = Mix(k, side)
BY DEF Jacks

\* The feeds and the mixes are told apart by their first part.
LEMMA JackParts ==
  /\ \A j : Pcm(j)[1] = "PCM" /\ Pcm(j)[2] = j
  /\ \A k, side : Mix(k, side)[1] = "Mix" /\ Mix(k, side)[2] = k /\ Mix(k, side)[3] = side
  /\ Direct[1] = "Direct"
BY DEF Pcm, Mix, Direct

\* What is wanted of an output that is patched alone, or of the two halves of a
\* linked pair, are jacks: a pair of feeds does not run past the last one.
LEMMA WantedAreJacks ==
  ASSUME Page, NEW t \in Outs(page), NEW sid \in Jacks(Outs(page)), NEW u \in DOMAIN Wanted(t, sid)
  PROVE  u \in Outs(page) /\ Wanted(t, sid)[u] \in Jacks(Outs(page)) /\ Wanted(t, sid)[u] # Direct
<1> DEFINE N == Cardinality(Outs(page))
<1>0. Fitted /\ page \in Nat \ {0}
  BY DEF Page
<1>1. N \in Nat /\ N % 2 = 0
  BY <1>0, FeedsKeepParity
<1> HIDE DEF N
<1>2. /\ \A j \in 0 .. N - 1 : Pcm(j) \in Jacks(Outs(page)) /\ Pcm(j) # Direct
      /\ \A k \in 0 .. NumMixes - 1, side \in {"L", "R"} :
           Mix(k, side) \in Jacks(Outs(page)) /\ Mix(k, side) # Direct
  <2>1. /\ \A j \in 0 .. N - 1 : Pcm(j) \in Jacks(Outs(page))
        /\ \A k \in 0 .. NumMixes - 1, side \in {"L", "R"} : Mix(k, side) \in Jacks(Outs(page))
    BY DEF Jacks, N
  <2> QED BY <2>1, JackParts
<1>3. sid # Direct
  BY <1>2, JackIs DEF N
<1>4. CASE t \notin linked
  BY <1>3, <1>4 DEF Wanted
<1>5. CASE t \in linked
  <2>1. u \in {Half(t, 0), Half(t, 1)} /\ u \in Outs(page) /\ u.idx \in Nat
    <3>1. u \in {Half(t, 0), Half(t, 1)}
      BY <1>5 DEF Wanted
    <3>2. u \in Outs(page)
      BY <1>0, <3>1, HalvesAreOutputs
    <3> QED BY <1>0, <3>1, <3>2, HalvesAreOutputs
  <2>2. CASE \E k \in 0 .. NumMixes - 1, side \in {"L", "R"} : sid = Mix(k, side)
    <3> PICK k \in 0 .. NumMixes - 1, side \in {"L", "R"} : sid = Mix(k, side)
      BY <2>2
    <3>1. sid[1] = "Mix" /\ sid[2] = k
      BY JackParts
    <3>2. Wanted(t, sid)[u] = Mix(k, IF u.idx % 2 = 0 THEN "L" ELSE "R")
      BY <1>5, <2>1, <3>1 DEF Wanted
    <3> QED BY <1>2, <2>1, <3>2
  <2>3. CASE \E j \in 0 .. N - 1 : sid = Pcm(j)
    <3> PICK j \in 0 .. N - 1 : sid = Pcm(j)
      BY <2>3
    <3>1. sid[1] = "PCM" /\ sid[2] = j
      BY JackParts
    <3>2. Wanted(t, sid)[u] = Pcm(j - (j % 2) + (u.idx % 2))
      BY <1>5, <2>1, <3>1 DEF Wanted
    <3>3. j - (j % 2) + (u.idx % 2) \in 0 .. N - 1
      BY <1>1, <2>1
    <3> QED BY <1>2, <2>1, <3>2, <3>3
  <2> QED BY <2>2, <2>3, JackIs DEF N
<1> QED BY <1>4, <1>5

\* Every output that is patched carries what is wanted: no value is refused, and
\* "Direct" stands for the output's own feed (_patch_set, conn_of).
LEMMA CablesLand ==
  ASSUME Page, NEW t \in Outs(page), NEW sid \in Jacks(Outs(page)), PatchSet(t, sid),
         NEW u \in DOMAIN Wanted(t, sid)
  PROVE  Carried(u) = Wanted(t, sid)[u]
<1> DEFINE w == Wanted(t, sid)
           values == [v \in DOMAIN w |-> Value(v, w[v])]
           items == Items(Outs(page))
           p == [c \in {Src(v) : v \in {v \in DOMAIN w : values[v] \in items}} |-> values[c[2]]]
<1>1. u \in Outs(page) /\ w[u] \in Jacks(Outs(page)) /\ w[u] # Direct
  BY WantedAreJacks
<1>2. byname' = Over(p, byname)
  BY DEF PatchSet, Written
<1> HIDE DEF w
<1>3. values[u] = Value(u, w[u]) /\ values[u] \in items
  BY <1>1 DEF w, Value, Items
<1>4. Src(u) \in DOMAIN p /\ p[Src(u)] = values[u]
  <2>1. Src(u)[2] = u /\ u \in DOMAIN w
    BY DEF Src, w
  <2> QED BY <1>3, <2>1
<1>5. Src(u) \in DOMAIN byname
  BY <1>1 DEF Page, Controls, Src
<1> HIDE DEF p, values
<1>6. byname'[Src(u)] = Value(u, w[u])
  BY <1>2, <1>3, <1>4, <1>5 DEF Over
<1>7. Carried(u) = w[u]
  BY <1>1, <1>6 DEF Carried, Feed, Value
<1> QED BY <1>7 DEF w

\* An output's normal, or else its own feed, is a jack of the output's parity.
LEMMA NormalKeepsParity ==
  ASSUME Page, NEW t \in Outs(page)
  PROVE  /\ NormalSid(t) \in Jacks(Outs(page))
         /\ \E j \in Nat : NormalSid(t) = Pcm(j) /\ j % 2 = t.idx % 2
<1> DEFINE N == Cardinality(Outs(page))
           own == PcmOf(Outs(page), t)
<1>1. N \in Nat /\ own \in 0 .. N - 1 /\ own % 2 = t.idx % 2 /\ t.idx \in Nat
  BY FeedsKeepParity, HalvesAreOutputs DEF Page
<1>2. Pcm(own) \in Jacks(Outs(page))
  BY <1>1 DEF Jacks
<1>3. CASE Normal(t) \in Jacks(Outs(page))
  <2>1. Normal(t) # Direct
    BY <1>3, JackIs, JackParts
  <2>2. NormalSid(t) = Pcm(t.idx % 2)
    BY <1>3, <2>1 DEF NormalSid, Normal
  <2>3. t.idx % 2 \in Nat /\ (t.idx % 2) % 2 = t.idx % 2
    BY <1>1
  <2> QED BY <1>3, <2>2, <2>3 DEF NormalSid
<1>4. CASE Normal(t) \notin Jacks(Outs(page))
  BY <1>1, <1>2, <1>4 DEF NormalSid
<1> QED BY <1>3, <1>4

\* A double-clicked output is at its normal, linked or not (_dbl).
LEMMA DoubleClickLands ==
  ASSUME Page, NEW t \in Outs(page), DoubleClick(t)
  PROVE  Carried(t) = NormalSid(t)
<1> DEFINE sid == NormalSid(t)
<1>1. sid \in Jacks(Outs(page)) /\ PatchSet(t, sid)
  BY NormalKeepsParity DEF DoubleClick
<1>2. PICK j \in Nat : sid = Pcm(j) /\ j % 2 = t.idx % 2
  BY NormalKeepsParity
<1>3. t.idx % 2 \in {0, 1} /\ t = Half(t, t.idx % 2) /\ t.idx \in Nat
  BY OwnHalf, HalvesAreOutputs DEF Page
<1> HIDE DEF sid
<1>4. t \in DOMAIN Wanted(t, sid) /\ Wanted(t, sid)[t] = sid
  <2>1. CASE t \notin linked
    BY <2>1 DEF Wanted
  <2>2. CASE t \in linked
    <3>1. sid[1] = "PCM" /\ sid[2] = j
      BY <1>2, JackParts
    <3>2. t \in {Half(t, 0), Half(t, 1)}
      BY <1>3
    <3>3. DOMAIN Wanted(t, sid) = {Half(t, 0), Half(t, 1)}
          /\ Wanted(t, sid)[t] = Pcm(j - (j % 2) + (t.idx % 2))
      BY <2>2, <3>1, <3>2 DEF Wanted
    <3>4. j - (j % 2) + (t.idx % 2) = j
      BY <1>2, <1>3
    <3> QED BY <1>2, <3>2, <3>3, <3>4
  <2> QED BY <2>1, <2>2
<1>5. Carried(t) = sid
  BY <1>1, <1>4, CablesLand
<1> QED BY <1>5 DEF sid

\* A cable lands: on an output that is patched alone as it is, on a linked pair
\* as a stereo pair that has the jack the user took (_end).
LEMMA PlugLands ==
  ASSUME Page, NEW t \in Outs(page), NEW sid \in Jacks(Outs(page)), Plugged(t, sid)
  PROVE  IF t \in linked
           THEN /\ Stereophonic(Carried(Half(t, 0)), Carried(Half(t, 1)))
                /\ sid \in {Carried(Half(t, 0)), Carried(Half(t, 1))}
           ELSE Carried(t) = sid
<1>1. PatchSet(t, sid)
  BY DEF Plugged
<1>2. CASE t \notin linked
  <2>1. t \in DOMAIN Wanted(t, sid) /\ Wanted(t, sid)[t] = sid
    BY <1>2 DEF Wanted
  <2> QED BY <1>1, <1>2, <2>1, CablesLand
<1>3. CASE t \in linked
  <2> DEFINE e == Half(t, 0)
             o == Half(t, 1)
             w == Wanted(t, sid)
  <2>1. DOMAIN w = {e, o}
    BY <1>3 DEF Wanted
  <2>2. Carried(e) = w[e] /\ Carried(o) = w[o]
    BY <1>1, <2>1, CablesLand
  <2>3. e.idx % 2 = 0 /\ o.idx % 2 = 1
    <3>1. /\ t.idx \in Nat /\ e.idx = t.idx - (t.idx % 2) + 0 /\ o.idx = t.idx - (t.idx % 2) + 1
      BY HalvesAreOutputs DEF Page
    <3> QED BY <3>1
  <2>4. Stereophonic(w[e], w[o]) /\ sid \in {w[e], w[o]}
    <3>1. CASE \E k \in 0 .. NumMixes - 1, side \in {"L", "R"} : sid = Mix(k, side)
      <4> PICK k \in 0 .. NumMixes - 1, side \in {"L", "R"} : sid = Mix(k, side)
        BY <3>1
      <4>1. sid[1] = "Mix" /\ sid[2] = k
        BY JackParts
      <4>2. w[e] = Mix(k, "L") /\ w[o] = Mix(k, "R")
        BY <1>3, <2>3, <4>1 DEF Wanted
      <4> QED BY <4>2, JackParts DEF Stereophonic
    <3>2. CASE \E j \in 0 .. Cardinality(Outs(page)) - 1 : sid = Pcm(j)
      <4> PICK j \in 0 .. Cardinality(Outs(page)) - 1 : sid = Pcm(j)
        BY <3>2
      <4>1. sid[1] = "PCM" /\ sid[2] = j /\ j \in Int
        BY JackParts
      <4>2. w[e] = Pcm(j - (j % 2) + 0) /\ w[o] = Pcm(j - (j % 2) + 1)
        BY <1>3, <2>3, <4>1 DEF Wanted
      <4> DEFINE a == j - (j % 2)
      <4>3. /\ a + 0 = a /\ a % 2 = 0 /\ a \in Int /\ j \in {a, a + 1}
        BY <4>1
      <4> HIDE DEF a
      <4>4. w[e] = Pcm(a) /\ w[o] = Pcm(a + 1)
        BY <4>2, <4>3 DEF a
      <4>5. Pcm(a)[1] = "PCM" /\ Pcm(a)[2] = a
        BY JackParts
      <4>6. Stereophonic(w[e], w[o])
        BY <4>3, <4>4, <4>5 DEF Stereophonic
      <4> QED BY <4>3, <4>4, <4>6
    <3> QED BY <3>1, <3>2, JackIs
  <2> HIDE DEF e, o, w
  <2>5. /\ Stereophonic(Carried(e), Carried(o)) /\ sid \in {Carried(e), Carried(o)}
    BY <2>2, <2>4
  <2> QED BY <1>3, <2>5 DEF e, o
<1> QED BY <1>2, <1>3

\* What the cables show is what was done, for every rig whose interfaces have
\* their outputs in pairs, and in every family: a double-click leaves an output
\* at its normal, and a cable lands where it was dragged (_dbl, _end, _patch_set).
THEOREM PatchesCorrect == Spec => PatchesTake
<1>1. ASSUME IInv, Fitted, FamiliesKnown, [Next]_vars
      PROVE  [/\ UNCHANGED <<drag, stored, undo, queued>> =>
                   \A t \in Outs(page) : DoubleClick(t) => Carried(t) = NormalSid(t)
              /\ drag # drag' /\ drag' = None =>
                   \A t \in Outs(page), sid \in Jacks(Outs(page)) : Plugged(t, sid) =>
                     IF t \in linked
                       THEN /\ Stereophonic(Carried(Half(t, 0)), Carried(Half(t, 1)))
                            /\ sid \in {Carried(Half(t, 0)), Carried(Half(t, 1))}
                       ELSE Carried(t) = sid]_vars
  <2>1. Page
    BY <1>1, PatchbayAssumption DEF Page, IInv, OnControls, FamiliesKnown, AllFamilies
  <2>2. \A t \in Outs(page) : DoubleClick(t) => Carried(t) = NormalSid(t)
    BY <2>1, DoubleClickLands
  <2>3. \A t \in Outs(page), sid \in Jacks(Outs(page)) : Plugged(t, sid) =>
          IF t \in linked
            THEN /\ Stereophonic(Carried(Half(t, 0)), Carried(Half(t, 1)))
                 /\ sid \in {Carried(Half(t, 0)), Carried(Half(t, 1))}
            ELSE Carried(t) = sid
    BY <2>1, PlugLands
  <2> QED BY <2>2, <2>3
<1> QED BY <1>1, Invariance, FittedAlways, FamiliesInvariance, PTL DEF Spec, PatchesTake
=============================================================================
