---------------------------- MODULE GuiSyncProofs ----------------------------
(***************************************************************************)
(* Proofs about GuiSync: its types, that a card only ever holds values     *)
(* asked for on that very card until Auto moves, that an idle writer has   *)
(* delivered the last value but for the losses the history notes, and that *)
(* its steps are steps of WriteQueues, for any number of cards, controls   *)
(* and values.                                                             *)
(***************************************************************************)
EXTENDS GuiSync, SequenceTheorems, TLAPS

---------------------------------------------------------------------------
(* Types.                                                                  *)

\* An entry of the selector stands for cards only (find_motu_card).
LEMMA StandsTyped ==
  ASSUME NEW e \in Devs, NEW here
  PROVE  Stands(e, here) \subseteq Cards /\ Reached(e, here) \subseteq Cards
BY DEF Stands, Reached, Devs

\* It reaches one card at most: Auto the one with the lowest number.
LEMMA OneReached ==
  ASSUME NEW e \in Devs, NEW here, NEW c \in Reached(e, here), NEW d \in Reached(e, here)
  PROVE  c = d
<1>1. CASE e = AutoFind
  <2>1. c \in Cards /\ d \in Cards /\ c <= d /\ d <= c
    BY <1>1 DEF Stands, Reached
  <2> QED BY <2>1, GuiAssumption
<1>2. CASE e # AutoFind
  BY <1>2 DEF Stands, Reached
<1> QED BY <1>1, <1>2

\* What a snapshot, a scene, a mix operation and an undo entry have in common.
Payload(p) == DOMAIN p \subseteq Controls /\ \A n \in DOMAIN p : p[n] \in Values

\* Applying a payload keeps the types of the widgets, of the writer's
\* dictionary and of the history (_apply_snapshot, push).
LEMMA AppliedTyped ==
  ASSUME TypeOK, NEW p, Payload(p)
  PROVE  /\ Pushed(p) \in [Controls -> Write]
         /\ Asked(p) \in [Cards -> [Controls -> Ledger]]
         /\ AskedByAuto(p) \in [Controls -> SUBSET Values]
         /\ [n \in Controls |-> IF n \in DOMAIN p THEN p[n] ELSE shown[n]] \in [Controls -> Values]
<1>1. Pushed(p) \in [Controls -> Write]
  <2>1. dev \in Devs /\ Stands(dev, present) \subseteq Cards
    BY StandsTyped DEF TypeOK
  <2>2. ASSUME NEW v \in Values PROVE Pushing(v) \in Write
    BY <2>1, <2>2 DEF Pushing, Write
  <2> QED BY <2>2 DEF TypeOK, Payload, Pushed
<1>2. ASSUME NEW d \in Cards, NEW n \in Controls
      PROVE  Asked(p)[d][n] \in Ledger
  <2>1. asked[d][n] \in Ledger
    BY DEF TypeOK, Ledger
  <2>2. CASE n \notin DOMAIN p
    BY <2>1, <2>2 DEF Asked
  <2>3. CASE n \in DOMAIN p /\ d \in Stands(dev, present)
    BY <2>1, <2>3 DEF Asked, Ledger, Payload
  <2>4. CASE n \in DOMAIN p /\ d \notin Stands(dev, present)
    <3>1. Asked(p)[d][n] \in {asked[d][n], [asked[d][n] EXCEPT !.lost = @ \cup {"displaced"}]}
      BY <2>4 DEF Asked
    <3> QED BY <2>1, <3>1 DEF Ledger, Losses
  <2> QED BY <2>2, <2>3, <2>4
<1>3. Asked(p) \in [Cards -> [Controls -> Ledger]]
  BY <1>2 DEF Asked
<1>4. [n \in Controls |-> IF n \in DOMAIN p THEN p[n] ELSE shown[n]] \in [Controls -> Values]
  BY DEF TypeOK, Payload
<1>5. AskedByAuto(p) \in [Controls -> SUBSET Values]
  BY DEF TypeOK, Payload, AskedByAuto
<1> QED BY <1>1, <1>3, <1>4, <1>5

\* The undo stack stays within its depth, and holds payloads (_push_undo).
LEMMA UndoTyped ==
  ASSUME TypeOK, NEW prev \in Entries
  PROVE  UndoPushed(prev) \in Seq(Entries) /\ Len(UndoPushed(prev)) <= UndoDepth
<1> DEFINE s == Append(undo, prev)
<1>1. undo \in Seq(Entries) /\ Len(undo) <= UndoDepth /\ UndoDepth \in Nat \ {0}
  BY GuiAssumption DEF TypeOK, Entries
<1>2. s \in Seq(Entries) /\ Len(s) = Len(undo) + 1
  BY <1>1
<1> HIDE DEF s
<1>3. CASE Len(s) > UndoDepth
  BY <1>1, <1>2, <1>3 DEF UndoPushed, s
<1>4. CASE ~(Len(s) > UndoDepth)
  BY <1>1, <1>2, <1>4 DEF UndoPushed, s
<1> QED BY <1>3, <1>4

\* An undo entry is a payload, and what remains is a stack (_on_undo).
LEMMA UndoPops ==
  ASSUME TypeOK, undo # <<>>
  PROVE  /\ Payload(undo[Len(undo)])
         /\ SubSeq(undo, 1, Len(undo) - 1) \in Seq(Entries)
         /\ Len(SubSeq(undo, 1, Len(undo) - 1)) <= UndoDepth
<1>1. undo \in Seq(Entries) /\ Len(undo) <= UndoDepth /\ Len(undo) \in Nat \ {0}
  BY DEF TypeOK, Entries
<1>2. undo[Len(undo)] \in Entries
  BY <1>1
<1>3. Payload(undo[Len(undo)])
  BY <1>2 DEF Payload, Entries
<1>4. Len(undo) - 1 \in Nat /\ \A i \in 1 .. Len(undo) - 1 : undo[i] \in Entries
  BY <1>1
<1>5. /\ SubSeq(undo, 1, Len(undo) - 1) \in Seq(Entries)
      /\ Len(SubSeq(undo, 1, Len(undo) - 1)) = IF 1 <= Len(undo) - 1 THEN Len(undo) - 1 - 1 + 1 ELSE 0
  BY <1>4, SubSeqProperties
<1> QED BY <1>1, <1>3, <1>5, GuiAssumption

\* What one write does: to one control of the card reached, or in vain, it
\* empties its entry, and the history notes what went wrong (CtlWriter._loop).
LEMMA WriteEffect ==
  ASSUME TypeOK, NEW n \in Controls, WriteOne(n)
  PROVE  \E W \in SUBSET Cards :
           /\ W = Reached(batch[n].dev, present) \/ W = {}
           /\ batch[n].dev \in Devs
           /\ card' = [d \in Cards |->
                         IF d \in W THEN [card[d] EXCEPT ![n] = batch[n].value] ELSE card[d]]
           /\ card' \in [Cards -> [Controls -> Values]]
           /\ asked' \in [Cards -> [Controls -> Ledger]]
           /\ batch' = [batch EXCEPT ![n] = NoWrite]
           /\ \A d \in Cards, m \in Controls :
                /\ card'[d][m] = IF m = n /\ d \in W THEN batch[n].value ELSE card[d][m]
                /\ asked'[d][m].ever = asked[d][m].ever /\ asked'[d][m].last = asked[d][m].last
                /\ asked'[d][m].lost = {} => asked[d][m].lost = {}
                /\ m = n /\ asked'[d][m].lost = {} /\ d \notin pending[n].meant
                     => (d \in W <=> d \in batch[n].meant)
<1>1. batch[n].dev \in Devs /\ batch[n].value \in Values /\ batch[n].meant \in SUBSET Cards
  BY DEF TypeOK, Write, WriteOne, Written
<1>2. PICK W \in {Reached(batch[n].dev, present), {}} :
        LET wrong == ((batch[n].meant \ W) \cup (W \ batch[n].meant)) \ pending[n].meant
            loss == IF W = {} THEN "failed" ELSE "astray" IN
          /\ card' = [d \in Cards |-> IF d \in W THEN [card[d] EXCEPT ![n] = batch[n].value] ELSE card[d]]
          /\ asked' = [d \in Cards |-> IF d \in wrong
                         THEN [asked[d] EXCEPT ![n].lost = @ \cup {loss}] ELSE asked[d]]
  BY DEF WriteOne, Written
<1> DEFINE wrong == ((batch[n].meant \ W) \cup (W \ batch[n].meant)) \ pending[n].meant
           loss == IF W = {} THEN "failed" ELSE "astray"
<1>3. W \in SUBSET Cards /\ loss \in Losses
  BY <1>1, <1>2, StandsTyped DEF Losses
<1>4. card' = [d \in Cards |-> IF d \in W THEN [card[d] EXCEPT ![n] = batch[n].value] ELSE card[d]]
  BY <1>2
<1>5. asked' = [d \in Cards |-> IF d \in wrong
                  THEN [asked[d] EXCEPT ![n].lost = @ \cup {loss}] ELSE asked[d]]
  BY <1>2
<1> HIDE DEF wrong, loss
<1>6. card' \in [Cards -> [Controls -> Values]]
  BY <1>1, <1>4 DEF TypeOK
<1>7. ASSUME NEW d \in Cards, NEW m \in Controls
      PROVE  /\ asked[d][m] \in Ledger
             /\ asked'[d][m] = IF m = n /\ d \in wrong
                              THEN [asked[d][m] EXCEPT !.lost = @ \cup {loss}] ELSE asked[d][m]
  BY <1>5 DEF TypeOK
<1>8. ASSUME NEW d \in Cards, NEW m \in Controls
      PROVE  /\ asked'[d][m] \in Ledger
             /\ asked'[d][m].ever = asked[d][m].ever /\ asked'[d][m].last = asked[d][m].last
             /\ asked'[d][m].lost = {} => asked[d][m].lost = {}
             /\ m = n /\ d \in wrong => asked'[d][m].lost # {}
  <2>1. CASE m = n /\ d \in wrong
    <3>1. asked[d][m] \in Ledger /\ asked'[d][m] = [asked[d][m] EXCEPT !.lost = @ \cup {loss}]
      BY <1>7, <2>1
    <3>2. /\ asked'[d][m].ever = asked[d][m].ever /\ asked'[d][m].last = asked[d][m].last
          /\ asked'[d][m].lost = asked[d][m].lost \cup {loss} /\ asked'[d][m] \in Ledger
      BY <1>3, <3>1 DEF Ledger
    <3>3. asked'[d][m].lost # {}
      BY <3>2
    <3> QED BY <3>2, <3>3
  <2>2. CASE ~(m = n /\ d \in wrong)
    BY <1>7, <2>2
  <2> QED BY <2>1, <2>2
<1>9. asked' \in [Cards -> [Controls -> Ledger]]
  <2>1. asked' = [d \in Cards |-> asked'[d]]
    BY <1>5
  <2>2. ASSUME NEW d \in Cards PROVE asked'[d] = [m \in Controls |-> asked'[d][m]]
    BY <1>5 DEF TypeOK
  <2> QED BY <1>8, <2>1, <2>2
<1>10. ASSUME NEW d \in Cards, NEW m \in Controls
       PROVE  card'[d][m] = IF m = n /\ d \in W THEN batch[n].value ELSE card[d][m]
  BY <1>4 DEF TypeOK
<1>11. ASSUME NEW d \in Cards, NEW m \in Controls
       PROVE  m = n /\ asked'[d][m].lost = {} /\ d \notin pending[n].meant
                => (d \in W <=> d \in batch[n].meant)
  BY <1>8 DEF wrong
<1>12. batch' = [batch EXCEPT ![n] = NoWrite]
  BY DEF WriteOne, Written
<1>13. W = Reached(batch[n].dev, present) \/ W = {}
  BY <1>2
<1>14. \A d \in Cards, m \in Controls :
         /\ card'[d][m] = IF m = n /\ d \in W THEN batch[n].value ELSE card[d][m]
         /\ asked'[d][m].ever = asked[d][m].ever /\ asked'[d][m].last = asked[d][m].last
         /\ asked'[d][m].lost = {} => asked[d][m].lost = {}
         /\ m = n /\ asked'[d][m].lost = {} /\ d \notin pending[n].meant
              => (d \in W <=> d \in batch[n].meant)
  BY <1>8, <1>10, <1>11
<1> QED BY <1>1, <1>3, <1>4, <1>6, <1>9, <1>12, <1>13, <1>14

\* The console starts with its types right.
LEMMA InitTyped == Init => TypeOK
<1> SUFFICES ASSUME Init PROVE TypeOK
  OBVIOUS
<1>1. built \in BOOLEAN
  BY Zenon DEF Init
<1>2. asked \in [Cards -> [Controls -> Ledger]]
  <2>1. [ever |-> {Default}, last |-> Default, lost |-> {}] \in Ledger
    BY GuiAssumption DEF Ledger
  <2> QED BY <2>1 DEF Init
<1>3. pending \in [Controls -> Write] /\ batch \in [Controls -> Write]
  <2>1. NoWrite \in Write
    BY GuiAssumption DEF NoWrite, Write
  <2> QED BY <2>1 DEF Init
<1>4. undo \in Seq(Entries) /\ Len(undo) <= UndoDepth
  BY GuiAssumption DEF Init
<1>5. /\ card \in [Cards -> [Controls -> Values]] /\ present \in [Cards -> BOOLEAN]
      /\ shown \in [Controls -> Values]
  BY GuiAssumption DEF Init
<1>8. dev \in Devs /\ touched \in SUBSET Controls /\ edits \in 0 .. MaxEdits
  BY GuiAssumption DEF Init, Devs
<1>9. byAuto \in [Controls -> SUBSET Values] /\ moved \in BOOLEAN
  BY DEF Init
<1>6. poll \in [stage : {"idle", "listing", "replied"}, dev : Devs \cup {None},
                ok : BOOLEAN, seen : [Controls -> Values]]
  BY GuiAssumption DEF Init, IdlePoll
<1>7. poll.stage = "idle"
  BY DEF Init, IdlePoll
<1> QED BY <1>1, <1>2, <1>3, <1>4, <1>5, <1>6, <1>7, <1>8, <1>9 DEF TypeOK

\* The state of the console keeps its types.
THEOREM TypeCorrect == Spec => []TypeOK
<1>1. Init => TypeOK
  BY InitTyped
<1>2. TypeOK /\ [Next]_vars => TypeOK'
  <2> SUFFICES ASSUME TypeOK, [Next]_vars PROVE TypeOK'
    OBVIOUS
  <2> USE GuiAssumption
  <2>1. ASSUME NEW n \in Controls, NEW v \in Values, Edit(n, v) PROVE TypeOK'
    <3> DEFINE p == [m \in {n} |-> v]
    <3>1. Payload(p)
      BY DEF Payload
    <3>2. /\ pending' \in [Controls -> Write] /\ asked' \in [Cards -> [Controls -> Ledger]]
          /\ byAuto' \in [Controls -> SUBSET Values]
      BY <2>1, <3>1, AppliedTyped DEF Edit
    <3>3. edits' \in 0 .. MaxEdits
      BY <2>1 DEF Edit, Counted, TypeOK
    <3> QED BY <2>1, <3>2, <3>3 DEF Edit, TypeOK
  <2>2. ASSUME NEW p, Payload(p), Applied(p) PROVE
          /\ pending' \in [Controls -> Write] /\ asked' \in [Cards -> [Controls -> Ledger]]
          /\ byAuto' \in [Controls -> SUBSET Values]
          /\ shown' \in [Controls -> Values]
    BY <2>2, AppliedTyped DEF Applied
  <2>3. ASSUME NEW p \in Payloads, ApplySnapshot(p) PROVE TypeOK'
    <3>1. Payload(p) /\ Applied(p)
      BY <2>3 DEF Payload, ApplySnapshot
    <3>2. [n \in DOMAIN p |-> shown[n]] \in Entries
      BY <3>1 DEF TypeOK, Payload, Entries
    <3>3. undo' \in Seq(Entries) /\ Len(undo') <= UndoDepth
      BY <2>3, <3>2, UndoTyped DEF ApplySnapshot
    <3>4. edits' \in 0 .. MaxEdits
      BY <2>3 DEF ApplySnapshot, Counted, TypeOK
    <3> QED BY <2>2, <3>1, <3>3, <3>4 DEF Applied, TypeOK
  <2>15. ASSUME Undo PROVE TypeOK'
    <3> DEFINE p == undo[Len(undo)]
    <3>1. Payload(p) /\ undo' \in Seq(Entries) /\ Len(undo') <= UndoDepth
      BY <2>15, UndoPops DEF Undo
    <3>2. edits' \in 0 .. MaxEdits
      BY <2>15 DEF Undo, Counted, TypeOK
    <3>3. CASE built
      <4>1. Applied(p)
        BY <2>15, <3>3 DEF Undo
      <4> HIDE DEF p
      <4> QED BY <2>2, <3>1, <3>2, <4>1 DEF Applied, TypeOK
    <3>4. CASE ~built
      BY <2>15, <3>1, <3>2, <3>4 DEF Undo, TypeOK, history
    <3> QED BY <3>3, <3>4
  <2>16. ASSUME NEW e \in Devs, Reload(e)
         PROVE  shown' \in [Controls -> Values] /\ built' \in BOOLEAN
    <3>1. CASE built' = FALSE /\ UNCHANGED shown
      BY <3>1 DEF TypeOK
    <3>2. CASE \E d \in Reached(e, present) : built' = TRUE /\ shown' = card[d]
      <4>1. PICK d \in Reached(e, present) : built' = TRUE /\ shown' = card[d]
        BY <3>2
      <4>2. d \in Cards
        BY StandsTyped
      <4> QED BY <4>1, <4>2 DEF TypeOK
    <3> QED BY <2>16, <3>1, <3>2 DEF Reload
  <2>4. ASSUME NEW e \in Devs, SelectCard(e) PROVE TypeOK'
    BY <2>4, <2>16 DEF SelectCard, Counted, TypeOK, history
  <2>5. ASSUME NEW d \in Cards, Unplug(d) PROVE TypeOK'
    BY <2>5 DEF Unplug, Counted, TypeOK, AutoMoves
  <2>6. ASSUME NEW d \in Cards, Plug(d) PROVE TypeOK'
    <3>1. ASSUME NEW e \in Cards, NEW n \in Controls PROVE asked'[e][n] \in Ledger
      <4>1. asked[e][n] \in Ledger
        BY DEF TypeOK
      <4>2. asked'[e][n] \in {asked[e][n], [asked[e][n] EXCEPT !.last = Default, !.lost = {}]}
        BY <2>6 DEF Plug, TypeOK
      <4> QED BY <4>1, <4>2 DEF Ledger
    <3>2. asked' = [e \in Cards |-> asked'[e]] /\ \A e \in Cards : asked'[e] = [n \in Controls |-> asked'[e][n]]
      BY <2>6 DEF Plug, TypeOK
    <3>3. asked' \in [Cards -> [Controls -> Ledger]]
      BY <3>1, <3>2
    <3>4. /\ card' \in [Cards -> [Controls -> Values]] /\ present' \in [Cards -> BOOLEAN]
          /\ UNCHANGED <<dev, built, shown, touched, pending, batch, poll, undo, byAuto>>
          /\ moved' \in BOOLEAN
      <4>1. [n \in Controls |-> Default] \in [Controls -> Values]
        OBVIOUS
      <4> QED BY <2>6, <4>1 DEF Plug, TypeOK, AutoMoves
    <3>5. edits' \in 0 .. MaxEdits
      <4>1. Counted
        BY <2>6 DEF Plug
      <4> QED BY <4>1 DEF Counted, TypeOK
    <3> QED BY <3>3, <3>4, <3>5 DEF TypeOK
  <2>7. ASSUME NEW n \in Controls, GraceEnds(n) PROVE TypeOK'
    BY <2>7 DEF GraceEnds, TypeOK, history
  <2>8. ASSUME NEW n \in Controls, WriteOne(n) PROVE TypeOK'
    <3>1. /\ card' \in [Cards -> [Controls -> Values]]
          /\ asked' \in [Cards -> [Controls -> Ledger]]
          /\ batch' = [batch EXCEPT ![n] = NoWrite]
      BY <2>8, WriteEffect
    <3>2. NoWrite \in Write
      BY DEF NoWrite, Write
    <3>3. batch' \in [Controls -> Write]
      BY <3>1, <3>2 DEF TypeOK
    <3> QED BY <2>8, <3>1, <3>3 DEF WriteOne, Written, TypeOK
  <2>9. ASSUME TakeBatch PROVE TypeOK'
    BY <2>9 DEF TakeBatch, NoWrite, Write, TypeOK, history
  <2>10. ASSUME Poll PROVE TypeOK'
    BY <2>10 DEF Poll, IdlePoll, TypeOK, history, Devs
  <2>11. ASSUME PollList PROVE TypeOK'
    <3>1. poll.dev \in Devs
      BY <2>11 DEF PollList, TypeOK
    <3>2. Reached(poll.dev, present) \subseteq Cards
      BY <3>1, StandsTyped
    <3> QED BY <2>11, <3>1, <3>2 DEF PollList, TypeOK, history
  <2>12. ASSUME PollDone PROVE TypeOK'
    <3>1. dev \in Devs /\ poll.seen \in [Controls -> Values] /\ poll.ok \in BOOLEAN
      BY DEF TypeOK
    <3>2. shown' \in [Controls -> Values] /\ built' \in BOOLEAN
      BY <2>12, <2>16, <3>1 DEF PollDone, Followed, TypeOK
    <3> QED BY <2>12, <3>2 DEF PollDone, IdlePoll, TypeOK, history
  <2>13. ASSUME NEW d \in Cards, NEW n \in Controls, NEW v \in Values, Outside(d, n, v) PROVE TypeOK'
    <3> DEFINE a == asked[d][n]
               l == IF Outstanding(d, n) THEN a.last ELSE v
               r == IF Outstanding(d, n) THEN a.lost ELSE {}
    <3>1. a \in Ledger
      BY DEF TypeOK
    <3>2. l \in Values /\ r \in SUBSET Losses
      BY <3>1 DEF Ledger
    <3>3. [ever |-> a.ever \cup {v}, last |-> l, lost |-> r] \in Ledger
      BY <3>1, <3>2 DEF Ledger
    <3>4. asked' = [asked EXCEPT ![d][n] = [ever |-> a.ever \cup {v}, last |-> l, lost |-> r]]
      BY <2>13 DEF Outside
    <3> HIDE DEF a, l, r
    <3>5. asked' \in [Cards -> [Controls -> Ledger]]
      BY <3>3, <3>4 DEF TypeOK
    <3>6. edits' \in 0 .. MaxEdits
      BY <2>13 DEF Outside, Counted, TypeOK
    <3>7. card' \in [Cards -> [Controls -> Values]]
      BY <2>13 DEF Outside, TypeOK
    <3> QED BY <2>13, <3>5, <3>6, <3>7 DEF Outside, TypeOK
  <2>14. ASSUME UNCHANGED vars PROVE TypeOK'
    BY <2>14 DEF vars, history, TypeOK
  <2> QED BY <2>1, <2>3, <2>15, <2>4, <2>5, <2>6, <2>7, <2>8, <2>9, <2>10, <2>11, <2>12,
             <2>13, <2>14 DEF Next
<1> QED BY <1>1, <1>2, PTL DEF Spec

---------------------------------------------------------------------------
(* Values and their order.                                                 *)

\* A value on its way was asked for on the card it is meant for; that is the
\* card which its entry of the selector stands for, unless Auto has moved.
Meant(w, n) ==
  /\ w.dev = None => w.meant = {}
  /\ w.dev \in Cards => w.meant = {w.dev}
  /\ w.dev = AutoFind => w.value \in byAuto[n]
  /\ w.dev = AutoFind /\ ~moved => w.meant = Stands(AutoFind, present)
  /\ \A d \in w.meant : w.value \in asked[d][n].ever

\* The value that one control of one card holds has been asked for there.
Known(d, n) ==
  /\ Default \in asked[d][n].ever
  /\ card[d][n] \in asked[d][n].ever \cup (IF moved THEN byAuto[n] ELSE {})

\* The last value is the one that waits, else the one being written, else the
\* one the card holds: the strengthening of LatestUnlessLost, which speaks of
\* an idle writer only.
Newest(d, n) ==
  asked[d][n].lost = {} =>
    /\ d \in pending[n].meant => pending[n].value = asked[d][n].last
    /\ d \notin pending[n].meant /\ d \in batch[n].meant => batch[n].value = asked[d][n].last
    /\ ~Outstanding(d, n) /\ present[d] => card[d][n] = asked[d][n].last

IInv ==
  /\ TypeOK
  /\ \A n \in Controls : Meant(pending[n], n) /\ Meant(batch[n], n)
  /\ \A d \in Cards, n \in Controls : Known(d, n) /\ Newest(d, n)

\* The history only grows, and Auto stands for the same card while it has not
\* moved.
Grows ==
  /\ \A d \in Cards, n \in Controls : asked[d][n].ever \subseteq asked'[d][n].ever
  /\ \A n \in Controls : byAuto[n] \subseteq byAuto'[n]
  /\ moved' \in BOOLEAN /\ (moved => moved')
  /\ ~moved' => Stands(AutoFind, present') = Stands(AutoFind, present)

\* Then what was known of a value on its way stays so.
LEMMA MeantStays ==
  ASSUME Grows, NEW n \in Controls, NEW w \in Write, Meant(w, n)
  PROVE  Meant(w, n)'
BY DEF Grows, Meant, Write

\* An empty entry of the writer's dictionaries is meant for no card.
LEMMA NothingMeant ==
  ASSUME NEW n \in Controls
  PROVE  Meant(NoWrite, n)'
BY GuiAssumption DEF Meant, NoWrite, Devs

\* Pushing a payload makes its values the newest of the selected card's
\* controls, and displaces what waited for another card's (CtlWriter.push).
LEMMA PushKeepsNewest ==
  ASSUME IInv, NEW p, Payload(p),
         pending' = Pushed(p), asked' = Asked(p), byAuto' = AskedByAuto(p),
         UNCHANGED <<card, present, batch, moved>>
  PROVE  /\ \A n \in Controls : Meant(pending[n], n)' /\ Meant(batch[n], n)'
         /\ \A d \in Cards, n \in Controls : Known(d, n)' /\ Newest(d, n)'
<1> DEFINE here == Stands(dev, present)
<1>1. here \subseteq Cards /\ dev \in Devs
  BY StandsTyped DEF IInv, TypeOK
<1> HIDE DEF here
<1>2. ASSUME NEW d \in Cards, NEW n \in Controls
      PROVE  /\ asked[d][n] \in Ledger
             /\ n \notin DOMAIN p => asked'[d][n] = asked[d][n]
             /\ n \in DOMAIN p /\ d \in here
                  => asked'[d][n] = [ever |-> asked[d][n].ever \cup {p[n]}, last |-> p[n], lost |-> {}]
             /\ n \in DOMAIN p /\ d \notin here
                  => asked'[d][n] = IF d \in pending[n].meant
                                    THEN [asked[d][n] EXCEPT !.lost = @ \cup {"displaced"}]
                                    ELSE asked[d][n]
  BY DEF IInv, TypeOK, Asked, here
<1>3. ASSUME NEW d \in Cards, NEW n \in Controls
      PROVE  /\ asked[d][n].ever \subseteq asked'[d][n].ever
             /\ n \in DOMAIN p /\ d \in here
                  => p[n] \in asked'[d][n].ever /\ asked'[d][n].last = p[n]
             /\ d \notin here \/ n \notin DOMAIN p
                  => /\ asked'[d][n].last = asked[d][n].last
                     /\ asked'[d][n].lost = {} => asked[d][n].lost = {}
                     /\ asked'[d][n].lost = {} /\ n \in DOMAIN p => d \notin pending[n].meant
  <2>1. CASE n \notin DOMAIN p
    BY <1>2, <2>1
  <2>2. CASE n \in DOMAIN p /\ d \in here
    <3>1. asked'[d][n] = [ever |-> asked[d][n].ever \cup {p[n]}, last |-> p[n], lost |-> {}]
      BY <1>2, <2>2
    <3>2. asked'[d][n].ever = asked[d][n].ever \cup {p[n]} /\ asked'[d][n].last = p[n]
      BY <3>1
    <3> QED BY <2>2, <3>2
  <2>3. CASE n \in DOMAIN p /\ d \notin here
    <3>1. CASE d \in pending[n].meant
      <4>1. asked'[d][n] = [asked[d][n] EXCEPT !.lost = @ \cup {"displaced"}]
        BY <1>2, <2>3, <3>1
      <4> QED BY <1>2, <2>3, <4>1 DEF Ledger
    <3>2. CASE d \notin pending[n].meant
      BY <1>2, <2>3, <3>2
    <3> QED BY <3>1, <3>2
  <2> QED BY <2>1, <2>2, <2>3
<1>4. \A n \in Controls :
        /\ n \notin DOMAIN p => pending'[n] = pending[n]
        /\ n \in DOMAIN p => pending'[n] = [dev |-> dev, value |-> p[n], meant |-> here]
  BY DEF Pushed, Pushing, here
<1>8. \A n \in Controls : n \in DOMAIN p =>
        pending'[n].dev = dev /\ pending'[n].value = p[n] /\ pending'[n].meant = here
  <2>1. ASSUME NEW n \in Controls, n \in DOMAIN p
        PROVE  pending'[n].dev = dev /\ pending'[n].value = p[n] /\ pending'[n].meant = here
    <3>1. pending'[n] = [dev |-> dev, value |-> p[n], meant |-> here]
      BY <1>4, <2>1
    <3> QED BY <3>1
  <2> QED BY <2>1
<1>5. Grows
  BY <1>3 DEF Grows, AskedByAuto, IInv, TypeOK
<1>6. ASSUME NEW n \in Controls PROVE Meant(pending[n], n)' /\ Meant(batch[n], n)'
  <2>1. /\ pending[n] \in Write /\ batch[n] \in Write
        /\ Meant(pending[n], n) /\ Meant(batch[n], n)
    BY DEF IInv, TypeOK
  <2>2. Meant(batch[n], n)'
    BY <1>5, <2>1, MeantStays
  <2>3. CASE n \notin DOMAIN p
    <3>1. pending'[n] = pending[n]
      BY <1>4, <2>3
    <3> QED BY <1>5, <2>1, <2>2, <3>1, MeantStays
  <2>4. CASE n \in DOMAIN p
    <3>1. pending'[n].dev = dev /\ pending'[n].value = p[n] /\ pending'[n].meant = here
      BY <1>8, <2>4
    <3>2. dev # None
      BY <1>1, GuiAssumption
    <3>3. dev \in Cards => here = {dev}
      BY GuiAssumption DEF here, Stands
    <3>4. dev = AutoFind => p[n] \in byAuto'[n] /\ here = Stands(AutoFind, present')
      BY <2>4 DEF AskedByAuto, here
    <3>5. \A d \in here : p[n] \in asked'[d][n].ever
      BY <1>1, <1>3, <2>4
    <3>6. Meant(pending[n], n)'
      BY <3>1, <3>2, <3>3, <3>4, <3>5 DEF Meant
    <3> QED BY <2>2, <3>6
  <2> QED BY <2>3, <2>4
<1>7. ASSUME NEW d \in Cards, NEW n \in Controls PROVE Known(d, n)' /\ Newest(d, n)'
  <2>1. Known(d, n) /\ Newest(d, n)
    BY DEF IInv
  <2>2. Known(d, n)'
    BY <1>5, <2>1 DEF Known, Grows
  <2>3. CASE n \notin DOMAIN p
    BY <1>2, <1>4, <2>1, <2>2, <2>3 DEF Newest, Outstanding
  <2>4. CASE n \in DOMAIN p /\ d \in here
    <3>1. d \in pending'[n].meant /\ pending'[n].value = p[n] /\ asked'[d][n].last = p[n]
      BY <1>3, <1>8, <2>4
    <3> QED BY <2>2, <3>1 DEF Newest, Outstanding
  <2>5. CASE n \in DOMAIN p /\ d \notin here
    <3>1. /\ d \notin pending'[n].meant /\ asked'[d][n].last = asked[d][n].last
          /\ asked'[d][n].lost = {} => asked[d][n].lost = {} /\ d \notin pending[n].meant
      BY <1>3, <1>8, <2>5
    <3> QED BY <2>1, <2>2, <3>1 DEF Newest, Outstanding
  <2> QED BY <2>3, <2>4, <2>5
<1> QED BY <1>6, <1>7

\* A write takes the value to the card it was meant for, or the history notes
\* what became of it (CtlWriter._loop).
LEMMA WriteKeepsNewest ==
  ASSUME IInv, NEW m \in Controls, WriteOne(m)
  PROVE  /\ \A n \in Controls : Meant(pending[n], n)' /\ Meant(batch[n], n)'
         /\ \A d \in Cards, n \in Controls : Known(d, n)' /\ Newest(d, n)'
<1>1. PICK W \in SUBSET Cards :
           /\ W = Reached(batch[m].dev, present) \/ W = {}
           /\ batch[m].dev \in Devs
           /\ batch' = [batch EXCEPT ![m] = NoWrite]
           /\ \A d \in Cards, n \in Controls :
                /\ card'[d][n] = IF n = m /\ d \in W THEN batch[m].value ELSE card[d][n]
                /\ asked'[d][n].ever = asked[d][n].ever /\ asked'[d][n].last = asked[d][n].last
                /\ asked'[d][n].lost = {} => asked[d][n].lost = {}
                /\ n = m /\ asked'[d][n].lost = {} /\ d \notin pending[m].meant
                     => (d \in W <=> d \in batch[m].meant)
  BY WriteEffect DEF IInv
<1>2. UNCHANGED <<present, pending, byAuto, moved>>
  BY DEF WriteOne, Written
<1>3. Grows
  BY <1>1, <1>2 DEF Grows, IInv, TypeOK
<1>4. ASSUME NEW n \in Controls PROVE Meant(pending[n], n)' /\ Meant(batch[n], n)'
  <2>1. /\ pending[n] \in Write /\ batch[n] \in Write
        /\ Meant(pending[n], n) /\ Meant(batch[n], n)
    BY DEF IInv, TypeOK
  <2>2. batch'[n] = IF n = m THEN NoWrite ELSE batch[n]
    BY <1>1 DEF IInv, TypeOK
  <2>3. Meant(pending[n], n)'
    BY <1>2, <1>3, <2>1, MeantStays
  <2>4. CASE n = m
    BY <2>2, <2>3, <2>4, NothingMeant
  <2>5. CASE n # m
    BY <1>3, <2>1, <2>2, <2>3, <2>5, MeantStays
  <2> QED BY <2>4, <2>5
<1>5. ASSUME NEW d \in Cards, NEW n \in Controls PROVE Known(d, n)' /\ Newest(d, n)'
  <2>1. Known(d, n) /\ Newest(d, n) /\ Meant(batch[n], n)
    BY DEF IInv
  <2>2. CASE n = m /\ d \in W
    <3>1. card'[d][n] = batch[n].value /\ batch'[n].meant = {}
      BY <1>1, <2>2 DEF NoWrite, IInv, TypeOK
    <3>2. Known(d, n)'
      <4>1. d \in Stands(batch[n].dev, present)
        BY <1>1, <2>2 DEF Reached
      <4>2. CASE batch[n].dev = AutoFind
        BY <1>1, <1>2, <2>1, <3>1, <4>1, <4>2 DEF Known, Meant
      <4>3. CASE batch[n].dev # AutoFind
        <5>1. batch[n].dev = d /\ d \in Cards
          BY <4>1, <4>3 DEF Stands
        <5> QED BY <1>1, <1>2, <2>1, <3>1, <5>1 DEF Known, Meant
      <4> QED BY <4>2, <4>3
    <3>3. Newest(d, n)'
      BY <1>1, <1>2, <2>1, <2>2, <3>1 DEF Newest, Outstanding
    <3> QED BY <3>2, <3>3
  <2>3. CASE n = m /\ d \notin W
    <3>1. card'[d][n] = card[d][n] /\ batch'[n].meant = {}
      BY <1>1, <2>3 DEF NoWrite, IInv, TypeOK
    <3> QED BY <1>1, <1>2, <2>1, <2>3, <3>1 DEF Known, Newest, Outstanding
  <2>4. CASE n # m
    <3>1. card'[d][n] = card[d][n] /\ batch'[n] = batch[n]
      BY <1>1, <2>4 DEF IInv, TypeOK
    <3> QED BY <1>1, <1>2, <2>1, <3>1 DEF Known, Newest, Outstanding
  <2> QED BY <2>2, <2>3, <2>4
<1> QED BY <1>4, <1>5

\* Another program's value is the last one asked for, unless one of ours is
\* still to come.
LEMMA OutsideKeepsNewest ==
  ASSUME IInv, NEW e \in Cards, NEW m \in Controls, NEW v \in Values, Outside(e, m, v)
  PROVE  /\ Grows
         /\ \A d \in Cards, n \in Controls : Known(d, n)' /\ Newest(d, n)'
<1>1. UNCHANGED <<pending, batch, present, byAuto, moved>>
  BY DEF Outside
<1>2. ASSUME NEW d \in Cards, NEW n \in Controls, ~(e = d /\ m = n)
      PROVE  card'[d][n] = card[d][n] /\ asked'[d][n] = asked[d][n]
  BY <1>2 DEF Outside, IInv, TypeOK
<1>3. /\ card'[e][m] = v
      /\ asked'[e][m].ever = asked[e][m].ever \cup {v}
      /\ Outstanding(e, m) => /\ asked'[e][m].last = asked[e][m].last
                              /\ asked'[e][m].lost = asked[e][m].lost
      /\ ~Outstanding(e, m) => asked'[e][m].last = v
  <2>1. /\ card'[e][m] = v
        /\ asked'[e][m] = [ever |-> asked[e][m].ever \cup {v},
                           last |-> IF Outstanding(e, m) THEN asked[e][m].last ELSE v,
                           lost |-> IF Outstanding(e, m) THEN asked[e][m].lost ELSE {}]
    BY DEF Outside, IInv, TypeOK
  <2> QED BY <2>1
<1>4. \A d \in Cards, n \in Controls : asked[d][n].ever \subseteq asked'[d][n].ever
  BY <1>2, <1>3
<1>5. Grows
  BY <1>1, <1>4 DEF Grows, IInv, TypeOK
<1>6. ASSUME NEW d \in Cards, NEW n \in Controls PROVE Known(d, n)' /\ Newest(d, n)'
  <2>1. Known(d, n) /\ Newest(d, n)
    BY DEF IInv
  <2>2. CASE e = d /\ m = n
    BY <1>1, <1>3, <2>1, <2>2 DEF Known, Newest, Outstanding
  <2>3. CASE ~(e = d /\ m = n)
    BY <1>1, <1>2, <2>1, <2>3 DEF Known, Newest, Outstanding
  <2> QED BY <2>2, <2>3
<1> QED BY <1>5, <1>6

\* A card that comes back holds defaults, which are the last values unless one
\* of ours is still to come.
LEMMA PlugKeepsNewest ==
  ASSUME IInv, NEW e \in Cards, Plug(e)
  PROVE  /\ Grows
         /\ \A d \in Cards, n \in Controls : Known(d, n)' /\ Newest(d, n)'
<1>1. UNCHANGED <<pending, batch, byAuto>> /\ AutoMoves /\ moved \in BOOLEAN
  BY DEF Plug, IInv, TypeOK
<1>2. ASSUME NEW d \in Cards, NEW n \in Controls, e # d
      PROVE  card'[d][n] = card[d][n] /\ asked'[d][n] = asked[d][n] /\ present'[d] = present[d]
  BY <1>2 DEF Plug, IInv, TypeOK
<1>3. ASSUME NEW n \in Controls
      PROVE  /\ card'[e][n] = Default
             /\ asked'[e][n].ever = asked[e][n].ever
             /\ Outstanding(e, n) => asked'[e][n] = asked[e][n]
             /\ ~Outstanding(e, n) => asked'[e][n].last = Default
  <2>1. /\ card'[e][n] = Default
        /\ asked'[e][n] = IF Outstanding(e, n) THEN asked[e][n]
                          ELSE [asked[e][n] EXCEPT !.last = Default, !.lost = {}]
    BY DEF Plug, IInv, TypeOK
  <2>2. asked[e][n] \in Ledger
    BY DEF IInv, TypeOK
  <2> QED BY <2>1, <2>2 DEF Ledger
<1>4. Grows
  BY <1>1, <1>2, <1>3 DEF Grows, AutoMoves
<1>5. ASSUME NEW d \in Cards, NEW n \in Controls PROVE Known(d, n)' /\ Newest(d, n)'
  <2>1. Known(d, n) /\ Newest(d, n)
    BY DEF IInv
  <2>2. Known(d, n)'
    <3>1. CASE e = d
      BY <1>3, <2>1, <3>1 DEF Known
    <3>2. CASE e # d
      BY <1>1, <1>2, <2>1, <3>2 DEF Known, AutoMoves
    <3> QED BY <3>1, <3>2
  <2>3. Newest(d, n)'
    <3>1. CASE e = d
      BY <1>1, <1>3, <2>1, <3>1 DEF Newest, Outstanding
    <3>2. CASE e # d
      BY <1>1, <1>2, <2>1, <3>2 DEF Newest, Outstanding
    <3> QED BY <3>1, <3>2
  <2> QED BY <2>2, <2>3
<1> QED BY <1>4, <1>5

\* Every step keeps the invariant.
LEMMA StepKeepsNewest ==
  ASSUME IInv, Next
  PROVE  /\ \A n \in Controls : Meant(pending[n], n)' /\ Meant(batch[n], n)'
         /\ \A d \in Cards, n \in Controls : Known(d, n)' /\ Newest(d, n)'
<1> DEFINE Goal == /\ \A n \in Controls : Meant(pending[n], n)' /\ Meant(batch[n], n)'
                   /\ \A d \in Cards, n \in Controls : Known(d, n)' /\ Newest(d, n)'
<1>1. ASSUME UNCHANGED <<pending, batch>>, Grows
      PROVE  \A n \in Controls : Meant(pending[n], n)' /\ Meant(batch[n], n)'
  <2>1. ASSUME NEW n \in Controls PROVE Meant(pending[n], n)' /\ Meant(batch[n], n)'
    <3>1. /\ pending[n] \in Write /\ batch[n] \in Write
          /\ Meant(pending[n], n) /\ Meant(batch[n], n)
      BY DEF IInv, TypeOK
    <3> QED BY <1>1, <3>1, MeantStays
  <2> QED BY <2>1
<1>2. ASSUME NEW m \in Controls, NEW v \in Values, Edit(m, v) PROVE Goal
  <2> DEFINE p == [k \in {m} |-> v]
  <2>1. Payload(p)
    BY DEF Payload
  <2>2. /\ pending' = Pushed(p) /\ asked' = Asked(p) /\ byAuto' = AskedByAuto(p)
        /\ UNCHANGED <<card, present, batch, moved>>
    BY <1>2 DEF Edit
  <2> HIDE DEF p
  <2> QED BY <2>1, <2>2, PushKeepsNewest
<1>3. ASSUME NEW p, Payload(p), Applied(p) PROVE Goal
  <2>1. /\ pending' = Pushed(p) /\ asked' = Asked(p) /\ byAuto' = AskedByAuto(p)
        /\ UNCHANGED <<card, present, batch, moved>>
    BY <1>3 DEF Applied
  <2> QED BY <1>3, <2>1, PushKeepsNewest
<1>4. ASSUME NEW p \in Payloads, ApplySnapshot(p) PROVE Goal
  <2>1. Payload(p) /\ Applied(p)
    BY <1>4, GuiAssumption DEF Payload, ApplySnapshot
  <2> HIDE DEF Goal
  <2> QED BY <1>3, <2>1
<1>11. ASSUME UNCHANGED <<card, present, pending, batch, asked, byAuto, moved>> PROVE Goal
  <2>1. Grows
    BY <1>11 DEF Grows, IInv, TypeOK
  <2>2. \A d \in Cards, n \in Controls : Known(d, n)' /\ Newest(d, n)'
    BY <1>11 DEF IInv, Known, Newest, Outstanding
  <2> QED BY <1>1, <1>11, <2>1, <2>2
<1>5. ASSUME Undo PROVE Goal
  <2> HIDE DEF Goal
  <2>1. CASE built
    BY <1>3, <1>5, <2>1, UndoPops DEF IInv, Undo
  <2>2. CASE ~built
    BY <1>11, <1>5, <2>2 DEF Undo, history
  <2> QED BY <2>1, <2>2
<1>6. ASSUME TakeBatch PROVE Goal
  <2>1. /\ batch' = pending /\ UNCHANGED <<card, present, asked, byAuto, moved>>
        /\ \A n \in Controls : batch[n].dev = None /\ pending'[n] = NoWrite
    BY <1>6 DEF TakeBatch, Drained, history
  <2>2. Grows
    BY <2>1 DEF Grows, IInv, TypeOK
  <2>3. ASSUME NEW n \in Controls PROVE Meant(pending[n], n)' /\ Meant(batch[n], n)'
    <3>1. pending[n] \in Write /\ Meant(pending[n], n)
      BY DEF IInv, TypeOK
    <3>2. Meant(batch[n], n)'
      BY <2>1, <2>2, <3>1, MeantStays
    <3> QED BY <2>1, <3>2, NothingMeant
  <2>4. ASSUME NEW d \in Cards, NEW n \in Controls PROVE Known(d, n)' /\ Newest(d, n)'
    <3>1. batch[n].meant = {} /\ pending'[n].meant = {}
      BY <2>1 DEF IInv, Meant, NoWrite
    <3> QED BY <2>1, <3>1 DEF IInv, Known, Newest, Outstanding
  <2> QED BY <2>3, <2>4
<1>7. ASSUME NEW m \in Controls, WriteOne(m) PROVE Goal
  BY <1>7, WriteKeepsNewest
<1>8. ASSUME NEW e \in Cards, NEW m \in Controls, NEW v \in Values, Outside(e, m, v) PROVE Goal
  <2>1. UNCHANGED <<pending, batch>>
    BY <1>8 DEF Outside
  <2> QED BY <1>1, <1>8, <2>1, OutsideKeepsNewest
<1>9. ASSUME NEW e \in Cards, Unplug(e) PROVE Goal
  <2>1. Grows
    BY <1>9 DEF Unplug, AutoMoves, Grows, IInv, TypeOK
  <2>2. ASSUME NEW d \in Cards, NEW n \in Controls PROVE Known(d, n)' /\ Newest(d, n)'
    <3>1. /\ Known(d, n) /\ Newest(d, n) /\ (moved => moved')
          /\ UNCHANGED <<card, asked, byAuto, pending, batch>> /\ (present'[d] => present[d])
      BY <1>9 DEF IInv, Unplug, AutoMoves, TypeOK
    <3> QED BY <3>1 DEF Known, Newest, Outstanding
  <2>3. UNCHANGED <<pending, batch>>
    BY <1>9 DEF Unplug
  <2> QED BY <1>1, <2>1, <2>2, <2>3
<1>10. ASSUME NEW e \in Cards, Plug(e) PROVE Goal
  <2>1. UNCHANGED <<pending, batch>>
    BY <1>10 DEF Plug
  <2> QED BY <1>1, <1>10, <2>1, PlugKeepsNewest
<1> HIDE DEF Goal
<1>12. Goal
  BY <1>2, <1>4, <1>5, <1>6, <1>7, <1>8, <1>9, <1>10, <1>11
     DEF Next, SelectCard, GraceEnds, Poll, PollList, PollDone, history
<1> QED BY <1>12 DEF Goal

\* The invariant holds of every behaviour.
LEMMA Invariance == Spec => []IInv
<1>1. Init => IInv
  <2> SUFFICES ASSUME Init PROVE IInv
    OBVIOUS
  <2>1. TypeOK
    BY InitTyped
  <2>2. ASSUME NEW n \in Controls PROVE Meant(pending[n], n) /\ Meant(batch[n], n)
    BY GuiAssumption DEF Init, Meant, NoWrite, Devs
  <2>3. ASSUME NEW d \in Cards, NEW n \in Controls PROVE Known(d, n) /\ Newest(d, n)
    BY DEF Init, Known, Newest, Outstanding, NoWrite
  <2> QED BY <2>1, <2>2, <2>3 DEF IInv
<1>2. IInv /\ TypeOK' /\ [Next]_vars => IInv'
  <2> SUFFICES ASSUME IInv, TypeOK', [Next]_vars PROVE IInv'
    OBVIOUS
  <2>1. CASE Next
    BY <2>1, StepKeepsNewest DEF IInv
  <2>2. CASE UNCHANGED vars
    BY <2>2 DEF vars, history, IInv, Meant, Known, Newest, Outstanding
  <2> QED BY <2>1, <2>2
<1> QED BY <1>1, <1>2, TypeCorrect, PTL DEF Spec

\* Whatever the selector, the undo stack, failing writes and the writer's pace,
\* a card never holds a value that was asked for on another card, but for one
\* that Auto led there after it moved (push: `(dev, value)`).
THEOREM OnlyAskedCorrect == Spec => []OnlyAskedValues
<1>1. IInv => OnlyAskedValues
  BY DEF IInv, Known, OnlyAskedValues
<1> QED BY <1>1, Invariance, PTL

\* An idle writer has delivered the last value of every control, but for those
\* another card's edit displaced, a failing `set` gave up or Auto led astray
\* (CtlWriter: "keeps only the latest value").
THEOREM LatestCorrect == Spec => []LatestUnlessLost
<1>1. IInv => LatestUnlessLost
  <2> SUFFICES ASSUME IInv, Drained(pending), Drained(batch), NEW d \in Cards, NEW n \in Controls,
                      present[d], asked[d][n].lost = {}
               PROVE  card[d][n] = asked[d][n].last
    BY DEF LatestUnlessLost
  <2>1. pending[n].meant = {} /\ batch[n].meant = {}
    BY DEF IInv, Meant, Drained
  <2> QED BY <2>1 DEF IInv, Newest, Outstanding
<1> QED BY <1>1, Invariance, PTL

---------------------------------------------------------------------------
(* The console implements WriteQueues.                                     *)

\* A sequence of length one, spelled out.
LEMMA OneLong ==
  ASSUME NEW S, NEW s \in Seq(S), Len(s) = 1
  PROVE  s = <<s[1]>>
<1>1. <<s[1]>> \in Seq(S) /\ Len(<<s[1]>>) = 1
  OBVIOUS
<1>2. \A i \in 1 .. Len(s) : s[i] = <<s[1]>>[i]
  OBVIOUS
<1> QED BY <1>1, <1>2, SeqEqual

\* A sequence of length two, spelled out.
LEMMA TwoLong ==
  ASSUME NEW S, NEW s \in Seq(S), Len(s) = 2
  PROVE  s = <<s[1], s[2]>>
<1> DEFINE t == <<s[1], s[2]>>
<1>1. s[1] \in S /\ s[2] \in S
  BY ElementOfSeq
<1>2. t \in Seq(S) /\ Len(t) = 2 /\ t[1] = s[1] /\ t[2] = s[2]
  BY <1>1
<1>3. Len(s) = 2
  OBVIOUS
<1> HIDE DEF t
<1>4. \A i \in 1 .. 2 : s[i] = t[i]
  BY <1>2
<1>5. s = t
  BY <1>2, <1>3, <1>4, SeqEqual
<1> QED BY <1>5 DEF t

\* What the operators on sequences make of a queue of at most two.
LEMMA ShortQueues ==
  ASSUME NEW a, NEW b
  PROVE  /\ <<>> \o <<>> = <<>> /\ <<a>> \o <<>> = <<a>>
         /\ <<>> \o <<b>> = <<b>> /\ <<a>> \o <<b>> = <<a, b>>
         /\ SubSeq(<<a>>, 1, 1) = <<a>> /\ SubSeq(<<a, b>>, 1, 1) = <<a>>
         /\ Append(<<a>>, b) = <<a, b>>
<1> DEFINE S == {a, b}
<1>1. <<a>> \in Seq(S) /\ <<b>> \in Seq(S) /\ <<a, b>> \in Seq(S)
  OBVIOUS
<1>2. <<>> \o <<>> = <<>> /\ <<a>> \o <<>> = <<a>> /\ <<>> \o <<b>> = <<b>>
  OBVIOUS
<1>3. <<a>> \o <<b>> = <<a, b>>
  <2>1. /\ <<a>> \o <<b>> \in Seq(S) /\ Len(<<a>> \o <<b>>) = 2
        /\ (<<a>> \o <<b>>)[1] = a /\ (<<a>> \o <<b>>)[2] = b
    BY <1>1, ConcatProperties
  <2> QED BY <2>1, TwoLong
<1>4. SubSeq(<<a>>, 1, 1) = <<a>>
  <2>1. /\ SubSeq(<<a>>, 1, 1) \in Seq(S) /\ Len(SubSeq(<<a>>, 1, 1)) = 1
        /\ SubSeq(<<a>>, 1, 1)[1] = a
    BY <1>1, SubSeqProperties
  <2> QED BY <2>1, OneLong
<1>5. SubSeq(<<a, b>>, 1, 1) = <<a>>
  <2>1. /\ SubSeq(<<a, b>>, 1, 1) \in Seq(S) /\ Len(SubSeq(<<a, b>>, 1, 1)) = 1
        /\ SubSeq(<<a, b>>, 1, 1)[1] = a
    BY <1>1, SubSeqProperties
  <2> QED BY <2>1, OneLong
<1>6. Append(<<a>>, b) = <<a, b>>
  <2>1. /\ Append(<<a>>, b) \in Seq(S) /\ Len(Append(<<a>>, b)) = 2
        /\ Append(<<a>>, b)[1] = a /\ Append(<<a>>, b)[2] = b
    BY <1>1, AppendProperties
  <2> QED BY <2>1, TwoLong
<1> QED BY <1>2, <1>3, <1>4, <1>5, <1>6

\* The oldest value of a queue of one or two, and what is behind it.
LEMMA ShortQueueHead ==
  ASSUME NEW a, NEW b, NEW q, q = <<a>> \/ q = <<a, b>>
  PROVE  SubSeq(q, 1, 1) = <<a>> /\ 1 \in 0 .. Len(q) /\ Len(q) <= 2
<1>1. 1 \in 0 .. Len(<<a>>) /\ 1 \in 0 .. Len(<<a, b>>)
  OBVIOUS
<1>2. Len(<<a>>) <= 2 /\ Len(<<a, b>>) <= 2
  OBVIOUS
<1>3. SubSeq(<<a>>, 1, 1) = <<a>> /\ SubSeq(<<a, b>>, 1, 1) = <<a>>
  BY ShortQueues
<1>4. CASE q = <<a>>
  BY <1>1, <1>2, <1>3, <1>4
<1>5. CASE q = <<a, b>>
  BY <1>1, <1>2, <1>3, <1>5
<1> QED BY <1>4, <1>5

\* Nothing of a queue of at most one.
LEMMA ShortQueueNone ==
  ASSUME NEW a, NEW q, q = <<>> \/ q = <<a>>
  PROVE  SubSeq(q, 1, 0) = <<>> /\ 0 \in 0 .. Len(q) /\ Len(q) <= 1
<1>1. SubSeq(<<a>>, 1, 0) = <<>> /\ 0 \in 0 .. Len(<<a>>) /\ Len(<<a>>) <= 1
  OBVIOUS
<1>2. SubSeq(<<>>, 1, 0) = <<>> /\ 0 \in 0 .. Len(<<>>) /\ Len(<<>>) <= 1
  OBVIOUS
<1>3. CASE q = <<a>>
  BY <1>1, <1>3
<1>4. CASE q = <<>>
  BY <1>2, <1>4
<1> QED BY <1>3, <1>4

\* A queue is what is being written through the entry, then what waits for it.
LEMMA QueueParts ==
  ASSUME NEW d, NEW n
  PROVE  /\ batch[n].dev # d /\ pending[n].dev # d => Queued(d, n) = <<>>
         /\ batch[n].dev # d /\ pending[n].dev = d => Queued(d, n) = <<pending[n].value>>
         /\ batch[n].dev = d /\ pending[n].dev # d => Queued(d, n) = <<batch[n].value>>
         /\ batch[n].dev = d /\ pending[n].dev = d
              => Queued(d, n) = <<batch[n].value, pending[n].value>>
BY ShortQueues DEF Queued, For

\* The same of the queue after a step.
LEMMA QueuePartsNext ==
  ASSUME NEW d, NEW n
  PROVE  /\ batch'[n].dev # d /\ pending'[n].dev # d => Queued(d, n)' = <<>>
         /\ batch'[n].dev # d /\ pending'[n].dev = d => Queued(d, n)' = <<pending'[n].value>>
         /\ batch'[n].dev = d /\ pending'[n].dev # d => Queued(d, n)' = <<batch'[n].value>>
         /\ batch'[n].dev = d /\ pending'[n].dev = d
              => Queued(d, n)' = <<batch'[n].value, pending'[n].value>>
BY ShortQueues DEF Queued, For

\* The queue of every control of every entry.
Waiting == [d \in Devs |-> [n \in Controls |-> Queued(d, n)]]

\* Queues that no control's entry changes for are the same.
LEMMA SameQueues ==
  ASSUME \A d \in Devs, n \in Controls : Queued(d, n)' = Queued(d, n)
  PROVE  Waiting' = Waiting
BY DEF Waiting

\* A pushed payload puts its values behind what is being written for the
\* selected entry, and leaves other entries only what is being written (push).
LEMMA PushAsks ==
  ASSUME TypeOK, NEW p, Payload(p), pending' = Pushed(p), UNCHANGED <<card, present, batch>>
  PROVE  Queues!Ask(dev)
<1> DEFINE S == DOMAIN p
<1>1. S \in SUBSET Controls /\ dev \in Devs
  BY DEF Payload, TypeOK
<1>2. ASSUME NEW e \in Devs, NEW n \in Controls, n \notin S
      PROVE  Waiting'[e][n] = Waiting[e][n]
  BY <1>2 DEF Waiting, Queued, For, Pushed
<1>3. ASSUME NEW n \in Controls, n \in S
      PROVE  Queues!Behind(Waiting[dev][n], Waiting'[dev][n])
  <2>1. pending'[n].dev = dev /\ pending'[n].value = p[n] /\ p[n] \in Values
    BY <1>3 DEF Pushed, Pushing, Payload
  <2>2. CASE batch[n].dev = dev
    <3>1. /\ \/ Waiting[dev][n] = <<batch[n].value>>
             \/ Waiting[dev][n] = <<batch[n].value, pending[n].value>>
          /\ Waiting'[dev][n] = <<batch[n].value, p[n]>>
      BY <1>1, <2>1, <2>2, QueueParts, QueuePartsNext DEF Waiting
    <3>2. /\ Waiting'[dev][n] = Append(SubSeq(Waiting[dev][n], 1, 1), p[n])
          /\ 1 \in 0 .. Len(Waiting[dev][n])
      <4>1. /\ SubSeq(Waiting[dev][n], 1, 1) = <<batch[n].value>>
            /\ 1 \in 0 .. Len(Waiting[dev][n])
        BY <3>1, ShortQueueHead
      <4>2. Append(<<batch[n].value>>, p[n]) = <<batch[n].value, p[n]>>
        BY ShortQueues
      <4> QED BY <3>1, <4>1, <4>2
    <3> QED BY <2>1, <3>2 DEF Queues!Behind
  <2>3. CASE batch[n].dev # dev
    <3>1. /\ Waiting[dev][n] \in {<<>>, <<pending[n].value>>}
          /\ Waiting'[dev][n] = <<p[n]>>
      BY <1>1, <2>1, <2>3, QueueParts, QueuePartsNext DEF Waiting
    <3>2. /\ Waiting'[dev][n] = Append(SubSeq(Waiting[dev][n], 1, 0), p[n])
          /\ 0 \in 0 .. Len(Waiting[dev][n])
      BY <3>1
    <3> QED BY <2>1, <3>2 DEF Queues!Behind
  <2> QED BY <2>2, <2>3
<1>4. ASSUME NEW e \in Devs, e # dev, NEW n \in Controls, n \in S
      PROVE  Queues!MayGiveWay(Waiting[e][n], Waiting'[e][n])
  <2>1. pending'[n].dev # e
    BY <1>4 DEF Pushed, Pushing
  <2>2. CASE batch[n].dev = e
    <3>1. /\ \/ Waiting[e][n] = <<batch[n].value>>
             \/ Waiting[e][n] = <<batch[n].value, pending[n].value>>
          /\ Waiting'[e][n] = <<batch[n].value>>
      BY <2>1, <2>2, QueueParts, QueuePartsNext DEF Waiting
    <3>2. /\ Waiting'[e][n] = SubSeq(Waiting[e][n], 1, 1)
          /\ 1 \in 0 .. Len(Waiting[e][n]) /\ Len(Waiting[e][n]) <= 2
      BY <3>1, ShortQueueHead
    <3> QED BY <3>2 DEF Queues!MayGiveWay
  <2>3. CASE batch[n].dev # e
    <3>1. /\ Waiting[e][n] = <<>> \/ Waiting[e][n] = <<pending[n].value>>
          /\ Waiting'[e][n] = <<>>
      BY <2>1, <2>3, QueueParts, QueuePartsNext DEF Waiting
    <3>2. /\ Waiting'[e][n] = SubSeq(Waiting[e][n], 1, 0)
          /\ 0 \in 0 .. Len(Waiting[e][n]) /\ Len(Waiting[e][n]) <= 1
      BY <3>1, ShortQueueNone
    <3> QED BY <3>2 DEF Queues!MayGiveWay
  <2> QED BY <2>2, <2>3
<1> HIDE DEF S
<1> QED BY <1>1, <1>2, <1>3, <1>4 DEF Queues!Ask, Waiting, Devs, Queues!Devs

\* A write hands the oldest value of its control's queue over to the card its
\* entry reaches, or fails; all other queues stay (CtlWriter._loop).
LEMMA WriteDelivers ==
  ASSUME TypeOK, NEW n \in Controls, WriteOne(n)
  PROVE  \E d \in Devs : Queues!Deliver(d, n)
<1>0. PICK W \in SUBSET Cards :
        /\ W = Reached(batch[n].dev, present) \/ W = {}
        /\ batch[n].dev \in Devs
        /\ card' = [d \in Cards |->
                      IF d \in W THEN [card[d] EXCEPT ![n] = batch[n].value] ELSE card[d]]
        /\ batch' = [batch EXCEPT ![n] = NoWrite]
  BY WriteEffect
<1>7. PICK d \in Devs : d = batch[n].dev
  BY <1>0
<1>1. /\ d \in Devs /\ d = batch[n].dev /\ batch'[n].dev \notin Devs
      /\ UNCHANGED <<pending, present>>
  BY <1>0, <1>7, GuiAssumption DEF TypeOK, WriteOne, Written, NoWrite
<1>2. /\ Queued(d, n) # <<>> /\ Head(Queued(d, n)) = batch[n].value
      /\ Queued(d, n)' = Tail(Queued(d, n))
  <2>1. CASE pending[n].dev = d
    <3>1. Queued(d, n) = <<batch[n].value, pending[n].value>> /\ Queued(d, n)' = <<pending[n].value>>
      BY <1>1, <2>1, QueueParts, QueuePartsNext
    <3> QED BY <3>1
  <2>2. CASE pending[n].dev # d
    <3>1. Queued(d, n) = <<batch[n].value>> /\ Queued(d, n)' = <<>>
      BY <1>1, <2>2, QueueParts, QueuePartsNext
    <3> QED BY <3>1
  <2> QED BY <2>1, <2>2
<1>3. ASSUME NEW e \in Devs, NEW m \in Controls, e # d \/ m # n
      PROVE  Queued(e, m)' = Queued(e, m)
  <2>1. CASE m # n
    BY <1>0, <1>1, <2>1 DEF TypeOK, Queued, For
  <2>2. CASE m = n
    BY <1>1, <1>3, <2>2 DEF Queued, For
  <2> QED BY <2>1, <2>2
<1>4. \/ \E c \in Queues!Reached(d, present) : card' = [card EXCEPT ![c][n] = Head(Waiting[d][n])]
      \/ card' = card
  <2>1. Head(Waiting[d][n]) = batch[n].value
    BY <1>1, <1>2 DEF Waiting
  <2>2. CASE W = {}
    <3>1. card' = [c \in Cards |-> card[c]]
      BY <1>0, <2>2
    <3> QED BY <3>1 DEF TypeOK
  <2>3. CASE W # {}
    <3>1. PICK c \in W : TRUE
      BY <2>3
    <3>2. W = {c} /\ c \in Cards /\ c \in Reached(d, present)
      BY <1>0, <1>1, <3>1, OneReached
    <3>3. card' = [card EXCEPT ![c][n] = batch[n].value]
      BY <1>0, <3>2 DEF TypeOK
    <3>4. c \in Queues!Reached(d, present)
      BY <3>2 DEF Reached, Stands, Queues!Reached, Queues!Stands
    <3> QED BY <2>1, <3>3, <3>4
  <2> QED BY <2>2, <2>3
<1>5. Waiting' = [Waiting EXCEPT ![d][n] = Tail(@)]
  <2> DEFINE V == [Waiting EXCEPT ![d][n] = Tail(@)]
  <2>1. ASSUME NEW e \in Devs, NEW m \in Controls PROVE Waiting'[e][m] = V[e][m]
    <3>1. Waiting'[e][m] = Queued(e, m)' /\ Waiting[e][m] = Queued(e, m)
      BY DEF Waiting
    <3>2. CASE e = d /\ m = n
      BY <1>2, <3>1, <3>2 DEF Waiting
    <3>3. CASE ~(e = d /\ m = n)
      BY <1>3, <3>1, <3>3 DEF Waiting
    <3> QED BY <3>2, <3>3
  <2>2. /\ Waiting' = [e \in Devs |-> [m \in Controls |-> Waiting'[e][m]]]
        /\ V = [e \in Devs |-> [m \in Controls |-> V[e][m]]]
    BY <1>1 DEF Waiting
  <2> HIDE DEF V
  <2>3. Waiting' = V
    BY <2>1, <2>2
  <2> QED BY <2>3 DEF V
<1>6. Waiting[d][n] # <<>>
  BY <1>1, <1>2 DEF Waiting
<1> QED BY <1>1, <1>4, <1>5, <1>6 DEF Queues!Deliver, Waiting

\* Every step of the console is a step of the queues or changes none of them.
LEMMA StepRefines ==
  ASSUME TypeOK, [Next]_vars
  PROVE  [Queues!Next]_(Queues!vars)
<1>1. ASSUME NEW n \in Controls, NEW v \in Values, Edit(n, v) PROVE Queues!Next
  <2> DEFINE p == [m \in {n} |-> v]
  <2>1. Payload(p) /\ pending' = Pushed(p) /\ UNCHANGED <<card, present, batch>> /\ dev \in Devs
    BY <1>1 DEF Payload, Edit, TypeOK
  <2> HIDE DEF p
  <2> QED BY <2>1, PushAsks DEF Queues!Next, Devs, Queues!Devs
<1>2. ASSUME NEW p, Payload(p), Applied(p) PROVE Queues!Next
  <2>1. pending' = Pushed(p) /\ UNCHANGED <<card, present, batch>> /\ dev \in Devs
    BY <1>2 DEF Applied, TypeOK
  <2> QED BY <1>2, <2>1, PushAsks DEF Queues!Next, Devs, Queues!Devs
<1>3. ASSUME NEW p \in Payloads, ApplySnapshot(p) PROVE Queues!Next
  <2>1. Payload(p) /\ Applied(p)
    BY <1>3, GuiAssumption DEF Payload, ApplySnapshot
  <2> QED BY <1>2, <2>1
<1>4. ASSUME UNCHANGED <<card, present, pending, batch>> PROVE UNCHANGED Queues!vars
  <2>1. Waiting' = Waiting
    BY <1>4, SameQueues DEF Queued
  <2> QED BY <1>4, <2>1 DEF Queues!vars, Waiting
<1>5. ASSUME Undo PROVE [Queues!Next]_(Queues!vars)
  <2>1. CASE built
    BY <1>2, <1>5, <2>1, UndoPops DEF Undo
  <2>2. CASE ~built
    BY <1>4, <1>5, <2>2 DEF Undo
  <2> QED BY <2>1, <2>2
<1>6. ASSUME TakeBatch PROVE UNCHANGED Queues!vars
  <2>1. ASSUME NEW d \in Devs, NEW n \in Controls PROVE Queued(d, n)' = Queued(d, n)
    <3>1. batch[n].dev # d /\ pending'[n].dev # d /\ batch' = pending
      BY <1>6, GuiAssumption DEF TakeBatch, Drained, NoWrite
    <3> QED BY <3>1, QueueParts, QueuePartsNext
  <2>2. Waiting' = Waiting
    BY <2>1, SameQueues
  <2> QED BY <1>6, <2>2 DEF TakeBatch, Queues!vars, Waiting
<1>7. ASSUME NEW n \in Controls, WriteOne(n) PROVE Queues!Next
  BY <1>7, WriteDelivers DEF Queues!Next, Devs, Queues!Devs
<1>8. ASSUME NEW d \in Cards, NEW n \in Controls, NEW v \in Values, Outside(d, n, v)
      PROVE  Queues!Next
  <2>1. Waiting' = Waiting
    BY <1>8, SameQueues DEF Outside, Queued
  <2> QED BY <1>8, <2>1 DEF Outside, Queues!Outside, Queues!Next, Waiting
<1>9. ASSUME NEW d \in Cards, Unplug(d) PROVE Queues!Next
  <2>1. Waiting' = Waiting
    BY <1>9, SameQueues DEF Unplug, Queued
  <2> QED BY <1>9, <2>1 DEF Unplug, Queues!Unplug, Queues!Next, Waiting
<1>10. ASSUME NEW d \in Cards, Plug(d) PROVE Queues!Next
  <2>1. Waiting' = Waiting
    BY <1>10, SameQueues DEF Plug, Queued
  <2> QED BY <1>10, <2>1 DEF Plug, Queues!Plug, Queues!Next, Waiting
<1>11. CASE UNCHANGED <<card, present, pending, batch>>
  BY <1>4, <1>11
<1> QED BY <1>1, <1>3, <1>5, <1>6, <1>7, <1>8, <1>9, <1>10, <1>11
     DEF Next, SelectCard, GraceEnds, Poll, PollList, PollDone, vars, history

\* The console starts and moves as WriteQueues says: the values asked for of a
\* control through an entry are handed over in the order asked for, and none is
\* dropped but for a newer one or another entry's; a failing `set` delivers
\* nothing (the safety part of DeliversInOrder).
THEOREM ImplementsQueues == Spec => Queues!Init /\ [][Queues!Next]_(Queues!vars)
<1>1. Init => Queues!Init
  <2> SUFFICES ASSUME Init PROVE Queues!Init
    OBVIOUS
  <2>1. ASSUME NEW d \in Devs, NEW n \in Controls PROVE Queued(d, n) = <<>>
    BY GuiAssumption, QueueParts DEF Init, NoWrite, Devs
  <2> QED BY <2>1 DEF Init, Queues!Init, Devs, Queues!Devs
<1>2. TypeOK /\ [Next]_vars => [Queues!Next]_(Queues!vars)
  BY StepRefines
<1> QED BY <1>1, <1>2, TypeCorrect, PTL DEF Spec
=============================================================================
