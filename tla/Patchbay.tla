------------------------------ MODULE Patchbay ------------------------------
(***************************************************************************)
(* The virtual patchbay of the GTK console on its demo card                *)
(* (motu424-gui.legacy.py --demo): cables dragged between jacks, pairs     *)
(* patched as a unit, the bypass, scenes and snapshots, undo, and the rate *)
(* families, which take channels away and give them back.                  *)
(*                                                                         *)
(* The console edits the demo card's own control dictionaries, until a     *)
(* change of family replaces the card: from then to the reload it asks     *)
(* for, the page edits the dictionaries of a card that is no more.         *)
(* One handler is one step. A rate stands for its family.                  *)
(***************************************************************************)
EXTENDS Channels

CONSTANTS
  Specs,      \* --rig arguments
  Families,   \* 1, 2 and 4
  Files,      \* bound: the families of the snapshots that former sessions left
  None,       \* no cable in the user's hand; nothing stored
  Grabbed,    \* bound: the jacks the user reaches for
  UndoDepth,  \* mix-wide changes kept for undo (20)
  MaxEdits    \* bound: user actions

ASSUME PatchbayAssumption ==
  UndoDepth \in Nat \ {0} /\ MaxEdits \in Nat /\ Families \subseteq Nat \ {0} /\ Files \subseteq Families

VARIABLES
  rig,     \* the interfaces of the demo card
  fam,     \* _demo_fam
  card,    \* the demo card's controls
  page,    \* the family of the card the page was built on
  byname,  \* _byname, the controls the page edits
  split,   \* are they a replaced card's?
  linked,  \* _out_pair_of
  drag,    \* the jack a cable is dragged from
  stored,  \* a scene or a snapshot file
  undo,    \* _undo_stack, oldest first
  queued,  \* a reload waits in the main loop
  edits

vars == <<rig, fam, card, page, byname, split, linked, drag, stored, undo, queued, edits>>

---------------------------------------------------------------------------
(* Controls.                                                               *)

Outs(f) == Outputs(rig, f)
Src(t) == <<"Source", t>>
St(t) == <<"Stereo", t>>
Switch == <<"Patchbay Switch">>
Rate == <<"Sample Rate">>
Talk == <<"Talkback">>  \* Talkback Switch, and as well Talkback Atten Volume
Buttons == {Switch, Talk}
Controls(f) == {"Source", "Stereo"} \X Outs(f) \cup Buttons \cup {Rate}

\* What comes before the rate: a file is sorted by name, so all but talkback is
\* before "Sample Rate"; a scene is in the card's order, after it.
Orders == {"file", "scene"}
BeforeRate(c, order) == order = "file" /\ c \notin {Rate, Talk}

\* What demo_controls() gives a control: outputs at their normals, the first
\* analog pair and the main pair linked, the bay bypassed.
Fresh(f, c) ==
  CASE c[1] = "Source" -> Normal(c[2])
    [] c[1] = "Stereo" -> c[2].idx % 2 = 0
                          /\ \/ c[2].bank \in {"AES", "Main"}
                             \/ c[2].slot = 1 /\ c[2].bank = "Analog" /\ c[2].idx < 2
    [] c \in Buttons -> FALSE
    [] c = Rate -> f
DemoControls(f) == [c \in Controls(f) |-> Fresh(f, c)]

\* An even output's Stereo Switch pairs it with the next one in its bank.
PairsBuilt(f, values) ==
  LET outs == Outs(f) IN {t \in outs : {Half(t, 0), Half(t, 1)} \subseteq outs /\ values[St(Half(t, 0))]}

Over(p, values) == [c \in DOMAIN values |-> IF c \in DOMAIN p THEN p[c] ELSE values[c]]

\* The console started with --demo, on each rig, the bay switched on or not;
\* a former session stored nothing, or a card as it comes with talkback on.
Init ==
  /\ \E spec \in Specs : IsRig(spec) /\ rig = RigOf(spec)
  /\ fam = 1 /\ page = 1
  /\ \E on \in BOOLEAN : card = [DemoControls(1) EXCEPT ![Switch] = on]
  /\ byname = card
  /\ split = FALSE
  /\ linked = PairsBuilt(1, card)
  /\ drag = None
  /\ stored \in {None} \cup {[DemoControls(f) EXCEPT ![Talk] = TRUE] : f \in Files}
  /\ undo = <<>>
  /\ queued = FALSE
  /\ edits = 0

Counted == edits < MaxEdits /\ edits' = edits + 1

---------------------------------------------------------------------------
(* Writing controls.                                                       *)

\* _apply() of each control of p, none of them the rate.
Written(p) ==
  /\ byname' = Over(p, byname)
  /\ card' = IF split THEN card ELSE Over(p, card)

\* demo_controls() for another family: surviving channels keep their state.
ReplacedAfresh(f, old) == DemoControls(f)
Replaced(f, old) ==
  [c \in Controls(f) |-> IF c = Rate THEN f ELSE IF c \in DOMAIN old THEN old[c] ELSE Fresh(f, c)]

\* _apply() of the controls of p in their order. Of those that come after a
\* rate which changes the family, only the page hears.
WrittenAroundNoReload(p, order) ==
  LET rate == IF Rate \in DOMAIN p THEN p[Rate] ELSE fam
      moved == rate # fam
      heard == [c \in {c \in DOMAIN p : ~moved \/ BeforeRate(c, order)} |-> p[c]]
      reached == IF split THEN card ELSE Over(heard, card)
  IN /\ byname' = Over(p, byname)
     /\ card' = IF moved THEN Replaced(rate, reached) ELSE reached
     /\ fam' = rate
     /\ split' = (split \/ moved)
     /\ UNCHANGED queued
WrittenAround(p, order) ==
  LET rate == IF Rate \in DOMAIN p THEN p[Rate] ELSE fam
      moved == rate # fam
      heard == [c \in {c \in DOMAIN p : ~moved \/ BeforeRate(c, order)} |-> p[c]]
      reached == IF split THEN card ELSE Over(heard, card)
  IN /\ byname' = Over(p, byname)
     /\ card' = IF moved THEN Replaced(rate, reached) ELSE reached
     /\ fam' = rate
     /\ split' = (split \/ moved)
     /\ queued' = (queued \/ moved)

\* _apply_snapshot(): only controls of the page; what they were can be undone,
\* in the same order.
Shown(p) == [c \in DOMAIN p \cap DOMAIN byname |-> p[c]]
Previous(p) == [c \in DOMAIN p \cap DOMAIN byname |-> byname[c]]
RememberedAfter(p, order) == Append(undo, [old |-> Shown(p), order |-> order])
Remembered(p, order) ==
  LET s == Append(undo, [old |-> Previous(p), order |-> order]) IN
    IF DOMAIN Previous(p) = {} THEN undo
    ELSE IF Len(s) > UndoDepth THEN SubSeq(s, Len(s) - UndoDepth + 1, Len(s)) ELSE s

---------------------------------------------------------------------------
(* The bay.                                                                *)

\* _patch_set: a linked pair takes a mix as L and R, a PCM feed as the even
\* one and the next. A value the card does not list is refused, on its own.
Wanted(t, sid) ==
  IF t \notin linked THEN [u \in {t} |-> sid]
  ELSE [u \in {Half(t, 0), Half(t, 1)} |->
          IF sid[1] = "Mix" THEN Mix(sid[2], IF u.idx % 2 = 0 THEN "L" ELSE "R")
          ELSE Pcm(sid[2] - (sid[2] % 2) + (u.idx % 2))]
Value(t, sid) == IF sid = Pcm(PcmOf(Outs(page), t)) THEN Direct ELSE sid
PatchSet(t, sid) ==
  LET w == Wanted(t, sid)
      values == [u \in DOMAIN w |-> Value(u, w[u])]
      items == Items(Outs(page))
  IN Written([c \in {Src(u) : u \in {u \in DOMAIN w : values[u] \in items}} |-> values[c[2]]])

\* _begin: the jack under the pointer, if the bay is not bypassed.
Begin(jack) ==
  /\ byname[Switch] /\ drag = None
  /\ \/ jack[1] = "src" /\ jack[2] \in Jacks(Outs(page))
     \/ jack[1] = "out" /\ jack[2] \in Outs(page)
  /\ Counted
  /\ drag' = jack
  /\ UNCHANGED <<rig, fam, card, page, byname, split, linked, stored, undo, queued>>

\* _end: on a jack of the other side, or nowhere.
Plugged(t, sid) ==
  /\ drag \in {<<"src", sid>>, <<"out", t>>} /\ drag' = None
  /\ t \in Outs(page) /\ sid \in Jacks(Outs(page))
  /\ PatchSet(t, sid)
  /\ UNCHANGED <<rig, fam, page, split, linked, stored, undo, queued, edits>>
End(jack) ==
  /\ drag # None /\ jack[1] # drag[1]
  /\ IF jack[1] = "out" THEN Plugged(jack[2], drag[2]) ELSE Plugged(drag[2], jack[2])
Dropped ==
  /\ drag # None /\ drag' = None
  /\ UNCHANGED <<rig, fam, card, page, byname, split, linked, stored, undo, queued, edits>>

\* _dbl, with normal_of: a PCM normal the bay has, or the output's own feed.
NormalSid(t) ==
  IF Normal(t) \in Jacks(Outs(page)) THEN Normal(t) ELSE Pcm(PcmOf(Outs(page), t))
DoubleClick(t) ==
  /\ byname[Switch] /\ t \in Outs(page)
  /\ Counted
  /\ PatchSet(t, NormalSid(t))
  /\ UNCHANGED <<rig, fam, page, split, linked, drag, stored, undo, queued>>

\* unpatch_all: the outputs that are not at their normals, as one undo step.
Normals ==
  LET items == Items(Outs(page)) IN
    [t \in Outs(page) |-> IF Normal(t) \in items THEN Normal(t) ELSE Direct]
Unpatched ==
  LET normals == Normals
      patched == {t \in DOMAIN normals : byname[Src(t)] # normals[t]}
  IN [c \in {Src(t) : t \in patched} |-> normals[c[2]]]
UnpatchAll ==
  /\ byname[Switch] /\ DOMAIN Unpatched # {}
  /\ Counted
  /\ Written(Unpatched)
  /\ undo' = Remembered(Unpatched, "file")
  /\ UNCHANGED <<rig, fam, page, split, linked, drag, stored, queued>>

\* _on_switch on the Patchbay Switch, _on_toggle on the talkback button.
Press(button) ==
  /\ Counted
  /\ Written([c \in {button} |-> ~byname[button]])
  /\ UNCHANGED <<rig, fam, page, split, linked, drag, stored, undo, queued>>

\* The ST button of an output strip.
Stereo(t) ==
  /\ t \in Outs(page)
  /\ Counted
  /\ Written([c \in {St(t)} |-> ~byname[St(t)]])
  /\ queued' = TRUE
  /\ UNCHANGED <<rig, fam, page, split, linked, drag, stored, undo>>

---------------------------------------------------------------------------
(* The whole console.                                                      *)

\* _on_rate.
SetRate(f) ==
  /\ f # byname[Rate]
  /\ Counted
  /\ WrittenAround([c \in {Rate} |-> f], "file")
  /\ UNCHANGED <<rig, page, linked, drag, stored, undo>>

\* _snapshot, for a scene or a file.
Store ==
  /\ Counted
  /\ stored' = byname
  /\ UNCHANGED <<rig, fam, card, page, byname, split, linked, drag, undo, queued>>

\* _snap_load_done, _on_scene.
ApplySnapshot(p, order) ==
  /\ WrittenAround(Shown(p), order)
  /\ undo' = Remembered(p, order)
  /\ UNCHANGED <<rig, page, linked, drag, stored>>
LoadFile == stored # None /\ Counted /\ ApplySnapshot(stored, "file")
RecallScene == stored # None /\ Counted /\ ApplySnapshot(stored, "scene")

\* _on_undo.
Undo ==
  /\ undo # <<>>
  /\ Counted
  /\ WrittenAround(Shown(undo[Len(undo)].old), undo[Len(undo)].order)
  /\ undo' = SubSeq(undo, 1, Len(undo) - 1)
  /\ UNCHANGED <<rig, page, linked, drag, stored>>

\* reload(): the page is built again, without the cable in the user's hand.
Reload ==
  /\ queued
  /\ queued' = FALSE
  /\ page' = fam /\ byname' = card /\ split' = FALSE
  /\ linked' = PairsBuilt(fam, card)
  /\ drag' = None
  /\ UNCHANGED <<rig, fam, card, stored, undo, edits>>

---------------------------------------------------------------------------
Next ==
  \/ \E jack \in Grabbed : Begin(jack) \/ End(jack)
  \/ Dropped
  \/ \E t \in Outs(1) : DoubleClick(t) \/ Stereo(t)
  \/ UnpatchAll
  \/ \E button \in Buttons : Press(button)
  \/ \E f \in Families : SetRate(f)
  \/ Store \/ LoadFile \/ RecallScene \/ Undo
  \/ Reload

Spec == Init /\ [][Next]_vars /\ WF_vars(Reload)

---------------------------------------------------------------------------
(* Properties.                                                             *)

\* The page edits the very controls of the card, and is the page of the
\* card's family; when it is not, a reload is on its way.
PageIsCards == IF split THEN queued ELSE page = fam /\ byname = card

\* The console numbers the feeds of a rig as the card does, whatever the
\* interfaces, the slots and the family ("MM is the output's position in
\* enumeration order").
EnumerationsAgree ==
  LET outs == Outs(page) IN \A t \in outs : PcmOf(outs, t) = CardPcm(outs, t)

\* What the cables show is what was done. A double-click leaves an output at
\* its normal. A cable lands on the output it was dragged to or from, and on a
\* linked pair as L and R or as an even-aligned pair of feeds that has the
\* jack the user took; neither half is refused.
Carried(t) == Feed(Outs(page), t, byname'[Src(t)])
Stereophonic(a, b) ==
  \/ a[1] = "Mix" /\ b = Mix(a[2], "R") /\ a[3] = "L"
  \/ a[1] = "PCM" /\ a[2] % 2 = 0 /\ b = Pcm(a[2] + 1)
PatchesTake ==
  [][/\ UNCHANGED <<drag, stored, undo, queued>> =>
          \A t \in Outs(page) : DoubleClick(t) => Carried(t) = NormalSid(t)
     /\ drag # drag' /\ drag' = None =>
          \A t \in Outs(page), sid \in Jacks(Outs(page)) : Plugged(t, sid) =>
            IF t \in linked
              THEN /\ Stereophonic(Carried(Half(t, 0)), Carried(Half(t, 1)))
                   /\ sid \in {Carried(Half(t, 0)), Carried(Half(t, 1))}
              ELSE Carried(t) = sid]_vars

\* "Pull every cord ... one Ctrl+Z undoes it": all outputs at their normals,
\* and the newest undo entry takes exactly the cables back.
UnpatchIsOneUndo ==
  [][UNCHANGED <<drag, stored, queued>> /\ UnpatchAll =>
       /\ \A t \in Outs(page) : byname'[Src(t)] = Normals[t]
       /\ Over(undo'[Len(undo')].old, byname') = byname]_vars

\* A snapshot file is restored on every control that the page and the card
\* share, also when it changes the family; but then the card keeps what it has
\* of the controls whose names sort after "Sample Rate" (talkback), which the
\* file set on the replaced card alone.
LoadRestores ==
  [][LoadFile /\ ~split =>
       \A c \in DOMAIN stored \cap DOMAIN byname \cap DOMAIN card' :
         card'[c] = IF fam' # fam /\ c = Talk THEN card[c] ELSE stored[c]]_vars
=============================================================================
