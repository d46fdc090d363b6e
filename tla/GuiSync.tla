------------------------------ MODULE GuiSync ------------------------------
(***************************************************************************)
(* How the GTK console (motu424-gui.legacy.py) keeps its widgets and the   *)
(* cards in step: the coalescing writer thread, the background poll, mix-  *)
(* wide changes with undo, the card selector, and cards that come and go.  *)
(*                                                                         *)
(* The GTK main loop runs one handler at a time, so a handler is one step; *)
(* the writer thread, the poll's worker thread and the `motu424-ctl`       *)
(* processes they start interleave with it. Each such process looks for    *)
(* its card anew. A `set` may fail on any card; a `list` only without one. *)
(* The controls of one batch are written in any order: each is stated      *)
(* about on its own.                                                       *)
(***************************************************************************)
EXTENDS Selector, Sequences

CONSTANTS
  Controls,   \* names of the controls a card registers
  Values,     \* values a control takes
  Default,    \* the value of every control when the driver loads
  None,       \* no entry of the selector: marks that nothing waits
  Payloads,   \* snapshots, scenes and mix operations: controls |-> values
  UndoDepth,  \* mix-wide changes kept for undo (20)
  MaxEdits    \* bound: changes by the user, other programs and hot-plug

ASSUME GuiAssumption ==
  /\ Cards \subseteq Nat /\ AutoFind \notin Cards /\ None \notin Devs
  /\ Default \in Values
  /\ \A p \in Payloads : DOMAIN p \subseteq Controls /\ \A n \in DOMAIN p : p[n] \in Values
  /\ UndoDepth \in Nat \ {0} /\ MaxEdits \in Nat

VARIABLES
  card,     \* the controls of each card, as its driver holds them
  present,  \* is the card there?
  dev,      \* the selector's entry: current_dev()
  built,    \* does the console show controls? (_ctl_names is not empty)
  shown,    \* _byname values, which the widgets show
  touched,  \* controls edited less than TOUCH_GRACE ago
  pending,  \* CtlWriter._pending
  batch,    \* what the writer thread has taken and not written yet
  poll,     \* the poll: idle, listing, or its reply queued for the main loop
  undo,     \* _undo_stack, oldest first
  asked,    \* history: per card and control, every value asked for, the last,
            \* and how the last may have been lost
  byAuto,   \* history: per control, every value asked for through Auto
  moved,    \* history: has Auto come to stand for another card?
  edits     \* changes made so far

history == <<asked, byAuto, moved>>
vars == <<card, present, dev, built, shown, touched, pending, batch, poll, undo, history, edits>>

\* An entry of the writer's dictionaries; `meant` is history: the card that the
\* selector's entry stood for when the value was asked for.
Write == [dev : Devs \cup {None}, value : Values, meant : SUBSET Cards]
NoWrite == [dev |-> None, value |-> Default, meant |-> {}]
Entries == UNION {[S -> Values] : S \in SUBSET Controls}
Losses == {"displaced", "failed", "astray"}
Ledger == [ever : SUBSET Values, last : Values, lost : SUBSET Losses]
IdlePoll == [stage |-> "idle", dev |-> None, ok |-> FALSE, seen |-> [n \in Controls |-> Default]]

---------------------------------------------------------------------------
(* Initial state, and the pieces handlers are made of.                     *)

\* The console has just been built; the selector is on its first entry.
Init ==
  /\ card = [d \in Cards |-> [n \in Controls |-> Default]]
  /\ present = [d \in Cards |-> TRUE]
  /\ dev = AutoFind
  /\ built = (Reached(dev, present) # {})
  /\ shown = [n \in Controls |-> Default]
  /\ touched = {}
  /\ pending = [n \in Controls |-> NoWrite]
  /\ batch = [n \in Controls |-> NoWrite]
  /\ poll = IdlePoll
  /\ undo = <<>>
  /\ asked = [d \in Cards |-> [n \in Controls |->
              [ever |-> {Default}, last |-> Default, lost |-> {}]]]
  /\ byAuto = [n \in Controls |-> {}]
  /\ moved = FALSE
  /\ edits = 0

Counted == edits < MaxEdits /\ edits' = edits + 1

\* reload(): the console is rebuilt from a fresh list of the entry's card.
Reload(e) ==
  \/ Reached(e, present) = {} /\ built' = FALSE /\ UNCHANGED shown
  \/ \E d \in Reached(e, present) : built' = TRUE /\ shown' = card[d]

\* CtlWriter.push() for each control of p: the latest value per name, and the
\* entry that was selected.
Pushing(v) == [dev |-> dev, value |-> v, meant |-> Stands(dev, present)]
PushedKeepsFirst(p) ==
  [n \in Controls |-> IF n \in DOMAIN p /\ pending[n].dev # dev THEN Pushing(p[n]) ELSE pending[n]]
Pushed(p) == [n \in Controls |-> IF n \in DOMAIN p THEN Pushing(p[n]) ELSE pending[n]]

\* The user has asked for p on the card the selector stands for; what still
\* waits for the same control of another card is displaced.
Asked(p) ==
  [d \in Cards |-> [n \in Controls |->
     LET a == asked[d][n] IN
       IF n \notin DOMAIN p THEN a
       ELSE IF d \in Stands(dev, present)
         THEN [ever |-> a.ever \cup {p[n]}, last |-> p[n], lost |-> {}]
       ELSE IF d \in pending[n].meant THEN [a EXCEPT !.lost = @ \cup {"displaced"}]
       ELSE a]]
AskedByAuto(p) ==
  [n \in Controls |-> byAuto[n] \cup (IF n \in DOMAIN p /\ dev = AutoFind THEN {p[n]} ELSE {})]

\* A write of control n meant for card d is still to come.
Outstanding(d, n) == d \in pending[n].meant \cup batch[n].meant

---------------------------------------------------------------------------
(* User actions.                                                           *)

\* A widget of one control: _on_fader, _on_scale, _on_toggle, _on_switch,
\* _on_enum, then _apply().
Edit(n, v) ==
  /\ built /\ v # shown[n]
  /\ Counted
  /\ shown' = [shown EXCEPT ![n] = v]
  /\ touched' = touched \cup {n}
  /\ pending' = Pushed([m \in {n} |-> v])
  /\ asked' = Asked([m \in {n} |-> v])
  /\ byAuto' = AskedByAuto([m \in {n} |-> v])
  /\ UNCHANGED <<card, present, dev, built, batch, poll, undo, moved>>

\* _apply_snapshot(): widgets set silently, every value pushed.
Applied(p) ==
  /\ shown' = [n \in Controls |-> IF n \in DOMAIN p THEN p[n] ELSE shown[n]]
  /\ pending' = Pushed(p)
  /\ asked' = Asked(p)
  /\ byAuto' = AskedByAuto(p)
  /\ UNCHANGED <<card, present, dev, built, touched, batch, poll, moved>>

\* The previous values go onto the undo stack, which keeps the newest.
UndoPushed(prev) ==
  LET s == Append(undo, prev) IN
    IF Len(s) > UndoDepth THEN SubSeq(s, Len(s) - UndoDepth + 1, Len(s)) ELSE s

\* A snapshot, a scene, a copied or a reset mix.
ApplySnapshot(p) ==
  /\ built /\ DOMAIN p # {}
  /\ Counted
  /\ Applied(p)
  /\ undo' = UndoPushed([n \in DOMAIN p |-> shown[n]])

\* _on_undo(). Nothing is registered in an empty console, so there the entry
\* is popped and applies to no control.
Undo ==
  /\ undo # <<>>
  /\ Counted
  /\ undo' = SubSeq(undo, 1, Len(undo) - 1)
  /\ IF built THEN Applied(undo[Len(undo)])
     ELSE UNCHANGED <<card, present, dev, built, shown, touched, pending, batch, poll, history>>

\* The card selector, or (e = dev) the refresh button: reload().
SelectCard(e) ==
  /\ Counted
  /\ dev' = e
  /\ Reload(e)
  /\ UNCHANGED <<card, present, touched, pending, batch, poll, undo, history>>

\* TOUCH_GRACE has passed since the last edit of n.
GraceEnds(n) ==
  /\ n \in touched
  /\ touched' = touched \ {n}
  /\ UNCHANGED <<card, present, dev, built, shown, pending, batch, poll, undo, history, edits>>

---------------------------------------------------------------------------
(* The writer thread.                                                      *)

Drained(q) == \A n \in Controls : q[n].dev = None

\* The swap under the condition's lock, after the pause that lets a drag
\* coalesce.
TakeBatch ==
  /\ Drained(batch) /\ ~Drained(pending)
  /\ batch' = pending
  /\ pending' = [n \in Controls |-> NoWrite]
  /\ UNCHANGED <<card, present, dev, built, shown, touched, poll, undo, history, edits>>

\* One `motu424-ctl set` through an entry: it writes the card that the entry
\* reaches by now, or it fails, which is reported and gives the value up. The
\* history notes the cards that it was meant for or came to, but not both.
Written(n, e) ==
  /\ batch[n].dev # None
  /\ \E W \in {Reached(e, present), {}} :
       LET wrong == ((batch[n].meant \ W) \cup (W \ batch[n].meant)) \ pending[n].meant
           loss == IF W = {} THEN "failed" ELSE "astray" IN
         /\ card' = [d \in Cards |-> IF d \in W THEN [card[d] EXCEPT ![n] = batch[n].value] ELSE card[d]]
         /\ asked' = [d \in Cards |-> IF d \in wrong
                        THEN [asked[d] EXCEPT ![n].lost = @ \cup {loss}] ELSE asked[d]]
  /\ batch' = [batch EXCEPT ![n] = NoWrite]
  /\ UNCHANGED <<present, dev, built, shown, touched, poll, undo, byAuto, moved, edits>>
WriteThenForget(n) == Written(n, batch[n].dev) /\ pending' = [pending EXCEPT ![n] = NoWrite]
WriteToSelected(n) == Written(n, dev) /\ UNCHANGED pending
WriteOne(n) == Written(n, batch[n].dev) /\ UNCHANGED pending

---------------------------------------------------------------------------
(* The poll.                                                               *)

\* _poll(), every POLL_SECONDS unless one is under way.
Poll ==
  /\ poll.stage = "idle"
  /\ poll' = [IdlePoll EXCEPT !.stage = "listing", !.dev = dev]
  /\ UNCHANGED <<card, present, dev, built, shown, touched, pending, batch, undo, history, edits>>

\* The worker thread: `motu424-ctl list` through the entry selected then.
PollList ==
  /\ poll.stage = "listing"
  /\ \/ /\ Reached(poll.dev, present) = {}
        /\ poll' = [poll EXCEPT !.stage = "replied"]
     \/ \E d \in Reached(poll.dev, present) :
          poll' = [poll EXCEPT !.stage = "replied", !.ok = TRUE, !.seen = card[d]]
  /\ UNCHANGED <<card, present, dev, built, shown, touched, pending, batch, undo, history, edits>>

\* _poll_done(): a card that went or came is a rebuild, otherwise each control
\* that is neither touched nor waiting to be written follows the reply.
Followed(n) == IF n \in touched \/ pending[n].dev # None THEN shown[n] ELSE poll.seen[n]
PollDoneOrStuck ==
  /\ poll.stage = "replied"
  /\ poll' = IF poll.ok THEN IdlePoll ELSE poll
  /\ IF poll.ok = built
       THEN /\ shown' = IF built THEN [n \in Controls |-> Followed(n)] ELSE shown
            /\ built' = built
       ELSE Reload(dev)
  /\ UNCHANGED <<card, present, dev, touched, pending, batch, undo, history, edits>>
PollDone ==
  /\ poll.stage = "replied"
  /\ poll' = IdlePoll
  /\ IF poll.ok = built
       THEN /\ shown' = IF built THEN [n \in Controls |-> Followed(n)] ELSE shown
            /\ built' = built
       ELSE Reload(dev)
  /\ UNCHANGED <<card, present, dev, touched, pending, batch, undo, history, edits>>

---------------------------------------------------------------------------
(* Outside the console.                                                    *)

\* alsamixer or another instance sets a control; a write of ours that is
\* still to come will replace it.
Outside(d, n, v) ==
  /\ present[d] /\ card[d][n] # v
  /\ Counted
  /\ card' = [card EXCEPT ![d][n] = v]
  /\ asked' = [asked EXCEPT ![d][n] =
       [ever |-> @.ever \cup {v},
        last |-> IF Outstanding(d, n) THEN @.last ELSE v,
        lost |-> IF Outstanding(d, n) THEN @.lost ELSE {}]]
  /\ UNCHANGED <<present, dev, built, shown, touched, pending, batch, poll, undo, byAuto, moved>>

\* The driver is unloaded, or loaded and its controls at their defaults. Either
\* may change the card that Auto stands for.
AutoMoves == moved' = (moved \/ Stands(AutoFind, present') # Stands(AutoFind, present))

Unplug(d) ==
  /\ present[d]
  /\ Counted
  /\ present' = [present EXCEPT ![d] = FALSE]
  /\ AutoMoves
  /\ UNCHANGED <<card, dev, built, shown, touched, pending, batch, poll, undo, asked, byAuto>>

Plug(d) ==
  /\ ~present[d]
  /\ Counted
  /\ present' = [present EXCEPT ![d] = TRUE]
  /\ AutoMoves
  /\ card' = [card EXCEPT ![d] = [n \in Controls |-> Default]]
  /\ asked' = [asked EXCEPT ![d] = [n \in Controls |->
       IF Outstanding(d, n) THEN @[n]
       ELSE [@[n] EXCEPT !.last = Default, !.lost = {}]]]
  /\ UNCHANGED <<dev, built, shown, touched, pending, batch, poll, undo, byAuto>>

---------------------------------------------------------------------------
Next ==
  \/ \E n \in Controls, v \in Values : Edit(n, v)
  \/ \E p \in Payloads : ApplySnapshot(p)
  \/ Undo
  \/ \E e \in Devs : SelectCard(e)
  \/ \E d \in Cards : Unplug(d) \/ Plug(d)
  \/ \E n \in Controls : GraceEnds(n) \/ WriteOne(n)
  \/ TakeBatch
  \/ Poll \/ PollList \/ PollDone
  \/ \E d \in Cards, n \in Controls, v \in Values : Outside(d, n, v)

Spec == Init /\ [][Next]_vars

\* The poll timer fires, threads and `motu424-ctl` processes come to an end,
\* and time passes. Nothing is assumed of users.
FairSpec ==
  /\ Spec
  /\ WF_vars(Poll) /\ WF_vars(PollList) /\ WF_vars(PollDone)
  /\ WF_vars(TakeBatch)
  /\ \A n \in Controls : WF_vars(WriteOne(n)) /\ WF_vars(GraceEnds(n))

---------------------------------------------------------------------------
(* Properties.                                                             *)

TypeOK ==
  /\ card \in [Cards -> [Controls -> Values]]
  /\ present \in [Cards -> BOOLEAN]
  /\ dev \in Devs
  /\ built \in BOOLEAN
  /\ shown \in [Controls -> Values]
  /\ touched \in SUBSET Controls
  /\ pending \in [Controls -> Write] /\ batch \in [Controls -> Write]
  /\ poll \in [stage : {"idle", "listing", "replied"}, dev : Devs \cup {None},
               ok : BOOLEAN, seen : [Controls -> Values]]
  /\ poll.stage # "idle" => poll.dev \in Devs
  /\ undo \in Seq(Entries) /\ Len(undo) <= UndoDepth
  /\ asked \in [Cards -> [Controls -> Ledger]]
  /\ byAuto \in [Controls -> SUBSET Values] /\ moved \in BOOLEAN
  /\ edits \in 0 .. MaxEdits

\* Coalescing loses nothing that counts: once the writer has nothing left to
\* do, every control of a card that is there holds the last value asked for,
\* by the console or after it by another program, whatever was pushed while a
\* batch was being written (CtlWriter: "keeps only the latest value per
\* control and flushes them"). What a failing `set` loses, or Auto leads to
\* another card, is not coalescing's doing.
LatestIsFlushed ==
  Drained(pending) /\ Drained(batch) =>
    \A d \in Cards, n \in Controls :
      present[d] /\ asked[d][n].lost \subseteq {"displaced"} => card[d][n] = asked[d][n].last

\* The same, but for a value that an edit of the same control through another
\* entry of the selector displaced, for another card: with a failing `set` and
\* Auto, these are all the ways to lose the last value, and a value asked for
\* after such a loss is as good as any.
LatestUnlessLost ==
  Drained(pending) /\ Drained(batch) =>
    \A d \in Cards, n \in Controls :
      present[d] /\ asked[d][n].lost = {} => card[d][n] = asked[d][n].last

\* Through the writer's two dictionaries, the cards' coming and going and the
\* selector, each control of each entry sees a queue: what was taken, then what
\* waits. The console hands it over in order, each value once and to the card
\* that the entry reaches then, and drops none but for a newer one or another
\* entry's; only a failing `set` delivers nothing.
For(e, write) == IF write.dev = e THEN <<write.value>> ELSE <<>>
Queued(e, n) == For(e, batch[n]) \o For(e, pending[n])
Queues == INSTANCE WriteQueues
  WITH queue <- [e \in Devs |-> [n \in Controls |-> Queued(e, n)]]
DeliversInOrder == Queues!Spec

\* However the selector, the undo stack and a slow writer interleave, a card
\* only ever holds values that somebody asked for on that very card; but once
\* Auto has come to stand for another card, also values asked for through Auto
\* (each `set` looks for the card again).
OnlyAskedValues ==
  \A d \in Cards, n \in Controls :
    card[d][n] \in asked[d][n].ever \cup (IF moved THEN byAuto[n] ELSE {})

\* "The console follows changes made elsewhere": when changes stop, the
\* console comes to show exactly what the selected card holds and keeps
\* doing so, through failed writes, lost cards, stale replies and edits the
\* poll had to leave alone; and it is empty if there is no such card.
ConsoleConverges ==
  <>[](/\ built = (Reached(dev, present) # {})
       /\ built => \A d \in Reached(dev, present) : shown = card[d])

=============================================================================
