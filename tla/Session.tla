------------------------------- MODULE Session -------------------------------
(***************************************************************************)
(* What goes on around the mixer in the GTK console                        *)
(* (motu424-gui.legacy.py): the talkback button that is held or clicked,   *)
(* the status line and its timers, the diagnostics page and its threads,   *)
(* and channel names edited in several tabs and kept in a file.            *)
(*                                                                         *)
(* One handler of the main loop is one step. Threads, timers and           *)
(* `motu424-ctl` processes run in between; a rebuild of the console reads  *)
(* the button from the card, fills the labels from the names and starts a  *)
(* diagnosis. One card and one channel, shown in several tabs.             *)
(***************************************************************************)
EXTENDS Integers

CONSTANTS
  Labels,    \* the labels of the channel, one in each tab
  Texts,     \* names users type
  Caption,   \* the channel's own name, shown when it has no other
  None,      \* no name; no write; no reply; nothing typed
  MaxSteps   \* bound: user actions, other programs' changes and rebuilds

ASSUME SessionAssumption ==
  None \notin Texts \cup {Caption} \cup BOOLEAN /\ MaxSteps \in Nat

VARIABLES
  talk,     \* the card's Talkback Switch
  btn,      \* is the button down?
  held,     \* the press: none, short so far, or longer than TB_HOLD_S
  touched,  \* the switch was edited less than TOUCH_GRACE ago
  pending,  \* CtlWriter._pending of the switch
  batch,    \* what the writer has taken and not written yet
  reply,    \* what the poll under way has read
  over,     \* history: the last thing asked for is the end of a long press
  status,   \* the message shown, by its _status_seq, 0 for none
  seq,      \* _status_seq
  timers,   \* messages whose timeout is still to come
  asked,    \* diagnoses started so far
  threads,  \* those that have not reported yet
  spin,     \* diag_spin
  report,   \* the diagnosis in the view, 0 for none
  names,    \* names[key] of the channel
  labels,   \* what each label shows
  file,     \* the name in NAMES_FILE
  steps

talkVars == <<talk, btn, held, touched, pending, batch, reply, over>>
statusVars == <<status, seq, timers>>
diagVars == <<asked, threads, spin, report>>
nameVars == <<names, labels, file>>
vars == <<talkVars, statusVars, diagVars, nameVars, steps>>

Counted == steps < MaxSteps /\ steps' = steps + 1

---------------------------------------------------------------------------
(* The status line and the diagnostics page.                               *)

\* _show_status: the newest message, and five seconds for it.
Show ==
  /\ seq' = seq + 1
  /\ status' = seq'
  /\ timers' = timers \cup {seq'}

FireAny(s) ==
  /\ s \in timers
  /\ timers' = timers \ {s}
  /\ status' = 0
  /\ UNCHANGED <<seq, talkVars, diagVars, nameVars, steps>>
Fire(s) ==
  /\ s \in timers
  /\ timers' = timers \ {s}
  /\ status' = IF s = seq THEN 0 ELSE status
  /\ UNCHANGED <<seq, talkVars, diagVars, nameVars, steps>>

\* _diag_refresh: the spinner starts, and a thread that collects.
Diagnosis ==
  /\ asked' = asked + 1
  /\ threads' = threads \cup {asked'}
  /\ spin' = TRUE

DiagRefresh == Counted /\ Diagnosis /\ UNCHANGED <<report, talkVars, statusVars, nameVars>>

\* _diag_collect has come to its end, and _diag_done runs for it: on the page
\* of now, whichever page asked.
DiagDone(i) ==
  /\ i \in threads
  /\ threads' = threads \ {i}
  /\ spin' = FALSE
  /\ report' = i
  /\ UNCHANGED <<asked, talkVars, statusVars, nameVars, steps>>

\* _diag_copy, and the other handlers that only have something to say.
Say == Counted /\ Show /\ UNCHANGED <<talkVars, diagVars, nameVars>>

---------------------------------------------------------------------------
(* Talkback.                                                               *)

\* A write of the switch: _on_toggle.
Toggled(v) ==
  /\ btn' = v
  /\ touched' = TRUE
  /\ pending' = v

\* What the card's switch will hold once the writer is done.
Final == IF pending # None THEN pending ELSE IF batch # None THEN batch ELSE talk

\* _tb_press: engaged on press. _tb_release: a long press lets go.
Press ==
  /\ held = "no"
  /\ Counted
  /\ held' = "short"
  /\ Toggled(~btn)
  /\ over' = FALSE
  /\ UNCHANGED <<talk, batch, reply, statusVars, diagVars, nameVars>>
HoldsOn ==
  /\ held = "short"
  /\ held' = "long"
  /\ UNCHANGED <<talk, btn, touched, pending, batch, reply, over, statusVars, diagVars, nameVars, steps>>
ReleaseToggles ==
  /\ held # "no"
  /\ held' = "no"
  /\ IF held = "long" THEN Toggled(~btn) ELSE UNCHANGED <<btn, touched, pending>>
  /\ over' = (held = "long" /\ btn = Final)
  /\ UNCHANGED <<talk, batch, reply, statusVars, diagVars, nameVars, steps>>
Release ==
  /\ held # "no"
  /\ held' = "no"
  /\ IF btn /\ held = "long" THEN Toggled(FALSE) ELSE UNCHANGED <<btn, touched, pending>>
  /\ over' = (held = "long" /\ btn = Final)
  /\ UNCHANGED <<talk, batch, reply, statusVars, diagVars, nameVars, steps>>

\* A snapshot, a scene or an undo: the button silently, and the card.
Applied(v) ==
  /\ Counted
  /\ btn' = v /\ pending' = v
  /\ over' = FALSE
  /\ UNCHANGED <<talk, held, touched, batch, reply, statusVars, diagVars, nameVars>>

\* alsamixer or another instance.
Outside ==
  /\ Counted
  /\ talk' = ~talk
  /\ over' = FALSE
  /\ UNCHANGED <<btn, held, touched, pending, batch, reply, statusVars, diagVars, nameVars>>

\* The writer takes what waits, and writes it or reports that it cannot.
TakeBatch ==
  /\ batch = None /\ pending # None
  /\ batch' = pending /\ pending' = None
  /\ UNCHANGED <<talk, btn, held, touched, reply, over, statusVars, diagVars, nameVars, steps>>
Written ==
  /\ batch # None
  /\ batch' = None
  /\ talk' = batch
  /\ UNCHANGED <<btn, held, touched, pending, reply, over, statusVars, diagVars, nameVars, steps>>
WriteFails ==
  /\ batch # None
  /\ Counted
  /\ batch' = None
  /\ over' = FALSE
  /\ Show
  /\ UNCHANGED <<talk, btn, held, touched, pending, reply, diagVars, nameVars>>

\* The poll and its reply.
PollList ==
  /\ reply = None
  /\ reply' = talk
  /\ UNCHANGED <<talk, btn, held, touched, pending, batch, over, statusVars, diagVars, nameVars, steps>>
PollDoneBusy ==
  /\ reply # None
  /\ reply' = reply
  /\ btn' = IF touched \/ pending # None THEN btn ELSE reply
  /\ UNCHANGED <<talk, held, touched, pending, batch, over, statusVars, diagVars, nameVars, steps>>
PollDone ==
  /\ reply # None
  /\ reply' = None
  /\ btn' = IF touched \/ pending # None THEN btn ELSE reply
  /\ UNCHANGED <<talk, held, touched, pending, batch, over, statusVars, diagVars, nameVars, steps>>
GraceEnds ==
  /\ touched
  /\ touched' = FALSE
  /\ UNCHANGED <<talk, btn, held, pending, batch, reply, over, statusVars, diagVars, nameVars, steps>>

---------------------------------------------------------------------------
(* Names.                                                                  *)

Label(text, padded) == [text |-> text, padded |-> padded]
NameShown(name) == IF name = None THEN Caption ELSE name

\* _on_name_edit, when a label is no longer edited. What was typed is
\* stripped; nothing at all takes the name away. The label keeps its padding.
EditOwnLabel(l, text, padded) ==
  /\ names' = text
  /\ labels' = [labels EXCEPT ![l] = Label(NameShown(text), padded /\ text # None)]
EditOf(l, text, padded) ==
  /\ names' = text
  /\ labels' = [k \in Labels |-> Label(NameShown(text), k = l /\ padded /\ text # None)]

\* _save_json writes a temporary file and renames it, or fails and says so.
Saved == file' = names'
NameEdit(l, text, padded) ==
  /\ Counted
  /\ EditOf(l, text, padded)
  /\ \/ Saved /\ UNCHANGED statusVars
     \/ UNCHANGED file /\ Show
  /\ UNCHANGED <<talkVars, diagVars>>

---------------------------------------------------------------------------
(* Rebuilding and starting again.                                          *)

\* The pieces of reload() that concern this module.
Rebuilt(t, name) ==
  /\ btn' = t
  /\ labels' = [l \in Labels |-> Label(NameShown(name), FALSE)]
  /\ Diagnosis
  /\ report' = 0

Reload ==
  /\ Counted
  /\ Rebuilt(talk, names)
  /\ UNCHANGED <<talk, held, touched, pending, batch, reply, over, statusVars, names, file>>

\* The console is closed or dies, at once or within a save, and is started
\* again. What its threads had not written or reported yet is gone.
Restart ==
  /\ Counted
  /\ names' = file
  /\ btn' = talk
  /\ labels' = [l \in Labels |-> Label(NameShown(file), FALSE)]
  /\ held' = "no" /\ touched' = FALSE
  /\ pending' = None /\ batch' = None /\ reply' = None /\ over' = FALSE
  /\ status' = 0 /\ seq' = 0 /\ timers' = {}
  /\ asked' = 1 /\ threads' = {1} /\ spin' = TRUE /\ report' = 0
  /\ UNCHANGED <<talk, file>>

\* The console has been built for the first time.
Init ==
  /\ talk \in BOOLEAN /\ btn = talk
  /\ held = "no" /\ touched = FALSE
  /\ pending = None /\ batch = None /\ reply = None /\ over = FALSE
  /\ status = 0 /\ seq = 0 /\ timers = {}
  /\ asked = 1 /\ threads = {1} /\ spin = TRUE /\ report = 0
  /\ file \in Texts \cup {None} /\ names = file
  /\ labels = [l \in Labels |-> Label(NameShown(file), FALSE)]
  /\ steps = 0

Next ==
  \/ \E s \in timers : Fire(s)
  \/ \E i \in threads : DiagDone(i)
  \/ DiagRefresh \/ Say
  \/ Press \/ HoldsOn \/ Release \/ Outside
  \/ \E v \in BOOLEAN : Applied(v)
  \/ TakeBatch \/ Written \/ WriteFails \/ PollList \/ PollDone \/ GraceEnds
  \/ \E l \in Labels, text \in Texts \cup {None, Caption}, padded \in BOOLEAN :
       NameEdit(l, text, padded)
  \/ Reload \/ Restart

\* Timers fire, threads end, the poll comes around. Nobody need let go.
Spec == Init /\ [][Next]_vars
FairSpec ==
  /\ Spec
  /\ WF_vars(\E s \in timers : Fire(s)) /\ WF_vars(\E i \in threads : DiagDone(i))
  /\ WF_vars(TakeBatch) /\ WF_vars(Written) /\ WF_vars(GraceEnds)
  /\ WF_vars(PollList) /\ WF_vars(PollDone)

---------------------------------------------------------------------------
(* Properties.                                                             *)

TypeOK ==
  /\ talk \in BOOLEAN /\ btn \in BOOLEAN /\ touched \in BOOLEAN /\ over \in BOOLEAN
  /\ held \in {"no", "short", "long"}
  /\ {pending, batch, reply} \subseteq BOOLEAN \cup {None}
  /\ seq \in Nat /\ status \in 0 .. seq /\ timers \subseteq 1 .. seq
  /\ asked \in Nat /\ report \in 0 .. asked /\ threads \subseteq 1 .. asked
  /\ spin \in BOOLEAN
  /\ names \in Texts \cup {None, Caption} /\ file \in Texts \cup {None, Caption}
  /\ labels \in [Labels -> [text : Texts \cup {Caption}, padded : BOOLEAN]]
  /\ steps \in 0 .. MaxSteps

\* "Hold to talk momentarily": once a long press has ended over a button that
\* showed what the card was to hold, and nobody has asked for anything since,
\* talkback is off on the card as soon as the writer is done, however late
\* the writes, the grace and the replies of the press are.
HoldEndsOff == over /\ pending = None /\ batch = None => ~talk

\* A message goes when a newer one takes its place or when its own five
\* seconds are over, never by the timer of an older one.
StatusStaysItsTime ==
  [][status # 0 /\ status' = 0 /\ seq' = seq => status \in timers /\ status \notin timers']_vars

\* "Editable, persisted channel name (kept in sync across tabs)": whatever is
\* edited, rebuilt or restarted, all labels show the name, but for the padding
\* one was typed with; and the file has the name unless saving has failed and
\* said so, since when a message has been shown.
NamesInStep ==
  /\ \A l \in Labels : labels[l].text = NameShown(names)
  /\ file = names \/ seq > 0

\* When users stop, the console comes to rest: the status line is empty, the
\* spinner stands still over a report, the writer is done, and the button
\* shows the card's switch.
SessionSettles ==
  <>[](/\ status = 0 /\ timers = {}
       /\ ~spin /\ report # 0 /\ threads = {}
       /\ pending = None /\ batch = None
       /\ btn = talk)
=============================================================================
