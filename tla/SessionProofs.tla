--------------------------- MODULE SessionProofs ---------------------------
(***************************************************************************)
(* Proofs about what goes on around the mixer, for any labels, texts and   *)
(* number of steps: the end of a long press, the names, and the status     *)
(* line's timers.                                                          *)
(***************************************************************************)
EXTENDS Session, TLAPS

---------------------------------------------------------------------------
(* Types.                                                                  *)

\* Labels show texts.
LEMMA LabelTypes ==
  ASSUME NEW name \in Texts \cup {None, Caption}, NEW padded \in BOOLEAN
  PROVE  Label(NameShown(name), padded) \in [text : Texts \cup {Caption}, padded : BOOLEAN]
BY DEF Label, NameShown

\* A press, a release and a snapshot write switches; the writer passes them on.
LEMMA TalkTypes ==
  ASSUME TypeOK,
         \/ Press \/ HoldsOn \/ Release \/ Outside \/ \E v \in BOOLEAN : Applied(v)
         \/ TakeBatch \/ Written \/ PollList \/ PollDone \/ GraceEnds
  PROVE  TypeOK'
<1> USE DEF TypeOK
<1>0. UNCHANGED <<statusVars, diagVars, nameVars>> /\ steps' \in 0 .. MaxSteps
  <2>0. MaxSteps \in Nat BY SessionAssumption
  <2>1. CASE Press BY <2>0, <2>1 DEF Press, Counted
  <2>2. CASE HoldsOn BY <2>2 DEF HoldsOn
  <2>3. CASE Release BY <2>3 DEF Release
  <2>4. CASE Outside BY <2>0, <2>4 DEF Outside, Counted
  <2>5. CASE \E v \in BOOLEAN : Applied(v) BY <2>0, <2>5 DEF Applied, Counted
  <2>6. CASE TakeBatch BY <2>6 DEF TakeBatch
  <2>7. CASE Written BY <2>7 DEF Written
  <2>8. CASE PollList BY <2>8 DEF PollList
  <2>9. CASE PollDone BY <2>9 DEF PollDone
  <2>10. CASE GraceEnds BY <2>10 DEF GraceEnds
  <2> QED BY <2>1, <2>2, <2>3, <2>4, <2>5, <2>6, <2>7, <2>8, <2>9, <2>10
<1>1. UNCHANGED <<status, seq, timers, asked, threads, spin, report, names, labels, file>>
  BY <1>0 DEF statusVars, diagVars, nameVars
<1>2. /\ talk' \in BOOLEAN /\ btn' \in BOOLEAN /\ touched' \in BOOLEAN /\ over' \in BOOLEAN
      /\ held' \in {"no", "short", "long"}
      /\ pending' \in BOOLEAN \cup {None} /\ batch' \in BOOLEAN \cup {None} /\ reply' \in BOOLEAN \cup {None}
  <2>1. CASE Press BY <2>1 DEF Press, Toggled
  <2>2. CASE HoldsOn BY <2>2 DEF HoldsOn
  <2>3. CASE Release BY <2>3 DEF Release, Toggled
  <2>4. CASE Outside BY <2>4 DEF Outside
  <2>5. ASSUME NEW v \in BOOLEAN, Applied(v)
        PROVE  /\ talk' \in BOOLEAN /\ btn' \in BOOLEAN /\ touched' \in BOOLEAN /\ over' \in BOOLEAN
               /\ held' \in {"no", "short", "long"}
               /\ pending' \in BOOLEAN \cup {None} /\ batch' \in BOOLEAN \cup {None} /\ reply' \in BOOLEAN \cup {None}
    BY <2>5 DEF Applied
  <2>6. CASE TakeBatch BY <2>6 DEF TakeBatch
  <2>7. CASE Written BY <2>7 DEF Written
  <2>8. CASE PollList BY <2>8 DEF PollList
  <2>9. CASE PollDone BY <2>9 DEF PollDone
  <2>10. CASE GraceEnds BY <2>10 DEF GraceEnds
  <2> QED BY <2>1, <2>2, <2>3, <2>4, <2>5, <2>6, <2>7, <2>8, <2>9, <2>10
<1> QED BY <1>0, <1>1, <1>2

\* Messages, diagnoses and names keep to their types.
LEMMA OtherTypes ==
  ASSUME TypeOK,
         \/ \E s \in timers : Fire(s)
         \/ \E i \in threads : DiagDone(i)
         \/ DiagRefresh \/ Say \/ WriteFails
         \/ \E l \in Labels, text \in Texts \cup {None, Caption}, padded \in BOOLEAN : NameEdit(l, text, padded)
         \/ Reload \/ Restart \/ UNCHANGED vars
  PROVE  TypeOK'
<1> USE DEF TypeOK
<1>0. MaxSteps \in Nat BY SessionAssumption
<1>s. Counted => steps' \in 0 .. MaxSteps
  BY <1>0 DEF Counted
<1>d. Diagnosis => asked' \in Nat /\ threads' \subseteq 1 .. asked' /\ spin' \in BOOLEAN /\ report \in 0 .. asked'
  BY DEF Diagnosis
<1>m. Show => seq' \in Nat /\ status' \in 0 .. seq' /\ timers' \subseteq 1 .. seq'
  BY DEF Show
<1>1. ASSUME NEW s \in timers, Fire(s) PROVE TypeOK'
  BY <1>1 DEF Fire, talkVars, diagVars, nameVars
<1>2. ASSUME NEW i \in threads, DiagDone(i) PROVE TypeOK'
  <2>1. UNCHANGED <<asked, talkVars, statusVars, nameVars, steps>> /\ spin' = FALSE
    BY <1>2 DEF DiagDone
  <2>2. report' \in 0 .. asked /\ threads' \subseteq 1 .. asked
    <3>1. report' = i /\ threads' = threads \ {i} BY <1>2 DEF DiagDone
    <3>2. i \in 1 .. asked BY DEF TypeOK
    <3> QED BY <3>1, <3>2
  <2> QED BY <2>1, <2>2 DEF talkVars, statusVars, nameVars
<1>3. CASE DiagRefresh BY <1>3, <1>s, <1>d DEF DiagRefresh, talkVars, statusVars, nameVars
<1>4. CASE Say BY <1>4, <1>s, <1>m DEF Say, talkVars, diagVars, nameVars
<1>5. CASE WriteFails BY <1>5, <1>s, <1>m DEF WriteFails, diagVars, nameVars
<1>6. ASSUME NEW l \in Labels, NEW text \in Texts \cup {None, Caption}, NEW padded \in BOOLEAN,
             NameEdit(l, text, padded)
      PROVE  TypeOK'
  <2>1. names' = text /\ labels' \in [Labels -> [text : Texts \cup {Caption}, padded : BOOLEAN]]
    BY <1>6, LabelTypes DEF NameEdit, EditOf
  <2>2. file' \in {file, text} /\ (Show \/ UNCHANGED statusVars) BY <1>6, <2>1 DEF NameEdit, Saved
  <2>3. seq' \in Nat /\ status' \in 0 .. seq' /\ timers' \subseteq 1 .. seq' BY <1>m, <2>2 DEF statusVars
  <2>4. UNCHANGED <<talkVars, diagVars>> /\ steps' \in 0 .. MaxSteps BY <1>6, <1>s DEF NameEdit
  <2> QED BY <2>1, <2>2, <2>3, <2>4 DEF talkVars, diagVars
<1>7. CASE Reload
  <2>1. labels' \in [Labels -> [text : Texts \cup {Caption}, padded : BOOLEAN]]
    BY <1>7, LabelTypes DEF Reload, Rebuilt
  <2>2. asked' \in Nat /\ threads' \subseteq 1 .. asked' /\ spin' \in BOOLEAN
    BY <1>7, <1>d DEF Reload, Rebuilt
  <2>3. report' = 0 /\ btn' = talk /\ steps' \in 0 .. MaxSteps
    BY <1>7, <1>s DEF Reload, Rebuilt
  <2>4. UNCHANGED <<talk, held, touched, pending, batch, reply, over, status, seq, timers, names, file>>
    BY <1>7 DEF Reload, statusVars
  <2> QED BY <2>1, <2>2, <2>3, <2>4
<1>8. CASE Restart
  <2>1. labels' \in [Labels -> [text : Texts \cup {Caption}, padded : BOOLEAN]]
    BY <1>8, LabelTypes DEF Restart
  <2>2. /\ btn' = talk /\ held' = "no" /\ touched' = FALSE /\ pending' = None /\ batch' = None /\ reply' = None
        /\ over' = FALSE /\ names' = file /\ UNCHANGED <<talk, file>> /\ steps' \in 0 .. MaxSteps
    BY <1>8, <1>s DEF Restart
  <2>3. /\ seq' \in Nat /\ status' \in 0 .. seq' /\ timers' \subseteq 1 .. seq'
        /\ asked' \in Nat /\ report' \in 0 .. asked' /\ threads' \subseteq 1 .. asked' /\ spin' \in BOOLEAN
    <3>1. /\ status' = 0 /\ seq' = 0 /\ timers' = {} /\ asked' = 1 /\ threads' = {1} /\ spin' = TRUE /\ report' = 0
      BY <1>8 DEF Restart
    <3>2. 0 \in 0 .. 0 /\ {} \subseteq 1 .. 0 /\ 0 \in 0 .. 1 /\ {1} \subseteq 1 .. 1
      BY SMT
    <3> QED BY <3>1, <3>2
  <2>4. /\ talk' \in BOOLEAN /\ btn' \in BOOLEAN /\ touched' \in BOOLEAN /\ over' \in BOOLEAN
        /\ held' \in {"no", "short", "long"} /\ {pending', batch', reply'} \subseteq BOOLEAN \cup {None}
    BY <2>2
  <2>5. names' \in Texts \cup {None, Caption} /\ file' \in Texts \cup {None, Caption} /\ steps' \in 0 .. MaxSteps
    BY <2>2
  <2> QED BY <2>1, <2>3, <2>4, <2>5
<1>9. CASE UNCHANGED vars
  BY <1>9 DEF vars, talkVars, statusVars, diagVars, nameVars
<1> QED BY <1>1, <1>2, <1>3, <1>4, <1>5, <1>6, <1>7, <1>8, <1>9

\* Every variable keeps to its type, whatever is pressed, typed, lost or
\* started again.
THEOREM SessionTypeCorrect == Spec => []TypeOK
<1>1. Init => TypeOK
  <2> SUFFICES ASSUME Init PROVE TypeOK
    OBVIOUS
  <2>1. labels \in [Labels -> [text : Texts \cup {Caption}, padded : BOOLEAN]]
    BY LabelTypes DEF Init
  <2>2. /\ talk \in BOOLEAN /\ btn = talk /\ held = "no" /\ touched = FALSE
        /\ pending = None /\ batch = None /\ reply = None /\ over = FALSE
        /\ file \in Texts \cup {None} /\ names = file
    BY DEF Init
  <2>3. /\ seq \in Nat /\ status \in 0 .. seq /\ timers \subseteq 1 .. seq
        /\ asked \in Nat /\ report \in 0 .. asked /\ threads \subseteq 1 .. asked /\ spin \in BOOLEAN
    <3>1. status = 0 /\ seq = 0 /\ timers = {} /\ asked = 1 /\ threads = {1} /\ spin = TRUE /\ report = 0
      BY DEF Init
    <3>2. 0 \in 0 .. 0 /\ {} \subseteq 1 .. 0 /\ 0 \in 0 .. 1 /\ {1} \subseteq 1 .. 1
      BY SMT
    <3> QED BY <3>1, <3>2
  <2>4. /\ talk \in BOOLEAN /\ btn \in BOOLEAN /\ touched \in BOOLEAN /\ over \in BOOLEAN
        /\ held \in {"no", "short", "long"} /\ {pending, batch, reply} \subseteq BOOLEAN \cup {None}
    BY <2>2
  <2>5. names \in Texts \cup {None, Caption} /\ file \in Texts \cup {None, Caption} /\ steps \in 0 .. MaxSteps
    BY <2>2, SessionAssumption DEF Init
  <2> QED BY <2>1, <2>3, <2>4, <2>5 DEF TypeOK
<1>2. TypeOK /\ [Next]_vars => TypeOK'
  BY TalkTypes, OtherTypes DEF Next
<1> QED BY <1>1, <1>2, PTL DEF Spec

---------------------------------------------------------------------------
(* The names.                                                              *)

\* Whatever is edited, rebuilt or restarted, all labels show the name, and the
\* file has it unless a message has been shown.
THEOREM NamesCorrect == Spec => []NamesInStep
<1>1. Init => NamesInStep
  BY DEF Init, NamesInStep, Label
<1>2. ASSUME TypeOK, NamesInStep, [Next]_vars
      PROVE  NamesInStep'
  <2> USE DEF NamesInStep
  <2>m. Show => seq' > 0
    BY <1>2 DEF TypeOK, Show
  <2>k. UNCHANGED nameVars /\ (UNCHANGED seq \/ Show) => NamesInStep'
    BY <1>2, <2>m DEF nameVars
  <2>1. CASE \E s \in timers : Fire(s) BY <2>1, <2>k DEF Fire
  <2>2. CASE \E i \in threads : DiagDone(i) BY <2>2, <2>k DEF DiagDone, statusVars
  <2>3. CASE DiagRefresh \/ Say \/ WriteFails
    BY <2>3, <2>k DEF DiagRefresh, Say, WriteFails, statusVars
  <2>4. CASE Press \/ HoldsOn \/ Release \/ Outside \/ \E v \in BOOLEAN : Applied(v)
    BY <2>4, <2>k DEF Press, HoldsOn, Release, Outside, Applied, statusVars
  <2>5. CASE TakeBatch \/ Written \/ PollList \/ PollDone \/ GraceEnds
    BY <2>5, <2>k DEF TakeBatch, Written, PollList, PollDone, GraceEnds, statusVars
  <2>6. ASSUME NEW l \in Labels, NEW text \in Texts \cup {None, Caption}, NEW padded \in BOOLEAN,
               NameEdit(l, text, padded)
        PROVE  NamesInStep'
    <3>1. \A k \in Labels : labels'[k].text = NameShown(names')
      BY <2>6 DEF NameEdit, EditOf, Label
    <3>2. file' = names' \/ seq' > 0
      BY <2>6, <2>m DEF NameEdit, Saved
    <3> QED BY <3>1, <3>2 DEF NameShown
  <2>7. CASE Reload
    <3>1. \A k \in Labels : labels'[k].text = NameShown(names)
      BY <2>7 DEF Reload, Rebuilt, Label
    <3>2. UNCHANGED <<names, file, seq>>
      BY <2>7 DEF Reload, statusVars
    <3> QED BY <1>2, <3>1, <3>2 DEF NameShown
  <2>8. CASE Restart
    BY <2>8 DEF Restart, Label, NameShown
  <2>9. CASE UNCHANGED vars
    BY <2>9, <2>k DEF vars, statusVars, nameVars
  <2> QED BY <1>2, <2>1, <2>2, <2>3, <2>4, <2>5, <2>6, <2>7, <2>8, <2>9 DEF Next
<1> QED BY <1>1, <1>2, SessionTypeCorrect, PTL DEF Spec

---------------------------------------------------------------------------
(* The status line.                                                        *)

\* The message shown is the newest: _show_status replaces it, and nothing
\* brings an older one back.
Newest == status \in {0, seq}

\* Steps that leave the status line alone, or show a message on it.
LEMMA LineKept ==
  ASSUME Next,
         ~ \E s \in timers : Fire(s), ~ Restart
  PROVE  UNCHANGED statusVars \/ Show
<1>1. CASE \E i \in threads : DiagDone(i) BY <1>1 DEF DiagDone
<1>2. CASE DiagRefresh \/ Say \/ WriteFails BY <1>2 DEF DiagRefresh, Say, WriteFails
<1>3. CASE Press \/ HoldsOn \/ Release \/ Outside \/ \E v \in BOOLEAN : Applied(v)
  BY <1>3 DEF Press, HoldsOn, Release, Outside, Applied
<1>4. CASE TakeBatch \/ Written \/ PollList \/ PollDone \/ GraceEnds
  BY <1>4 DEF TakeBatch, Written, PollList, PollDone, GraceEnds
<1>5. CASE \E l \in Labels, text \in Texts \cup {None, Caption}, padded \in BOOLEAN : NameEdit(l, text, padded)
  BY <1>5 DEF NameEdit
<1>6. CASE Reload BY <1>6 DEF Reload
<1> QED BY <1>1, <1>2, <1>3, <1>4, <1>5, <1>6 DEF Next

\* No step makes an older message the one shown.
LEMMA NewestKept ==
  ASSUME Newest, [Next]_vars
  PROVE  Newest'
<1> USE DEF Newest
<1>1. CASE \E s \in timers : Fire(s) BY <1>1 DEF Fire
<1>2. CASE Restart BY <1>2 DEF Restart
<1>3. CASE UNCHANGED statusVars \/ Show BY <1>3 DEF statusVars, Show
<1> QED BY <1>1, <1>2, <1>3, LineKept DEF vars, statusVars

\* A message leaves the line for a newer one, for a restart, or by its own
\* timer: an older message's timer finds another _status_seq.
LEMMA LineStep ==
  ASSUME TypeOK, Newest, [Next]_vars,
         status # 0, status' = 0, seq' = seq
  PROVE  status \in timers /\ status \notin timers'
<1>0. status = seq /\ seq \in Nat \ {0}
  BY DEF Newest, TypeOK
<1>1. CASE \E s \in timers : Fire(s)
  <2> PICK s \in timers : Fire(s) BY <1>1
  <2>1. s = seq BY <1>0 DEF Fire
  <2> QED BY <1>0, <2>1 DEF Fire
<1>2. CASE Restart
  BY <1>0, <1>2 DEF Restart
<1>3. CASE UNCHANGED statusVars BY <1>3 DEF statusVars
<1>4. CASE Show BY <1>0, <1>4 DEF Show
<1> QED BY <1>1, <1>2, <1>3, <1>4, LineKept DEF vars

\* A message goes when a newer one takes its place or when its own five seconds
\* are over, never by the timer of an older one.
THEOREM StatusCorrect == Spec => StatusStaysItsTime
<1>1. Init => Newest
  BY DEF Init, Newest
<1>2. Newest /\ [Next]_vars => Newest'
  BY NewestKept
<1>3. TypeOK /\ Newest /\ [Next]_vars
      => [status # 0 /\ status' = 0 /\ seq' = seq => status \in timers /\ status \notin timers']_vars
  BY LineStep
<1> QED BY <1>1, <1>2, <1>3, SessionTypeCorrect, PTL DEF Spec, StatusStaysItsTime

---------------------------------------------------------------------------
(* The end of a long press.                                                *)

\* After a long press nothing that is still on its way to the card, and
\* nothing on the card when all has arrived, is talkback on.
PressOver == over => Final = FALSE

\* The writer passes a value on: what the card will hold stays the same.
LEMMA WriterKeepsFinal ==
  ASSUME TypeOK, TakeBatch \/ Written
  PROVE  Final' = Final
<1>0. None \notin BOOLEAN BY SessionAssumption
<1>1. CASE TakeBatch BY <1>0, <1>1 DEF TakeBatch, Final
<1>2. CASE Written BY <1>0, <1>2 DEF Written, Final
<1> QED BY <1>1, <1>2

\* A release over a button that shows what the card will hold leaves the card
\* off in the end: the button is down and lets go, or is up and so the card.
LEMMA ReleaseLetsGo ==
  ASSUME TypeOK, Release, over'
  PROVE  Final' = FALSE
<1>0. None \notin BOOLEAN BY SessionAssumption
<1>1. held = "long" /\ btn = Final /\ UNCHANGED <<talk, batch>>
  BY DEF Release
<1>2. CASE btn
  BY <1>0, <1>1, <1>2 DEF Release, Toggled, Final
<1>3. CASE ~btn
  <2>1. Final' = Final BY <1>1, <1>3 DEF Release, Final
  <2>2. btn = FALSE BY <1>3 DEF TypeOK
  <2> QED BY <1>1, <2>1, <2>2
<1> QED BY <1>2, <1>3

\* Whoever asks for anything else ends what PressOver speaks of; the others
\* leave what the card will hold as it is.
LEMMA PressOverKept ==
  ASSUME TypeOK, PressOver, [Next]_vars
  PROVE  PressOver'
<1> USE DEF PressOver
<1>k. UNCHANGED <<talk, pending, batch, over>> => PressOver'
  BY DEF Final
<1>1. CASE (\E s \in timers : Fire(s)) \/ (\E i \in threads : DiagDone(i)) \/ DiagRefresh \/ Say
  BY <1>1, <1>k DEF Fire, DiagDone, DiagRefresh, Say, talkVars
<1>2. CASE Press \/ Outside \/ WriteFails \/ Restart \/ \E v \in BOOLEAN : Applied(v)
  BY <1>2 DEF Press, Outside, WriteFails, Restart, Applied
<1>3. CASE Release BY <1>3, ReleaseLetsGo
<1>4. CASE TakeBatch \/ Written
  <2>1. UNCHANGED over BY <1>4 DEF TakeBatch, Written
  <2> QED BY <1>4, <2>1, WriterKeepsFinal
<1>5. CASE HoldsOn \/ PollList \/ PollDone \/ GraceEnds
  BY <1>5, <1>k DEF HoldsOn, PollList, PollDone, GraceEnds
<1>6. CASE \E l \in Labels, text \in Texts \cup {None, Caption}, padded \in BOOLEAN : NameEdit(l, text, padded)
  BY <1>6, <1>k DEF NameEdit, talkVars
<1>7. CASE Reload BY <1>7, <1>k DEF Reload
<1>8. CASE UNCHANGED vars BY <1>8, <1>k DEF vars, talkVars
<1> QED BY <1>1, <1>2, <1>3, <1>4, <1>5, <1>6, <1>7, <1>8 DEF Next

\* Once a long press has ended over a button that showed what the card was to
\* hold, and nobody has asked for anything since, talkback is off on the card
\* as soon as the writer is done.
THEOREM HoldCorrect == Spec => []HoldEndsOff
<1>1. Init => PressOver
  BY DEF Init, PressOver
<1>2. TypeOK /\ PressOver /\ [Next]_vars => PressOver'
  BY PressOverKept
<1>3. TypeOK /\ PressOver => HoldEndsOff
  BY DEF PressOver, HoldEndsOff, Final
<1> QED BY <1>1, <1>2, <1>3, SessionTypeCorrect, PTL DEF Spec
=============================================================================
