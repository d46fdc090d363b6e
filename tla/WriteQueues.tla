----------------------------- MODULE WriteQueues -----------------------------
(***************************************************************************)
(* What the console promises of the values asked for through an entry of   *)
(* its card selector: those of one control are handed over in the order in *)
(* which they were asked for, each at most once and sooner or later, to    *)
(* the card that the entry reaches at that moment, or else that one        *)
(* hand-over fails. A value that waits may be replaced by a newer one.     *)
(* Only when the control is asked for through another entry may the newest *)
(* value be dropped.                                                       *)
(***************************************************************************)
EXTENDS Selector, Sequences

CONSTANTS Controls, Values,
  Default  \* the value of every control when the driver loads

VARIABLES
  card,     \* the controls of each card, as its driver holds them
  present,  \* is the card there?
  queue     \* per entry and control, values asked for and not yet handed over, oldest first

vars == <<card, present, queue>>

Init ==
  /\ card = [d \in Cards |-> [n \in Controls |-> Default]]
  /\ present = [d \in Cards |-> TRUE]
  /\ queue = [e \in Devs |-> [n \in Controls |-> <<>>]]

\* A new value goes behind some of those that wait, and replaces the rest.
Behind(old, new) == \E k \in 0 .. Len(old), v \in Values : new = Append(SubSeq(old, 1, k), v)

\* The newest value gives way to that of another entry.
MayGiveWay(old, new) == \E k \in 0 .. Len(old) : Len(old) <= k + 1 /\ new = SubSeq(old, 1, k)

\* Some controls are asked for through one entry.
Ask(e) ==
  /\ \E S \in SUBSET Controls : \A f \in Devs, n \in Controls :
       IF n \notin S THEN queue'[f][n] = queue[f][n]
       ELSE IF f = e THEN Behind(queue[f][n], queue'[f][n])
       ELSE MayGiveWay(queue[f][n], queue'[f][n])
  /\ UNCHANGED <<card, present>>

\* The oldest value is handed over, to the card that the entry reaches or in vain.
Deliver(e, n) ==
  /\ queue[e][n] # <<>>
  /\ queue' = [queue EXCEPT ![e][n] = Tail(@)]
  /\ \/ \E d \in Reached(e, present) : card' = [card EXCEPT ![d][n] = Head(queue[e][n])]
     \/ card' = card
  /\ UNCHANGED present

\* Another program; the driver unloaded; the driver loaded.
Outside(d, n, v) ==
  /\ present[d]
  /\ card' = [card EXCEPT ![d][n] = v]
  /\ UNCHANGED <<present, queue>>
Unplug(d) ==
  /\ present' = [present EXCEPT ![d] = FALSE]
  /\ UNCHANGED <<card, queue>>
Plug(d) ==
  /\ present' = [present EXCEPT ![d] = TRUE]
  /\ card' = [card EXCEPT ![d] = [n \in Controls |-> Default]]
  /\ UNCHANGED queue

Next ==
  \/ \E e \in Devs : Ask(e) \/ \E n \in Controls : Deliver(e, n)
  \/ \E d \in Cards :
       Unplug(d) \/ Plug(d) \/ \E n \in Controls, v \in Values : Outside(d, n, v)

Spec == Init /\ [][Next]_vars /\ \A e \in Devs, n \in Controls : WF_vars(Deliver(e, n))
=============================================================================
