------------------------------ MODULE Selector ------------------------------
(***************************************************************************)
(* The console's card selector: an entry for each card, and before them    *)
(* "Auto (find MOTU)", which every run of motu424-ctl resolves afresh to   *)
(* the first MOTU card that is there.                                      *)
(***************************************************************************)
EXTENDS Integers

CONSTANTS
  Cards,    \* the MOTU cards, by ALSA card number
  AutoFind  \* list_cards()[0]: no -D argument for motu424-ctl

Devs == Cards \cup {AutoFind}

\* The card an entry stands for while the cards of `present` are there:
\* find_motu_card(), or the number that the entry spells out.
Stands(e, present) ==
  IF e = AutoFind THEN {c \in Cards : present[c] /\ \A d \in Cards : present[d] => c <= d} ELSE {e}

\* The card that a run of motu424-ctl opens: none, and the run fails, if it is
\* not there.
Reached(e, present) == {c \in Stands(e, present) : present[c]}
=============================================================================
