----------------------------- MODULE MCGuiSync -----------------------------
(* Small instances of GuiSync for TLC.                                     *)
EXTENDS GuiSync

CONSTANTS volume, mute

TwoCards == {1, 2}
OneControl == {volume}
TwoControls == {volume, mute}

\* A mix-wide change of everything, and one of a single control.
Mixes == {[n \in Controls |-> 1], [n \in {volume} |-> 0]}
=============================================================================
