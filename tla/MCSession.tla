----------------------------- MODULE MCSession -----------------------------
(* Small instances of Session for TLC.                                     *)
EXTENDS Session

CONSTANTS vox, ch1

TwoLabels == {1, 2}
OneText == {vox}
=============================================================================
