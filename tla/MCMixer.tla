------------------------------ MODULE MCMixer ------------------------------
(* Small instances of Mixer for TLC.                                       *)
EXTENDS Mixer

\* In range, and past the ends.
MixLevels == {-1, 60, 101}
MixPans == {-200}
MixTrims == {-13}
=============================================================================
