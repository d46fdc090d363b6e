---------------------------- MODULE MCTransport ----------------------------
(* Small instances of Transport for TLC.                                   *)
EXTENDS Transport

Geo(p, b) == [period |-> p, buffer |-> b]

\* A ring of 8 frames admits periods up to 4; the 5-frame period is refused.
WholePeriods == {Geo(2, 4), Geo(3, 6), Geo(5, 10)}
OneGeometry == {Geo(2, 4)}
LongestPeriod == {Geo(3, 6)}

BothDirections == {"playback", "capture"}

SamePage == [d \in Dir |-> 0]
OwnPages == [d \in Dir |-> IF d = "playback" THEN 0 ELSE 1]
=============================================================================
