------------------------------ MODULE MCStrips ------------------------------
(* Small instances of Strips for TLC.                                      *)
EXTENDS Strips

CONSTANTS m0, m1, outs

\* A pair and a third channel in one mix, one strip of a second mix, and an
\* output pair.
SomeFaders == {<<m0, 0>>, <<m0, 1>>, <<m0, 2>>, <<m1, 0>>, <<outs, 0>>, <<outs, 1>>}

\* Level or staggered faders, with a pair linked or none.
Level == [f \in SomeFaders |-> 1]
Staggered == [f \in SomeFaders |-> f[2]]
NoLink == [c \in Channels |-> FALSE]
Link(s) == [c \in Channels |-> c = <<s, 0>>]
SomeCards == {[vol |-> v, st |-> t] : v \in {Level, Staggered}, t \in {NoLink, Link("in"), Link("out")}}

\* A mix pulled down, a pair linked and another unlinked, and both.
Down == [f \in {<<m0, 0>>, <<m0, 2>>} |-> Lo]
Links == [c \in {<<"in", 0>>, <<"out", 0>>} |-> c[1] = "in"]
SomePayloads == {[vol |-> Down, st |-> <<>>], [vol |-> <<>>, st |-> Links],
                 [vol |-> Down, st |-> Links]}
=============================================================================
