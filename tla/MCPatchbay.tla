----------------------------- MODULE MCPatchbay -----------------------------
(* Small instances of Patchbay for TLC: interfaces with the banks of the   *)
(* real ones, in their order, and a few channels each.                     *)
EXTENDS Patchbay

Bank(b, n) == [bank |-> b, outs |-> n]
SmallIfaces ==
  [n \in {"24io", "1224", "2408"} |->
     CASE n = "24io" -> <<Bank("Analog", 6)>>
       [] n = "1224" -> <<Bank("Analog", 2), Bank("AES", 2), Bank("Main", 2)>>
       [] n = "2408" -> <<Bank("Analog", 2), Bank("ADAT", 6), Bank("SPDIF", 2), Bank("Main", 2)>>]

\* Slots left empty, one that is no rig, and one of five names.
SomeSpecs ==
  {<<"none", "2408">>, <<"none">>, <<"1224", "none", "none", "24io", "24io">>}

Out1(s, b, row, i) == <<"out", [slot |-> s, bank |-> b, row |-> row, idx |-> i]>>
SomeJacks ==
  {Out1(1, "Main", 3, 0), Out1(4, "Analog", 1, 5), Out1(2, "ADAT", 2, 3),
   <<"src", Pcm(8)>>, <<"src", Mix(0, "L")>>}
=============================================================================
