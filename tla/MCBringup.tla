----------------------------- MODULE MCBringup -----------------------------
(* Small instances of Bringup for TLC: lengths in units of a megabyte.     *)
EXTENDS Bringup

Absent == [kind |-> "none", len |-> 0]
Port == [kind |-> "io", len |-> 1]
Mmio(n) == [kind |-> "mem", len |-> n]

NoOverride == [port |-> None, a |-> None, b |-> None]

\* Every arrangement of three BARs, found automatically.
Automatic ==
  [bars : [BarIndex -> {Absent, Port, Mmio(1), Mmio(4), Mmio(8)}],
   over : {NoOverride}, pcie : BOOLEAN, audio : {TRUE}]

\* Two cards under every override, in range or not.
Manual ==
  [bars : {[i \in BarIndex |-> IF i = 0 THEN Mmio(8) ELSE IF i = 1 THEN Mmio(4) ELSE Port],
           [i \in BarIndex |-> IF i = 1 THEN Mmio(8) ELSE Absent]},
   over : [{"port", "a", "b"} -> {None, 0, 1, NumBars}], pcie : {TRUE}, audio : BOOLEAN]

Cards == Automatic \cup Manual
=============================================================================
