---------------------------- MODULE MCFirmware ----------------------------
(* Small instances of Firmware for TLC: a word of 4 bits, a header of two  *)
(* bytes and section headers of two.                                       *)
EXTENDS Firmware

Absent == [kind |-> "none", len |-> 0]
Mmio(n) == [kind |-> "mem", len |-> n]

\* Windows A and B, a lone large BAR, and one shorter than window B.
Layouts ==
  {[i \in BarIndex |-> IF i = 0 THEN Mmio(8) ELSE IF i = 1 THEN Mmio(4) ELSE Absent],
   [i \in BarIndex |-> IF i = 1 THEN Mmio(8) ELSE Absent],
   [i \in BarIndex |-> IF i = 0 THEN Mmio(3) ELSE Absent]}

\* Window B is the one the driver assigns without overrides.
Host(bars, pcie, skip, fwBar, fwOff) ==
  [bars |-> bars, b |-> AssignWindows(bars, NoRoles, pcie).b,
   pcie |-> pcie, skip |-> skip, fwBar |-> fwBar, fwOff |-> fwOff]

Machines ==
  {Host(l, TRUE, FALSE, b, o) : l \in Layouts, b \in {None, 0, 1}, o \in {0, 2, 5}}
  \cup {Host(l, p, ~p, None, 0) : l \in Layouts, p \in BOOLEAN}

\* Lengths that add up to nothing, to something, to the word and past it.
Section(d, n) == [dataOff |-> d, size |-> n]
Sections == {Section(0, 0), Section(0, 1), Section(2, 1),
             Section(Word - 1, 1), Section(Word - 1, 3)}

Image(size, hdrLen, payloadLen, sumOk, sec) ==
  [size |-> size, hdrLen |-> hdrLen, payloadLen |-> payloadLen, sumOk |-> sumOk, sec |-> sec]

\* Every header in front of one section, and every list of sections.
Headers ==
  {Image(n, h, p, ok, [o \in HdrLen .. n - SecLen |-> Section(2, 1)]) :
     n \in 0 .. 6, h \in {0, HdrLen, HdrLen + 1}, p \in 0 .. Word - 1, ok \in BOOLEAN}
Lists ==
  UNION {{Image(n, HdrLen, n - HdrLen, TRUE, sec) :
            sec \in [HdrLen .. n - SecLen -> Sections]} : n \in HdrLen .. 7}

Images == Headers \cup Lists
=============================================================================
