------------------------------ MODULE Windows ------------------------------
(***************************************************************************)
(* How the kernel driver turns the BARs of a card into its hardware        *)
(* windows (motu424_assign_windows) and a card address into an offset in   *)
(* one of them (motu424_addr). Pure operators: Bringup uses them.          *)
(***************************************************************************)
EXTENDS Integers

CONSTANTS
  NumBars,  \* PCI_STD_NUM_BARS
  WinALen,  \* MOTU424_WINA_LEN
  WinBLen   \* MOTU424_WINB_LEN

ASSUME WindowsAssumption ==
  /\ NumBars \in Nat \ {0}
  /\ WinBLen \in Nat \ {0}
  /\ WinALen = 2 * WinBLen

BarIndex == 0 .. NumBars - 1

\* A window or an override that names no BAR.
None == -1

\* struct motu424_bar; a BAR of no length is not mapped.
Bars == [BarIndex -> [kind : {"none", "io", "mem"}, len : Nat]]

\* chip->port, win_a and win_b, as the indices of the BARs they point into.
Roles == [port : BarIndex \cup {None}, a : BarIndex \cup {None}, b : BarIndex \cup {None}]
NoRoles == [port |-> None, a |-> None, b |-> None]

Mem(bars) == {i \in BarIndex : bars[i].kind = "mem"}

---------------------------------------------------------------------------
\* A module parameter counts if it names a BAR that is mapped.
Overridden(bars, over) ==
  [r \in DOMAIN over |->
     IF over[r] \in BarIndex /\ bars[over[r]].kind # "none" THEN over[r] ELSE None]

\* One turn of the discovery loop.
DiscoveredLastLarge(bars, w, i) ==
  IF bars[i].kind = "io" THEN [w EXCEPT !.port = IF @ = None THEN i ELSE @]
  ELSE IF bars[i].kind = "none" THEN w
  ELSE IF bars[i].len >= WinALen THEN [w EXCEPT !.a = i]
  ELSE [w EXCEPT !.b = IF @ = None THEN i ELSE @]
Discovered(bars, w, i) ==
  IF bars[i].kind = "io" THEN [w EXCEPT !.port = IF @ = None THEN i ELSE @]
  ELSE IF bars[i].kind = "none" THEN w
  ELSE IF bars[i].len >= WinALen /\ w.a = None THEN [w EXCEPT !.a = i]
  ELSE [w EXCEPT !.b = IF @ = None THEN i ELSE @]

AutoDiscovered(bars, w) ==
  LET scan[i \in 0 .. NumBars] == IF i = 0 THEN w ELSE Discovered(bars, scan[i - 1], i - 1)
  IN  scan[NumBars]

\* A lone large BAR serves as window B.
Alone(w) == IF w.b = None /\ w.a # None THEN [w EXCEPT !.a = None, !.b = w.a] ELSE w

\* What is left for a PCIe card without window B: the first MMIO BAR.
Fallback(bars, pcie, w) ==
  IF pcie /\ w.b = None /\ Mem(bars) # {}
    THEN [w EXCEPT !.b = CHOOSE i \in Mem(bars) : \A j \in Mem(bars) : i <= j]
    ELSE w

\* motu424_assign_windows(); without window B the probe fails.
AssignWindows(bars, over, pcie) ==
  Fallback(bars, pcie, Alone(AutoDiscovered(bars, Overridden(bars, over))))

---------------------------------------------------------------------------
\* motu424_addr(): the BAR and the offset of a card address. Addresses tagged
\* 3 in units of window A go to it; without it the tag is cleared, and the
\* masks keep the lower bits.
TagA == 3
DispatchOneMask(w, addr) ==
  IF addr \div WinALen = TagA THEN [bar |-> IF w.a # None THEN w.a ELSE w.b, off |-> addr % WinALen]
  ELSE [bar |-> w.b, off |-> addr % WinBLen]
Dispatch(w, addr) ==
  IF addr \div WinALen = TagA /\ w.a # None THEN [bar |-> w.a, off |-> addr % WinALen]
  ELSE [bar |-> w.b, off |-> addr % WinBLen]

=============================================================================
