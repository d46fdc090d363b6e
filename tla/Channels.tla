------------------------------ MODULE Channels ------------------------------
(***************************************************************************)
(* The output channels of a rig of AudioWire interfaces, as the console's  *)
(* demo card lists them and as the console orders them                     *)
(* (motu424-gui.legacy.py: channel tokens, demo_controls).                 *)
(*                                                                         *)
(* A token "B Main 00" is a record; slots A to D are 1 to 4.               *)
(***************************************************************************)
EXTENDS Integers, Sequences, FiniteSets

CONSTANTS
  Ifaces,   \* RIG_IFACES: interface |-> its banks in order, with their outputs
  NumMixes  \* mix buses

\* _BANK_RANK
BankOrder == <<"Analog", "ADAT", "TDIF", "AES", "SPDIF", "Main", "Phones">>
Rank ==
  [bank \in {BankOrder[r] : r \in DOMAIN BankOrder} |->
     CHOOSE r \in DOMAIN BankOrder : BankOrder[r] = bank]

\* The tables have their banks in that order, which is how the card comes to
\* list outputs as the console sorts them.
ASSUME ChannelsAssumption ==
  /\ NumMixes \in Nat
  /\ \A n \in DOMAIN Ifaces :
       /\ DOMAIN Ifaces[n] \subseteq Nat /\ IsFiniteSet(DOMAIN Ifaces[n])
       /\ \A b \in DOMAIN Ifaces[n] : Ifaces[n][b].bank \in DOMAIN Rank /\ Ifaces[n][b].outs \in Nat
       /\ \A b, c \in DOMAIN Ifaces[n] : b < c => Rank[Ifaces[n][b].bank] < Rank[Ifaces[n][c].bank]

\* Every interface has its outputs in whole pairs.
ASSUME PairsAssumption ==
  \A n \in DOMAIN Ifaces : \A b \in DOMAIN Ifaces[n] : Ifaces[n][b].outs % 2 = 0

\* A rig: the interface of each slot in use. Names past the fourth are not
\* looked at, and an empty rig or an unknown name ends the program.
Slots == 1 .. 4
RigOf(spec) ==
  [s \in {s \in Slots \cap DOMAIN spec : spec[s] # "none"} |-> Ifaces[spec[s]]]
IsRig(spec) ==
  /\ \A s \in Slots \cap DOMAIN spec : spec[s] \in DOMAIN Ifaces \cup {"none"}
  /\ DOMAIN RigOf(spec) # {}

\* bank_count: in the 2x and 4x families the analog, ADAT and TDIF banks keep
\* a half and a quarter of their channels, in whole pairs.
BankCountAnyParity(bank, n, family) ==
  IF bank \in {"Analog", "ADAT", "TDIF"} /\ family > 1
    THEN IF n \div family < 2 THEN 2 ELSE n \div family
    ELSE n
BankCount(bank, n, family) ==
  IF bank \in {"Analog", "ADAT", "TDIF"} /\ family > 1
    THEN LET half == n \div family IN
           IF half < 2 THEN 2 ELSE half - (half % 2)
    ELSE n

\* The outputs of a rig: the bank is the place of its row in the table.
Outputs(rig, family) ==
  UNION {UNION {{[slot |-> s, bank |-> rig[s][b].bank, row |-> b, idx |-> i] :
                   i \in 0 .. BankCount(rig[s][b].bank, rig[s][b].outs, family) - 1} :
                b \in DOMAIN rig[s]} : s \in DOMAIN rig}

\* tok_partner: the other half of the even/odd pair.
Half(t, parity) == [t EXCEPT !.idx = @ - (@ % 2) + parity]
Partner(t) == Half(t, 1 - (t.idx % 2))

\* tok_sort, and the order in which the card lists its outputs.
SortsByBankFirst(t, u) ==
  \/ Rank[t.bank] < Rank[u.bank]
  \/ t.bank = u.bank /\ t.slot < u.slot
  \/ t.slot = u.slot /\ t.bank = u.bank /\ t.idx < u.idx
SortsBefore(t, u) ==
  \/ t.slot < u.slot
  \/ t.slot = u.slot /\ Rank[t.bank] < Rank[u.bank]
  \/ t.slot = u.slot /\ t.bank = u.bank /\ t.idx < u.idx
ListedBefore(t, u) ==
  \/ t.slot < u.slot
  \/ t.slot = u.slot /\ t.row < u.row
  \/ t.slot = u.slot /\ t.row = u.row /\ t.idx < u.idx

\* pcm_of: the console's number of an output's own feed, its place in the
\* sorted outputs; and the number the card gives that feed.
PcmOf(outs, t) == Cardinality({u \in outs : SortsBefore(u, t)})
CardPcm(outs, t) == Cardinality({u \in outs : ListedBefore(u, t)})

---------------------------------------------------------------------------
(* Sources.                                                                *)

Direct == <<"Direct">>
Pcm(j) == <<"PCM", j>>
Mix(k, side) == <<"Mix", k, side>>

\* What a Source control lists, and the bay's source jacks.
Jacks(outs) ==
  {Pcm(j) : j \in 0 .. Cardinality(outs) - 1}
  \cup {Mix(k, side) : k \in 0 .. NumMixes - 1, side \in {"L", "R"}}
Items(outs) == {Direct} \cup Jacks(outs)

\* conn_of: the source jack an output's cable comes from.
Feed(outs, t, source) == IF source = Direct THEN Pcm(PcmOf(outs, t)) ELSE source

\* tok_normal_val: what an output carries with nothing patched.
Normal(t) == IF t.bank = "Main" THEN Pcm(t.idx % 2) ELSE Direct
=============================================================================
