------------------------------- MODULE Mixer -------------------------------
(***************************************************************************)
(* The kernel driver's CueMix mixer: the ALSA control puts of              *)
(* motu424_hw.c, the shadow they keep in struct motu424_mixer, and the     *)
(* coefficient words they send to the card, either into the mix_base       *)
(* register block or through the DSP mailbox.                              *)
(*                                                                         *)
(* The ALSA core holds card->controls_rwsem for writing across a put, so a *)
(* put is one step. Its action takes the value the application wrote; a    *)
(* put that changes nothing returns 0 and is no step. A 32-bit word is the *)
(* pair <<upper half, lower half>>.                                        *)
(***************************************************************************)
EXTENDS Integers

CONSTANTS
  Buses,     \* MOTU424_MIX_BUSES
  Channels,  \* MOTU424_MIX_CHANNELS
  Levels,    \* volumes applications write, in or out of range
  Pans,      \* pans they write
  Trims,     \* trims they write
  MaxPuts    \* bound: puts that change something

Bus == 0 .. Buses - 1
Chan == 0 .. Channels - 1

ASSUME MixerAssumption ==
  /\ Buses \in 1 .. 4 /\ Channels \in 1 .. 24
  /\ Levels \subseteq Int /\ Pans \subseteq Int /\ Trims \subseteq Int
  /\ MaxPuts \in Nat

VARIABLES
  wired,   \* as probe left the card: dsp, a PCIe card whose DSP was booted;
           \*   coef, mix_base is known
  master,  \* bus_master_vol, bus_master_mute
  send,    \* send_vol, send_pan, send_mute, send_solo
  input,   \* in_trim, in_pad, in_phase, in_mute
  local,   \* the controls that have no card register, one per kind
  card,    \* cell |-> word last written to it, for the cells written so far
  unsure,  \* history: cells whose last command timed out, taken or not
  puts     \* how many puts have changed something

vars == <<wired, master, send, input, local, card, unsure, puts>>

---------------------------------------------------------------------------
(* Values.                                                                 *)

\* clamp_val().
ClampAbove(v, lo, hi) == IF v > hi THEN hi ELSE v
Clamp(v, lo, hi) == IF v < lo THEN lo ELSE IF v > hi THEN hi ELSE v

\* Kinds of control kept in the shadow only, and their largest value.
LocalMax == [outVol |-> 100, outMute |-> 1, outStereo |-> 1, inStereo |-> 1,
             talkAtten |-> 40, talk |-> 1, listen |-> 1, patchbay |-> 1,
             meters |-> 1, slotIface |-> 9]
LocalKind == DOMAIN LocalMax

Master == [vol : 0 .. 100, mute : BOOLEAN]
Send == [vol : 0 .. 100, pan : -100 .. 100, mute : BOOLEAN, solo : BOOLEAN]
Input == [trim : -12 .. 12, pad : BOOLEAN, phase : BOOLEAN, mute : BOOLEAN]

Bit(b) == IF b THEN 1 ELSE 0

\* vol, and mute in bit 16.
MasterWord(m) == <<Bit(m.mute), m.vol % 65536>>

\* (u16)pan in the upper half, the effective volume in the lower one.
SendWord(pan, eff) == <<pan % 65536, eff % 65536>>

\* (u8)trim, pad, phase and mute in bits 8 to 10.
TrimSignExtended(i) ==
  <<0, ((i.trim % 65536) + 256 * Bit(i.pad) + 512 * Bit(i.phase) + 1024 * Bit(i.mute)) % 65536>>
TrimWord(i) ==
  <<0, (i.trim % 256) + 256 * Bit(i.pad) + 512 * Bit(i.phase) + 1024 * Bit(i.mute)>>

---------------------------------------------------------------------------
(* Cells: a register offset from mix_base, or a mailbox command and its    *)
(* parameter.                                                              *)

MasterCell(b) == IF wired.dsp THEN <<"SET_MASTER", b>> ELSE <<"mmio", 16 * b>>
SendCell(b, c) ==
  IF wired.dsp THEN <<"SET_MIX", 256 * b + c>> ELSE <<"mmio", 64 + 4 * (b * Channels + c)>>
TrimCell(c) == <<"mmio", 512 + 4 * c>>

\* A word reaches its cell; nothing is written without a mixer block. A
\* mailbox command that times out may or may not have been taken, and the
\* put does not look at the result (motu424_dsp_send_cmd).
Written(cell, word) == [x \in DOMAIN card \cup {cell} |-> IF x = cell THEN word ELSE card[x]]
Deliver(cell, word) ==
  IF cell[1] = "mmio"
    THEN /\ card' = IF wired.coef THEN Written(cell, word) ELSE card
         /\ unsure' = unsure
    ELSE \/ card' = Written(cell, word) /\ unsure' = unsure \ {cell}
         \/ card' \in {card, Written(cell, word)} /\ unsure' = unsure \cup {cell}

---------------------------------------------------------------------------
(* Puts.                                                                   *)

\* motu424_mixer_init(): defaults in the shadow, nothing sent to the card.
Init ==
  /\ wired \in [dsp : BOOLEAN, coef : BOOLEAN]
  /\ master = [b \in Bus |-> [vol |-> 100, mute |-> FALSE]]
  /\ send = [b \in Bus |-> [c \in Chan |->
       [vol |-> IF b = 0 THEN 100 ELSE 0, pan |-> IF c % 2 = 0 THEN -100 ELSE 100,
        mute |-> FALSE, solo |-> FALSE]]]
  /\ input = [c \in Chan |-> [trim |-> 0, pad |-> FALSE, phase |-> FALSE, mute |-> FALSE]]
  /\ local = [k \in LocalKind |-> CASE k = "outVol" -> 100 [] k = "talkAtten" -> 20
                                    [] k = "slotIface" -> 1 [] OTHER -> 0]
  /\ card = <<>>
  /\ unsure = {}
  /\ puts = 0

Counted == puts < MaxPuts /\ puts' = puts + 1

\* motu424_hw_set_bus_master().
SetBusMaster(b, m) ==
  /\ m # master[b]
  /\ Counted
  /\ master' = [master EXCEPT ![b] = m]
  /\ Deliver(MasterCell(b), MasterWord(m))
  /\ UNCHANGED <<wired, send, input, local>>

\* motu424_hw_set_matrix_send(): solo-in-place silences a channel that is
\* not soloed itself on a bus where another one is.
EffIgnoringMute(b, c, s) ==
  IF (\E i \in Chan \ {c} : send[b][i].solo) /\ ~s.solo THEN 0 ELSE s.vol
Eff(b, c, s) ==
  IF s.mute \/ ((\E i \in Chan \ {c} : send[b][i].solo) /\ ~s.solo) THEN 0 ELSE s.vol

SetMatrixSend(b, c, s) ==
  /\ s # send[b][c]
  /\ Counted
  /\ send' = [send EXCEPT ![b][c] = s]
  /\ Deliver(SendCell(b, c), SendWord(s.pan, Eff(b, c, s)))
  /\ UNCHANGED <<wired, master, input, local>>

\* motu424_hw_set_input_trim(): always the register block.
SetInputTrim(c, i) ==
  /\ i # input[c]
  /\ Counted
  /\ input' = [input EXCEPT ![c] = i]
  /\ Deliver(TrimCell(c), TrimWord(i))
  /\ UNCHANGED <<wired, master, send, local>>

\* One put per control of motu424_ctl_int_put and motu424_ctl_bool_put: the
\* fields it does not set are read back from the shadow.
PutMasterVol(b, v) == SetBusMaster(b, [master[b] EXCEPT !.vol = Clamp(v, 0, 100)])
PutMasterMute(b) == SetBusMaster(b, [master[b] EXCEPT !.mute = ~@])
PutSendVol(b, c, v) == SetMatrixSend(b, c, [send[b][c] EXCEPT !.vol = Clamp(v, 0, 100)])
PutSendPan(b, c, v) == SetMatrixSend(b, c, [send[b][c] EXCEPT !.pan = Clamp(v, -100, 100)])
PutSendMute(b, c) == SetMatrixSend(b, c, [send[b][c] EXCEPT !.mute = ~@])
PutSendSolo(b, c) == SetMatrixSend(b, c, [send[b][c] EXCEPT !.solo = ~@])
PutTrim(c, v) == SetInputTrim(c, [input[c] EXCEPT !.trim = Clamp(v, -12, 12)])
PutPad(c) == SetInputTrim(c, [input[c] EXCEPT !.pad = ~@])
PutPhase(c) == SetInputTrim(c, [input[c] EXCEPT !.phase = ~@])
PutInMute(c) == SetInputTrim(c, [input[c] EXCEPT !.mute = ~@])

\* The controls of LocalKind: stored, and no card access. An enumerated item
\* past the list is refused, a number is clamped.
PutLocal(k, v) ==
  /\ k = "slotIface" => v \in 0 .. LocalMax[k]
  /\ local[k] # Clamp(v, 0, LocalMax[k])
  /\ Counted
  /\ local' = [local EXCEPT ![k] = Clamp(v, 0, LocalMax[k])]
  /\ UNCHANGED <<wired, master, send, input, card, unsure>>

Next ==
  \/ \E b \in Bus : PutMasterMute(b) \/ \E v \in Levels : PutMasterVol(b, v)
  \/ \E b \in Bus, c \in Chan :
       \/ PutSendMute(b, c) \/ PutSendSolo(b, c)
       \/ \E v \in Levels : PutSendVol(b, c, v)
       \/ \E v \in Pans : PutSendPan(b, c, v)
  \/ \E c \in Chan :
       PutPad(c) \/ PutPhase(c) \/ PutInMute(c) \/ \E v \in Trims : PutTrim(c, v)
  \/ \E k \in LocalKind, v \in {0, 1} : PutLocal(k, v)

Spec == Init /\ [][Next]_vars

---------------------------------------------------------------------------
(* What the card reads out of a word.                                      *)

SignedHalf(x) == IF x < 32768 THEN x ELSE x - 65536
SignedByte(x) == IF x < 128 THEN x ELSE x - 256
HasBit(w, n) == (w[2] \div n) % 2 = 1

MasterOf(w) == [vol |-> w[2], mute |-> w[1] % 2 = 1]
PanOf(w) == SignedHalf(w[1])
EffOf(w) == w[2]
InputOf(w) == [trim |-> SignedByte(w[2] % 256), pad |-> HasBit(w, 256),
               phase |-> HasBit(w, 512), mute |-> HasBit(w, 1024)]

---------------------------------------------------------------------------
(* Properties.                                                             *)

TypeOK ==
  /\ wired \in [dsp : BOOLEAN, coef : BOOLEAN]
  /\ master \in [Bus -> Master]
  /\ send \in [Bus -> [Chan -> Send]]
  /\ input \in [Chan -> Input]
  /\ \A k \in LocalKind : local[k] \in 0 .. LocalMax[k]
  /\ puts \in 0 .. MaxPuts

\* A cell that has been written, and not by a command that timed out.
Sent(cell) == cell \in DOMAIN card \ unsure

\* Two or four controls share a word, and each put rewrites it whole: what
\* the card reads from any word sent to it is what the controls show now,
\* except for the silencing of a send and until a command times out; no
\* control's word lands in another's cell, and no sign or carry leaks into a
\* neighbouring field.
WordsMatchShadow ==
  /\ \A b \in Bus : Sent(MasterCell(b)) => MasterOf(card[MasterCell(b)]) = master[b]
  /\ \A c \in Chan : Sent(TrimCell(c)) => InputOf(card[TrimCell(c)]) = input[c]
  /\ \A b \in Bus, c \in Chan : Sent(SendCell(b, c)) =>
       PanOf(card[SendCell(b, c)]) = send[b][c].pan

\* A send is at its fader or silent, a muted one is silent, and a soloed one
\* that is not muted is heard at its fader.
SendsAreFaderOrSilent ==
  \A b \in Bus, c \in Chan : Sent(SendCell(b, c)) =>
    LET e == EffOf(card[SendCell(b, c)]) IN
      /\ e \in {0, send[b][c].vol}
      /\ send[b][c].mute => e = 0
      /\ send[b][c].solo /\ ~send[b][c].mute => e = send[b][c].vol

\* Nothing is written to a register block the card did not report.
NoBlockNoWords == wired.coef \/ \A x \in DOMAIN card : x[1] # "mmio"

\* What the proofs show to be inductive.
MixInv == TypeOK /\ NoBlockNoWords /\ WordsMatchShadow /\ SendsAreFaderOrSilent

---------------------------------------------------------------------------
(* What comments and documents say, and the code does not do.              *)

\* "solo-in-place is active on this mix bus": while a channel is soloed, the
\* sends of that bus that are not are silent on the card.
SoloInPlace ==
  \A b \in Bus, c \in Chan :
    /\ Sent(SendCell(b, c))
    /\ \E i \in Chan : send[b][i].solo
    /\ ~send[b][c].solo
    => EffOf(card[SendCell(b, c)]) = 0

=============================================================================
