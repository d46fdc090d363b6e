---------------------------- MODULE MixerProofs ----------------------------
(***************************************************************************)
(* Proofs about the mixer for every number of buses and channels the       *)
(* register block has room for, and for every value written.               *)
(***************************************************************************)
EXTENDS Mixer, TLAPS

\* Row-major numbering of a table with n columns is one to one.
LEMMA RowMajor ==
  ASSUME NEW n \in Nat \ {0}, NEW a \in Int, NEW b \in Int,
         NEW i \in 0 .. n - 1, NEW j \in 0 .. n - 1,
         a * n + i = b * n + j
  PROVE  a = b /\ i = j
<1>1. n * (a - b) = j - i /\ j - i < n /\ j - i > -n
  OBVIOUS
<1>2. ~(a - b >= 1)
  <2> SUFFICES ASSUME a - b >= 1 PROVE n * (a - b) >= n
    BY <1>1
  <2>1. n * (a - b - 1) \in Nat OBVIOUS
  <2>2. n * (a - b) = n * (a - b - 1) + n OBVIOUS
  <2> QED BY <2>1, <2>2
<1>3. ~(b - a >= 1)
  <2> SUFFICES ASSUME b - a >= 1 PROVE n * (b - a) >= n
    BY <1>1
  <2>1. n * (b - a - 1) \in Nat OBVIOUS
  <2>2. n * (b - a) = n * (b - a - 1) + n OBVIOUS
  <2> QED BY <2>1, <2>2
<1>4. a = b
  BY <1>2, <1>3
<1> QED
  BY <1>1, <1>4

---------------------------------------------------------------------------
(* Words: what is packed is what is read.                                  *)

\* The two halves of a master word are its mute and its volume.
LEMMA MasterWordReads ==
  ASSUME NEW m \in Master
  PROVE  MasterOf(MasterWord(m)) = m
<1>1. m.vol \in 0 .. 100 /\ m.mute \in BOOLEAN /\ m = [vol |-> m.vol, mute |-> m.mute]
  BY DEF Master
<1>2. m.vol % 65536 = m.vol
  BY <1>1
<1>3. (Bit(m.mute) % 2 = 1) = m.mute
  BY <1>1 DEF Bit
<1>4. MasterOf(MasterWord(m)) = [vol |-> m.vol, mute |-> m.mute]
  BY <1>2, <1>3 DEF MasterOf, MasterWord
<1> QED
  BY <1>1, <1>4

\* A pan survives the cast to u16 and back.
LEMMA PanReads ==
  ASSUME NEW pan \in -100 .. 100, NEW eff
  PROVE  PanOf(SendWord(pan, eff)) = pan
<1>1. SignedHalf(pan % 65536) = pan
  BY DEF SignedHalf
<1> QED
  BY <1>1 DEF PanOf, SendWord

\* An effective volume is read as it was written.
LEMMA EffReads ==
  ASSUME NEW pan, NEW eff \in 0 .. 100
  PROVE  EffOf(SendWord(pan, eff)) = eff
  BY DEF EffOf, SendWord

\* The trim's sign does not leak into the switches above it, nor they into it.
LEMMA TrimWordReads ==
  ASSUME NEW i \in Input
  PROVE  InputOf(TrimWord(i)) = i
<1>1. /\ i.trim \in -12 .. 12
      /\ i.pad \in BOOLEAN /\ i.phase \in BOOLEAN /\ i.mute \in BOOLEAN
      /\ i = [trim |-> i.trim, pad |-> i.pad, phase |-> i.phase, mute |-> i.mute]
  BY DEF Input
<1> DEFINE t == i.trim % 256
           p == Bit(i.pad)
           q == Bit(i.phase)
           r == Bit(i.mute)
           w == t + 256 * p + 512 * q + 1024 * r
<1>2. t \in 0 .. 255 /\ p \in 0 .. 1 /\ q \in 0 .. 1 /\ r \in 0 .. 1
  BY <1>1 DEF Bit
<1>3. SignedByte(t) = i.trim
  BY <1>1 DEF SignedByte
<1>4. TrimWord(i)[2] = w
  BY DEF TrimWord
<1>5. (p = 1) = i.pad /\ (q = 1) = i.phase /\ (r = 1) = i.mute
  BY <1>1 DEF Bit
<1> HIDE DEF t, p, q, r
<1>6. w % 256 = t
  BY <1>2
<1>7. w \div 256 = p + 2 * q + 4 * r /\ w \div 512 = q + 2 * r /\ w \div 1024 = r
  BY <1>2
<1>8. (w \div 256) % 2 = p /\ (w \div 512) % 2 = q /\ (w \div 1024) % 2 = r
  BY <1>2, <1>7
<1>9. InputOf(TrimWord(i)) =
        [trim |-> i.trim, pad |-> i.pad, phase |-> i.phase, mute |-> i.mute]
  <2> HIDE DEF w
  <2> QED
    BY <1>3, <1>4, <1>5, <1>6, <1>8 DEF InputOf, HasBit
<1> QED
  BY <1>1, <1>9

---------------------------------------------------------------------------
(* Cells.                                                                  *)

\* Sends, buses and channels are numbered without overlap, below the trims.
LEMMA SendNumber ==
  ASSUME NEW b \in Bus, NEW c \in Chan
  PROVE  b * Channels + c \in 0 .. 95
<1>1. b \in 0 .. 3 /\ Channels \in 1 .. 24 /\ c \in 0 .. Channels - 1
  BY MixerAssumption DEF Bus, Chan
<1>2. b = 0 \/ b = 1 \/ b = 2 \/ b = 3
  BY <1>1
<1> QED
  BY <1>1, <1>2

\* No two controls that own a word share a cell.
LEMMA CellsDistinct ==
  ASSUME NEW b \in Bus, NEW c \in Chan, NEW b2 \in Bus, NEW c2 \in Chan
  PROVE  /\ MasterCell(b) = MasterCell(b2) => b = b2
         /\ SendCell(b, c) = SendCell(b2, c2) => b = b2 /\ c = c2
         /\ TrimCell(c) = TrimCell(c2) => c = c2
         /\ MasterCell(b) # SendCell(b2, c)
         /\ MasterCell(b) # TrimCell(c)
         /\ SendCell(b, c) # TrimCell(c2)
<1>1. /\ b \in 0 .. 3 /\ b2 \in 0 .. 3 /\ c \in 0 .. 23 /\ c2 \in 0 .. 23
      /\ Channels \in Nat \ {0} /\ c \in 0 .. Channels - 1 /\ c2 \in 0 .. Channels - 1
  BY MixerAssumption DEF Bus, Chan
<1> DEFINE n == b * Channels + c
           n2 == b2 * Channels + c2
           m == b2 * Channels + c
<1>2. n \in 0 .. 95 /\ n2 \in 0 .. 95 /\ m \in 0 .. 95
  BY SendNumber
<1>3. n = n2 => b = b2 /\ c = c2
  BY <1>1, RowMajor
<1>4. MasterCell(b) = MasterCell(b2) => b = b2
  BY <1>1 DEF MasterCell
<1>5. TrimCell(c) = TrimCell(c2) => c = c2
  BY <1>1 DEF TrimCell
<1>6. MasterCell(b) # TrimCell(c)
  BY <1>1 DEF MasterCell, TrimCell
<1> HIDE DEF n, n2, m
<1>7. SendCell(b, c) = SendCell(b2, c2) => b = b2 /\ c = c2
  <2>1. CASE wired.dsp
    BY <1>1, <2>1 DEF SendCell
  <2>2. CASE ~wired.dsp
    <3>1. SendCell(b, c) = <<"mmio", 64 + 4 * n>> /\ SendCell(b2, c2) = <<"mmio", 64 + 4 * n2>>
      BY <2>2 DEF SendCell, n, n2
    <3> QED
      BY <1>2, <1>3, <3>1
  <2> QED
    BY <2>1, <2>2
<1>8. MasterCell(b) # SendCell(b2, c)
  <2>1. SendCell(b2, c) = IF wired.dsp THEN <<"SET_MIX", 256 * b2 + c>> ELSE <<"mmio", 64 + 4 * m>>
    BY DEF SendCell, m
  <2> QED
    BY <1>1, <1>2, <2>1 DEF MasterCell
<1>9. SendCell(b, c) # TrimCell(c2)
  <2>1. SendCell(b, c) = IF wired.dsp THEN <<"SET_MIX", 256 * b + c>> ELSE <<"mmio", 64 + 4 * n>>
    BY DEF SendCell, n
  <2> QED
    BY <1>1, <1>2, <2>1 DEF TrimCell
<1> QED
  BY <1>4, <1>5, <1>6, <1>7, <1>8, <1>9

---------------------------------------------------------------------------
(* The invariant.                                                          *)

\* After a delivery that did not time out the cell holds the new word, and
\* the other cells hold what they held.
LEMMA Delivered ==
  ASSUME NoBlockNoWords, UNCHANGED wired, NEW cell, NEW word,
         cell[1] = "mmio" \/ wired.dsp, Deliver(cell, word)
  PROVE  /\ NoBlockNoWords'
         /\ \A x \in DOMAIN card' \ unsure' : IF x = cell THEN card'[x] = word
                              ELSE Sent(x) /\ card'[x] = card[x]
<1> DEFINE full == Written(cell, word)
<1>1. /\ DOMAIN full = DOMAIN card \cup {cell}
      /\ \A x \in DOMAIN full : full[x] = IF x = cell THEN word ELSE card[x]
  BY DEF Written
<1>2. CASE cell[1] = "mmio" /\ wired.coef
  <2>1. card' = full /\ unsure' = unsure
    BY <1>2 DEF Deliver
  <2> QED
    BY <1>1, <1>2, <2>1 DEF NoBlockNoWords, Sent
<1>3. CASE cell[1] = "mmio" /\ ~wired.coef
  <2>1. card' = card /\ unsure' = unsure /\ cell \notin DOMAIN card
    BY <1>3 DEF Deliver, NoBlockNoWords
  <2> QED
    BY <2>1 DEF NoBlockNoWords, Sent
<1>4. CASE cell[1] # "mmio"
  <2>1. \/ card' = full /\ unsure' = unsure \ {cell}
        \/ card' \in {card, full} /\ unsure' = unsure \cup {cell}
    BY <1>4 DEF Deliver
  <2>2. NoBlockNoWords'
    BY <1>1, <1>4, <2>1 DEF NoBlockNoWords
  <2> HIDE DEF full
  <2> QED
    BY <1>1, <2>1, <2>2 DEF Sent
<1> QED
  BY <1>2, <1>3, <1>4

\* A bus master put keeps the invariant.
LEMMA SetBusMasterKeeps ==
  ASSUME MixInv, NEW b \in Bus, NEW m \in Master, SetBusMaster(b, m)
  PROVE  MixInv'
<1> USE DEF MixInv
<1>1. /\ master' = [master EXCEPT ![b] = m]
      /\ Deliver(MasterCell(b), MasterWord(m))
      /\ UNCHANGED <<wired, send, input, local>>
  BY DEF SetBusMaster
<1>2. MasterCell(b)[1] = "mmio" \/ wired.dsp
  BY DEF MasterCell
<1>3. /\ NoBlockNoWords'
      /\ \A x \in DOMAIN card' \ unsure' : IF x = MasterCell(b) THEN card'[x] = MasterWord(m)
                           ELSE Sent(x) /\ card'[x] = card[x]
  BY <1>1, <1>2, Delivered
<1>4. TypeOK'
  BY <1>1, MixerAssumption DEF SetBusMaster, Counted, TypeOK
<1>5. \A b2 \in Bus : MasterCell(b2) \in DOMAIN card' \ unsure' =>
        MasterOf(card'[MasterCell(b2)]) = master'[b2]
  <2> TAKE b2 \in Bus
  <2> HAVE MasterCell(b2) \in DOMAIN card' \ unsure'
  <2>1. CASE b2 = b
    BY <1>1, <1>3, <2>1, MasterWordReads DEF TypeOK
  <2>2. CASE b2 # b
    <3>1. 0 \in Chan
      BY MixerAssumption DEF Chan
    <3>2. MasterCell(b2) # MasterCell(b)
      BY <2>2, <3>1, CellsDistinct
    <3> QED
      BY <1>1, <1>3, <2>2, <3>2 DEF TypeOK, WordsMatchShadow
  <2> QED
    BY <2>1, <2>2
<1>6. ASSUME NEW c \in Chan
      PROVE  /\ TrimCell(c) # MasterCell(b)
             /\ \A b2 \in Bus : SendCell(b2, c) # MasterCell(b)
  BY CellsDistinct
<1>7. WordsMatchShadow'
  <2>1. \A c \in Chan : TrimCell(c) \in DOMAIN card' \ unsure' => InputOf(card'[TrimCell(c)]) = input'[c]
    BY <1>1, <1>3, <1>6 DEF WordsMatchShadow
  <2>2. \A b2 \in Bus, c \in Chan : SendCell(b2, c) \in DOMAIN card' \ unsure' =>
          PanOf(card'[SendCell(b2, c)]) = send'[b2][c].pan
    BY <1>1, <1>3, <1>6 DEF WordsMatchShadow
  <2> QED
    BY <1>1, <1>5, <2>1, <2>2 DEF WordsMatchShadow, Sent, MasterCell, TrimCell, SendCell
<1>8. SendsAreFaderOrSilent'
  BY <1>1, <1>3, <1>6 DEF SendsAreFaderOrSilent, Sent, SendCell
<1> QED
  BY <1>3, <1>4, <1>7, <1>8

\* A send put keeps it: the other sends of the bus keep their words, which
\* is why their silence under a solo is no part of the invariant.
LEMMA SetMatrixSendKeeps ==
  ASSUME MixInv, NEW b \in Bus, NEW c \in Chan, NEW s \in Send,
         SetMatrixSend(b, c, s)
  PROVE  MixInv'
<1> USE DEF MixInv
<1> DEFINE e == Eff(b, c, s)
<1>1. /\ send' = [send EXCEPT ![b][c] = s]
      /\ Deliver(SendCell(b, c), SendWord(s.pan, e))
      /\ UNCHANGED <<wired, master, input, local>>
  BY DEF SetMatrixSend
<1>2. SendCell(b, c)[1] = "mmio" \/ wired.dsp
  BY DEF SendCell
<1>3. /\ NoBlockNoWords'
      /\ \A x \in DOMAIN card' \ unsure' : IF x = SendCell(b, c) THEN card'[x] = SendWord(s.pan, e)
                           ELSE Sent(x) /\ card'[x] = card[x]
  BY <1>1, <1>2, Delivered
<1>4. s.vol \in 0 .. 100 /\ s.pan \in -100 .. 100 /\ s.mute \in BOOLEAN /\ s.solo \in BOOLEAN
  BY DEF Send
<1>5. /\ e \in {0, s.vol} /\ e \in 0 .. 100
      /\ s.mute => e = 0
      /\ s.solo /\ ~s.mute => e = s.vol
  BY <1>4 DEF Eff
<1> HIDE DEF e
<1>6. TypeOK'
  <2>1. send' \in [Bus -> [Chan -> Send]]
    BY <1>1 DEF TypeOK
  <2> QED
    BY <1>1, <2>1, MixerAssumption DEF SetMatrixSend, Counted, TypeOK
<1>7. ASSUME NEW b2 \in Bus, NEW c2 \in Chan
      PROVE  /\ MasterCell(b2) # SendCell(b, c)
             /\ TrimCell(c2) # SendCell(b, c)
             /\ SendCell(b2, c2) = SendCell(b, c) => b2 = b /\ c2 = c
             /\ send'[b2][c2] = IF b2 = b /\ c2 = c THEN s ELSE send[b2][c2]
  <2>1. send'[b2][c2] = IF b2 = b /\ c2 = c THEN s ELSE send[b2][c2]
    BY <1>1 DEF TypeOK
  <2> QED
    BY <2>1, CellsDistinct
<1>8. WordsMatchShadow'
  <2>1. \A b2 \in Bus : MasterCell(b2) \in DOMAIN card' \ unsure' =>
          MasterOf(card'[MasterCell(b2)]) = master'[b2]
    BY <1>1, <1>3, <1>7 DEF WordsMatchShadow
  <2>2. \A c2 \in Chan : TrimCell(c2) \in DOMAIN card' \ unsure' => InputOf(card'[TrimCell(c2)]) = input'[c2]
    BY <1>1, <1>3, <1>7 DEF WordsMatchShadow
  <2>3. \A b2 \in Bus, c2 \in Chan : SendCell(b2, c2) \in DOMAIN card' \ unsure' =>
          PanOf(card'[SendCell(b2, c2)]) = send'[b2][c2].pan
    <3> TAKE b2 \in Bus, c2 \in Chan
    <3> HAVE SendCell(b2, c2) \in DOMAIN card' \ unsure'
    <3>1. CASE b2 = b /\ c2 = c
      BY <1>3, <1>4, <1>7, <3>1, PanReads
    <3>2. CASE ~(b2 = b /\ c2 = c)
      BY <1>3, <1>7, <3>2 DEF WordsMatchShadow
    <3> QED
      BY <3>1, <3>2
  <2> QED
    BY <1>1, <2>1, <2>2, <2>3 DEF WordsMatchShadow, Sent, MasterCell, TrimCell, SendCell
<1>9. SendsAreFaderOrSilent'
  <2>1. ASSUME NEW b2 \in Bus, NEW c2 \in Chan, SendCell(b2, c2) \in DOMAIN card' \ unsure'
        PROVE  LET x == EffOf(card'[SendCell(b2, c2)]) IN
                 /\ x \in {0, send'[b2][c2].vol}
                 /\ send'[b2][c2].mute => x = 0
                 /\ send'[b2][c2].solo /\ ~send'[b2][c2].mute => x = send'[b2][c2].vol
    <3>1. CASE b2 = b /\ c2 = c
      <4>1. EffOf(card'[SendCell(b2, c2)]) = e /\ send'[b2][c2] = s
        BY <1>3, <1>5, <1>7, <2>1, <3>1, EffReads
      <4> QED
        BY <1>5, <4>1
    <3>2. CASE ~(b2 = b /\ c2 = c)
      BY <1>3, <1>7, <2>1, <3>2 DEF SendsAreFaderOrSilent
    <3> QED
      BY <3>1, <3>2
  <2> QED
    BY <1>1, <2>1 DEF SendsAreFaderOrSilent, Sent, SendCell
<1> QED
  BY <1>3, <1>6, <1>8, <1>9

\* An input conditioning put keeps it.
LEMMA SetInputTrimKeeps ==
  ASSUME MixInv, NEW c \in Chan, NEW i \in Input, SetInputTrim(c, i)
  PROVE  MixInv'
<1> USE DEF MixInv
<1>1. /\ input' = [input EXCEPT ![c] = i]
      /\ Deliver(TrimCell(c), TrimWord(i))
      /\ UNCHANGED <<wired, master, send, local>>
  BY DEF SetInputTrim
<1>2. TrimCell(c)[1] = "mmio"
  BY DEF TrimCell
<1>3. /\ NoBlockNoWords'
      /\ \A x \in DOMAIN card' \ unsure' : IF x = TrimCell(c) THEN card'[x] = TrimWord(i)
                           ELSE Sent(x) /\ card'[x] = card[x]
  BY <1>1, <1>2, Delivered
<1>4. TypeOK'
  BY <1>1, MixerAssumption DEF SetInputTrim, Counted, TypeOK
<1>5. ASSUME NEW b \in Bus, NEW c2 \in Chan
      PROVE  MasterCell(b) # TrimCell(c) /\ SendCell(b, c2) # TrimCell(c)
  BY CellsDistinct
<1>6. \A c2 \in Chan : TrimCell(c2) \in DOMAIN card' \ unsure' => InputOf(card'[TrimCell(c2)]) = input'[c2]
  <2> TAKE c2 \in Chan
  <2> HAVE TrimCell(c2) \in DOMAIN card' \ unsure'
  <2>1. CASE c2 = c
    BY <1>1, <1>3, <2>1, TrimWordReads DEF TypeOK
  <2>2. CASE c2 # c
    <3>1. TrimCell(c2) # TrimCell(c)
      <4>1. 0 \in Bus
        BY MixerAssumption DEF Bus
      <4> QED
        BY <2>2, <4>1, CellsDistinct
    <3> QED
      BY <1>1, <1>3, <2>2, <3>1 DEF TypeOK, WordsMatchShadow
  <2> QED
    BY <2>1, <2>2
<1>7. WordsMatchShadow'
  <2>1. \A b \in Bus : MasterCell(b) \in DOMAIN card' \ unsure' =>
          MasterOf(card'[MasterCell(b)]) = master'[b]
    <3>1. 0 \in Chan
      BY MixerAssumption DEF Chan
    <3> QED
      BY <1>1, <1>3, <1>5, <3>1 DEF WordsMatchShadow
  <2>2. \A b \in Bus, c2 \in Chan : SendCell(b, c2) \in DOMAIN card' \ unsure' =>
          PanOf(card'[SendCell(b, c2)]) = send'[b][c2].pan
    BY <1>1, <1>3, <1>5 DEF WordsMatchShadow
  <2> QED
    BY <1>1, <1>6, <2>1, <2>2 DEF WordsMatchShadow, Sent, MasterCell, TrimCell, SendCell
<1>8. SendsAreFaderOrSilent'
  BY <1>1, <1>3, <1>5 DEF SendsAreFaderOrSilent, Sent, SendCell
<1> QED
  BY <1>3, <1>4, <1>7, <1>8

\* The controls that have no card register leave the rest alone.
LEMMA PutLocalKeeps ==
  ASSUME MixInv, NEW k \in LocalKind, NEW v \in {0, 1}, PutLocal(k, v)
  PROVE  MixInv'
<1> USE DEF MixInv
<1>1. local' = [local EXCEPT ![k] = Clamp(v, 0, LocalMax[k])]
      /\ UNCHANGED <<wired, master, send, input, card, unsure>>
  BY DEF PutLocal
<1>2. LocalMax[k] \in Nat
  BY DEF LocalKind, LocalMax
<1>3. Clamp(v, 0, LocalMax[k]) \in 0 .. LocalMax[k]
  BY <1>2 DEF Clamp
<1>4. TypeOK'
  <2>1. ASSUME NEW j \in LocalKind PROVE local'[j] \in 0 .. LocalMax[j]
    BY <1>1, <1>3 DEF TypeOK
  <2> QED
    BY <1>1, <2>1, MixerAssumption DEF PutLocal, Counted, TypeOK
<1> QED
  BY <1>1, <1>4 DEF NoBlockNoWords, WordsMatchShadow, SendsAreFaderOrSilent,
     Sent, MasterCell, TrimCell, SendCell

---------------------------------------------------------------------------
(* The theorems.                                                           *)

\* Whatever is written, and whichever commands time out.
THEOREM MixerInvariance == Spec => []MixInv
<1>1. Init => MixInv
  <2> SUFFICES ASSUME Init PROVE MixInv
    OBVIOUS
  <2>1. TypeOK
    <3>1. master \in [Bus -> Master]
      BY DEF Init, Master
    <3>2. send \in [Bus -> [Chan -> Send]]
      BY DEF Init, Send
    <3>3. input \in [Chan -> Input]
      BY DEF Init, Input
    <3>4. \A k \in LocalKind : local[k] \in 0 .. LocalMax[k]
      BY DEF Init, LocalKind, LocalMax
    <3> QED
      BY <3>1, <3>2, <3>3, <3>4, MixerAssumption DEF Init, TypeOK
  <2>2. DOMAIN card = {}
    BY DEF Init
  <2> QED
    BY <2>1, <2>2 DEF MixInv, NoBlockNoWords, WordsMatchShadow, SendsAreFaderOrSilent, Sent
<1>2. MixInv /\ [Next]_vars => MixInv'
  <2> SUFFICES ASSUME MixInv, [Next]_vars PROVE MixInv'
    OBVIOUS
  <2>1. /\ \A b \in Bus : master[b] \in Master
        /\ \A b \in Bus, c \in Chan : send[b][c] \in Send
        /\ \A c \in Chan : input[c] \in Input
    BY DEF MixInv, TypeOK
  <2>2. ASSUME NEW b \in Bus, PutMasterMute(b) \/ \E v \in Levels : PutMasterVol(b, v)
        PROVE  MixInv'
    <3>1. \A v \in Levels : Clamp(v, 0, 100) \in 0 .. 100
      BY MixerAssumption DEF Clamp
    <3>2. [master[b] EXCEPT !.mute = ~@] \in Master
      BY <2>1 DEF Master
    <3>3. \A v \in Levels : [master[b] EXCEPT !.vol = Clamp(v, 0, 100)] \in Master
      BY <2>1, <3>1 DEF Master
    <3> QED
      BY <2>2, <3>2, <3>3, SetBusMasterKeeps DEF PutMasterMute, PutMasterVol
  <2>3. ASSUME NEW b \in Bus, NEW c \in Chan,
               \/ PutSendMute(b, c) \/ PutSendSolo(b, c)
               \/ \E v \in Levels : PutSendVol(b, c, v)
               \/ \E v \in Pans : PutSendPan(b, c, v)
        PROVE  MixInv'
    <3>1. /\ \A v \in Levels : Clamp(v, 0, 100) \in 0 .. 100
          /\ \A v \in Pans : Clamp(v, -100, 100) \in -100 .. 100
      BY MixerAssumption DEF Clamp
    <3>2. /\ [send[b][c] EXCEPT !.mute = ~@] \in Send
          /\ [send[b][c] EXCEPT !.solo = ~@] \in Send
      <4>1. send[b][c] \in Send
        BY <2>1
      <4>2. [send[b][c] EXCEPT !.mute = ~@] \in Send
        BY <4>1 DEF Send
      <4>3. [send[b][c] EXCEPT !.solo = ~@] \in Send
        BY <4>1 DEF Send
      <4> QED
        BY <4>2, <4>3
    <3>3. \A v \in Levels : [send[b][c] EXCEPT !.vol = Clamp(v, 0, 100)] \in Send
      BY <2>1, <3>1 DEF Send
    <3>4. \A v \in Pans : [send[b][c] EXCEPT !.pan = Clamp(v, -100, 100)] \in Send
      BY <2>1, <3>1 DEF Send
    <3> QED
      BY <2>3, <3>2, <3>3, <3>4, SetMatrixSendKeeps
      DEF PutSendMute, PutSendSolo, PutSendVol, PutSendPan
  <2>4. ASSUME NEW c \in Chan,
               PutPad(c) \/ PutPhase(c) \/ PutInMute(c) \/ \E v \in Trims : PutTrim(c, v)
        PROVE  MixInv'
    <3>1. \A v \in Trims : Clamp(v, -12, 12) \in -12 .. 12
      BY MixerAssumption DEF Clamp
    <3>2. /\ [input[c] EXCEPT !.pad = ~@] \in Input
          /\ [input[c] EXCEPT !.phase = ~@] \in Input
          /\ [input[c] EXCEPT !.mute = ~@] \in Input
      BY <2>1 DEF Input
    <3>3. \A v \in Trims : [input[c] EXCEPT !.trim = Clamp(v, -12, 12)] \in Input
      BY <2>1, <3>1 DEF Input
    <3> QED
      BY <2>4, <3>2, <3>3, SetInputTrimKeeps DEF PutPad, PutPhase, PutInMute, PutTrim
  <2>5. ASSUME NEW k \in LocalKind, NEW v \in {0, 1}, PutLocal(k, v) PROVE MixInv'
    BY <2>5, PutLocalKeeps
  <2>6. CASE UNCHANGED vars
    BY <2>6 DEF vars, MixInv, TypeOK, NoBlockNoWords, WordsMatchShadow, SendsAreFaderOrSilent,
       Sent, MasterCell, TrimCell, SendCell
  <2> QED
    BY <2>2, <2>3, <2>4, <2>5, <2>6 DEF Next
<1> QED
  BY <1>1, <1>2, PTL DEF Spec

\* What the card reads from its words is what the controls show.
THEOREM WordsCorrect == Spec => []WordsMatchShadow
  BY MixerInvariance, PTL DEF MixInv

\* A send is at its fader or silent.
THEOREM SendsCorrect == Spec => []SendsAreFaderOrSilent
  BY MixerInvariance, PTL DEF MixInv

\* The shadow of the mixer keeps its types: no put stores a value outside its
\* control's range (motu424_ctl_int_put clamps).
THEOREM MixerTypeCorrect == Spec => []TypeOK
<1>1. MixInv => TypeOK
  BY DEF MixInv
<1> QED
  BY <1>1, MixerInvariance, PTL

=============================================================================
