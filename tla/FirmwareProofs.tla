--------------------------- MODULE FirmwareProofs ---------------------------
(***************************************************************************)
(* What the driver accepts, lists and copies, and what the console says of *)
(* it, for files, headers and words of every size.                         *)
(***************************************************************************)
EXTENDS Firmware, TLAPS

\* A u32 sum of the two lengths that equals a size of at least a header
\* has not wrapped.
LEMMA SumDidNotWrap ==
  ASSUME NEW h \in 0 .. Word - 1, NEW p \in 0 .. Word - 1, NEW n \in 0 .. Word - 1,
         n >= h, (h + p) % Word = n
  PROVE  h + p = n
<1>0. Word \in Nat \ {0} BY FirmwareAssumption
<1>1. CASE h + p < Word
  <2>1. (h + p) % Word = h + p BY <1>0, <1>1
  <2> QED BY <2>1
<1>2. CASE h + p >= Word
  <2>1. h + p - Word \in 0 .. Word - 1 BY <1>0, <1>2
  <2>2. (h + p) % Word = h + p - Word BY <1>0, <1>2, <2>1
  <2>3. p >= Word BY <1>0, <2>2
  <2> QED BY <1>0, <2>3
<1> QED BY <1>0, <1>1, <1>2

\* The file is a record of numbers.
LEMMA FileNumbers ==
  ASSUME NEW f \in Files
  PROVE  /\ f.size \in 0 .. Word - 1 /\ f.hdrLen \in 0 .. Word - 1
         /\ f.payloadLen \in 0 .. Word - 1 /\ f.sumOk \in BOOLEAN
         /\ Word \in Nat \ {0} /\ HdrLen \in Nat \ {0} /\ SecLen \in Nat \ {0}
BY FirmwareAssumption

\* The driver accepts what the console calls valid, and nothing else.
LEMMA AcceptedIsValid ==
  ASSUME NEW f \in Files
  PROVE  Accepted(f) <=> ConsoleValid(f)
<1>1. ASSUME Accepted(f) PROVE ConsoleValid(f)
  <2>1. f.hdrLen = HdrLen /\ f.size >= f.hdrLen /\ (f.hdrLen + f.payloadLen) % Word = f.size
    BY <1>1 DEF Accepted
  <2>2. f.hdrLen + f.payloadLen = f.size BY <2>1, FileNumbers, SumDidNotWrap
  <2> QED BY <1>1, <2>2 DEF Accepted, ConsoleValid
<1>2. ASSUME ConsoleValid(f) PROVE Accepted(f)
  <2>1. f.hdrLen + f.payloadLen = f.size BY <1>2 DEF ConsoleValid
  <2>2. (f.hdrLen + f.payloadLen) % Word = f.size BY <2>1, FileNumbers
  <2> QED BY <1>2, <2>2 DEF Accepted, ConsoleValid
<1> QED BY <1>1, <1>2

\* Stages past the verifier are those of a file it accepted.
Judged ==
  /\ file \in Files
  /\ Passed => Accepted(file)
  /\ stage = "refused" => ~Accepted(file)

\* Nothing has been judged before the image is there.
LEMMA JudgedInit == Init => Judged
BY DEF Init, Judged, Passed

\* Only the verifier passes or refuses a file.
LEMMA JudgedStep == Judged /\ [Next]_vars => Judged'
<1> SUFFICES ASSUME Judged, [Next]_vars PROVE Judged' OBVIOUS
<1> USE DEF Judged, Passed
<1>1. CASE Skip BY <1>1 DEF Skip
<1>2. CASE Request BY <1>2 DEF Request
<1>3. CASE Verify
  <2>1. file' = file BY <1>3 DEF Verify
  <2>2. CASE Accepted(file)
    <3>1. stage' = "walk" BY <1>3, <2>2 DEF Verify
    <3> QED BY <2>1, <2>2, <3>1 DEF Accepted
  <2>3. CASE ~Accepted(file)
    <3>1. stage' = "refused" BY <1>3, <2>3 DEF Verify
    <3> QED BY <2>1, <2>3, <3>1 DEF Accepted
  <2> QED BY <2>2, <2>3
<1>4. CASE WalkSection
  <2>1. file' = file /\ stage = "walk" /\ stage' \in {"walk", "upload"} BY <1>4 DEF WalkSection
  <2> QED BY <2>1 DEF Accepted
<1>5. CASE WalkOver BY <1>5 DEF WalkOver, Accepted
<1>6. CASE Upload BY <1>6 DEF Upload, Accepted
<1>7. CASE UNCHANGED vars BY <1>7 DEF vars, Accepted
<1> QED BY <1>1, <1>2, <1>3, <1>4, <1>5, <1>6, <1>7 DEF Next

\* The verdict holds at every later stage.
LEMMA JudgedAlways == Spec => []Judged
<1>1. Init => Judged BY JudgedInit
<1>2. Judged /\ [Next]_vars => Judged' BY JudgedStep
<1> QED BY <1>1, <1>2, PTL DEF Spec

\* What the driver goes on with is a header and its payload, whole, whatever
\* lengths the header claims and however they add up in 32 bits.
THEOREM PayloadCorrect == Spec => []PayloadIsRest
<1>1. Judged => PayloadIsRest
  BY AcceptedIsValid DEF Judged, PayloadIsRest, ConsoleValid
<1> QED BY <1>1, JudgedAlways, PTL

\* The console's verdict on a file is the driver's.
THEOREM VerdictsCorrect == Spec => []VerdictsAgree
<1>1. Judged => VerdictsAgree
  BY AcceptedIsValid DEF Judged, VerdictsAgree
<1> QED BY <1>1, JudgedAlways, PTL

---------------------------------------------------------------------------
(* The copy.                                                               *)

\* What a card and its parameters are made of.
LEMMA HostTypes ==
  ASSUME NEW h \in Hosts
  PROVE  /\ h.bars \in Bars /\ h.b \in BarIndex /\ h.bars[h.b].kind # "none"
         /\ h.fwOff \in 0 .. Word - 1
BY FirmwareAssumption

\* The image goes to a BAR that is mapped, and its length is a number.
LEMMA TargetTypes ==
  ASSUME NEW h \in Hosts
  PROVE  /\ Target(h) \in BarIndex /\ TargetLen(h) \in Nat
         /\ h.bars[Target(h)].kind # "none" /\ h.bars[Target(h)].len \in Nat
         /\ Chosen(h) => TargetLen(h) = h.bars[Target(h)].len
         /\ ~Chosen(h) => TargetLen(h) = WinBLen
<1>1. WinBLen \in Nat BY WindowsAssumption
<1>2. \A i \in BarIndex : h.bars[i].len \in Nat BY HostTypes DEF Bars
<1>3. CASE Chosen(h) BY <1>2, <1>3 DEF Chosen, Target, TargetLen
<1>4. CASE ~Chosen(h) BY <1>1, <1>2, <1>4, HostTypes DEF Target, TargetLen
<1> QED BY <1>3, <1>4

\* A copy is a stretch of its BAR, and ends before the length that was taken
\* for granted.
LEMMA CopyFits ==
  ASSUME NEW h \in Hosts, NEW n \in Nat
  PROVE  /\ Copy(h, n).bar = Target(h) /\ Copy(h, n).from = h.fwOff
         /\ Copy(h, n).len \in Nat
         /\ Copy(h, n) = [bar |-> Copy(h, n).bar, from |-> Copy(h, n).from, len |-> Copy(h, n).len]
         /\ Copy(h, n).len > 0 => h.fwOff + Copy(h, n).len <= TargetLen(h)
<1>1. h.fwOff \in Nat /\ TargetLen(h) \in Nat
  BY HostTypes, TargetTypes
<1>2. CASE h.fwOff + n <= TargetLen(h) BY <1>1, <1>2 DEF Copy
<1>3. CASE ~(h.fwOff + n <= TargetLen(h)) /\ h.fwOff < TargetLen(h) BY <1>1, <1>3 DEF Copy
<1>4. CASE ~(h.fwOff + n <= TargetLen(h)) /\ ~(h.fwOff < TargetLen(h)) BY <1>1, <1>4 DEF Copy
<1> QED BY <1>2, <1>3, <1>4

\* The types, with where the walk is and what was copied.
Loading ==
  /\ host \in Hosts /\ file \in Files
  /\ stage \in {"request", "verify", "walk", "upload", "skipped", "missing", "refused", "loaded"}
  /\ off \in Nat /\ (stage = "walk" => off >= HdrLen)
  /\ listed \subseteq DOMAIN file.sec
  /\ copied \in {NoCopy, Copy(host, file.size)}

\* Every step of the load keeps to it.
LEMMA LoadingStep == Loading /\ [Next]_vars => Loading'
<1> SUFFICES ASSUME Loading, [Next]_vars PROVE Loading'
  OBVIOUS
<1> USE DEF Loading
<1>0. file.size \in Nat /\ HdrLen \in Nat /\ SecLen \in Nat
  BY FileNumbers
<1>1. CASE Skip BY <1>1 DEF Skip
<1>2. CASE Request BY <1>2 DEF Request
<1>3. CASE Verify
  <2>1. CASE Accepted(file)
    <3>1. stage' = "walk" /\ off' = HdrLen /\ UNCHANGED <<host, file, listed, copied>> BY <1>3, <2>1 DEF Verify
    <3> HIDE <2>1
    <3> QED BY <1>0, <3>1
  <2>2. CASE ~Accepted(file)
    <3>1. stage' = "refused" /\ off' = off /\ UNCHANGED <<host, file, listed, copied>> BY <1>3, <2>2 DEF Verify
    <3> QED BY <3>1
  <2> QED BY <2>1, <2>2
<1>4. CASE WalkSection
  <2>1. off \in DOMAIN file.sec
    <3>1. DOMAIN file.sec = HdrLen .. file.size - SecLen BY FirmwareAssumption
    <3> QED BY <1>0, <1>4, <3>1 DEF WalkSection
  <2>2. /\ listed' = listed \cup {off} /\ UNCHANGED <<host, file, copied>>
        /\ stage = "walk" /\ stage' \in {"walk", "upload"} /\ off' \in {off, off + Step(file.sec[off])}
    BY <1>4 DEF WalkSection
  <2>3. Step(file.sec[off]) \in Nat
    <3>1. file.sec[off].dataOff \in Nat /\ file.sec[off].size \in Nat BY <2>1, FirmwareAssumption
    <3> QED BY <3>1, FileNumbers DEF Step
  <2> QED BY <1>0, <2>1, <2>2, <2>3
<1>5. CASE WalkOver BY <1>5 DEF WalkOver
<1>6. CASE Upload BY <1>6 DEF Upload
<1>7. CASE UNCHANGED vars BY <1>7 DEF vars
<1> QED BY <1>1, <1>2, <1>3, <1>4, <1>5, <1>6, <1>7 DEF Next

\* So at every moment.
LEMMA LoadingAlways == Spec => []Loading
<1>1. Init => Loading BY DEF Init, Loading
<1> QED BY <1>1, LoadingStep, PTL DEF Spec

\* Every variable keeps to its type: the walk lists offsets of section headers
\* that lie within the file, and what is copied has a length.
THEOREM FirmwareTypeCorrect == Spec => []TypeOK
<1>1. Loading => TypeOK
  <2> SUFFICES ASSUME Loading PROVE TypeOK
    OBVIOUS
  <2>1. NoCopy \in [bar : BarIndex \cup {None}, from : 0 .. Word - 1, len : Nat]
    BY FileNumbers DEF NoCopy, Loading
  <2>2. Copy(host, file.size) \in [bar : BarIndex \cup {None}, from : 0 .. Word - 1, len : Nat]
    BY FileNumbers, HostTypes, TargetTypes, CopyFits DEF Loading
  <2> QED BY <2>1, <2>2 DEF Loading, TypeOK
<1> QED BY <1>1, LoadingAlways, PTL

\* However long the image, and wherever pcie_fw_bar and pcie_fw_offset send it,
\* what is written stays in the BAR.
THEOREM CopyCorrect == Spec => []CopyStaysInBar
<1>1. Loading => CopyStaysInBar
  <2> SUFFICES ASSUME Loading, copied.len > 0
               PROVE  /\ host.bars[copied.bar].kind # "none"
                      /\ host.bars[copied.bar].len >= WinBLen \/ Chosen(host)
                           => copied.from + copied.len <= host.bars[copied.bar].len
    BY DEF CopyStaysInBar
  <2>1. copied = Copy(host, file.size)
    BY DEF Loading, NoCopy
  <2>2. file.size \in Nat BY FileNumbers DEF Loading
  <2>3. /\ copied.bar = Target(host) /\ copied.from = host.fwOff /\ copied.len \in Nat
        /\ host.fwOff + copied.len <= TargetLen(host)
    BY <2>1, <2>2, CopyFits DEF Loading
  <2>4. host.fwOff \in Nat /\ WinBLen \in Nat BY HostTypes, WindowsAssumption DEF Loading
  <2> QED BY <2>3, <2>4, TargetTypes DEF Loading
<1> QED BY <1>1, LoadingAlways, PTL

---------------------------------------------------------------------------
(* The sections.                                                           *)

\* Where section headers may begin, and the walk in unbounded integers.
Offsets(f) == HdrLen .. f.size
Ahead(f, o) == f.sec[o].dataOff + f.sec[o].size
Fits(f, o) == o + SecLen <= f.size
Goes(f, o) == Fits(f, o) /\ Ahead(f, o) # 0 /\ o + Ahead(f, o) <= f.size

\* from[o] is what the console lists from offset o on.
IsWalk(f, from) ==
  from = [o \in Offsets(f) |->
            IF o + SecLen > f.size THEN {}
            ELSE {o} \cup (IF Ahead(f, o) = 0 \/ o + Ahead(f, o) > f.size THEN {} ELSE from[o + Ahead(f, o)])]

\* What is reached from o: it is in every set that has o and goes on.
Closed(f, C) == \A o \in C : Goes(f, o) => o + Ahead(f, o) \in C
Reach(f, o) ==
  {p \in Offsets(f) : \A C \in SUBSET Offsets(f) : o \in C /\ Closed(f, C) => p \in C}

\* Numbers of a file at an offset where a section header fits.
LEMMA SectionNumbers ==
  ASSUME NEW f \in Files, NEW o \in Offsets(f), Fits(f, o)
  PROVE  /\ o \in DOMAIN f.sec /\ o \in Nat /\ f.size \in Nat
         /\ f.sec[o].dataOff \in Nat /\ f.sec[o].size \in Nat /\ Ahead(f, o) \in Nat
<1>1. f.size \in Nat /\ HdrLen \in Nat /\ SecLen \in Nat
  BY FileNumbers
<1>2. o \in HdrLen .. f.size - SecLen
  BY <1>1 DEF Offsets, Fits
<1>3. DOMAIN f.sec = HdrLen .. f.size - SecLen /\ f.sec[o].dataOff \in 0 .. Word - 1 /\ f.sec[o].size \in 0 .. Word - 1
  BY <1>2, FirmwareAssumption
<1>4. Word \in Nat BY FileNumbers
<1> QED BY <1>1, <1>2, <1>3, <1>4 DEF Ahead

\* An offset reaches itself and, if the walk goes on, what the next reaches.
LEMMA ReachUnfolds ==
  ASSUME NEW f \in Files, NEW o \in Offsets(f)
  PROVE  /\ ~Goes(f, o) => Reach(f, o) = {o}
         /\ Goes(f, o) => /\ o + Ahead(f, o) \in Offsets(f)
                          /\ Reach(f, o) = {o} \cup Reach(f, o + Ahead(f, o))
<1>1. o \in Reach(f, o)
  BY DEF Reach
<1>2. ASSUME ~Goes(f, o) PROVE Reach(f, o) = {o}
  <2>1. Closed(f, {o}) /\ {o} \in SUBSET Offsets(f) BY <1>2 DEF Closed
  <2>2. Reach(f, o) \subseteq {o} BY <2>1 DEF Reach
  <2> QED BY <1>1, <2>2
<1>3. ASSUME Goes(f, o)
      PROVE  /\ o + Ahead(f, o) \in Offsets(f)
             /\ Reach(f, o) = {o} \cup Reach(f, o + Ahead(f, o))
  <2> DEFINE n == o + Ahead(f, o)
             R == Reach(f, n)
  <2>1. n \in Offsets(f)
    BY <1>3, SectionNumbers, FileNumbers DEF Goes, Offsets
  <2>2. \A p \in R : p \in Reach(f, o)
    <3> SUFFICES ASSUME NEW p \in R, NEW C \in SUBSET Offsets(f), o \in C, Closed(f, C)
                 PROVE  p \in C
      BY DEF Reach
    <3>1. n \in C BY <1>3 DEF Closed
    <3> QED BY <3>1 DEF Reach
  <2>3. n \in R
    <3> HIDE DEF n
    <3> QED BY <2>1 DEF Reach
  <2>4. Closed(f, R)
    <3> SUFFICES ASSUME NEW q \in R, Goes(f, q)
                 PROVE  q + Ahead(f, q) \in R
      BY DEF Closed
    <3>1. q \in Offsets(f) BY DEF Reach
    <3>2. q + Ahead(f, q) \in Offsets(f) BY <3>1, SectionNumbers, FileNumbers DEF Goes, Offsets
    <3> HIDE DEF n
    <3>3. \A C \in SUBSET Offsets(f) : n \in C /\ Closed(f, C) => q + Ahead(f, q) \in C
      BY DEF Reach, Closed
    <3> QED BY <3>2, <3>3 DEF Reach
  <2>5. Closed(f, {o} \cup R) /\ {o} \cup R \in SUBSET Offsets(f)
    <3>1. R \subseteq Offsets(f) BY DEF Reach
    <3> HIDE DEF R
    <3> QED BY <2>3, <2>4, <3>1 DEF Closed
  <2>6. Reach(f, o) \subseteq {o} \cup R
    <3> HIDE DEF R
    <3> QED BY <2>5 DEF Reach
  <2> QED BY <1>1, <2>1, <2>2, <2>6
<1> QED BY <1>2, <1>3

\* The console's recursion defines something.
LEMMA WalkExists ==
  ASSUME NEW f \in Files
  PROVE  \E from : IsWalk(f, from)
<1> DEFINE g == [o \in Offsets(f) |-> {p \in Reach(f, o) : Fits(f, p)}]
<1>1. \A o \in Offsets(f) :
        g[o] = IF o + SecLen > f.size THEN {}
               ELSE {o} \cup (IF Ahead(f, o) = 0 \/ o + Ahead(f, o) > f.size THEN {} ELSE g[o + Ahead(f, o)])
  <2> SUFFICES ASSUME NEW o \in Offsets(f)
               PROVE  g[o] = IF o + SecLen > f.size THEN {}
                             ELSE {o} \cup (IF Ahead(f, o) = 0 \/ o + Ahead(f, o) > f.size THEN {} ELSE g[o + Ahead(f, o)])
    OBVIOUS
  <2>0. o + SecLen > f.size <=> ~Fits(f, o)
    BY FileNumbers DEF Fits, Offsets
  <2>1. CASE ~Fits(f, o)
    <3>1. Reach(f, o) = {o} BY <2>1, ReachUnfolds DEF Goes
    <3> QED BY <2>0, <2>1, <3>1
  <2>2. CASE Fits(f, o) /\ ~Goes(f, o)
    <3>1. Reach(f, o) = {o} BY <2>2, ReachUnfolds
    <3>2. Ahead(f, o) = 0 \/ o + Ahead(f, o) > f.size BY <2>2, SectionNumbers DEF Goes
    <3> QED BY <2>0, <2>2, <3>1, <3>2
  <2>3. CASE Goes(f, o)
    <3>1. o + Ahead(f, o) \in Offsets(f) /\ Reach(f, o) = {o} \cup Reach(f, o + Ahead(f, o))
      BY <2>3, ReachUnfolds
    <3>2. Fits(f, o) /\ ~(Ahead(f, o) = 0 \/ o + Ahead(f, o) > f.size)
      BY <2>3, SectionNumbers DEF Goes
    <3>3. g[o + Ahead(f, o)] = {p \in Reach(f, o + Ahead(f, o)) : Fits(f, p)} BY <3>1
    <3>4. g[o] = {p \in Reach(f, o) : Fits(f, p)} OBVIOUS
    <3> HIDE DEF g
    <3> QED BY <2>0, <3>1, <3>2, <3>3, <3>4
  <2> QED BY <2>1, <2>2, <2>3
<1>2. IsWalk(f, g)
  BY <1>1 DEF IsWalk
<1> QED BY <1>2

\* What the console lists from an offset on.
From(f) == CHOOSE from : IsWalk(f, from)

\* ConsoleSections is it from the first offset, and it unfolds.
LEMMA ConsoleUnfolds ==
  ASSUME NEW f \in Files
  PROVE  /\ ConsoleSections(f) = From(f)[HdrLen]
         /\ \A o \in Offsets(f) :
              /\ ~Fits(f, o) => From(f)[o] = {}
              /\ Fits(f, o) /\ ~Goes(f, o) => From(f)[o] = {o}
              /\ Goes(f, o) => From(f)[o] = {o} \cup From(f)[o + Ahead(f, o)]
<1>1. IsWalk(f, From(f)) BY WalkExists DEF From
<1>2. ConsoleSections(f) = From(f)[HdrLen]
  BY DEF ConsoleSections, From, IsWalk, Ahead, Offsets
<1>3. ASSUME NEW o \in Offsets(f)
      PROVE  /\ ~Fits(f, o) => From(f)[o] = {}
             /\ Fits(f, o) /\ ~Goes(f, o) => From(f)[o] = {o}
             /\ Goes(f, o) => From(f)[o] = {o} \cup From(f)[o + Ahead(f, o)]
  <2>1. From(f)[o] = IF o + SecLen > f.size THEN {}
                     ELSE {o} \cup (IF Ahead(f, o) = 0 \/ o + Ahead(f, o) > f.size THEN {} ELSE From(f)[o + Ahead(f, o)])
    BY <1>1 DEF IsWalk
  <2>2. o + SecLen > f.size <=> ~Fits(f, o)
    BY FileNumbers DEF Fits, Offsets
  <2>3. Fits(f, o) => (Ahead(f, o) = 0 \/ o + Ahead(f, o) > f.size <=> ~Goes(f, o))
    BY SectionNumbers DEF Goes
  <2>4. Goes(f, o) => Fits(f, o) BY DEF Goes
  <2> QED BY <2>1, <2>2, <2>3, <2>4
<1> QED BY <1>1, <1>2, <1>3

\* Lengths that add up below a word are added by the driver as they are.
Plain(o) == Ahead(file, o) < Word

\* The driver has listed what the console lists up to its offset.
ListedSoFar ==
  /\ stage \in {"request", "verify"} => listed = {}
  /\ (\A o \in listed : Plain(o)) =>
       /\ stage = "walk" =>
            ConsoleSections(file) = listed \cup (IF off <= file.size THEN From(file)[off] ELSE {})
       /\ stage \in {"upload", "loaded"} => ConsoleSections(file) = listed

\* A section more, or the end of the walk.
LEMMA ListedStep == ListedSoFar /\ Loading /\ Judged /\ [Next]_vars => ListedSoFar'
<1> SUFFICES ASSUME ListedSoFar, Loading, Judged, [Next]_vars PROVE ListedSoFar'
  OBVIOUS
<1>0. /\ file \in Files /\ file.size \in Nat /\ HdrLen \in Nat \ {0} /\ SecLen \in Nat \ {0}
      /\ off \in Nat /\ Word \in Nat \ {0}
  BY FileNumbers DEF Loading
<1>1. CASE Skip BY <1>1 DEF Skip, ListedSoFar
<1>2. CASE Request BY <1>2 DEF Request, ListedSoFar
<1>3. CASE Verify
  <2>1. listed = {} /\ listed' = {} /\ file' = file BY <1>3 DEF Verify, ListedSoFar
  <2>2. CASE Accepted(file)
    <3>1. stage' = "walk" /\ off' = HdrLen BY <1>3, <2>2 DEF Verify
    <3>2. HdrLen <= file.size BY <1>0, <2>2 DEF Accepted
    <3>3. ConsoleSections(file) = From(file)[HdrLen] BY <1>0, ConsoleUnfolds
    <3> QED BY <2>1, <3>1, <3>2, <3>3 DEF ListedSoFar
  <2>3. CASE ~Accepted(file)
    <3>1. stage' = "refused" BY <1>3, <2>3 DEF Verify
    <3> QED BY <2>1, <3>1 DEF ListedSoFar
  <2> QED BY <2>2, <2>3
<1>4. CASE WalkSection
  <2>0. /\ stage = "walk" /\ Fits(file, off) /\ listed' = listed \cup {off} /\ file' = file
        /\ stage' \in {"walk", "upload"}
    BY <1>4 DEF WalkSection, Fits
  <2>1. off \in Offsets(file) /\ off <= file.size
    BY <1>0, <2>0 DEF Loading, Offsets, Fits
  <2> SUFFICES ASSUME \A o \in listed' : Plain(o)'
               PROVE  /\ stage' = "walk" =>
                           ConsoleSections(file) = listed' \cup (IF off' <= file.size THEN From(file)[off'] ELSE {})
                      /\ stage' = "upload" => ConsoleSections(file) = listed'
    BY <2>0 DEF ListedSoFar
  <2>2. \A o \in listed' : Plain(o) BY <2>0 DEF Plain
  <2>3. ConsoleSections(file) = listed \cup From(file)[off]
    BY <2>0, <2>1, <2>2 DEF ListedSoFar
  <2>4. Step(file.sec[off]) = Ahead(file, off) /\ Ahead(file, off) \in Nat
    <3>1. Ahead(file, off) \in Nat BY <1>0, <2>0, <2>1, SectionNumbers
    <3>2. Ahead(file, off) < Word BY <2>0, <2>2 DEF Plain
    <3>3. Ahead(file, off) % Word = Ahead(file, off) BY <1>0, <3>1, <3>2
    <3> QED BY <3>1, <3>3 DEF Step, Ahead
  <2>5. CASE Ahead(file, off) = 0
    <3>1. stage' = "upload" BY <1>4, <2>4, <2>5 DEF WalkSection, Last
    <3>2. From(file)[off] = {off} BY <1>0, <2>0, <2>1, <2>5, ConsoleUnfolds DEF Goes
    <3> QED BY <2>0, <2>3, <3>1, <3>2
  <2>6. CASE Ahead(file, off) # 0
    <3>1. stage' = "walk" /\ off' = off + Ahead(file, off) BY <1>4, <2>0, <2>4, <2>6 DEF WalkSection, Last
    <3>2. CASE off' <= file.size
      <4>1. Goes(file, off) BY <2>0, <2>6, <3>1, <3>2 DEF Goes
      <4>2. From(file)[off] = {off} \cup From(file)[off'] BY <1>0, <2>1, <3>1, <4>1, ConsoleUnfolds
      <4> QED BY <2>0, <2>3, <3>1, <3>2, <4>2
    <3>3. CASE ~(off' <= file.size)
      <4>1. ~Goes(file, off) BY <3>1, <3>3 DEF Goes
      <4>2. From(file)[off] = {off} BY <1>0, <2>0, <2>1, <4>1, ConsoleUnfolds
      <4> QED BY <2>0, <2>3, <3>1, <3>3, <4>2
    <3> QED BY <3>2, <3>3
  <2> QED BY <2>5, <2>6
<1>5. CASE WalkOver
  <2>1. /\ stage = "walk" /\ stage' = "upload" /\ off + SecLen > file.size
        /\ UNCHANGED <<file, listed>>
    BY <1>5 DEF WalkOver
  <2>2. off <= file.size => From(file)[off] = {}
    <3> SUFFICES ASSUME off <= file.size PROVE From(file)[off] = {}
      OBVIOUS
    <3>1. off \in Offsets(file) /\ ~Fits(file, off) BY <1>0, <2>1 DEF Loading, Offsets, Fits
    <3> QED BY <1>0, <3>1, ConsoleUnfolds
  <2>3. ASSUME \A o \in listed : Plain(o) PROVE ConsoleSections(file) = listed
    BY <2>1, <2>2, <2>3 DEF ListedSoFar
  <2> QED BY <2>1, <2>3 DEF ListedSoFar, Plain
<1>6. CASE Upload BY <1>6 DEF Upload, ListedSoFar, Plain
<1>7. CASE UNCHANGED vars BY <1>7 DEF vars, ListedSoFar, Plain
<1> QED BY <1>1, <1>2, <1>3, <1>4, <1>5, <1>6, <1>7 DEF Next

\* For every list of sections, also one that runs past the end of the file or
\* stops short of it, the console's `--verify-fw` lists the sections that the
\* driver will, as long as none of their lengths wraps in 32 bits.
THEOREM SectionsCorrect == Spec => []SameSections
<1>1. Init => ListedSoFar BY DEF Init, ListedSoFar
<1>2. Spec => []ListedSoFar
  BY <1>1, ListedStep, LoadingAlways, JudgedAlways, PTL DEF Spec
<1>3. ListedSoFar => SameSections
  BY DEF ListedSoFar, SameSections, Plain, Ahead
<1> QED BY <1>2, <1>3, PTL

=============================================================================
