------------------------------ MODULE Firmware ------------------------------
(***************************************************************************)
(* Firmware of a PCIe card: motu424_hw_load_firmware() requests the image, *)
(* verifies its container, lists its sections and copies it into a BAR.    *)
(* The studio console inspects the same file with a verifier of its own    *)
(* (verify_firmware_file), translated here as a function of the file.      *)
(***************************************************************************)
EXTENDS Windows

CONSTANTS
  Hosts,    \* cards and parameters: [bars, b, pcie, skip, fwBar, fwOff]
  Files,    \* images: [size, hdrLen, payloadLen, sumOk, sec]
  HdrLen,   \* MOTU424_HDEXPRESS_HDR_LEN
  SecLen,   \* sizeof(struct hdexpress_section_hdr)
  Word      \* 2^32: a u32 holds values below it

\* b is window B as motu424_hw_init() has just assigned it: Bringup promises
\* that it is mapped (WindowIsMapped).
ASSUME FirmwareAssumption ==
  /\ HdrLen \in Nat \ {0} /\ SecLen \in Nat \ {0} /\ Word \in Nat \ {0}
  /\ \A h \in Hosts :
       /\ h.bars \in Bars /\ h.b \in BarIndex /\ h.bars[h.b].kind # "none" /\ h.fwBar \in Int
       /\ h.pcie \in BOOLEAN /\ h.skip \in BOOLEAN /\ h.fwOff \in 0 .. Word - 1
  /\ \A f \in Files :
       /\ f.size \in 0 .. Word - 1 /\ f.hdrLen \in 0 .. Word - 1
       /\ f.payloadLen \in 0 .. Word - 1 /\ f.sumOk \in BOOLEAN
       /\ f.sec \in [HdrLen .. f.size - SecLen ->
                       [dataOff : 0 .. Word - 1, size : 0 .. Word - 1]]

VARIABLES
  host,
  file,    \* sumOk: the bytes behind the header add up to its checksum
  stage,   \* request, verify, walk, upload; skipped, missing, refused, loaded
  off,     \* the walk's offset
  listed,  \* offsets of the sections it logged
  copied   \* what went to the card: [bar, from, len]

vars == <<host, file, stage, off, listed, copied>>

---------------------------------------------------------------------------
(* The driver's verifier.                                                  *)

\* The early returns of motu424_pcie_verify_firmware(), in u32 arithmetic.
AcceptedAnySize(f) ==
  f.hdrLen = HdrLen /\ (f.hdrLen + f.payloadLen) % Word = f.size /\ f.sumOk
AcceptedAnySum(f) ==
  f.size >= HdrLen /\ f.hdrLen = HdrLen /\ (f.hdrLen + f.payloadLen) % Word = f.size
Accepted(f) ==
  /\ f.size >= HdrLen
  /\ f.hdrLen = HdrLen
  /\ (f.hdrLen + f.payloadLen) % Word = f.size
  /\ f.sumOk

\* What the walk adds to its offset at a section.
StepBySize(sec) == sec.size % Word
Step(sec) == (sec.dataOff + sec.size) % Word

\* A section that covers nothing ends the walk.
NeverLast(sec) == FALSE
Last(sec) == Step(sec) = 0

---------------------------------------------------------------------------
(* Where the image goes.                                                   *)

\* The BAR named by pcie_fw_bar if it is mapped, or else window B; and how much
\* may be written there.
Chosen(h) == h.fwBar \in BarIndex /\ h.bars[h.fwBar].kind # "none"
Target(h) == IF Chosen(h) THEN h.fwBar ELSE h.b
TargetLen(h) == IF Chosen(h) THEN h.bars[h.fwBar].len ELSE WinBLen

\* Whole if it fits, otherwise its head.
CopyUnguarded(h, size) ==
  [bar |-> Target(h), from |-> h.fwOff,
   len |-> IF h.fwOff + size <= TargetLen(h) THEN size ELSE TargetLen(h) - h.fwOff]
CopyWhole(h, size) == [bar |-> Target(h), from |-> h.fwOff, len |-> size]
Copy(h, size) ==
  [bar |-> Target(h), from |-> h.fwOff,
   len |-> IF h.fwOff + size <= TargetLen(h) THEN size
           ELSE IF h.fwOff < TargetLen(h) THEN TargetLen(h) - h.fwOff ELSE 0]

NoCopy == [bar |-> None, from |-> 0, len |-> 0]

---------------------------------------------------------------------------
(* motu424_hw_load_firmware().                                             *)

Init ==
  /\ host \in Hosts
  /\ file \in Files
  /\ stage = "request"
  /\ off = 0
  /\ listed = {}
  /\ copied = NoCopy

\* Classic cards configure themselves; skip_fw asks for none.
Skip ==
  /\ stage = "request" /\ (~host.pcie \/ host.skip)
  /\ stage' = "skipped"
  /\ UNCHANGED <<host, file, off, listed, copied>>

\* request_firmware().
Request ==
  /\ stage = "request" /\ host.pcie /\ ~host.skip
  /\ stage' \in {"missing", "verify"}
  /\ UNCHANGED <<host, file, off, listed, copied>>

Verify ==
  /\ stage = "verify"
  /\ IF Accepted(file) THEN stage' = "walk" /\ off' = HdrLen
     ELSE stage' = "refused" /\ off' = off
  /\ UNCHANGED <<host, file, listed, copied>>

WalkSection ==
  /\ stage = "walk" /\ off + SecLen <= file.size
  /\ listed' = listed \cup {off}
  /\ IF Last(file.sec[off]) THEN stage' = "upload" /\ off' = off
     ELSE stage' = stage /\ off' = off + Step(file.sec[off])
  /\ UNCHANGED <<host, file, copied>>

WalkOver ==
  /\ stage = "walk" /\ off + SecLen > file.size
  /\ stage' = "upload"
  /\ UNCHANGED <<host, file, off, listed, copied>>

\* motu424_pcie_upload_firmware(); fw_loaded is set whatever was copied.
Upload ==
  /\ stage = "upload"
  /\ copied' = Copy(host, file.size)
  /\ stage' = "loaded"
  /\ UNCHANGED <<host, file, off, listed>>

Next == Skip \/ Request \/ Verify \/ WalkSection \/ WalkOver \/ Upload

Spec == Init /\ [][Next]_vars

\* The thread that probes the card goes on.
FairSpec == Spec /\ WF_vars(Next)

---------------------------------------------------------------------------
(* The console's verifier, in unbounded integers. A file whose checksum is *)
(* wrong is walked all the same.                                           *)

ConsoleValid(f) ==
  /\ f.size >= HdrLen
  /\ f.hdrLen = HdrLen
  /\ f.hdrLen + f.payloadLen = f.size
  /\ f.sumOk

ConsoleSections(f) ==
  LET step(o) == f.sec[o].dataOff + f.sec[o].size
      from[o \in HdrLen .. f.size] ==
        IF o + SecLen > f.size THEN {}
        ELSE {o} \cup (IF step(o) = 0 \/ o + step(o) > f.size THEN {} ELSE from[o + step(o)])
  IN  from[HdrLen]

---------------------------------------------------------------------------
(* Properties.                                                             *)

Passed == stage \in {"walk", "upload", "loaded"}

TypeOK ==
  /\ host \in Hosts /\ file \in Files
  /\ stage \in {"request", "verify", "walk", "upload", "skipped", "missing", "refused", "loaded"}
  /\ off \in Nat
  /\ listed \subseteq DOMAIN file.sec
  /\ copied \in [bar : BarIndex \cup {None}, from : 0 .. Word - 1, len : Nat]

\* The driver adds the two lengths of the header in 32 bits and still accepts
\* a file only if what follows the header is the payload: the bytes summed
\* are bytes of the file.
PayloadIsRest == Passed => HdrLen + file.payloadLen = file.size

\* The console's `--verify-fw` says beforehand what the driver will say.
VerdictsAgree ==
  /\ Passed => ConsoleValid(file)
  /\ stage = "refused" => ~ConsoleValid(file)

\* And it lists the same sections, unless one on the way is so long that the
\* driver's 32-bit sum wraps.
SameSections ==
  stage \in {"upload", "loaded"}
  /\ (\A o \in listed : file.sec[o].dataOff + file.sec[o].size < Word)
  => listed = ConsoleSections(file)

\* The copy stays in the BAR it goes to, chosen or found, if window B is as
\* long as the driver takes it to be.
CopyStaysInBar ==
  copied.len > 0 =>
    /\ host.bars[copied.bar].kind # "none"
    /\ host.bars[copied.bar].len >= WinBLen \/ Chosen(host)
         => copied.from + copied.len <= host.bars[copied.bar].len

\* The walk over the sections ends whatever they say, also where the sum of a
\* section's lengths wraps to nothing: probe does not hang on a file.
LoadEnds == stage = "verify" ~> stage \in {"refused", "loaded"}

=============================================================================
