------------------------- MODULE TransportProofs -------------------------
(***************************************************************************)
(* Proofs about the stream engine of Transport, for every ring size,       *)
(* interrupt increment, set of geometries, rates, sources, apertures and   *)
(* pages. IInv is inductive; the safety properties follow from it.         *)
(***************************************************************************)
EXTENDS Transport, TLAPS

---------------------------------------------------------------------------
(* Quotients and remainders.                                               *)

\* Quotient and remainder of an integer by a positive one.
LEMMA DivMod ==
  ASSUME NEW a \in Int, NEW b \in Nat \ {0}
  PROVE  /\ a \div b \in Int
         /\ a % b \in 0 .. b - 1
         /\ a = b * (a \div b) + (a % b)
  OBVIOUS

\* A remainder is determined by any decomposition that has it in range.
LEMMA ModUnique ==
  ASSUME NEW b \in Nat \ {0}, NEW q \in Int, NEW r \in 0 .. b - 1
  PROVE  (b * q + r) % b = r
<1> DEFINE x == b * q + r
           k == x \div b
           s == x % b
<1>1. x \in Int /\ k \in Int /\ s \in 0 .. b - 1 /\ x = b * k + s
  BY DivMod
<1>2. b * (q - k) = s - r
  BY <1>1
<1>. HIDE DEF x, k, s
<1>3. q - k \in Int /\ s - r < b /\ s - r > -b
  BY <1>1
<1>4. ~(q - k >= 1)
  <2> SUFFICES ASSUME q - k >= 1 PROVE b * (q - k) >= b
    BY <1>2, <1>3
  <2> DEFINE m == q - k - 1
  <2>1. m \in Nat BY <1>3
  <2>2. b * (q - k) = b * m + b BY <1>1
  <2>3. b * m \in Nat BY <2>1
  <2> QED BY <2>2, <2>3
<1>5. ~(q - k <= -1)
  <2> SUFFICES ASSUME q - k <= -1 PROVE b * (q - k) <= -b
    BY <1>2, <1>3
  <2> DEFINE m == k - q - 1
  <2>1. m \in Nat BY <1>3, <1>1
  <2>2. b * (q - k) = -(b * m) - b BY <1>1
  <2>3. b * m \in Nat BY <2>1
  <2> QED BY <2>2, <2>3
<1>6. q = k BY <1>1, <1>4, <1>5
<1>7. s = r BY <1>1, <1>2, <1>6
<1> QED BY <1>7 DEF s, x

\* Reducing before an addition changes nothing: positions may be kept wrapped.
LEMMA ModAdd ==
  ASSUME NEW b \in Nat \ {0}, NEW x \in Int, NEW y \in Int
  PROVE  ((x % b) + y) % b = (x + y) % b
<1> DEFINE q == x \div b
           r == (x % b) + y
<1>1. q \in Int /\ x % b \in Int /\ r \in Int /\ x = b * q + (x % b) /\ x + y = b * q + r
  BY DivMod
<1>2. r \div b \in Int /\ r % b \in 0 .. b - 1 /\ r = b * (r \div b) + (r % b)
  BY <1>1, DivMod
<1> DEFINE u == r \div b
           v == r % b
<1>. HIDE DEF q, u, v
<1>3. x + y = b * (q + u) + v
  BY <1>1, <1>2 DEF u, v
<1>4. (b * (q + u) + v) % b = v
  <2>1. q + u \in Int /\ v \in 0 .. b - 1 BY <1>1, <1>2 DEF u, v
  <2> QED BY <2>1, ModUnique
<1> QED BY <1>3, <1>4 DEF v

\* A multiple of the modulus is one with nothing left over.
LEMMA ModZero ==
  ASSUME NEW b \in Nat \ {0}, NEW q \in Int
  PROVE  (b * q) % b = 0
<1>1. 0 \in 0 .. b - 1 /\ (b * q + 0) % b = 0
  BY ModUnique
<1>2. b * q + 0 = b * q
  OBVIOUS
<1> QED
  BY <1>1, <1>2

\* Steps of p from a multiple of p, around a buffer that holds whole p's,
\* land on multiples of p.
LEMMA StepsStayAligned ==
  ASSUME NEW p \in Nat \ {0}, NEW b \in Nat \ {0}, NEW x \in Nat, NEW n \in Nat,
         b % p = 0, x % p = 0
  PROVE  ((x + n * p) % b) % p = 0
<1> DEFINE m == b \div p
           k == x \div p
           y == x + n * p
           q == y \div b
           r == y % b
<1>1. m \in Int /\ b = p * m /\ k \in Int /\ x = p * k
  BY DivMod
<1>2. y \in Int /\ q \in Int /\ r \in Int /\ y = b * q + r
  BY DivMod
<1> HIDE DEF m, k, q, r
<1>3. r = p * (k + n - m * q)
  <2>1. y = p * (k + n)
    BY <1>1
  <2>2. b * q = p * (m * q)
    BY <1>1, <1>2
  <2>3. m * q \in Int
    BY <1>1, <1>2
  <2>4. r = p * (k + n) - p * (m * q)
    BY <1>2, <2>1, <2>2
  <2> QED
    BY <1>1, <2>3, <2>4
<1>4. k + n - m * q \in Int
  BY <1>1, <1>2
<1>5. r % p = 0
  BY <1>3, <1>4, ModZero
<1> QED
  BY <1>5 DEF r

---------------------------------------------------------------------------
(* The interrupt tick.                                                     *)

\* The whole periods in an accumulator, and what they leave.
LEMMA WholePeriodsIn ==
  ASSUME NEW a \in Nat, NEW p \in Nat \ {0}
  PROVE  a \div p \in Nat /\ a - (a \div p) * p \in 0 .. p - 1
<1>1. a \div p \in Int /\ a % p \in 0 .. p - 1 /\ a = p * (a \div p) + (a % p)
  BY DivMod
<1>2. a \div p \in Nat
  OBVIOUS
<1> QED
  BY <1>1, <1>2

\* The increment programmed for any family is a positive number of frames.
LEMMA PeriodIncrType == TypeOK => PeriodIncr \in Nat \ {0}
  BY TransportAssumption DEF TypeOK, PeriodIncr

\* A ticking stream is prepared with a legal geometry.
LEMMA TickingGeometry ==
  ASSUME TypeOK, FlagsMirrorCore, GeometryFrozen, NEW d \in Dir, Active(d)
  PROVE  /\ stream[d].period \in Nat \ {0}
         /\ stream[d].buffer \in Nat \ {0}
         /\ stream[d].period <= MaxPeriod
         /\ runtime[d].geo.period = stream[d].period
         /\ Pointer(d) = stream[d].pos_frames
  BY TransportAssumption
  DEF TypeOK, FlagsMirrorCore, GeometryFrozen, Active, Geometries, Pointer, Stream

\* What one tick leaves in the accumulator, and how many periods it copies.
LEMMA TickAccount ==
  ASSUME TypeOK, FlagsMirrorCore, GeometryFrozen, NEW d \in Dir, Ticking(d)
  PROVE  /\ Elapsed(d) \in Nat
         /\ stream[d].period_acc + PeriodIncr - Elapsed(d) * stream[d].period
              \in 0 .. stream[d].period - 1
<1>1. Active(d)
  BY DEF Ticking, FlagsMirrorCore, Active
<1> DEFINE a == stream[d].period_acc + PeriodIncr
           p == stream[d].period
<1>2. /\ stream[d].period_acc \in Nat /\ PeriodIncr \in Nat
      /\ a \in Nat /\ p \in Nat \ {0} /\ runtime[d].geo.period = p
  BY <1>1, TickingGeometry, PeriodIncrType DEF TypeOK, Stream
<1>3. Elapsed(d) = a \div p
  BY <1>2 DEF Elapsed
<1>4. a \div p \in Nat /\ a - (a \div p) * p \in 0 .. p - 1
  BY <1>2, WholePeriodsIn
<1> QED
  BY <1>2, <1>3, <1>4

\* Programming any rate leaves a family and a parameter in range.
LEMMA SetRateType ==
  ASSUME TypeOK, NEW rate
  PROVE  SetRate(rate) \in [family : 0 .. 2, rate : Nat, source : 0 .. 4, param : 0 .. 4]
<1>1. FamilyOf(rate) \in 0 .. 2 /\ 2 * FamilyOf(rate) \in 0 .. 4
  BY DEF FamilyOf
<1> QED
  BY <1>1 DEF TypeOK, SetRate

---------------------------------------------------------------------------
(* The invariant, action by action.                                        *)

\* Opening a direction keeps the invariant.
LEMMA OpenKeeps ==
  ASSUME IInv, NEW d \in Dir, Open(d)
  PROVE  IInv'
<1> USE DEF IInv
<1>1. runtime' \in [Dir -> Runtime]
  <2>1. runtime[d] \in Runtime
    BY DEF TypeOK
  <2>2. [runtime[d] EXCEPT !.state = "open"] \in Runtime
    BY <2>1 DEF Runtime, SubState
  <2> QED
    BY <2>2 DEF Open, TypeOK
<1>2. stream' \in [Dir -> Stream]
  <2>1. stream[d] \in Stream
    BY DEF TypeOK
  <2>2. [stream[d] EXCEPT !.substream = TRUE] \in Stream
    BY <2>1 DEF Stream
  <2> QED
    BY <2>2 DEF Open, TypeOK
<1>3. TypeOK'
  BY <1>1, <1>2 DEF Open, TypeOK
<1>4. FlagsMirrorCore'
  BY DEF Open, TypeOK, Stream, FlagsMirrorCore
<1>5. GeometryFrozen'
  BY DEF Open, TypeOK, Stream, GeometryFrozen, Active
<1>6. PendingIsSynced'
  BY DEF Open, TypeOK, PendingIsSynced
<1>7. EngineMatchesStreams'
  BY DEF Open, TypeOK, Stream, EngineMatchesStreams
<1>8. LeadIsExact' /\ CopyFollowsPointer'
  BY DEF Open, TypeOK, Stream, LeadIsExact, CopyFollowsPointer, Active, Pointer
<1> QED
  BY <1>3, <1>4, <1>5, <1>6, <1>7, <1>8

\* Renegotiating a geometry keeps it: a pending notification would have been
\* waited for by SyncStop.
LEMMA HwParamsKeeps ==
  ASSUME IInv, NEW d \in Dir, HwParams(d)
  PROVE  IInv'
<1> USE DEF IInv
<1>1. PICK g \in Geometries, r \in Rates :
        runtime' = [runtime EXCEPT ![d] = [state |-> "setup", geo |-> g,
                                           rate |-> r, stopped |-> FALSE]]
  BY DEF HwParams
<1>2. /\ runtime[d].state \in {"open", "setup", "prepared"}
      /\ SyncStop(d)
      /\ UNCHANGED <<stream, lead, clock, ctl, engine, page, raised, isr>>
  BY DEF HwParams
<1>3. runtime' \in [Dir -> Runtime]
  <2>1. g \in [period : Nat, buffer : Nat] /\ r \in Nat
    BY TransportAssumption DEF Geometries
  <2>2. [state |-> "setup", geo |-> g, rate |-> r, stopped |-> FALSE] \in Runtime
    BY <2>1 DEF Runtime, SubState
  <2> QED
    BY <1>1, <2>2 DEF TypeOK
<1>4. TypeOK'
  BY <1>2, <1>3 DEF TypeOK
<1>5. FlagsMirrorCore'
  BY <1>1, <1>2 DEF TypeOK, FlagsMirrorCore
<1>6. GeometryFrozen'
  BY <1>1, <1>2 DEF TypeOK, GeometryFrozen, Active
<1>7. PendingIsSynced'
  BY <1>1, <1>2 DEF TypeOK, PendingIsSynced, SyncStop, IsrIdle, Dir
<1>8. EngineMatchesStreams'
  BY <1>2 DEF EngineMatchesStreams
<1>9. LeadIsExact' /\ CopyFollowsPointer'
  BY <1>1, <1>2 DEF TypeOK, LeadIsExact, CopyFollowsPointer, Active, Pointer
<1> QED
  BY <1>4, <1>5, <1>6, <1>7, <1>8, <1>9

\* Programming the rate on prepare keeps it.
LEMMA PrepareRateKeeps ==
  ASSUME IInv, NEW d \in Dir, PrepareRate(d)
  PROVE  IInv'
<1> USE DEF IInv
<1>1. runtime' \in [Dir -> Runtime]
  <2>1. runtime[d] \in Runtime
    BY DEF TypeOK
  <2>2. [runtime[d] EXCEPT !.state = "preparing", !.stopped = FALSE] \in Runtime
    BY <2>1 DEF Runtime, SubState
  <2> QED
    BY <2>2 DEF PrepareRate, TypeOK
<1>2. TypeOK'
  <2>1. clock' \in [family : 0 .. 2, rate : Nat, source : 0 .. 4, param : 0 .. 4]
    BY SetRateType DEF PrepareRate, TypeOK
  <2> QED
    BY <1>1, <2>1 DEF PrepareRate, TypeOK
<1>3. FlagsMirrorCore'
  BY DEF PrepareRate, TypeOK, Runtime, FlagsMirrorCore
<1>4. GeometryFrozen'
  BY DEF PrepareRate, TypeOK, Runtime, GeometryFrozen, Active
<1>5. PendingIsSynced'
  BY DEF PrepareRate, TypeOK, PendingIsSynced, SyncStop, IsrIdle, Dir
<1>6. EngineMatchesStreams'
  BY DEF PrepareRate, EngineMatchesStreams
<1>7. LeadIsExact' /\ CopyFollowsPointer'
  BY DEF PrepareRate, TypeOK, Runtime, LeadIsExact, CopyFollowsPointer, Active, Pointer
<1> QED
  BY <1>2, <1>3, <1>4, <1>5, <1>6, <1>7

\* Recording the geometry and resetting the positions establishes the lead and
\* the copy position afresh.
LEMMA PrepareStreamKeeps ==
  ASSUME IInv, NEW d \in Dir, PrepareStream(d)
  PROVE  IInv'
<1> USE DEF IInv
<1>1. runtime[d] \in Runtime /\ stream[d] \in Stream /\ runtime[d].state = "preparing"
  BY DEF TypeOK, PrepareStream
<1>2. clock' \in [family : 0 .. 2, rate : Nat, source : 0 .. 4, param : 0 .. 4]
  BY <1>1 DEF PrepareStream, TypeOK, Runtime
<1>3. ~stream[d].running /\ runtime[d].geo \in Geometries
  BY <1>1 DEF FlagsMirrorCore, GeometryFrozen
<1>4. UNCHANGED <<ctl, engine, page, raised, isr>>
  BY DEF PrepareStream
<1>5. CASE d \in Apertures
  <2> DEFINE t == [stream[d] EXCEPT !.period = runtime[d].geo.period,
                     !.buffer = runtime[d].geo.buffer,
                     !.substream = TRUE, !.buf_pos = 0, !.ring_pos = 0,
                     !.pos_frames = 0, !.period_acc = 0]
  <2>1. /\ runtime' = [runtime EXCEPT ![d] = [@ EXCEPT !.state = "prepared"]]
        /\ stream' = [stream EXCEPT ![d] = t]
        /\ lead' = [lead EXCEPT ![d] = 0]
    BY <1>5 DEF PrepareStream
  <2>2. /\ t \in Stream /\ ~t.running /\ t.substream
        /\ t.period = runtime[d].geo.period /\ t.buffer = runtime[d].geo.buffer
        /\ t.buf_pos = 0 /\ t.pos_frames = 0 /\ t.period_acc = 0
    BY <1>1, <1>3 DEF Stream, Runtime
  <2>3. t.period \in Nat \ {0} /\ t.buffer \in Nat \ {0}
    BY <1>3, <2>2, TransportAssumption DEF Geometries
  <2> HIDE DEF t
  <2>4. [runtime[d] EXCEPT !.state = "prepared"] \in Runtime
    BY <1>1 DEF Runtime, SubState
  <2>5. TypeOK'
    BY <1>2, <1>4, <2>1, <2>2, <2>4 DEF TypeOK
  <2>6. FlagsMirrorCore'
    BY <1>1, <1>3, <2>1, <2>2 DEF TypeOK, Runtime, FlagsMirrorCore
  <2>7. GeometryFrozen'
    BY <1>1, <1>3, <2>1, <2>2 DEF TypeOK, Runtime, GeometryFrozen, Active
  <2>8. PendingIsSynced'
    BY <1>1, <1>4, <2>1 DEF TypeOK, PendingIsSynced
  <2>9. EngineMatchesStreams'
    BY <1>3, <1>4, <2>1, <2>2 DEF TypeOK, EngineMatchesStreams
  <2>10. LeadIsExact'
    BY <2>1, <2>2, <2>3 DEF TypeOK, Runtime, LeadIsExact, Active
  <2>11. CopyFollowsPointer'
    <3>1. (0 + 0) % t.buffer = 0
      BY <2>3
    <3>2. ASSUME NEW e \in Dir, Active(e)', e # d
          PROVE  Active(e) /\ stream'[e] = stream[e] /\ lead'[e] = lead[e]
      BY <2>1, <3>2 DEF TypeOK, Active
    <3>3. stream'[d] = t /\ lead'[d] = 0
      BY <2>1 DEF TypeOK
    <3> QED
      BY <3>1, <3>2, <3>3, <2>2, <2>3 DEF CopyFollowsPointer, Pointer
  <2> QED
    BY <2>5, <2>6, <2>7, <2>8, <2>9, <2>10, <2>11
<1>6. CASE d \notin Apertures
  <2>1. /\ runtime' = [runtime EXCEPT ![d] = [@ EXCEPT !.state = "setup"]]
        /\ UNCHANGED <<stream, lead>>
    BY <1>6 DEF PrepareStream
  <2>2. [runtime[d] EXCEPT !.state = "setup"] \in Runtime
    BY <1>1 DEF Runtime, SubState
  <2>3. TypeOK'
    BY <1>2, <1>4, <2>1, <2>2 DEF TypeOK
  <2>4. FlagsMirrorCore' /\ GeometryFrozen'
    BY <1>1, <1>3, <2>1 DEF TypeOK, Runtime, FlagsMirrorCore, GeometryFrozen, Active
  <2>5. PendingIsSynced' /\ EngineMatchesStreams'
    BY <1>1, <1>4, <2>1 DEF TypeOK, PendingIsSynced, EngineMatchesStreams
  <2>6. LeadIsExact' /\ CopyFollowsPointer'
    BY <1>1, <2>1 DEF TypeOK, Runtime, LeadIsExact, CopyFollowsPointer, Active, Pointer
  <2> QED
    BY <2>3, <2>4, <2>5, <2>6
<1> QED
  BY <1>5, <1>6

\* Starting keeps it: the prefill is exactly the lead of two periods.
LEMMA StartKeeps ==
  ASSUME IInv, NEW d \in Dir, Start(d)
  PROVE  IInv'
<1> USE DEF IInv
<1> DEFINE n == Prefill(d)
           s == stream[d]
           t == [Pushed(s, n) EXCEPT !.running = TRUE]
<1>1. /\ runtime[d] \in Runtime /\ s \in Stream /\ runtime[d].state = "prepared"
      /\ lead[d] \in Int /\ n \in 0 .. 2 /\ Active(d)
  BY DEF TypeOK, Start, Prefill, Active
<1>2. /\ s.period \in Nat \ {0} /\ s.buffer \in Nat \ {0} /\ s.substream
      /\ ~s.running /\ Pointer(d) = s.pos_frames
      /\ runtime[d].geo.period = s.period /\ runtime[d].geo.buffer = s.buffer
  BY <1>1, TickingGeometry DEF FlagsMirrorCore, GeometryFrozen
<1>3. /\ runtime' = [runtime EXCEPT ![d] = [@ EXCEPT !.state = "running"]]
      /\ stream' = [stream EXCEPT ![d] = t]
      /\ lead' = [lead EXCEPT ![d] = @ + n * s.period]
      /\ engine' = KickEngine(d)
      /\ UNCHANGED <<clock, ctl, raised, isr>>
  BY DEF Start
<1>4. n * s.period \in Nat /\ s.buf_pos + n * s.period \in Nat
      /\ s.ring_pos + n * s.period \in Nat
  BY <1>1, <1>2 DEF Stream
<1>5. /\ (s.buf_pos + n * s.period) % s.buffer \in Nat
      /\ (s.ring_pos + n * s.period) % RingFrames \in Nat
  BY <1>2, <1>4, TransportAssumption
<1>6. /\ t \in Stream /\ t.running /\ t.substream
      /\ t.period = s.period /\ t.buffer = s.buffer
      /\ t.pos_frames = s.pos_frames /\ t.period_acc = s.period_acc
      /\ t.buf_pos = (s.buf_pos + n * s.period) % s.buffer
  BY <1>1, <1>2, <1>5 DEF Pushed, Stream
<1>7. [runtime[d] EXCEPT !.state = "running"] \in Runtime
  BY <1>1 DEF Runtime, SubState
<1> HIDE DEF t
<1>8. TypeOK'
  <2>1. stream' \in [Dir -> Stream] /\ runtime' \in [Dir -> Runtime]
    BY <1>3, <1>6, <1>7 DEF TypeOK
  <2>2. lead' \in [Dir -> Int]
    BY <1>1, <1>3, <1>4 DEF TypeOK
  <2>3. engine' \in Nat
    BY <1>3 DEF TypeOK, KickEngine
  <2>4. page' \in Nat
    BY TransportAssumption DEF Start, Paged, TypeOK
  <2> QED
    BY <1>3, <2>1, <2>2, <2>3, <2>4 DEF TypeOK
<1>9. FlagsMirrorCore' /\ GeometryFrozen'
  BY <1>1, <1>2, <1>3, <1>6
  DEF TypeOK, Runtime, FlagsMirrorCore, GeometryFrozen, Active
<1>10. PendingIsSynced'
  BY <1>1, <1>3 DEF TypeOK, PendingIsSynced
<1>11. EngineMatchesStreams'
  BY <1>3, <1>6 DEF TypeOK, EngineMatchesStreams, KickEngine
<1>12. ASSUME NEW e \in Dir, Active(e)', e # d
       PROVE  Active(e) /\ stream'[e] = stream[e] /\ lead'[e] = lead[e]
  BY <1>3, <1>12 DEF TypeOK, Active
<1>13. stream'[d] = t /\ lead'[d] = lead[d] + n * s.period
  BY <1>3 DEF TypeOK
<1>14. LeadIsExact'
  <2>1. /\ s.period_acc < s.period
        /\ lead[d] = 0 - s.period_acc
    BY <1>1, <1>2 DEF LeadIsExact
  <2>2. n * s.period = IF d = "playback" THEN 2 * s.period ELSE 0
    BY <1>2 DEF Prefill
  <2>3. /\ t.period_acc < t.period
        /\ lead'[d] = (IF d = "playback" /\ t.running THEN 2 * t.period ELSE 0) - t.period_acc
    BY <1>1, <1>2, <1>6, <1>13, <2>1, <2>2 DEF Stream
  <2> QED
    BY <1>12, <1>13, <2>3 DEF LeadIsExact
<1>15. CopyFollowsPointer'
  <2>1. s.pos_frames \in Nat /\ s.pos_frames < s.buffer
        /\ s.buf_pos = (s.pos_frames + lead[d]) % s.buffer
    BY <1>1, <1>2 DEF CopyFollowsPointer, Stream
  <2>2. (((s.pos_frames + lead[d]) % s.buffer) + n * s.period) % s.buffer
          = (s.pos_frames + lead[d] + n * s.period) % s.buffer
    <3>1. /\ s.pos_frames + lead[d] \in Int /\ n * s.period \in Int
          /\ s.buffer \in Nat \ {0}
      BY <1>1, <1>2, <1>4, <2>1
    <3> QED
      BY <3>1, ModAdd
  <2>3. t.buf_pos = (t.pos_frames + lead'[d]) % t.buffer
    BY <1>1, <1>4, <1>6, <1>13, <2>1, <2>2
  <2>4. t.buffer # 0
    BY <1>2, <1>6
  <2> QED
    BY <1>6, <1>12, <1>13, <2>1, <2>3, <2>4 DEF CopyFollowsPointer, Pointer
<1> QED
  BY <1>8, <1>9, <1>10, <1>11, <1>14, <1>15

\* Both a stop by the application and one from inside the handler.
LEMMA StoppedKeeps ==
  ASSUME IInv, NEW d \in Dir, Stopped(d), UNCHANGED <<lead, clock, ctl, page, raised>>,
         isr' \in [pending : SUBSET Dir, calling : Dir \cup {"none"}],
         isr'.pending \cup {isr'.calling} \subseteq isr.pending \cup {isr.calling, "none"}
  PROVE  IInv'
<1> USE DEF IInv
<1>1. runtime[d] \in Runtime /\ stream[d] \in Stream /\ runtime[d].state = "running"
  BY DEF TypeOK, Stopped
<1>2. /\ runtime' = [runtime EXCEPT ![d] = [@ EXCEPT !.state = "setup", !.stopped = TRUE]]
      /\ stream' = [stream EXCEPT ![d] = [@ EXCEPT !.running = FALSE]]
      /\ engine' = EngineAfterStop(d)
  BY DEF Stopped
<1>3. TypeOK'
  <2>1. [runtime[d] EXCEPT !.state = "setup", !.stopped = TRUE] \in Runtime
    BY <1>1 DEF Runtime, SubState
  <2>2. [stream[d] EXCEPT !.running = FALSE] \in Stream
    BY <1>1 DEF Stream
  <2>3. engine' \in Nat
    BY <1>2 DEF EngineAfterStop, TypeOK
  <2> QED
    BY <1>2, <2>1, <2>2, <2>3 DEF TypeOK
<1>4. FlagsMirrorCore' /\ GeometryFrozen'
  BY <1>1, <1>2 DEF TypeOK, Runtime, Stream, FlagsMirrorCore, GeometryFrozen, Active
<1>5. PendingIsSynced'
  BY <1>1, <1>2 DEF TypeOK, Runtime, PendingIsSynced, Dir
<1>6. EngineMatchesStreams'
  BY <1>1, <1>2 DEF TypeOK, Stream, EngineMatchesStreams, EngineAfterStop
<1>7. LeadIsExact' /\ CopyFollowsPointer'
  BY <1>1, <1>2 DEF TypeOK, Runtime, LeadIsExact, CopyFollowsPointer, Active, Pointer
<1> QED
  BY <1>3, <1>4, <1>5, <1>6, <1>7

\* Closing keeps it.
LEMMA CloseKeeps ==
  ASSUME IInv, NEW d \in Dir, Close(d)
  PROVE  IInv'
<1> USE DEF IInv
<1>1. /\ runtime[d] \in Runtime /\ stream[d] \in Stream
      /\ runtime[d].state \in {"open", "setup", "prepared"} /\ SyncStop(d)
  BY DEF TypeOK, Close
<1>2. /\ runtime' = [runtime EXCEPT ![d] = [@ EXCEPT !.state = "closed", !.stopped = FALSE]]
      /\ stream' = [stream EXCEPT ![d] = [@ EXCEPT !.running = FALSE, !.substream = FALSE]]
      /\ engine' = EngineAfterStop(d)
      /\ UNCHANGED <<lead, clock, ctl, page, raised, isr>>
  BY DEF Close
<1>3. TypeOK'
  <2>1. [runtime[d] EXCEPT !.state = "closed", !.stopped = FALSE] \in Runtime
    BY <1>1 DEF Runtime, SubState
  <2>2. [stream[d] EXCEPT !.running = FALSE, !.substream = FALSE] \in Stream
    BY <1>1 DEF Stream
  <2>3. engine' \in Nat
    BY <1>2 DEF EngineAfterStop, TypeOK
  <2> QED
    BY <1>2, <2>1, <2>2, <2>3 DEF TypeOK
<1>4. FlagsMirrorCore' /\ GeometryFrozen'
  BY <1>1, <1>2 DEF TypeOK, Runtime, Stream, FlagsMirrorCore, GeometryFrozen, Active
<1>5. PendingIsSynced'
  BY <1>1, <1>2 DEF TypeOK, Runtime, PendingIsSynced, SyncStop, IsrIdle, Dir
<1>6. EngineMatchesStreams'
  BY <1>1, <1>2 DEF TypeOK, Stream, EngineMatchesStreams, EngineAfterStop, FlagsMirrorCore
<1>7. LeadIsExact' /\ CopyFollowsPointer'
  BY <1>1, <1>2 DEF TypeOK, Runtime, LeadIsExact, CopyFollowsPointer, Active, Pointer
<1> QED
  BY <1>3, <1>4, <1>5, <1>6, <1>7

\* Writes of the Sample Rate and Clock Source controls keep it.
LEMMA ControlKeeps ==
  ASSUME IInv,
         \/ \E r \in Rates : PutRate(r)
         \/ PutRateStore
         \/ \E c \in Sources : PutSource(c)
  PROVE  IInv'
<1> USE DEF IInv
<1>1. /\ UNCHANGED <<runtime, stream, lead, engine, page, raised, isr>>
      /\ ctl' \in Nat
  <2>1. CASE \E r \in Rates : PutRate(r)
    BY <2>1, TransportAssumption DEF PutRate
  <2>2. CASE PutRateStore
    BY <2>2 DEF PutRateStore
  <2>3. CASE \E c \in Sources : PutSource(c)
    BY <2>3 DEF PutSource, TypeOK
  <2> QED
    BY <2>1, <2>2, <2>3
<1>2. clock' \in [family : 0 .. 2, rate : Nat, source : 0 .. 4, param : 0 .. 4]
  BY SetRateType, TransportAssumption DEF PutRate, PutRateStore, PutSource, TypeOK
<1>3. TypeOK'
  BY <1>1, <1>2 DEF TypeOK
<1> QED
  BY <1>1, <1>3
  DEF FlagsMirrorCore, GeometryFrozen, PendingIsSynced, EngineMatchesStreams,
      LeadIsExact, CopyFollowsPointer, Active, Pointer

\* Raising an interrupt keeps it.
LEMMA CardRaiseKeeps ==
  ASSUME IInv, CardRaise
  PROVE  IInv'
<1> USE DEF IInv
<1>1. TypeOK'
  BY PeriodIncrType DEF CardRaise, TypeOK
<1> QED
  BY <1>1
  DEF CardRaise, FlagsMirrorCore, GeometryFrozen, PendingIsSynced,
      EngineMatchesStreams, LeadIsExact, CopyFollowsPointer, Active, Pointer

\* Choosing the next direction to notify keeps it.
LEMMA NotifyNextKeeps ==
  ASSUME IInv, NEW d \in Dir, NotifyNext(d)
  PROVE  IInv'
<1> USE DEF IInv
<1>1. TypeOK'
  BY DEF NotifyNext, TypeOK
<1>2. PendingIsSynced'
  BY DEF NotifyNext, TypeOK, PendingIsSynced, Dir
<1> QED
  BY <1>1, <1>2
  DEF NotifyNext, FlagsMirrorCore, GeometryFrozen,
      EngineMatchesStreams, LeadIsExact, CopyFollowsPointer, Active, Pointer

\* A notification keeps it, whether or not it stops the substream.
LEMMA PeriodElapsedKeeps ==
  ASSUME IInv, NEW d \in Dir, PeriodElapsed(d)
  PROVE  IInv'
<1> USE DEF IInv
<1>1. /\ isr' \in [pending : SUBSET Dir, calling : Dir \cup {"none"}]
      /\ isr'.pending \cup {isr'.calling} \subseteq isr.pending \cup {isr.calling, "none"}
      /\ UNCHANGED <<lead, clock, ctl, page, raised>>
  BY DEF PeriodElapsed, TypeOK
<1>2. CASE Stopped(d)
  BY <1>1, <1>2, StoppedKeeps
<1>3. CASE UNCHANGED <<runtime, stream, engine>>
  <2>1. TypeOK' /\ PendingIsSynced'
    BY <1>1, <1>3 DEF TypeOK, PendingIsSynced, Dir
  <2> QED
    BY <1>1, <1>3, <2>1
    DEF FlagsMirrorCore, GeometryFrozen, EngineMatchesStreams, LeadIsExact,
        CopyFollowsPointer, Active, Pointer
<1> QED
  BY <1>2, <1>3 DEF PeriodElapsed

\* One direction through one tick, whether it ticks or not.
LEMMA TickedStream ==
  ASSUME IInv, NEW d \in Dir, Ticking(d)
  PROVE  /\ Ticked(d) \in Stream
         /\ Ticked(d).running /\ Ticked(d).substream
         /\ Ticked(d).period = stream[d].period /\ Ticked(d).buffer = stream[d].buffer
         /\ Ticked(d).period_acc = stream[d].period_acc + PeriodIncr
                                      - Elapsed(d) * stream[d].period
         /\ Ticked(d).pos_frames = (stream[d].pos_frames + PeriodIncr) % stream[d].buffer
         /\ Ticked(d).buf_pos = (stream[d].buf_pos + Elapsed(d) * stream[d].period)
                                   % stream[d].buffer
<1> USE DEF IInv
<1> DEFINE s == stream[d]
           n == Elapsed(d)
<1>1. s \in Stream /\ s.running /\ s.substream /\ Active(d)
  BY DEF TypeOK, Ticking, FlagsMirrorCore, Active
<1>2. /\ s.period \in Nat \ {0} /\ s.buffer \in Nat \ {0}
      /\ runtime[d].geo.period = s.period
  BY <1>1, TickingGeometry
<1>3. n \in Nat /\ PeriodIncr \in Nat /\ s.period_acc + PeriodIncr - n * s.period \in Nat
  BY TickAccount, PeriodIncrType, <1>2
<1>4. /\ s.pos_frames + PeriodIncr \in Nat /\ s.buf_pos + n * s.period \in Nat
      /\ s.ring_pos + n * s.period \in Nat
  <2>1. n * s.period \in Nat
    BY <1>2, <1>3
  <2> QED
    BY <1>1, <1>3, <2>1 DEF Stream
<1>5. /\ (s.pos_frames + PeriodIncr) % s.buffer \in Nat
      /\ (s.buf_pos + n * s.period) % s.buffer \in Nat
      /\ (s.ring_pos + n * s.period) % RingFrames \in Nat
  BY <1>2, <1>4, TransportAssumption
<1>6. Ticked(d) = Pushed([s EXCEPT !.pos_frames = (@ + PeriodIncr) % s.buffer,
                                   !.period_acc = @ + PeriodIncr - n * s.period], n)
  BY <1>2 DEF Ticked
<1> HIDE DEF n
<1> QED
  BY <1>1, <1>3, <1>5, <1>6 DEF Pushed, Stream, n

\* An acknowledged interrupt keeps it: each direction that ticks advances its
\* pointer and copies whole periods, and the accumulator holds the difference.
LEMMA IrqAckKeeps ==
  ASSUME IInv, IrqAck
  PROVE  IInv'
<1> USE DEF IInv
<1>1. /\ stream' = [e \in Dir |-> Ticked(e)]
      /\ lead' = [e \in Dir |-> IF Ticking(e)
                                THEN lead[e] - PeriodIncr + Elapsed(e) * stream[e].period
                                ELSE lead[e]]
      /\ isr' = [isr EXCEPT !.pending = {e \in Dir : Elapsed(e) > 0}]
      /\ isr.calling = "none" /\ raised' = FALSE
      /\ UNCHANGED <<runtime, clock, ctl, engine>>
  BY DEF IrqAck, IsrIdle
<1>2. ASSUME NEW e \in Dir, ~Ticking(e)
      PROVE  stream'[e] = stream[e] /\ lead'[e] = lead[e] /\ Elapsed(e) = 0
  BY <1>1, <1>2 DEF Ticked, Elapsed
<1>3. ASSUME NEW e \in Dir, Ticking(e)
      PROVE  /\ stream'[e] \in Stream /\ stream[e] \in Stream
             /\ stream'[e].running /\ stream'[e].substream
             /\ stream[e].running /\ stream[e].substream
             /\ stream'[e].period = stream[e].period
             /\ stream'[e].buffer = stream[e].buffer
             /\ stream[e].period \in Nat \ {0} /\ stream[e].buffer \in Nat \ {0}
             /\ runtime[e].state = "running" /\ Active(e)
  <2>1. stream[e] \in Stream /\ runtime[e].state = "running"
    BY <1>3 DEF Ticking, FlagsMirrorCore, TypeOK
  <2>2. Active(e)
    BY <2>1 DEF Active
  <2> QED
    BY <1>1, <1>3, <2>1, <2>2, TickedStream, TickingGeometry DEF Ticking
<1>4. ASSUME NEW e \in Dir, Ticking(e)
      PROVE  /\ Elapsed(e) \in Nat /\ PeriodIncr \in Nat /\ lead[e] \in Int
             /\ Elapsed(e) * stream[e].period \in Nat
             /\ lead'[e] = lead[e] - PeriodIncr + Elapsed(e) * stream[e].period
  <2>1. Elapsed(e) \in Nat /\ PeriodIncr \in Nat
    BY <1>4, TickAccount, PeriodIncrType
  <2>2. Elapsed(e) * stream[e].period \in Nat
    BY <2>1, <1>3, <1>4
  <2> QED
    BY <1>1, <1>4, <2>1, <2>2 DEF TypeOK
<1>5. TypeOK'
  <2>1. ASSUME NEW e \in Dir PROVE stream'[e] \in Stream /\ lead'[e] \in Int
    <3>1. CASE Ticking(e)
      BY <1>3, <1>4, <3>1
    <3>2. CASE ~Ticking(e)
      BY <1>2, <3>2 DEF TypeOK
    <3> QED
      BY <3>1, <3>2
  <2>2. stream' \in [Dir -> Stream] /\ lead' \in [Dir -> Int]
    BY <1>1, <2>1
  <2>3. page' \in Nat
    <3>1. ASSUME NEW e \in Dir PROVE Paged(e) \in Nat
      BY TransportAssumption DEF Paged, TypeOK
    <3>2. page' \in {Paged("capture"), Paged("playback"), page}
      BY DEF IrqAck
    <3>3. "capture" \in Dir /\ "playback" \in Dir /\ page \in Nat
      BY DEF Dir, TypeOK
    <3> QED
      BY <3>1, <3>2, <3>3
  <2>4. isr' \in [pending : SUBSET Dir, calling : Dir \cup {"none"}]
    BY <1>1 DEF TypeOK
  <2> QED
    BY <1>1, <2>2, <2>3, <2>4 DEF TypeOK
<1>6. FlagsMirrorCore' /\ GeometryFrozen'
  BY <1>1, <1>2, <1>3 DEF FlagsMirrorCore, GeometryFrozen, Active
<1>7. PendingIsSynced'
  <2>1. ASSUME NEW e \in Dir, e \in isr'.pending \cup {isr'.calling}
        PROVE  runtime[e].state = "running"
    <3>1. Elapsed(e) > 0
      BY <1>1, <2>1 DEF TypeOK, Dir
    <3>2. Ticking(e)
      BY <1>2, <3>1
    <3> QED
      BY <1>3, <3>2
  <2> QED
    BY <1>1, <2>1 DEF PendingIsSynced
<1>8. EngineMatchesStreams'
  <2>1. \A e \in Dir : stream'[e].running <=> stream[e].running
    BY <1>2, <1>3
  <2> QED
    BY <1>1, <2>1 DEF EngineMatchesStreams
<1>9. LeadIsExact'
  <2> SUFFICES ASSUME NEW e \in Dir, Active(e)
               PROVE  /\ stream'[e].period_acc < stream'[e].period
                      /\ lead'[e] = (IF e = "playback" /\ stream'[e].running
                                    THEN 2 * stream'[e].period ELSE 0)
                                   - stream'[e].period_acc
    BY <1>1 DEF LeadIsExact, Active
  <2>1. CASE ~Ticking(e)
    BY <1>2, <2>1 DEF LeadIsExact
  <2>2. CASE Ticking(e)
    <3> DEFINE p == stream[e].period
               a == stream[e].period_acc
               m == Elapsed(e) * p
    <3>1. /\ stream'[e].period_acc = a + PeriodIncr - m
          /\ a + PeriodIncr - m \in 0 .. p - 1
      BY <1>1, <2>2, TickedStream, TickAccount
    <3>2. lead[e] = (IF e = "playback" THEN 2 * p ELSE 0) - a
      BY <1>3, <2>2 DEF LeadIsExact
    <3>3. p \in Nat /\ a \in Nat /\ m \in Nat /\ PeriodIncr \in Nat
          /\ lead'[e] = lead[e] - PeriodIncr + m
      BY <1>3, <1>4, <2>2 DEF Stream
    <3>4. stream'[e].period = p /\ stream'[e].running
      BY <1>3, <2>2
    <3> HIDE DEF m, a, p
    <3> QED
      BY <3>1, <3>2, <3>3, <3>4
  <2> QED
    BY <2>1, <2>2
<1>10. CopyFollowsPointer'
  <2> SUFFICES ASSUME NEW e \in Dir, Active(e)
               PROVE  /\ Pointer(e)' < stream'[e].buffer
                      /\ stream'[e].buf_pos = (Pointer(e)' + lead'[e]) % stream'[e].buffer
    BY <1>1 DEF CopyFollowsPointer, Active
  <2>1. CASE ~Ticking(e)
    BY <1>2, <2>1 DEF CopyFollowsPointer, Pointer
  <2>2. CASE Ticking(e)
    <3> DEFINE b == stream[e].buffer
               x == stream[e].pos_frames
               m == Elapsed(e) * stream[e].period
               i == PeriodIncr
               l == lead[e]
    <3>1. /\ b \in Nat \ {0} /\ x \in Nat /\ m \in Nat /\ i \in Nat /\ l \in Int
          /\ lead'[e] = l - i + m
      BY <1>3, <1>4, <2>2 DEF Stream
    <3>2. /\ stream'[e].pos_frames = (x + i) % b
          /\ stream'[e].buf_pos = (stream[e].buf_pos + m) % b
          /\ stream'[e].buffer = b /\ stream'[e].substream
      BY <1>1, <2>2, TickedStream
    <3>3. stream[e].buf_pos = (x + l) % b
      BY <1>3, <2>2, TickingGeometry DEF CopyFollowsPointer
    <3>4. Pointer(e)' = (x + i) % b
      BY <3>1, <3>2 DEF Pointer
    <3> HIDE DEF b, x, m, i, l
    <3>5. (x + i) % b \in 0 .. b - 1
      BY <3>1
    <3>6. (((x + l) % b) + m) % b = ((x + l) + m) % b
      <4>1. x + l \in Int /\ m \in Int
        BY <3>1
      <4> QED
        BY <3>1, <4>1, ModAdd
    <3>7. (((x + i) % b) + (l - i + m)) % b = ((x + i) + (l - i + m)) % b
      <4>1. x + i \in Int /\ l - i + m \in Int
        BY <3>1
      <4> QED
        BY <3>1, <4>1, ModAdd
    <3>8. (x + l) + m = (x + i) + (l - i + m)
      BY <3>1
    <3> QED
      BY <3>1, <3>2, <3>3, <3>4, <3>5, <3>6, <3>7, <3>8
  <2> QED
    BY <2>1, <2>2
<1> QED
  BY <1>5, <1>6, <1>7, <1>8, <1>9, <1>10

---------------------------------------------------------------------------
(* The theorems.                                                           *)

\* Every reachable state of the stream engine satisfies the invariant.
THEOREM Invariance == Spec => []IInv
<1>1. Init => IInv
  <2> SUFFICES ASSUME Init PROVE IInv
    OBVIOUS
  <2>1. TypeOK
    <3>1. runtime \in [Dir -> Runtime]
      <4>1. [state |-> "closed", geo |-> [period |-> 0, buffer |-> 0],
             rate |-> 0, stopped |-> FALSE] \in Runtime
        BY DEF Runtime, SubState
      <4> QED
        BY <4>1 DEF Init
    <3>2. stream \in [Dir -> Stream]
      BY DEF Init, Stream
    <3>3. lead \in [Dir -> Int] /\ isr \in [pending : SUBSET Dir, calling : Dir \cup {"none"}]
      BY DEF Init
    <3>4. clock \in [family : 0 .. 2, rate : Nat, source : 0 .. 4, param : 0 .. 4]
      BY DEF Init
    <3>5. ctl \in Nat /\ page \in Nat /\ raised \in BOOLEAN
      <4>1. ctl = 0 /\ page = 0 /\ raised = FALSE
        BY DEF Init
      <4> QED
        BY <4>1
    <3>6. engine \in Nat
      <4>1. engine = 0
        BY DEF Init
      <4> QED
        BY <4>1
    <3> QED
      BY <3>1, <3>2, <3>3, <3>4, <3>5, <3>6 DEF TypeOK
  <2>2. \A d \in Dir : /\ runtime[d].state = "closed"
                       /\ ~stream[d].running /\ ~stream[d].substream
    BY DEF Init
  <2>3. FlagsMirrorCore /\ GeometryFrozen
    BY <2>2 DEF FlagsMirrorCore, GeometryFrozen, Active
  <2>4. PendingIsSynced
    BY DEF Init, PendingIsSynced, Dir
  <2>5. EngineMatchesStreams /\ LeadIsExact /\ CopyFollowsPointer
    BY <2>2 DEF Init, EngineMatchesStreams, LeadIsExact, CopyFollowsPointer, Active
  <2> QED
    BY <2>1, <2>3, <2>4, <2>5 DEF IInv
<1>2. IInv /\ [Next]_vars => IInv'
  <2> SUFFICES ASSUME IInv, [Next]_vars
               PROVE  IInv'
    OBVIOUS
  <2>1. ASSUME NEW d \in Dir, Open(d) PROVE IInv'
    BY <2>1, OpenKeeps
  <2>2. ASSUME NEW d \in Dir, HwParams(d) PROVE IInv'
    BY <2>2, HwParamsKeeps
  <2>3. ASSUME NEW d \in Dir, PrepareRate(d) PROVE IInv'
    BY <2>3, PrepareRateKeeps
  <2>4. ASSUME NEW d \in Dir, PrepareStream(d) PROVE IInv'
    BY <2>4, PrepareStreamKeeps
  <2>5. ASSUME NEW d \in Dir, Start(d) PROVE IInv'
    BY <2>5, StartKeeps
  <2>6. ASSUME NEW d \in Dir, Stop(d) PROVE IInv'
    <3>1. /\ isr' \in [pending : SUBSET Dir, calling : Dir \cup {"none"}]
          /\ isr'.pending \cup {isr'.calling} \subseteq isr.pending \cup {isr.calling, "none"}
      BY <2>6 DEF Stop, IInv, TypeOK
    <3> QED
      BY <2>6, <3>1, StoppedKeeps DEF Stop
  <2>7. ASSUME NEW d \in Dir, Close(d) PROVE IInv'
    BY <2>7, CloseKeeps
  <2>8. ASSUME NEW d \in Dir, NotifyNext(d) PROVE IInv'
    BY <2>8, NotifyNextKeeps
  <2>9. ASSUME NEW d \in Dir, PeriodElapsed(d) PROVE IInv'
    BY <2>9, PeriodElapsedKeeps
  <2>10. ASSUME \/ \E r \in Rates : PutRate(r)
                \/ PutRateStore
                \/ \E c \in Sources : PutSource(c)
         PROVE  IInv'
    BY <2>10, ControlKeeps
  <2>11. CASE CardRaise
    BY <2>11, CardRaiseKeeps
  <2>12. CASE IrqAck
    BY <2>12, IrqAckKeeps
  <2>13. CASE UNCHANGED vars
    BY <2>13 DEF vars, IInv, TypeOK, FlagsMirrorCore, GeometryFrozen, PendingIsSynced,
       EngineMatchesStreams, LeadIsExact, CopyFollowsPointer, Active, Pointer
  <2> QED
    BY <2>1, <2>2, <2>3, <2>4, <2>5, <2>6, <2>7, <2>8, <2>9, <2>10, <2>11,
       <2>12, <2>13 DEF Next
<1> QED
  BY <1>1, <1>2, PTL DEF Spec

\* Types hold in every reachable state.
THEOREM TypeCorrect == Spec => []TypeOK
  BY Invariance, PTL DEF IInv

\* The card is enabled exactly while a direction runs.
THEOREM EngineCorrect == Spec => []EngineMatchesStreams
  BY Invariance, PTL DEF IInv

\* Double buffering is exact at every interrupt, for every period and increment.
THEOREM LeadCorrect == Spec => []LeadIsExact
  BY Invariance, PTL DEF IInv

\* Copies and pointer stay in step around the buffer.
THEOREM CopyCorrect == Spec => []CopyFollowsPointer
  BY Invariance, PTL DEF IInv

\* What is written ahead of the card fits in the aperture ring.
THEOREM RingCorrect == Spec => []RingNeverLapped
<1>1. IInv => RingNeverLapped
  <2> SUFFICES ASSUME IInv, NEW d \in Dir, Active(d)
               PROVE  lead[d] <= RingFrames
    BY DEF RingNeverLapped
  <2>1. /\ stream[d].period \in Nat \ {0} /\ stream[d].period <= MaxPeriod
        /\ stream[d].period_acc \in Nat
    BY TickingGeometry DEF IInv, TypeOK, Stream
  <2>2. 2 * stream[d].period <= RingFrames
    BY <2>1, TransportAssumption DEF MaxPeriod
  <2> QED
    BY <2>1, <2>2, TransportAssumption DEF IInv, LeadIsExact
<1> QED
  BY <1>1, Invariance, PTL

\* Period notifications are for the run that completed the period.
THEOREM ElapsedCorrect == Spec => []ElapsedIsCurrent
<1>1. IInv => ElapsedIsCurrent
  BY DEF IInv, ElapsedIsCurrent, PendingIsSynced, FlagsMirrorCore
<1> QED
  BY <1>1, Invariance, PTL

\* No late interrupt moves a stopped substream.
THEOREM StopCorrect == Spec => NoTickAfterStop
<1> DEFINE Still == \A d \in Dir :
             ~stream[d].running /\ runtime[d].state \notin {"preparing", "prepared"} =>
               /\ stream'[d].pos_frames = stream[d].pos_frames
               /\ stream'[d].buf_pos = stream[d].buf_pos
<1>1. IInv /\ [Next]_vars => Still
  <2> SUFFICES ASSUME IInv, [Next]_vars, NEW d \in Dir, ~stream[d].running,
                      runtime[d].state \notin {"preparing", "prepared"}
               PROVE  /\ stream'[d].pos_frames = stream[d].pos_frames
                      /\ stream'[d].buf_pos = stream[d].buf_pos
    OBVIOUS
  <2>1. stream \in [Dir -> Stream]
    BY DEF IInv, TypeOK
  <2>2. ASSUME NEW e \in Dir,
               \/ Open(e) \/ Start(e) \/ Stop(e) \/ Close(e) \/ PeriodElapsed(e)
        PROVE  /\ stream'[d].pos_frames = stream[d].pos_frames
               /\ stream'[d].buf_pos = stream[d].buf_pos
    <3>1. CASE e = d
      BY <2>1, <2>2, <3>1 DEF Open, Start, Stop, Stopped, Close, PeriodElapsed, Stream
    <3>2. CASE e # d
      BY <2>1, <2>2, <3>2 DEF Open, Start, Stop, Stopped, Close, PeriodElapsed
    <3> QED
      BY <3>1, <3>2
  <2>3. ASSUME NEW e \in Dir, PrepareStream(e)
        PROVE  stream'[d] = stream[d]
    BY <2>1, <2>3 DEF PrepareStream
  <2>4. ASSUME IrqAck
        PROVE  stream'[d] = stream[d]
    BY <2>4 DEF IrqAck, Ticked, Ticking
  <2>5. ASSUME \/ \E e \in Dir : HwParams(e) \/ PrepareRate(e) \/ NotifyNext(e)
               \/ \E r \in Rates : PutRate(r)
               \/ PutRateStore
               \/ \E c \in Sources : PutSource(c)
               \/ CardRaise
               \/ UNCHANGED vars
        PROVE  stream' = stream
    BY <2>5 DEF HwParams, PrepareRate, NotifyNext, PutRate, PutRateStore, PutSource,
                CardRaise, vars
  <2> QED
    BY <2>2, <2>3, <2>4, <2>5 DEF Next
<1>2. IInv /\ [Next]_vars => [Still]_vars
  BY <1>1
<1> QED
  BY <1>2, Invariance, PTL DEF Spec, NoTickAfterStop

---------------------------------------------------------------------------
(* Copies inside the host buffer.                                          *)

\* Copying whole periods keeps a copy's start aligned, and the ring offset one.
LEMMA PushedKeepsAligned ==
  ASSUME NEW s \in Stream, NEW n \in Nat, s.period # 0, s.buffer # 0
  PROVE  /\ Pushed(s, n).ring_pos < RingFrames
         /\ Pushed(s, n).period = s.period /\ Pushed(s, n).buffer = s.buffer
         /\ s.buffer % s.period = 0 /\ s.buf_pos % s.period = 0
              => Pushed(s, n).buf_pos % s.period = 0
<1>1. /\ s.period \in Nat \ {0} /\ s.buffer \in Nat \ {0}
      /\ s.buf_pos \in Nat /\ s.ring_pos \in Nat /\ RingFrames \in Nat \ {0}
  BY TransportAssumption DEF Stream
<1>2. /\ Pushed(s, n).buf_pos = (s.buf_pos + n * s.period) % s.buffer
      /\ Pushed(s, n).ring_pos = (s.ring_pos + n * s.period) % RingFrames
      /\ Pushed(s, n).period = s.period /\ Pushed(s, n).buffer = s.buffer
  BY DEF Pushed, Stream
<1>3. n * s.period \in Nat
  BY <1>1
<1>4. (s.ring_pos + n * s.period) % RingFrames < RingFrames
  <2>1. s.ring_pos + n * s.period \in Int
    BY <1>1, <1>3
  <2> QED
    BY <1>1, <2>1, DivMod
<1> QED
  BY <1>1, <1>2, <1>4, StepsStayAligned

\* Every step keeps the copies aligned.
LEMMA AlignedKeeps ==
  ASSUME IInv, CopiesAligned, [Next]_vars
  PROVE  CopiesAligned'
<1> DEFINE Good(s) == /\ s.ring_pos < RingFrames
                      /\ s.buffer % s.period = 0 => s.buf_pos % s.period = 0
<1> SUFFICES ASSUME NEW d \in Dir, Active(d)'
             PROVE  Good(stream'[d])
  BY DEF CopiesAligned
<1>1. /\ TypeOK /\ FlagsMirrorCore /\ GeometryFrozen
      /\ stream[d] \in Stream /\ stream \in [Dir -> Stream] /\ runtime \in [Dir -> Runtime]
  BY DEF IInv, TypeOK
<1>2. Active(d) => Good(stream[d]) /\ stream[d].period # 0 /\ stream[d].buffer # 0
  BY <1>1, TickingGeometry DEF CopiesAligned
<1>3. ASSUME PrepareStream(d)
      PROVE  Good(stream'[d])
  <2>1. d \in Apertures
    BY <1>1, <1>3 DEF PrepareStream, Active, Runtime
  <2>2. stream'[d].ring_pos = 0 /\ stream'[d].buf_pos = 0
        /\ stream'[d].period = runtime[d].geo.period
    <3>1. stream'[d] = [stream[d] EXCEPT
            !.period = runtime[d].geo.period, !.buffer = runtime[d].geo.buffer,
            !.substream = TRUE, !.buf_pos = 0, !.ring_pos = 0,
            !.pos_frames = 0, !.period_acc = 0]
      BY <1>1, <1>3, <2>1 DEF PrepareStream
    <3> QED
      BY <1>1, <3>1 DEF Stream
  <2>3. runtime[d].geo \in Geometries
    BY <1>1, <1>3 DEF PrepareStream, GeometryFrozen
  <2>4. runtime[d].geo.period \in Nat \ {0}
    BY <2>3, TransportAssumption DEF Geometries
  <2> QED
    BY <2>2, <2>4, TransportAssumption
<1>4. ASSUME Start(d)
      PROVE  Good(stream'[d])
  <2>1. Active(d) /\ stream'[d] = [Pushed(stream[d], Prefill(d)) EXCEPT !.running = TRUE]
    BY <1>1, <1>4 DEF Start, Active
  <2>2. Prefill(d) \in Nat
    BY DEF Prefill
  <2> DEFINE t == Pushed(stream[d], Prefill(d))
  <2>3. Good(t)
    BY <1>1, <1>2, <2>1, <2>2, PushedKeepsAligned
  <2>4. /\ stream'[d].ring_pos = t.ring_pos /\ stream'[d].buf_pos = t.buf_pos
        /\ stream'[d].period = t.period /\ stream'[d].buffer = t.buffer
    BY <1>1, <2>1 DEF Pushed, Stream
  <2> QED
    BY <2>3, <2>4
<1>5. ASSUME IrqAck
      PROVE  Good(stream'[d])
  <2>1. Active(d) /\ stream'[d] = Ticked(d)
    BY <1>5 DEF IrqAck, Active
  <2>2. CASE ~Ticking(d)
    BY <1>2, <2>1, <2>2 DEF Ticked
  <2>3. CASE Ticking(d)
    <3> DEFINE u == [stream[d] EXCEPT
                       !.pos_frames = (@ + PeriodIncr) % stream[d].buffer,
                       !.period_acc = @ + PeriodIncr - Elapsed(d) * runtime[d].geo.period]
    <3>1. stream'[d] = Pushed(u, Elapsed(d))
      BY <2>1, <2>3 DEF Ticked
    <3>2. Elapsed(d) \in Nat
      BY <1>1, <2>3, TickAccount
    <3>3. /\ u.period = stream[d].period /\ u.buffer = stream[d].buffer
          /\ u.buf_pos = stream[d].buf_pos
      BY <1>1 DEF Stream
    <3>4. u \in Stream
      <4>1. runtime[d].geo.period = stream[d].period /\ stream[d].buffer \in Nat \ {0}
        BY <1>1, <2>1, TickingGeometry
      <4>2. stream[d].period_acc + PeriodIncr - Elapsed(d) * stream[d].period \in Nat
        <5>1. stream[d].period \in Nat
          BY <1>1 DEF Stream
        <5> QED
          BY <1>1, <2>3, <5>1, TickAccount
      <4>3. (stream[d].pos_frames + PeriodIncr) % stream[d].buffer \in Nat
        <5>1. stream[d].pos_frames \in Nat /\ PeriodIncr \in Nat
          BY <1>1, PeriodIncrType DEF Stream
        <5> QED
          BY <4>1, <5>1
      <4> QED
        BY <1>1, <4>1, <4>2, <4>3 DEF Stream
    <3> HIDE DEF u
    <3> QED
      BY <1>2, <2>1, <3>1, <3>2, <3>3, <3>4, PushedKeepsAligned
  <2> QED
    BY <2>2, <2>3
<1>6. ASSUME NEW e \in Dir,
             \/ Open(e) \/ HwParams(e) \/ PrepareRate(e) \/ Stop(e) \/ Close(e)
             \/ NotifyNext(e) \/ PeriodElapsed(e)
             \/ (e # d /\ (PrepareStream(e) \/ Start(e)))
      PROVE  Good(stream'[d])
  <2>1. /\ Active(d)
        /\ stream'[d].ring_pos = stream[d].ring_pos /\ stream'[d].buf_pos = stream[d].buf_pos
        /\ stream'[d].period = stream[d].period /\ stream'[d].buffer = stream[d].buffer
    <3>1. CASE e = d
      BY <1>1, <1>6, <3>1
      DEF Open, HwParams, PrepareRate, Stop, Stopped, Close, NotifyNext, PeriodElapsed,
          Active, Stream, Runtime
    <3>2. CASE e # d
      BY <1>1, <1>6, <3>2
      DEF Open, HwParams, PrepareRate, Stop, Stopped, Close, NotifyNext, PeriodElapsed,
          PrepareStream, Start, Active
    <3> QED
      BY <3>1, <3>2
  <2> QED
    BY <1>2, <2>1
<1>7. ASSUME \/ \E r \in Rates : PutRate(r)
             \/ PutRateStore
             \/ \E c \in Sources : PutSource(c)
             \/ CardRaise
             \/ UNCHANGED vars
      PROVE  Good(stream'[d])
  BY <1>2, <1>7 DEF PutRate, PutRateStore, PutSource, CardRaise, vars, Active
<1> QED
  BY <1>3, <1>4, <1>5, <1>6, <1>7 DEF Next

\* With whole periods in a buffer, every copy stays inside it, wherever the
\* ring wraps.
THEOREM CopiesCorrect == Spec => []CopiesStayInBuffer
<1>1. Init => CopiesAligned
  BY DEF Init, CopiesAligned, Active
<1>2. IInv /\ CopiesAligned /\ [Next]_vars => CopiesAligned'
  BY AlignedKeeps
<1>3. IInv /\ CopiesAligned => CopiesStayInBuffer
  <2> SUFFICES ASSUME IInv, CopiesAligned, NEW d \in Dir, Active(d),
                      stream[d].buffer % stream[d].period = 0
               PROVE  CopyFits(stream[d])
    BY DEF CopiesStayInBuffer
  <2> DEFINE p == stream[d].period
             b == stream[d].buffer
             x == stream[d].buf_pos
             f == FirstPiece(stream[d])
  <2>1. /\ p \in Nat \ {0} /\ b \in Nat \ {0} /\ x \in Nat /\ stream[d].ring_pos \in Nat
        /\ stream[d].ring_pos < RingFrames /\ x % p = 0 /\ b % p = 0
    BY TickingGeometry DEF IInv, TypeOK, CopiesAligned, Stream
  <2>2. f \in Nat /\ f <= p
    BY <2>1, TransportAssumption DEF FirstPiece
  <2>3. x < b
    <3> DEFINE y == (Pointer(d) + lead[d]) % b
    <3>1. x = y
      BY DEF IInv, CopyFollowsPointer
    <3>2. Pointer(d) + lead[d] \in Int
      BY TickingGeometry DEF IInv, TypeOK, Stream
    <3>3. y \in 0 .. b - 1
      BY <2>1, <3>2, DivMod
    <3> HIDE DEF y
    <3> QED
      BY <2>1, <3>1, <3>3
  <2> HIDE DEF p, b, x, f
  <2>4. x + p <= b
    <3> DEFINE m == b \div p
               k == x \div p
    <3>1. m \in Int /\ b = p * m /\ k \in Int /\ x = p * k
      BY <2>1, DivMod
    <3> HIDE DEF m, k
    <3>2. m - k >= 1
      <4>1. p * (m - k) > 0
        BY <2>1, <2>3, <3>1
      <4>2. m - k \in Int
        BY <3>1
      <4>3. CASE m - k <= 0
        <5>1. p * (k - m) \in Nat
          BY <2>1, <3>1, <4>3
        <5>2. p * (m - k) = -(p * (k - m))
          BY <2>1, <3>1
        <5> QED
          BY <4>1, <5>1, <5>2
      <4> QED
        BY <4>2, <4>3
    <3>3. p * (m - k - 1) \in Nat
      BY <2>1, <3>1, <3>2
    <3>4. b - x - p = p * (m - k - 1)
      BY <2>1, <3>1
    <3>5. b - x - p >= 0
      BY <3>3, <3>4
    <3> QED
      BY <2>1, <3>5
  <2>5. x + f <= b /\ ((x + f) % b) + (p - f) <= b
    <3>1. CASE f = p
      BY <2>1, <2>2, <2>4, <3>1
    <3>2. CASE f < p
      <4>1. x + f \in 0 .. b - 1
        BY <2>1, <2>2, <2>4, <3>2
      <4>2. (x + f) % b = x + f
        BY <2>1, <4>1
      <4> QED
        BY <2>1, <2>2, <2>4, <4>2
    <3> QED
      BY <2>1, <2>2, <3>1, <3>2
  <2> QED
    BY <2>5 DEF CopyFits, p, b, x, f
<1> QED
  BY <1>1, <1>2, <1>3, Invariance, PTL DEF Spec
=============================================================================
