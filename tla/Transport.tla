----------------------------- MODULE Transport -----------------------------
(***************************************************************************)
(* The kernel driver's stream engine: the PCM callbacks of motu424_pcm.c,  *)
(* the PIO ring, rate programming and interrupt accounting of motu424_hw.c *)
(* and the interrupt handler of motu424_main.c, as they interleave on two  *)
(* substreams, one interrupt line and one mixer-control thread.            *)
(*                                                                         *)
(* An action is one critical section under chip->lock together with what   *)
(* its thread does before it next releases control; the places where a     *)
(* handler runs without the lock between two sections are separate steps.  *)
(* Positions and sizes of a direction are in one unit, its frame. The code *)
(* counts ring and buffer positions in bytes, and the chunk that ends at   *)
(* the ring's end need not end on a frame: every byte count is a frame     *)
(* count times the frame size but the ring's, so a direction scaled by its *)
(* frame size, with a ring of that many bytes, is an instance as well.     *)
(***************************************************************************)
EXTENDS Integers

CONSTANTS
  RingFrames,  \* size of one direction's aperture ring (MOTU424_RING_BYTES)
  BaseIncr,    \* frames per interrupt of the 1x family (0x10)
  Requests,    \* buffer geometries applications ask for: [period, buffer]
  Rates,       \* sample rates applications and the control ask for
  Sources,     \* indices of the Clock Source control in use
  Apertures,   \* directions whose aperture address was supplied
  PageOf,      \* 4 MB window-B page of each direction's aperture
  HasPort      \* does the card expose the I/O-port bridge?

Dir == {"playback", "capture"}

ASSUME TransportAssumption ==
  /\ RingFrames \in Nat \ {0}
  /\ BaseIncr \in Nat \ {0}
  /\ Requests \subseteq [period : Nat \ {0}, buffer : Nat \ {0}]
  /\ Rates \subseteq Nat \ {0}
  /\ Sources \subseteq 0 .. 4
  /\ Apertures \subseteq Dir
  /\ PageOf \in [Dir -> Nat]
  /\ HasPort \in BOOLEAN

VARIABLES
  runtime,  \* per direction, what the ALSA core keeps: substream state,
            \*   negotiated geometry and rate, and its stop_operating mark
  stream,   \* chip->playback and chip->capture
  lead,     \* history: frames copied so far minus frames the pointer advanced
  clock,    \* chip->family, chip->rate, mixer.clock_source, AREG_PARAM
  ctl,      \* rate a Sample Rate write has yet to store again, 0 if none
  engine,   \* kicks (AREG_ENABLE, port CTRL and STROBE) since the card was
            \*   last disabled: 0 while it is
  page,     \* the port's window-B page-select register
  raised,   \* has the card an interrupt pending? (the port's STATUS bit)
  isr       \* the interrupt handler: directions still to notify, and the
            \*   one whose snd_pcm_period_elapsed() is about to be called

vars == <<runtime, stream, lead, clock, ctl, engine, page, raised, isr>>

---------------------------------------------------------------------------
(* Rates, geometries and the initial state.                                *)

\* The rate switch of motu424_hw_set_rate().
FamilyOf(rate) == IF rate <= 48000 THEN 0 ELSE IF rate <= 96000 THEN 1 ELSE 2

\* chip->period_incr: 0x10 << (2 * family).
PeriodIncr == BaseIncr * (IF clock.family = 0 THEN 1 ELSE IF clock.family = 1 THEN 4 ELSE 16)

\* MOTU424_MAX_PERIOD_BYTES: half the ring, for double buffering.
MaxPeriodWholeRing == RingFrames
MaxPeriod == RingFrames \div 2

\* The geometries motu424_pcm_hw lets the ALSA core settle on.
Geometries ==
  {g \in Requests : g.period <= MaxPeriod /\ 2 * g.period <= g.buffer}

\* Substream states of the ALSA core; "preparing" lies between the two
\* critical sections of motu424_pcm_prepare(). A stopped, drained or xrun
\* substream is back in "setup": it must be prepared before it can start.
SubState == {"closed", "open", "setup", "preparing", "prepared", "running"}

Runtime == [state : SubState, geo : [period : Nat, buffer : Nat], rate : Nat,
            stopped : BOOLEAN]

\* struct motu424_stream.
Stream == [substream : BOOLEAN, running : BOOLEAN, period : Nat, buffer : Nat,
           buf_pos : Nat, ring_pos : Nat, pos_frames : Nat, period_acc : Nat]

\* chip as kzalloc'ed by snd_devm_card_new() and set by motu424_hw_init().
Init ==
  /\ runtime = [d \in Dir |->
       [state |-> "closed", geo |-> [period |-> 0, buffer |-> 0],
        rate |-> 0, stopped |-> FALSE]]
  /\ stream = [d \in Dir |->
       [substream |-> FALSE, running |-> FALSE, period |-> 0, buffer |-> 0,
        buf_pos |-> 0, ring_pos |-> 0, pos_frames |-> 0, period_acc |-> 0]]
  /\ lead = [d \in Dir |-> 0]
  /\ clock = [family |-> 0, rate |-> 48000, source |-> 0, param |-> 0]
  /\ ctl = 0
  /\ engine = 0
  /\ page = 0
  /\ raised = FALSE
  /\ isr = [pending |-> {}, calling |-> "none"]

---------------------------------------------------------------------------
(* The PIO ring.                                                           *)

\* n runs of motu424_push_period(): the host and ring positions advance by n
\* periods, each around its own buffer.
PushedOnRing(s, n) ==
  [s EXCEPT !.buf_pos = (@ + n * s.period) % RingFrames,
            !.ring_pos = (@ + n * s.period) % RingFrames]
PushedToStart(s, n) ==
  [s EXCEPT !.buf_pos = IF @ + n * s.period >= s.buffer THEN 0 ELSE @ + n * s.period,
            !.ring_pos = (@ + n * s.period) % RingFrames]
Pushed(s, n) ==
  [s EXCEPT !.buf_pos = (@ + n * s.period) % s.buffer,
            !.ring_pos = (@ + n * s.period) % RingFrames]

\* Window-B page after an access to direction d's aperture.
Paged(d) == IF HasPort THEN PageOf[d] ELSE page

---------------------------------------------------------------------------
(* PCM callbacks.                                                          *)

IsrIdle == isr.pending = {} /\ isr.calling = "none"

\* snd_pcm_sync_stop(): after a stop, the core waits with synchronize_irq()
\* on card->sync_irq before it re-parameterises or closes the substream.
NoSyncIrq(d) == TRUE
SyncStop(d) == runtime[d].stopped => IsrIdle

\* motu424_pcm_open().
Open(d) ==
  /\ runtime[d].state = "closed"
  /\ runtime' = [runtime EXCEPT ![d].state = "open"]
  /\ stream' = [stream EXCEPT ![d].substream = TRUE]
  /\ UNCHANGED <<lead, clock, ctl, engine, page, raised, isr>>

\* The core negotiates a geometry and a rate; each substream's rate is its own.
HwParams(d) ==
  /\ runtime[d].state \in {"open", "setup", "prepared"}
  /\ SyncStop(d)
  /\ \E g \in Geometries, r \in Rates :
       runtime' = [runtime EXCEPT ![d] = [state |-> "setup", geo |-> g,
                                          rate |-> r, stopped |-> FALSE]]
  /\ UNCHANGED <<stream, lead, clock, ctl, engine, page, raised, isr>>

\* motu424_hw_set_rate(), the section under the lock: both directions share
\* the one increment. AREG_PARAM gets 2 * family.
SetRate(rate) == [clock EXCEPT !.family = FamilyOf(rate), !.param = 2 * FamilyOf(rate)]

\* motu424_pcm_prepare() up to the end of that section.
PrepareRate(d) ==
  /\ runtime[d].state \in {"setup", "prepared"}
  /\ SyncStop(d)
  /\ runtime' = [runtime EXCEPT ![d].state = "preparing", ![d].stopped = FALSE]
  /\ clock' = SetRate(runtime[d].rate)
  /\ UNCHANGED <<stream, lead, ctl, engine, page, raised, isr>>

\* The rest of motu424_pcm_prepare(): chip->rate is stored without the lock,
\* then motu424_hw_stream_prepare() records the geometry and resets the ring
\* bookkeeping, or refuses (-ENXIO) a direction that has no aperture.
PrepareStream(d) ==
  /\ runtime[d].state = "preparing"
  /\ clock' = [clock EXCEPT !.rate = runtime[d].rate]
  /\ IF d \in Apertures
       THEN /\ runtime' = [runtime EXCEPT ![d].state = "prepared"]
            /\ stream' = [stream EXCEPT ![d] =
                 [@ EXCEPT !.period = runtime[d].geo.period,
                           !.buffer = runtime[d].geo.buffer,
                           !.substream = TRUE, !.buf_pos = 0, !.ring_pos = 0,
                           !.pos_frames = 0, !.period_acc = 0]]
            /\ lead' = [lead EXCEPT ![d] = 0]
       ELSE /\ runtime' = [runtime EXCEPT ![d].state = "setup"]
            /\ UNCHANGED <<stream, lead>>
  /\ UNCHANGED <<ctl, engine, page, raised, isr>>

\* Periods motu424_hw_stream_start() copies ahead of the card.
PrefillOne(d) == IF d = "playback" THEN 1 ELSE 0
Prefill(d) == IF d = "playback" THEN 2 ELSE 0

\* TRIGGER_START: motu424_hw_stream_start() with fresh set. Only the first
\* running direction writes ENABLE and kicks the port.
KickAlways(d) == engine + 1
KickEngine(d) == IF \E e \in Dir : stream[e].running THEN engine ELSE engine + 1

Start(d) ==
  /\ runtime[d].state = "prepared"
  /\ runtime' = [runtime EXCEPT ![d].state = "running"]
  /\ stream' = [stream EXCEPT ![d] = [Pushed(@, Prefill(d)) EXCEPT !.running = TRUE]]
  /\ lead' = [lead EXCEPT ![d] = @ + Prefill(d) * stream[d].period]
  /\ engine' = KickEngine(d)
  /\ page' = Paged(d)
  /\ UNCHANGED <<clock, ctl, raised, isr>>

\* motu424_hw_stream_stop(): the engine is disabled with the last direction.
EngineOffAlways(d) == 0
EngineAfterStop(d) == IF \E e \in Dir \ {d} : stream[e].running THEN engine ELSE 0

\* What TRIGGER_STOP and TRIGGER_SUSPEND change; snd_pcm_post_stop() leaves
\* the core's stop_operating mark.
Stopped(d) ==
  /\ runtime[d].state = "running"
  /\ runtime' = [runtime EXCEPT ![d].state = "setup", ![d].stopped = TRUE]
  /\ stream' = [stream EXCEPT ![d].running = FALSE]
  /\ engine' = EngineAfterStop(d)

\* The application drops or drains the substream, or the system suspends.
Stop(d) == Stopped(d) /\ UNCHANGED <<lead, clock, ctl, page, raised, isr>>

\* motu424_pcm_close(): the core has stopped the substream and called
\* snd_pcm_sync_stop() in hw_free before it gets here.
Close(d) ==
  /\ runtime[d].state \in {"open", "setup", "prepared"}
  /\ SyncStop(d)
  /\ runtime' = [runtime EXCEPT ![d].state = "closed", ![d].stopped = FALSE]
  /\ stream' = [stream EXCEPT ![d].running = FALSE, ![d].substream = FALSE]
  /\ engine' = EngineAfterStop(d)
  /\ UNCHANGED <<lead, clock, ctl, page, raised, isr>>

---------------------------------------------------------------------------
(* The mixer-control thread: puts of Sample Rate and Clock Source, which   *)
(* the ALSA core runs one at a time.                                       *)

\* motu424_ctl_enum_put(CTL_SAMPLE_RATE): chip->rate is stored, the rate is
\* programmed under the lock, and motu424_hw_set_rate() stores it again.
PutRateDisables(r) ==
  /\ ctl = 0
  /\ r # clock.rate
  /\ clock' = [SetRate(r) EXCEPT !.rate = r]
  /\ ctl' = r
  /\ engine' = 0
  /\ UNCHANGED <<runtime, stream, lead, page, raised, isr>>
PutRate(r) ==
  /\ ctl = 0
  /\ r # clock.rate
  /\ clock' = [SetRate(r) EXCEPT !.rate = r]
  /\ ctl' = r
  /\ UNCHANGED <<runtime, stream, lead, engine, page, raised, isr>>

PutRateStore ==
  /\ ctl # 0
  /\ clock' = [clock EXCEPT !.rate = ctl]
  /\ ctl' = 0
  /\ UNCHANGED <<runtime, stream, lead, engine, page, raised, isr>>

\* motu424_hw_set_clock_source(): writes the index to AREG_PARAM.
PutSource(s) ==
  /\ ctl = 0
  /\ s # clock.source
  /\ clock' = [clock EXCEPT !.source = s, !.param = s]
  /\ UNCHANGED <<runtime, stream, lead, ctl, engine, page, raised, isr>>

---------------------------------------------------------------------------
(* Interrupts.                                                             *)

\* The card raises an interrupt, after as many frames as AREG_INCR says, only
\* while the engine is enabled.
CardRaise ==
  /\ engine > 0 /\ ~raised
  /\ raised' = TRUE
  /\ UNCHANGED <<runtime, stream, lead, clock, ctl, engine, page, isr>>

\* The guard of motu424_stream_tick().
TickIfOpen(d) == stream[d].substream /\ stream[d].buffer # 0
Ticking(d) == stream[d].running /\ stream[d].substream

\* Periods the accumulator covers on this interrupt: its while loop.
ElapsedAtMostOnce(d) ==
  IF Ticking(d) /\ stream[d].period_acc + PeriodIncr >= runtime[d].geo.period THEN 1 ELSE 0
Elapsed(d) ==
  IF Ticking(d) THEN (stream[d].period_acc + PeriodIncr) \div runtime[d].geo.period ELSE 0

\* motu424_stream_tick(): the pointer advances by the increment, the
\* accumulator keeps what is left after the whole periods it covered, and
\* each of those is copied.
Ticked(d) ==
  IF ~Ticking(d) THEN stream[d]
  ELSE Pushed([stream[d] EXCEPT
                 !.pos_frames = (@ + PeriodIncr) % stream[d].buffer,
                 !.period_acc = @ + PeriodIncr - Elapsed(d) * runtime[d].geo.period],
              Elapsed(d))

\* motu424_hw_irq_ack(): ours if the port says so (without a port: if any
\* stream runs), acknowledge, tick playback then capture. An interrupt that
\* completes no period makes the handler return IRQ_NONE.
IrqAck ==
  /\ IsrIdle
  /\ IF HasPort THEN raised ELSE \E d \in Dir : stream[d].running
  /\ raised' = FALSE
  /\ stream' = [d \in Dir |-> Ticked(d)]
  /\ lead' = [d \in Dir |-> IF Ticking(d)
                            THEN lead[d] - PeriodIncr + Elapsed(d) * stream[d].period
                            ELSE lead[d]]
  /\ page' = IF Elapsed("capture") > 0 THEN Paged("capture")
             ELSE IF Elapsed("playback") > 0 THEN Paged("playback") ELSE page
  /\ isr' = [isr EXCEPT !.pending = {d \in Dir : Elapsed(d) > 0}]
  /\ UNCHANGED <<runtime, clock, ctl, engine>>

\* motu424_interrupt() after the ack, without the lock: playback first, and
\* only a stream still running and open is reported.
NotifyNext(d) ==
  /\ isr.calling = "none"
  /\ d \in isr.pending
  /\ d = "capture" => "playback" \notin isr.pending
  /\ isr' = [pending |-> isr.pending \ {d},
             calling |-> IF Ticking(d) THEN d ELSE "none"]
  /\ UNCHANGED <<runtime, stream, lead, clock, ctl, engine, page, raised>>

\* snd_pcm_period_elapsed(): returns, or finds an xrun (or the end of a
\* drain) and stops the substream from inside the handler.
PeriodElapsed(d) ==
  /\ isr.calling = d
  /\ isr' = [isr EXCEPT !.calling = "none"]
  /\ \/ UNCHANGED <<runtime, stream, engine>>
     \/ Stopped(d)
  /\ UNCHANGED <<lead, clock, ctl, page, raised>>

---------------------------------------------------------------------------
Next ==
  \/ \E d \in Dir : Open(d) \/ HwParams(d) \/ PrepareRate(d) \/ PrepareStream(d)
                    \/ Start(d) \/ Stop(d) \/ Close(d)
                    \/ NotifyNext(d) \/ PeriodElapsed(d)
  \/ \E r \in Rates : PutRate(r)
  \/ PutRateStore
  \/ \E s \in Sources : PutSource(s)
  \/ CardRaise
  \/ IrqAck

Spec == Init /\ [][Next]_vars

\* The card interrupts as long as it is enabled, and the kernel runs an
\* interrupt handler to its end. Nothing is assumed of applications.
FairSpec ==
  /\ Spec
  /\ WF_vars(CardRaise)
  /\ WF_vars(IrqAck)
  /\ \A d \in Dir : WF_vars(NotifyNext(d)) /\ WF_vars(PeriodElapsed(d))

---------------------------------------------------------------------------
(* Properties.                                                             *)

TypeOK ==
  /\ runtime \in [Dir -> Runtime]
  /\ stream \in [Dir -> Stream]
  /\ lead \in [Dir -> Int]
  /\ clock \in [family : 0 .. 2, rate : Nat, source : 0 .. 4, param : 0 .. 4]
  /\ ctl \in Nat
  /\ engine \in Nat
  /\ page \in Nat
  /\ raised \in BOOLEAN
  /\ isr \in [pending : SUBSET Dir, calling : Dir \cup {"none"}]

\* motu424_pcm_pointer().
Pointer(d) ==
  IF ~stream[d].substream \/ stream[d].buffer = 0 THEN 0 ELSE stream[d].pos_frames

Active(d) == runtime[d].state \in {"prepared", "running"}

\* Whatever order two triggers, a close and an xrun stop arrive in, the card
\* has been kicked exactly once while some direction runs and is disabled
\* otherwise (motu424_hw_stream_start and _stop): a direction that starts
\* second neither kicks the card again nor is left without the kick, and one
\* that stops does not silence the other.
EngineMatchesStreams == engine = (IF \E d \in Dir : stream[d].running THEN 1 ELSE 0)

\* Double buffering is exact at every interrupt: playback copies stay between
\* one and two periods ahead of the reported pointer, capture copies less
\* than one period behind it, and both differ from the pointer by exactly
\* what the accumulator holds (motu424_stream_tick, _push_period).
LeadIsExact ==
  \A d \in Dir : Active(d) =>
    /\ stream[d].period_acc < stream[d].period
    /\ lead[d] = (IF d = "playback" /\ stream[d].running THEN 2 * stream[d].period ELSE 0)
                 - stream[d].period_acc

\* The host position the next copy uses and the pointer ALSA sees stay in
\* step around the buffer, however often either has wrapped.
CopyFollowsPointer ==
  \A d \in Dir : Active(d) =>
    /\ Pointer(d) < stream[d].buffer
    /\ stream[d].buf_pos = (Pointer(d) + lead[d]) % stream[d].buffer

\* Copies never lap the card: what has been written to the playback ring and
\* not yet been reported as played always fits in the ring
\* (MOTU424_MAX_PERIOD_BYTES against the prefill of two periods).
RingNeverLapped == \A d \in Dir : Active(d) => lead[d] <= RingFrames

\* snd_pcm_period_elapsed() is only ever called, or about to be called, for
\* the run of the substream that completed the period: not for one that was
\* closed, re-parameterised or prepared again since (motu424_interrupt runs
\* its notifications without chip->lock).
ElapsedIsCurrent ==
  \A d \in Dir : d \in isr.pending \cup {isr.calling} =>
    stream[d].substream /\ runtime[d].state \in {"setup", "running"}

\* A copy fits the host buffer: the piece before the ring's end and the one
\* after it (the two memcpy of motu424_push_period's loop).
FirstPiece(s) == IF s.period <= RingFrames - s.ring_pos THEN s.period ELSE RingFrames - s.ring_pos
CopyFits(s) ==
  /\ s.buf_pos + FirstPiece(s) <= s.buffer
  /\ ((s.buf_pos + FirstPiece(s)) % s.buffer) + (s.period - FirstPiece(s)) <= s.buffer

\* The next copy stays inside the host buffer whenever the buffer holds whole
\* periods, although the ring wraps at another place than the buffer.
CopiesStayInBuffer ==
  \A d \in Dir : Active(d) /\ stream[d].buffer % stream[d].period = 0 => CopyFits(stream[d])

\* Once a stop has returned, no interrupt already raised or in service moves
\* the substream's pointer or copies into its buffer: positions change only
\* while the stream runs, or when it is prepared afresh.
NoTickAfterStop ==
  [][\A d \in Dir : ~stream[d].running /\ runtime[d].state \notin {"preparing", "prepared"} =>
       /\ stream'[d].pos_frames = stream[d].pos_frames
       /\ stream'[d].buf_pos = stream[d].buf_pos]_vars

\* An application that waits in poll() or read() is woken: a stream that runs
\* completes a period and its notification is begun, or it is stopped, however
\* the other direction starts and stops, and however often prepares and the
\* Sample Rate control change the increment it accumulates in between.
RunningIsHeard ==
  \A d \in Dir : stream[d].running ~> isr.calling = d \/ ~stream[d].running

---------------------------------------------------------------------------
(* The inductive invariant of the proofs.                                  *)

\* The driver's flags mirror the core's substream state.
FlagsMirrorCore ==
  \A d \in Dir :
    /\ stream[d].running <=> runtime[d].state = "running"
    /\ stream[d].substream <=> runtime[d].state # "closed"

\* From hw_params on there is a legal geometry, and from prepare on the
\* driver's copy of it agrees with the runtime's, which the tick reads.
GeometryFrozen ==
  \A d \in Dir :
    /\ runtime[d].state \notin {"closed", "open"} => runtime[d].geo \in Geometries
    /\ Active(d) => /\ stream[d].period = runtime[d].geo.period
                    /\ stream[d].buffer = runtime[d].geo.buffer

\* A completed period still to be reported belongs to a stream that runs, or
\* whose stop the core has not yet synchronised with the handler.
PendingIsSynced ==
  \A d \in Dir : d \in isr.pending \cup {isr.calling} =>
    \/ runtime[d].state = "running"
    \/ runtime[d].state = "setup" /\ runtime[d].stopped

\* What the proofs show to be inductive: the flags, geometry and handler
\* facts above, with the engine, lead and copy-position properties.
IInv ==
  /\ TypeOK
  /\ FlagsMirrorCore
  /\ GeometryFrozen
  /\ PendingIsSynced
  /\ EngineMatchesStreams
  /\ LeadIsExact
  /\ CopyFollowsPointer

\* What keeps copies inside the buffer: the ring offset is one, and with
\* whole periods in the buffer each copy starts at a period boundary.
CopiesAligned ==
  \A d \in Dir : Active(d) =>
    /\ stream[d].ring_pos < RingFrames
    /\ stream[d].buffer % stream[d].period = 0 => stream[d].buf_pos % stream[d].period = 0

---------------------------------------------------------------------------
(* What a document of the repository says, and the code does not do: a run *)
(* exhibits the difference.                                                *)

\* The Clock Rate control (chip->rate) is "the RO locked readout": with no
\* rate change in progress it names a rate of the programmed family.
ClockRateIsLocked ==
  (ctl = 0 /\ \A d \in Dir : runtime[d].state # "preparing") =>
    FamilyOf(clock.rate) = clock.family

=============================================================================
