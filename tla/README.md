# Verification of the MOTU PCI-424/PCIe-424 Linux driver and its console

TLA+ models of this repository's kernel driver (`kernel/`) and of the programs
that control it (`tools/`), TLC configurations that check them on small
instances, and TLAPS proofs about them for all values of their constants.
`PROJECT.json` lists every part, every run, which source lines each definition
stands for, the hazards the properties are aimed at, and the theorems.

    tlc -config TransportDuplex.cfg MCTransport
    tlapm TransportProofs.tla

## 1. The system

| part | code | its state | operations |
|---|---|---|---|
| stream engine | `kernel/motu424_pcm.c`, `motu424_hw.c:550-878`, `motu424_main.c:44-62` | `chip->playback`, `chip->capture`, rate, family, increment, page register | open, prepare, trigger, pointer, close; the interrupt handler |
| CueMix mixer | `motu424_hw.c:1039-1849` | `struct motu424_mixer`, coefficient words on the card | puts of about 650 controls, solo-in-place |
| DSP mailbox | `motu424_hw.c:880-1037` | `dsp_seq`, `dsp_running`, mailbox registers | command, doorbell, wait for ACK or READY |
| probe and teardown | `motu424_main.c:65-221`, `hw_init`, `hw_shutdown` | device-managed resources, `dev` | probe, unwinding, removal |
| windows | `motu424_hw.c:99-133`, `:361-460` | BARs and their roles | assign windows, card address to pointer |
| firmware | `motu424_hw.c:141-346` | `fw_loaded` | request, verify, upload |
| control tool | `tools/motu424-ctl.c` | none | list, get, set, status, dsp |
| GTK console: synchronisation | `tools/motu424-gui.legacy.py`: `CtlWriter`, `Panel._poll*`, `_apply*`, undo | `_byname`, widgets, the writer's two dictionaries, undo stack | edit, snapshot, undo, poll, select card, hot-plug |
| GTK console: strips | `_on_fader`, `_fan_send`, `_fan_out`, `_on_gang`, stereo buttons | faders, `_last_val`, links, `_gang` | relative and linked moves, gang, link, rebuild |
| GTK console: patchbay and demo card | `PatchBay`, `_patch_*`, `demo_controls`, scenes and files | cables, the demo card's controls, its rate family | drag, double-click, unpatch, bypass, store, load, change of family |
| GTK console: session | talkback, `_show_status`, `_diag_*`, names | button, timers, threads, labels, names file | press and release, message, diagnose, rename, restart |
| studio console | `tools/motu424-gui` | inserts, EQ and dynamics windows, lock, dim | bypass, lock, refresh |
| Electron shell | `tools/electron/main.js` | backend process, window | start, wait for the port, clean up |

How they interact. The ALSA core calls the PCM callbacks of each substream
under that substream's lock, one put at a time under `card->controls_rwsem`, and
both alongside the interrupt handler; all share `chip->lock`. The handler calls
back into the core (`snd_pcm_period_elapsed()`), which may stop the substream
from there. Puts go to the card through the register block, or through the
mailbox once `dsp_running` is set. The consoles never talk to the driver: they
start one `motu424-ctl` process per write and one per poll, so a console, its
writer thread, its poll thread, those processes, other mixers and the driver
interleave freely.

What is hard in it:
- two directions sharing one enable, one increment, one page register and one
  handler, with the handler's second half outside the lock;
- positions that wrap around two buffers of different sizes, and interrupts that
  cover a fraction of a period or many;
- rate and clock-source changes while streams run;
- several controls packed into one word, and words that depend on other controls;
- a mailbox that may time out, after the shadow was written;
- a console whose writes, polls, card selection and hot-plug overtake each other.

What makes each part correct:
- stream engine: enabled exactly while something runs; copies neither lap the
  card nor leave the buffer, and stay in step with the pointer; a stop is final;
  notifications are for the current run, and come;
- mixer: card and shadow agree whenever a word was sent; silenced means silent;
- console: the values asked for reach the right card in their order, or their
  `set` fails; only Auto takes one to another card, when the first card changes;
  the last one wins unless an edit of another card displaces it; and the display
  converges to the card;
- strips: faders, controls and the starting points of relative moves stay in
  step however moves fan out; links are those of the switches;
- patchbay: a cable is where it was plugged, console and card number feeds alike,
  one undo takes one operation back, a file is restored, but for talkback when it
  changes the family;
- session: a released talkback is off in the end, a message has its time, names
  are the same everywhere, and the console comes to rest.

## 2. Modules

| module | what it is |
|---|---|
| `Transport` | the stream engine: one action per critical section |
| `TransportProofs` | facts on `%` and `\div`, the inductive invariant and what follows from it |
| `Mixer` | the puts, the shadow and the words of the mixer |
| `MixerProofs` | packing, cells that do not overlap, the mixer's invariant |
| `Selector` | the card selector's entries and the card each stands for: operators |
| `WriteQueues` | what the console promises: a queue of values for every control of every entry of the selector |
| `GuiSync` | writer, poll, undo, selector and hot-plug of the GTK console; uses `Selector`, implements `WriteQueues` |
| `GuiSyncProofs` | types, whose values reach a card, the last value, the steps of the refinement |
| `Strips` | faders that move together: linked pairs, gangs, stereo switches |
| `StripsProofs` | scales, relative moves, links |
| `Channels` | output channels of a rig, their orders, pairs, sources and normals: operators |
| `Patchbay` | the bay, scenes, files, undo and rate families on the demo card; uses `Channels` |
| `PatchbayProofs` | the page and its card, one undo, whole restores, the two numberings, where cables land |
| `Session` | talkback, status line, diagnostics page and channel names |
| `SessionProofs` | the end of a long press, names in step, the newest message |
| `Windows` | BARs to windows, card addresses to offsets: operators |
| `Bringup` | probe and teardown of a card, the handler on its shared line; uses `Windows` |
| `BringupProofs` | release in reverse, what the handler and teardown rely on, what the loop over the BARs finds |
| `Firmware` | request, verification, section walk and upload, and the console's verifier; uses `Windows` |
| `FirmwareProofs` | what is accepted, where it is copied, and the two section walks, for every word and file |
| `MCTransport`, `MCMixer`, `MCGuiSync`, `MCBringup`, `MCFirmware`, `MCStrips`, `MCPatchbay`, `MCSession` | small values for TLC |

### Transport

`stream[d]` is `struct motu424_stream`, `clock` the rate fields, the clock source
and `AREG_PARAM`, `page` the page-select register. `engine` counts the kicks
(`ENABLE`, `CTRL`, `STROBE`) since the card was last disabled, so that a double
kick shows. `runtime[d]` is what the ALSA core keeps of a substream (external),
`raised` whether the card has an interrupt pending, `isr` what the handler has still to report and the call it is in. `lead`
is a history variable: frames copied minus frames the pointer advanced.

- *Steps.* A section under `chip->lock` is one action, with what its thread does
  up to its next release of control. `motu424_pcm_prepare()` is two
  (`PrepareRate`, `PrepareStream`), as `chip->rate` is stored between two
  sections; so is the Sample Rate put. The handler is `IrqAck`, one `NotifyNext`
  per direction, and `PeriodElapsed`, which may stop the substream (an xrun or
  the end of a drain). The read of the port's STATUS bit is in `IrqAck`: a stop
  between it and the lock leaves a section that ticks nothing, as a stop before
  both does.
- *Units.* Sizes and positions of a direction are in one unit, its frame. The code
  counts its ring and buffer positions in bytes, and the ring (65536 bytes) need
  not hold whole frames, so the chunk that ends at the ring's end may end inside
  one. Every other byte count is a frame count times the frame size: a direction
  scaled by it, with `RingFrames` the bytes of the ring, is an instance of the
  module for the theorems, which hold for every size of each.
- *The ALSA core.* A stopped, drained or xrun substream must be prepared before
  it starts; `hw_params`, `prepare` and `close` call `snd_pcm_sync_stop()` after a
  stop, which waits for the handler because probe sets `card->sync_irq`
  (`motu424_main.c:186`). Pause and resume are not there because
  `motu424_pcm_hw.info` has neither flag, so the core never issues them. A
  suspend is a stop.
- *Given.* `audio_base` and `ack_addr` are set (otherwise every prepare fails);
  an aperture may be missing (`Apertures`), and the port too (`HasPort`; a card without one is a PCIe card,
  as the handler ignores a classic one). The runs
  have both apertures and the port unless they say otherwise; the theorems hold
  for every choice.
- *State without a property.* `page` and `clock.param` are there because the code
  writes them, but no document says what they should hold. Two things can be seen
  in the model: `IrqAck` acknowledges through whatever page the last push or start
  selected, and a put of Clock Source overwrites the rate's code in `AREG_PARAM`.
- *Left out.* The POS, NUM and DIV counters, which are read and dropped;
  `chip->channels`, which nothing reads; the samples.

### Mixer

The ALSA core holds `controls_rwsem` for writing across a put, so a put is one
step. A cell is a register offset from `mix_base` or a mailbox command with its
parameter; `card` has the word last written to each cell, as a pair of 16-bit
halves. Signed fields are reduced as the casts in the code do. `mixer_init` sends
nothing, so `card` starts empty. `wired` is what probe found: a booted DSP, a
mixer block, both or neither; nothing changes it afterwards. Controls without a register are kept in `local`,
one of each kind: their puts touch nothing else, so outputs, which a document places
in the same block as the sends, never reach the card, and the slot interface, which
it calls read-only, is stored like the rest. A mailbox command that times out
may or may not have been taken, and the put does not look: `unsure` is a history
variable with the cells whose last command timed out, and the properties about
words (`Sent`) are about the others, until a later command to the cell is taken.

### GuiSync

The GTK main loop runs one handler at a time, so a handler is one step; the
writer thread and the poll's worker step between them, one `motu424-ctl` process
per step. Time is abstract: a control stays touched until `GraceEnds`, and the
poll may start whenever none is under way. Different controls of a batch are
written in any order, which allows more behaviours than the dictionary's order.
A `list` reads the card at one instant, and fails only when there is none (an
assumption about alsa-lib: the console would take a failing one for a missing card). A `set` may fail on any card (`Written`), which is
reported and drops the value. All cards register the same controls. Writes that
have not been flushed when the console is closed are lost, as they are in the
code; closing is in `Session`.

The selector's entries are the cards that were there at the start and, first and
by default, Auto (`AutoFind`), for which the console names no card: every run of
`motu424-ctl` then looks for the first MOTU card there is (`find_motu_card`). A
write keeps the entry it was pushed under and finds its card when it is carried
out (`Reached`); a poll, when it lists. A card that comes back has its old number,
and starts from the defaults.

The history variables say what users meant. `asked` has, for each card and control,
every value anyone has asked for there, the last of them, and what may have lost
that one: an edit through an entry for another card (the writer's dictionary is
keyed by name alone), a `set` that failed, or Auto, which took the write to another
card than it stood for at the push. `byAuto` has the values asked for through Auto,
and `moved` whether Auto has come to stand for another card.

`WriteQueues` says what this amounts to, without names, dictionaries, undo or
poll: each control has a queue for each entry of the selector; a request goes
behind some of what waits and replaces the rest, and the newest value may give way
to a request for the same control through another entry; deliveries are in order,
come sooner or later, and reach the card that the entry stands for at that moment,
or fail. The refinement mapping (`Queued`) makes the queue of the value in `batch` and
the value in `pending`, each if it is this entry's. A write is then `Deliver`; an
edit, a mix-wide change and an undo are `Ask`; the swap of the dictionaries, the poll
and a move of the selector are stutters.

### Strips

A fader is its mix and its channel. `set_value()` on another fader runs that
fader's handler before it returns, so one move is one step: `Target` is where each
fader ends up, clamped as the scale clamps, and `Recorded` what the handlers that
ran have stored in the control and in `_last_val`. `_fanning` keeps nested handlers
from fanning out again, hence the partner of a ganged strip that merely follows
stays. A stereo button queues a reload (`GLib.idle_add`), which rebuilds links and
empties the gang; a snapshot, an undo and the poll set faders and switches
silently and queue none: the history variable `silent` has those switches, whose
links are old until something else rebuilds the console. A write is done when it
is asked for; `GuiSync` has its way to the card.

### Channels and Patchbay

A token such as "B Main 00" is a record of slot, bank and index, with the row of
the bank in its interface's table. `SortsBefore` is the console's order, `ListedBefore`
the card's; `BankCount` shrinks banks in the 2x and 4x families, in whole pairs.

`Patchbay` is the console on its demo card, whose control dictionaries the page
edits in place. A change of family replaces the card at once (`Replaced`) and queues
the reload; until then (`split`) the page edits the dictionaries of a card that is
no more. `WrittenAround` is a list of writes with the rate among them, in
an order (`BeforeRate`): a snapshot file is sorted by name, so the rate comes behind
outputs and bay and before the talkback controls; a scene is in the card's order,
with the rate first; an undo has the order of what it takes back. What comes after
a rate that changes the family reaches only the dictionaries of the replaced card.
A cable that is dragged is a step that begins
and one that ends, with reloads, undo and families between. Of a card's controls
the model has the outputs' sources and stereo switches, the bay's switch, the
talkback controls (one for both) and the rate. `stored` may come from a former
session, with the controls of another family (`Files`).

### Session

One card, one channel shown in several tabs. A long press is told from a short one
by a step of time (`HoldsOn`). Status messages are numbered as `_status_seq` numbers
them, and each has a timer; a diagnosis is a thread that reports in any order. A
save succeeds or says that it failed. `Reload` is what a rebuild does to these parts;
`Restart` the end of the process at any step and its start from file and card.

### Windows and Bringup

A BAR is its kind and its length, a window the index of the BAR it points into.
`AssignWindows` is `motu424_assign_windows()` in its order: overrides, one turn of
the loop per BAR (`Discovered`), the lone large BAR, the PCIe fallback. `Dispatch` is
`motu424_addr()`, masks as remainders.

`Bringup` is one card and one driver. `ProbeOrder` is the sequence of steps of
`motu424_probe()`; each may fail (`ProbeFails`), except `hw_init`, which fails exactly
when there is no window B. `held` is the device's list of managed resources, and
the kernel's release takes the newest first; that order, and that `free_irq()` waits
for the handler, are the kernel's (external). `engine` says whether the card is
enabled, by a stream or since before the driver came. `motu424_hw_shutdown()` disables
it through the audio enable register, if the address of that was given; what
the write of 0 to the port's CTRL does alone no line of the repository says, so both
outcomes are in the model (`Quiesced`). The handler is its entry
and its return, so that releases fall between. Streams are there only as what
enables the card; `Transport` has the rest, and starts where `Bringup` is bound.

### Firmware

An image is its size, the fields of its header, whether its bytes add up to the
checksum, and for every offset the two lengths a section header there would have.
The driver's lengths are added modulo `Word`, its offset is a `size_t` and has no
bound. The console's verifier is a function of the image, in Python's unbounded
integers. `host` is the card, with its BARs and its window B, and the parameters, and
so the BAR the copy goes to. Window B is a constant here, of which
`FirmwareAssumption` says that it is mapped: `Bringup` promises that
(`WindowIsMapped`, proved as `MappedCorrect`), as `hw_init` runs before the firmware is
asked for. `MCFirmware` computes it with `AssignWindows`.

## 3. Runs

All configurations are exhaustive for their constants.

| run | properties | what it shows |
|---|---|---|
| `transport_duplex` | EngineMatchesStreams, RingNeverLapped, ElapsedIsCurrent, CopiesStayInBuffer, NoTickAfterStop | both directions in every order, one rate |
| `transport_rates` | LeadIsExact, CopyFollowsPointer, RunningIsHeard | two families switched under running streams by prepares and the mixer; notifications come |
| `mixer_puts` | TypeOK, WordsMatchShadow, SendsAreFaderOrSilent | registers, mailbox, both or neither |
| `bringup` | TypeOK, WindowsAsDescribed, DispatchStaysInside, HandlerFindsCard, QuietWhenFreed | every BAR layout and override; every step fails; shared interrupts; rebinding |
| `firmware` | TypeOK, PayloadIsRest, VerdictsAgree, SameSections, CopyStaysInBar, LoadEnds | driver and console on the same files; the copy and the BAR; the walk ends |
| `gui` | LatestUnlessLost, OnlyAskedValues, DeliversInOrder, ConsoleConverges | two cards and Auto, selector, undo, hot-plug, failing and slow writes implement the queues of `WriteQueues`, their deliveries included; the display settles on the card |
| `strips` | FadersInStep, LinksFollowSwitches, GangKeepsOffsets, PairsMoveLevel | strips linked, ganged or both, switches pressed and set silently |
| `patchbay` | PageIsCards, EnumerationsAgree, PatchesTake, UnpatchIsOneUndo, LoadRestores | cables, pairs, talkback, undo and files while families replace the card under the page |
| `session` | HoldEndsOff, NamesInStep, StatusStaysItsTime, SessionSettles | late writes and replies, old timers, overlapping threads, rebuilds and restarts |

Bounds.
- *Transport.* An increment of 1 frame for the lowest family, hence 4 for the next.
  `transport_duplex` has one family, a ring of 8 frames, and requested geometries of
  which one has a period over half the ring and is refused, and one a buffer that
  does not divide the ring, so that both wrap at different places. `transport_rates`
  has two families and a period of 3 frames, the longest a ring of 6 admits: an
  interrupt covers a third of a period in one family, more than one in the other.
  `RingFrames`, `BaseIncr`, `Requests`, `Rates` and `Sources` are the only bounds; no
  counter is capped.
- *Mixer.* `MaxPuts = 3` puts that change something: a property relates at most a
  word to its last put and to one other control. Volumes
  are in range and past both ends; pan and trim past their negative end, which
  leaves the lowest value, a negative one, in their fields. Two buses of three channels make a wrong stride
  collide.
- *Bringup.* Three BARs of five kinds each, found automatically, and two layouts
  under every override, one of them naming no BAR; lengths in megabytes. Three
  slots, one of them disabled, allow two binds and the refusal after them.
- *Firmware.* A word of 16, a header of 2 bytes and section headers of 2, images
  of up to 7 bytes: header lengths and payload lengths that wrap, and sections
  whose lengths add up to nothing, to the word, and past it. Windows of 4 and 8
  bytes, so that images fit, fit in part, and do not fit.
- *GuiSync.* `MaxEdits = 3` changes by users, other programs and hot-plug (writes,
  polls and time are not bounded): enough for an edit during a flush, the
  selector moved and the same control edited on the other card, or an edit under
  Auto whose card goes before the flush. An undo depth of 2, two cards of two
  controls, two values, a mix of both controls and one of a single one.
- *Strips.* `MaxSteps = 5`: a pair is linked and rebuilt, ganged, and moved twice.
  A scale of three positions lets every move of a gang clamp on one side or none.
  A pair and a third strip in one mix, a strip of another mix, an output pair.
- *Patchbay.* `MaxEdits = 3` user actions, of which the end of a drag and a reload are
  not counted: a cable, a change of family and an undo, or a file stored, a
  family and the file loaded. Two rigs, one of two interfaces with an empty slot
  between; banks shortened to a few channels, of which some vanish in the 2x
  and 4x families. One mix. A former session's file of the 2x family.
- *Session.* `MaxSteps = 3` for users, other programs, failed writes, rebuilds and
  restarts; timers, threads, polls, writes and releases are not counted.

Symmetry is not used: the directions are not symmetric, and the cards are too few.

Deadlock is checked in the runs of Transport, GuiSync and Session, where something
can always happen (interrupts, polls). It is switched off in the mixer's, in
Strips' and in Patchbay's, where the bound on user actions ends every behaviour,
in Firmware's, where a load ends, and in Bringup's, where a card stays unbound once
the slots are used up.

Fairness. `Transport!FairSpec`: the card interrupts while it is enabled
(`CardRaise`), and the kernel runs the handler and its callbacks to their end.
Nothing is asked of applications, which may never stop, prepare or close.
`GuiSync!FairSpec`: the timer fires, started processes and threads end, time
passes. Nothing is asked of users or other programs; convergence is claimed
after they stop. `Session!FairSpec` likewise; users need not even let go of the
button, which is why `HoldEndsOff` is about a press that has ended. `Strips` and
`Patchbay` have the fairness of the main loop, which runs what was queued; none of
their properties needs it. `Firmware!FairSpec`: the thread that probes goes on.

### Disagreements

These runs check one sentence of a comment or document each and end in a
counterexample. `PROJECT.json` quotes the sentence and says what happens.

| run | property | in short |
|---|---|---|
| `transport_rate_race` | ClockRateIsLocked | the reported rate can differ from the programmed one |
| `mixer_solo` | SoloInPlace | soloing does not silence the sends already written |
| `gui_lost_write` | LatestIsFlushed | queued writes of two cards overwrite each other |

The last one qualifies a property that holds. `LatestIsFlushed` leaves aside what a
failed `set` or Auto loses, which is not coalescing's doing; `LatestUnlessLost` also
leaves aside displaced values, and then no other value is ever lost.

Some properties leave cases aside in which the code does less than a text of the
console promises. No run checks these texts; the cases can be read in the model:
- `LoadRestores` excepts talkback when a file changes the family. "Mix snapshots"
  are to "save/recall the whole console state" (`motu424-gui.legacy.py:68`), but the
  talkback controls sort after "Sample Rate", so `_apply` writes them to the replaced
  card's dictionaries and the reload discards them. A scene recalled across
  families has the rate first, and loses all that comes behind it.
- `HoldEndsOff` is about a button that shows what the card is to hold when it is
  released: `_tb_release` reads the widget. A rebuild before the press was flushed, or
  a reply older than the grace, raises the button while it is held, and then talkback
  stays on; the help says "hold to talk momentarily" (`:2324-2326`).
- `LinksFollowSwitches` excepts switches set by the poll, a snapshot or an undo, after
  which the links are the old ones until something rebuilds the console; the help
  says "stereo pair — links the pair's faders" (`:2321`).

Others leave aside what no document speaks of:
- `CopiesStayInBuffer` is about buffers of whole periods; no constraint excludes
  others, and `motu424_push_period()` reduces its position only after a chunk.
- Under Auto, a value pushed before the first card changed may reach the other card
  (`OnlyAskedValues`, `LatestUnlessLost`).
- `QuietWhenFreed` is about cards whose audio addresses were given.
- An undo after the selector has moved applies to the card selected now; it asks
  for those values there, and so keeps `OnlyAskedValues`.
- Interrupts that complete no period are answered 0, which `motu424_interrupt()`
  turns into IRQ_NONE; what the kernel makes of that depends on the other devices
  on the line, and no property speaks of it.

## 4. Proofs

*Transport.* `IInv` adds to the types and to three of the properties the facts
they rest on: the driver's flags mirror the core's substream state
(`FlagsMirrorCore`), so that a tick and a start see the same stream; the
geometry the driver recorded is the runtime's from prepare on
(`GeometryFrozen`), because `motu424_stream_tick()` reads the one and
`motu424_push_period()` the other; a period still to be reported belongs to a
stream that runs or whose stop has not been synchronised (`PendingIsSynced`).
Each action has its lemma, and `Invariance` puts them together. From `IInv` follow
`RingCorrect`, `ElapsedCorrect` and `StopCorrect`. `CopiesCorrect` needs more: copies
start at a period boundary when the buffer holds whole periods
(`CopiesAligned`), which is inductive relative to `IInv`. The arithmetic of
wrapping (`ModAdd`, `StepsStayAligned`, ...) comes first in the module. Assumed:
`TransportAssumption`, which only says that sizes, rates and increments are
positive, sources are items of the control, and pages numbers.

*Mixer.* `MixInv` is inductive, with any commands timing out.
It rests on what the card reads from a
packed word (`MasterWordReads`, `PanReads`, `EffReads`, `TrimWordReads`) and on cells
of different controls being different (`CellsDistinct`, by way of `RowMajor`).
`MixerAssumption` limits the mixer to 4 buses and 24 channels, the sizes in
`motu424.h`, for which the three register ranges do not overlap.

*Bringup.* `BringInv` says that what is held is a prefix of the managed steps, as
long as the mode and the next step say (`HeldIsPrefix`, `ModeSays`); that window B is
assigned from the interrupt vectors on and the handler runs only while the line is
held (`LineIsSafe`); and that the engine is off once a registered shutdown action is
gone, if its enable register is known (`ShutDown`). `HandlerCorrect` and `QuietCorrect` follow, whatever `AssignWindows`
computes. What it computes is the other half of the module. `Discovered` is a
function that recurs over the BARs, and an induction over its turns is needed. The
library's induction theorems take an operator as a parameter; `Induct` says the same
of a set of numbers, from the well-foundedness of the naturals (`LeastNumber`). With
it, `ScanExists` shows that a function with these equations exists and `ScanKeeps`
that what one turn preserves, the whole loop does. Two such facts carry the
theorems: every role is empty or a mapped BAR (`Sound`, hence `MappedCorrect`), and
after `i` turns the roles are the first candidates among the first `i` BARs (`Found`,
by `TurnFinds`, hence `WindowsCorrect` and `DispatchCorrect`).
`Configured` carries them from `hw_init` through every later step. Assumed:
`BringupAssumption` and `WindowsAssumption`: layouts of at least one BAR, windows of
positive length of which A is twice as long as B, and a slot.

*Firmware.* Every stage behind the verifier is one of a file it accepted (`Judged`),
and a 32-bit sum that equals a size of at least a header has not wrapped
(`SumDidNotWrap`), which is why the first of the size tests has to be there. `Loading`
adds the types of what each stage uses, from which `CopyCorrect`: the copy is cut
to what the BAR has left. `SectionsCorrect` compares a loop that steps through the
file with the console's recursive function. That the recursion defines a function at
all (`WalkExists`) is shown without induction: what is reached from an offset is in
every set that is closed under stepping (`Reach`), and reaching unfolds as the
function does (`ReachUnfolds`, `ConsoleUnfolds`). The invariant is then that what the
loop has listed, with what the function lists from its offset on, is the console's
list (`ListedSoFar`). Assumed: `FirmwareAssumption`, positive header lengths, fields
that are words, and hosts with a mapped window B.

*GuiSync.* `IInv` strengthens `LatestUnlessLost`, which only speaks of an idle
writer, to every moment (`Newest`): unless it has been lost, the last value meant for
a card is the one that waits, else the one being written, else the one the card
holds. `Known` says whose values these are, and `Meant` which card an entry of the
dictionaries was for, as long as Auto has not moved. They are about one control of
one card, so a step is a matter of at most two entries of the dictionaries; every
change that is pushed goes through `PushKeepsNewest`, every write, whether it
fails or not, through `WriteKeepsNewest`. `ImplementsQueues` proves the step refinement:
`PushAsks` and `WriteDelivers` show a push and a write to be `Ask` and `Deliver`, by way
of what sequences of at most two look like (`ShortQueues`). Assumed: `GuiAssumption`.

*Strips.* `FadersInStep` is inductive with the types: what a handler records is the
position it was moved to (`RecordedIsPos`), on its scale (`TargetInScale`). Links come
in pairs (`LinkedInPairs`, from `BuiltInPairs` and the arithmetic of partners), which
is what makes `PairsCorrect` symmetric. `GangsCorrect` needs `FadersInStep`: a relative
move is right because it starts from where the fader is. Assumed: `StripsAssumption`.

*Patchbay.* The invariant is `PageIsCards` with the fact that page and card are
functions on the controls of their families (`OnControls`) and that the undo stack is
one (`Stack`). Each write goes through `WritingKeeps` or `WritingAroundKeeps`. From it,
`UnpatchCorrect` (what is pushed is on top, `PushedOnTop`, also when the bottom falls
off) and `LoadCorrect`, which needs the page to be the card's at the moment the
file is applied, and what reaches the replaced card to be all but talkback. `EnumerationsCorrect` is about the two orders of outputs: they agree
when every table has its banks in the order of `_BANK_RANK`, which
`ChannelsAssumption` says and the tables of `RIG_IFACES` satisfy. `PatchesCorrect` is
the deepest: a pair of feeds, `j - j % 2` and the next, is what the user meant only
if the two halves of every pair of outputs have feeds of such a pair, and does not
run past the last feed only if their number is even. Both come from one fact: a set of outputs
that has both halves of every pair in it has as many even outputs as odd ones
(`PairedIsEven`, by a bijection), applied to all outputs and to those that sort
before an even one (`FeedsKeepParity`). Banks stay in whole pairs in every family
(`WholePairs`), of which there are none but those of the menu, wherever a rate is
kept (`FamiliesKnown`, inductive with `IInv`). Assumed besides: an undo depth of at
least one, positive families, and interfaces with their outputs in pairs
(`PairsAssumption`; all of `RIG_IFACES` have them).

*Session.* Each property has a short invariant that says what is true between the
moments it speaks of. `PressOver`: what the card will hold when the writer is done
(`Final`: what waits, else what is being written, else what it holds) is off from the
release on; the writer only passes it along (`WriterKeepsFinal`), and the release
makes it so whether the button was down or up (`ReleaseLetsGo`). `Newest`: the line
shows nothing or the message of `_status_seq`, so the one timer that can empty it is
its own. `NamesInStep` is inductive with the types. Assumed: `SessionAssumption`, that
no name and no switch value is the mark for "none".

Only model-checked: liveness (`RunningIsHeard`, `ConsoleConverges`, `SessionSettles`, `LoadEnds`,
and that `WriteQueues` delivers), which needs fairness and ENABLED, and the counterexamples. Every other property of every run is a theorem.

## 5. Order of the work, and what is left

Written, in this order: `Transport`, its proofs, `Mixer`, its proofs, `GuiSync`,
`Windows`, `Bringup`, `Firmware`, their proofs; then `Strips`, `Channels` and `Patchbay`,
`Session`, `WriteQueues` with the refinement, and the proofs of the console's modules;
last the proofs about recursive definitions (windows, sections), about where cables
land, and about `Session`.
Worth doing next:

1. `PcmContract`, what an ALSA application is promised (a position in the
   buffer, wake-ups at period boundaries, silence after stop), and `Transport`
   shown to implement it.
2. `FxBypass`: the channel inserts of the studio console (`tools/motu424-gui`), where
   setting the bypass toggles widgets whose handlers set it again.

3. The order of the locks (the core's stream lock and `controls_rwsem`, `chip->lock`,
   `dsp_lock`, the wait of `snd_pcm_sync_stop()`): sections are whole steps here, so
   no module could show that everyone waits on everyone.

Not modelled, and why:
- the handshake of the DSP mailbox (doorbell, READY, ACK): what the registers
  answer, and when, is not known from the repository. `Mixer` has its outcome, a
  command that is taken or times out;
- the studio console's inserts, settings lock and dim button; its EQ and dynamics
  curves are floating-point response and drawing;
- the console's meters, knobs, tabs, help and drawing: no state another part reads;
- the control tool but for its card search (`Selector`): one read or one write
  through alsa-lib, in `GuiSync` as `PollList` and `WriteOne`;
- the Electron shell: timers and signals of external processes around one window;
- probe tools and reverse-engineering scripts: offline, without state;
- installation scripts: the effects are package managers' and DKMS's.
