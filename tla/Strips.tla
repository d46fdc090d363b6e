------------------------------- MODULE Strips -------------------------------
(***************************************************************************)
(* The faders of the GTK console (motu424-gui.legacy.py) that move         *)
(* together: send faders linked into stereo pairs or ganged by the user,   *)
(* and output faders linked into pairs.                                    *)
(*                                                                         *)
(* A fader is <<bus, channel>>; Out stands for the outputs page, the other *)
(* buses for the mixes. A channel is its index in its bank, so that the    *)
(* partner of an even one is the next. One handler is one step, with the   *)
(* handlers it nests: set_value() on another fader runs that fader's own   *)
(* handler before it returns. GuiSync has the way of a value to the card;  *)
(* here a write is done when it is asked for.                              *)
(***************************************************************************)
EXTENDS Integers

CONSTANTS
  Faders,     \* <<bus, channel>> of every fader
  Out,        \* the bus that stands for the outputs page
  Lo, Hi,     \* the scale: c["min"], c["max"]
  Cards,      \* the settings a card may have when the console is built
  Payloads,   \* what a snapshot, a scene, an undo or the poll sets
  MaxSteps    \* bound: user actions and silent changes

Buses == {f[1] : f \in Faders}
Vol == Lo .. Hi

\* tok_partner: the other half of an even/odd pair.
Even(n) == n - (n % 2)
Partner(n) == IF n % 2 = 0 THEN n + 1 ELSE n - 1

\* The dictionaries of channels: inputs and outputs pair on their own.
Section(k) == IF k = Out THEN "out" ELSE "in"
Channels == {<<Section(f[1]), f[2]>> : f \in Faders}

ASSUME StripsAssumption ==
  /\ \A f \in Faders : f = <<f[1], f[2]>> /\ f[2] \in Nat
  /\ Lo \in Int /\ Hi \in Int /\ Lo <= Hi
  /\ \A c \in Cards : c.vol \in [Faders -> Vol] /\ c.st \in [Channels -> BOOLEAN]
  /\ \A p \in Payloads :
       /\ DOMAIN p.vol \subseteq Faders /\ \A f \in DOMAIN p.vol : p.vol[f] \in Vol
       /\ DOMAIN p.st \subseteq Channels /\ \A c \in DOMAIN p.st : p.st[c] \in BOOLEAN
  /\ MaxSteps \in Nat

VARIABLES
  pos,     \* the faders' positions (_send_scales, _out_scales)
  val,     \* their controls' values: _byname, and the card's
  last,    \* _last_val: where the next relative move of a fader starts from
  st,      \* the channels' Stereo Switches
  linked,  \* _pair_of, _out_pair_of: the channels that have a partner now
  gang,    \* _gang
  queued,  \* a reload waits in the main loop (GLib.idle_add)
  silent,  \* history: the switches set silently since the last reload
  steps

vars == <<pos, val, last, st, linked, gang, queued, silent, steps>>

Clamp(v) == IF v < Lo THEN Lo ELSE IF v > Hi THEN Hi ELSE v
Counted == steps < MaxSteps /\ steps' = steps + 1

---------------------------------------------------------------------------
(* Rebuilding.                                                             *)

\* An even channel's switch pairs it with the next one in its bank.
PairsBuilt ==
  {c \in Channels : LET e == <<c[1], Even(c[2])>> IN
     e \in Channels /\ <<c[1], Partner(c[2])>> \in Channels /\ st[e]}

\* The console has just been built on a card.
Init ==
  /\ \E c \in Cards : val = c.vol /\ st = c.st
  /\ pos = val /\ last = val
  /\ linked = PairsBuilt
  /\ gang = {}
  /\ queued = FALSE
  /\ silent = {}
  /\ steps = 0

\* reload(), queued by a stereo button, by the refresh button or the poll.
Rebuilt ==
  /\ pos' = val /\ last' = val
  /\ linked' = PairsBuilt
  /\ gang' = {}
  /\ queued' = FALSE
  /\ silent' = {}
  /\ UNCHANGED <<val, st>>

Idle == queued /\ Rebuilt /\ UNCHANGED steps
Refresh == Counted /\ Rebuilt

---------------------------------------------------------------------------
(* A fader moved by its user: _on_fader, then _fan_send or _fan_out.       *)

Linked(f, g) ==
  f[1] = g[1] /\ g[2] = Partner(f[2]) /\ <<Section(f[1]), f[2]>> \in linked
GangedAnywhere(f, g) == f # g /\ f \in gang /\ g \in gang
Ganged(f, g) == f # g /\ f[1] = g[1] /\ f \in gang /\ g \in gang

\* Where fader g ends up when f is moved to v: a partner at the same place,
\* a ganged one as far from where it was, clamped by its scale.
TargetGangFirst(f, v, g) ==
  IF g = f THEN v
  ELSE IF Ganged(f, g) THEN Clamp(pos[g] + (v - last[f]))
  ELSE IF Linked(f, g) THEN v
  ELSE pos[g]
Target(f, v, g) ==
  IF g = f \/ Linked(f, g) THEN v
  ELSE IF Ganged(f, g) THEN Clamp(pos[g] + (v - last[f]))
  ELSE pos[g]

\* Every fader that moves runs its handler: it records the value and writes
\* it, but only the first one fans out.
Recorded(old) == [g \in Faders |-> IF pos'[g] # pos[g] THEN pos'[g] ELSE old[g]]

MoveForgetsNested(f, v) ==
  /\ v # pos[f]
  /\ Counted
  /\ pos' = [g \in Faders |-> Target(f, v, g)]
  /\ val' = Recorded(val)
  /\ last' = [last EXCEPT ![f] = v]
  /\ UNCHANGED <<st, linked, gang, queued, silent>>
Move(f, v) ==
  /\ v # pos[f]
  /\ Counted
  /\ pos' = [g \in Faders |-> Target(f, v, g)]
  /\ val' = Recorded(val)
  /\ last' = Recorded(last)
  /\ UNCHANGED <<st, linked, gang, queued, silent>>

\* _on_gang: the G button of a send strip.
Gang(f) ==
  /\ f[1] # Out
  /\ Counted
  /\ gang' = IF f \in gang THEN gang \ {f} ELSE gang \cup {f}
  /\ UNCHANGED <<pos, val, last, st, linked, queued, silent>>

\* The ST button of an input or output strip.
StereoNoReload(c) ==
  /\ Counted
  /\ st' = [st EXCEPT ![c] = ~@]
  /\ UNCHANGED <<pos, val, last, linked, gang, queued, silent>>
Stereo(c) ==
  /\ Counted
  /\ st' = [st EXCEPT ![c] = ~@]
  /\ queued' = TRUE
  /\ UNCHANGED <<pos, val, last, linked, gang, silent>>

\* _apply_snapshot and _poll_done: widgets set while _syncing. Handlers run
\* and record the value; nothing fans out and no reload is queued.
Silent(p) ==
  /\ Counted
  /\ pos' = [g \in Faders |-> IF g \in DOMAIN p.vol THEN p.vol[g] ELSE pos[g]]
  /\ val' = Recorded(val)
  /\ last' = Recorded(last)
  /\ st' = [c \in Channels |-> IF c \in DOMAIN p.st THEN p.st[c] ELSE st[c]]
  /\ silent' = silent \cup DOMAIN p.st
  /\ UNCHANGED <<linked, gang, queued>>

---------------------------------------------------------------------------
Next ==
  \/ \E f \in Faders, v \in Vol : Move(f, v)
  \/ \E f \in Faders : Gang(f)
  \/ \E c \in Channels : Stereo(c)
  \/ \E p \in Payloads : Silent(p)
  \/ Idle \/ Refresh

Spec == Init /\ [][Next]_vars /\ WF_vars(Idle)

---------------------------------------------------------------------------
(* Properties.                                                             *)

TypeOK ==
  /\ pos \in [Faders -> Vol] /\ val \in [Faders -> Vol] /\ last \in [Faders -> Vol]
  /\ st \in [Channels -> BOOLEAN]
  /\ linked \subseteq Channels
  /\ gang \subseteq {f \in Faders : f[1] # Out}
  /\ queued \in BOOLEAN
  /\ silent \subseteq Channels
  /\ steps \in 0 .. MaxSteps

\* However moves fan out, nest and clamp, and whatever the poll and snapshots
\* set in between, each fader shows what its control holds and starts its
\* next relative move from there ("each handler writes it out").
FadersInStep == val = pos /\ last = pos

\* The user has moved f.
Moved(f) == pos'[f] # pos[f] /\ Move(f, pos'[f])

\* "Ganged strips in this mix move together, keeping their relative offsets":
\* two strips that were not themselves moved and are not the moved strip's
\* pair keep their distance unless one of them came to an end of its scale,
\* and no strip of another mix moves.
GangKeepsOffsets ==
  [][\A f \in Faders : Moved(f) =>
       /\ \A g \in Faders : pos'[g] # pos[g] => g[1] = f[1]
       /\ \A g \in Faders : Ganged(f, g) /\ ~Linked(f, g) /\ pos'[g] \notin {Lo, Hi} =>
            pos'[g] - pos'[f] = pos[g] - pos[f]]_vars

\* Whichever half the user takes, the halves of a pair end up level, also
\* when they are ganged as well, and an unlinked, unganged strip stays alone.
PairsMoveLevel ==
  [][\A f \in Faders : Moved(f) =>
       \A g \in Faders \ {f} :
         /\ Linked(f, g) => pos'[g] = pos'[f] /\ Linked(g, f)
         /\ pos'[g] # pos[g] => Linked(f, g) \/ Ganged(f, g)]_vars

\* A pair is linked just when its even channel's switch is on, or a reload
\* is on its way, or the switch was set silently by the poll, a snapshot or
\* an undo, which leave the links as they are until the next reload.
LinksFollowSwitches ==
  queued \/ \A c \in Channels :
    LET e == <<c[1], Even(c[2])>> IN
      e \notin silent =>
        (c \in linked <=> <<c[1], Partner(c[2])>> \in Channels /\ e \in Channels /\ st[e])

=============================================================================
