---------------------------- MODULE StripsProofs ----------------------------
(***************************************************************************)
(* Proofs about Strips: for every set of faders, every scale, every card   *)
(* and every snapshot, the faders, their controls and the starting points  *)
(* of relative moves stay in step, and links follow the switches.          *)
(***************************************************************************)
EXTENDS Strips, TLAPS

\* A scale clamps every integer into itself.
LEMMA ClampInScale ==
  ASSUME NEW v \in Int
  PROVE  Clamp(v) \in Vol
BY StripsAssumption DEF Clamp, Vol

\* Wherever a fader is moved to, the others end up on their scales.
LEMMA TargetInScale ==
  ASSUME TypeOK, NEW f \in Faders, NEW v \in Vol, NEW g \in Faders
  PROVE  Target(f, v, g) \in Vol
<1>1. pos[g] \in Int /\ last[f] \in Int /\ v \in Int /\ pos[g] \in Vol
  BY DEF TypeOK, Vol
<1>2. pos[g] + (v - last[f]) \in Int
  BY <1>1
<1>3. Clamp(pos[g] + (v - last[f])) \in Vol
  BY <1>2, ClampInScale
<1>. QED BY <1>1, <1>3 DEF Target

\* Recording moved faders keeps a function on its scale.
LEMMA RecordedInScale ==
  ASSUME pos' \in [Faders -> Vol], NEW old \in [Faders -> Vol]
  PROVE  Recorded(old) \in [Faders -> Vol]
BY DEF Recorded

\* Recording moved faders over what equals the old positions gives the new.
LEMMA RecordedIsPos ==
  ASSUME pos' \in [Faders -> Vol], pos \in [Faders -> Vol]
  PROVE  Recorded(pos) = pos'
BY DEF Recorded

\* Only channels are linked.
LEMMA PairsAreChannels == PairsBuilt \subseteq Channels
BY DEF PairsBuilt

\* Every variable keeps its type; in particular no fader leaves its scale.
THEOREM TypeCorrect == Spec => []TypeOK
<1>1. Init => TypeOK
  <2> SUFFICES ASSUME Init PROVE TypeOK
    OBVIOUS
  <2>1. pos \in [Faders -> Vol] /\ val \in [Faders -> Vol] /\ last \in [Faders -> Vol]
        /\ st \in [Channels -> BOOLEAN]
    BY StripsAssumption DEF Init
  <2>2. linked \subseteq Channels
    BY PairsAreChannels DEF Init
  <2>3. gang = {} /\ silent = {} /\ queued = FALSE /\ steps \in 0 .. MaxSteps
    BY StripsAssumption DEF Init
  <2>. QED BY <2>1, <2>2, <2>3 DEF TypeOK
<1>2. TypeOK /\ [Next]_vars => TypeOK'
  <2> SUFFICES ASSUME TypeOK, [Next]_vars PROVE TypeOK'
    OBVIOUS
  <2>1. ASSUME NEW f \in Faders, NEW v \in Vol, Move(f, v) PROVE TypeOK'
    <3>1. pos' \in [Faders -> Vol]
      BY <2>1, TargetInScale DEF Move
    <3>2. val' \in [Faders -> Vol] /\ last' \in [Faders -> Vol]
      BY <2>1, <3>1, RecordedInScale DEF Move, TypeOK
    <3>. QED BY <2>1, <3>1, <3>2, StripsAssumption DEF Move, TypeOK, Counted
  <2>2. ASSUME NEW f \in Faders, Gang(f) PROVE TypeOK'
    BY <2>2, StripsAssumption DEF Gang, TypeOK, Counted
  <2>3. ASSUME NEW c \in Channels, Stereo(c) PROVE TypeOK'
    BY <2>3, StripsAssumption DEF Stereo, TypeOK, Counted
  <2>4. ASSUME NEW p \in Payloads, Silent(p) PROVE TypeOK'
    <3>1. pos' \in [Faders -> Vol]
      BY <2>4, StripsAssumption DEF Silent, TypeOK
    <3>2. val' \in [Faders -> Vol] /\ last' \in [Faders -> Vol]
      BY <2>4, <3>1, RecordedInScale DEF Silent, TypeOK
    <3>3. st' \in [Channels -> BOOLEAN] /\ silent' \subseteq Channels
      BY <2>4, StripsAssumption DEF Silent, TypeOK
    <3>. QED BY <2>4, <3>1, <3>2, <3>3, StripsAssumption DEF Silent, TypeOK, Counted
  <2>5. CASE Idle
    BY <2>5, PairsAreChannels DEF Idle, Rebuilt, TypeOK
  <2>6. CASE Refresh
    <3>1. linked' \subseteq Channels /\ pos' = val /\ last' = val /\ val' = val /\ st' = st
          /\ gang' = {} /\ silent' = {} /\ queued' = FALSE
      BY <2>6, PairsAreChannels DEF Refresh, Rebuilt
    <3>2. steps' \in 0 .. MaxSteps
      BY <2>6, StripsAssumption DEF Refresh, Counted, TypeOK
    <3>. QED BY <3>1, <3>2 DEF TypeOK
  <2>7. CASE UNCHANGED vars
    BY <2>7 DEF vars, TypeOK
  <2>. QED BY <2>1, <2>2, <2>3, <2>4, <2>5, <2>6, <2>7 DEF Next
<1>. QED BY <1>1, <1>2, PTL DEF Spec

\* However moves fan out, nest and clamp, every fader shows what its control
\* holds and starts its next relative move from there.
THEOREM FadersCorrect == Spec => []FadersInStep
<1>1. Init => FadersInStep
  BY DEF Init, FadersInStep
<1>2. TypeOK /\ TypeOK' /\ FadersInStep /\ [Next]_vars => FadersInStep'
  <2> SUFFICES ASSUME TypeOK, TypeOK', FadersInStep, [Next]_vars PROVE FadersInStep'
    OBVIOUS
  <2>0. Recorded(pos) = pos'
    BY RecordedIsPos DEF TypeOK
  <2>1. ASSUME NEW f \in Faders, NEW v \in Vol, Move(f, v) PROVE FadersInStep'
    BY <2>0, <2>1 DEF Move, FadersInStep
  <2>2. ASSUME NEW f \in Faders, Gang(f) PROVE FadersInStep'
    BY <2>2 DEF Gang, FadersInStep
  <2>3. ASSUME NEW c \in Channels, Stereo(c) PROVE FadersInStep'
    BY <2>3 DEF Stereo, FadersInStep
  <2>4. ASSUME NEW p \in Payloads, Silent(p) PROVE FadersInStep'
    BY <2>0, <2>4 DEF Silent, FadersInStep
  <2>5. CASE Idle
    BY <2>5 DEF Idle, Rebuilt, FadersInStep
  <2>6. CASE Refresh
    BY <2>6 DEF Refresh, Rebuilt, FadersInStep
  <2>7. CASE UNCHANGED vars
    BY <2>7 DEF vars, FadersInStep
  <2>. QED BY <2>1, <2>2, <2>3, <2>4, <2>5, <2>6, <2>7 DEF Next
<1>. QED BY <1>1, <1>2, TypeCorrect, PTL DEF Spec

\* A rebuild links exactly the pairs whose even switch is on.
LEMMA PairsFollow ==
  ASSUME NEW c \in Channels
  PROVE  c \in PairsBuilt <=>
           /\ <<c[1], Partner(c[2])>> \in Channels
           /\ <<c[1], Even(c[2])>> \in Channels
           /\ st[<<c[1], Even(c[2])>>]
BY DEF PairsBuilt

\* Links and switches only part while a rebuild is on its way, or over a
\* switch that was set silently.
THEOREM LinksCorrect == Spec => []LinksFollowSwitches
<1>1. Init => LinksFollowSwitches
  BY PairsFollow DEF Init, LinksFollowSwitches
<1>2. TypeOK /\ LinksFollowSwitches /\ [Next]_vars => LinksFollowSwitches'
  <2> SUFFICES ASSUME TypeOK, LinksFollowSwitches, [Next]_vars PROVE LinksFollowSwitches'
    OBVIOUS
  <2>1. ASSUME NEW f \in Faders, NEW v \in Vol, Move(f, v) PROVE LinksFollowSwitches'
    BY <2>1 DEF Move, LinksFollowSwitches
  <2>2. ASSUME NEW f \in Faders, Gang(f) PROVE LinksFollowSwitches'
    BY <2>2 DEF Gang, LinksFollowSwitches
  <2>3. ASSUME NEW c \in Channels, Stereo(c) PROVE LinksFollowSwitches'
    BY <2>3 DEF Stereo, LinksFollowSwitches
  <2>4. ASSUME NEW p \in Payloads, Silent(p) PROVE LinksFollowSwitches'
    <3>1. CASE queued
      BY <2>4, <3>1 DEF Silent, LinksFollowSwitches
    <3>2. CASE ~queued
      <4> SUFFICES ASSUME NEW c \in Channels,
                          <<c[1], Even(c[2])>> \notin silent'
                   PROVE  c \in linked' <=>
                            /\ <<c[1], Partner(c[2])>> \in Channels
                            /\ <<c[1], Even(c[2])>> \in Channels
                            /\ st'[<<c[1], Even(c[2])>>]
        BY DEF LinksFollowSwitches
      <4>1. <<c[1], Even(c[2])>> \notin silent /\ <<c[1], Even(c[2])>> \notin DOMAIN p.st
        BY <2>4 DEF Silent
      <4>2. <<c[1], Even(c[2])>> \in Channels =>
              st'[<<c[1], Even(c[2])>>] = st[<<c[1], Even(c[2])>>]
        BY <2>4, <4>1 DEF Silent
      <4>3. linked' = linked
        BY <2>4 DEF Silent
      <4>. QED BY <3>2, <4>1, <4>2, <4>3 DEF LinksFollowSwitches
    <3>. QED BY <3>1, <3>2
  <2>5. ASSUME Rebuilt PROVE LinksFollowSwitches'
    <3>1. linked' = PairsBuilt /\ st' = st
      BY <2>5 DEF Rebuilt
    <3>. QED BY <3>1, PairsFollow DEF LinksFollowSwitches
  <2>6. CASE UNCHANGED vars
    BY <2>6 DEF vars, LinksFollowSwitches
  <2>. QED BY <2>1, <2>2, <2>3, <2>4, <2>5, <2>6 DEF Next, Idle, Refresh
<1>. QED BY <1>1, <1>2, TypeCorrect, PTL DEF Spec

\* A partner's partner is the channel itself, and both have the same even one.
LEMMA PartnerArithmetic ==
  ASSUME NEW n \in Nat
  PROVE  Partner(n) \in Nat /\ Partner(Partner(n)) = n /\ Even(Partner(n)) = Even(n)
BY SMTT(30) DEF Partner, Even

\* Links always come in pairs.
LinkedInPairs == \A c \in linked : <<c[1], Partner(c[2])>> \in linked

\* A build links both halves of a pair or none (Panel.reload).
LEMMA BuiltInPairs ==
  ASSUME NEW c \in PairsBuilt
  PROVE  <<c[1], Partner(c[2])>> \in PairsBuilt
<1>1. PICK f \in Faders : c = <<Section(f[1]), f[2]>>
  BY DEF PairsBuilt, Channels
<1>2. c[2] \in Nat /\ c = <<c[1], c[2]>>
  BY <1>1, StripsAssumption
<1>3. /\ <<c[1], Even(c[2])>> \in Channels /\ st[<<c[1], Even(c[2])>>]
      /\ <<c[1], Partner(c[2])>> \in Channels /\ c \in Channels
  BY DEF PairsBuilt
<1>. DEFINE m == Partner(c[2])
           d == <<c[1], m>>
<1>4. Partner(m) = c[2] /\ Even(m) = Even(c[2])
  BY <1>2, PartnerArithmetic
<1>5. d[1] = c[1] /\ d[2] = m
  OBVIOUS
<1>6. d \in Channels /\ <<d[1], Even(d[2])>> \in Channels
      /\ <<d[1], Partner(d[2])>> \in Channels /\ st[<<d[1], Even(d[2])>>]
  BY <1>2, <1>3, <1>4, <1>5
<1>. HIDE DEF d
<1>7. d \in PairsBuilt
  BY <1>6 DEF PairsBuilt
<1>. QED BY <1>7 DEF d

\* No step links one half of a pair only.
LEMMA LinkedInPairsCorrect == Spec => []LinkedInPairs
<1>1. Init => LinkedInPairs
  BY BuiltInPairs DEF Init, LinkedInPairs
<1>2. LinkedInPairs /\ [Next]_vars => LinkedInPairs'
  <2> SUFFICES ASSUME LinkedInPairs, [Next]_vars PROVE LinkedInPairs'
    OBVIOUS
  <2>1. CASE linked' = linked
    BY <2>1 DEF LinkedInPairs
  <2>2. CASE linked' = PairsBuilt
    BY <2>2, BuiltInPairs DEF LinkedInPairs
  <2>3. linked' = linked \/ linked' = PairsBuilt
    BY DEF Next, Move, Gang, Stereo, Silent, Idle, Refresh, Rebuilt, vars
  <2>. QED BY <2>1, <2>2, <2>3
<1>. QED BY <1>1, <1>2, PTL DEF Spec

\* Where every fader of a move ends up.
LEMMA MoveTargets ==
  ASSUME NEW f \in Faders, Moved(f), NEW g \in Faders
  PROVE  pos'[g] = Target(f, pos'[f], g)
BY DEF Moved, Move

\* The halves of a pair end up level, and nothing else moves.
THEOREM PairsCorrect == Spec => PairsMoveLevel
<1>1. LinkedInPairs =>
        \A f \in Faders : Moved(f) =>
          \A g \in Faders \ {f} :
            /\ Linked(f, g) => pos'[g] = pos'[f] /\ Linked(g, f)
            /\ pos'[g] # pos[g] => Linked(f, g) \/ Ganged(f, g)
  <2> SUFFICES ASSUME LinkedInPairs, NEW f \in Faders, Moved(f), NEW g \in Faders \ {f}
               PROVE  /\ Linked(f, g) => pos'[g] = pos'[f] /\ Linked(g, f)
                      /\ pos'[g] # pos[g] => Linked(f, g) \/ Ganged(f, g)
    OBVIOUS
  <2>1. pos'[g] = Target(f, pos'[f], g)
    BY MoveTargets
  <2>2. Linked(f, g) => pos'[g] = pos'[f]
    BY <2>1 DEF Target
  <2>3. pos'[g] # pos[g] => Linked(f, g) \/ Ganged(f, g)
    BY <2>1 DEF Target
  <2>4. ASSUME Linked(f, g) PROVE Linked(g, f)
    <3>1. f[2] \in Nat
      BY StripsAssumption
    <3>2. f[1] = g[1] /\ g[2] = Partner(f[2]) /\ <<Section(f[1]), f[2]>> \in linked
      BY <2>4 DEF Linked
    <3>3. f[2] = Partner(g[2])
      BY <3>1, <3>2, PartnerArithmetic
    <3>4. <<Section(g[1]), g[2]>> \in linked
      BY <3>2 DEF LinkedInPairs
    <3>. QED BY <3>2, <3>3, <3>4 DEF Linked
  <2>. QED BY <2>2, <2>3, <2>4
<1>. QED BY <1>1, LinkedInPairsCorrect, PTL DEF PairsMoveLevel

\* Ganged strips keep their offsets away from the ends of the scale, in their
\* own mix only.
THEOREM GangsCorrect == Spec => GangKeepsOffsets
<1>1. TypeOK /\ TypeOK' /\ FadersInStep =>
        \A f \in Faders : Moved(f) =>
          /\ \A g \in Faders : pos'[g] # pos[g] => g[1] = f[1]
          /\ \A g \in Faders : Ganged(f, g) /\ ~Linked(f, g) /\ pos'[g] \notin {Lo, Hi} =>
               pos'[g] - pos'[f] = pos[g] - pos[f]
  <2> SUFFICES ASSUME TypeOK, TypeOK', FadersInStep,
                      NEW f \in Faders, Moved(f), NEW g \in Faders
               PROVE  /\ pos'[g] # pos[g] => g[1] = f[1]
                      /\ Ganged(f, g) /\ ~Linked(f, g) /\ pos'[g] \notin {Lo, Hi} =>
                           pos'[g] - pos'[f] = pos[g] - pos[f]
    OBVIOUS
  <2>1. pos'[g] = Target(f, pos'[f], g)
    BY MoveTargets
  <2>2. pos'[g] # pos[g] => g[1] = f[1]
    BY <2>1 DEF Target, Linked, Ganged
  <2>3. ASSUME Ganged(f, g), ~Linked(f, g), pos'[g] \notin {Lo, Hi}
        PROVE  pos'[g] - pos'[f] = pos[g] - pos[f]
    <3>1. pos[f] \in Int /\ pos[g] \in Int /\ pos'[f] \in Int /\ last[f] = pos[f]
      BY DEF TypeOK, FadersInStep, Vol
    <3>2. g # f
      BY <2>3 DEF Ganged
    <3>3. pos'[g] = Clamp(pos[g] + (pos'[f] - last[f]))
      BY <2>1, <2>3, <3>2 DEF Target
    <3>4. pos'[g] = pos[g] + (pos'[f] - last[f])
      BY <2>3, <3>3 DEF Clamp
    <3>. QED BY <3>1, <3>4
  <2>. QED BY <2>2, <2>3
<1>. QED BY <1>1, TypeCorrect, FadersCorrect, PTL DEF GangKeepsOffsets
=============================================================================
