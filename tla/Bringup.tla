------------------------------ MODULE Bringup ------------------------------
(***************************************************************************)
(* Probe and teardown of one card (motu424_probe, motu424_hw_init and      *)
(* motu424_hw_shutdown), with the device-managed resources the kernel      *)
(* releases in reverse order, the interrupt handler on a shared line, and  *)
(* streams as far as they enable the card.                                 *)
(***************************************************************************)
EXTENDS Windows, Sequences

CONSTANTS
  Setups,   \* cards and module parameters: [bars, over, pcie, audio]
  Slots,    \* SNDRV_CARDS
  Enabled   \* slots enabled by the `enable` parameter

ASSUME BringupAssumption ==
  /\ \A s \in Setups :
       /\ s.bars \in Bars /\ s.over \in [{"port", "a", "b"} -> Int]
       /\ s.pcie \in BOOLEAN /\ s.audio \in BOOLEAN
  /\ Slots \in Nat \ {0}
  /\ Enabled \subseteq 0 .. Slots - 1

VARIABLES
  setup,    \* the card and the parameters: audio, its addresses were given
  roles,    \* chip->port, win_a, win_b
  mode,     \* the device: unbound, probing, unwinding or bound
  next,     \* index in ProbeOrder of probe's next step
  held,     \* managed resources, oldest first
  slot,     \* `static int dev` of motu424_probe
  engine,   \* the card: "off", "on" by a stream, "left" on before the driver
  raised,   \* has the card an interrupt pending?
  handling, \* is the interrupt handler between its entry and its return?
  armed     \* history: has this probe registered the shutdown action?

vars == <<setup, roles, mode, next, held, slot, engine, raised, handling, armed>>

---------------------------------------------------------------------------
(* Probe.                                                                  *)

\* The steps of motu424_probe() once it has a slot. Those in Managed leave
\* something to release; mixer_init is part of "pcm", which may fail likewise.
IrqFirst == <<"card", "enable", "bars", "vectors", "irq", "hw_init", "shutdown", "pcm", "register">>
ShutdownFirst == <<"card", "enable", "bars", "hw_init", "shutdown", "vectors", "irq", "pcm", "register">>
ProbeOrder == <<"card", "enable", "bars", "hw_init", "vectors", "irq", "shutdown", "pcm", "register">>

Managed == {"card", "enable", "bars", "vectors", "irq", "shutdown", "register"}
Held(r) == \E i \in DOMAIN held : held[i] = r

\* A card that an earlier driver or system may have left enabled.
Init ==
  /\ setup \in Setups
  /\ roles = NoRoles
  /\ mode = "unbound"
  /\ next = 1
  /\ held = <<>>
  /\ slot = 0
  /\ engine \in {"off", "left"}
  /\ raised = FALSE
  /\ handling = FALSE
  /\ armed = FALSE

\* The kernel binds the driver: -ENODEV past the last slot.
SlotFreeAlways == TRUE
SlotFree == slot < Slots
Probe ==
  /\ mode = "unbound" /\ SlotFree
  /\ IF slot \in Enabled
       THEN mode' = "probing" /\ next' = 1 /\ armed' = FALSE /\ slot' = slot
       ELSE slot' = slot + 1 /\ UNCHANGED <<mode, next, armed>>  \* -ENOENT
  /\ UNCHANGED <<setup, roles, held, engine, raised, handling>>

\* motu424_hw_shutdown(): writes 0 to the audio enable register, if its address
\* is known, and to the port's CTRL, if there is a port. What CTRL alone does to
\* a card that was left enabled the driver does not say: both are possible.
CanQuiesce == roles.b # None /\ setup.audio
Quiesced ==
  IF CanQuiesce THEN {"off"}
  ELSE {engine} \cup (IF roles.b # None /\ roles.port # None THEN {"off"} ELSE {})

Step == ProbeOrder[next]

\* The next step succeeds. motu424_hw_init() goes on whatever becomes of the
\* firmware and of the DSP, and leaves the enable register alone.
ProbeStep ==
  /\ mode = "probing"
  /\ roles' = IF Step = "hw_init" THEN AssignWindows(setup.bars, setup.over, setup.pcie) ELSE roles
  /\ Step = "hw_init" => roles'.b # None
  /\ held' = IF Step \in Managed THEN Append(held, Step) ELSE held
  /\ armed' = (armed \/ Step = "shutdown")
  /\ IF next = Len(ProbeOrder) THEN mode' = "bound" /\ next' = 1 /\ slot' = slot + 1
     ELSE next' = next + 1 /\ UNCHANGED <<mode, slot>>
  /\ UNCHANGED <<setup, engine, raised, handling>>

\* It fails: probe returns, and the core releases what is held. An action
\* that cannot be registered is run at once (devm_add_action_or_reset).
ProbeFails ==
  /\ mode = "probing"
  /\ roles' = IF Step = "hw_init" THEN AssignWindows(setup.bars, setup.over, setup.pcie) ELSE roles
  /\ Step = "hw_init" => roles'.b = None
  /\ mode' = "unwinding"
  /\ engine' \in IF Step = "shutdown" THEN Quiesced ELSE {engine}
  /\ UNCHANGED <<setup, next, held, slot, raised, handling, armed>>

---------------------------------------------------------------------------
(* Teardown.                                                               *)

Unbind ==
  /\ mode = "bound"
  /\ mode' = "unwinding"
  /\ UNCHANGED <<setup, roles, next, held, slot, engine, raised, handling, armed>>

\* The core releases the newest resource: freeing a registered card stops its
\* streams, the action shuts the hardware down, free_irq() waits for the
\* handler, and chip goes with the card.
Release ==
  /\ mode = "unwinding" /\ held # <<>>
  /\ LET r == held[Len(held)] IN
       /\ r = "irq" => ~handling
       /\ engine' \in CASE r = "register" -> {IF engine = "on" THEN "off" ELSE engine}
                        [] r = "shutdown" -> Quiesced
                        [] OTHER -> {engine}
       /\ roles' = IF r = "card" THEN NoRoles ELSE roles
  /\ held' = SubSeq(held, 1, Len(held) - 1)
  /\ UNCHANGED <<setup, mode, next, slot, raised, handling, armed>>

Unwound ==
  /\ mode = "unwinding" /\ held = <<>>
  /\ mode' = "unbound"
  /\ next' = 1
  /\ UNCHANGED <<setup, roles, held, slot, engine, raised, handling, armed>>

---------------------------------------------------------------------------
(* The bound card.                                                         *)

\* The first stream starts; without the addresses prepare refuses.
StreamStart ==
  /\ mode = "bound" /\ setup.audio /\ engine # "on"
  /\ engine' = "on"
  /\ UNCHANGED <<setup, roles, mode, next, held, slot, raised, handling, armed>>

\* The last one stops.
StreamStop ==
  /\ mode = "bound" /\ engine = "on"
  /\ engine' = "off"
  /\ UNCHANGED <<setup, roles, mode, next, held, slot, raised, handling, armed>>

CardRaise ==
  /\ engine # "off" /\ ~raised
  /\ raised' = TRUE
  /\ UNCHANGED <<setup, roles, mode, next, held, slot, engine, handling, armed>>

\* The line is shared: the handler is called for other devices as well.
HandlerEnter ==
  /\ Held("irq") /\ ~handling
  /\ handling' = TRUE
  /\ UNCHANGED <<setup, roles, mode, next, held, slot, engine, raised, armed>>

\* motu424_hw_irq_ack(): ours by the port's word; without a port, on PCIe, if
\* a stream runs. A classic card without one is never heard, and without the
\* addresses nothing is acknowledged.
HandlerReturn ==
  /\ handling
  /\ handling' = FALSE
  /\ raised' = (raised /\ ~(setup.audio /\ (roles.port # None \/ (setup.pcie /\ engine = "on"))))
  /\ UNCHANGED <<setup, roles, mode, next, held, slot, engine, armed>>

Next ==
  \/ Probe \/ ProbeStep \/ ProbeFails
  \/ Unbind \/ Release \/ Unwound
  \/ StreamStart \/ StreamStop
  \/ CardRaise \/ HandlerEnter \/ HandlerReturn

Spec == Init /\ [][Next]_vars

---------------------------------------------------------------------------
(* Properties.                                                             *)

TypeOK ==
  /\ setup \in Setups
  /\ roles \in Roles
  /\ mode \in {"unbound", "probing", "unwinding", "bound"}
  /\ next \in DOMAIN ProbeOrder
  /\ held \in Seq(Managed)
  /\ slot \in 0 .. Slots
  /\ engine \in {"off", "on", "left"}
  /\ raised \in BOOLEAN /\ handling \in BOOLEAN /\ armed \in BOOLEAN

AllAutomatic == \A r \in DOMAIN setup.over : setup.over[r] = None

\* The windows are those the comment of motu424_assign_windows() describes,
\* in whatever order the BARs come: a lone MMIO BAR is window B, of several
\* the first large one is A and the first of the others B, the first I/O BAR
\* is the port; and an override of window B or of the port is honoured.
WindowsAsDescribed ==
  roles.b # None =>
    LET mem == Mem(setup.bars)
        large == {i \in mem : setup.bars[i].len >= WinALen}
        io == {i \in BarIndex : setup.bars[i].kind = "io"}
        IsFirst(i, S) == IF S = {} THEN i = None ELSE i \in S /\ \A j \in S : i <= j
    IN  IF AllAutomatic
          THEN /\ IsFirst(roles.port, io)
               /\ IF \E i \in mem : mem = {i} THEN roles.a = None /\ roles.b \in mem
                  ELSE IsFirst(roles.a, large) /\ IsFirst(roles.b, mem \ {roles.a})
          ELSE /\ \A r \in {"port", "b"} :
                    Overridden(setup.bars, setup.over)[r] # None => roles[r] = setup.over[r]
               /\ roles.a # None => roles.a \in mem \cup {setup.over.a}

\* When every MMIO BAR is at least as long as window B and none was chosen by
\* hand, an access stays inside its BAR, whatever the card address.
DispatchStaysInside ==
  roles.b # None /\ AllAutomatic /\ (\A i \in Mem(setup.bars) : setup.bars[i].len >= WinBLen) =>
    \A addr \in 0 .. 4 * WinALen - 1 :
      LET d == Dispatch(roles, addr) IN
        setup.bars[d.bar].kind = "mem" /\ d.off < setup.bars[d.bar].len

\* The handler, which the shared line may call at any moment from
\* devm_request_irq() until free_irq() has returned, finds the windows
\* assigned and mapped and the card structure there, however far probe got.
HandlerFindsCard ==
  Held("irq") \/ handling => roles.b # None /\ Held("bars") /\ Held("card")

\* Once probe has registered the shutdown action, the line loses its handler
\* only after the card has been disabled, even one that was left enabled
\* before the driver came, if the address of its enable register was given:
\* "so it runs first on teardown".
QuietWhenFreed ==
  [][Held("irq") /\ ~Held("irq")' /\ armed /\ CanQuiesce => engine' = "off"]_vars

=============================================================================
