------------------------------ MODULE CardIrq ------------------------------
(***************************************************************************)
(* The path of a PC Card interrupt on the DataRover board:                 *)
(*                                                                         *)
(*   NE2000 isr/imr -> Glacier pin -> Glacier edge latch and enable        *)
(*     -> one line shared by both controllers -> TX39 ICU -> CPU           *)
(*                                                                         *)
(* Every stage remembers edges, and the stages are refreshed by            *)
(* card_irq_update only: on each guest access to a controller or to a card *)
(* and once per iteration of the machine loop, the latter while some slot  *)
(* holds a card.  The guest is any sequence of register accesses; the host *)
(* inserts and ejects cards between two runs of the loop.                  *)
(***************************************************************************)
EXTENDS Naturals, Glacier

CONSTANTS Slots,        \* the PC Card slots
          Kinds,        \* the card kinds the host may insert
          RiseMasks,    \* the values the guest writes to a rise enable
          FallMasks,    \* the values the guest writes to a fall enable
          AckMasks,     \* the values it writes to a pending word
          MaxChanges    \* bound on insertions, ejections and resumes

IoKind == "ne2000"
AllKinds == {"memory", "sram", IoKind}
NoCard == "none"

ASSUME KindsAssumption == Kinds \subseteq AllKinds
ASSUME MasksAssumption == /\ RiseMasks \subseteq SUBSET Events
                          /\ FallMasks \subseteq SUBSET Events
                          /\ AckMasks \subseteq SUBSET Events

CardIrqs == {"CARDDIRPOS"}
INSTANCE Tx39Icu WITH Irqs <- CardIrqs, HighIrqs <- {}

\* "rx" stands for what the machine loop sets in the NE2000's ISR (receive,
\* transmit done, overrun), "rdc" for what a guest access sets (DMA done).
NicEvents == {"rx", "rdc"}
NicType == [isr : SUBSET NicEvents, imr : SUBSET NicEvents]
NicReset == [isr |-> {}, imr |-> {}]
NicIrq(n) == n.isr \cap n.imr # {}

VARIABLES kind,       \* kind[s]: the card in the slot, or NoCard
          cardIn,     \* cardIn[s]: its detect lines are closed
          nic,        \* nic[s]: the NE2000's isr and imr
          glacier,    \* glacier[s]: the slot's controller
          line,       \* bit 1 of io_datain, shared by the controllers
          icu,
          changes,    \* insertions, ejections and resumes so far
          \* The guest's debts, which no code keeps.
          ackedLow,   \* ackedLow[s]: acknowledged the IRQ edge, pin still low
          ackedHigh   \* cleared the ICU latch, line still high

board == <<kind, cardIn, nic, glacier, line, icu>>
vars == <<board, changes, ackedLow, ackedHigh>>

TypeOK ==
  /\ kind \in [Slots -> AllKinds \cup {NoCard}]
  /\ cardIn \in [Slots -> BOOLEAN]
  /\ nic \in [Slots -> NicType]
  /\ glacier \in [Slots -> GlacierType]
  /\ line \in BOOLEAN
  /\ icu \in IcuType
  /\ ackedLow \in [Slots -> BOOLEAN]
  /\ ackedHigh \in BOOLEAN

Init ==
  /\ kind = [s \in Slots |-> NoCard]
  /\ cardIn = [s \in Slots |-> FALSE]
  /\ nic = [s \in Slots |-> NicReset]
  /\ glacier = [s \in Slots |-> GlacierInit]
  /\ line = FALSE
  /\ icu = IcuInit
  /\ changes = 0
  /\ ackedLow = [s \in Slots |-> FALSE]
  /\ ackedHigh = FALSE

-----------------------------------------------------------------------------
\* card_irq_update on controllers gl, cards n and detect lines in: the pins
\* follow the cards, the shared line follows the controllers, and the ICU
\* sees the line's rising edge.
PinsFollow(gl, n, in) ==
  [s \in Slots |-> IF in[s] /\ kind[s] = IoKind
                   THEN SetCardIrq(gl[s], NicIrq(n[s]))
                   ELSE gl[s]]

Asserted(gl) == \E s \in Slots : GlacierIrq(gl[s])

\* Wrong on purpose: the pins are driven before the card is accessed.
CardIrqUpdateEarly(gl, n, in) ==
  LET new == PinsFollow(gl, nic, in)
  IN /\ glacier' = new
     /\ line' = Asserted(new)
     /\ icu' = IF Asserted(new) /\ ~line THEN IcuRaise(icu, CardIrqs) ELSE icu

CardIrqUpdate(gl, n, in) ==
  LET new == PinsFollow(gl, n, in)
  IN /\ glacier' = new
     /\ line' = Asserted(new)
     /\ icu' = IF Asserted(new) /\ ~line THEN IcuRaise(icu, CardIrqs) ELSE icu

\* The guest's debts are paid when the pin or the line goes back.
Debts(acks) ==
  /\ ackedLow' = [s \in Slots |-> /\ "irq" \notin glacier'[s].pins
                                  /\ ackedLow[s] \/ s \in acks]
  /\ ackedHigh' = (ackedHigh /\ line')

-----------------------------------------------------------------------------
\* Guest accesses to a controller: glacier_write.
\* Wrong on purpose: the write leaves the line to the next loop iteration.
GuestWritesGlacierLazily(s, g, acks) ==
  /\ glacier' = [glacier EXCEPT ![s] = g]
  /\ UNCHANGED <<line, icu>>
  /\ Debts(acks)
  /\ UNCHANGED <<kind, cardIn, nic, changes>>

GuestWritesGlacier(s, g, acks) ==
  /\ CardIrqUpdate([glacier EXCEPT ![s] = g], nic, cardIn)
  /\ Debts(acks)
  /\ UNCHANGED <<kind, cardIn, nic, changes>>

GuestEnablesRise(s, evs) ==
  GuestWritesGlacier(s, WriteRiseEnable(glacier[s], evs), {})

GuestEnablesFall(s, evs) ==
  GuestWritesGlacier(s, WriteFallEnable(glacier[s], evs), {})

GuestAcksRise(s, evs) ==
  /\ evs \cap glacier[s].rise # {}
  /\ GuestWritesGlacier(s, AckRise(glacier[s], evs), {})

GuestAcksFall(s, evs) ==
  /\ evs \cap glacier[s].fall # {}
  /\ GuestWritesGlacier(s, AckFall(glacier[s], evs),
                        IF "irq" \in evs THEN {s} ELSE {})

\* Guest accesses to a card's windows: card_read and card_write.  With the
\* detect lines open nothing answers, and the update happens all the same: an
\* ejection leaves the windows routed to card_read (map_card).  Only a slot that
\* never held a card has none; updating the board there as well only adds steps.
\* Wrong on purpose: as before the fix NETWORKING.md:422-428 tells of, only
\* the loop samples the card.
GuestAccessesCardUnsampled(s, n) ==
  /\ nic' = IF cardIn[s] /\ kind[s] = IoKind THEN [nic EXCEPT ![s] = n] ELSE nic
  /\ UNCHANGED <<kind, cardIn, glacier, line, icu, changes, ackedLow, ackedHigh>>

GuestAccessesCard(s, n) ==
  LET after == IF cardIn[s] /\ kind[s] = IoKind
               THEN [nic EXCEPT ![s] = n] ELSE nic
  IN /\ nic' = after
     /\ CardIrqUpdate(glacier, after, cardIn)
     /\ Debts({})
     /\ UNCHANGED <<kind, cardIn, changes>>

GuestAcksNic(s, evs) ==
  GuestAccessesCard(s, [nic[s] EXCEPT !.isr = @ \ evs])

GuestMasksNic(s, evs) ==
  GuestAccessesCard(s, [nic[s] EXCEPT !.imr = evs])

GuestResetsNic(s) == GuestAccessesCard(s, NicReset)

GuestFinishesDma(s) ==
  GuestAccessesCard(s, [nic[s] EXCEPT !.isr = @ \cup {"rdc"}])

\* Guest accesses to the ICU.
GuestClearsIcu ==
  /\ icu.status # {}
  /\ icu' = IcuClear(icu, CardIrqs)
  /\ ackedHigh' = line
  /\ UNCHANGED <<kind, cardIn, nic, glacier, line, changes, ackedLow>>

GuestEnablesIcu(irqs) ==
  /\ icu' = IcuEnable(icu, CardIrqs, irqs)
  /\ UNCHANGED <<kind, cardIn, nic, glacier, line, changes, ackedLow, ackedHigh>>

-----------------------------------------------------------------------------
\* The card part of one iteration of mh_machine_run: detect lines close for
\* the cards whose time has come, the NE2000s run, and the board is updated.
SlotArrives(s, g) ==
  LET present == SetPresent(g, TRUE)
  IN IF kind[s] = "sram" THEN SetMemoryInputs(present, {"irq", "bvd"})
                         ELSE present

SlotTicked(s, arrives, in) ==
  LET g == IF s \in arrives THEN SlotArrives(s, glacier[s]) ELSE glacier[s]
  IN IF in[s] /\ kind[s] = IoKind THEN SetReadyIrq(g, TRUE) ELSE g

MachineTick(arrives, receives) ==
  LET in == [s \in Slots |-> cardIn[s] \/ s \in arrives]
      n == [s \in Slots |-> IF s \in receives
                            THEN [nic[s] EXCEPT !.isr = @ \cup {"rx"}]
                            ELSE nic[s]]
      g == [s \in Slots |-> SlotTicked(s, arrives, in)]
  IN /\ \E s \in Slots : kind[s] # NoCard
     /\ arrives \subseteq {s \in Slots : kind[s] # NoCard /\ ~cardIn[s]}
     /\ receives \subseteq {s \in Slots : in[s] /\ kind[s] = IoKind}
     /\ cardIn' = in
     /\ nic' = n
     /\ CardIrqUpdate(g, n, in)
     /\ Debts({})
     /\ UNCHANGED <<kind, changes>>

-----------------------------------------------------------------------------
\* The host, between two runs of the loop.
CountChange == changes < MaxChanges /\ changes' = changes + 1

InsertCard(s, k) ==
  /\ kind[s] = NoCard
  /\ kind' = [kind EXCEPT ![s] = k]
  /\ nic' = [nic EXCEPT ![s] = NicReset]
  /\ CountChange
  /\ UNCHANGED <<cardIn, glacier, line, icu, ackedLow, ackedHigh>>

\* mh_machine_eject_card: the controller sees the departure; nobody calls
\* card_irq_update.
EjectCard(s) ==
  /\ kind[s] # NoCard
  /\ glacier' = [glacier EXCEPT ![s] =
                   SetMemoryInputs(SetPresent(@, FALSE), {})]
  /\ cardIn' = [cardIn EXCEPT ![s] = FALSE]
  /\ kind' = [kind EXCEPT ![s] = NoCard]
  /\ nic' = [nic EXCEPT ![s] = NicReset]
  /\ UNCHANGED <<line, icu>>
  /\ Debts({})
  /\ CountChange

\* mh_suspend_save followed by mh_suspend_load in a session configured with
\* another card in slot s: the registers come back as they were, then the
\* controller sees the departure.
ResumeWithOtherCard(s, k) ==
  /\ k # kind[s]
  /\ glacier' = [glacier EXCEPT ![s] = SetPresent(@, FALSE)]
  /\ cardIn' = [cardIn EXCEPT ![s] = FALSE]
  /\ kind' = [kind EXCEPT ![s] = k]
  /\ nic' = [nic EXCEPT ![s] = NicReset]
  /\ CountChange
  /\ UNCHANGED <<line, icu, ackedLow, ackedHigh>>

-----------------------------------------------------------------------------
Guest ==
  \/ \E s \in Slots :
       \/ \E evs \in RiseMasks : GuestEnablesRise(s, evs)
       \/ \E evs \in FallMasks : GuestEnablesFall(s, evs)
       \/ \E evs \in AckMasks : GuestAcksRise(s, evs)
       \/ \E evs \in AckMasks : GuestAcksFall(s, evs)
       \/ \E evs \in SUBSET NicEvents : GuestAcksNic(s, evs)
       \/ \E evs \in SUBSET NicEvents : GuestMasksNic(s, evs)
       \/ GuestResetsNic(s)
       \/ GuestFinishesDma(s)
  \/ GuestClearsIcu
  \/ \E irqs \in SUBSET CardIrqs : GuestEnablesIcu(irqs)

Loop == \E arrives, receives \in SUBSET Slots : MachineTick(arrives, receives)

Host ==
  \E s \in Slots :
    \/ \E k \in Kinds : InsertCard(s, k)
    \/ EjectCard(s)
    \/ \E k \in Kinds \cup {NoCard} : ResumeWithOtherCard(s, k)

Next == Guest \/ Loop \/ Host

Spec == Init /\ [][Next]_vars

-----------------------------------------------------------------------------
\* The interrupt pin of a card that is in shows that card's request, at every
\* point where the guest or the host can look (card_irq_update is called on
\* every path that changes isr or imr).
PinFollowsCard ==
  \A s \in Slots : cardIn[s] /\ kind[s] = IoKind =>
    (("irq" \in glacier[s].pins) = ~NicIrq(nic[s]))

\* A card's request that the guest has enabled and has not acknowledged at
\* the controller or at the ICU is latched in the ICU: no order of guest
\* accesses, loop iterations, insertions and ejections loses the edge
\* (machine.c:12-16 is about the orders that once did).
NoLostCardIrq ==
  \A s \in Slots :
    /\ cardIn[s]
    /\ NicIrq(nic[s])
    /\ "irq" \in glacier[s].fallEn
    /\ ~ackedLow[s]
    /\ ~ackedHigh
    => CardIrqs \subseteq icu.status

\* The CPU's interrupt input is what the ICU's registers call for, although
\* mh_icu_raise skips the update when the bit is already latched.
CpuLineFollowsIcu == LinesFollow(icu)

\* The shared line is never high without an enabled edge behind it, and is
\* low with one behind it only for a slot that has lost its card.
LineLagsOnRemovalOnly ==
  /\ line => Asserted(glacier)
  /\ \A s \in Slots : GlacierIrq(glacier[s]) /\ cardIn[s] => line

-----------------------------------------------------------------------------
\* What an arbitrary step needs to keep the properties above.

\* Closed detect lines mean a card.
NoEmptyDetect == \A s \in Slots : cardIn[s] => kind[s] # NoCard

\* A slot whose detect lines are open holds no card that could ask for the
\* guest, and only a network card has an interrupt mask.
NoGhostCard ==
  \A s \in Slots : (~cardIn[s] \/ kind[s] # IoKind) => nic[s].imr = {}

\* A request pin that is low because of a card is latched, or was acknowledged.
FallLatched ==
  \A s \in Slots :
    cardIn[s] /\ kind[s] = IoKind /\ "irq" \notin glacier[s].pins /\ ~ackedLow[s]
      => "irq" \in glacier[s].fall

\* A high line is latched in the ICU, or was cleared there.
RiseLatched == line => CardIrqs \subseteq icu.status \/ ackedHigh

\* The properties, made inductive: every step from a state that
\* satisfies IInv leads to one that does (proved in CardIrq_proofs).
IInv == /\ TypeOK
        /\ NoEmptyDetect
        /\ NoGhostCard
        /\ PinFollowsCard
        /\ FallLatched
        /\ LineLagsOnRemovalOnly
        /\ RiseLatched
        /\ CpuLineFollowsIcu
=============================================================================
