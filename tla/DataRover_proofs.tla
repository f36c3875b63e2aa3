-------------------------- MODULE DataRover_proofs --------------------------
(***************************************************************************)
(* Theorems about three parts of the DataRover board: the path of a card's *)
(* interrupt, for any set of slots, any kinds of cards and any values the  *)
(* guest may write; the clock, for any ratio of cycles to ticks, any       *)
(* length of chunk up to a tick and any values the guest writes; and the   *)
(* keyboard with the driver behind it, for any keys, any capacity of its   *)
(* queue, any size of packet and any number of things typed or gone wrong. *)
(*                                                                         *)
(* The counter is rtc + (cycle - ref) \div CyclesPerTick.  Its fine        *)
(* position, CyclesPerTick * rtc + (cycle - ref), grows by at most one a   *)
(* cycle, because a rebase drops what is left of a tick and never adds;    *)
(* the bounds of the clock's invariant are all on that position, and       *)
(* linear.                                                                 *)
(*                                                                         *)
(* What the driver makes of a sequence of scan codes is the last of the    *)
(* states it goes through.  Two runs through one sequence agree, one       *)
(* exists for every sequence, and a run through a \o b is a run through a  *)
(* followed by one through b; each by the least place where it would       *)
(* fail.  So a code that moves from the queue to the driver's buffer, and  *)
(* from there into what it takes to be down, changes no sum.               *)
(***************************************************************************)
EXTENDS CardIrq, Tx39Timer, MagicBusKeyboard, SequenceTheorems,
        FiniteSetTheorems, WellFoundedInduction, TLAPS

-----------------------------------------------------------------------------
\* The controller's operations keep its type; none of them forgets an edge
\* that was latched, except the acknowledgements.
LEMMA PinsAreEvents == Pins \subseteq Events
BY DEF Pins, Events

LEMMA DriveType ==
  ASSUME NEW g \in GlacierType, NEW high \in SUBSET Pins
  PROVE  DrivePins(g, high) \in GlacierType
<1>1. /\ g.rise \cup (high \ g.pins) \in SUBSET Events
      /\ g.fall \cup (g.pins \ high) \in SUBSET Events
  BY PinsAreEvents DEF GlacierType
<1>2. QED
  BY <1>1 DEF DrivePins, GlacierType

LEMMA DriveFields ==
  ASSUME NEW g \in GlacierType, NEW high \in SUBSET Pins
  PROVE  /\ DrivePins(g, high).pins = high
         /\ DrivePins(g, high).present = g.present
         /\ DrivePins(g, high).riseEn = g.riseEn
         /\ DrivePins(g, high).fallEn = g.fallEn
         /\ DrivePins(g, high).rise = g.rise \cup (high \ g.pins)
         /\ DrivePins(g, high).fall = g.fall \cup (g.pins \ high)
BY DEF DrivePins, GlacierType

LEMMA PresentType ==
  ASSUME NEW g \in GlacierType, NEW p \in BOOLEAN
  PROVE  SetPresent(g, p) \in GlacierType
BY DEF SetPresent, GlacierType, Events

LEMMA PresentFields ==
  ASSUME NEW g \in GlacierType, NEW p \in BOOLEAN
  PROVE  /\ SetPresent(g, p).pins = g.pins
         /\ SetPresent(g, p).riseEn = g.riseEn
         /\ SetPresent(g, p).fallEn = g.fallEn
         /\ g.rise \subseteq SetPresent(g, p).rise
         /\ g.fall \subseteq SetPresent(g, p).fall
BY DEF SetPresent, GlacierType

\* The ICU's operations keep its type and leave the CPU lines in step.
LEMMA IcuUpdateOk ==
  ASSUME NEW i \in IcuType
  PROVE  /\ IcuUpdate(i) \in IcuType
         /\ IcuUpdate(i).status = i.status
         /\ LinesFollow(IcuUpdate(i))
BY DEF IcuUpdate, IcuPending, LinesFollow, IcuType

LEMMA IcuRaiseOk ==
  ASSUME NEW i \in IcuType, NEW irqs \in SUBSET CardIrqs
  PROVE  /\ IcuRaise(i, irqs) \in IcuType
         /\ irqs \subseteq IcuRaise(i, irqs).status
         /\ LinesFollow(i) => LinesFollow(IcuRaise(i, irqs))
<1> DEFINE j == [i EXCEPT !.status = i.status \cup irqs]
<1>1. j \in IcuType /\ irqs \subseteq j.status
  BY DEF IcuType
<1>2. QED
  BY <1>1, IcuUpdateOk DEF IcuRaise

LEMMA IcuWritesOk ==
  ASSUME NEW i \in IcuType, NEW irqs \in SUBSET CardIrqs
  PROVE  /\ IcuClear(i, irqs) \in IcuType
         /\ LinesFollow(IcuClear(i, irqs))
         /\ IcuEnable(i, CardIrqs, irqs) \in IcuType
         /\ IcuEnable(i, CardIrqs, irqs).status = i.status
         /\ LinesFollow(IcuEnable(i, CardIrqs, irqs))
<1> DEFINE c == [i EXCEPT !.status = i.status \ (irqs \ {})]
           e == [i EXCEPT !.enable = (i.enable \ CardIrqs) \cup irqs]
<1>1. c \in IcuType /\ e \in IcuType /\ e.status = i.status
  BY DEF IcuType
<1>2. QED
  BY <1>1, IcuUpdateOk DEF IcuClear, IcuEnable

-----------------------------------------------------------------------------
\* What card_irq_update does to controllers gl.
LEMMA UpdateOk ==
  ASSUME TypeOK, LinesFollow(icu),
         NEW gl \in [Slots -> GlacierType],
         NEW n \in [Slots -> NicType],
         NEW in \in [Slots -> BOOLEAN],
         CardIrqUpdate(gl, n, in)
  PROVE  /\ glacier' \in [Slots -> GlacierType]
         /\ line' \in BOOLEAN
         /\ icu' \in IcuType
         /\ LinesFollow(icu')
         /\ line' = Asserted(glacier')
         /\ line' => CardIrqs \subseteq icu'.status \/ (line /\ icu' = icu)
         /\ \A s \in Slots : in[s] /\ kind[s] = IoKind =>
              (("irq" \in glacier'[s].pins) = ~NicIrq(n[s]))
         /\ \A s \in Slots : gl[s].fall \subseteq glacier'[s].fall
         /\ \A s \in Slots :
              "irq" \in gl[s].pins /\ "irq" \notin glacier'[s].pins
                => "irq" \in glacier'[s].fall
<1>1. \A s \in Slots, b \in BOOLEAN :
        /\ SetCardIrq(gl[s], b) \in GlacierType
        /\ ("irq" \in SetCardIrq(gl[s], b).pins) = ~b
        /\ gl[s].fall \subseteq SetCardIrq(gl[s], b).fall
        /\ b /\ "irq" \in gl[s].pins => "irq" \in SetCardIrq(gl[s], b).fall
  <2> SUFFICES ASSUME NEW s \in Slots, NEW b \in BOOLEAN
               PROVE  /\ SetCardIrq(gl[s], b) \in GlacierType
                      /\ ("irq" \in SetCardIrq(gl[s], b).pins) = ~b
                      /\ gl[s].fall \subseteq SetCardIrq(gl[s], b).fall
                      /\ b /\ "irq" \in gl[s].pins
                           => "irq" \in SetCardIrq(gl[s], b).fall
    OBVIOUS
  <2> DEFINE high == IF b THEN gl[s].pins \ {"irq"} ELSE gl[s].pins \cup {"irq"}
  <2>1. gl[s] \in GlacierType
    OBVIOUS
  <2>2. high \in SUBSET Pins /\ (("irq" \in high) = ~b)
    BY <2>1 DEF GlacierType, Pins
  <2>3. SetCardIrq(gl[s], b) = DrivePins(gl[s], high)
    BY DEF SetCardIrq
  <2> HIDE DEF high
  <2>4. QED
    BY <2>1, <2>2, <2>3, DriveType, DriveFields
<1>2. \A s \in Slots : NicIrq(n[s]) \in BOOLEAN
  BY DEF NicIrq
<1>3. \A s \in Slots :
        glacier'[s] = IF in[s] /\ kind[s] = IoKind
                      THEN SetCardIrq(gl[s], NicIrq(n[s])) ELSE gl[s]
  BY DEF CardIrqUpdate, PinsFollow
<1>4. glacier' = [s \in Slots |-> glacier'[s]]
  BY DEF CardIrqUpdate, PinsFollow
<1>5. glacier' \in [Slots -> GlacierType]
  BY <1>1, <1>2, <1>3, <1>4
<1>6. /\ line' = Asserted(glacier')
      /\ line' \in BOOLEAN
      /\ icu' = IF line' /\ ~line THEN IcuRaise(icu, CardIrqs) ELSE icu
  BY DEF CardIrqUpdate, Asserted
<1>7. /\ icu' \in IcuType
      /\ LinesFollow(icu')
      /\ line' => CardIrqs \subseteq icu'.status \/ (line /\ icu' = icu)
  BY <1>6, IcuRaiseOk DEF TypeOK
<1>8. QED
  BY <1>1, <1>2, <1>3, <1>5, <1>6, <1>7

\* A step that ends in card_irq_update keeps the invariant if what it did to
\* the controllers before left every fall of a request pin in its latch and
\* cleared a latch only where the guest acknowledged it.
LEMMA UpdateKeepsIInv ==
  ASSUME IInv,
         NEW gl \in [Slots -> GlacierType],
         NEW n \in [Slots -> NicType],
         NEW in \in [Slots -> BOOLEAN],
         NEW acks \in SUBSET Slots,
         CardIrqUpdate(gl, n, in), Debts(acks),
         cardIn' = in, nic' = n, kind' = kind,
         \A s \in Slots : cardIn[s] => in[s],
         \A s \in Slots : in[s] => kind[s] # NoCard,
         \A s \in Slots : ~cardIn[s] \/ kind[s] # IoKind => n[s].imr = {},
         \A s \in Slots : "irq" \in glacier[s].pins /\ "irq" \notin gl[s].pins
                            => "irq" \in gl[s].fall,
         \A s \in Slots : "irq" \in glacier[s].fall
                            => "irq" \in gl[s].fall \/ s \in acks
  PROVE  IInv'
<1>1. TypeOK /\ LinesFollow(icu)
  BY DEF IInv, CpuLineFollowsIcu
<1>2. /\ glacier' \in [Slots -> GlacierType]
      /\ line' \in BOOLEAN
      /\ icu' \in IcuType
      /\ LinesFollow(icu')
      /\ line' = Asserted(glacier')
      /\ line' => CardIrqs \subseteq icu'.status \/ (line /\ icu' = icu)
      /\ \A s \in Slots : in[s] /\ kind[s] = IoKind =>
           (("irq" \in glacier'[s].pins) = ~NicIrq(n[s]))
      /\ \A s \in Slots : gl[s].fall \subseteq glacier'[s].fall
      /\ \A s \in Slots :
           "irq" \in gl[s].pins /\ "irq" \notin glacier'[s].pins
             => "irq" \in glacier'[s].fall
  BY <1>1, UpdateOk
<1>3. TypeOK'
  BY <1>1, <1>2 DEF TypeOK, Debts
<1>4. NoEmptyDetect' /\ NoGhostCard'
  BY DEF NoEmptyDetect, NoGhostCard
<1>5. PinFollowsCard'
  BY <1>2 DEF PinFollowsCard
<1>6. FallLatched'
  <2> SUFFICES ASSUME NEW s \in Slots, in[s], kind[s] = IoKind,
                      "irq" \notin glacier'[s].pins, ~ackedLow'[s]
               PROVE  "irq" \in glacier'[s].fall
    BY DEF FallLatched
  <2>1. ~ackedLow[s] /\ s \notin acks
    BY DEF Debts
  <2>2. CASE cardIn[s]
    <3>1. CASE "irq" \in glacier[s].pins
      BY <1>2, <3>1
    <3>2. CASE "irq" \notin glacier[s].pins
      BY <1>2, <2>1, <2>2, <3>2 DEF IInv, FallLatched
    <3>3. QED
      BY <3>1, <3>2
  <2>3. CASE ~cardIn[s]
    BY <1>2, <2>3 DEF NicIrq
  <2>4. QED
    BY <2>2, <2>3
<1>7. LineLagsOnRemovalOnly'
  BY <1>2 DEF LineLagsOnRemovalOnly, Asserted
<1>8. RiseLatched'
  BY <1>2 DEF IInv, RiseLatched, Debts
<1>9. CpuLineFollowsIcu'
  BY <1>2 DEF CpuLineFollowsIcu
<1>10. QED
  BY <1>3, <1>4, <1>5, <1>6, <1>7, <1>8, <1>9 DEF IInv

-----------------------------------------------------------------------------
LEMMA InitIInv == Init => IInv
<1> SUFFICES ASSUME Init PROVE IInv
  OBVIOUS
<1>1. GlacierInit \in GlacierType /\ IcuInit \in IcuType /\ LinesFollow(IcuInit)
  BY DEF GlacierInit, GlacierType, IcuInit, IcuType, LinesFollow, IcuPending
<1>2. TypeOK
  BY <1>1 DEF Init, TypeOK, NicReset, NicType
<1>3. /\ NoEmptyDetect /\ NoGhostCard
      /\ PinFollowsCard /\ FallLatched /\ RiseLatched
  BY DEF Init, NoEmptyDetect, NoGhostCard, PinFollowsCard, FallLatched, RiseLatched, NicReset
<1>4. LineLagsOnRemovalOnly /\ CpuLineFollowsIcu
  BY <1>1 DEF Init, LineLagsOnRemovalOnly, CpuLineFollowsIcu
<1>5. QED
  BY <1>2, <1>3, <1>4 DEF IInv

\* The guest writes a controller register.
LEMMA GlacierWriteIInv ==
  ASSUME IInv, NEW s \in Slots, NEW g \in GlacierType, NEW acks \in SUBSET Slots,
         GuestWritesGlacier(s, g, acks),
         g.pins = glacier[s].pins,
         "irq" \in glacier[s].fall => "irq" \in g.fall \/ s \in acks
  PROVE  IInv'
<1> DEFINE gl == [glacier EXCEPT ![s] = g]
<1>1. TypeOK /\ NoEmptyDetect /\ NoGhostCard
  BY DEF IInv
<1>2. gl \in [Slots -> GlacierType]
  BY <1>1 DEF TypeOK
<1>3. /\ nic \in [Slots -> NicType]
      /\ cardIn \in [Slots -> BOOLEAN]
  BY <1>1 DEF TypeOK
<1>4. \A t \in Slots :
        /\ "irq" \in glacier[t].pins /\ "irq" \notin gl[t].pins
             => "irq" \in gl[t].fall
        /\ "irq" \in glacier[t].fall => "irq" \in gl[t].fall \/ t \in acks
  BY <1>1 DEF TypeOK
<1>5. /\ CardIrqUpdate(gl, nic, cardIn) /\ Debts(acks)
      /\ cardIn' = cardIn /\ nic' = nic /\ kind' = kind
  BY DEF GuestWritesGlacier
<1>6. \A t \in Slots :
        /\ cardIn[t] => kind[t] # NoCard
        /\ ~cardIn[t] \/ kind[t] # IoKind => nic[t].imr = {}
  BY <1>1 DEF NoEmptyDetect, NoGhostCard
<1> HIDE DEF gl
<1>7. QED
  BY <1>2, <1>3, <1>4, <1>5, <1>6, UpdateKeepsIInv

LEMMA GlacierAccessIInv ==
  ASSUME IInv, NEW s \in Slots
  PROVE  /\ \A evs \in RiseMasks : GuestEnablesRise(s, evs) => IInv'
         /\ \A evs \in FallMasks : GuestEnablesFall(s, evs) => IInv'
         /\ \A evs \in AckMasks : GuestAcksRise(s, evs) => IInv'
         /\ \A evs \in AckMasks : GuestAcksFall(s, evs) => IInv'
<1>1. glacier[s] \in GlacierType
  BY DEF IInv, TypeOK
<1>2. ASSUME NEW evs \in RiseMasks, GuestEnablesRise(s, evs) PROVE IInv'
  <2>1. /\ WriteRiseEnable(glacier[s], evs) \in GlacierType
        /\ WriteRiseEnable(glacier[s], evs).pins = glacier[s].pins
        /\ WriteRiseEnable(glacier[s], evs).fall = glacier[s].fall
    BY <1>1, MasksAssumption DEF WriteRiseEnable, GlacierType
  <2>2. QED
    BY <1>2, <2>1, GlacierWriteIInv DEF GuestEnablesRise
<1>3. ASSUME NEW evs \in FallMasks, GuestEnablesFall(s, evs) PROVE IInv'
  <2>1. /\ WriteFallEnable(glacier[s], evs) \in GlacierType
        /\ WriteFallEnable(glacier[s], evs).pins = glacier[s].pins
        /\ WriteFallEnable(glacier[s], evs).fall = glacier[s].fall
    BY <1>1, MasksAssumption DEF WriteFallEnable, GlacierType
  <2>2. QED
    BY <1>3, <2>1, GlacierWriteIInv DEF GuestEnablesFall
<1>4. ASSUME NEW evs \in AckMasks, GuestAcksRise(s, evs) PROVE IInv'
  <2>1. /\ AckRise(glacier[s], evs) \in GlacierType
        /\ AckRise(glacier[s], evs).pins = glacier[s].pins
        /\ AckRise(glacier[s], evs).fall = glacier[s].fall
    BY <1>1 DEF AckRise, GlacierType
  <2>2. QED
    BY <1>4, <2>1, GlacierWriteIInv DEF GuestAcksRise
<1>5. ASSUME NEW evs \in AckMasks, GuestAcksFall(s, evs) PROVE IInv'
  <2> DEFINE acks == IF "irq" \in evs THEN {s} ELSE {}
  <2>1. /\ AckFall(glacier[s], evs) \in GlacierType
        /\ AckFall(glacier[s], evs).pins = glacier[s].pins
        /\ AckFall(glacier[s], evs).fall = glacier[s].fall \ evs
    BY <1>1 DEF AckFall, GlacierType
  <2>2. /\ acks \in SUBSET Slots
        /\ GuestWritesGlacier(s, AckFall(glacier[s], evs), acks)
    BY <1>5 DEF GuestAcksFall
  <2>3. "irq" \in glacier[s].fall
          => "irq" \in AckFall(glacier[s], evs).fall \/ s \in acks
    BY <2>1
  <2> HIDE DEF acks
  <2>4. QED
    BY <2>1, <2>2, <2>3, GlacierWriteIInv
<1>6. QED
  BY <1>2, <1>3, <1>4, <1>5

\* The guest accesses a card.
LEMMA CardAccessIInv ==
  ASSUME IInv, NEW s \in Slots, NEW n \in NicType, GuestAccessesCard(s, n)
  PROVE  IInv'
<1> DEFINE after == IF cardIn[s] /\ kind[s] = IoKind
                    THEN [nic EXCEPT ![s] = n] ELSE nic
<1>1. TypeOK /\ NoEmptyDetect /\ NoGhostCard
  BY DEF IInv
<1>2. /\ after \in [Slots -> NicType]
      /\ glacier \in [Slots -> GlacierType]
      /\ cardIn \in [Slots -> BOOLEAN]
  BY <1>1 DEF TypeOK
<1>3. \A t \in Slots :
        /\ cardIn[t] => kind[t] # NoCard
        /\ ~cardIn[t] \/ kind[t] # IoKind => after[t].imr = {}
  BY <1>1 DEF TypeOK, NoEmptyDetect, NoGhostCard
<1>4. /\ CardIrqUpdate(glacier, after, cardIn) /\ Debts({})
      /\ cardIn' = cardIn /\ nic' = after /\ kind' = kind
  BY DEF GuestAccessesCard
<1> HIDE DEF after
<1>5. QED
  BY <1>2, <1>3, <1>4, UpdateKeepsIInv

LEMMA NicAccessIInv ==
  ASSUME IInv, NEW s \in Slots
  PROVE  /\ \A evs \in SUBSET NicEvents : GuestAcksNic(s, evs) => IInv'
         /\ \A evs \in SUBSET NicEvents : GuestMasksNic(s, evs) => IInv'
         /\ GuestResetsNic(s) => IInv'
         /\ GuestFinishesDma(s) => IInv'
<1>1. nic[s] \in NicType
  BY DEF IInv, TypeOK
<1>2. \A evs \in SUBSET NicEvents :
        /\ [nic[s] EXCEPT !.isr = nic[s].isr \ evs] \in NicType
        /\ [nic[s] EXCEPT !.imr = evs] \in NicType
  BY <1>1 DEF NicType
<1>3. /\ NicReset \in NicType
      /\ [nic[s] EXCEPT !.isr = nic[s].isr \cup {"rdc"}] \in NicType
  BY <1>1 DEF NicType, NicReset, NicEvents
<1>4. QED
  BY <1>2, <1>3, CardAccessIInv
     DEF GuestAcksNic, GuestMasksNic, GuestResetsNic, GuestFinishesDma

\* The guest accesses the ICU.
LEMMA IcuAccessIInv ==
  ASSUME IInv
  PROVE  /\ GuestClearsIcu => IInv'
         /\ \A irqs \in SUBSET CardIrqs : GuestEnablesIcu(irqs) => IInv'
<1>1. icu \in IcuType
  BY DEF IInv, TypeOK
<1>2. ASSUME GuestClearsIcu PROVE IInv'
  <2>1. icu' \in IcuType /\ LinesFollow(icu')
    BY <1>1, <1>2, IcuWritesOk DEF GuestClearsIcu
  <2>2. TypeOK' /\ RiseLatched' /\ CpuLineFollowsIcu'
    BY <1>2, <2>1 DEF IInv, TypeOK, RiseLatched, CpuLineFollowsIcu, GuestClearsIcu
  <2>3. QED
    BY <1>2, <2>2 DEF GuestClearsIcu, IInv, NoEmptyDetect, NoGhostCard,
       PinFollowsCard, FallLatched, LineLagsOnRemovalOnly, Asserted
<1>3. ASSUME NEW irqs \in SUBSET CardIrqs, GuestEnablesIcu(irqs) PROVE IInv'
  <2>1. icu' \in IcuType /\ LinesFollow(icu') /\ icu'.status = icu.status
    BY <1>1, <1>3, IcuWritesOk DEF GuestEnablesIcu
  <2>2. TypeOK' /\ RiseLatched' /\ CpuLineFollowsIcu'
    BY <1>3, <2>1 DEF IInv, TypeOK, RiseLatched, CpuLineFollowsIcu, GuestEnablesIcu
  <2>3. QED
    BY <1>3, <2>2 DEF GuestEnablesIcu, IInv, NoEmptyDetect, NoGhostCard,
       PinFollowsCard, FallLatched, LineLagsOnRemovalOnly, Asserted
<1>4. QED
  BY <1>2, <1>3

\* One iteration of the machine loop.
LEMMA LoopIInv ==
  ASSUME IInv, NEW arrives \in SUBSET Slots, NEW receives \in SUBSET Slots,
         MachineTick(arrives, receives)
  PROVE  IInv'
<1> DEFINE in == [s \in Slots |-> cardIn[s] \/ s \in arrives]
           n == [s \in Slots |-> IF s \in receives
                                 THEN [nic[s] EXCEPT !.isr = nic[s].isr \cup {"rx"}]
                                 ELSE nic[s]]
           gl == [s \in Slots |-> SlotTicked(s, arrives, in)]
<1>1. TypeOK /\ NoEmptyDetect /\ NoGhostCard
  BY DEF IInv
<1>2. /\ CardIrqUpdate(gl, n, in) /\ Debts({})
      /\ cardIn' = in /\ nic' = n /\ kind' = kind
  BY DEF MachineTick
<1>3. in \in [Slots -> BOOLEAN] /\ \A s \in Slots : cardIn[s] => in[s]
  BY <1>1 DEF TypeOK
<1>4. n \in [Slots -> NicType] /\ \A s \in Slots : n[s].imr = nic[s].imr
  <2>1. \A s \in Slots : nic[s] \in NicType
    BY <1>1 DEF TypeOK
  <2>2. QED
    BY <2>1 DEF NicType, NicEvents
<1>5. \A s \in Slots :
        /\ in[s] => kind[s] # NoCard
        /\ ~cardIn[s] \/ kind[s] # IoKind => n[s].imr = {}
  BY <1>1, <1>4 DEF MachineTick, NoEmptyDetect, NoGhostCard
<1>6. \A s \in Slots :
        /\ gl[s] \in GlacierType
        /\ glacier[s].fall \subseteq gl[s].fall
        /\ "irq" \in glacier[s].pins /\ "irq" \notin gl[s].pins
             => "irq" \in gl[s].fall
  <2> SUFFICES ASSUME NEW s \in Slots
               PROVE  /\ gl[s] \in GlacierType
                      /\ glacier[s].fall \subseteq gl[s].fall
                      /\ "irq" \in glacier[s].pins /\ "irq" \notin gl[s].pins
                           => "irq" \in gl[s].fall
    OBVIOUS
  <2> DEFINE p == SetPresent(glacier[s], TRUE)
             g == IF s \in arrives THEN SlotArrives(s, glacier[s]) ELSE glacier[s]
             ready == g.pins \cup {"wp"}
  <2>1. glacier[s] \in GlacierType
    BY <1>1 DEF TypeOK
  <2>2. /\ p \in GlacierType /\ p.pins = glacier[s].pins
        /\ glacier[s].fall \subseteq p.fall
    BY <2>1, PresentType, PresentFields
  <2>3. {"irq", "bvd"} \in SUBSET Pins
    BY DEF Pins
  <2>4. SlotArrives(s, glacier[s]) \in {p, DrivePins(p, {"irq", "bvd"})}
    BY DEF SlotArrives, SetMemoryInputs
  <2>5. /\ g \in GlacierType /\ glacier[s].fall \subseteq g.fall
        /\ "irq" \in glacier[s].pins => "irq" \in g.pins
    <3> DEFINE m == DrivePins(p, {"irq", "bvd"})
    <3> HIDE DEF p
    <3>1. /\ m \in GlacierType
          /\ m.pins = {"irq", "bvd"}
          /\ m.fall = p.fall \cup (p.pins \ {"irq", "bvd"})
      BY <2>2, <2>3, DriveType, DriveFields
    <3>2. g \in {p, m, glacier[s]}
      BY <2>4
    <3> HIDE DEF m, g
    <3>3. QED
      BY <2>1, <2>2, <3>1, <3>2
  <2>6. ready \in SUBSET Pins
    BY <2>5 DEF GlacierType, Pins
  <2>7. gl[s] \in {g, DrivePins(g, ready)}
    BY DEF SlotTicked, SetReadyIrq
  <2> HIDE DEF g, gl, p
  <2>8. QED
    BY <2>5, <2>6, <2>7, DriveType, DriveFields
<1>7. gl \in [Slots -> GlacierType]
  BY <1>6
<1> HIDE DEF in, n, gl
<1>8. QED
  BY <1>2, <1>3, <1>4, <1>5, <1>6, <1>7, UpdateKeepsIInv

-----------------------------------------------------------------------------
\* The host changes a card without telling the board: the controller of slot s
\* may gain edges, loses none, and its detect lines open or stay open.
LEMMA HostKeepsIInv ==
  ASSUME IInv, NEW s \in Slots,
         NEW k \in AllKinds \cup {NoCard}, NEW g \in GlacierType,
         /\ glacier[s].rise \subseteq g.rise /\ glacier[s].fall \subseteq g.fall
         /\ g.riseEn = glacier[s].riseEn /\ g.fallEn = glacier[s].fallEn,
         glacier' = [glacier EXCEPT ![s] = g],
         cardIn' = [cardIn EXCEPT ![s] = FALSE],
         kind' = [kind EXCEPT ![s] = k],
         nic' = [nic EXCEPT ![s] = NicReset],
         line' = line, icu' = icu,
         ackedHigh' \in BOOLEAN, ackedHigh /\ line => ackedHigh',
         ackedLow' \in [Slots -> BOOLEAN],
         \A t \in Slots \ {s} :
           "irq" \notin glacier[t].pins => ackedLow'[t] = ackedLow[t]
  PROVE  IInv'
<1>1. TypeOK
  BY DEF IInv
<1>2. TypeOK'
  BY <1>1 DEF TypeOK, NicReset, NicType
<1>3. /\ cardIn'[s] = FALSE /\ glacier'[s] = g
      /\ kind'[s] = k /\ nic'[s] = NicReset
      /\ \A t \in Slots \ {s} : /\ cardIn'[t] = cardIn[t]
                                /\ glacier'[t] = glacier[t]
                                /\ kind'[t] = kind[t] /\ nic'[t] = nic[t]
  BY <1>1 DEF TypeOK
<1>4. NoEmptyDetect' /\ NoGhostCard' /\ PinFollowsCard'
  BY <1>3 DEF IInv, NoEmptyDetect, NoGhostCard, PinFollowsCard, NicReset
<1>5. FallLatched'
  BY <1>3 DEF IInv, FallLatched
<1>6. GlacierIrq(glacier[s]) => GlacierIrq(g)
  BY DEF GlacierIrq
<1>7. LineLagsOnRemovalOnly'
  <2>1. Asserted(glacier) => Asserted(glacier')
    BY <1>3, <1>6 DEF Asserted
  <2>2. QED
    BY <1>3, <2>1 DEF IInv, LineLagsOnRemovalOnly
<1>8. RiseLatched' /\ CpuLineFollowsIcu'
  BY DEF IInv, RiseLatched, CpuLineFollowsIcu
<1>9. QED
  BY <1>2, <1>4, <1>5, <1>7, <1>8 DEF IInv

LEMMA HostIInv ==
  ASSUME IInv, NEW s \in Slots
  PROVE  /\ \A k \in Kinds : InsertCard(s, k) => IInv'
         /\ EjectCard(s) => IInv'
         /\ \A k \in Kinds \cup {NoCard} : ResumeWithOtherCard(s, k) => IInv'
<1> DEFINE gone == SetPresent(glacier[s], FALSE)
<1>1. /\ TypeOK /\ NoEmptyDetect
      /\ glacier[s] \in GlacierType
      /\ line => Asserted(glacier)
  BY DEF IInv, TypeOK, LineLagsOnRemovalOnly
<1>2. ASSUME NEW k \in Kinds, InsertCard(s, k) PROVE IInv'
  <2>1. ~cardIn[s] /\ k \in AllKinds
    BY <1>1, <1>2, KindsAssumption DEF InsertCard, NoEmptyDetect
  <2>2. TypeOK'
    BY <1>1, <1>2, <2>1 DEF InsertCard, TypeOK, NicReset, NicType
  <2>3. \A t \in Slots \ {s} : kind'[t] = kind[t] /\ nic'[t] = nic[t]
    BY <1>1, <1>2 DEF InsertCard, TypeOK
  <2>4. nic'[s].imr = {}
    BY <1>1, <1>2 DEF InsertCard, TypeOK, NicReset
  <2>5. NoEmptyDetect' /\ NoGhostCard' /\ PinFollowsCard' /\ FallLatched'
    BY <1>2, <2>1, <2>3, <2>4
       DEF InsertCard, IInv, NoEmptyDetect, NoGhostCard, PinFollowsCard, FallLatched
  <2>6. LineLagsOnRemovalOnly' /\ RiseLatched' /\ CpuLineFollowsIcu'
    BY <1>2 DEF InsertCard, IInv, LineLagsOnRemovalOnly, Asserted, RiseLatched,
                CpuLineFollowsIcu
  <2>7. QED
    BY <2>2, <2>5, <2>6 DEF IInv
<1>3. /\ gone \in GlacierType
      /\ glacier[s].rise \subseteq gone.rise /\ glacier[s].fall \subseteq gone.fall
      /\ gone.riseEn = glacier[s].riseEn /\ gone.fallEn = glacier[s].fallEn
  BY <1>1, PresentType, PresentFields
<1>4. ASSUME EjectCard(s) PROVE IInv'
  <2> DEFINE g == DrivePins(gone, {})
  <2> HIDE DEF gone
  <2>1. /\ g \in GlacierType
        /\ g.riseEn = gone.riseEn /\ g.fallEn = gone.fallEn
        /\ g.rise = gone.rise \cup ({} \ gone.pins)
        /\ g.fall = gone.fall \cup (gone.pins \ {})
    BY <1>3, DriveType, DriveFields
  <2>2. glacier' = [glacier EXCEPT ![s] = g]
    BY <1>4 DEF EjectCard, SetMemoryInputs, gone
  <2>3. /\ cardIn' = [cardIn EXCEPT ![s] = FALSE]
        /\ kind' = [kind EXCEPT ![s] = NoCard]
        /\ nic' = [nic EXCEPT ![s] = NicReset]
        /\ line' = line /\ icu' = icu /\ Debts({})
    BY <1>4 DEF EjectCard
  <2> HIDE DEF g
  <2>4. \A t \in Slots \ {s} : glacier'[t] = glacier[t]
    BY <1>1, <2>2 DEF TypeOK
  <2>5. /\ ackedHigh' \in BOOLEAN /\ (ackedHigh /\ line => ackedHigh')
        /\ ackedLow' \in [Slots -> BOOLEAN]
        /\ \A t \in Slots \ {s} :
             "irq" \notin glacier[t].pins => ackedLow'[t] = ackedLow[t]
    BY <1>1, <2>3, <2>4 DEF Debts, TypeOK
  <2>6. QED
    BY <1>3, <2>1, <2>2, <2>3, <2>5, HostKeepsIInv
<1>5. ASSUME NEW k \in Kinds \cup {NoCard}, ResumeWithOtherCard(s, k) PROVE IInv'
  <2>1. k \in AllKinds \cup {NoCard}
    BY KindsAssumption
  <2>2. /\ glacier' = [glacier EXCEPT ![s] = gone]
        /\ cardIn' = [cardIn EXCEPT ![s] = FALSE]
        /\ kind' = [kind EXCEPT ![s] = k]
        /\ nic' = [nic EXCEPT ![s] = NicReset]
        /\ line' = line /\ icu' = icu
        /\ ackedLow' = ackedLow /\ ackedHigh' = ackedHigh
    BY <1>5 DEF ResumeWithOtherCard
  <2>3. ackedLow' \in [Slots -> BOOLEAN] /\ ackedHigh' \in BOOLEAN
    BY <1>1, <2>2 DEF TypeOK
  <2> HIDE DEF gone
  <2>4. QED
    BY <1>3, <2>1, <2>2, <2>3, HostKeepsIInv
<1>6. QED
  BY <1>2, <1>4, <1>5

-----------------------------------------------------------------------------
\* Every step keeps the inductive invariant.
LEMMA NextIInv == IInv /\ [Next]_vars => IInv'
<1> SUFFICES ASSUME IInv, [Next]_vars PROVE IInv'
  OBVIOUS
<1>1. CASE Guest
  <2>1. CASE GuestClearsIcu \/ \E irqs \in SUBSET CardIrqs : GuestEnablesIcu(irqs)
    BY <2>1, IcuAccessIInv
  <2>2. CASE \E s \in Slots :
               \/ \E evs \in RiseMasks : GuestEnablesRise(s, evs)
               \/ \E evs \in FallMasks : GuestEnablesFall(s, evs)
               \/ \E evs \in AckMasks : GuestAcksRise(s, evs)
               \/ \E evs \in AckMasks : GuestAcksFall(s, evs)
    BY <2>2, GlacierAccessIInv
  <2>3. CASE \E s \in Slots :
               \/ \E evs \in SUBSET NicEvents : GuestAcksNic(s, evs)
               \/ \E evs \in SUBSET NicEvents : GuestMasksNic(s, evs)
               \/ GuestResetsNic(s)
               \/ GuestFinishesDma(s)
    BY <2>3, NicAccessIInv
  <2>4. QED
    BY <1>1, <2>1, <2>2, <2>3 DEF Guest
<1>2. CASE Loop
  BY <1>2, LoopIInv DEF Loop
<1>3. CASE Host
  BY <1>3, HostIInv DEF Host
<1>4. CASE UNCHANGED vars
  BY <1>4 DEF vars, board, IInv, TypeOK, NoEmptyDetect, NoGhostCard,
     PinFollowsCard, FallLatched, LineLagsOnRemovalOnly, Asserted, RiseLatched,
     CpuLineFollowsIcu
<1>5. QED
  BY <1>1, <1>2, <1>3, <1>4 DEF Next

\* The edge survives: a request pulls its pin low, the fall is latched and
\* enabled, so the shared line is high and its rise latched in the ICU.
LEMMA IInvNoLostCardIrq == IInv => NoLostCardIrq
<1> SUFFICES ASSUME IInv, NEW s \in Slots,
                    cardIn[s], NicIrq(nic[s]), "irq" \in glacier[s].fallEn,
                    ~ackedLow[s], ~ackedHigh
             PROVE  CardIrqs \subseteq icu.status
  BY DEF NoLostCardIrq
<1>1. kind[s] = IoKind
  BY DEF IInv, NoGhostCard, NicIrq
<1>2. "irq" \in glacier[s].fall
  BY <1>1 DEF IInv, PinFollowsCard, FallLatched
<1>3. line
  BY <1>2 DEF IInv, LineLagsOnRemovalOnly, GlacierIrq
<1>4. QED
  BY <1>3 DEF IInv, RiseLatched

LEMMA SpecIInv == Spec => []IInv
BY InitIInv, NextIInv, PTL DEF Spec

\* The board's registers keep their types whatever the guest writes and the
\* host plugs in.
THEOREM TypeCorrect == Spec => []TypeOK
<1>1. IInv => TypeOK
  BY DEF IInv
<1>2. QED
  BY <1>1, SpecIInv, PTL

\* An inserted card's interrupt pin shows its request at every look.
THEOREM PinAlwaysFollowsCard == Spec => []PinFollowsCard
<1>1. IInv => PinFollowsCard
  BY DEF IInv
<1>2. QED
  BY <1>1, SpecIInv, PTL

\* No order of guest accesses, loop iterations and card changes loses a
\* card's request between the NE2000 and the ICU.
THEOREM NoCardIrqLost == Spec => []NoLostCardIrq
BY IInvNoLostCardIrq, SpecIInv, PTL

\* The shared line differs from the controllers' outputs for removed cards only.
THEOREM LineLags == Spec => []LineLagsOnRemovalOnly
<1>1. IInv => LineLagsOnRemovalOnly
  BY DEF IInv
<1>2. QED
  BY <1>1, SpecIInv, PTL

\* The CPU's interrupt input always follows the ICU's registers.
THEOREM CpuLineCorrect == Spec => []CpuLineFollowsIcu
<1>1. IInv => CpuLineFollowsIcu
  BY DEF IInv
<1>2. QED
  BY <1>1, SpecIInv, PTL

-----------------------------------------------------------------------------
\* The clock.
LEMMA Quotient ==
  ASSUME NEW n \in Nat, NEW d \in Nat \ {0}
  PROVE  n \div d \in Nat /\ d * (n \div d) <= n /\ n < d * (n \div d) + d
OBVIOUS

LEMMA QuotientGrows ==
  ASSUME NEW n \in Nat, NEW m \in Nat, NEW d \in Nat \ {0}, n <= m
  PROVE  n \div d <= m \div d
OBVIOUS

LEMMA QuotientBound ==
  ASSUME NEW n \in Nat, NEW d \in Nat \ {0}, NEW q \in Nat, d * q <= n
  PROVE  q <= n \div d
OBVIOUS

LEMMA QuotientStep ==
  ASSUME NEW n \in Nat, NEW m \in Nat, NEW d \in Nat \ {0}, n <= m, m <= n + d
  PROVE  m \div d - n \div d \in 0..1
OBVIOUS

-----------------------------------------------------------------------------
\* The counter's position is not ahead of the cycles since it was cleared.
NotAhead == CyclesPerTick * rtc + clearedAt <= ref

\* The deadline lies more than ticks - 1 whole ticks, in cycles since the
\* arming, after the counter's position.
DeadlineFar ==
  stop.armed =>
    CyclesPerTick * rtc - ref + armedAt.cycle + CyclesPerTick * (armedAt.ticks - 1)
      < CyclesPerTick * stop.deadline

\* The counter when the loop last looked.
Looked == rtc + (cycle - sinceTick - ref) \div CyclesPerTick

\* While the registers are left alone, the last period counted is that of the
\* last look.
PeriodCounted ==
  (steady /\ ~Frozen) =>
    /\ ref + sinceTick <= cycle
    /\ reload # 0 => lastPeriod = Looked \div reload

TimerIInv == TimerTypeOK /\ NotAhead /\ DeadlineFar /\ PeriodCounted

-----------------------------------------------------------------------------
LEMMA RtcNowIs ==
  ASSUME TimerTypeOK
  PROVE  /\ RtcNow \in Nat
         /\ CyclesPerTick * RtcNow <= CyclesPerTick * rtc + (cycle - ref)
<1>1. cycle - ref \in Nat /\ CyclesPerTick \in Nat \ {0} /\ rtc \in Nat
  BY ClockAssumption DEF TimerTypeOK
<1>2. /\ (cycle - ref) \div CyclesPerTick \in Nat
      /\ CyclesPerTick * ((cycle - ref) \div CyclesPerTick) <= cycle - ref
  BY <1>1, Quotient
<1> DEFINE q == (cycle - ref) \div CyclesPerTick
<1>3. /\ rtc + q \in Nat
      /\ CyclesPerTick * (rtc + q) = CyclesPerTick * rtc + CyclesPerTick * q
  BY <1>1, <1>2
<1>4. QED
  BY <1>1, <1>2, <1>3 DEF RtcNow

LEMMA PeriodNowIs ==
  ASSUME TimerTypeOK
  PROVE  PeriodNow \in Nat
<1>1. RtcNow \in Nat /\ reload \in Nat
  BY RtcNowIs DEF TimerTypeOK
<1>2. CASE reload = 0
  BY <1>2 DEF PeriodNow
<1>3. CASE reload # 0
  BY <1>1, <1>3, Quotient DEF PeriodNow
<1>4. QED
  BY <1>2, <1>3

\* The counter gains at most one tick between two looks.
LEMMA OneTickAtMost ==
  ASSUME TimerTypeOK, ref + sinceTick <= cycle
  PROVE  Looked \in Nat /\ RtcNow - Looked \in 0..1
<1>1. /\ cycle - ref \in Nat /\ cycle - sinceTick - ref \in Nat /\ rtc \in Nat
      /\ cycle \in Nat /\ ref \in Nat
      /\ CyclesPerTick \in Nat \ {0} /\ sinceTick <= CyclesPerTick /\ sinceTick \in Nat
  BY ClockAssumption DEF TimerTypeOK
<1>2. (cycle - ref) \div CyclesPerTick - (cycle - sinceTick - ref) \div CyclesPerTick \in 0..1
  <2> DEFINE n == cycle - sinceTick - ref  m == cycle - ref
  <2>1. n \in Nat /\ m \in Nat /\ n <= m /\ m <= n + CyclesPerTick
    BY <1>1
  <2> HIDE DEF n, m
  <2>2. m \div CyclesPerTick - n \div CyclesPerTick \in 0..1
    BY <1>1, <2>1, QuotientStep
  <2>3. QED
    BY <2>2 DEF n, m
<1>3. /\ (cycle - ref) \div CyclesPerTick \in Nat
      /\ (cycle - sinceTick - ref) \div CyclesPerTick \in Nat
  BY <1>1, Quotient
<1>4. QED
  BY <1>1, <1>2, <1>3 DEF RtcNow, Looked

-----------------------------------------------------------------------------
LEMMA TimerInitHolds == TimerInit => TimerIInv
<1> SUFFICES ASSUME TimerInit PROVE TimerIInv
  OBVIOUS
<1>1. TimerTypeOK
  <2>1. TickInterval \in Nat
    BY ClockAssumption
  <2>2. NotArmed \in [cycle : 0..0, ticks : Nat]
    BY DEF NotArmed
  <2>3. QED
    BY <2>1, <2>2 DEF TimerInit, TimerTypeOK
<1>2. NotAhead
  BY ClockAssumption DEF TimerInit, NotAhead
<1>3. DeadlineFar /\ PeriodCounted
  BY DEF TimerInit, DeadlineFar, PeriodCounted
<1>4. QED
  BY <1>1, <1>2, <1>3 DEF TimerIInv

LEMMA RunKeeps == TimerIInv /\ Run => TimerIInv'
<1> SUFFICES ASSUME TimerIInv, Run PROVE TimerIInv'
  OBVIOUS
<1> USE DEF TimerIInv, Run, timer, ghosts
<1>1. TimerTypeOK'
  BY ClockAssumption DEF TimerTypeOK
<1>2. NotAhead' /\ DeadlineFar'
  BY DEF NotAhead, DeadlineFar
<1>3. Looked' = Looked
  <2>1. cycle' - sinceTick' = cycle - sinceTick /\ rtc' = rtc /\ ref' = ref
    BY DEF TimerTypeOK
  <2>2. QED
    BY <2>1 DEF Looked
<1>4. PeriodCounted'
  BY <1>3 DEF PeriodCounted, Frozen, TimerTypeOK
<1>5. QED
  BY <1>1, <1>2, <1>4

LEMMA WriteControlKeeps ==
  ASSUME TimerIInv, NEW flags \in SUBSET Flags, NEW clear \in BOOLEAN, WriteControl(flags, clear)
  PROVE  TimerIInv'
<1> USE DEF TimerIInv, WriteControl
<1>1. RtcNow \in Nat /\ CyclesPerTick * RtcNow <= CyclesPerTick * rtc + (cycle - ref)
  BY RtcNowIs
<1>2. CyclesPerTick \in Nat \ {0} /\ rtc \in Nat /\ cycle \in Nat /\ ref \in 0..cycle
  BY ClockAssumption DEF TimerTypeOK
<1>3. TimerTypeOK'
  <2>1. rtc' \in Nat /\ clearedAt' \in 0..cycle
    <3>1. CASE clear
      BY <3>1, <1>2
    <3>2. CASE ~clear
      BY <3>2, <1>1 DEF TimerTypeOK
    <3>3. QED
      BY <3>1, <3>2
  <2>2. ref' \in 0..cycle /\ cycle' = cycle /\ control' \in SUBSET Flags
    BY <1>2
  <2>3. /\ sinceTick' = sinceTick /\ alarm' = alarm /\ reload' = reload
        /\ lastPeriod' = lastPeriod /\ stop' = stop /\ status' = status /\ armedAt' = armedAt
    OBVIOUS
  <2>4. TimerTypeOK /\ steady' = FALSE
    OBVIOUS
  <2>5. steady' \in BOOLEAN
    BY <2>4, Zenon
  <2> HIDE DEF TimerIInv, WriteControl
  <2>6. QED
    BY <2>1, <2>2, <2>3, <2>4, <2>5 DEF TimerTypeOK
<1>4. rtc' \in Nat /\ CyclesPerTick * rtc' <= CyclesPerTick * rtc + (cycle - ref)
  <2>1. CASE clear
    <3>1. rtc' = 0
      BY <2>1
    <3>2. CyclesPerTick * 0 = 0 /\ CyclesPerTick * rtc \in Nat
      BY <1>2
    <3>3. QED
      BY <3>1, <3>2, <1>2
  <2>2. CASE ~clear
    BY <2>2, <1>1
  <2>3. QED
    BY <2>1, <2>2
<1>5. NotAhead'
  <2>1. CASE clear
    BY <2>1, <1>2 DEF NotAhead
  <2>2. CASE ~clear
    <3>1. clearedAt' = clearedAt /\ ref' = cycle /\ clearedAt \in Nat
      BY <2>2 DEF TimerTypeOK
    <3>2. CyclesPerTick * rtc \in Nat /\ CyclesPerTick * rtc' \in Nat
      BY <1>2, <1>4
    <3>3. QED
      BY <3>1, <3>2, <1>2, <1>4 DEF NotAhead
  <2>3. QED
    BY <2>1, <2>2
<1>6. DeadlineFar'
  <2>1. /\ ref' = cycle /\ stop' = stop /\ armedAt' = armedAt
        /\ armedAt.cycle \in Nat /\ armedAt.ticks \in Nat /\ stop.deadline \in Nat
    BY DEF TimerTypeOK
  <2>2. /\ CyclesPerTick * rtc \in Nat /\ CyclesPerTick * rtc' \in Nat
        /\ CyclesPerTick * (armedAt.ticks - 1) \in Int /\ CyclesPerTick * stop.deadline \in Nat
    BY <1>2, <1>4, <2>1
  <2>3. QED
    BY <2>1, <2>2, <1>2, <1>4 DEF DeadlineFar
<1>7. PeriodCounted'
  BY DEF PeriodCounted
<1>8. QED
  BY <1>3, <1>5, <1>6, <1>7

LEMMA WriteAlarmKeeps ==
  ASSUME TimerIInv, NEW a \in Alarms, WriteAlarm(a)
  PROVE  TimerIInv'
BY GuestAssumption
   DEF TimerIInv, WriteAlarm, clock, TimerTypeOK, NotAhead, DeadlineFar, PeriodCounted, Frozen, Looked

LEMMA WritePeriodicKeeps ==
  ASSUME TimerIInv, NEW r \in Reloads, WritePeriodic(r)
  PROVE  TimerIInv'
BY GuestAssumption
   DEF TimerIInv, WritePeriodic, clock, TimerTypeOK, NotAhead, DeadlineFar, PeriodCounted

LEMMA WriteStopTimerKeeps ==
  ASSUME TimerIInv, NEW enable \in BOOLEAN, NEW v \in StopVals, WriteStopTimer(enable, v)
  PROVE  TimerIInv'
<1> USE DEF TimerIInv, WriteStopTimer
<1>1. /\ CyclesPerTick \in Nat \ {0} /\ rtc \in Nat /\ cycle \in Nat /\ ref \in 0..cycle
      /\ v \in Nat
  BY ClockAssumption, GuestAssumption DEF TimerTypeOK
<1>2. RtcNow \in Nat
  BY RtcNowIs
<1>3. TimerTypeOK'
  BY <1>1, <1>2 DEF TimerTypeOK, clock, timer, NotArmed
<1>4. NotAhead' /\ PeriodCounted'
  BY DEF NotAhead, PeriodCounted, Looked, Frozen, clock, timer
<1>5. DeadlineFar'
  <2>1. CASE enable /\ ~stop.enabled
    <3>1. /\ stop'.deadline = RtcNow + v + 1 /\ armedAt'.cycle = cycle /\ armedAt'.ticks = v + 1
          /\ rtc' = rtc /\ ref' = ref
      BY <2>1 DEF clock
    <3>2. (cycle - ref) < CyclesPerTick * ((cycle - ref) \div CyclesPerTick) + CyclesPerTick
      BY <1>1, Quotient
    <3> DEFINE q == (cycle - ref) \div CyclesPerTick
    <3>3. q \in Nat /\ RtcNow = rtc + q
      BY <1>1, Quotient DEF RtcNow
    <3>4. /\ CyclesPerTick * (RtcNow + v + 1)
               = CyclesPerTick * rtc + CyclesPerTick * q + CyclesPerTick * v + CyclesPerTick
          /\ (v + 1) - 1 = v
      BY <1>1, <3>3
    <3>5. /\ CyclesPerTick * rtc \in Nat /\ CyclesPerTick * q \in Nat
          /\ CyclesPerTick * v \in Nat
      BY <1>1, <3>3
    <3> HIDE DEF q
    <3>6. CyclesPerTick * rtc - ref + cycle + CyclesPerTick * v
            < CyclesPerTick * (RtcNow + v + 1)
      BY <3>2, <3>4, <3>5, <1>1 DEF q
    <3>7. QED
      BY <3>1, <3>4, <3>6 DEF DeadlineFar
  <2>2. CASE enable /\ stop.enabled
    BY <2>2 DEF DeadlineFar, clock, TimerTypeOK
  <2>3. CASE ~enable
    BY <2>3 DEF DeadlineFar
  <2>4. QED
    BY <2>1, <2>2, <2>3
<1>6. QED
  BY <1>3, <1>4, <1>5

LEMMA ClearInterruptsKeeps ==
  ASSUME TimerIInv, NEW irqs \in SUBSET TimerIrqs, ClearInterrupts(irqs)
  PROVE  TimerIInv'
BY DEF TimerIInv, ClearInterrupts, clock, timer, ghosts, TimerTypeOK, NotAhead, DeadlineFar,
       PeriodCounted, Frozen, Looked

LEMMA TickKeeps == TimerIInv /\ Tick => TimerIInv'
<1> SUFFICES ASSUME TimerIInv, Tick PROVE TimerIInv'
  OBVIOUS
<1> USE DEF TimerIInv, Tick
<1>1. PeriodNow \in Nat /\ RtcNow \in Nat
  BY PeriodNowIs, RtcNowIs
<1>2. TimerTypeOK'
  <2>1. status' \in SUBSET TimerIrqs
    BY DEF TimerTypeOK, Due
  <2>2. stop' \in [enabled : BOOLEAN, armed : BOOLEAN, deadline : Nat]
    BY DEF TimerTypeOK
  <2>3. armedAt' \in [cycle : 0..cycle, ticks : Nat]
    BY DEF TimerTypeOK, NotArmed
  <2>4. 0 \in 0..TickInterval /\ lastPeriod' \in Nat
    BY <1>1, ClockAssumption DEF TimerTypeOK
  <2>5. QED
    BY <2>1, <2>2, <2>3, <2>4 DEF TimerTypeOK
<1>3. NotAhead'
  BY DEF NotAhead
<1>4. DeadlineFar'
  <2>1. CASE StopDue
    BY <2>1 DEF DeadlineFar, TimerTypeOK
  <2>2. CASE ~StopDue
    BY <2>2 DEF DeadlineFar, TimerTypeOK
  <2>3. QED
    BY <2>1, <2>2
<1>5. PeriodCounted'
  <2>1. sinceTick' = 0 /\ cycle' = cycle /\ ref' = ref /\ rtc' = rtc /\ control' = control
    OBVIOUS
  <2>2. cycle - 0 - ref = cycle - ref /\ ref + 0 <= cycle
    BY DEF TimerTypeOK
  <2>3. Looked' = RtcNow
    BY <2>1, <2>2 DEF Looked, RtcNow
  <2>4. QED
    BY <2>1, <2>2, <2>3 DEF PeriodCounted, Frozen, PeriodNow
<1>6. QED
  BY <1>2, <1>3, <1>4, <1>5

LEMMA TimerNextKeeps == TimerIInv /\ [TimerNext]_timerVars => TimerIInv'
<1> SUFFICES ASSUME TimerIInv, [TimerNext]_timerVars PROVE TimerIInv'
  OBVIOUS
<1>1. CASE Run \/ Tick
  BY <1>1, RunKeeps, TickKeeps
<1>2. CASE GuestWrites
  BY <1>2, WriteControlKeeps, WriteAlarmKeeps, WritePeriodicKeeps, WriteStopTimerKeeps,
     ClearInterruptsKeeps DEF GuestWrites
<1>3. CASE UNCHANGED timerVars
  BY <1>3 DEF timerVars, clock, timer, ghosts, TimerIInv, TimerTypeOK, NotAhead, DeadlineFar,
              PeriodCounted, Frozen, Looked
<1>4. QED
  BY <1>1, <1>2, <1>3 DEF TimerNext

LEMMA TimerInvariant == TimerSpec => []TimerIInv
BY TimerInitHolds, TimerNextKeeps, PTL DEF TimerSpec

-----------------------------------------------------------------------------
\* The clock's registers keep their types, and the counter, however often it
\* is rebased, never runs ahead of the crystal.
THEOREM RtcCorrect == TimerSpec => []RtcOK
<1>1. TimerIInv => RtcOK
  <2> SUFFICES ASSUME TimerIInv PROVE RtcNeverFast
    BY DEF RtcOK, TimerIInv
  <2>1. RtcNow \in Nat /\ CyclesPerTick * RtcNow <= CyclesPerTick * rtc + (cycle - ref)
    BY RtcNowIs DEF TimerIInv
  <2>2. /\ cycle - clearedAt \in Nat /\ CyclesPerTick \in Nat \ {0} /\ rtc \in Nat
        /\ ref \in Nat /\ cycle \in Nat /\ clearedAt \in Nat
    BY ClockAssumption DEF TimerIInv, TimerTypeOK
  <2>3. CyclesPerTick * rtc \in Nat /\ CyclesPerTick * RtcNow \in Nat
    BY <2>1, <2>2
  <2>4. CyclesPerTick * RtcNow <= cycle - clearedAt
    BY <2>1, <2>2, <2>3 DEF TimerIInv, NotAhead
  <2>5. QED
    BY <2>1, <2>2, <2>4, QuotientBound DEF RtcNeverFast
<1>2. QED
  BY <1>1, TimerInvariant, PTL

\* The counter goes back only when it is cleared.
THEOREM RtcNeverBack == TimerSpec => RtcMonotone
<1> DEFINE Forward == RtcNow' >= RtcNow \/ (clearedAt' = cycle /\ rtc' = 0)
<1>1. TimerIInv /\ [TimerNext]_timerVars => [Forward]_timerVars
  <2> SUFFICES ASSUME TimerIInv, TimerNext PROVE Forward
    OBVIOUS
  <2>1. /\ RtcNow \in Nat /\ cycle - ref \in Nat /\ CyclesPerTick \in Nat \ {0} /\ rtc \in Nat
        /\ cycle \in Nat /\ ref \in Nat
    BY RtcNowIs, ClockAssumption DEF TimerIInv, TimerTypeOK
  <2>2. ASSUME rtc' = rtc, ref' = ref, cycle' = cycle PROVE Forward
    BY <2>1, <2>2 DEF RtcNow
  <2>3. CASE Run
    <3>1. cycle' = cycle + 1 /\ ref' = ref /\ rtc' = rtc
      BY <2>3 DEF Run
    <3>2. (cycle - ref) \div CyclesPerTick <= (cycle' - ref) \div CyclesPerTick
      <4>1. cycle' - ref \in Nat /\ cycle - ref <= cycle' - ref
        BY <3>1, <2>1
      <4>2. QED
        BY <4>1, <2>1, QuotientGrows
    <3>3. /\ (cycle - ref) \div CyclesPerTick \in Nat
          /\ (cycle' - ref) \div CyclesPerTick \in Nat
      BY <3>1, <2>1, Quotient
    <3>4. QED
      BY <3>1, <3>2, <3>3, <2>1 DEF RtcNow
  <2>4. CASE Tick
    BY <2>4, <2>2 DEF Tick
  <2>5. ASSUME NEW flags \in SUBSET Flags, NEW clear \in BOOLEAN, WriteControl(flags, clear)
        PROVE  Forward
    <3>1. CASE clear
      BY <3>1, <2>5 DEF WriteControl
    <3>2. CASE ~clear
      <4>1. rtc' = RtcNow /\ cycle' - ref' = 0
        BY <3>2, <2>5, <2>1 DEF WriteControl
      <4>2. 0 \div CyclesPerTick = 0
        BY <2>1
      <4>3. QED
        BY <4>1, <4>2, <2>1 DEF RtcNow
    <3>3. QED
      BY <3>1, <3>2
  <2>6. CASE GuestWrites
    BY <2>6, <2>5, <2>2 DEF GuestWrites, WriteAlarm, WritePeriodic, WriteStopTimer,
                            ClearInterrupts, clock
  <2>7. QED
    BY <2>3, <2>4, <2>6 DEF TimerNext
<1>2. QED
  BY <1>1, TimerInvariant, PTL DEF TimerSpec, RtcMonotone

\* The stop timer waits out all of its ticks but the one it was armed in,
\* whatever is done to the counter meanwhile.
THEOREM StopTimerWaits == TimerSpec => StopTimerNeverEarly
<1> DEFINE Waited ==
      stop.armed /\ ~stop'.armed /\ stop'.enabled
        => cycle - armedAt.cycle > (armedAt.ticks - 1) * CyclesPerTick
<1>1. TimerIInv /\ [TimerNext]_timerVars => [Waited]_timerVars
  <2> SUFFICES ASSUME TimerIInv, TimerNext, stop.armed, ~stop'.armed, stop'.enabled
               PROVE  cycle - armedAt.cycle > (armedAt.ticks - 1) * CyclesPerTick
    OBVIOUS
  <2>1. Tick /\ StopDue
    <3>1. CASE Tick
      BY <3>1 DEF Tick, TimerIInv, TimerTypeOK
    <3>2. CASE Run
      BY <3>2 DEF Run
    <3>3. CASE GuestWrites
      BY <3>3 DEF GuestWrites, WriteControl, WriteAlarm, WritePeriodic, WriteStopTimer, ClearInterrupts
    <3>4. QED
      BY <3>1, <3>2, <3>3 DEF TimerNext
  <2>2. /\ RtcNow \in Nat /\ CyclesPerTick * RtcNow <= CyclesPerTick * rtc + (cycle - ref)
        /\ stop.deadline \in Nat /\ stop.deadline <= RtcNow
    BY <2>1, RtcNowIs DEF TimerIInv, TimerTypeOK, StopDue
  <2>3. /\ CyclesPerTick \in Nat \ {0} /\ rtc \in Nat /\ ref \in Nat /\ cycle \in Nat
        /\ armedAt.cycle \in Nat /\ armedAt.ticks \in Nat
    BY ClockAssumption DEF TimerIInv, TimerTypeOK
  <2>4. CyclesPerTick * stop.deadline <= CyclesPerTick * RtcNow
    BY <2>2, <2>3
  <2>5. /\ CyclesPerTick * rtc \in Nat /\ CyclesPerTick * RtcNow \in Nat
        /\ CyclesPerTick * stop.deadline \in Nat
        /\ CyclesPerTick * (armedAt.ticks - 1) \in Int
        /\ CyclesPerTick * (armedAt.ticks - 1) = (armedAt.ticks - 1) * CyclesPerTick
    BY <2>2, <2>3
  <2>6. QED
    BY <2>2, <2>3, <2>4, <2>5 DEF TimerIInv, DeadlineFar
<1>2. QED
  BY <1>1, TimerInvariant, PTL DEF TimerSpec, StopTimerNeverEarly

\* A periodic timer that is left alone counts every period.
THEOREM PeriodsCounted == TimerSpec => []NoPeriodSkipped
<1>1. TimerIInv => NoPeriodSkipped
  <2> SUFFICES ASSUME TimerIInv, steady, ~Frozen, PeriodicOn PROVE PeriodNow - lastPeriod \in 0..1
    BY DEF NoPeriodSkipped
  <2>1. reload \in Nat \ {0} /\ lastPeriod = Looked \div reload /\ ref + sinceTick <= cycle
    BY DEF TimerIInv, TimerTypeOK, PeriodCounted, PeriodicOn
  <2>2. Looked \in Nat /\ RtcNow \in Nat /\ RtcNow - Looked \in 0..1
    BY <2>1, OneTickAtMost, RtcNowIs DEF TimerIInv
  <2>3. Looked <= RtcNow /\ RtcNow <= Looked + reload
    BY <2>1, <2>2
  <2>4. RtcNow \div reload - Looked \div reload \in 0..1
    BY <2>1, <2>2, <2>3, QuotientStep
  <2>5. QED
    BY <2>1, <2>4 DEF PeriodNow
<1>2. QED
  BY <1>1, TimerInvariant, PTL

-----------------------------------------------------------------------------
\* Induction comes from the least element of a set of numbers.
LEMMA Least ==
  ASSUME NEW S \in SUBSET Nat, S # {}
  PROVE  \E k \in S : \A l \in S : k <= l
<1>1. PICK x \in S : \A y \in S : ~(<<y, x>> \in OpToRel(<, Nat))
  BY NatLessThanWellFounded, WFMin
<1>2. \A y \in S : <<y, x>> \in Nat \X Nat
  OBVIOUS
<1>3. \A y \in S : ~(y < x)
  BY <1>1, <1>2 DEF OpToRel
<1>4. QED
  BY <1>3

\* A set of numbers that holds 0 and with each number up to n the next one.
LEMMA UpTo ==
  ASSUME NEW n \in Nat, NEW S, 0 \in S, \A i \in 1..n : i - 1 \in S => i \in S
  PROVE  0..n \subseteq S
<1> SUFFICES ASSUME (0..n) \ S # {}
             PROVE  FALSE
  OBVIOUS
<1>1. PICK k \in (0..n) \ S : \A l \in (0..n) \ S : k <= l
  <2>1. (0..n) \ S \in SUBSET Nat
    OBVIOUS
  <2> DEFINE T == (0..n) \ S
  <2>2. T \in SUBSET Nat /\ T # {}
    BY <2>1
  <2> HIDE DEF T
  <2>3. \E k \in T : \A l \in T : k <= l
    BY <2>2, Least
  <2>4. QED
    BY <2>3 DEF T
<1>2. k \in 1..n
  BY <1>1
<1>3. k - 1 \in 0..n /\ ~(k <= k - 1)
  BY <1>2
<1>4. k - 1 \in S
  BY <1>1, <1>3
<1>5. QED
  BY <1>1, <1>2, <1>4

-----------------------------------------------------------------------------
\* What the driver hears: the states of Decode along the first n codes.
Bytes == Keys \cup {E0, F0}

GuestType == [down : SUBSET Keys, break : BOOLEAN]

Hears(g, s, n, h) ==
  /\ h = [i \in 0..n |-> h[i]]
  /\ h[0] = g
  /\ \A i \in 1..n : h[i] = Hear(h[i - 1], s[i])

LEMMA HearsAgree ==
  ASSUME NEW g, NEW s, NEW n \in Nat, NEW h, Hears(g, s, n, h), NEW r, Hears(g, s, n, r)
  PROVE  h = r
<1> DEFINE S == {i \in 0..n : h[i] = r[i]}
<1>1. 0 \in S
  BY DEF Hears
<1>2. ASSUME NEW i \in 1..n, i - 1 \in S PROVE i \in S
  <2>1. h[i] = Hear(h[i - 1], s[i]) /\ r[i] = Hear(r[i - 1], s[i])
    BY DEF Hears
  <2>2. i \in 0..n
    OBVIOUS
  <2>3. QED
    BY <1>2, <2>1, <2>2
<1> HIDE DEF S
<1>3. 0..n \subseteq S
  BY <1>1, <1>2, UpTo
<1>4. \A i \in 0..n : h[i] = r[i]
  BY <1>3 DEF S
<1>5. QED
  BY <1>4 DEF Hears

LEMMA HearsExist ==
  ASSUME NEW g, NEW s, NEW n \in Nat
  PROVE  \E h : Hears(g, s, n, h)
<1> DEFINE S == {m \in 0..n : \E h : Hears(g, s, m, h)}
<1>1. 0 \in S
  <2> DEFINE h == [i \in 0..0 |-> g]
  <2>1. Hears(g, s, 0, h)
    BY DEF Hears
  <2>2. 0 \in 0..n
    OBVIOUS
  <2> HIDE DEF h
  <2>3. QED
    BY <2>1, <2>2
<1>2. ASSUME NEW m \in 1..n, m - 1 \in S PROVE m \in S
  <2>1. PICK h : Hears(g, s, m - 1, h)
    BY <1>2
  <2> DEFINE r == [i \in 0..m |-> IF i = m THEN Hear(h[m - 1], s[m]) ELSE h[i]]
  <2>2. r[0] = g /\ r = [i \in 0..m |-> r[i]]
    BY <2>1 DEF Hears
  <2>3. ASSUME NEW i \in 1..m
        PROVE  r[i] = Hear(r[i - 1], s[i])
    <3>1. CASE i = m
      <4>1. i - 1 \in 0..m /\ i - 1 # m /\ i - 1 = m - 1
        BY <3>1
      <4>2. QED
        BY <3>1, <4>1
    <3>2. CASE i # m
      <4>1. i \in 1..(m - 1) /\ i - 1 \in 0..m /\ i - 1 # m
        BY <3>2
      <4>2. h[i] = Hear(h[i - 1], s[i])
        BY <2>1, <4>1 DEF Hears
      <4>3. r[i] = h[i] /\ r[i - 1] = h[i - 1]
        BY <3>2, <4>1
      <4>4. QED
        BY <4>2, <4>3
    <3>3. QED
      BY <3>1, <3>2
  <2> HIDE DEF r
  <2>4. Hears(g, s, m, r)
    BY <2>2, <2>3 DEF Hears
  <2>5. m \in 0..n
    OBVIOUS
  <2>6. QED
    BY <2>4, <2>5
<1> HIDE DEF S
<1>3. 0..n \subseteq S
  BY <1>1, <1>2, UpTo
<1>4. n \in S
  BY <1>3
<1>5. QED
  BY <1>4 DEF S

LEMMA DecodeIs ==
  ASSUME NEW g, NEW s, Len(s) \in Nat, NEW h, Hears(g, s, Len(s), h)
  PROVE  Decode(g, s) = h[Len(s)]
<1> DEFINE R(f) == f = [i \in 0..Len(s) |-> IF i = 0 THEN g ELSE Hear(f[i - 1], s[i])]
           d == CHOOSE f : R(f)
<1>1. ASSUME NEW f, R(f) PROVE Hears(g, s, Len(s), f)
  <2>1. \A i \in 0..Len(s) : f[i] = IF i = 0 THEN g ELSE Hear(f[i - 1], s[i])
    BY <1>1
  <2>2. f = [i \in 0..Len(s) |-> f[i]]
    BY <1>1
  <2>3. QED
    BY <2>1, <2>2 DEF Hears
<1>2. R(h)
  BY DEF Hears
<1>3. R(d)
  BY <1>2
<1>4. Hears(g, s, Len(s), d)
  BY <1>1, <1>3
<1>5. Decode(g, s) = d[Len(s)]
  BY DEF Decode
<1> HIDE DEF d
<1>6. QED
  BY <1>4, <1>5, HearsAgree

\* Nothing says nothing; two packets say what their codes in a row say.
LEMMA DecodeNothing ==
  ASSUME NEW g
  PROVE  Decode(g, <<>>) = g
<1>1. Len(<<>>) = 0 /\ Len(<<>>) \in Nat
  BY EmptySeq
<1>2. PICK h : Hears(g, <<>>, Len(<<>>), h)
  BY <1>1, HearsExist
<1>3. h[0] = g
  BY <1>2 DEF Hears
<1>4. QED
  BY <1>1, <1>2, <1>3, DecodeIs

LEMMA ConcatItems ==
  ASSUME NEW S, NEW a \in Seq(S), NEW b \in Seq(S)
  PROVE  /\ Len(a) \in Nat /\ Len(b) \in Nat /\ Len(a \o b) = Len(a) + Len(b)
         /\ \A i \in 1..Len(a) : (a \o b)[i] = a[i]
         /\ \A i \in 1..Len(b) : (a \o b)[Len(a) + i] = b[i]
<1>1. Len(a) \in Nat /\ Len(b) \in Nat
  BY LenProperties
<1>2. /\ Len(a \o b) = Len(a) + Len(b)
      /\ \A i \in 1..(Len(a) + Len(b)) :
           (a \o b)[i] = IF i <= Len(a) THEN a[i] ELSE b[i - Len(a)]
  BY ConcatProperties
<1>3. ASSUME NEW i \in 1..Len(a) PROVE (a \o b)[i] = a[i]
  <2>1. i \in 1..(Len(a) + Len(b)) /\ i <= Len(a)
    BY <1>1
  <2>2. QED
    BY <1>2, <2>1
<1>4. ASSUME NEW i \in 1..Len(b) PROVE (a \o b)[Len(a) + i] = b[i]
  <2>1. /\ Len(a) + i \in 1..(Len(a) + Len(b)) /\ ~(Len(a) + i <= Len(a))
        /\ Len(a) + i - Len(a) = i
    BY <1>1
  <2>2. QED
    BY <1>2, <2>1
<1>5. QED
  BY <1>1, <1>2, <1>3, <1>4

LEMMA DecodeConcat ==
  ASSUME NEW g, NEW a \in Seq(Bytes), NEW b \in Seq(Bytes)
  PROVE  Decode(Decode(g, a), b) = Decode(g, a \o b)
<1> DEFINE s == a \o b
<1>1. /\ Len(a) \in Nat /\ Len(b) \in Nat /\ Len(s) = Len(a) + Len(b)
      /\ \A i \in 1..Len(a) : s[i] = a[i]
      /\ \A i \in 1..Len(b) : s[Len(a) + i] = b[i]
  BY ConcatItems
<1> HIDE DEF s
<1>2. Len(s) \in Nat
  BY <1>1
<1>3. PICK h : Hears(g, s, Len(s), h)
  BY <1>2, HearsExist
<1>4. h[0] = g /\ \A i \in 1..Len(s) : h[i] = Hear(h[i - 1], s[i])
  BY <1>3 DEF Hears
<1>5. Decode(g, a) = h[Len(a)]
  <2> DEFINE r == [i \in 0..Len(a) |-> h[i]]
  <2>1. ASSUME NEW i \in 1..Len(a)
        PROVE  r[i] = Hear(r[i - 1], a[i])
    <3>1. i \in 1..Len(s) /\ i \in 0..Len(a) /\ i - 1 \in 0..Len(a)
      BY <1>1
    <3>2. QED
      BY <1>1, <1>4, <3>1
  <2>2. r = [i \in 0..Len(a) |-> r[i]] /\ r[Len(a)] = h[Len(a)] /\ r[0] = g
    BY <1>1, <1>4
  <2> HIDE DEF r
  <2>3. Hears(g, a, Len(a), r)
    BY <2>1, <2>2 DEF Hears
  <2>4. QED
    BY <1>1, <2>2, <2>3, DecodeIs
<1>6. Decode(h[Len(a)], b) = h[Len(s)]
  <2> DEFINE r == [i \in 0..Len(b) |-> h[Len(a) + i]]
  <2>1. ASSUME NEW i \in 1..Len(b)
        PROVE  r[i] = Hear(r[i - 1], b[i])
    <3>1. /\ i \in 0..Len(b) /\ Len(a) + i \in 1..Len(s) /\ i - 1 \in 0..Len(b)
          /\ Len(a) + (i - 1) = Len(a) + i - 1
      BY <1>1
    <3>2. h[Len(a) + i] = Hear(h[Len(a) + i - 1], s[Len(a) + i]) /\ s[Len(a) + i] = b[i]
      BY <1>1, <1>4, <3>1
    <3>3. r[i] = h[Len(a) + i] /\ r[i - 1] = h[Len(a) + i - 1]
      BY <3>1
    <3>4. QED
      BY <3>2, <3>3
  <2>2. /\ r = [i \in 0..Len(b) |-> r[i]] /\ r[Len(b)] = h[Len(s)]
        /\ r[0] = h[Len(a)]
    <3>1. 0 \in 0..Len(b) /\ Len(b) \in 0..Len(b) /\ Len(a) + 0 = Len(a)
      BY <1>1
    <3>2. QED
      BY <1>1, <3>1
  <2> HIDE DEF r
  <2>3. Hears(h[Len(a)], b, Len(b), r)
    BY <2>1, <2>2 DEF Hears
  <2>4. QED
    BY <1>1, <2>2, <2>3, DecodeIs
<1>7. Decode(g, s) = h[Len(s)]
  BY <1>2, <1>3, DecodeIs
<1>8. QED
  BY <1>5, <1>6, <1>7 DEF s

\* One code, and the codes of a key.
LEMMA ByteKinds ==
  /\ E0 # F0 /\ E0 \notin Keys /\ F0 \notin Keys /\ Keys \subseteq Nat
BY KeysAssumption DEF E0, F0

LEMMA DecodeOne ==
  ASSUME NEW g, NEW b
  PROVE  Decode(g, <<b>>) = Hear(g, b)
<1> DEFINE h == [i \in 0..1 |-> IF i = 0 THEN g ELSE Hear(g, b)]
<1>1. Len(<<b>>) = 1 /\ Len(<<b>>) \in Nat /\ <<b>>[1] = b
  OBVIOUS
<1>2. h[0] = g /\ h[1] = Hear(g, b) /\ h = [i \in 0..1 |-> h[i]]
  OBVIOUS
<1> HIDE DEF h
<1>3. \A i \in 1..1 : h[i] = Hear(h[i - 1], <<b>>[i])
  BY <1>1, <1>2
<1>4. Hears(g, <<b>>, Len(<<b>>), h)
  BY <1>1, <1>2, <1>3 DEF Hears
<1>5. QED
  <2>1. Decode(g, <<b>>) = h[Len(<<b>>)]
    BY <1>1, <1>4, DecodeIs
  <2>2. QED
    BY <1>1, <1>2, <2>1

LEMMA HearIs ==
  ASSUME NEW g \in GuestType, NEW key \in Keys
  PROVE  /\ Hear(g, E0) = g
         /\ Hear(g, F0) = [down |-> g.down, break |-> TRUE]
         /\ Hear(g, key) = [down |-> IF g.break THEN g.down \ {key} ELSE g.down \cup {key},
                            break |-> FALSE]
         /\ Hear(g, F0) \in GuestType /\ Hear(g, key) \in GuestType
<1>1. Hear(g, E0) = g
  BY ByteKinds DEF Hear
<1>2. Hear(g, F0) = [down |-> g.down, break |-> TRUE]
  BY ByteKinds DEF Hear, GuestType
<1>3. Hear(g, key) = [down |-> IF g.break THEN g.down \ {key} ELSE g.down \cup {key},
                      break |-> FALSE]
  BY ByteKinds DEF Hear
<1>4. QED
  BY <1>1, <1>2, <1>3 DEF GuestType

LEMMA CodesAre ==
  ASSUME NEW key \in Keys, NEW down \in BOOLEAN
  PROVE  /\ Codes(key, down) \in Seq(Bytes)
         /\ \A g \in GuestType : ~g.break =>
              Decode(g, Codes(key, down)) =
                [down |-> IF down THEN g.down \cup {key} ELSE g.down \ {key},
                 break |-> FALSE]
<1> DEFINE e == IF key \in Extended THEN <<E0>> ELSE <<>>
           f == IF down THEN <<>> ELSE <<F0>>
<1>1. e \in Seq(Bytes) /\ f \in Seq(Bytes) /\ <<key>> \in Seq(Bytes)
  <2>1. E0 \in Bytes /\ F0 \in Bytes /\ key \in Bytes
    BY DEF Bytes
  <2> HIDE DEF e, f
  <2>2. <<E0>> \in Seq(Bytes) /\ <<F0>> \in Seq(Bytes) /\ <<key>> \in Seq(Bytes)
        /\ <<>> \in Seq(Bytes)
    BY <2>1
  <2>3. QED
    BY <2>2 DEF e, f
<1>2. Codes(key, down) = (e \o f) \o <<key>> /\ e \o f \in Seq(Bytes)
  BY <1>1, ConcatProperties DEF Codes
<1>3. Codes(key, down) \in Seq(Bytes)
  BY <1>1, <1>2, ConcatProperties
<1>4. ASSUME NEW g \in GuestType, ~g.break
      PROVE  Decode(g, Codes(key, down)) =
               [down |-> IF down THEN g.down \cup {key} ELSE g.down \ {key},
                break |-> FALSE]
  <2>1. Decode(g, e) = g
    BY DecodeNothing, DecodeOne, HearIs
  <2>2. Decode(g, e \o f) = Decode(g, f)
    <3>1. Decode(Decode(g, e), f) = Decode(g, e \o f)
      <4> HIDE DEF e, f
      <4>1. QED
        BY <1>1, DecodeConcat, Zenon
    <3>2. QED
      BY <2>1, <3>1
  <2>3. Decode(g, f) = IF down THEN g ELSE Hear(g, F0)
    BY DecodeNothing, DecodeOne
  <2>4. Decode(g, Codes(key, down)) = Hear(Decode(g, f), key)
    <3>1. Decode(Decode(g, e \o f), <<key>>) = Decode(g, (e \o f) \o <<key>>)
      <4> HIDE DEF e, f
      <4>1. QED
        BY <1>1, <1>2, DecodeConcat, Zenon
    <3>2. QED
      BY <1>2, <2>2, <3>1, DecodeOne
  <2> HIDE DEF e, f
  <2>5. CASE down
    <3>1. Decode(g, Codes(key, down)) = Hear(g, key)
      BY <2>3, <2>4, <2>5
    <3>2. QED
      BY <1>4, <2>5, <3>1, HearIs
  <2>6. CASE ~down
    <3>1. /\ Decode(g, Codes(key, down)) = Hear(Hear(g, F0), key)
          /\ Hear(g, F0) \in GuestType /\ Hear(g, F0) = [down |-> g.down, break |-> TRUE]
      BY <2>3, <2>4, <2>6, HearIs
    <3>2. Hear(Hear(g, F0), key) = [down |-> g.down \ {key}, break |-> FALSE]
      <4> DEFINE o == Hear(g, F0)
      <4>1. o \in GuestType /\ o.break /\ o.down = g.down
        BY <3>1
      <4> HIDE DEF o
      <4>2. Hear(o, key) = [down |-> IF o.break THEN o.down \ {key} ELSE o.down \cup {key},
                            break |-> FALSE]
        BY <4>1, HearIs
      <4>3. QED
        BY <4>1, <4>2 DEF o
    <3>3. QED
      BY <2>6, <3>1, <3>2
  <2>7. QED
    BY <2>5, <2>6
<1>5. QED
  BY <1>3, <1>4

-----------------------------------------------------------------------------
\* What the driver will hear: the codes it has not looked at, then the queue.
Flight(k, p, ph, buf) ==
  IF p = "scan" /\ ph = "slave" /\ "det" \in k.irq THEN buf ELSE <<>>

Matches(k, p, ph, buf, g, u) ==
  Decode(g, Flight(k, p, ph, buf) \o k.queue) =
    [down |-> (k.held \cup k.release) \ u, break |-> FALSE]

\* The line says that there are codes the driver was not told of.
Fresh(k) == k.line <=> (k.queue # <<>> /\ ~k.notified)

\* Whether the exchange the driver is in has been served.
Exchange(k, p, ph) ==
  /\ ph # "master" => p \in {"id", "info", "request", "scan"}
  /\ "det" \in k.irq => ph = "slave" /\ k.pendingRead = 0 /\ k.selection = 0
  /\ k.pendingRead # 0 => /\ p \in {"id", "info", "request", "scan"}
                          /\ k.pendingRead = (IF p = "request" THEN 1 ELSE 2)

\* What is selected where.
Selected(k, p) ==
  /\ p \in {"assign", "chain", "idle", "request", "scan"} => k.selection = 0
  /\ p \in {"id", "info"} /\ k.pendingRead # 0 => k.selection # 0
  /\ p = "write" => k.selection = 5 /\ k.writeSize \in {0, 4}

\* The line and the request it stands for.
Attention(k, p, buf) ==
  /\ p \notin {"reset", "assign"} => k.assigned
  /\ \/ p \in {"info", "idle", "write", "request", "scan"}
     \/ p = "id" /\ "det" \in k.irq
     => Fresh(k)
  /\ k.notified <=> \/ p = "request" /\ "det" \in k.irq
                    \/ p = "scan" /\ "det" \notin k.irq
  /\ p # "request" /\ k.line => "pos" \in k.irq
  /\ p = "request" => k.queue # <<>> /\ ("det" \in k.irq => buf # <<>>)

Standing(k, p, ph, buf) ==
  Exchange(k, p, ph) /\ Selected(k, p) /\ Attention(k, p, buf)

\* What holds of the keyboard k while the driver is at p, the exchange at ph
\* and the last packet in buf, the driver takes g to be down, and keys u were
\* down at the last reset.
Sound(k, p, ph, buf, g, u) ==
  /\ k \in KeyboardType /\ Len(k.queue) <= Capacity
  /\ k.held \cap k.release = {}
  /\ Standing(k, p, ph, buf)
  /\ Matches(k, p, ph, buf, g, u)

KeyboardIInv == KeyboardTypeOK /\ Sound(kb, pc, phase, inbox, guest, unseen)

-----------------------------------------------------------------------------
\* The line.  r is k but for its line, and no edge of it is lost.
Rewired(k, r) ==
  /\ r \in KeyboardType
  /\ r = [k EXCEPT !.line = r.line, !.irq = r.irq]
  /\ "det" \in r.irq <=> "det" \in k.irq
  /\ (k.line => "pos" \in k.irq) => (r.line => "pos" \in r.irq)

LEMMA InputIs ==
  ASSUME NEW k \in KeyboardType, NEW high \in BOOLEAN
  PROVE  Rewired(k, Input(k, high)) /\ Input(k, high).line = high
<1> DEFINE r == Input(k, high)
<1>1. CASE k.line = high
  <2>1. r = k
    BY <1>1 DEF Input
  <2>2. k = [k EXCEPT !.line = k.line, !.irq = k.irq]
    BY DEF KeyboardType
  <2> HIDE DEF r
  <2>3. QED
    BY <1>1, <2>1, <2>2 DEF Rewired, r
<1>2. CASE k.line # high
  <2>1. r = [k EXCEPT !.line = high, !.irq = k.irq \cup {IF high THEN "pos" ELSE "neg"}]
    BY <1>2 DEF Input
  <2> HIDE DEF r
  <2>2. /\ r \in KeyboardType /\ r.line = high
        /\ r.irq = k.irq \cup {IF high THEN "pos" ELSE "neg"}
    BY <2>1 DEF KeyboardType, Edges
  <2>3. QED
    BY <2>1, <2>2 DEF Rewired, r
<1>3. QED
  BY <1>1, <1>2

LEMMA RequestLineIs ==
  ASSUME NEW k \in KeyboardType
  PROVE  /\ Rewired(k, RequestLine(k))
         /\ k.assigned => Fresh(RequestLine(k))
<1>1. CASE k.assigned
  <2> DEFINE high == k.queue # <<>> /\ ~k.notified
  <2>1. RequestLine(k) = Input(k, high) /\ high \in BOOLEAN
    BY <1>1 DEF RequestLine
  <2> HIDE DEF high
  <2>2. Rewired(k, RequestLine(k)) /\ RequestLine(k).line = high
    BY <2>1, InputIs
  <2>3. RequestLine(k).queue = k.queue /\ RequestLine(k).notified = k.notified
    BY <2>2 DEF Rewired, KeyboardType
  <2>4. QED
    BY <2>2, <2>3 DEF high, Fresh
<1>2. CASE ~k.assigned
  <2>1. RequestLine(k) = k
    BY <1>2 DEF RequestLine
  <2>2. k = [k EXCEPT !.line = k.line, !.irq = k.irq]
    BY DEF KeyboardType
  <2>3. QED
    BY <1>2, <2>1, <2>2 DEF Rewired
<1>3. QED
  BY <1>1, <1>2

\* The keyboard r after codes c came into the queue of k.
Grown(k, r, c) ==
  /\ r.queue = k.queue \o c
  /\ r.assigned = k.assigned /\ r.notified = k.notified /\ r.selection = k.selection
  /\ r.pendingRead = k.pendingRead /\ r.writeSize = k.writeSize
  /\ "det" \in r.irq <=> "det" \in k.irq
  /\ k.assigned => Fresh(r)
  /\ (k.line => "pos" \in k.irq) => (r.line => "pos" \in r.irq)

LEMMA EnqueueIs ==
  ASSUME NEW k \in KeyboardType, NEW c \in Seq(Bytes)
  PROVE  /\ Enqueue(k, c) \in KeyboardType
         /\ Enqueue(k, c).held = k.held /\ Enqueue(k, c).release = k.release
         /\ Grown(k, Enqueue(k, c), c)
<1> DEFINE m == [k EXCEPT !.queue = k.queue \o c]
<1>1. Enqueue(k, c) = RequestLine(m)
  BY DEF Enqueue
<1>2. k.queue \o c \in Seq(Bytes)
  BY ConcatProperties DEF KeyboardType, Bytes
<1>3. /\ m \in KeyboardType /\ m.queue = k.queue \o c
      /\ m.held = k.held /\ m.release = k.release
      /\ m.assigned = k.assigned /\ m.notified = k.notified /\ m.selection = k.selection
      /\ m.pendingRead = k.pendingRead /\ m.writeSize = k.writeSize
      /\ m.irq = k.irq /\ m.line = k.line
  BY <1>2 DEF KeyboardType, Bytes
<1> HIDE DEF m
<1>4. Rewired(m, RequestLine(m)) /\ (m.assigned => Fresh(RequestLine(m)))
  BY <1>3, RequestLineIs
<1> DEFINE r == RequestLine(m)
<1> HIDE DEF r
<1>5. /\ r \in KeyboardType /\ r.queue = m.queue /\ r.held = m.held /\ r.release = m.release
      /\ r.assigned = m.assigned /\ r.notified = m.notified /\ r.selection = m.selection
      /\ r.pendingRead = m.pendingRead /\ r.writeSize = m.writeSize
      /\ "det" \in r.irq <=> "det" \in m.irq
      /\ (m.line => "pos" \in m.irq) => (r.line => "pos" \in r.irq)
      /\ m.assigned => Fresh(r)
  <2>1. /\ r \in KeyboardType /\ r = [m EXCEPT !.line = r.line, !.irq = r.irq]
        /\ "det" \in r.irq <=> "det" \in m.irq
        /\ (m.line => "pos" \in m.irq) => (r.line => "pos" \in r.irq)
        /\ m.assigned => Fresh(r)
    BY <1>4 DEF Rewired, r
  <2>2. /\ r.queue = m.queue /\ r.held = m.held /\ r.release = m.release
        /\ r.assigned = m.assigned /\ r.notified = m.notified /\ r.selection = m.selection
        /\ r.pendingRead = m.pendingRead /\ r.writeSize = m.writeSize
    BY <1>3, <2>1 DEF KeyboardType
  <2>3. QED
    BY <2>1, <2>2
<1>6. Grown(k, r, c)
  BY <1>3, <1>5 DEF Grown
<1>7. QED
  BY <1>1, <1>3, <1>5, <1>6 DEF r

\* What is sound with k is sound with more codes in its queue, when the keys
\* that are down follow what the codes say.
LEMMA GrownStands ==
  ASSUME NEW k \in KeyboardType, NEW r \in KeyboardType, NEW c \in Seq(Bytes), Grown(k, r, c),
         NEW p, NEW ph, NEW buf, Standing(k, p, ph, buf)
  PROVE  Standing(r, p, ph, buf)
<1>1. Exchange(r, p, ph)
  BY DEF Grown, Standing, Exchange
<1>2. Selected(r, p)
  BY DEF Grown, Standing, Selected
<1>3. k.queue # <<>> => r.queue # <<>>
  <2>1. k.queue \in Seq(Bytes) /\ r.queue = k.queue \o c
    BY DEF KeyboardType, Bytes, Grown
  <2>2. QED
    BY <2>1, ConcatEqualIffEmpty
<1>4. Attention(r, p, buf)
  BY <1>3 DEF Grown, Standing, Attention
<1>5. QED
  BY <1>1, <1>2, <1>4 DEF Standing

LEMMA DecodeThree ==
  ASSUME NEW g, NEW a \in Seq(Bytes), NEW b \in Seq(Bytes), NEW c \in Seq(Bytes)
  PROVE  Decode(Decode(g, a \o b), c) = Decode(g, a \o (b \o c))
<1>1. a \o b \in Seq(Bytes)
  BY ConcatProperties
<1>2. Decode(Decode(g, a \o b), c) = Decode(g, (a \o b) \o c)
  BY <1>1, DecodeConcat
<1>3. (a \o b) \o c = a \o (b \o c)
  BY ConcatAssociative
<1>4. QED
  BY <1>2, <1>3

LEMMA GrownMatches ==
  ASSUME NEW k \in KeyboardType, NEW r \in KeyboardType, NEW c \in Seq(Bytes), Grown(k, r, c),
         NEW p, NEW ph, NEW buf \in Seq(Bytes), NEW g, NEW u, Matches(k, p, ph, buf, g, u)
  PROVE  Decode(g, Flight(r, p, ph, buf) \o r.queue) =
           Decode([down |-> (k.held \cup k.release) \ u, break |-> FALSE], c)
<1> DEFINE f == Flight(k, p, ph, buf)
           q == k.queue
<1>1. f \in Seq(Bytes) /\ q \in Seq(Bytes) /\ Flight(r, p, ph, buf) = f
  BY EmptySeq DEF Flight, KeyboardType, Bytes, Grown
<1>2. r.queue = q \o c /\ Decode(g, f \o q) = [down |-> (k.held \cup k.release) \ u, break |-> FALSE]
  BY DEF Grown, Matches
<1> HIDE DEF f, q
<1>3. Decode(Decode(g, f \o q), c) = Decode(g, f \o (q \o c))
  <2>1. \A a, b, e \in Seq(Bytes) : Decode(Decode(g, a \o b), e) = Decode(g, a \o (b \o e))
    BY DecodeThree
  <2>2. QED
    BY <1>1, <2>1
<1>4. QED
  BY <1>1, <1>2, <1>3

-----------------------------------------------------------------------------
\* Breaks and makes.
LEMMA LowestOf ==
  ASSUME NEW S, S \subseteq Nat, S # {}
  PROVE  Min(S) \in S
<1>1. \E x \in S : \A y \in S : x <= y
  BY Least
<1>2. QED
  BY <1>1 DEF Min

LEMMA QueuedLength ==
  ASSUME NEW k \in KeyboardType, NEW r, NEW c \in Seq(Bytes), Grown(k, r, c), Fits(k, c)
  PROVE  Len(r.queue) <= Capacity
<1>1. k.queue \in Seq(Bytes) /\ r.queue = k.queue \o c
  BY DEF KeyboardType, Bytes, Grown
<1>2. Len(r.queue) = Len(k.queue) + Len(c)
  BY <1>1, ConcatItems
<1>3. QED
  BY <1>2 DEF Fits

\* A break that goes in was waiting, and its key is up from then on.
LEMMA ReleaseLowestKeeps ==
  ASSUME NEW k, NEW p, NEW ph, NEW buf \in Seq(Bytes), NEW g, NEW u, Sound(k, p, ph, buf, g, u)
  PROVE  Sound(ReleaseLowest(k), p, ph, buf, g, u)
<1> DEFINE key == Min(k.release)
           c == Codes(key, FALSE)
           m == [k EXCEPT !.release = k.release \ {key}]
           r == Enqueue(m, c)
<1>1. CASE ~(k.release # {} /\ Fits(k, c))
  BY <1>1 DEF ReleaseLowest
<1>2. CASE k.release # {} /\ Fits(k, c)
  <2>1. ReleaseLowest(k) = r
    BY <1>2 DEF ReleaseLowest
  <2>2. /\ k \in KeyboardType /\ k.held \cap k.release = {}
        /\ Standing(k, p, ph, buf) /\ Matches(k, p, ph, buf, g, u)
    BY DEF Sound
  <2>3. key \in k.release /\ key \in Keys
    BY <1>2, <2>2, LowestOf, ByteKinds DEF KeyboardType
  <2> HIDE DEF key
  <2>4. /\ m \in KeyboardType /\ m.held = k.held /\ m.release = k.release \ {key}
        /\ m.queue = k.queue /\ m.assigned = k.assigned /\ m.notified = k.notified
        /\ m.selection = k.selection /\ m.pendingRead = k.pendingRead
        /\ m.writeSize = k.writeSize /\ m.irq = k.irq /\ m.line = k.line
    BY <2>2 DEF KeyboardType
  <2> HIDE DEF m
  <2>5. /\ c \in Seq(Bytes)
        /\ \A o \in GuestType : ~o.break =>
             Decode(o, c) = [down |-> o.down \ {key}, break |-> FALSE]
    BY <2>3, CodesAre
  <2> HIDE DEF c
  <2>6. /\ r \in KeyboardType /\ r.held = k.held /\ r.release = k.release \ {key}
        /\ Grown(m, r, c)
    BY <2>4, <2>5, EnqueueIs
  <2> HIDE DEF r
  <2>7. Grown(k, r, c)
    BY <2>4, <2>6 DEF Grown
  <2>8. Standing(r, p, ph, buf)
    BY <2>2, <2>5, <2>6, <2>7, GrownStands
  <2>9. Matches(r, p, ph, buf, g, u)
    <3> DEFINE o == [down |-> (k.held \cup k.release) \ u, break |-> FALSE]
    <3>1. Decode(g, Flight(r, p, ph, buf) \o r.queue) = Decode(o, c)
      BY <2>2, <2>5, <2>6, <2>7, GrownMatches
    <3>2. o \in GuestType /\ ~o.break
      BY <2>2 DEF GuestType, KeyboardType
    <3>3. o.down = (k.held \cup k.release) \ u
      OBVIOUS
    <3> HIDE DEF o
    <3>4. Decode(o, c) = [down |-> o.down \ {key}, break |-> FALSE]
      BY <2>5, <3>2
    <3>5. o.down \ {key} = (r.held \cup r.release) \ u
      BY <2>2, <2>3, <2>6, <3>3
    <3>6. QED
      BY <3>1, <3>4, <3>5 DEF Matches
  <2>10. Len(r.queue) <= Capacity /\ r.held \cap r.release = {}
    BY <1>2, <2>2, <2>5, <2>6, <2>7, QueuedLength
  <2>11. QED
    BY <2>1, <2>6, <2>8, <2>9, <2>10 DEF Sound
<1>3. QED
  BY <1>1, <1>2

\* The keyboards that ReleaseKeys goes through.
Releases(k, n, h) ==
  /\ h = [i \in 0..n |-> h[i]]
  /\ h[0] = k
  /\ \A i \in 1..n : h[i] = ReleaseLowest(h[i - 1])

LEMMA ReleasesExist ==
  ASSUME NEW k, NEW n \in Nat
  PROVE  \E h : Releases(k, n, h)
<1> DEFINE S == {m \in 0..n : \E h : Releases(k, m, h)}
<1>1. 0 \in S
  <2> DEFINE h == [i \in 0..0 |-> k]
  <2>1. Releases(k, 0, h)
    BY DEF Releases
  <2>2. 0 \in 0..n
    OBVIOUS
  <2> HIDE DEF h
  <2>3. QED
    BY <2>1, <2>2
<1>2. ASSUME NEW m \in 1..n, m - 1 \in S PROVE m \in S
  <2>1. PICK h : Releases(k, m - 1, h)
    BY <1>2
  <2> DEFINE r == [i \in 0..m |-> IF i = m THEN ReleaseLowest(h[m - 1]) ELSE h[i]]
  <2>2. r[0] = k /\ r = [i \in 0..m |-> r[i]]
    BY <2>1 DEF Releases
  <2>3. ASSUME NEW i \in 1..m
        PROVE  r[i] = ReleaseLowest(r[i - 1])
    <3>1. CASE i = m
      <4>1. i - 1 \in 0..m /\ i - 1 # m /\ i - 1 = m - 1
        BY <3>1
      <4>2. QED
        BY <3>1, <4>1
    <3>2. CASE i # m
      <4>1. i \in 1..(m - 1) /\ i - 1 \in 0..m /\ i - 1 # m
        BY <3>2
      <4>2. h[i] = ReleaseLowest(h[i - 1])
        BY <2>1, <4>1 DEF Releases
      <4>3. r[i] = h[i] /\ r[i - 1] = h[i - 1]
        BY <3>2, <4>1
      <4>4. QED
        BY <4>2, <4>3
    <3>3. QED
      BY <3>1, <3>2
  <2> HIDE DEF r
  <2>4. Releases(k, m, r)
    BY <2>2, <2>3 DEF Releases
  <2>5. m \in 0..n
    OBVIOUS
  <2>6. QED
    BY <2>4, <2>5
<1> HIDE DEF S
<1>3. 0..n \subseteq S
  BY <1>1, <1>2, UpTo
<1>4. n \in S
  BY <1>3
<1>5. QED
  BY <1>4 DEF S

LEMMA ReleaseKeysIs ==
  ASSUME NEW k, NEW n \in Nat, n = Cardinality(k.release)
  PROVE  \E h : Releases(k, n, h) /\ ReleaseKeys(k) = h[n]
<1> DEFINE R(f) == f = [i \in 0..n |-> IF i = 0 THEN k ELSE ReleaseLowest(f[i - 1])]
           d == CHOOSE f : R(f)
<1>1. PICK h : Releases(k, n, h)
  BY ReleasesExist
<1>2. R(h)
  <2>1. \A i \in 0..n : i = 0 \/ i \in 1..n
    OBVIOUS
  <2>2. \A i \in 0..n : h[i] = IF i = 0 THEN k ELSE ReleaseLowest(h[i - 1])
    BY <1>1, <2>1 DEF Releases
  <2>3. h = [i \in 0..n |-> h[i]]
    BY <1>1 DEF Releases
  <2>4. QED
    BY <2>2, <2>3, Zenon
<1>3. R(d)
  BY <1>2
<1>4. Releases(k, n, d)
  <2>1. ASSUME NEW f, R(f) PROVE Releases(k, n, f)
    <3>1. \A i \in 0..n : f[i] = IF i = 0 THEN k ELSE ReleaseLowest(f[i - 1])
      BY <2>1
    <3>2. f = [i \in 0..n |-> f[i]]
      BY <2>1
    <3>3. 0 \in 0..n /\ \A i \in 1..n : i \in 0..n /\ i # 0
      OBVIOUS
    <3>4. f[0] = k /\ \A i \in 1..n : f[i] = ReleaseLowest(f[i - 1])
      BY <3>1, <3>3
    <3>5. QED
      BY <3>2, <3>4 DEF Releases
  <2>2. QED
    BY <1>3, <2>1
<1>5. ReleaseKeys(k) = d[n]
  BY DEF ReleaseKeys
<1> HIDE DEF d
<1>6. QED
  BY <1>4, <1>5

LEMMA ReleaseKeysKeeps ==
  ASSUME NEW k, NEW p, NEW ph, NEW buf \in Seq(Bytes), NEW g, NEW u, Sound(k, p, ph, buf, g, u)
  PROVE  Sound(ReleaseKeys(k), p, ph, buf, g, u)
<1>1. Cardinality(k.release) \in Nat
  <2>1. IsFiniteSet(Keys) /\ k.release \in SUBSET Keys
    BY KeysAssumption DEF Sound, KeyboardType
  <2>2. IsFiniteSet(k.release)
    BY <2>1, FS_Subset
  <2>3. QED
    BY <2>2, FS_CardinalityType
<1> DEFINE n == Cardinality(k.release)
<1>2. PICK h : Releases(k, n, h) /\ ReleaseKeys(k) = h[n]
  BY <1>1, ReleaseKeysIs
<1>3. n \in Nat
  BY <1>1
<1> HIDE DEF n
<1> DEFINE S == {i \in 0..n : Sound(h[i], p, ph, buf, g, u)}
<1>4. 0 \in S
  BY <1>2, <1>3 DEF Releases
<1>5. ASSUME NEW i \in 1..n, i - 1 \in S PROVE i \in S
  <2>1. h[i] = ReleaseLowest(h[i - 1])
    BY <1>2 DEF Releases
  <2>2. Sound(h[i - 1], p, ph, buf, g, u) /\ i \in 0..n
    BY <1>5
  <2>3. Sound(ReleaseLowest(h[i - 1]), p, ph, buf, g, u)
    BY <2>2, ReleaseLowestKeeps
  <2>4. QED
    BY <2>1, <2>2, <2>3
<1> HIDE DEF S
<1>6. 0..n \subseteq S
  BY <1>3, <1>4, <1>5, UpTo
<1>7. n \in S
  BY <1>3, <1>6
<1>8. QED
  BY <1>2, <1>7 DEF S

\* A make goes in ahead of no break of its key.
LEMMA PressKeeps ==
  ASSUME NEW k, NEW p, NEW ph, NEW buf \in Seq(Bytes), NEW g, NEW u, Sound(k, p, ph, buf, g, u),
         NEW key \in Keys, key \notin k.release, Fits(k, Codes(key, TRUE))
  PROVE  Sound([Enqueue(k, Codes(key, TRUE)) EXCEPT !.held = @ \cup {key}],
               p, ph, buf, g, u \ {key})
<1> DEFINE c == Codes(key, TRUE)
           m == Enqueue(k, c)
           r == [m EXCEPT !.held = k.held \cup {key}]
<1>1. /\ k \in KeyboardType /\ k.held \cap k.release = {}
      /\ Standing(k, p, ph, buf) /\ Matches(k, p, ph, buf, g, u)
  BY DEF Sound
<1>2. /\ c \in Seq(Bytes)
      /\ \A o \in GuestType : ~o.break =>
           Decode(o, c) = [down |-> o.down \cup {key}, break |-> FALSE]
  BY CodesAre
<1>3. Fits(k, c)
  OBVIOUS
<1> HIDE DEF c
<1>4. m \in KeyboardType /\ m.held = k.held /\ m.release = k.release /\ Grown(k, m, c)
  BY <1>1, <1>2, EnqueueIs
<1> HIDE DEF m
<1>5. /\ r \in KeyboardType /\ r.held = k.held \cup {key} /\ r.release = k.release
      /\ r.queue = m.queue /\ r.assigned = m.assigned /\ r.notified = m.notified
      /\ r.selection = m.selection /\ r.pendingRead = m.pendingRead
      /\ r.writeSize = m.writeSize /\ r.irq = m.irq /\ r.line = m.line
  BY <1>1, <1>4 DEF KeyboardType
<1>6. [m EXCEPT !.held = @ \cup {key}] = r
  BY <1>4
<1> HIDE DEF r
<1>7. Grown(k, r, c)
  BY <1>4, <1>5 DEF Grown, Fresh
<1>8. Standing(r, p, ph, buf)
  BY <1>1, <1>2, <1>5, <1>7, GrownStands
<1>9. Matches(r, p, ph, buf, g, u \ {key})
  <2> DEFINE o == [down |-> (k.held \cup k.release) \ u, break |-> FALSE]
  <2>1. Decode(g, Flight(r, p, ph, buf) \o r.queue) = Decode(o, c)
    BY <1>1, <1>2, <1>5, <1>7, GrownMatches
  <2>2. o \in GuestType /\ ~o.break
    BY <1>1 DEF GuestType, KeyboardType
  <2>3. o.down = (k.held \cup k.release) \ u
    OBVIOUS
  <2> HIDE DEF o
  <2>4. Decode(o, c) = [down |-> o.down \cup {key}, break |-> FALSE]
    BY <1>2, <2>2
  <2>5. o.down \cup {key} = (r.held \cup r.release) \ (u \ {key})
    BY <1>5, <2>3
  <2>6. QED
    BY <2>1, <2>4, <2>5 DEF Matches
<1>10. Len(r.queue) <= Capacity /\ r.held \cap r.release = {}
  BY <1>1, <1>2, <1>3, <1>5, <1>7, QueuedLength
<1>11. Sound(r, p, ph, buf, g, u \ {key})
  BY <1>5, <1>8, <1>9, <1>10 DEF Sound
<1>12. QED
  BY <1>6, <1>11 DEF m, c

-----------------------------------------------------------------------------
\* What every step rests on.
LEMMA RewiredFields ==
  ASSUME NEW m \in KeyboardType, NEW r, Rewired(m, r)
  PROVE  /\ r \in KeyboardType
         /\ r.queue = m.queue /\ r.held = m.held /\ r.release = m.release
         /\ r.assigned = m.assigned /\ r.notified = m.notified /\ r.selection = m.selection
         /\ r.pendingRead = m.pendingRead /\ r.writeSize = m.writeSize
         /\ r.packet = m.packet
         /\ "det" \in r.irq <=> "det" \in m.irq
         /\ (m.line => "pos" \in m.irq) => (r.line => "pos" \in r.irq)
<1>1. /\ r \in KeyboardType /\ r = [m EXCEPT !.line = r.line, !.irq = r.irq]
      /\ "det" \in r.irq <=> "det" \in m.irq
      /\ (m.line => "pos" \in m.irq) => (r.line => "pos" \in r.irq)
  BY DEF Rewired
<1>2. QED
  BY <1>1 DEF KeyboardType

LEMMA Known ==
  ASSUME KeyboardIInv
  PROVE  /\ kb \in KeyboardType /\ Len(kb.queue) <= Capacity
         /\ kb.held \cap kb.release = {}
         /\ Exchange(kb, pc, phase) /\ Selected(kb, pc) /\ Attention(kb, pc, inbox)
         /\ Matches(kb, pc, phase, inbox, guest, unseen)
         /\ Sound(kb, pc, phase, inbox, guest, unseen)
         /\ phase \in {"master", "asked", "slave"} /\ fits \in BOOLEAN
         /\ inbox \in Seq(Bytes) /\ Len(inbox) <= ReadMax
         /\ pc \in Places /\ guest \in GuestType /\ unseen \in SUBSET Keys
         /\ typed \in 0..MaxTyped /\ whims \in 0..MaxWhims /\ faults \in 0..MaxFaults
         /\ MaxTyped \in Nat /\ MaxWhims \in Nat /\ MaxFaults \in Nat
BY TypingAssumption
   DEF KeyboardIInv, KeyboardTypeOK, Sound, Standing, Bytes, GuestType

LEMMA Gathered ==
  ASSUME Sound(kb', pc', phase', inbox', guest', unseen'),
         phase' \in {"master", "asked", "slave"}, fits' \in BOOLEAN,
         inbox' \in Seq(Bytes), Len(inbox') <= ReadMax,
         pc' \in Places, guest' \in GuestType, unseen' \in SUBSET Keys,
         typed' \in 0..MaxTyped, whims' \in 0..MaxWhims, faults' \in 0..MaxFaults
  PROVE  KeyboardIInv'
BY DEF KeyboardIInv, KeyboardTypeOK, Sound, Bytes, GuestType

\* A keyboard with the queue and the keys of k, when nothing is in flight to
\* the driver before or after.
LEMMA MatchesStill ==
  ASSUME NEW k, NEW p, NEW ph, NEW buf, NEW g, NEW u, Matches(k, p, ph, buf, g, u),
         NEW r, NEW q, NEW pi, NEW new,
         r.queue = k.queue, r.held = k.held, r.release = k.release,
         Flight(r, q, pi, new) = Flight(k, p, ph, buf)
  PROVE  Matches(r, q, pi, new, g, u)
BY DEF Matches

LEMMA DecodeType ==
  ASSUME NEW g \in GuestType, NEW s \in Seq(Bytes)
  PROVE  Decode(g, s) \in GuestType
<1>1. Len(s) \in Nat
  BY LenProperties
<1> DEFINE n == Len(s)
<1>2. PICK h : Hears(g, s, n, h)
  BY <1>1, HearsExist
<1>3. n \in Nat /\ Decode(g, s) = h[n]
  BY <1>1, <1>2, DecodeIs
<1>4. \A i \in 1..n : s[i] \in Bytes
  BY ElementOfSeq
<1> HIDE DEF n
<1> DEFINE S == {i \in 0..n : h[i] \in GuestType}
<1>5. 0 \in S
  BY <1>2, <1>3 DEF Hears
<1>6. ASSUME NEW i \in 1..n, i - 1 \in S PROVE i \in S
  <2>1. h[i] = Hear(h[i - 1], s[i])
    BY <1>2 DEF Hears
  <2>2. h[i - 1] \in GuestType /\ i \in 0..n
    BY <1>6
  <2>3. s[i] = E0 \/ s[i] = F0 \/ s[i] \in Keys
    BY <1>4 DEF Bytes
  <2> DEFINE o == h[i - 1]
             b == s[i]
  <2>4. o \in GuestType
    BY <2>2
  <2> HIDE DEF o, b
  <2>5. CASE b = E0
    <3>1. Hear(o, b) = o
      BY ByteKinds, <2>5 DEF Hear
    <3>2. QED
      BY <2>1, <2>2, <2>4, <3>1 DEF o, b
  <2>6. CASE b = F0
    <3>1. Hear(o, b) = [o EXCEPT !.break = TRUE]
      BY ByteKinds, <2>6 DEF Hear
    <3>2. Hear(o, b) \in GuestType
      BY <2>4, <3>1 DEF GuestType
    <3>3. QED
      BY <2>1, <2>2, <3>2 DEF o, b
  <2>7. CASE b \in Keys
    <3>1. Hear(o, b) \in GuestType
      BY <2>4, <2>7, HearIs
    <3>2. QED
      BY <2>1, <2>2, <3>1 DEF o, b
  <2>8. QED
    BY <2>3, <2>5, <2>6, <2>7 DEF b
<1> HIDE DEF S
<1>7. 0..n \subseteq S
  BY <1>3, <1>5, <1>6, UpTo
<1>8. n \in S
  BY <1>3, <1>7
<1>9. QED
  BY <1>3, <1>8 DEF S

LEMMA KeyboardInitHolds == KeyboardInit => KeyboardIInv
<1> SUFFICES ASSUME KeyboardInit PROVE KeyboardIInv
  OBVIOUS
<1>1. <<>> \in Seq(Bytes) /\ Len(<<>>) = 0 /\ <<>> \o <<>> = <<>>
  BY EmptySeq, ConcatEmptySeq
<1>2. /\ Capacity \in Nat /\ ReadMax \in Nat
      /\ MaxTyped \in Nat /\ MaxWhims \in Nat /\ MaxFaults \in Nat
  BY KeysAssumption, TypingAssumption
<1>3. kb \in KeyboardType /\ Len(kb.queue) <= Capacity /\ kb.held \cap kb.release = {}
  BY <1>1, <1>2 DEF KeyboardInit, KeyboardType, Edges, Selections, Packets, Bytes
<1>4. Standing(kb, pc, phase, inbox)
  BY DEF KeyboardInit, Standing, Exchange, Selected, Attention, Fresh
<1>5. Matches(kb, pc, phase, inbox, guest, unseen)
  <2>1. Flight(kb, pc, phase, inbox) = <<>> /\ kb.queue = <<>>
    BY DEF KeyboardInit, Flight
  <2>2. Decode(guest, <<>>) = guest
    BY DecodeNothing
  <2>3. guest = [down |-> (kb.held \cup kb.release) \ unseen, break |-> FALSE]
    BY DEF KeyboardInit, NoKeys
  <2>4. QED
    BY <1>1, <2>1, <2>2, <2>3 DEF Matches
<1>6. Sound(kb, pc, phase, inbox, guest, unseen)
  BY <1>3, <1>4, <1>5 DEF Sound
<1>7. QED
  BY <1>1, <1>2, <1>6
     DEF KeyboardIInv, KeyboardTypeOK, KeyboardInit, Sound, Places, NoKeys, Bytes

-----------------------------------------------------------------------------
\* The host.
LEMMA HostPressesStep ==
  ASSUME KeyboardIInv, NEW key \in Keys, HostPresses(key)
  PROVE  KeyboardIInv'
<1>1. /\ key \notin kb.release /\ Fits(kb, Codes(key, TRUE))
      /\ typed < MaxTyped /\ typed' = typed + 1
      /\ kb' = [Enqueue(kb, Codes(key, TRUE)) EXCEPT !.held = @ \cup {key}]
      /\ unseen' = unseen \ {key}
      /\ UNCHANGED <<phase, fits, inbox, pc, guest, whims, faults>>
  BY DEF HostPresses, Make, driver
<1>2. Sound([Enqueue(kb, Codes(key, TRUE)) EXCEPT !.held = @ \cup {key}],
            pc, phase, inbox, guest, unseen \ {key})
  BY <1>1, Known, PressKeeps
<1>3. Sound(kb', pc', phase', inbox', guest', unseen')
  BY <1>1, <1>2
<1>4. typed' \in 0..MaxTyped /\ unseen' \in SUBSET Keys
  BY <1>1, Known
<1>5. QED
  BY <1>1, <1>3, <1>4, Known, Gathered

\* A key that is let go, or all of them, waits for its break.
LEMMA LetGoKeeps ==
  ASSUME NEW k, NEW p, NEW ph, NEW buf, NEW g, NEW u, Sound(k, p, ph, buf, g, u),
         NEW S, S \subseteq k.held
  PROVE  Sound([k EXCEPT !.held = k.held \ S, !.release = k.release \cup S], p, ph, buf, g, u)
<1> DEFINE r == [k EXCEPT !.held = k.held \ S, !.release = k.release \cup S]
<1>1. /\ k \in KeyboardType /\ Len(k.queue) <= Capacity /\ k.held \cap k.release = {}
      /\ Standing(k, p, ph, buf) /\ Matches(k, p, ph, buf, g, u)
  BY DEF Sound
<1>2. /\ r \in KeyboardType /\ r.held = k.held \ S /\ r.release = k.release \cup S
      /\ r.queue = k.queue /\ r.assigned = k.assigned /\ r.notified = k.notified
      /\ r.selection = k.selection /\ r.pendingRead = k.pendingRead
      /\ r.writeSize = k.writeSize /\ r.irq = k.irq /\ r.line = k.line
  BY <1>1 DEF KeyboardType
<1> HIDE DEF r
<1>3. Standing(r, p, ph, buf)
  BY <1>1, <1>2 DEF Standing, Exchange, Selected, Attention, Fresh
<1>4. Matches(r, p, ph, buf, g, u)
  <2>1. r.held \cup r.release = k.held \cup k.release
    BY <1>2
  <2>2. QED
    BY <1>1, <1>2, <2>1 DEF Matches, Flight
<1>5. r.held \cap r.release = {}
  BY <1>1, <1>2
<1>6. QED
  BY <1>1, <1>2, <1>3, <1>4, <1>5 DEF Sound, r

LEMMA HostLetsGoStep ==
  ASSUME KeyboardIInv, NEW key \in Keys, HostLetsGo(key)
  PROVE  KeyboardIInv'
<1> DEFINE k == [kb EXCEPT !.held = kb.held \ {key}, !.release = kb.release \cup {key}]
<1>1. /\ key \in kb.held /\ kb' = ReleaseKeys(k)
      /\ UNCHANGED <<phase, fits, inbox, pc, guest, unseen, typed, whims, faults>>
  BY DEF HostLetsGo, driver
<1>2. Sound(k, pc, phase, inbox, guest, unseen)
  BY <1>1, Known, LetGoKeeps
<1> HIDE DEF k
<1>3. Sound(kb', pc', phase', inbox', guest', unseen')
  BY <1>1, <1>2, Known, ReleaseKeysKeeps
<1>4. QED
  BY <1>1, <1>3, Known, Gathered

LEMMA HostLosesFocusStep ==
  ASSUME KeyboardIInv, HostLosesFocus
  PROVE  KeyboardIInv'
<1>1. /\ kb' = [kb EXCEPT !.release = kb.release \cup kb.held, !.held = {}]
      /\ UNCHANGED <<phase, fits, inbox, pc, guest, unseen, typed, whims, faults>>
  BY DEF HostLosesFocus, driver
<1>2. Sound([kb EXCEPT !.held = kb.held \ kb.held, !.release = kb.release \cup kb.held],
            pc, phase, inbox, guest, unseen)
  BY Known, LetGoKeeps
<1>3. kb' = [kb EXCEPT !.held = kb.held \ kb.held, !.release = kb.release \cup kb.held]
  BY <1>1, Known DEF KeyboardType
<1>4. Sound(kb', pc', phase', inbox', guest', unseen')
  BY <1>1, <1>2, <1>3
<1>5. QED
  BY <1>1, <1>4, Known, Gathered

-----------------------------------------------------------------------------
\* The loop.
LEMMA SplitQueue ==
  ASSUME NEW k \in KeyboardType
  PROVE  /\ Taken(k) \in Seq(Bytes) /\ Len(Taken(k)) <= ReadMax
         /\ Remaining(k) \in Seq(Bytes) /\ Len(Remaining(k)) <= Len(k.queue)
         /\ Taken(k) \o Remaining(k) = k.queue
<1> DEFINE q == k.queue
           n == Min({ReadMax, Len(q)})
<1>1. q \in Seq(Bytes) /\ Len(q) \in Nat /\ ReadMax \in Nat
  BY KeysAssumption, LenProperties DEF KeyboardType, Bytes
<1>2. n \in 0..Len(q) /\ n <= ReadMax
  <2>1. \E x \in {ReadMax, Len(q)} : \A y \in {ReadMax, Len(q)} : x <= y
    BY <1>1
  <2>2. n \in {ReadMax, Len(q)} /\ \A y \in {ReadMax, Len(q)} : n <= y
    BY <2>1 DEF Min
  <2>3. QED
    BY <1>1, <2>2
<1>3. Taken(k) = SubSeq(q, 1, n)
  BY DEF Taken
<1> HIDE DEF q, n
<1>4. \A i \in 1..Len(q) : q[i] \in Bytes
  BY <1>1, ElementOfSeq
<1>5. Taken(k) \in Seq(Bytes) /\ Len(Taken(k)) = n
  <2>1. \A i \in 1..n : q[i] \in Bytes
    BY <1>1, <1>2, <1>4
  <2>2. SubSeq(q, 1, n) \in Seq(Bytes) /\ Len(SubSeq(q, 1, n)) = IF 1 <= n THEN n - 1 + 1 ELSE 0
    BY <1>1, <1>2, <2>1, SubSeqProperties
  <2>3. QED
    BY <1>2, <1>3, <2>2
<1>6. Remaining(k) = SubSeq(q, n + 1, Len(q))
  BY <1>5 DEF Remaining, q
<1>7. Remaining(k) \in Seq(Bytes) /\ Len(Remaining(k)) <= Len(q)
  <2>1. n + 1 \in Int /\ \A i \in (n + 1)..Len(q) : q[i] \in Bytes
    BY <1>1, <1>2, <1>4
  <2>2. /\ SubSeq(q, n + 1, Len(q)) \in Seq(Bytes)
        /\ Len(SubSeq(q, n + 1, Len(q))) = IF n + 1 <= Len(q) THEN Len(q) - (n + 1) + 1 ELSE 0
    BY <1>1, <2>1, SubSeqProperties
  <2>3. QED
    BY <1>1, <1>2, <1>6, <2>2
<1>8. SubSeq(q, 1, n) \o SubSeq(q, n + 1, Len(q)) = q
  <2>1. SubSeq(q, 1, n) \o SubSeq(q, n + 1, Len(q)) = SubSeq(q, 1, Len(q))
    <3>1. /\ 1 \in 1..(Len(q) + 1) /\ n \in (1 - 1)..Len(q)
          /\ Len(q) \in n..Len(q)
      BY <1>1, <1>2
    <3>2. QED
      BY <1>1, <3>1, ConcatAdjacentSubSeq, Zenon
  <2>2. SubSeq(q, 1, Len(q)) = q
    BY <1>1, SubSeqFull
  <2>3. QED
    BY <2>1, <2>2
<1>9. QED
  BY <1>2, <1>3, <1>5, <1>6, <1>7, <1>8 DEF q

LEMMA UnservedKeeps ==
  ASSUME NEW k, NEW p, NEW ph, NEW buf, NEW g, NEW u, Sound(k, p, ph, buf, g, u)
  PROVE  Sound(Unserved(k), p, ph, buf, g, u)
<1> DEFINE r == Unserved(k)
<1>1. /\ k \in KeyboardType /\ Len(k.queue) <= Capacity /\ k.held \cap k.release = {}
      /\ Standing(k, p, ph, buf) /\ Matches(k, p, ph, buf, g, u)
  BY DEF Sound
<1>2. /\ r \in KeyboardType /\ r.held = k.held /\ r.release = k.release
      /\ r.queue = k.queue /\ r.assigned = k.assigned /\ r.notified = k.notified
      /\ r.selection = k.selection /\ r.pendingRead = 0
      /\ r.writeSize = k.writeSize /\ r.irq = k.irq /\ r.line = k.line
  BY <1>1 DEF KeyboardType, Unserved
<1> HIDE DEF r
<1>3. Standing(r, p, ph, buf)
  BY <1>1, <1>2 DEF Standing, Exchange, Selected, Attention, Fresh
<1>4. Flight(r, p, ph, buf) = Flight(k, p, ph, buf)
  BY <1>2 DEF Flight
<1>5. QED
  BY <1>1, <1>2, <1>3, <1>4, MatchesStill DEF Sound, r

LEMMA ServedKeeps ==
  ASSUME NEW k, NEW p, NEW buf, NEW g, NEW u, Sound(k, p, "slave", buf, g, u),
         k.pendingRead # 0
  PROVE  /\ Sound(Served(k), p, "slave", Data(k), g, u)
         /\ Data(k) \in Seq(Bytes) /\ Len(Data(k)) <= ReadMax
<1> DEFINE m == IF k.pendingRead = 1 THEN [Ended(k) EXCEPT !.notified = TRUE]
                ELSE IF ScanRead(k)
                     THEN [Ended(k) EXCEPT !.queue = Remaining(k), !.notified = FALSE]
                     ELSE [Ended(k) EXCEPT !.selection = 0]
           r == RequestLine(m)
<1>1. /\ k \in KeyboardType /\ Len(k.queue) <= Capacity /\ k.held \cap k.release = {}
      /\ Exchange(k, p, "slave") /\ Selected(k, p) /\ Attention(k, p, buf)
      /\ Matches(k, p, "slave", buf, g, u)
  BY DEF Sound, Standing
<1>2. Served(k) = r
  BY DEF Served
<1>3. /\ p \in {"id", "info", "request", "scan"} /\ "det" \notin k.irq
      /\ k.pendingRead = (IF p = "request" THEN 1 ELSE 2)
      /\ k.assigned
  BY <1>1 DEF Exchange, Attention
<1>4. Flight(k, p, "slave", buf) = <<>>
  BY <1>3 DEF Flight
<1>5. ScanRead(k) <=> p = "scan"
  BY <1>1, <1>3 DEF ScanRead, Selected
<1>6. /\ Taken(k) \in Seq(Bytes) /\ Len(Taken(k)) <= ReadMax
      /\ Remaining(k) \in Seq(Bytes) /\ Len(Remaining(k)) <= Len(k.queue)
      /\ Taken(k) \o Remaining(k) = k.queue
  BY <1>1, SplitQueue
<1>7. /\ m \in KeyboardType /\ m.held = k.held /\ m.release = k.release
      /\ m.assigned = k.assigned /\ m.pendingRead = 0 /\ m.line = k.line
      /\ "det" \in m.irq /\ ("pos" \in k.irq => "pos" \in m.irq)
      /\ m.writeSize = k.writeSize
      /\ m.queue = (IF p = "scan" THEN Remaining(k) ELSE k.queue)
      /\ m.notified = (IF p = "request" THEN TRUE ELSE IF p = "scan" THEN FALSE ELSE k.notified)
      /\ m.selection = (IF p \in {"request", "scan"} THEN k.selection ELSE 0)
  <2> DEFINE e == Ended(k)
  <2>1. e = [k EXCEPT !.pendingRead = 0, !.irq = k.irq \cup {"det"}]
    BY DEF Ended
  <2> HIDE DEF e
  <2>2. k.irq \cup {"det"} \in SUBSET Edges /\ 0 \in 0..2
    BY <1>1 DEF KeyboardType, Edges
  <2>3. /\ e \in KeyboardType /\ e.pendingRead = 0 /\ e.irq = k.irq \cup {"det"}
        /\ e.held = k.held /\ e.release = k.release /\ e.assigned = k.assigned
        /\ e.line = k.line /\ e.writeSize = k.writeSize /\ e.queue = k.queue
        /\ e.notified = k.notified /\ e.selection = k.selection
    BY <1>1, <2>1, <2>2 DEF KeyboardType
  <2>4. CASE p = "request"
    <3>1. m = [e EXCEPT !.notified = TRUE]
      BY <1>3, <2>4 DEF e
    <3> HIDE DEF m
    <3>2. QED
      BY <2>3, <2>4, <3>1 DEF KeyboardType
  <2>5. CASE p = "scan"
    <3>1. m = [e EXCEPT !.queue = Remaining(k), !.notified = FALSE]
      BY <1>3, <1>5, <2>5 DEF e
    <3> HIDE DEF m
    <3>2. Remaining(k) \in Seq(Keys \cup {E0, F0})
      BY <1>6 DEF Bytes
    <3>3. QED
      BY <2>3, <2>5, <3>1, <3>2 DEF KeyboardType
  <2>6. CASE p \in {"id", "info"}
    <3>1. m = [e EXCEPT !.selection = 0]
      BY <1>3, <1>5, <2>6 DEF e
    <3> HIDE DEF m
    <3>2. 0 \in Selections
      BY DEF Selections
    <3>3. QED
      BY <2>3, <2>6, <3>1, <3>2 DEF KeyboardType
  <2>7. QED
    BY <1>3, <2>4, <2>5, <2>6
<1> HIDE DEF m
<1>8. Rewired(m, r) /\ Fresh(r)
  BY <1>3, <1>7, RequestLineIs
<1> HIDE DEF r
<1>9. /\ r \in KeyboardType
      /\ r.queue = m.queue /\ r.held = m.held /\ r.release = m.release
      /\ r.assigned = m.assigned /\ r.notified = m.notified /\ r.selection = m.selection
      /\ r.pendingRead = m.pendingRead /\ r.writeSize = m.writeSize
      /\ "det" \in r.irq
      /\ (m.line => "pos" \in m.irq) => (r.line => "pos" \in r.irq)
  BY <1>7, <1>8, RewiredFields
<1>10. Data(k) = IF p = "request" THEN IF k.queue = <<>> THEN <<>> ELSE <<F0>>
                 ELSE IF p = "scan" THEN Taken(k) ELSE <<>>
  BY <1>3, <1>5 DEF Data
<1>11. Data(k) \in Seq(Bytes) /\ Len(Data(k)) <= ReadMax
  <2>1. <<>> \in Seq(Bytes) /\ Len(<<>>) = 0 /\ <<F0>> \in Seq(Bytes) /\ Len(<<F0>>) = 1
    BY EmptySeq DEF Bytes
  <2>2. QED
    BY <1>6, <1>10, <2>1, KeysAssumption
<1>12. Exchange(r, p, "slave")
  BY <1>1, <1>3, <1>7, <1>9 DEF Exchange, Selected
<1>13. Selected(r, p)
  BY <1>1, <1>3, <1>7, <1>9 DEF Selected
<1>14. Attention(r, p, Data(k))
  <2>1. p = "request" => k.queue # <<>> /\ Data(k) # <<>>
    BY <1>1, <1>10 DEF Attention
  <2>2. r.notified <=> p = "request"
    BY <1>1, <1>3, <1>7, <1>9 DEF Attention
  <2>3. p # "request" /\ r.line => "pos" \in r.irq
    BY <1>1, <1>7, <1>9 DEF Attention
  <2>4. QED
    BY <1>3, <1>7, <1>8, <1>9, <2>1, <2>2, <2>3 DEF Attention
<1>15. Matches(r, p, "slave", Data(k), g, u)
  <2>1. Flight(r, p, "slave", Data(k)) \o r.queue = Flight(k, p, "slave", buf) \o k.queue
    <3>1. CASE p = "scan"
      <4>1. Flight(r, p, "slave", Data(k)) = Taken(k) /\ r.queue = Remaining(k)
        BY <1>7, <1>9, <1>10, <3>1 DEF Flight
      <4>2. k.queue \in Seq(Bytes)
        BY <1>1 DEF KeyboardType, Bytes
      <4>3. <<>> \o k.queue = k.queue
        BY <4>2, ConcatEmptySeq
      <4>4. QED
        BY <1>4, <1>6, <4>1, <4>3
    <3>2. CASE p # "scan"
      <4>1. Flight(r, p, "slave", Data(k)) = <<>> /\ r.queue = k.queue
        BY <1>7, <1>9, <3>2 DEF Flight
      <4>2. QED
        BY <1>4, <4>1
    <3>3. QED
      BY <3>1, <3>2
  <2>2. r.held = k.held /\ r.release = k.release
    BY <1>7, <1>9
  <2>3. QED
    BY <1>1, <2>1, <2>2 DEF Matches
<1>16. Len(r.queue) <= Capacity /\ r.held \cap r.release = {}
  <2>1. Len(r.queue) <= Len(k.queue) /\ Len(r.queue) \in Int /\ Len(k.queue) \in Int
    <3>1. k.queue \in Seq(Bytes) /\ r.queue \in Seq(Bytes)
      BY <1>1, <1>9 DEF KeyboardType, Bytes
    <3>2. Len(k.queue) \in Nat /\ Len(r.queue) \in Nat
      BY <3>1, LenProperties
    <3>3. QED
      BY <1>6, <1>7, <1>9, <3>2
  <2>2. QED
    BY <1>1, <1>7, <1>9, <2>1, KeysAssumption
<1>17. QED
  BY <1>2, <1>9, <1>11, <1>12, <1>13, <1>14, <1>15, <1>16 DEF Sound, Standing

LEMMA ServiceStep ==
  ASSUME KeyboardIInv, Service
  PROVE  KeyboardIInv'
<1> DEFINE k == ReleaseKeys(kb)
           due == k.pendingRead # 0 /\ phase = "slave"
           refused == ~fits \/ (k.pendingRead = 2 /\ k.selection = 5)
<1>1. /\ kb' = IF ~due THEN k ELSE IF refused THEN Unserved(k) ELSE Served(k)
      /\ inbox' = IF due /\ ~refused THEN Data(k) ELSE inbox
      /\ UNCHANGED <<phase, fits, pc, guest, unseen, typed, whims, faults>>
  BY DEF Service
<1>2. Sound(k, pc, phase, inbox, guest, unseen)
  BY Known, ReleaseKeysKeeps
<1> HIDE DEF k
<1>3. /\ Sound(kb', pc', phase', inbox', guest', unseen')
      /\ inbox' \in Seq(Bytes) /\ Len(inbox') <= ReadMax
  <2>1. CASE ~due
    BY <1>1, <1>2, <2>1, Known
  <2>2. CASE due /\ refused
    <3>1. Sound(Unserved(k), pc, phase, inbox, guest, unseen)
      BY <1>2, UnservedKeeps
    <3>2. QED
      BY <1>1, <2>2, <3>1, Known
  <2>3. CASE due /\ ~refused
    <3>1. Sound(k, pc, "slave", inbox, guest, unseen) /\ k.pendingRead # 0
      BY <1>2, <2>3
    <3>2. /\ Sound(Served(k), pc, "slave", Data(k), guest, unseen)
          /\ Data(k) \in Seq(Bytes) /\ Len(Data(k)) <= ReadMax
      BY <3>1, ServedKeeps
    <3>3. kb' = Served(k) /\ inbox' = Data(k) /\ phase' = "slave" /\ pc' = pc /\ guest' = guest
          /\ unseen' = unseen
      BY <1>1, <2>3
    <3>4. QED
      BY <3>2, <3>3
  <2>4. QED
    BY <2>1, <2>2, <2>3
<1>4. QED
  BY <1>1, <1>3, Known, Gathered

-----------------------------------------------------------------------------
\* The driver.
LEMMA AtRest ==
  ASSUME KeyboardIInv, pc \notin {"id", "info", "request", "scan"}
  PROVE  /\ phase = "master" /\ "det" \notin kb.irq /\ kb.pendingRead = 0 /\ ~kb.notified
         /\ \A r, p, ph : "det" \notin r.irq =>
              Flight(r, p, ph, inbox) = Flight(kb, pc, phase, inbox)
<1>1. phase = "master" /\ "det" \notin kb.irq /\ kb.pendingRead = 0 /\ ~kb.notified
  BY Known DEF Exchange, Attention
<1>2. QED
  BY <1>1 DEF Flight

\* r stands for kb in all but its line, the registers of the exchange and the
\* request; the driver goes to p.
LEMMA Moved ==
  ASSUME KeyboardIInv, NEW r \in KeyboardType, NEW p, NEW ph,
         r.queue = kb.queue, r.held = kb.held, r.release = kb.release,
         Exchange(r, p, ph), Selected(r, p), Attention(r, p, inbox),
         Flight(r, p, ph, inbox) = Flight(kb, pc, phase, inbox)
  PROVE  Sound(r, p, ph, inbox, guest, unseen)
<1>1. Matches(r, p, ph, inbox, guest, unseen)
  BY Known, MatchesStill
<1>2. QED
  BY <1>1, Known DEF Sound, Standing

LEMMA DiscoversStep ==
  ASSUME KeyboardIInv, Discovers
  PROVE  KeyboardIInv'
<1>1. UNCHANGED <<phase, fits, inbox, guest, unseen, typed, whims, faults>>
  BY DEF Discovers, Same, Goes
<1>2. pc' \in Places
  BY DEF Discovers, Goes, Places
<1>3. Sound(kb', pc', phase, inbox, guest, unseen)
  <2>1. CASE pc = "reset" /\ pc' = "assign" /\ kb' = Broadcast(kb)
    <3> DEFINE m == [kb EXCEPT !.assigned = FALSE, !.notified = FALSE, !.selection = 0,
                               !.pendingRead = 0, !.writeSize = 0]
               r == Input(m, TRUE)
    <3>1. kb' = r
      BY <2>1 DEF Broadcast
    <3>2. /\ m \in KeyboardType /\ m.queue = kb.queue /\ m.held = kb.held
          /\ m.release = kb.release /\ m.irq = kb.irq /\ m.line = kb.line
          /\ ~m.notified /\ m.selection = 0 /\ m.pendingRead = 0
      <4>1. kb \in KeyboardType /\ 0 \in Selections
        BY Known DEF Selections
      <4>2. /\ m.queue = kb.queue /\ m.held = kb.held /\ m.release = kb.release
            /\ m.irq = kb.irq /\ m.line = kb.line /\ ~m.notified
        BY <4>1 DEF KeyboardType
      <4>3. m.selection = 0 /\ m.pendingRead = 0 /\ m.writeSize = 0 /\ m.assigned = FALSE
        BY <4>1 DEF KeyboardType
      <4>4. m \in KeyboardType
        <5> DEFINE n == [kb EXCEPT !.assigned = FALSE, !.notified = FALSE, !.selection = 0]
        <5>1. n \in KeyboardType
          BY <4>1 DEF KeyboardType
        <5> DEFINE o == [n EXCEPT !.pendingRead = 0]
        <5>2. o \in KeyboardType
          <6> HIDE DEF n
          <6>1. QED
            BY <5>1 DEF KeyboardType
        <5>3. m = [o EXCEPT !.writeSize = 0]
          BY <4>1 DEF KeyboardType
        <5> HIDE DEF o, m
        <5>4. QED
          BY <5>2, <5>3 DEF KeyboardType
      <4>5. QED
        BY <4>2, <4>3, <4>4
    <3> HIDE DEF m
    <3>3. Rewired(m, r)
      BY <3>2, InputIs
    <3> HIDE DEF r
    <3>4. /\ r \in KeyboardType /\ r.queue = kb.queue /\ r.held = kb.held
          /\ r.release = kb.release /\ ~r.notified /\ r.selection = 0 /\ r.pendingRead = 0
          /\ "det" \in r.irq <=> "det" \in kb.irq
          /\ (kb.line => "pos" \in kb.irq) => (r.line => "pos" \in r.irq)
      BY <3>2, <3>3, RewiredFields
    <3>5. "det" \notin r.irq /\ phase = "master"
      BY <2>1, <3>4, AtRest
    <3>6. Exchange(r, "assign", phase) /\ Selected(r, "assign")
      BY <3>4, <3>5 DEF Exchange, Selected
    <3>7. Attention(r, "assign", inbox)
      BY <2>1, <3>4, <3>5, Known DEF Attention
    <3>8. Flight(r, "assign", phase, inbox) = Flight(kb, pc, phase, inbox)
      BY <2>1, <3>5, AtRest
    <3>9. QED
      BY <2>1, <3>1, <3>4, <3>6, <3>7, <3>8, Moved
  <2>2. CASE pc = "assign" /\ pc' = "chain" /\ kb' = Assign(kb)
    <3> DEFINE r == [kb EXCEPT !.assigned = TRUE]
    <3>1. kb' = r
      BY <2>2 DEF Assign
    <3>2. /\ r \in KeyboardType /\ r.queue = kb.queue /\ r.held = kb.held
          /\ r.release = kb.release /\ r.irq = kb.irq /\ r.line = kb.line /\ r.assigned
          /\ r.notified = kb.notified /\ r.selection = kb.selection
          /\ r.pendingRead = kb.pendingRead
      BY Known DEF KeyboardType
    <3> HIDE DEF r
    <3>3. "det" \notin r.irq /\ phase = "master" /\ r.pendingRead = 0 /\ ~r.notified
      BY <2>2, <3>2, AtRest
    <3>4. Exchange(r, "chain", phase) /\ Selected(r, "chain")
      BY <2>2, <3>2, <3>3, Known DEF Exchange, Selected
    <3>5. Attention(r, "chain", inbox)
      BY <2>2, <3>2, <3>3, Known DEF Attention
    <3>6. Flight(r, "chain", phase, inbox) = Flight(kb, pc, phase, inbox)
      BY <2>2, <3>3, AtRest
    <3>7. QED
      BY <2>2, <3>1, <3>2, <3>4, <3>5, <3>6, Moved
  <2>3. CASE pc = "chain" /\ pc' = "id" /\ kb' = EndOfChain(kb)
    <3> DEFINE r == Input(kb, FALSE)
    <3>1. kb' = r
      BY <2>3, Known DEF EndOfChain, Attention
    <3>2. Rewired(kb, r) /\ r.line = FALSE
      BY Known, InputIs
    <3> HIDE DEF r
    <3>3. /\ r \in KeyboardType /\ r.queue = kb.queue /\ r.held = kb.held
          /\ r.release = kb.release /\ r.assigned = kb.assigned
          /\ r.notified = kb.notified /\ r.selection = kb.selection
          /\ r.pendingRead = kb.pendingRead
          /\ "det" \in r.irq <=> "det" \in kb.irq
      BY <3>2, Known, RewiredFields
    <3>4. "det" \notin r.irq /\ phase = "master" /\ r.pendingRead = 0 /\ ~r.notified
      BY <2>3, <3>3, AtRest
    <3>5. Exchange(r, "id", phase) /\ Selected(r, "id")
      BY <3>4 DEF Exchange, Selected
    <3>6. Attention(r, "id", inbox)
      BY <2>3, <3>2, <3>3, <3>4, Known DEF Attention
    <3>7. Flight(r, "id", phase, inbox) = Flight(kb, pc, phase, inbox)
      BY <2>3, <3>4, AtRest
    <3>8. QED
      BY <2>3, <3>1, <3>3, <3>5, <3>6, <3>7, Moved
  <2>4. QED
    BY <2>1, <2>2, <2>3 DEF Discovers, Goes
<1>4. QED
  BY <1>1, <1>2, <1>3, Known, Gathered

LEMMA PollsStep ==
  ASSUME KeyboardIInv, Polls
  PROVE  KeyboardIInv'
<1> DEFINE m == [kb EXCEPT !.irq = kb.irq \ {"pos"}]
           r == RequestLine(m)
           p == IF r.line THEN "request" ELSE "idle"
<1>1. /\ pc = "idle" /\ kb' = r /\ pc' = p
      /\ UNCHANGED <<phase, fits, inbox, guest, unseen, typed, faults>>
  BY DEF Polls, Same, Goes
<1>2. whims' \in 0..MaxWhims
  BY Known DEF Polls
<1>3. /\ m \in KeyboardType /\ m.queue = kb.queue /\ m.held = kb.held
      /\ m.release = kb.release /\ m.irq = kb.irq \ {"pos"}
      /\ m.assigned = kb.assigned /\ m.notified = kb.notified
      /\ m.selection = kb.selection /\ m.pendingRead = kb.pendingRead
  BY Known DEF KeyboardType
<1> HIDE DEF m
<1>4. kb.assigned /\ phase = "master" /\ "det" \notin kb.irq /\ kb.pendingRead = 0
      /\ ~kb.notified /\ kb.selection = 0
  BY <1>1, AtRest, Known DEF Attention, Selected
<1>5. Rewired(m, r) /\ Fresh(r)
  BY <1>3, <1>4, RequestLineIs
<1> HIDE DEF r
<1>6. /\ r \in KeyboardType /\ r.queue = kb.queue /\ r.held = kb.held
      /\ r.release = kb.release /\ r.assigned /\ ~r.notified /\ r.selection = 0
      /\ r.pendingRead = 0 /\ "det" \notin r.irq
  <2>1. /\ r \in KeyboardType /\ r.queue = m.queue /\ r.held = m.held
        /\ r.release = m.release /\ r.assigned = m.assigned
        /\ r.notified = m.notified /\ r.selection = m.selection
        /\ r.pendingRead = m.pendingRead
        /\ "det" \in r.irq <=> "det" \in m.irq
    BY <1>3, <1>5, RewiredFields
  <2>2. QED
    BY <1>3, <1>4, <2>1
<1>7. Exchange(r, p, phase) /\ Selected(r, p)
  BY <1>4, <1>6 DEF Exchange, Selected
<1>8. Attention(r, p, inbox)
  BY <1>5, <1>6 DEF Attention, Fresh
<1>9. Flight(r, p, phase, inbox) = Flight(kb, pc, phase, inbox)
  BY <1>1, <1>6, AtRest
<1>10. p \in Places
  BY DEF Places
<1> HIDE DEF p
<1>11. Sound(r, p, phase, inbox, guest, unseen)
  BY <1>6, <1>7, <1>8, <1>9, Moved
<1>12. QED
  BY <1>1, <1>2, <1>10, <1>11, Known, Gathered

LEMMA PendingReadIs ==
  ASSUME NEW k \in KeyboardType, k.assigned, NEW op \in {1, 2}
  PROVE  LET r == PendingRead(k, op)
         IN  /\ r \in KeyboardType /\ r.pendingRead = op /\ r.selection = k.selection
             /\ r.queue = k.queue /\ r.held = k.held /\ r.release = k.release
             /\ r.irq = k.irq /\ r.line = k.line /\ r.assigned = k.assigned
             /\ r.notified = k.notified
<1> DEFINE r == PendingRead(k, op)
<1>1. r = [k EXCEPT !.pendingRead = op] /\ op \in 0..2
  BY DEF PendingRead
<1> HIDE DEF r
<1>2. r \in KeyboardType
  BY <1>1 DEF KeyboardType
<1>3. /\ r.pendingRead = op /\ r.selection = k.selection
      /\ r.queue = k.queue /\ r.held = k.held /\ r.release = k.release
      /\ r.irq = k.irq /\ r.line = k.line /\ r.assigned = k.assigned
      /\ r.notified = k.notified
  BY <1>1 DEF KeyboardType
<1>4. QED
  BY <1>2, <1>3 DEF r

LEMMA SelectIs ==
  ASSUME NEW k \in KeyboardType, k.assigned, NEW op \in {5, 12, 13}
  PROVE  LET r == Select(k, op)
         IN  /\ r \in KeyboardType /\ r.selection = op /\ (op = 5 => r.writeSize = 0)
             /\ r.pendingRead = k.pendingRead
             /\ r.queue = k.queue /\ r.held = k.held /\ r.release = k.release
             /\ r.irq = k.irq /\ r.line = k.line /\ r.assigned = k.assigned
             /\ r.notified = k.notified
<1> DEFINE r == Select(k, op)
           w == IF op = 5 THEN 0 ELSE k.writeSize
<1>1. op \in Selections /\ w \in {0, 4, 8} /\ (op = 5 => w = 0)
  BY DEF Selections, KeyboardType
<1>2. r = [k EXCEPT !.selection = op, !.writeSize = w]
  BY DEF Select
<1> HIDE DEF r, w
<1>3. r \in KeyboardType
  BY <1>1, <1>2 DEF KeyboardType
<1>4. /\ r.selection = op /\ r.writeSize = w /\ r.pendingRead = k.pendingRead
      /\ r.queue = k.queue /\ r.held = k.held /\ r.release = k.release
      /\ r.irq = k.irq /\ r.line = k.line /\ r.assigned = k.assigned
      /\ r.notified = k.notified
  BY <1>2 DEF KeyboardType
<1>5. QED
  BY <1>1, <1>3, <1>4 DEF r

LEMMA AsksStep ==
  ASSUME KeyboardIInv, Asks
  PROVE  KeyboardIInv'
<1>1. /\ phase = "master" /\ phase' = "asked" /\ pc' = pc
      /\ UNCHANGED <<fits, inbox, guest, unseen, typed, whims, faults>>
      /\ pc \in {"request", "scan", "id", "info"}
  BY DEF Asks, Goes
<1>2. "det" \notin kb.irq /\ kb.assigned
  BY <1>1, Known DEF Exchange, Attention
<1>3. /\ kb' \in KeyboardType /\ kb'.queue = kb.queue /\ kb'.held = kb.held
      /\ kb'.release = kb.release /\ kb'.irq = kb.irq /\ kb'.line = kb.line
      /\ kb'.assigned = kb.assigned /\ kb'.notified = kb.notified
      /\ kb'.pendingRead = (IF pc = "request" THEN 1 ELSE 2)
      /\ kb'.selection = (IF pc = "id" THEN 12 ELSE IF pc = "info" THEN 13 ELSE kb.selection)
  <2>1. kb \in KeyboardType
    BY Known
  <2>2. CASE pc = "request" /\ kb' = PendingRead(kb, 1)
    BY <1>2, <2>1, <2>2, PendingReadIs
  <2>3. CASE pc = "scan" /\ kb' = PendingRead(kb, 2)
    BY <1>2, <2>1, <2>3, PendingReadIs
  <2>4. CASE pc = "id" /\ kb' = PendingRead(Select(kb, 12), 2)
    <3> DEFINE s == Select(kb, 12)
    <3>1. /\ s \in KeyboardType /\ s.selection = 12
          /\ s.queue = kb.queue /\ s.held = kb.held /\ s.release = kb.release
          /\ s.irq = kb.irq /\ s.line = kb.line /\ s.assigned = kb.assigned
          /\ s.notified = kb.notified
      BY <1>2, <2>1, SelectIs
    <3>2. kb' = PendingRead(s, 2)
      BY <2>4
    <3> HIDE DEF s
    <3>3. /\ kb' \in KeyboardType /\ kb'.pendingRead = 2 /\ kb'.selection = s.selection
          /\ kb'.queue = s.queue /\ kb'.held = s.held /\ kb'.release = s.release
          /\ kb'.irq = s.irq /\ kb'.line = s.line /\ kb'.assigned = s.assigned
          /\ kb'.notified = s.notified
      BY <1>2, <3>1, <3>2, PendingReadIs
    <3>4. QED
      BY <2>4, <3>1, <3>3
  <2>5. CASE pc = "info" /\ kb' = PendingRead(Select(kb, 13), 2)
    <3> DEFINE s == Select(kb, 13)
    <3>1. /\ s \in KeyboardType /\ s.selection = 13
          /\ s.queue = kb.queue /\ s.held = kb.held /\ s.release = kb.release
          /\ s.irq = kb.irq /\ s.line = kb.line /\ s.assigned = kb.assigned
          /\ s.notified = kb.notified
      BY <1>2, <2>1, SelectIs
    <3>2. kb' = PendingRead(s, 2)
      BY <2>5
    <3> HIDE DEF s
    <3>3. /\ kb' \in KeyboardType /\ kb'.pendingRead = 2 /\ kb'.selection = s.selection
          /\ kb'.queue = s.queue /\ kb'.held = s.held /\ kb'.release = s.release
          /\ kb'.irq = s.irq /\ kb'.line = s.line /\ kb'.assigned = s.assigned
          /\ kb'.notified = s.notified
      BY <1>2, <3>1, <3>2, PendingReadIs
    <3>4. QED
      BY <2>5, <3>1, <3>3
  <2>6. QED
    BY <2>2, <2>3, <2>4, <2>5 DEF Asks, Goes
<1>4. Exchange(kb', pc, "asked") /\ Selected(kb', pc)
  BY <1>1, <1>2, <1>3, Known DEF Exchange, Selected
<1>5. Attention(kb', pc, inbox)
  BY <1>3, Known DEF Attention, Fresh
<1>6. Flight(kb', pc, "asked", inbox) = Flight(kb, pc, phase, inbox)
  BY <1>2, <1>3 DEF Flight
<1>7. Sound(kb', pc, "asked", inbox, guest, unseen)
  BY <1>3, <1>4, <1>5, <1>6, Moved
<1>8. QED
  BY <1>1, <1>7, Known, Gathered

LEMMA ListensStep ==
  ASSUME KeyboardIInv, Listens
  PROVE  KeyboardIInv'
<1>1. /\ phase = "asked" /\ phase' = "slave" /\ fits' \in BOOLEAN
      /\ faults' \in {faults, faults + 1} /\ faults' <= MaxFaults
      /\ UNCHANGED <<kb, inbox, pc, guest, unseen, typed, whims>>
  BY DEF Listens
<1>2. faults' \in 0..MaxFaults
  BY <1>1, Known
<1>3. Exchange(kb, pc, "slave") /\ Flight(kb, pc, "slave", inbox) = Flight(kb, pc, phase, inbox)
  BY <1>1, Known DEF Exchange, Flight
<1>4. Sound(kb, pc, "slave", inbox, guest, unseen)
  BY <1>3, Known, Moved
<1>5. QED
  BY <1>1, <1>2, <1>4, Known, Gathered

LEMMA LosesPatienceStep ==
  ASSUME KeyboardIInv, LosesPatience
  PROVE  KeyboardIInv'
<1>1. /\ phase = "slave" /\ phase' = "master" /\ "det" \notin kb.irq
      /\ faults' \in {faults, faults + 1} /\ faults' <= MaxFaults
      /\ UNCHANGED <<kb, fits, inbox, pc, guest, unseen, typed, whims>>
  BY DEF LosesPatience
<1>2. faults' \in 0..MaxFaults
  BY <1>1, Known
<1>3. Exchange(kb, pc, "master") /\ Flight(kb, pc, "master", inbox) = Flight(kb, pc, phase, inbox)
  BY <1>1, Known DEF Exchange, Flight
<1>4. Sound(kb, pc, "master", inbox, guest, unseen)
  BY <1>3, Known, Moved
<1>5. QED
  BY <1>1, <1>2, <1>4, Known, Gathered

LEMMA FinishesStep ==
  ASSUME KeyboardIInv, Finishes
  PROVE  KeyboardIInv'
<1> DEFINE r == [kb EXCEPT !.irq = kb.irq \ {"det"}]
           p == CASE pc = "id" -> "info"
                  [] pc = "request" /\ inbox # <<>> -> "scan"
                  [] OTHER -> "idle"
<1>1. /\ phase = "slave" /\ phase' = "master" /\ "det" \in kb.irq
      /\ guest' = (IF pc = "scan" THEN Decode(guest, inbox) ELSE guest)
      /\ pc' = p /\ kb' = r
      /\ UNCHANGED <<fits, inbox, unseen, typed, whims, faults>>
  BY DEF Finishes, Goes
<1>2. /\ r \in KeyboardType /\ r.queue = kb.queue /\ r.held = kb.held
      /\ r.release = kb.release /\ r.irq = kb.irq \ {"det"} /\ r.line = kb.line
      /\ r.assigned = kb.assigned /\ r.notified = kb.notified
      /\ r.selection = kb.selection /\ r.pendingRead = kb.pendingRead
  BY Known DEF KeyboardType
<1> HIDE DEF r
<1>3. /\ pc \in {"id", "info", "request", "scan"}
      /\ kb.pendingRead = 0 /\ kb.selection = 0
  BY <1>1, Known DEF Exchange
<1>4. /\ kb.assigned /\ Fresh(kb) /\ (kb.notified <=> pc = "request")
      /\ (pc # "request" /\ kb.line => "pos" \in kb.irq)
      /\ (pc = "request" => inbox # <<>>)
  BY <1>1, <1>3, Known DEF Attention
<1>5. /\ p \in {"info", "idle", "scan"} /\ (p = "scan" <=> pc = "request")
  BY <1>3, <1>4
<1> HIDE DEF p
<1>6. Exchange(r, p, "master") /\ Selected(r, p)
  BY <1>2, <1>3, <1>5 DEF Exchange, Selected
<1>7. Attention(r, p, inbox)
  <2>1. r.notified <=> p = "scan"
    BY <1>2, <1>4, <1>5
  <2>2. Fresh(r)
    BY <1>2, <1>4 DEF Fresh
  <2>3. r.line => "pos" \in r.irq
    BY <1>2, <1>4 DEF Fresh
  <2>4. QED
    BY <1>2, <1>4, <1>5, <2>1, <2>2, <2>3 DEF Attention
<1>8. kb.queue \in Seq(Bytes) /\ inbox \in Seq(Bytes) /\ guest \in GuestType
  BY Known DEF KeyboardType, Bytes
<1>9. Matches(r, p, "master", inbox, guest', unseen)
  <2>1. Flight(r, p, "master", inbox) \o r.queue = kb.queue
    BY <1>2, <1>8, ConcatEmptySeq DEF Flight
  <2>2. Decode(guest', kb.queue) = Decode(guest, Flight(kb, pc, phase, inbox) \o kb.queue)
    <3>1. CASE pc = "scan"
      <4>1. Flight(kb, pc, phase, inbox) = inbox /\ guest' = Decode(guest, inbox)
        BY <1>1, <3>1 DEF Flight
      <4>2. Decode(Decode(guest, inbox), kb.queue) = Decode(guest, inbox \o kb.queue)
        BY <1>8, DecodeConcat
      <4>3. QED
        BY <4>1, <4>2
    <3>2. CASE pc # "scan"
      <4>1. Flight(kb, pc, phase, inbox) = <<>> /\ guest' = guest
        BY <1>1, <3>2 DEF Flight
      <4>2. <<>> \o kb.queue = kb.queue
        BY <1>8, ConcatEmptySeq
      <4>3. QED
        BY <4>1, <4>2
    <3>3. QED
      BY <3>1, <3>2
  <2>3. QED
    BY <1>2, <2>1, <2>2, Known DEF Matches
<1>10. Sound(r, p, "master", inbox, guest', unseen)
  BY <1>2, <1>6, <1>7, <1>9, Known DEF Sound, Standing
<1>11. guest' \in GuestType /\ pc' \in Places
  BY <1>1, <1>5, <1>8, DecodeType DEF Places
<1>12. QED
  BY <1>1, <1>10, <1>11, Known, Gathered

LEMMA StartsWritingStep ==
  ASSUME KeyboardIInv, StartsWriting
  PROVE  KeyboardIInv'
<1> DEFINE r == Select(kb, 5)
<1>1. /\ pc = "idle" /\ pc' = "write" /\ kb' = r
      /\ whims < MaxWhims /\ whims' = whims + 1
      /\ UNCHANGED <<phase, fits, inbox, guest, unseen, typed, faults>>
  BY DEF StartsWriting, Same, Goes
<1>2. /\ kb.assigned /\ Fresh(kb) /\ (kb.line => "pos" \in kb.irq)
      /\ phase = "master" /\ "det" \notin kb.irq /\ kb.pendingRead = 0 /\ ~kb.notified
  BY <1>1, AtRest, Known DEF Attention
<1>3. /\ r \in KeyboardType /\ r.selection = 5 /\ r.writeSize = 0
      /\ r.pendingRead = kb.pendingRead
      /\ r.queue = kb.queue /\ r.held = kb.held /\ r.release = kb.release
      /\ r.irq = kb.irq /\ r.line = kb.line /\ r.assigned = kb.assigned
      /\ r.notified = kb.notified
  BY <1>2, Known, SelectIs
<1> HIDE DEF r
<1>4. Exchange(r, "write", phase) /\ Selected(r, "write")
  BY <1>2, <1>3 DEF Exchange, Selected
<1>5. Attention(r, "write", inbox)
  BY <1>2, <1>3 DEF Attention, Fresh
<1>6. Flight(r, "write", phase, inbox) = Flight(kb, pc, phase, inbox)
  BY <1>1, <1>2, <1>3 DEF Flight
<1>7. Sound(r, "write", phase, inbox, guest, unseen)
  BY <1>3, <1>4, <1>5, <1>6, Moved
<1>8. whims' \in 0..MaxWhims /\ pc' \in Places
  BY <1>1, Known DEF Places
<1>9. QED
  BY <1>1, <1>7, <1>8, Known, Gathered

\* The first long word of a packet only changes what is being written.
LEMMA FirstWordKeeps ==
  ASSUME KeyboardIInv, pc = "write", kb.writeSize = 0, NEW packet \in Packets
  PROVE  /\ Transmit(kb, packet).selection = 5
         /\ Sound(Transmit(kb, packet), "write", phase, inbox, guest, unseen)
<1> DEFINE r == Transmit(kb, packet)
<1>1. kb.selection = 5 /\ kb \in KeyboardType
  BY Known DEF Selected
<1>2. r = [kb EXCEPT !.writeSize = 4, !.packet = packet]
  BY <1>1 DEF Transmit
<1> HIDE DEF r
<1>3. r \in KeyboardType
  BY <1>1, <1>2 DEF KeyboardType
<1>4. /\ r.writeSize = 4 /\ r.selection = kb.selection /\ r.pendingRead = kb.pendingRead
      /\ r.queue = kb.queue /\ r.held = kb.held /\ r.release = kb.release
      /\ r.irq = kb.irq /\ r.line = kb.line /\ r.assigned = kb.assigned
      /\ r.notified = kb.notified
  BY <1>1, <1>2 DEF KeyboardType
<1>5. Exchange(r, "write", phase) /\ Selected(r, "write")
  BY <1>1, <1>4, Known DEF Exchange, Selected
<1>6. Attention(r, "write", inbox)
  BY <1>4, Known DEF Attention, Fresh
<1>7. Flight(r, "write", phase, inbox) = Flight(kb, pc, phase, inbox)
  BY <1>4 DEF Flight
<1>8. Sound(r, "write", phase, inbox, guest, unseen)
  BY <1>3, <1>4, <1>5, <1>6, <1>7, Moved
<1>9. QED
  BY <1>1, <1>4, <1>8 DEF r

\* The second completes it; a reset forgets what was queued.
LEMMA LastWordKeeps ==
  ASSUME KeyboardIInv, pc = "write", kb.writeSize # 0, NEW packet, packet = kb.packet
  PROVE  /\ Transmit(kb, packet).selection = 0
         /\ packet # "reset" =>
              Sound(Transmit(kb, packet), "idle", phase, inbox, guest, unseen)
         /\ packet = "reset" =>
              Sound(Transmit(kb, packet), "idle", phase, inbox, NoKeys, kb.held \cup kb.release)
<1> DEFINE q == IF packet = "reset" THEN <<>> ELSE kb.queue
           m == [kb EXCEPT !.writeSize = 8, !.selection = 0, !.queue = q, !.notified = FALSE]
           r == RequestLine(m)
<1>1. /\ kb.selection = 5 /\ kb.writeSize = 4 /\ kb \in KeyboardType
      /\ kb.assigned /\ (kb.line => "pos" \in kb.irq)
      /\ phase = "master" /\ "det" \notin kb.irq /\ kb.pendingRead = 0 /\ ~kb.notified
  BY AtRest, Known DEF Selected, Attention
<1>2. (kb.notified /\ q # <<>>) = FALSE
  BY <1>1
<1>3. Transmit(kb, packet) = r
  <2>1. Transmit(kb, packet) =
          RequestLine([kb EXCEPT !.writeSize = 8, !.selection = 0, !.queue = q,
                                 !.notified = (kb.notified /\ q # <<>>)])
    BY <1>1 DEF Transmit
  <2>2. QED
    BY <1>2, <2>1
<1>4. kb.queue \in Seq(Bytes) /\ q \in Seq(Bytes)
  BY <1>1, EmptySeq DEF KeyboardType, Bytes
<1>5. packet = "reset" => q = <<>>
  OBVIOUS
<1>6. packet # "reset" => q = kb.queue
  OBVIOUS
<1>7. Len(q) <= Capacity
  <2>1. Len(<<>>) = 0 /\ Capacity \in Nat
    BY KeysAssumption
  <2>2. QED
    BY <1>5, <1>6, <2>1, Known
<1> HIDE DEF q
<1>8. m \in KeyboardType
  <2> DEFINE n == [kb EXCEPT !.writeSize = 8, !.selection = 0]
  <2>1. n \in KeyboardType
    BY <1>1 DEF KeyboardType, Selections
  <2>2. m = [n EXCEPT !.queue = q, !.notified = FALSE]
    BY <1>1 DEF KeyboardType
  <2> HIDE DEF n, m
  <2>3. QED
    BY <1>4, <2>1, <2>2 DEF KeyboardType, Bytes
<1>9. /\ m.selection = 0 /\ m.queue = q /\ ~m.notified
      /\ m.pendingRead = kb.pendingRead /\ m.held = kb.held /\ m.release = kb.release
      /\ m.irq = kb.irq /\ m.line = kb.line /\ m.assigned = kb.assigned
  BY <1>1 DEF KeyboardType
<1> HIDE DEF m
<1>10. Rewired(m, r) /\ Fresh(r)
  BY <1>1, <1>8, <1>9, RequestLineIs
<1> HIDE DEF r
<1>11. /\ r \in KeyboardType
       /\ r.queue = m.queue /\ r.held = m.held /\ r.release = m.release
       /\ r.assigned = m.assigned /\ r.notified = m.notified /\ r.selection = m.selection
       /\ r.pendingRead = m.pendingRead
       /\ "det" \in r.irq <=> "det" \in m.irq
       /\ (m.line => "pos" \in m.irq) => (r.line => "pos" \in r.irq)
  BY <1>8, <1>10, RewiredFields
<1>12. Exchange(r, "idle", phase) /\ Selected(r, "idle")
  BY <1>1, <1>9, <1>11 DEF Exchange, Selected
<1>13. Attention(r, "idle", inbox)
  BY <1>1, <1>9, <1>10, <1>11 DEF Attention
<1>14. Flight(r, "idle", phase, inbox) \o r.queue = q
       /\ Flight(kb, pc, phase, inbox) \o kb.queue = kb.queue
  BY <1>4, <1>9, <1>11, ConcatEmptySeq DEF Flight
<1>15. r.held \cap r.release = {} /\ Len(r.queue) <= Capacity
  BY <1>7, <1>9, <1>11, Known
<1>16. packet # "reset" => Matches(r, "idle", phase, inbox, guest, unseen)
  BY <1>6, <1>9, <1>11, <1>14, Known DEF Matches
<1>17. packet = "reset" =>
         Matches(r, "idle", phase, inbox, NoKeys, kb.held \cup kb.release)
  <2>1. Decode(NoKeys, <<>>) = NoKeys
    BY DecodeNothing
  <2>2. (r.held \cup r.release) \ (kb.held \cup kb.release) = {}
    BY <1>9, <1>11
  <2>3. QED
    BY <1>5, <1>14, <2>1, <2>2 DEF Matches, NoKeys
<1>18. \A g, u : Matches(r, "idle", phase, inbox, g, u) => Sound(r, "idle", phase, inbox, g, u)
  BY <1>11, <1>12, <1>13, <1>15 DEF Sound, Standing
<1>19. QED
  BY <1>3, <1>9, <1>11, <1>16, <1>17, <1>18

LEMMA WritesStep ==
  ASSUME KeyboardIInv, Writes
  PROVE  KeyboardIInv'
<1>1. PICK packet \in IF kb.writeSize = 0 THEN Packets ELSE {kb.packet} :
        LET k == Transmit(kb, packet)
            reset == k.selection = 0 /\ packet = "reset"
        IN  /\ pc = "write" /\ UNCHANGED <<phase, whims>>
            /\ Goes(IF k.selection = 0 THEN "idle" ELSE pc, k)
            /\ guest' = IF reset THEN NoKeys ELSE guest
            /\ unseen' = IF reset THEN kb.held \cup kb.release ELSE unseen
  BY DEF Writes
<1> DEFINE k == Transmit(kb, packet)
<1>2. /\ pc = "write" /\ kb' = k
      /\ pc' = (IF k.selection = 0 THEN "idle" ELSE pc)
      /\ guest' = (IF k.selection = 0 /\ packet = "reset" THEN NoKeys ELSE guest)
      /\ unseen' = (IF k.selection = 0 /\ packet = "reset" THEN kb.held \cup kb.release
                                                            ELSE unseen)
      /\ UNCHANGED <<phase, fits, inbox, typed, whims, faults>>
  BY <1>1 DEF Goes
<1>3. Sound(kb', pc', phase, inbox, guest', unseen')
  <2>1. CASE kb.writeSize = 0
    <3>1. packet \in Packets
      BY <2>1
    <3>2. k.selection = 5 /\ Sound(k, "write", phase, inbox, guest, unseen)
      BY <1>2, <2>1, <3>1, FirstWordKeeps
    <3>3. QED
      BY <1>2, <3>2
  <2>2. CASE kb.writeSize # 0
    <3>1. packet = kb.packet
      BY <2>2
    <3>2. /\ k.selection = 0
          /\ packet # "reset" => Sound(k, "idle", phase, inbox, guest, unseen)
          /\ packet = "reset" =>
               Sound(k, "idle", phase, inbox, NoKeys, kb.held \cup kb.release)
      BY <1>2, <2>2, <3>1, LastWordKeeps
    <3>3. QED
      BY <1>2, <3>2
  <2>3. QED
    BY <2>1, <2>2
<1>4. pc' \in Places /\ guest' \in GuestType /\ unseen' \in SUBSET Keys
  <2>1. NoKeys \in GuestType /\ kb.held \cup kb.release \in SUBSET Keys
    BY Known DEF NoKeys, GuestType, KeyboardType
  <2>2. QED
    BY <1>2, <2>1, Known DEF Places
<1>5. QED
  BY <1>2, <1>3, <1>4, Known, Gathered

LEMMA RediscoversStep ==
  ASSUME KeyboardIInv, Rediscovers
  PROVE  KeyboardIInv'
<1>1. /\ pc = "idle" /\ pc' = "reset" /\ kb' = kb
      /\ whims < MaxWhims /\ whims' = whims + 1
      /\ UNCHANGED <<phase, fits, inbox, guest, unseen, typed, faults>>
  BY DEF Rediscovers, Same, Goes
<1>2. /\ phase = "master" /\ "det" \notin kb.irq /\ kb.pendingRead = 0 /\ ~kb.notified
      /\ kb.selection = 0 /\ (kb.line => "pos" \in kb.irq)
  BY <1>1, AtRest, Known DEF Attention, Selected
<1>3. Exchange(kb, "reset", phase) /\ Selected(kb, "reset") /\ Attention(kb, "reset", inbox)
  BY <1>2 DEF Exchange, Selected, Attention
<1>4. Flight(kb, "reset", phase, inbox) = Flight(kb, pc, phase, inbox)
  BY <1>2 DEF Flight
<1>5. Sound(kb, "reset", phase, inbox, guest, unseen)
  BY <1>3, <1>4, Known, Moved
<1>6. whims' \in 0..MaxWhims /\ pc' \in Places
  BY <1>1, Known DEF Places
<1>7. QED
  BY <1>1, <1>5, <1>6, Known, Gathered

-----------------------------------------------------------------------------
\* The invariant of the keyboard, its controller and the driver.
LEMMA KeyboardStep ==
  ASSUME KeyboardIInv, [KeyboardNext]_keyboardVars
  PROVE  KeyboardIInv'
<1>1. CASE \E key \in Keys : HostPresses(key)
  BY <1>1, HostPressesStep
<1>2. CASE \E key \in Keys : HostLetsGo(key)
  BY <1>2, HostLetsGoStep
<1>3. CASE HostLosesFocus
  BY <1>3, HostLosesFocusStep
<1>4. CASE Service
  BY <1>4, ServiceStep
<1>5. CASE Discovers
  BY <1>5, DiscoversStep
<1>6. CASE Polls
  BY <1>6, PollsStep
<1>7. CASE Asks
  BY <1>7, AsksStep
<1>8. CASE Listens
  BY <1>8, ListensStep
<1>9. CASE Finishes
  BY <1>9, FinishesStep
<1>10. CASE LosesPatience
  BY <1>10, LosesPatienceStep
<1>11. CASE StartsWriting
  BY <1>11, StartsWritingStep
<1>12. CASE Writes
  BY <1>12, WritesStep
<1>13. CASE Rediscovers
  BY <1>13, RediscoversStep
<1>14. CASE UNCHANGED keyboardVars
  <2>1. UNCHANGED <<kb, phase, fits, inbox, pc, guest, unseen, typed, whims, faults>>
    BY <1>14 DEF keyboardVars, driver
  <2>2. QED
    BY <2>1, Known, Gathered
<1>15. QED
  BY <1>1, <1>2, <1>3, <1>4, <1>5, <1>6, <1>7, <1>8, <1>9, <1>10, <1>11, <1>12,
     <1>13, <1>14
     DEF KeyboardNext, HostKeys, Driver

LEMMA KeyboardInvariant == KeyboardSpec => []KeyboardIInv
<1>1. KeyboardIInv /\ [KeyboardNext]_keyboardVars => KeyboardIInv'
  BY KeyboardStep
<1>2. QED
  BY <1>1, KeyboardInitHolds, PTL DEF KeyboardSpec

\* Whatever the host types, whatever packets fail or are lost sight of, and
\* whenever the driver resets the keyboard or looks for it again: once it has
\* read what is on its way it takes exactly the keys to be down that are down
\* or whose break still waits (keyboard.c 117-213), with any capacity of the
\* queue and any size of packet.
THEOREM KeysFollow == KeyboardSpec => []KeysMatch
<1>1. KeyboardIInv => KeysMatch
  <2> SUFFICES ASSUME KeyboardIInv PROVE KeysMatch
    OBVIOUS
  <2>1. Flight(kb, pc, phase, inbox) = InFlight
    BY DEF Flight, InFlight
  <2>2. Decode(guest, InFlight \o kb.queue) =
          [down |-> (kb.held \cup kb.release) \ unseen, break |-> FALSE]
    BY <2>1, Known DEF Matches
  <2>3. QED
    BY <2>2 DEF KeysMatch
<1>2. QED
  BY <1>1, KeyboardInvariant, PTL

\* The keyboard, its controller and the driver keep their types, and a driver
\* that waits while there are codes has been woken or will be: the line is
\* high and its edge latched (keyboard.c 17-21, tx39_mbus.c 48-55).
THEOREM WakeUpStands == KeyboardSpec => []WakeOK
<1>1. KeyboardIInv => WakeOK
  <2> SUFFICES ASSUME KeyboardIInv PROVE WakeOK
    OBVIOUS
  <2>1. pc = "idle" => ~kb.notified /\ Fresh(kb) /\ (kb.line => "pos" \in kb.irq)
    BY AtRest, Known DEF Attention
  <2>2. WakeStands
    BY <2>1 DEF WakeStands, Fresh
  <2>3. QED
    BY <2>2 DEF WakeOK, KeyboardIInv
<1>2. QED
  BY <1>1, KeyboardInvariant, PTL
=============================================================================
