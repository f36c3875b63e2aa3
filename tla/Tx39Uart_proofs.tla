--------------------------- MODULE Tx39Uart_proofs ---------------------------
(***************************************************************************)
(* The safety of one UART, for any frame lengths, any length of the loop's *)
(* chunks and any number of bytes.                                         *)
(***************************************************************************)
EXTENDS Tx39Uart, SequenceTheorems, TLAPS

\* The bytes on the host's side, on the wire and behind it.
Wire(s, a, b) == s \o Waiting(a) \o Waiting(b)
Increasing(w) == \A i, j \in DOMAIN w : i < j => w[i] < w[j]
GoodWire(w, n, over) ==
  w \in Seq(1..n) /\ Increasing(w) /\ (~over => Len(w) = n)

LEMMA WaitingType == ASSUME NEW n \in Nat, NEW b \in 0..n PROVE Waiting(b) \in Seq(1..n)
<1>1. CASE b = None
  BY <1>1 DEF Waiting
<1>2. CASE b # None
  <2>1. b \in 1..n /\ Waiting(b) = <<b>>
    BY <1>2 DEF Waiting, None
  <2>2. QED
    BY <2>1
<1>3. QED
  BY <1>1, <1>2

LEMMA WireType ==
  ASSUME NEW n \in Nat, NEW s \in Seq(1..n), NEW a \in 0..n, NEW b \in 0..n
  PROVE  Wire(s, a, b) \in Seq(1..n)
BY WaitingType DEF Wire

\* A byte that reaches the host, and one that moves up behind it, stay where
\* they are in the wire.
LEMMA WireMoves ==
  ASSUME NEW n \in Nat, NEW s \in Seq(1..n), NEW a \in 1..n, NEW b \in 0..n
  PROVE  /\ s \o <<a>> \in Seq(1..n)
         /\ Wire(s \o <<a>>, b, None) = Wire(s, a, b)
<1>1. s \o <<a>> \in Seq(1..n) /\ Waiting(a) = <<a>> /\ Waiting(None) = <<>>
  BY DEF Waiting, None
<1>2. (s \o <<a>>) \o Waiting(b) \in Seq(1..n)
  BY <1>1, WaitingType
<1>3. ((s \o <<a>>) \o Waiting(b)) \o <<>> = (s \o <<a>>) \o Waiting(b)
  BY <1>2, ConcatEmptySeq
<1>4. QED
  BY <1>1, <1>3 DEF Wire

LEMMA LongerWire ==
  ASSUME NEW n \in Nat, NEW u \in Seq(1..n), Increasing(u)
  PROVE  u \o <<n + 1>> \in Seq(1..(n + 1)) /\ Increasing(u \o <<n + 1>>)
         /\ Len(u \o <<n + 1>>) = Len(u) + 1
<1> DEFINE v == u \o <<n + 1>>
<1>1. /\ Len(v) = Len(u) + 1 /\ v[Len(u) + 1] = n + 1
      /\ \A i \in 1..Len(u) : v[i] = u[i]
  OBVIOUS
<1>2. v \in Seq(1..(n + 1))
  <2>1. u \in Seq(1..(n + 1)) /\ <<n + 1>> \in Seq(1..(n + 1))
    OBVIOUS
  <2>2. QED
    BY <2>1
<1>3. Increasing(v)
  <2>1. DOMAIN v = 1..(Len(u) + 1) /\ DOMAIN u = 1..Len(u) /\ Len(u) \in Nat
    BY <1>1, <1>2
  <2>2. \A i \in 1..Len(u) : u[i] \in 1..n
    OBVIOUS
  <2> HIDE DEF v
  <2>3. QED
    BY <1>1, <2>1, <2>2 DEF Increasing
<1>4. QED
  BY <1>1, <1>2, <1>3

LEMMA ShorterWire ==
  ASSUME NEW n \in Nat, NEW u \in Seq(1..n), NEW b \in 1..n, Increasing(u \o <<b>>)
  PROVE  Increasing(u)
<1> DEFINE v == u \o <<b>>
<1>1. /\ DOMAIN v = 1..(Len(u) + 1) /\ DOMAIN u = 1..Len(u) /\ Len(u) \in Nat
      /\ \A i \in 1..Len(u) : v[i] = u[i]
  OBVIOUS
<1>2. Increasing(v)
  OBVIOUS
<1> HIDE DEF v
<1>3. QED
  BY <1>1, <1>2 DEF Increasing

LEMMA WiderSeq == ASSUME NEW n \in Nat, NEW u \in Seq(1..n) PROVE u \in Seq(1..(n + 1))
OBVIOUS

\* A byte written to an idle transmitter, behind the one on the wire, and on
\* top of one that waits.
LEMMA WirePush ==
  ASSUME NEW n \in Nat, NEW s \in Seq(1..n), NEW a \in 0..n, NEW over \in BOOLEAN,
         GoodWire(Wire(s, a, None), n, over)
  PROVE  /\ a = None => GoodWire(Wire(s, n + 1, None), n + 1, over)
         /\ GoodWire(Wire(s, a, n + 1), n + 1, over)
<1> DEFINE u == s \o Waiting(a)
<1>1. u \in Seq(1..n) /\ Waiting(None) = <<>> /\ Waiting(n + 1) = <<n + 1>>
  BY WaitingType DEF Waiting, None
<1>2. Wire(s, a, None) = u
  BY <1>1, ConcatEmptySeq DEF Wire
<1>3. Wire(s, a, n + 1) = u \o <<n + 1>>
  BY <1>1 DEF Wire
<1>4. a = None => Wire(s, n + 1, None) = u \o <<n + 1>>
  <2>1. a = None => u = s
    BY <1>1, ConcatEmptySeq
  <2>2. (s \o <<n + 1>>) \in Seq(Nat)
    OBVIOUS
  <2>3. (s \o <<n + 1>>) \o <<>> = s \o <<n + 1>>
    BY <2>2, ConcatEmptySeq
  <2>4. QED
    BY <1>1, <2>1, <2>3 DEF Wire
<1> HIDE DEF u
<1>5. GoodWire(u \o <<n + 1>>, n + 1, over)
  BY <1>1, <1>2, LongerWire DEF GoodWire
<1>6. QED
  BY <1>3, <1>4, <1>5

LEMMA WireReplace ==
  ASSUME NEW n \in Nat, NEW s \in Seq(1..n), NEW a \in 0..n, NEW b \in 1..n,
         NEW over \in BOOLEAN, GoodWire(Wire(s, a, b), n, over)
  PROVE  GoodWire(Wire(s, a, n + 1), n + 1, TRUE)
<1> DEFINE u == s \o Waiting(a)
<1>1. u \in Seq(1..n) /\ Waiting(b) = <<b>> /\ Waiting(n + 1) = <<n + 1>>
  BY WaitingType DEF Waiting, None
<1>2. Wire(s, a, b) = u \o <<b>> /\ Wire(s, a, n + 1) = u \o <<n + 1>>
  BY <1>1 DEF Wire
<1> HIDE DEF u
<1>3. Increasing(u)
  BY <1>1, <1>2, ShorterWire DEF GoodWire
<1>4. QED
  BY <1>1, <1>2, <1>3, LongerWire DEF GoodWire

-----------------------------------------------------------------------------
\* The inductive invariant: nothing waits behind an idle wire, and a byte on
\* it has a cycle left for each that the chunk has not run.
IInv ==
  /\ TypeOK
  /\ shift = None => hold = None /\ left = 0
  /\ shift # None => left + sinceTick > 0
  /\ GoodWire(Wire(sent, shift, hold), written, overrun)
  /\ RxNeverOverwritten
  /\ NoLostUartEvent

\* A transmitter t, in or after an update, with n bytes written: the same
\* parts of the invariant for it.
Sound(t, n, over) ==
  /\ t.shift \in 0..n /\ t.left \in Int /\ t.hold \in 0..n
  /\ sent \o t.out \in Seq(1..n) /\ t.irqs \in SUBSET Irqs
  /\ t.shift = None => t.hold = None /\ t.left = 0
  /\ t.shift # None => t.left > 0
  /\ GoodWire(Wire(sent \o t.out, t.shift, t.hold), n, over)

\* The guest has been told of the room behind its bytes, or is told now.
Told(t, n, irqs) ==
  /\ t.shift # None /\ t.hold = None => "TX" \in irqs \cup status \cup acked
  /\ t.shift = None /\ n > 0 => "EMPTY" \in irqs \cup status \cup acked

LEMMA Types ==
  ASSUME IInv
  PROVE  /\ written \in Nat /\ delivered \in Nat /\ TickInterval \in Nat /\ TickInterval > 0
         /\ \A f \in Frames : f \in Nat /\ f >= TickInterval
         /\ sinceTick \in 0..TickInterval
         /\ shift \in 0..written /\ hold \in 0..written /\ sent \in Seq(1..written)
         /\ frame \in Frames
BY FramesAssumption DEF IInv, TypeOK

LEMMA UpdatedOk ==
  ASSUME IInv, NEW t, t = Updated(Transmitter)
  PROVE  Sound(t, written, overrun) /\ Told(t, written, t.irqs)
<1> DEFINE T == Transmitter
<1>1. /\ T.shift = shift /\ T.left = left /\ T.hold = hold /\ T.out = <<>> /\ T.irqs = {}
  BY DEF Transmitter
<1>2. /\ written \in Nat /\ sent \in Seq(1..written) /\ left \in Int
      /\ shift \in 0..written /\ hold \in 0..written
      /\ GoodWire(Wire(sent, shift, hold), written, overrun)
  BY Types DEF IInv, TypeOK
<1>3. CASE ~Ended(T)
  <2>1. t = T
    BY <1>3 DEF Updated
  <2>2. sent \o t.out = sent
    <3>1. sent \o <<>> = sent
      BY <1>2, ConcatEmptySeq
    <3>2. QED
      BY <1>1, <2>1, <3>1
  <2>3. t.shift # None => t.left > 0
    BY <1>1, <1>2, <1>3, <2>1 DEF Ended
  <2>4. QED
    BY <1>1, <1>2, <2>1, <2>2, <2>3 DEF IInv, Sound, Told, NoLostUartEvent
<1>4. CASE Ended(T)
  <2>1. shift \in 1..written /\ left <= 0 /\ left + sinceTick > 0
    BY <1>1, <1>2, <1>4 DEF Ended, None, IInv
  <2>2. /\ sent \o <<shift>> \in Seq(1..written)
        /\ Wire(sent \o <<shift>>, hold, None) = Wire(sent, shift, hold)
    BY <1>2, <2>1, WireMoves
  <2>3. CASE hold # None
    <3>1. t = [shift |-> hold, left |-> left + frame, hold |-> None,
               out |-> <<shift>>, irqs |-> {"TX"}]
      BY <1>1, <1>4, <2>3 DEF Updated
    <3>2. left + frame \in Int /\ left + frame > 0
      BY <1>2, <2>1, Types
    <3>3. QED
      BY <1>2, <2>2, <2>3, <3>1, <3>2 DEF Sound, Told, Irqs, None
  <2>4. CASE hold = None
    <3>1. t = [shift |-> None, left |-> 0, hold |-> None,
               out |-> <<shift>>, irqs |-> {"EMPTY"}]
      BY <1>1, <1>4, <2>4 DEF Updated
    <3>2. QED
      BY <1>2, <2>2, <2>4, <3>1 DEF Sound, Told, Irqs, None
  <2>5. QED
    BY <2>3, <2>4
<1>5. QED
  BY <1>3, <1>4

\* A step that leaves the transmitter as a sound t, the receiver as it is or
\* with a byte just delivered, and the clock where it was or at a new chunk.
LEMMA SetOk ==
  ASSUME IInv, NEW t, NEW more \in SUBSET Irqs, SetTransmitter(t, more),
         Sound(t, written', overrun'), Told(t, written', t.irqs \cup more),
         written' \in 0..MaxWritten, overrun' \in BOOLEAN,
         enabled' \in BOOLEAN, frame' \in Frames,
         rx' \in 0..delivered', rxFull' \in BOOLEAN, rxWait' \in Nat,
         delivered' \in 0..MaxDelivered, taken' \in 0..delivered',
         RxNeverOverwritten', rxFull' => rxFull \/ "RX" \in more,
         sinceTick' \in {0, sinceTick}
  PROVE  IInv'
<1>1. /\ shift' = t.shift /\ left' = t.left /\ hold' = t.hold /\ sent' = sent \o t.out
      /\ status' = status \cup (t.irqs \cup more)
      /\ acked' = acked \ ((t.irqs \cup more) \cup
                           ((IF t.shift = None THEN {} ELSE {"EMPTY"}) \cup
                            (IF t.hold = None THEN {} ELSE {"TX"})))
  BY DEF SetTransmitter, Raise, Forget
<1>2. sinceTick' \in 0..TickInterval /\ TickInterval \in Nat /\ TickInterval > 0
  BY Types
<1>3. t.irqs \in SUBSET Irqs /\ status \in SUBSET Irqs /\ acked \in SUBSET Irqs
  BY DEF Sound, IInv, TypeOK
<1>4. status' \in SUBSET Irqs /\ acked' \in SUBSET Irqs
  BY <1>1, <1>3
<1>5. sent' \in Seq(1..written')
  BY <1>1 DEF Sound
<1>6. TypeOK'
  <2>1. left' \in Int /\ left' > -TickInterval
    BY <1>1, <1>2 DEF Sound, None
  <2>2. shift' \in 0..written' /\ hold' \in 0..written'
    BY <1>1 DEF Sound
  <2>3. QED
    BY <1>2, <1>4, <1>5, <2>1, <2>2 DEF TypeOK
<1>7. /\ shift' = None => hold' = None /\ left' = 0
      /\ shift' # None => left' + sinceTick' > 0
      /\ GoodWire(Wire(sent', shift', hold'), written', overrun')
  BY <1>1, <1>2 DEF Sound
<1>8. NoLostUartEvent'
  <2>1. shift' # None /\ hold' = None => "TX" \in status' \cup acked'
    BY <1>1 DEF Told
  <2>2. shift' = None /\ written' > 0 => "EMPTY" \in status' \cup acked'
    BY <1>1 DEF Told
  <2>3. rxFull' => "RX" \in status' \cup acked'
    BY <1>1 DEF IInv, NoLostUartEvent
  <2>4. QED
    BY <2>1, <2>2, <2>3 DEF NoLostUartEvent
<1>9. QED
  BY <1>6, <1>7, <1>8 DEF IInv

-----------------------------------------------------------------------------
LEMMA UpdateOnly ==
  ASSUME IInv, NEW more \in SUBSET Irqs,
         SetTransmitter(Updated(Transmitter), more),
         UNCHANGED <<written, overrun>>,
         enabled' \in BOOLEAN, frame' \in Frames,
         rx' \in 0..delivered', rxFull' \in BOOLEAN, rxWait' \in Nat,
         delivered' \in 0..MaxDelivered, taken' \in 0..delivered',
         RxNeverOverwritten', rxFull' => rxFull \/ "RX" \in more,
         sinceTick' \in {0, sinceTick}
  PROVE  IInv'
<1> DEFINE t == Updated(Transmitter)
<1>1. Sound(t, written, overrun) /\ Told(t, written, t.irqs)
  BY UpdatedOk
<1>2. SetTransmitter(t, more)
  OBVIOUS
<1> HIDE DEF t
<1>3. Sound(t, written', overrun') /\ Told(t, written', t.irqs \cup more)
  BY <1>1 DEF Told
<1>4. written' \in 0..MaxWritten /\ overrun' \in BOOLEAN
  BY DEF IInv, TypeOK
<1>5. QED
  BY <1>2, <1>3, <1>4, SetOk

\* An access that does not touch the receiver.
LEMMA ReceiverStays ==
  ASSUME IInv, UNCHANGED <<receiver, delivered, taken>>
  PROVE  /\ rx' \in 0..delivered' /\ rxFull' \in BOOLEAN /\ rxWait' \in Nat
         /\ delivered' \in 0..MaxDelivered /\ taken' \in 0..delivered'
         /\ RxNeverOverwritten' /\ rxFull' = rxFull
BY DEF IInv, TypeOK, receiver, RxNeverOverwritten

LEMMA WriteCtrl1Keeps == ASSUME NEW e \in BOOLEAN PROVE IInv /\ WriteCtrl1(e) => IInv'
<1> SUFFICES ASSUME IInv, WriteCtrl1(e) PROVE IInv'
  OBVIOUS
<1>1. PICK more \in SUBSET Irqs : SetTransmitter(Updated(Transmitter), more)
  BY DEF WriteCtrl1, Irqs
<1>2. /\ enabled' \in BOOLEAN /\ frame' \in Frames /\ sinceTick' = sinceTick
      /\ UNCHANGED <<written, overrun>> /\ UNCHANGED <<receiver, delivered, taken>>
  BY DEF WriteCtrl1, IInv, TypeOK
<1>3. QED
  BY <1>1, <1>2, ReceiverStays, UpdateOnly

LEMMA ReadCtrl1Keeps == IInv /\ ReadCtrl1 => IInv'
<1> SUFFICES ASSUME IInv, ReadCtrl1 PROVE IInv'
  OBVIOUS
<1>1. SetTransmitter(Updated(Transmitter), {}) /\ {} \in SUBSET Irqs
  BY DEF ReadCtrl1
<1>2. /\ enabled' \in BOOLEAN /\ frame' \in Frames /\ sinceTick' = sinceTick
      /\ UNCHANGED <<written, overrun>> /\ UNCHANGED <<receiver, delivered, taken>>
  BY DEF ReadCtrl1, IInv, TypeOK
<1>3. QED
  BY <1>1, <1>2, ReceiverStays, UpdateOnly

\* The byte goes on the wire, behind it, or over the one behind it.
LEMMA WriteTxHoldKeeps == IInv /\ WriteTxHold(written + 1) => IInv'
<1> SUFFICES ASSUME IInv, WriteTxHold(written + 1) PROVE IInv'
  OBVIOUS
<1> DEFINE t == Updated(Transmitter)
           idle == t.shift = None
           lost == t.hold # None
           b == written + 1
           u == IF idle THEN [t EXCEPT !.shift = b, !.left = frame] ELSE [t EXCEPT !.hold = b]
           more == IF idle THEN {"TX"} ELSE IF lost THEN {"TXOVERRUN"} ELSE {}
<1>1. Sound(t, written, overrun) /\ Told(t, written, t.irqs)
  BY UpdatedOk
<1>2. /\ SetTransmitter(u, more) /\ written' = b /\ overrun' = (overrun \/ lost)
      /\ written < MaxWritten /\ sinceTick' = sinceTick
      /\ enabled' = enabled /\ frame' = frame
      /\ UNCHANGED <<receiver, delivered, taken>>
  BY DEF WriteTxHold
<1>3. /\ written \in Nat /\ frame \in Nat /\ frame > 0 /\ overrun \in BOOLEAN
      /\ enabled \in BOOLEAN /\ frame \in Frames /\ MaxWritten \in Nat
  BY Types, FramesAssumption DEF IInv, TypeOK
<1>4. t = [shift |-> t.shift, left |-> t.left, hold |-> t.hold, out |-> t.out, irqs |-> t.irqs]
  BY DEF Updated, Transmitter
<1> HIDE DEF t
<1>5. /\ u.shift = (IF idle THEN b ELSE t.shift) /\ u.left = (IF idle THEN frame ELSE t.left)
      /\ u.hold = (IF idle THEN t.hold ELSE b) /\ u.out = t.out /\ u.irqs = t.irqs
  BY <1>4
<1> HIDE DEF u
<1> DEFINE s == sent \o t.out
<1>6. /\ s \in Seq(1..written) /\ GoodWire(Wire(s, t.shift, t.hold), written, overrun)
      /\ t.shift \in 0..written /\ t.hold \in 0..written
      /\ t.shift = None => t.hold = None
  BY <1>1 DEF Sound
<1>7. s \in Seq(1..b)
  BY <1>3, <1>6, WiderSeq
<1> HIDE DEF s
<1>8. GoodWire(Wire(s, u.shift, u.hold), b, overrun')
  <2>1. CASE idle
    BY <1>2, <1>3, <1>5, <1>6, <2>1, WirePush
  <2>2. CASE ~idle /\ ~lost
    BY <1>2, <1>3, <1>5, <1>6, <2>2, WirePush
  <2>3. CASE ~idle /\ lost
    <3>1. t.hold \in 1..written
      BY <1>3, <1>6, <2>3 DEF None
    <3>2. GoodWire(Wire(s, u.shift, u.hold), b, TRUE)
      BY <1>3, <1>5, <1>6, <2>3, <3>1, WireReplace
    <3>3. overrun' \in BOOLEAN /\ overrun'
      BY <1>2, <2>3
    <3>4. QED
      BY <3>2, <3>3 DEF GoodWire
  <2>4. QED
    BY <2>1, <2>2, <2>3
<1>9. Sound(u, written', overrun')
  <2>1. /\ u.shift \in 0..b /\ u.hold \in 0..b /\ u.left \in Int
        /\ u.shift # None /\ u.left > 0 /\ u.irqs \in SUBSET Irqs
    BY <1>1, <1>3, <1>5, <1>6 DEF Sound, None
  <2>2. QED
    BY <1>2, <1>5, <1>7, <1>8, <2>1 DEF Sound, s
<1>10. Told(u, written', u.irqs \cup more)
  BY <1>3, <1>5 DEF Told, None
<1>11. /\ more \in SUBSET Irqs /\ written' \in 0..MaxWritten /\ overrun' \in BOOLEAN
  BY <1>2, <1>3 DEF Irqs
<1> HIDE DEF more, b
<1>12. QED
  BY <1>2, <1>3, <1>9, <1>10, <1>11, ReceiverStays, SetOk

LEMMA LoopKeeps ==
  ASSUME NEW from \in {"nobody", "link", "console"} PROVE IInv /\ Loop(from) => IInv'
<1> SUFFICES ASSUME IInv, Loop(from) PROVE IInv'
  OBVIOUS
<1> DEFINE more == IF from # "nobody" THEN {"RX"} ELSE {}
<1>1. /\ SetTransmitter(Updated(Transmitter), more) /\ sinceTick' = 0
      /\ from # "nobody" => ~rxFull /\ delivered < MaxDelivered
      /\ delivered' = IF from # "nobody" THEN delivered + 1 ELSE delivered
      /\ rx' = IF from # "nobody" THEN delivered + 1 ELSE rx
      /\ rxFull' = (rxFull \/ from # "nobody")
      /\ rxWait' = IF from = "link" THEN frame ELSE rxWait
      /\ UNCHANGED <<written, overrun>> /\ UNCHANGED <<enabled, frame, taken>>
  BY DEF Loop, LinkReady, ConsoleReady
<1>2. /\ delivered \in 0..MaxDelivered /\ MaxDelivered \in Nat /\ rx \in 0..delivered
      /\ taken \in 0..delivered /\ rxFull \in BOOLEAN /\ rxWait \in Nat /\ frame \in Nat
      /\ enabled \in BOOLEAN /\ frame \in Frames
      /\ delivered - taken = IF rxFull THEN 1 ELSE 0
  BY Types, FramesAssumption DEF IInv, TypeOK, RxNeverOverwritten
<1>3. /\ rx' \in 0..delivered' /\ rxFull' \in BOOLEAN /\ rxWait' \in Nat
      /\ delivered' \in 0..MaxDelivered /\ taken' \in 0..delivered'
  BY <1>1, <1>2
<1>4. RxNeverOverwritten'
  <2>1. CASE from = "nobody"
    <3>1. delivered' = delivered /\ taken' = taken /\ rxFull' = rxFull
      BY <1>1, <1>2, <2>1
    <3>2. QED
      BY <1>2, <3>1 DEF RxNeverOverwritten
  <2>2. CASE from # "nobody"
    <3>1. delivered' = delivered + 1 /\ taken' = taken /\ rxFull' = TRUE /\ ~rxFull
      BY <1>1, <1>2, <2>2
    <3>2. QED
      BY <1>2, <3>1 DEF RxNeverOverwritten
  <2>3. QED
    BY <2>1, <2>2
<1>5. more \in SUBSET Irqs /\ (rxFull' => rxFull \/ "RX" \in more)
  BY <1>1 DEF Irqs
<1> HIDE DEF more
<1>6. QED
  BY <1>1, <1>2, <1>3, <1>4, <1>5, UpdateOnly

\* The steps that leave the transmitter's registers alone.
LEMMA RestKeeps ==
  ASSUME IInv, UNCHANGED <<shift, hold, sent, written, overrun>>,
         TypeOK', shift = None => left' = 0,
         shift # None => left' + sinceTick' = left + sinceTick,
         RxNeverOverwritten', NoLostUartEvent'
  PROVE  IInv'
<1>1. shift # None => left + sinceTick > 0
  BY DEF IInv
<1>2. QED
  BY <1>1 DEF IInv

LEMMA WriteCtrl2Keeps == ASSUME NEW f \in Frames PROVE IInv /\ WriteCtrl2(f) => IInv'
<1> SUFFICES ASSUME IInv, WriteCtrl2(f) PROVE IInv'
  OBVIOUS
<1>1. TypeOK' /\ UNCHANGED <<shift, hold, sent, written, overrun, left, sinceTick>>
  BY DEF WriteCtrl2, IInv, TypeOK, transmitter, receiver
<1>2. RxNeverOverwritten' /\ NoLostUartEvent'
  BY DEF WriteCtrl2, IInv, RxNeverOverwritten, NoLostUartEvent, transmitter, receiver
<1>3. QED
  BY <1>1, <1>2, RestKeeps DEF IInv

LEMMA RunKeeps == IInv /\ Run => IInv'
<1> SUFFICES ASSUME IInv, Run PROVE IInv'
  OBVIOUS
<1>1. /\ sinceTick' = sinceTick + 1 /\ sinceTick < TickInterval
      /\ left' = (IF shift = None THEN 0 ELSE left - 1)
      /\ rxWait' = (IF rxWait = 0 THEN 0 ELSE rxWait - 1)
      /\ UNCHANGED <<enabled, frame, shift, hold, rx, rxFull, status,
                     sent, written, delivered, taken, overrun, acked>>
  BY DEF Run
<1>2. /\ left \in Int /\ rxWait \in Nat /\ sinceTick \in 0..TickInterval
      /\ TickInterval \in Nat /\ TickInterval > 0
      /\ shift # None => left + sinceTick > 0
  BY Types DEF IInv, TypeOK
<1>3. /\ sinceTick' \in 0..TickInterval /\ left' \in Int /\ left' > -TickInterval
      /\ rxWait' \in Nat
  BY <1>1, <1>2
<1>4. TypeOK'
  BY <1>1, <1>3 DEF IInv, TypeOK
<1>5. RxNeverOverwritten' /\ NoLostUartEvent'
  BY <1>1 DEF IInv, RxNeverOverwritten, NoLostUartEvent
<1>6. QED
  BY <1>1, <1>2, <1>4, <1>5, RestKeeps

LEMMA ReadRxHoldKeeps == IInv /\ ReadRxHold => IInv'
<1> SUFFICES ASSUME IInv, ReadRxHold PROVE IInv'
  OBVIOUS
<1>1. /\ rxFull = TRUE /\ rxFull' = FALSE /\ taken' = taken + 1 /\ status' = status \ {"RX"}
      /\ UNCHANGED <<enabled, frame, shift, left, hold, rx, rxWait, sinceTick,
                     sent, written, delivered, overrun, acked>>
  BY DEF ReadRxHold, transmitter, IInv, TypeOK
<1>2. delivered \in Nat /\ taken \in 0..delivered /\ delivered - taken = 1
  BY <1>1, Types DEF IInv, TypeOK, RxNeverOverwritten
<1>3. taken' \in 0..delivered' /\ RxNeverOverwritten'
  BY <1>1, <1>2 DEF RxNeverOverwritten
<1>4. TypeOK'
  BY <1>1, <1>3 DEF IInv, TypeOK
<1>5. NoLostUartEvent'
  BY <1>1 DEF IInv, NoLostUartEvent
<1>6. QED
  BY <1>1, <1>3, <1>4, <1>5, RestKeeps DEF IInv

LEMMA ClearInterruptsKeeps ==
  ASSUME NEW irqs \in SUBSET Irqs PROVE IInv /\ ClearInterrupts(irqs) => IInv'
<1> SUFFICES ASSUME IInv, ClearInterrupts(irqs) PROVE IInv'
  OBVIOUS
<1>1. /\ status' = status \ irqs /\ acked' = acked \cup irqs
      /\ UNCHANGED <<enabled, frame, shift, left, hold, rx, rxFull, rxWait, sinceTick,
                     sent, written, delivered, taken, overrun>>
  BY DEF ClearInterrupts, transmitter, receiver
<1>2. TypeOK'
  BY <1>1 DEF IInv, TypeOK
<1>3. RxNeverOverwritten' /\ NoLostUartEvent'
  BY <1>1 DEF IInv, RxNeverOverwritten, NoLostUartEvent
<1>4. QED
  BY <1>1, <1>2, <1>3, RestKeeps DEF IInv

LEMMA HostTypesKeeps == IInv /\ HostTypes => IInv'
<1> SUFFICES ASSUME IInv, HostTypes PROVE IInv'
  OBVIOUS
<1>1. /\ rxFull = FALSE /\ delivered < MaxDelivered
      /\ delivered' = delivered + 1 /\ rx' = delivered + 1 /\ rxFull' = TRUE
      /\ status' = status \cup {"RX"} /\ acked' = acked \ {"RX"}
      /\ UNCHANGED <<enabled, frame, shift, left, hold, rxWait, sinceTick,
                     sent, written, taken, overrun>>
  BY DEF HostTypes, transmitter, Raise, Forget, IInv, TypeOK
<1>2. /\ delivered \in 0..MaxDelivered /\ MaxDelivered \in Nat /\ taken \in 0..delivered
      /\ delivered - taken = 0
  BY <1>1, FramesAssumption DEF IInv, TypeOK, RxNeverOverwritten
<1>3. /\ rx' \in 0..delivered' /\ delivered' \in 0..MaxDelivered /\ taken' \in 0..delivered'
      /\ RxNeverOverwritten'
  BY <1>1, <1>2 DEF RxNeverOverwritten
<1>4. status' \in SUBSET Irqs /\ acked' \in SUBSET Irqs
  BY <1>1 DEF IInv, TypeOK, Irqs
<1>5. TypeOK'
  BY <1>1, <1>3, <1>4 DEF IInv, TypeOK
<1>6. NoLostUartEvent'
  BY <1>1 DEF IInv, NoLostUartEvent
<1>7. QED
  BY <1>1, <1>3, <1>5, <1>6, RestKeeps DEF IInv

LEMMA InitHolds == Init => IInv
<1> SUFFICES ASSUME Init PROVE IInv
  OBVIOUS
<1>1. /\ enabled = FALSE /\ frame \in Frames /\ shift = 0 /\ left = 0 /\ hold = 0
      /\ rx = 0 /\ rxFull = FALSE /\ rxWait = 0 /\ sinceTick = 0 /\ status = {}
      /\ sent = <<>> /\ written = 0 /\ delivered = 0 /\ taken = 0
      /\ overrun = FALSE /\ acked = {}
  BY DEF Init, None
<1>2. TickInterval \in Nat /\ TickInterval > 0 /\ MaxWritten \in Nat /\ MaxDelivered \in Nat
  BY FramesAssumption
<1>3. TypeOK
  <2>1. /\ 0 > -TickInterval /\ 0 \in 0..TickInterval /\ 0 \in 0..0 /\ 0 \in Nat /\ 0 \in Int
        /\ 0 \in 0..MaxWritten /\ 0 \in 0..MaxDelivered
    BY <1>2
  <2>2. <<>> \in Seq(1..0) /\ {} \in SUBSET Irqs
    OBVIOUS
  <2>3. QED
    BY <1>1, <2>1, <2>2 DEF TypeOK
<1>4. Wire(sent, shift, hold) = <<>>
  BY <1>1 DEF Wire, Waiting, None
<1>5. GoodWire(Wire(sent, shift, hold), written, overrun)
  <2>1. <<>> \in Seq(1..0) /\ Len(<<>>) = 0 /\ DOMAIN <<>> = {}
    OBVIOUS
  <2>2. QED
    BY <1>1, <1>4, <2>1 DEF GoodWire, Increasing
<1>6. QED
  BY <1>1, <1>3, <1>5 DEF IInv, RxNeverOverwritten, NoLostUartEvent, None

LEMMA NextKeeps == IInv /\ [Next]_vars => IInv'
<1> SUFFICES ASSUME IInv, [Next]_vars PROVE IInv'
  OBVIOUS
<1>1. CASE Run \/ HostTypes
  BY <1>1, RunKeeps, HostTypesKeeps
<1>2. CASE LoopStep
  BY <1>2, LoopKeeps DEF LoopStep
<1>3. CASE Guest
  BY <1>3, WriteCtrl1Keeps, ReadCtrl1Keeps, WriteCtrl2Keeps, WriteTxHoldKeeps,
     ReadRxHoldKeeps, ClearInterruptsKeeps DEF Guest
<1>4. CASE UNCHANGED vars
  BY <1>4 DEF vars, transmitter, receiver, IInv, TypeOK, RxNeverOverwritten, NoLostUartEvent
<1>5. QED
  BY <1>1, <1>2, <1>3, <1>4 DEF Next

LEMMA Invariant == Spec => []IInv
BY InitHolds, NextKeeps, PTL DEF Spec

-----------------------------------------------------------------------------
\* The registers keep their types, and the byte on the wire is never behind by
\* a whole chunk.
THEOREM TypeCorrect == Spec => []TypeOK
<1>1. IInv => TypeOK
  BY DEF IInv
<1>2. QED
  BY <1>1, Invariant, PTL

\* What the guest wrote reaches the host once and in order, and whole unless
\* an overrun was signalled.
THEOREM TxLossIsSignalled == Spec => []NoSilentTxLoss
<1>1. IInv => NoSilentTxLoss
  BY DEF IInv, NoSilentTxLoss, GoodWire, Increasing, Wire
<1>2. QED
  BY <1>1, Invariant, PTL

\* No feeder of the receiver writes over a byte the guest has not read.
THEOREM RxKeepsItsByte == Spec => []RxNeverOverwritten
<1>1. IInv => RxNeverOverwritten
  BY DEF IInv
<1>2. QED
  BY <1>1, Invariant, PTL

\* No event of the UART is lost between the chip and the guest.
THEOREM UartEventsKept == Spec => []NoLostUartEvent
<1>1. IInv => NoLostUartEvent
  BY DEF IInv
<1>2. QED
  BY <1>1, Invariant, PTL
=============================================================================
