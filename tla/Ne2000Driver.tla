---------------------------- MODULE Ne2000Driver ----------------------------
(***************************************************************************)
(* The Ethernet chip between the board's loop, which polls the network and *)
(* then ticks the chip (machine.c, the card part of mh_machine_run), and   *)
(* the guest's driver, as docs/NETWORKING.md reports of its registers.     *)
(* Guest accesses and turns of the loop come in any order.  Frames to the  *)
(* guest are numbered from 1, the guest's own from -1 down.                *)
(***************************************************************************)
EXTENDS Ne2000, SequencesExt

CONSTANTS Sizes,         \* pages a frame may take
          Modes,         \* what the guest programs: [monitor, loop]
          EndMarks,      \* what the driver may write to the boundary register
                         \* for a frame that ends with the ring
          MaxArrivals, MaxSends, MaxWhims   \* bounds

ASSUME DriverAssumption ==
  /\ Sizes \subseteq 1..(RingSize - 2)
  /\ Modes \subseteq [monitor : BOOLEAN, loop : {"none", "internal", "external"}]
  /\ EndMarks \subseteq {PStop - 1, PStop}
  /\ {MaxArrivals, MaxSends, MaxWhims} \subseteq Nat

VARIABLES chip,    \* [nic, ram]
          drv,     \* the guest's driver
          queue,   \* frames the chip stored and the driver has not read
          flight,  \* frames the chip took on to send and that have not left
          lapped,  \* a frame was stored over one that was not read
          used     \* how much of each bound is used up

vars == <<chip, drv, queue, flight, lapped, used>>

nic == chip.nic

DriverType == [pc : {"off", "idle", "seen", "drain", "header", "body", "fill", "stopping"},
               next : 0..PStop,          \* where the next frame will be
               seen : SUBSET Bits,       \* the interrupts being handled
               taken : Seq(Parts(Int)),  \* pages of the frame read so far
               filled : BOOLEAN]         \* a frame waits in the transmit page

TypeOK ==
  /\ nic \in NicType
  /\ chip.ram \in [Pages -> Parts((-MaxSends)..MaxArrivals)]
  /\ drv \in DriverType
  /\ queue \in Seq([frame : Int, size : Nat])
  /\ flight \in Seq(-MaxSends..0)
  /\ lapped \in BOOLEAN
  /\ used \in [arrivals : 0..MaxArrivals, sends : 0..MaxSends, whims : 0..MaxWhims]

DriverOff == [pc |-> "off", next |-> 0, seen |-> {}, taken |-> <<>>, filled |-> FALSE]

Init ==
  /\ chip = PowerOn
  /\ drv = DriverOff
  /\ queue = <<>> /\ flight = <<>> /\ lapped = FALSE
  /\ used = [arrivals |-> 0, sends |-> 0, whims |-> 0]

-----------------------------------------------------------------------------
\* The loop.

PagesOf(q) ==
  LET upTo[i \in 0..Len(q)] == IF i = 0 THEN 0 ELSE upTo[i - 1] + q[i].size
  IN upTo[Len(q)]

\* What a frame offered to chip c does to the queue of unread ones.
Queued(c, frame, size) ==
  IF Takes(c.nic, size)
  THEN /\ queue' = Append(queue, [frame |-> frame, size |-> size])
       /\ lapped' = (lapped \/ PagesOf(queue) + size >= RingSize)
  ELSE UNCHANGED <<queue, lapped>>

\* mh_network_poll: the stack hands over a frame.
Deliver(size) ==
  LET frame == used.arrivals + 1
  IN /\ frame <= MaxArrivals
     /\ chip' = Receive(chip, frame, size)
     /\ Queued(chip, frame, size)
     /\ used' = [used EXCEPT !.arrivals = frame]
     /\ UNCHANGED <<drv, flight>>

\* mh_ne2000_tick with the frame due.  Its end is reported after the stack, or
\* the loop back, has had its turn to deliver.
Finish(c, ok) ==
  /\ chip' = Completed(c, ok)
  /\ flight' = Tail(flight)
  /\ UNCHANGED drv

TickLoopBack ==
  /\ nic.pending /\ nic.loop = "internal"
  /\ Finish(Receive(Sent(chip), nic.frame, 1), TRUE)
  /\ Queued(Sent(chip), nic.frame, 1)
  /\ UNCHANGED used

TickToNetwork ==
  /\ nic.pending /\ nic.loop # "internal"
  /\ \E ok \in IF nic.loop = "none" THEN BOOLEAN ELSE {FALSE} : Finish(Sent(chip), ok)
  /\ UNCHANGED <<queue, lapped, used>>

\* The stack answers while it is being given the frame.
TickAnswered(size) ==
  LET frame == used.arrivals + 1
  IN /\ nic.pending /\ nic.loop = "none" /\ frame <= MaxArrivals
     /\ Finish(Receive(Sent(chip), frame, size), TRUE)
     /\ Queued(Sent(chip), frame, size)
     /\ used' = [used EXCEPT !.arrivals = frame]

Tick == TickLoopBack \/ TickToNetwork \/ \E size \in Sizes : TickAnswered(size)

-----------------------------------------------------------------------------
\* The guest's driver (external).  An access that leaves the board's state and
\* the bounds alone:
Access(n, d) ==
  /\ chip' = [chip EXCEPT !.nic = n] /\ drv' = d
  /\ UNCHANGED <<queue, flight, lapped, used>>

Setup ==
  /\ drv.pc = "off"
  /\ \E mode \in Modes :
       Access(Command([nic EXCEPT !.bnry = PStart, !.curr = PStart + 1,
                                  !.monitor = mode.monitor, !.loop = mode.loop,
                                  !.imr = Bits \ {"rst", "rdc"}],
                      TRUE, FALSE, "none"),
              [drv EXCEPT !.pc = "idle", !.next = PStart + 1])

ReadIsr ==
  /\ drv.pc = "idle" /\ Irq(nic)
  /\ Access(nic, [drv EXCEPT !.pc = "seen", !.seen = nic.isr])

\* Everything but an overrun is acknowledged first; the tally counter is
\* read, which clears it.
AckIsr ==
  /\ drv.pc = "seen"
  /\ Access([Acknowledge(nic, drv.seen \ {"ovw"}) EXCEPT
               !.tally = IF "cnt" \in drv.seen THEN 0 ELSE @],
            [drv EXCEPT !.pc = "drain"])

ReadHeader ==
  /\ drv.pc = "drain" /\ nic.curr # drv.next
  /\ Access(StartDma(nic, drv.next, 1, "read"), [drv EXCEPT !.pc = "header", !.taken = <<>>])

ReadPage ==
  /\ drv.pc \in {"header", "body"} /\ nic.rbcr > 0
  /\ Access(Advance(nic), [drv EXCEPT !.taken = Append(@, DmaPage(chip))])

ReadBody ==
  /\ drv.pc = "header" /\ nic.rbcr = 0 /\ ~lapped
  /\ Access(StartDma(nic, drv.next, drv.taken[1].size, "read"),
            [drv EXCEPT !.pc = "body", !.taken = <<>>])

\* The boundary goes to the page before the next frame.
Consume ==
  /\ drv.pc = "body" /\ nic.rbcr = 0 /\ ~lapped
  /\ LET next == drv.taken[1].next
     IN \E mark \in IF next = PStart THEN EndMarks ELSE {next - 1} :
          /\ chip' = [chip EXCEPT !.nic.bnry = mark]
          /\ drv' = [drv EXCEPT !.pc = "drain", !.next = next, !.taken = <<>>]
  /\ queue' = Tail(queue)
  /\ UNCHANGED <<flight, lapped, used>>

Drained ==
  /\ drv.pc = "drain" /\ nic.curr = drv.next
  /\ IF "ovw" \in drv.seen
     THEN Access(Acknowledge(nic, {"ovw"}), [drv EXCEPT !.seen = {}])
     ELSE Access(nic, [drv EXCEPT !.pc = "idle", !.seen = {}])

FillTransmitPage ==
  /\ drv.pc = "idle" /\ used.sends < MaxSends
  /\ chip' = [chip EXCEPT !.nic = StartDma(@, TxPage, 1, "write")]
  /\ drv' = [drv EXCEPT !.pc = "fill"]
  /\ used' = [used EXCEPT !.sends = @ + 1]
  /\ UNCHANGED <<queue, flight, lapped>>

WritePage ==
  /\ drv.pc = "fill"
  /\ chip' = [nic |-> Advance(nic),
              ram |-> [chip.ram EXCEPT ![nic.rsar].frame = -used.sends]]
  /\ drv' = [drv EXCEPT !.pc = "idle", !.filled = TRUE]
  /\ UNCHANGED <<queue, flight, lapped, used>>

\* It need not wait for the frame before, nor get the length right.
RequestTransmit ==
  /\ drv.pc = "idle" /\ drv.filled
  /\ \E valid \in BOOLEAN :
       /\ chip' = CommandTransmit(chip, "none", valid)
       /\ flight' = IF valid /\ ~nic.pending THEN Append(flight, chip.ram[TxPage].frame)
                                             ELSE flight
  /\ drv' = [drv EXCEPT !.filled = FALSE]
  /\ UNCHANGED <<queue, lapped, used>>

\* The stop waits for the frame in flight; the restart may come before.
Stop ==
  /\ drv.pc = "idle" /\ used.whims < MaxWhims
  /\ chip' = [chip EXCEPT !.nic = Command(@, FALSE, TRUE, "none")]
  /\ drv' = [drv EXCEPT !.pc = "stopping"]
  /\ used' = [used EXCEPT !.whims = @ + 1]
  /\ UNCHANGED <<queue, flight, lapped>>

Restart ==
  /\ drv.pc = "stopping"
  /\ Access(Command(nic, TRUE, FALSE, "none"), [drv EXCEPT !.pc = "idle"])

\* The reset port gives up the frame in flight.  A driver that finds no header
\* where one should be resets the chip.
ResetPort ==
  /\ \/ lapped /\ used' = used
     \/ used.whims < MaxWhims /\ used' = [used EXCEPT !.whims = @ + 1]
  /\ drv.pc # "off"
  /\ chip' = [chip EXCEPT !.nic = Reset(@)]
  /\ drv' = DriverOff
  /\ flight' = IF nic.pending THEN Front(flight) ELSE flight
  /\ queue' = <<>> /\ lapped' = FALSE

Handle ==
  \/ Setup \/ ReadIsr \/ AckIsr \/ ReadHeader \/ ReadPage \/ ReadBody
  \/ Consume \/ Drained \/ WritePage \/ (lapped /\ ResetPort)

Next ==
  \/ \E size \in Sizes : Deliver(size)
  \/ Tick \/ Handle \/ FillTransmitPage \/ RequestTransmit
  \/ Stop \/ Restart \/ ResetPort

Spec == Init /\ [][Next]_vars

\* The loop ticks the chip after every chunk and the guest's handler runs
\* when it is interrupted; nothing else is promised.
FairSpec == Spec /\ WF_vars(Tick) /\ WF_vars(Handle)

-----------------------------------------------------------------------------
\* Where the driver will find the frames it has not read: one behind the
\* other from the page it expects, the last ending where the chip goes on.
Place(i) == Wrapped(drv.next + PagesOf(SubSeq(queue, 1, i - 1)))

\* Between the boundary and the chip's page the ring holds the frames that
\* arrived and were not read, each whole and with a header that leads to the
\* next, whatever the chip refused, sent or looped back meanwhile
\* (mh_ne2000_receive).
RingHoldsUnread ==
  (drv.pc # "off" /\ ~lapped) =>
    /\ nic.curr = Place(Len(queue) + 1)
    /\ \A i \in DOMAIN queue : \A k \in 1..queue[i].size :
         chip.ram[Wrapped(Place(i) + k - 1)] =
           [frame |-> queue[i].frame, part |-> k, size |-> queue[i].size,
            next |-> Place(i + 1)]

\* An unread frame is overwritten only while the boundary register is outside
\* the ring, where it cannot match (NETWORKING.md: "An in-ring boundary still
\* prevents overwriting unread data").
InRingBoundaryProtects == [][lapped' /\ ~lapped => nic.bnry \notin Ring]_vars

\* What the driver takes out of the ring by remote DMA is the oldest frame,
\* complete and in order, across the end of the ring (advance).
ReadsWholeFrames ==
  [][Consume => /\ Len(drv.taken) = Head(queue).size
                /\ \A k \in DOMAIN drv.taken :
                     /\ drv.taken[k].frame = Head(queue).frame
                     /\ drv.taken[k].part = k]_vars

\* Every frame the chip takes on leaves once, in order and as it was when it
\* was requested, however the driver rewrites the page, asks again, stops or
\* restarts meanwhile; TXP stands exactly as long as it is under way.
SentOnceAsRequested ==
  /\ nic.txp = nic.pending
  /\ flight = IF nic.pending THEN <<nic.frame>> ELSE <<>>

\* A chip that is stopped and has nothing in flight says so.
StoppedSaysSo == (nic.stp /\ ~nic.pending) => "rst" \in nic.isr

\* Chip and driver keep their types, and the transmitter its promises.
TransmitterOK == TypeOK /\ SentOnceAsRequested /\ StoppedSaysSo

\* The driver reads what arrived: no frame is stored without an interrupt that
\* is still to come.
AllRead ==
  queue # <<>> ~> (queue = <<>> \/ drv.pc = "stopping")

=============================================================================
