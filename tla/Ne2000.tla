------------------------------- MODULE Ne2000 -------------------------------
(***************************************************************************)
(* The Ethernet chip of the network card (devices/ne2000/ne2000.c), as     *)
(* operations on its registers n and, where packet memory is touched, on   *)
(* the whole chip c = [nic, ram].  Packet memory is counted in pages; a    *)
(* page holds one part of a frame, the first part with the ring header.    *)
(* Station address, filters, PROM, byte lanes and the checksum are left    *)
(* out.                                                                    *)
(***************************************************************************)
EXTENDS Integers

CONSTANTS PStart, PStop,    \* the receive ring, as the guest programs it
          TallyFlag         \* 128: missed frames at which CNT is raised

ASSUME RingAssumption ==
  /\ PStart \in Nat \ {0} /\ PStop \in Nat /\ PStop - PStart > 2
  /\ TallyFlag \in Nat \ {0}

Ring == PStart..(PStop - 1)
RingSize == PStop - PStart
TxPage == PStart - 1        \* where the guest puts the frame to be sent
Pages == Ring \cup {TxPage}

Bits == {"prx", "ptx", "txe", "ovw", "cnt", "rdc", "rst"}

NicType == [sta : BOOLEAN, stp : BOOLEAN, txp : BOOLEAN,  \* the command register
            dma : {"none", "read", "write"},
            isr : SUBSET Bits, imr : SUBSET (Bits \ {"rst"}),
            bnry : 0..PStop, curr : 0..PStop,
            rsar : 0..PStop, rbcr : 0..RingSize,
            monitor : BOOLEAN,                            \* rcr bit 5
            loop : {"none", "internal", "external"},      \* tcr bits 1, 2
            tally : 0..(2 * TallyFlag - 1),
            pending : BOOLEAN, frame : Int]               \* the frame in flight

Parts(Ids) == [frame : Ids, part : Nat, size : Nat, next : 0..(PStop - 1)]
Blank == [frame |-> 0, part |-> 0, size |-> 0, next |-> 0]

-----------------------------------------------------------------------------
\* The ring's registers, the modes and the memory survive it.
Reset(n) ==
  [n EXCEPT !.sta = FALSE, !.stp = TRUE, !.txp = FALSE, !.dma = "none",
            !.isr = {"rst"}, !.imr = {}, !.rbcr = 0, !.pending = FALSE,
            !.tally = 0]

PowerOn ==
  [nic |-> Reset([sta |-> FALSE, stp |-> FALSE, txp |-> FALSE, dma |-> "none",
                  isr |-> {}, imr |-> {}, bnry |-> 0, curr |-> 0, rsar |-> 0,
                  rbcr |-> 0, monitor |-> FALSE, loop |-> "none", tally |-> 0,
                  pending |-> FALSE, frame |-> 0]),
   ram |-> [p \in Pages |-> Blank]]

Irq(n) == n.isr \cap n.imr # {}

Started(n) == n.sta /\ ~n.stp

Missed(n) ==
  LET tally == (n.tally + 1) % (2 * TallyFlag)
  IN [n EXCEPT !.tally = tally,
               !.isr = @ \cup (IF tally = TallyFlag THEN {"cnt"} ELSE {})]

Wrapped(p) == IF p >= PStop THEN p - RingSize ELSE p

\* Wrong on purpose: a frame may end on the boundary page's neighbour and fill
\* the ring.
FitsExactly(n, size) ==
  n.bnry \in Ring =>
    size <= IF n.bnry > n.curr THEN n.bnry - n.curr ELSE RingSize - (n.curr - n.bnry)

\* The boundary is compared, not validated: outside the ring it stops nothing.
Fits(n, size) ==
  n.bnry \in Ring =>
    size < IF n.bnry > n.curr THEN n.bnry - n.curr ELSE RingSize - (n.curr - n.bnry)

\* A frame the address filter let through.
Takes(n, size) ==
  Started(n) /\ ~n.monitor /\ n.curr \in Ring /\ "ovw" \notin n.isr /\ Fits(n, size)

\* Wrong on purpose: the frame is stored without an interrupt.
StoreQuietly(c, frame, size) ==
  LET next == Wrapped(c.nic.curr + size)
      part(p) == 1 + ((p - c.nic.curr) % RingSize)
  IN [nic |-> [c.nic EXCEPT !.curr = next],
      ram |-> [p \in Pages |->
                 IF p \in Ring /\ part(p) <= size
                 THEN [frame |-> frame, part |-> part(p), size |-> size, next |-> next]
                 ELSE c.ram[p]]]

\* Wrong on purpose: the header leads past the end of the ring.
StoreStraight(c, frame, size) ==
  LET next == Wrapped(c.nic.curr + size)
      part(p) == 1 + ((p - c.nic.curr) % RingSize)
  IN [nic |-> [c.nic EXCEPT !.curr = next, !.isr = @ \cup {"prx"}],
      ram |-> [p \in Pages |->
                 IF p \in Ring /\ part(p) <= size
                 THEN [frame |-> frame, part |-> part(p), size |-> size,
                       next |-> c.nic.curr + size]
                 ELSE c.ram[p]]]

Store(c, frame, size) ==
  LET next == Wrapped(c.nic.curr + size)
      part(p) == 1 + ((p - c.nic.curr) % RingSize)
  IN [nic |-> [c.nic EXCEPT !.curr = next, !.isr = @ \cup {"prx"}],
      ram |-> [p \in Pages |->
                 IF p \in Ring /\ part(p) <= size
                 THEN [frame |-> frame, part |-> part(p), size |-> size, next |-> next]
                 ELSE c.ram[p]]]

Receive(c, frame, size) ==
  CASE ~Started(c.nic) -> c
    [] Started(c.nic) /\ c.nic.monitor -> [c EXCEPT !.nic = Missed(@)]
    [] Takes(c.nic, size) -> Store(c, frame, size)
    [] Started(c.nic) /\ ~c.nic.monitor /\ c.nic.curr \in Ring /\ ~Takes(c.nic, size) ->
         [c EXCEPT !.nic = Missed([c.nic EXCEPT !.isr = @ \cup {"ovw"}])]
    [] OTHER -> c

-----------------------------------------------------------------------------
\* The frame leaves, or there is no carrier; what the chip receives meanwhile
\* is in c already.
Completed(c, ok) ==
  [c EXCEPT !.nic.isr = @ \cup {IF ok THEN "ptx" ELSE "txe"}
                          \cup (IF c.nic.stp THEN {"rst"} ELSE {})]

\* mh_ne2000_tick clears the request before anything else happens.
Sent(c) == [c EXCEPT !.nic.pending = FALSE, !.nic.txp = FALSE]

\* Wrong on purpose: a second request replaces the frame in flight.
TransmitOver(c, valid) ==
  IF ~valid THEN [c EXCEPT !.nic.txp = FALSE, !.nic.isr = @ \cup {"txe"}]
  ELSE [c EXCEPT !.nic.txp = TRUE, !.nic.pending = TRUE,
                 !.nic.frame = c.ram[TxPage].frame]

\* valid: the start page and the length describe a frame in packet memory.
Transmit(c, valid) ==
  IF c.nic.pending THEN c
  ELSE IF ~valid THEN [c EXCEPT !.nic.txp = FALSE, !.nic.isr = @ \cup {"txe"}]
  ELSE [c EXCEPT !.nic.txp = TRUE, !.nic.pending = TRUE,
                 !.nic.frame = c.ram[TxPage].frame]

\* The command register without its TXP bit: a stop keeps STA and waits for
\* the frame in flight.
Command(n, sta, stp, dma) ==
  [n EXCEPT !.stp = stp, !.sta = sta \/ (stp /\ n.sta), !.txp = n.pending, !.dma = dma,
            !.isr = (IF stp THEN IF n.pending THEN @ ELSE @ \cup {"rst"}
                     ELSE IF sta THEN @ \ {"rst"} ELSE @)
                    \cup (IF dma = "read" /\ n.rbcr = 0 THEN {"rdc"} ELSE {})]

\* The command register with TXP.
CommandTransmit(c, dma, valid) ==
  Transmit([c EXCEPT !.nic = Command(@, TRUE, FALSE, dma)], valid)

\* Write one to clear; RST is a state, not an event.
Acknowledge(n, bits) == [n EXCEPT !.isr = @ \ (bits \ {"rst"})]

-----------------------------------------------------------------------------
\* Remote DMA; outside packet memory there is nothing to read.
DmaPage(c) == IF c.nic.rsar \in Pages THEN c.ram[c.nic.rsar] ELSE Blank

\* Wrong on purpose: the remote address runs on at the end of the ring.
AdvanceStraight(n) ==
  [n EXCEPT !.rsar = @ + 1, !.rbcr = @ - 1,
            !.isr = @ \cup (IF n.rbcr = 1 THEN {"rdc"} ELSE {})]

Advance(n) ==
  [n EXCEPT !.rsar = IF @ + 1 = PStop THEN PStart ELSE @ + 1, !.rbcr = @ - 1,
            !.isr = @ \cup (IF n.rbcr = 1 THEN {"rdc"} ELSE {})]

StartDma(n, page, count, direction) ==
  Command([n EXCEPT !.rsar = page, !.rbcr = count], TRUE, FALSE, direction)

=============================================================================
