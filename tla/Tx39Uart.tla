------------------------------ MODULE Tx39Uart ------------------------------
(***************************************************************************)
(* One UART of the TX39 (soc/tx39/tx39_uart.c) between the guest and the   *)
(* host's serial link or console.  The transmitter is a shift register     *)
(* with a holding register in front of it, timed by cycles; the receiver   *)
(* is one holding register that the machine loop fills.  The n-th byte     *)
(* written or delivered is the number n.                                   *)
(***************************************************************************)
EXTENDS Integers, Sequences

CONSTANTS Frames,        \* the frame lengths the guest programs, in cycles
          TickInterval,  \* the loop's longest chunk, in cycles
          MaxWritten,    \* bound on the bytes the guest sends
          MaxDelivered   \* bound on the bytes it is sent

\* A frame of 9 bits at the fastest rate is 1440 cycles, a chunk 1024.
ASSUME FramesAssumption ==
  /\ TickInterval \in Nat \ {0} /\ {MaxWritten, MaxDelivered} \subseteq Nat
  /\ Frames \subseteq {f \in Nat : f >= TickInterval} /\ Frames # {}

Irqs == {"TX", "EMPTY", "TXOVERRUN", "RX"}
None == 0

VARIABLES enabled,      \* CTRL1.ENUART
          frame,        \* mh_uart_frame_cycles of the programmed mode
          shift, left,  \* the byte on the wire, or None, and its cycles left
          hold,         \* the byte behind it, or None
          rx, rxFull,
          rxWait,       \* cycles until the link may deliver again
          sinceTick,    \* cycles run in the current chunk
          status,       \* latched sources in bank 2 of the ICU
          \* What the properties remember.
          sent,         \* the bytes that reached the host, in order
          written, delivered, taken,  \* how many each side sent and got
          overrun,      \* a transmitter overrun has been signalled
          acked         \* sources acknowledged while their condition stands

transmitter == <<shift, left, hold>>
receiver == <<rx, rxFull, rxWait>>
vars == <<enabled, frame, transmitter, receiver, sinceTick, status,
          sent, written, delivered, taken, overrun, acked>>

TypeOK ==
  /\ enabled \in BOOLEAN /\ frame \in Frames
  /\ shift \in 0..written /\ left \in Int /\ left > -TickInterval
  /\ hold \in 0..written
  /\ rx \in 0..delivered /\ rxFull \in BOOLEAN /\ rxWait \in Nat
  /\ sinceTick \in 0..TickInterval
  /\ status \in SUBSET Irqs
  /\ sent \in Seq(1..written)
  /\ written \in 0..MaxWritten /\ delivered \in 0..MaxDelivered
  /\ taken \in 0..delivered
  /\ overrun \in BOOLEAN /\ acked \in SUBSET Irqs

Init ==
  /\ enabled = FALSE /\ frame \in Frames
  /\ shift = None /\ left = 0 /\ hold = None
  /\ rx = 0 /\ rxFull = FALSE /\ rxWait = 0
  /\ sinceTick = 0 /\ status = {}
  /\ sent = <<>> /\ written = 0 /\ delivered = 0 /\ taken = 0
  /\ overrun = FALSE /\ acked = {}

-----------------------------------------------------------------------------
\* mh_uart_update on a transmitter t: the frames whose time has come are on
\* the host's side, a byte in waiting moves up.  A frame outlasts a chunk, so
\* at most one can have ended.
Transmitter == [shift |-> shift, left |-> left, hold |-> hold,
                out |-> <<>>, irqs |-> {}]

Ended(t) == t.shift # None /\ t.left <= 0

\* Wrong on purpose: a byte that moves up does not signal the room it leaves.
UpdatedSilently(t) ==
  IF ~Ended(t) THEN t
  ELSE IF t.hold # None
  THEN [shift |-> t.hold, left |-> t.left + frame, hold |-> None,
        out |-> <<t.shift>>, irqs |-> t.irqs]
  ELSE [shift |-> None, left |-> 0, hold |-> None,
        out |-> <<t.shift>>, irqs |-> t.irqs \cup {"EMPTY"}]

Updated(t) ==
  IF ~Ended(t) THEN t
  ELSE IF t.hold # None
  THEN [shift |-> t.hold, left |-> t.left + frame, hold |-> None,
        out |-> <<t.shift>>, irqs |-> t.irqs \cup {"TX"}]
  ELSE [shift |-> None, left |-> 0, hold |-> None,
        out |-> <<t.shift>>, irqs |-> t.irqs \cup {"EMPTY"}]

Raise(irqs) == status' = status \cup irqs

\* The conditions in over no longer stand, those in irqs stand anew.
Forget(irqs, over) == acked' = acked \ (irqs \cup over)

\* The step ends with the transmitter as t and raises what t and more say.
SetTransmitter(t, more) ==
  /\ shift' = t.shift /\ left' = t.left /\ hold' = t.hold
  /\ sent' = sent \o t.out
  /\ Raise(t.irqs \cup more)
  /\ Forget(t.irqs \cup more, (IF t.shift = None THEN {} ELSE {"EMPTY"}) \cup
                              (IF t.hold = None THEN {} ELSE {"TX"}))

-----------------------------------------------------------------------------
\* The guest's register accesses.
WriteCtrl1(enable) ==
  /\ enabled' = enable
  /\ SetTransmitter(Updated(Transmitter),
                    IF enable /\ ~enabled THEN {"TX", "EMPTY"} ELSE {})
  /\ UNCHANGED <<frame, receiver, sinceTick, written, delivered, taken, overrun>>

ReadCtrl1 ==
  /\ Ended(Transmitter)
  /\ SetTransmitter(Updated(Transmitter), {})
  /\ UNCHANGED <<enabled, frame, receiver, sinceTick, written, delivered,
                 taken, overrun>>

WriteCtrl2(f) ==
  /\ frame' = f
  /\ UNCHANGED <<enabled, transmitter, receiver, sinceTick, status,
                 sent, written, delivered, taken, overrun, acked>>

\* Wrong on purpose: the overrun is not signalled.
WriteTxHoldSilently(b) ==
  LET t == Updated(Transmitter)
  IN /\ written < MaxWritten /\ written' = b
     /\ SetTransmitter(IF t.shift = None
                       THEN [t EXCEPT !.shift = b, !.left = frame]
                       ELSE [t EXCEPT !.hold = b],
                       IF t.shift = None THEN {"TX"} ELSE {})
     /\ UNCHANGED <<enabled, frame, receiver, sinceTick, delivered, taken, overrun>>

\* An idle transmitter takes the byte at once; otherwise it waits, on top of
\* one that waited already.
WriteTxHold(b) ==
  LET t == Updated(Transmitter)
      idle == t.shift = None
      lost == t.hold # None
  IN /\ written < MaxWritten /\ written' = b
     /\ SetTransmitter(IF idle THEN [t EXCEPT !.shift = b, !.left = frame]
                               ELSE [t EXCEPT !.hold = b],
                       IF idle THEN {"TX"}
                       ELSE IF lost THEN {"TXOVERRUN"} ELSE {})
     /\ overrun' = (overrun \/ lost)
     /\ UNCHANGED <<enabled, frame, receiver, sinceTick, delivered, taken>>

ReadRxHold ==
  /\ rxFull
  /\ rxFull' = FALSE
  /\ taken' = taken + 1
  /\ status' = status \ {"RX"}
  /\ UNCHANGED <<enabled, frame, transmitter, rx, rxWait, sinceTick,
                 sent, written, delivered, overrun, acked>>

ClearInterrupts(irqs) ==
  /\ irqs \cap status # {}
  /\ status' = status \ irqs
  /\ acked' = acked \cup irqs
  /\ UNCHANGED <<enabled, frame, transmitter, receiver, sinceTick,
                 sent, written, delivered, taken, overrun>>

-----------------------------------------------------------------------------
\* Wrong on purpose: a disabled UART does not shift.
RunGated ==
  /\ sinceTick < TickInterval
  /\ sinceTick' = sinceTick + 1
  /\ left' = IF shift = None THEN 0 ELSE IF enabled THEN left - 1 ELSE left
  /\ rxWait' = IF rxWait = 0 THEN 0 ELSE rxWait - 1
  /\ UNCHANGED <<enabled, frame, shift, hold, rx, rxFull, status,
                 sent, written, delivered, taken, overrun, acked>>

\* A cycle passes in a chunk of the loop.
Run ==
  /\ sinceTick < TickInterval
  /\ sinceTick' = sinceTick + 1
  /\ left' = IF shift = None THEN 0 ELSE left - 1
  /\ rxWait' = IF rxWait = 0 THEN 0 ELSE rxWait - 1
  /\ UNCHANGED <<enabled, frame, shift, hold, rx, rxFull, status,
                 sent, written, delivered, taken, overrun, acked>>

\* A byte arrives at the receiver: mh_uart_rx_byte.
LinkReady == enabled /\ ~rxFull /\ rxWait = 0
ConsoleReady == ~rxFull

\* Wrong on purpose: the console does not look at the receiver.
LoopDeliversBlindly(from) ==
  LET t == Updated(Transmitter)
  IN /\ sinceTick > 0 /\ sinceTick' = 0
     /\ from \in {"nobody"} \cup (IF LinkReady THEN {"link"} ELSE {}) \cup {"console"}
     /\ from # "nobody" => delivered < MaxDelivered
     /\ delivered' = IF from = "nobody" THEN delivered ELSE delivered + 1
     /\ rx' = delivered'
     /\ rxFull' = (rxFull \/ from # "nobody")
     /\ rxWait' = IF from = "link" THEN frame ELSE rxWait
     /\ SetTransmitter(t, IF from = "nobody" THEN {} ELSE {"RX"})
     /\ UNCHANGED <<enabled, frame, written, taken, overrun>>

\* The end of the loop's iteration: mh_tx39_tick, then the link or the
\* console feeds the receiver.
Loop(from) ==
  LET t == Updated(Transmitter)
      more == from # "nobody"
  IN /\ sinceTick > 0 /\ sinceTick' = 0
     /\ from \in {"nobody"} \cup (IF LinkReady THEN {"link"} ELSE {})
                            \cup (IF ConsoleReady THEN {"console"} ELSE {})
     /\ more => delivered < MaxDelivered
     /\ delivered' = IF more THEN delivered + 1 ELSE delivered
     /\ rx' = IF more THEN delivered + 1 ELSE rx
     /\ rxFull' = (rxFull \/ more)
     /\ rxWait' = IF from = "link" THEN frame ELSE rxWait
     /\ SetTransmitter(t, IF more THEN {"RX"} ELSE {})
     /\ UNCHANGED <<enabled, frame, written, taken, overrun>>

\* The host types between two runs of the loop: runtime.c's key.
HostTypes ==
  /\ ~rxFull
  /\ delivered < MaxDelivered
  /\ delivered' = delivered + 1 /\ rx' = delivered + 1 /\ rxFull' = TRUE
  /\ Raise({"RX"}) /\ Forget({"RX"}, {})
  /\ UNCHANGED <<enabled, frame, transmitter, rxWait, sinceTick,
                 sent, written, taken, overrun>>

Guest ==
  \/ \E enable \in BOOLEAN : WriteCtrl1(enable)
  \/ ReadCtrl1
  \/ \E f \in Frames : WriteCtrl2(f)
  \/ WriteTxHold(written + 1)
  \/ ReadRxHold
  \/ \E irqs \in SUBSET Irqs : ClearInterrupts(irqs)

LoopStep == \E from \in {"nobody", "link", "console"} : Loop(from)

Next == Run \/ LoopStep \/ HostTypes \/ Guest

Spec == Init /\ [][Next]_vars

\* mh_machine_run alternates chunks and ticks for as long as the host runs it.
FairSpec == Spec /\ WF_vars(Run) /\ WF_vars(LoopStep)

-----------------------------------------------------------------------------
Waiting(b) == IF b = None THEN <<>> ELSE <<b>>

\* Bytes reach the host once each and in the order the guest wrote them, and
\* none is missing unless an overrun was signalled, however the writes, the
\* reads of CTRL1, mode changes and the loop's ticks interleave.
NoSilentTxLoss ==
  LET wire == sent \o Waiting(shift) \o Waiting(hold)
  IN /\ \A i, j \in DOMAIN wire : i < j => wire[i] < wire[j]
     /\ ~overrun => Len(wire) = written

\* The receiver is never overwritten: every byte delivered was read or is the
\* one that waits to be (machine.c and runtime.c look before they deliver).
RxNeverOverwritten == delivered - taken = IF rxFull THEN 1 ELSE 0

\* An event stays latched until the guest acknowledges it: room behind a byte
\* on the wire, a transmitter that ran empty, a byte that waits.
NoLostUartEvent ==
  /\ shift # None /\ hold = None => "TX" \in status \cup acked
  /\ shift = None /\ written > 0 => "EMPTY" \in status \cup acked
  /\ rxFull => "RX" \in status \cup acked

\* A byte the guest wrote leaves for the host whatever the guest does next.
TransmitterDrains == (hold # None) ~> (hold = None)

=============================================================================
