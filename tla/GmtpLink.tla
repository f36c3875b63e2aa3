------------------------------ MODULE GmtpLink ------------------------------
(***************************************************************************)
(* The package link to a 68k guest (host/pclink.c): commands cut into GMTP *)
(* messages, a send window with cumulative acknowledgements whose numbers  *)
(* wrap, and the conversation Cnct - Cntd, SPkg - Send, SBuf..SndX - Pong. *)
(* The host never sends a message twice; the guest does when an answer is  *)
(* late.  The guest's side is what pclink.c expects of it.                 *)
(*                                                                         *)
(* A frame to the guest arrives when its last byte is taken from the queue *)
(* (the UART waits for room); a frame to the host carries one PDU, and one *)
(* that arrives damaged is dropped.                                        *)
(***************************************************************************)
EXTENDS Integers, SequencesExt

CONSTANTS PackageParts,    \* the messages of SBuf .. SndX
          Windows,         \* 3 on a direct link (HIX), otherwise 1
          Wrap,            \* the modulus of message numbers: 65536
          MaxFailures,     \* bound on allocations that fail
          MaxLost,         \* bound on damaged frames
          MaxRepeats,      \* bound on messages the guest sends again
          MaxPings,        \* bound on pings before the package is acknowledged
          Chatter,         \* commands the guest may send unasked ...
          MaxChatter       \* ... and how many of them

ASSUME LinkAssumption ==
  /\ PackageParts \in Nat \ {0}
  /\ Windows \subseteq {1, 3}
  /\ Wrap \in Nat /\ \A w \in Windows : Wrap > w
  /\ Chatter \subseteq {"Ping", "Cnct", "Send", "GBye", "Abrt"}
  /\ {MaxFailures, MaxLost, MaxRepeats, MaxPings, MaxChatter} \subseteq Nat

VARIABLES host,     \* struct mh_pclink
          out,      \* queue out: frames ready for the wire
          pending,  \* queue ppp_pending: messages the window holds back
          guest,    \* the guest's end of the link
          wire,     \* frames on their way to the host
          used      \* how much of each bound is used up

vars == <<host, out, pending, guest, wire, used>>

Part(i) == <<"part", i>>
Package == [i \in 1..PackageParts |-> Part(i)]
HostCommands == {"Cntd", "SPkg", "Ping", "Pong"} \X {0} \cup {Part(i) : i \in 1..PackageParts}
GuestCommands == {"Cnct", "Send", "Ping", "Pong", "GBye", "Abrt"}

\* A command of a single message.
Single(tag) == <<tag, 0>>

Messages(cmds) == [kind : {"msg"}, number : 0..(Wrap - 1), cmd : cmds]
Acks == [kind : {"ack"}, number : 0..(Wrap - 1)]

HostType == [window : Windows,
             state : {"WAITING", "CONNECTED", "SENDING", "DONE", "FAILED"},
             offered : BOOLEAN,       \* the offer has been queued
             packageSent : BOOLEAN, packageAcked : BOOLEAN, packageEnd : Nat,
             block : Nat,             \* messages numbered so far
             sent : Nat, acked : Nat, \* messages on the wire, acknowledged
             received : Nat]          \* messages taken from the guest

GuestType == [got : Nat,              \* messages taken from the host
              acked : Nat,            \* of those, acknowledged
              asked : BOOLEAN,        \* it was offered a package
              parts : Seq(1..PackageParts),
              outbox : Seq(GuestCommands), \* the head is on the wire
              sent : Nat, answered : Nat]  \* messages sent, acknowledged

TypeOK ==
  /\ host \in HostType
  /\ out \in Seq(Messages(HostCommands) \cup Acks)
  /\ pending \in Seq(Messages(HostCommands))
  /\ guest \in GuestType
  /\ wire \in Seq(Messages(GuestCommands) \cup Acks)
  /\ used \in [failures : 0..MaxFailures, lost : 0..MaxLost,
               repeats : 0..MaxRepeats, pings : 0..MaxPings,
               chatter : 0..MaxChatter]

Init ==
  /\ host \in [window : Windows, state : {"WAITING"}, offered : {FALSE},
               packageSent : {FALSE}, packageAcked : {FALSE}, packageEnd : {0},
               block : {0}, sent : {0}, acked : {0}, received : {0}]
  /\ out = <<>> /\ pending = <<>>
  /\ guest = [got |-> 0, acked |-> 0, asked |-> FALSE, parts |-> <<>>,
              outbox |-> <<"Cnct">>, sent |-> 0, answered |-> 0]
  /\ wire = <<>>
  /\ used = [failures |-> 0, lost |-> 0, repeats |-> 0, pings |-> 0, chatter |-> 0]

-----------------------------------------------------------------------------
\* The host's end as one value, for operations in sequence.
End == [host |-> host, out |-> out, pending |-> pending]

Becomes(e) == host' = e.host /\ out' = e.out /\ pending' = e.pending

Failed(e) == [e EXCEPT !.host.state = "FAILED"]

Least(a, b) == IF a < b THEN a ELSE b
\* Wrong on purpose, as are the definitions so marked below: <= for <.
RoomPlusOne(e) == e.host.window + 1 - (e.host.sent - e.host.acked)
Room(e) == e.host.window - (e.host.sent - e.host.acked)

\* An allocation that fails on the way of message at of an operation: loud
\* when the command itself cannot be built, which fails the link; silent in
\* emit_ppp, where the message's number is spent and nobody is told.
NoFault == [at |-> 0, loud |-> FALSE]
Faults == {NoFault} \cup
          IF used.failures < MaxFailures
          THEN [at : 1..(PackageParts + 2), loud : BOOLEAN] ELSE {}

Charge(fault) ==
  used' = IF fault = NoFault THEN used ELSE [used EXCEPT !.failures = @ + 1]

\* emit_ppp and ppp_queue_wire: number the messages, send what the window
\* admits and hold the rest back.
EmitAll(e, cmds) ==
  LET number == [i \in DOMAIN cmds |-> [kind |-> "msg", cmd |-> cmds[i],
                                        number |-> (e.host.block + i - 1) % Wrap]]
      now == Least(Room(e), Len(cmds))
  IN [host |-> [e.host EXCEPT !.block = @ + Len(cmds), !.sent = @ + now],
      out |-> e.out \o SubSeq(number, 1, now),
      pending |-> e.pending \o SubSeq(number, now + 1, Len(cmds))]

\* command, for one command or several of which a failure ends the sequence.
Emit(e, cmds, fault) ==
  IF fault.at \notin 1..Len(cmds) THEN EmitAll(e, cmds)
  ELSE LET before == EmitAll(e, SubSeq(cmds, 1, fault.at - 1))
       IN IF fault.loud THEN Failed(before)
          ELSE [before EXCEPT !.host.block = @ + 1]

Emitted(cmds, fault) == fault.at \notin 1..Len(cmds)

After(fault, n) == [fault EXCEPT !.at = IF @ > n THEN @ - n ELSE 0]

\* Two greetings and the offer.  A greeting that could not be built is not
\* noticed: the state is set whatever became of it.
Cnct(e, fault) ==
  IF e.host.offered THEN e
  ELSE LET once == Emit(e, <<Single("Cntd")>>, fault)
           twice == Emit(once, <<Single("Cntd")>>, After(fault, 1))
           linked == [twice EXCEPT !.host.state = "CONNECTED",
                                   !.host.offered = TRUE]
           offer == Emit(linked, <<Single("SPkg")>>, After(fault, 2))
       IN IF Emitted(<<Single("SPkg")>>, After(fault, 2))
          THEN [offer EXCEPT !.host.state = "SENDING"] ELSE offer

\* Wrong on purpose: the end of the package is noted before it is numbered.
SendEarlyEnd(e, fault) ==
  IF e.host.packageSent THEN e
  ELSE Emit([e EXCEPT !.host.packageSent = TRUE, !.host.packageEnd = e.host.block],
            Package, fault)

Send(e, fault) ==
  IF e.host.packageSent THEN e
  ELSE LET parts == Emit([e EXCEPT !.host.packageSent = TRUE], Package, fault)
       IN IF Emitted(Package, fault)
          THEN [parts EXCEPT !.host.packageEnd = parts.host.block] ELSE parts

Pong(e) ==
  IF e.host.state = "SENDING" /\ e.host.packageAcked
  THEN [e EXCEPT !.host.state = "DONE"] ELSE e

HungUp(e) == IF e.host.state = "DONE" THEN e ELSE Failed(e)

Handle(e, cmd, fault) ==
  CASE cmd = "Cnct" -> Cnct(e, fault)
    [] cmd = "Send" -> Send(e, fault)
    [] cmd = "Ping" -> Emit(e, <<Single("Pong")>>, fault)
    [] cmd = "Pong" -> Pong(e)
    [] OTHER -> HungUp(e)

\* Wrong on purpose: the number is taken for that of the last message taken.
AckedInclusive(e, next, fault) ==
  LET advance == (next + 1 - e.host.acked) % Wrap
  IN IF advance \notin 1..(e.host.sent - e.host.acked) THEN e
     ELSE [e EXCEPT !.host.acked = @ + advance]

\* Wrong on purpose: the messages held back stay where they are.
AckedNoRefill(e, next, fault) ==
  LET advance == (next - e.host.acked) % Wrap
  IN IF advance \notin 1..(e.host.sent - e.host.acked) THEN e
     ELSE [e EXCEPT !.host.acked = @ + advance,
                    !.host.packageAcked =
                       @ \/ (e.host.packageSent /\ e.host.acked + advance >= e.host.packageEnd)]

\* ppp_acked: what a cumulative acknowledgement admits moves from pending to
\* the wire; running out of memory on the way fails the link.
Acked(e, next, fault) ==
  LET advance == (next - e.host.acked) % Wrap
      acked == e.host.acked + advance
      taken == [e EXCEPT !.host.acked = acked,
                         !.host.packageAcked =
                            @ \/ (e.host.packageSent /\ acked >= e.host.packageEnd)]
      fits == Least(Room(taken), Len(e.pending))
      moved == IF fault.at \in 1..fits THEN fault.at - 1 ELSE fits
      refilled == [taken EXCEPT !.host.sent = @ + moved,
                                !.out = @ \o SubSeq(e.pending, 1, moved),
                                !.pending = SubSeq(@, moved + 1, Len(@))]
  IN IF advance \notin 1..(e.host.sent - e.host.acked) THEN e
     ELSE IF moved < fits THEN Failed(refilled) ELSE refilled

-----------------------------------------------------------------------------
\* Frames from the guest, in the order the serial line keeps.

HostTakesAck ==
  /\ wire # <<>> /\ Head(wire).kind = "ack"
  /\ host.state # "FAILED"
  /\ wire' = Tail(wire)
  /\ \E fault \in Faults : Becomes(Acked(End, Head(wire).number, fault)) /\ Charge(fault)
  /\ UNCHANGED guest

\* Whatever arrives is acknowledged by the number of the message wanted
\* next; only that message is acted upon.
HostTakesMessage ==
  /\ wire # <<>> /\ Head(wire).kind = "msg"
  /\ host.state # "FAILED"
  /\ wire' = Tail(wire)
  /\ LET fresh == Head(wire).number = host.received % Wrap
         received == host.received + (IF fresh THEN 1 ELSE 0)
         counted == [End EXCEPT !.host.received = received]
         answered == [counted EXCEPT
                        !.out = Append(@, [kind |-> "ack", number |-> received % Wrap])]
     IN \/ \E fault \in Faults :
             /\ Becomes(IF fresh THEN Handle(answered, Head(wire).cmd, fault)
                                 ELSE answered)
             /\ Charge(fault)
        \/ \* no memory for the acknowledgement
           /\ used.failures < MaxFailures
           /\ Becomes(Failed(counted))
           /\ used' = [used EXCEPT !.failures = @ + 1]
  /\ UNCHANGED guest

\* A failed link does not listen.
HostIgnores ==
  /\ wire # <<>> /\ host.state = "FAILED"
  /\ wire' = Tail(wire)
  /\ UNCHANGED <<host, out, pending, guest, used>>

FrameDamaged ==
  /\ wire # <<>> /\ used.lost < MaxLost
  /\ wire' = Tail(wire)
  /\ used' = [used EXCEPT !.lost = @ + 1]
  /\ UNCHANGED <<host, out, pending, guest>>

\* The UART asks for a byte and there is nothing to send, for long enough.
HostPings ==
  /\ out = <<>> /\ host.sent = host.acked
  /\ host.state \in {"CONNECTED", "SENDING"}
  /\ \/ used.pings < MaxPings
     \/ host.packageAcked /\ ~Contains(guest.outbox, "Pong")
  /\ \E fault \in Faults :
       /\ Becomes(Emit(End, <<Single("Ping")>>, fault))
       /\ used' = [used EXCEPT !.pings = Least(@ + 1, MaxPings),
                               !.failures = @ + (IF fault = NoFault THEN 0 ELSE 1)]
  /\ UNCHANGED <<guest, wire>>

-----------------------------------------------------------------------------
\* The guest (external): takes messages in order, acknowledges them when it
\* likes, and sends one message at a time, again if the answer is late.

GuestAnswers(g, cmd) ==
  CASE cmd = Single("SPkg") -> [g EXCEPT !.asked = TRUE, !.outbox = Append(@, "Send")]
    [] cmd = Single("Ping") -> [g EXCEPT !.outbox = Append(@, "Pong")]
    [] cmd[1] = "part" -> [g EXCEPT !.parts = Append(@, cmd[2])]
    [] OTHER -> g

GuestTakes(g, frame) ==
  IF frame.kind = "ack"
  THEN IF g.sent > g.answered /\ frame.number = g.sent % Wrap
       THEN [g EXCEPT !.answered = g.sent, !.outbox = Tail(@)] ELSE g
  ELSE IF frame.number = g.got % Wrap
       THEN GuestAnswers([g EXCEPT !.got = @ + 1], frame.cmd) ELSE g

\* mh_pclink_to_guest, over all the bytes of a frame.
HostSends ==
  /\ out # <<>>
  /\ out' = Tail(out)
  /\ guest' = GuestTakes(guest, Head(out))
  /\ UNCHANGED <<host, pending, wire, used>>

GuestAcknowledges ==
  /\ guest.acked < guest.got
  /\ wire' = Append(wire, [kind |-> "ack", number |-> guest.got % Wrap])
  /\ guest' = [guest EXCEPT !.acked = guest.got]
  /\ UNCHANGED <<host, out, pending, used>>

Message(number) == [kind |-> "msg", number |-> number % Wrap, cmd |-> Head(guest.outbox)]

GuestSends ==
  /\ guest.outbox # <<>> /\ guest.sent = guest.answered
  /\ wire' = Append(wire, Message(guest.sent))
  /\ guest' = [guest EXCEPT !.sent = @ + 1]
  /\ UNCHANGED <<host, out, pending, used>>

GuestRepeats ==
  /\ guest.sent > guest.answered /\ used.repeats < MaxRepeats
  /\ wire' = Append(wire, Message(guest.sent - 1))
  /\ used' = [used EXCEPT !.repeats = @ + 1]
  /\ UNCHANGED <<host, out, pending, guest>>

GuestSpeaks ==
  /\ used.chatter < MaxChatter
  /\ \E cmd \in Chatter :
       /\ cmd = "Send" => guest.asked
       /\ guest' = [guest EXCEPT !.outbox = Append(@, cmd)]
  /\ used' = [used EXCEPT !.chatter = @ + 1]
  /\ UNCHANGED <<host, out, pending, wire>>

HostTakes == HostTakesAck \/ HostTakesMessage

Next ==
  \/ HostTakes \/ HostIgnores \/ FrameDamaged \/ HostPings \/ HostSends
  \/ GuestAcknowledges \/ GuestSends \/ GuestRepeats \/ GuestSpeaks

Spec == Init /\ [][Next]_vars

\* The machine loop polls the link whenever the guest's receiver is free and
\* hands it every byte the guest transmits; a guest that waits for its
\* package acknowledges and answers.
Fairness ==
  /\ WF_vars(HostTakes) /\ WF_vars(HostPings) /\ WF_vars(HostSends)
  /\ WF_vars(GuestAcknowledges) /\ WF_vars(GuestSends)

FairSpec == Spec /\ Fairness

-----------------------------------------------------------------------------
\* The send window is kept and not jumped: at most a window of messages is
\* unacknowledged, and a message is held back only while that many are
\* (ppp_queue_wire admits new messages by the window alone, so one left in
\* ppp_pending with room in the window would be overtaken).
WindowKept ==
  host.state # "FAILED" =>
    /\ host.sent - host.acked <= host.window
    /\ pending # <<>> => host.sent - host.acked = host.window

\* The link's values keep their types, and its window is kept.
WindowOK == TypeOK /\ WindowKept

\* Neither end counts as acknowledged what the other has not taken, across
\* the wrap of the numbers on the wire (ppp_acked, ppp_frame_received).
AckedWasTaken ==
  /\ host.acked <= guest.got /\ guest.got <= host.block
  /\ guest.answered <= host.received /\ host.received <= guest.sent

\* A link that once ran out of memory promises no more than a failed one.
Transfer == INSTANCE PackageTransfer
            WITH state <- IF used.failures > 0 THEN "FAILED" ELSE host.state,
                 delivered <- guest.parts

\* Memory permitting, the link implements what pclink.h promises of a
\* transfer: every part once and in order, DONE only with all of them, FAILED
\* for good.
Implements == Transfer!Spec

\* With a guest that answers and stays, an intact line and memory enough, the
\* package is installed: neither end waits for the other for good.
Completes ==
  <>(\/ host.state = "DONE"
     \/ used.failures > 0 \/ used.lost > 0
     \/ Contains(guest.outbox, "GBye") \/ Contains(guest.outbox, "Abrt"))

=============================================================================
