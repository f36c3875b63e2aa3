------------------------------- MODULE DialUp -------------------------------
(***************************************************************************)
(* The modem and PPP endpoint behind the serial line of a 68k guest        *)
(* (host/ppp.c), and a guest that dials, negotiates LCP and IPCP, tries    *)
(* the network, and hangs up and dials again when it gets nowhere.  No     *)
(* guest program has been seen to do this (68K_NETWORKING.md): the guest   *)
(* here is the peer RFC 1661 describes, with its restart timer.            *)
(*                                                                         *)
(* Lines carry whole frames and lines of text; a frame that loses a byte   *)
(* on the way is dropped by its checksum.  Options are one value per       *)
(* request: of the host's, the guest may ask for another; of the guest's,  *)
(* "bad" is rejected, "wrong" corrected and "good" accepted.               *)
(***************************************************************************)
EXTENDS Integers, Sequences

CONSTANTS Ids,          \* 256: the modulus of request identifiers
          RingFrames,   \* frames the transmit ring holds
          MaxLost, MaxRepeats, MaxNaks, MaxIp   \* bounds

ASSUME DialUpAssumption ==
  /\ Ids \in Nat /\ Ids > 1 /\ RingFrames \in Nat \ {0}
  /\ {MaxLost, MaxRepeats, MaxNaks, MaxIp} \subseteq Nat

Protos == {"LCP", "IPCP"}
HostValues == {"ours", "theirs"}
Values == HostValues \cup {"bad", "wrong", "good"}
Codes == {"req", "ack", "nak", "rej", "termreq", "termack"}

VARIABLES host,    \* struct mh_ppp
          out,     \* its transmit ring
          line,    \* what is on its way from the guest
          guest,   \* the guest's modem script and PPP
          used     \* how much of each bound is used up

vars == <<host, out, line, guest, used>>

Frames == [proto : Protos, code : Codes, id : 0..(Ids - 1), val : Values]
Packet == [proto |-> "IPv4"]
Text(s) == [proto |-> "text", say |-> s]
Dials == {Text("ATD"), Text("ATE0D")}
Frame(p, code, id, val) == [proto |-> p, code |-> code, id |-> id, val |-> val]

HostType == [mode : {"command", "data"}, echo : BOOLEAN,
             junk : BOOLEAN,                        \* the command line holds no command
             sent : [Protos -> BOOLEAN],            \* lcp_sent, ipcp_sent
             local : [Protos -> BOOLEAN],           \* the guest acknowledged
             peer : [Protos -> BOOLEAN],            \* the guest was acknowledged
             id : [Protos -> 0..(Ids - 1)],
             val : [Protos -> HostValues],            \* lcp_mru; ip_peer
             req : [proto : Protos, id : 0..(Ids - 1), val : HostValues], \* the one request kept
             owes : BOOLEAN]                        \* the network has an answer

GuestType == [phase : {"hook", "dialing", "LCP", "IPCP", "up", "closing"},
              id : 0..(Ids - 1), ask : {"bad", "wrong", "good"},
              acked : BOOLEAN,                      \* the host took its request
              gave : [Protos -> HostValues \cup {"none"}],    \* the host's value it took
              tries : 0..2,                         \* of the restart counter
              answered : BOOLEAN]

TypeOK ==
  /\ host \in HostType /\ guest \in GuestType
  /\ out \in Seq(Frames \cup {Packet, Text("CONNECT"), Text("NO CARRIER")})
  /\ Len(out) <= RingFrames
  /\ line \in Seq(Frames \cup {Packet} \cup Dials)
  /\ used \in [lost : 0..MaxLost, repeats : 0..MaxRepeats, naks : 0..MaxNaks, ip : 0..MaxIp]

Each(x) == [p \in Protos |-> x]

Init ==
  /\ host = [mode |-> "command", echo |-> TRUE, junk |-> FALSE,
             sent |-> Each(FALSE), local |-> Each(FALSE), peer |-> Each(FALSE),
             id |-> Each(0), val |-> Each("ours"),
             req |-> [proto |-> "LCP", id |-> 0, val |-> "ours"], owes |-> FALSE]
  /\ out = <<>> /\ line = <<>>
  /\ guest = [phase |-> "hook", id |-> 0, ask |-> "good", acked |-> FALSE,
              gave |-> Each("none"), tries |-> 0, answered |-> FALSE]
  /\ used = [lost |-> 0, repeats |-> 0, naks |-> 0, ip |-> 0]

-----------------------------------------------------------------------------
\* The endpoint, on e = [h |-> host, out |-> out].

\* send_frame and serial_text: what the ring has no room for is dropped.
Push(e, m) == IF Len(e.out) < RingFrames THEN [e EXCEPT !.out = Append(@, m)] ELSE e

\* send_configure: the one request kept is the last one sent.
Configure(e, p) ==
  LET id == (e.h.id[p] + 1) % Ids
  IN Push([e EXCEPT !.h.id[p] = id, !.h.sent[p] = TRUE,
                    !.h.req = [proto |-> p, id |-> id, val |-> e.h.val[p]]],
          Frame(p, "req", id, e.h.val[p]))

\* Wrong on purpose: only the guest's acknowledgement starts the second layer.
ContinueAckOnly(e) == IF e.h.sent["LCP"] THEN e ELSE Configure(e, "LCP")

\* What follows when the guest's LCP request is accepted.
Continue(e) ==
  LET first == IF e.h.sent["LCP"] THEN e ELSE Configure(e, "LCP")
  IN IF first.h.local["LCP"] /\ ~first.h.sent["IPCP"] THEN Configure(first, "IPCP") ELSE first

\* configure_request.
TakeRequest(e, m) ==
  LET reply(code, val) == Push(e, Frame(m.proto, code, m.id, val))
      accepted == [reply("ack", m.val) EXCEPT !.h.peer[m.proto] = TRUE]
  IN CASE m.val = "bad" -> reply("rej", "bad")
       [] m.val = "wrong" -> reply("nak", "good")
       [] OTHER -> IF m.proto = "LCP" THEN Continue(accepted) ELSE accepted

\* An acknowledgement counts for the request that is kept, byte for byte.
Answers(e, m) ==
  e.h.sent[m.proto] /\ e.h.req = [proto |-> m.proto, id |-> m.id, val |-> m.val]

\* Wrong on purpose: the acknowledgement waits for the guest's own request.
TakeAckInOrder(e, m) ==
  IF ~Answers(e, m) \/ ~e.h.peer[m.proto] THEN e
  ELSE LET e2 == [e EXCEPT !.h.local[m.proto] = TRUE]
       IN IF m.proto = "LCP" /\ ~e2.h.sent["IPCP"] THEN Configure(e2, "IPCP") ELSE e2

TakeAck(e, m) ==
  IF ~Answers(e, m) THEN e
  ELSE LET e2 == [e EXCEPT !.h.local[m.proto] = TRUE]
       IN IF m.proto = "LCP" /\ e2.h.peer["LCP"] /\ ~e2.h.sent["IPCP"]
          THEN Configure(e2, "IPCP") ELSE e2

\* Wrong on purpose: the guest's value is taken, and the request not repeated.
TakeNakQuietly(e, m) ==
  IF m.id = e.h.req.id /\ e.h.sent[m.proto]
  THEN [e EXCEPT !.h.val[m.proto] = m.val] ELSE e

\* Wrong on purpose: the request is repeated before the value is changed.
TakeNakLate(e, m) ==
  IF m.id = e.h.req.id /\ e.h.sent[m.proto]
  THEN [Configure(e, m.proto) EXCEPT !.h.val[m.proto] = m.val] ELSE e

TakeNak(e, m) ==
  IF m.id = e.h.req.id /\ e.h.sent[m.proto]
  THEN Configure([e EXCEPT !.h.val[m.proto] = m.val], m.proto) ELSE e

HangUp(e) ==
  Push([e EXCEPT !.h.sent = Each(FALSE), !.h.local = Each(FALSE),
                 !.h.peer = Each(FALSE), !.h.mode = "command"], Text("NO CARRIER"))

TakeTerminate(e, m) ==
  LET acked == Push(e, Frame(m.proto, "termack", m.id, m.val))
  IN IF m.proto = "LCP" THEN HangUp(acked)
     ELSE [acked EXCEPT !.h.sent["IPCP"] = FALSE, !.h.local["IPCP"] = FALSE,
                        !.h.peer["IPCP"] = FALSE]

StartDial(e) ==
  Configure(Push([e EXCEPT !.h.mode = "data", !.h.sent = Each(FALSE),
                           !.h.local = Each(FALSE), !.h.peer = Each(FALSE)],
                 Text("CONNECT")), "LCP")

\* at_command: a line that does not begin with AT is not answered.
TakeLine(e, m) ==
  LET cleared == [e EXCEPT !.h.junk = FALSE]
  IN IF e.h.junk THEN cleared
     ELSE StartDial([cleared EXCEPT !.h.echo = @ /\ m # Text("ATE0D")])

\* Bytes of a frame in command mode: they begin no command and are echoed.
TakeStray(e, m) ==
  LET stray == [e EXCEPT !.h.junk = TRUE]
  IN IF e.h.echo THEN Push(stray, m) ELSE stray

Open(h) == \A p \in Protos : h.local[p] /\ h.peer[p]

Take(e, m) ==
  CASE e.h.mode = "command" -> IF m \in Dials THEN TakeLine(e, m) ELSE TakeStray(e, m)
    [] e.h.mode = "data" /\ m \in Dials -> e
    [] e.h.mode = "data" /\ m = Packet -> IF Open(e.h) THEN [e EXCEPT !.h.owes = TRUE] ELSE e
    [] OTHER -> CASE m.code = "req" -> TakeRequest(e, m)
                  [] m.code = "ack" -> TakeAck(e, m)
                  [] m.code = "nak" -> TakeNak(e, m)
                  [] m.code = "termreq" -> TakeTerminate(e, m)
                  [] OTHER -> e

HostTakes ==
  /\ line # <<>>
  /\ LET e == Take([h |-> host, out |-> out], Head(line)) IN host' = e.h /\ out' = e.out
  /\ line' = Tail(line)
  /\ UNCHANGED <<guest, used>>

\* slirp_receive: a packet for the guest, whatever state the link is in.
NetworkAnswers ==
  /\ host.owes
  /\ host' = [host EXCEPT !.owes = FALSE]
  /\ out' = Push([h |-> host, out |-> out], Packet).out
  /\ UNCHANGED <<line, guest, used>>

NetworkSends ==
  /\ guest.answered /\ used.ip < MaxIp
  /\ out' = Push([h |-> host, out |-> out], Packet).out
  /\ used' = [used EXCEPT !.ip = @ + 1]
  /\ UNCHANGED <<host, line, guest>>

\* The guest resets its receiver or its transmitter in the middle of a frame
\* (Mc68349Duart::command_a).  A lost CONNECT is left out: the endpoint, in data
\* mode until a Terminate-Request, would never hear the guest dial again.
FrameLost ==
  /\ used.lost < MaxLost
  /\ used' = [used EXCEPT !.lost = @ + 1]
  /\ \/ /\ out # <<>> /\ Head(out) # Text("CONNECT")
        /\ out' = Tail(out) /\ line' = line
     \/ line # <<>> /\ line' = Tail(line) /\ out' = out
  /\ UNCHANGED <<host, guest>>

-----------------------------------------------------------------------------
\* The guest (external): its modem script and its PPP.

Request(g) == Frame(g.phase, "req", g.id, g.ask)
Closing(g) == Frame("LCP", "termreq", g.id, "good")

\* The guests that begin a layer, each with a request of its choice.
Beginning(g, phase) ==
  {[g EXCEPT !.phase = phase, !.id = (@ + 1) % Ids, !.ask = ask, !.acked = FALSE, !.tries = 0] :
     ask \in {"bad", "good"} \cup (IF phase = "IPCP" THEN {"wrong"} ELSE {})}

\* What a guest that has become g and sends frames m may do: a layer is open
\* when both of its requests are acknowledged.
Onward(g, m) ==
  IF ~g.acked \/ g.gave[g.phase] = "none" THEN {<<g, m>>}
  ELSE IF g.phase = "IPCP" THEN {<<[g EXCEPT !.phase = "up", !.tries = 0], m>>}
  ELSE {<<n, Append(m, Request(n))>> : n \in Beginning(g, "IPCP")}

\* The host never asks for a layer the guest has open again.
TakesRequest(m) ==
  Onward([guest EXCEPT !.gave[m.proto] = m.val], <<Frame(m.proto, "ack", m.id, m.val)>>)

TakesAnswer(m) ==
  IF m.id # guest.id \/ guest.acked THEN {<<guest, <<>>>>}
  ELSE IF m.code = "ack" THEN Onward([guest EXCEPT !.acked = TRUE], <<>>)
  ELSE LET g == [guest EXCEPT !.id = (@ + 1) % Ids, !.ask = "good"] IN {<<g, <<Request(g)>>>>}

OnHook(g) == [g EXCEPT !.phase = "hook", !.tries = 0, !.answered = FALSE]

Outcomes(m) ==
  CASE m = Text("CONNECT") /\ guest.phase = "dialing" ->
         {<<g, <<Request(g)>>>> : g \in Beginning([guest EXCEPT !.gave = Each("none")], "LCP")}
    [] m = Text("NO CARRIER") /\ guest.phase # "dialing" -> {<<OnHook(guest), <<>>>>}
    [] m = Packet /\ guest.phase = "up" -> {<<[guest EXCEPT !.answered = TRUE], <<>>>>}
    [] m \in Frames /\ m.proto = guest.phase /\ m.code = "req" -> TakesRequest(m)
    [] m \in Frames /\ m.proto = guest.phase /\ m.code \in {"ack", "nak", "rej"} -> TakesAnswer(m)
    [] m \in Frames /\ m.code = "termack" /\ guest.phase = "closing" -> {<<OnHook(guest), <<>>>>}
    [] OTHER -> {<<guest, <<>>>>}

GuestTakes ==
  /\ out # <<>> /\ out' = Tail(out)
  /\ \E r \in Outcomes(Head(out)) : guest' = r[1] /\ line' = line \o r[2]
  /\ UNCHANGED <<host, used>>

\* It asks for another value of the host's option.
GuestNaks ==
  /\ out # <<>> /\ used.naks < MaxNaks
  /\ LET m == Head(out)
     IN /\ m \in Frames /\ m.proto = guest.phase /\ m.code = "req" /\ m.val = "ours"
        /\ line' = Append(line, Frame(m.proto, "nak", m.id, "theirs"))
  /\ out' = Tail(out) /\ used' = [used EXCEPT !.naks = @ + 1]
  /\ UNCHANGED <<host, guest>>

Quiet == out = <<>> /\ line = <<>> /\ ~host.owes

GuestDials ==
  /\ guest.phase \in {"hook", "dialing"} /\ Quiet
  /\ guest' = [guest EXCEPT !.phase = "dialing"]
  /\ \E cmd \in Dials : line' = <<cmd>>
  /\ UNCHANGED <<host, out, used>>

GuestCloses ==
  /\ guest' = [guest EXCEPT !.phase = "closing", !.id = (@ + 1) % Ids, !.tries = 1,
                            !.answered = FALSE]
  /\ line' = Append(line, Closing(guest'))

\* The restart timer, with nothing on its way: ask again, or give up.
GuestTimesOut ==
  /\ Quiet
  /\ IF guest.phase \in Protos /\ guest.tries < 2
     THEN /\ guest' = [guest EXCEPT !.tries = @ + 1, !.acked = FALSE]
          /\ line' = <<Request(guest)>>
     ELSE IF guest.phase = "up" /\ guest.tries < 2
     THEN guest' = [guest EXCEPT !.tries = @ + 1] /\ line' = <<Packet>>
     ELSE IF guest.phase \in Protos \cup {"up"} THEN GuestCloses
     ELSE /\ guest.phase = "closing"
          /\ IF guest.tries < 2
             THEN guest' = [guest EXCEPT !.tries = @ + 1] /\ line' = <<Closing(guest)>>
             ELSE guest' = OnHook(guest) /\ line' = line
  /\ ~guest.answered
  /\ UNCHANGED <<host, out, used>>

\* The timer runs out with the answer still on its way.
GuestRepeats ==
  /\ guest.phase \in Protos /\ ~guest.acked /\ used.repeats < MaxRepeats
  /\ line' = Append(line, Request(guest))
  /\ used' = [used EXCEPT !.repeats = @ + 1]
  /\ UNCHANGED <<host, out, guest>>

GuestHangsUp ==
  /\ guest.phase = "up" /\ guest.answered /\ GuestCloses
  /\ UNCHANGED <<host, out, used>>

Next == \/ HostTakes \/ NetworkAnswers \/ NetworkSends \/ FrameLost
        \/ GuestTakes \/ GuestNaks \/ GuestDials \/ GuestTimesOut \/ GuestRepeats
        \/ GuestHangsUp

Spec == Init /\ [][Next]_vars

\* The machine drains both directions whenever the guest runs, the stack behind
\* the endpoint answers, and the guest reads its serial line, dials and times out.
FairSpec == Spec /\ WF_vars(HostTakes) /\ WF_vars(NetworkAnswers) /\ WF_vars(GuestTakes)
                 /\ WF_vars(GuestDials) /\ WF_vars(GuestTimesOut)

-----------------------------------------------------------------------------
\* A layer the endpoint holds acknowledged is open with the value the guest
\* took in this call, whatever it was asked for before (the copy of the last
\* request that control_packet compares an acknowledgement with).
Agreement == \A p \in Protos : host.local[p] => guest.gave[p] = host.val[p]

\* One buffer keeps the last request of both layers: while a layer waits for
\* its acknowledgement that buffer is still its own, with the value to be used.
KeptRequestIsTheOneAwaited ==
  \A p \in Protos :
    host.sent[p] /\ ~host.local[p] =>
      host.req = [proto |-> p, id |-> host.id[p], val |-> host.val[p]]

\* Both ends keep their types, and the endpoint its request.
RequestOK == TypeOK /\ KeptRequestIsTheOneAwaited

\* In either order of the four acknowledgements, with no frame lost: a guest
\* that has both layers open meets an endpoint that has, once all is delivered.
UpAtBothEnds ==
  guest.phase = "up" /\ line = <<>> /\ used.lost = 0 => Open(host)

\* The endpoint never asks a second time and a frame of it may be lost: the
\* guest's hanging up and dialling again is enough to reach the network, if
\* CONNECT is not lost and one of the guest's two Terminate-Requests arrives.
Connects == []<>guest.answered
=============================================================================
