---------------------------- MODULE DialUp_proofs ----------------------------
(***************************************************************************)
(* The endpoint and the guest agree, for any modulus of the identifiers,   *)
(* any size of the ring, and however often frames are lost, requests       *)
(* repeated and values refused.                                            *)
(***************************************************************************)
EXTENDS DialUp, SequenceTheorems, TLAPS

Talking(g) == g.phase \in {"LCP", "IPCP", "up"}

\* A request of the host's for a layer is one thing that is passed on: the
\* request in the ring, then what the guest says of it on the line.
Asked(p) == {m \in Frames : m.proto = p /\ m.code = "req"}
Told(p) == {m \in Frames : m.proto = p /\ m.code \in {"ack", "nak"}}
Acks(p) == {m \in Frames : m.proto = p /\ m.code = "ack"}

Free(q, M) == \A i \in 1..Len(q) : q[i] \notin M
Lone(q, M) == \A i, j \in 1..Len(q) : q[i] \in M /\ q[j] \in M => i = j

OneRequest(o, l, p) ==
  /\ Lone(o, Asked(p)) /\ Lone(l, Told(p))
  /\ Free(o, Asked(p)) \/ Free(l, Told(p))

OutMessages == Frames \cup {Packet, Text("CONNECT"), Text("NO CARRIER")}
LineMessages == Frames \cup {Packet} \cup Dials

Awaited(h, p, m) == h.sent[p] /\ ~h.local[p] /\ m.id = h.id[p]

\* What may be in the ring.
OutAllowed(h, g) ==
  {m \in OutMessages :
     /\ h.mode = "data" => \A p \in Protos : m \in Asked(p) => Awaited(h, p, m) /\ m.val = h.val[p]
     /\ Talking(g) => \A p \in Protos : m \in Acks(p) => h.peer[p]}

\* What may be on the line.
LineAllowed(h, g) ==
  {m \in LineMessages :
     /\ m \in Dials => g.phase = "dialing"
     /\ m \in Frames /\ m.code = "termreq" => m.proto = "LCP" /\ g.phase \in {"closing", "hook"}
     /\ m \in Frames /\ m.code = "nak" => m.val = "theirs"
     /\ h.mode = "data" =>
          \A p \in Protos :
            /\ m \in Told(p) => Awaited(h, p, m)
            /\ m \in Acks(p) => m.val = h.val[p] /\ m.val = g.gave[p]}

HostOK(h) ==
  /\ h \in HostType
  /\ h.mode = "data" => h.sent["LCP"]
  /\ h.sent["IPCP"] => h.local["LCP"]
  /\ \A p \in Protos : /\ h.local[p] => h.sent[p]
                       /\ h.mode = "command" => ~h.sent[p]

GuestOK(h, g) ==
  /\ g \in GuestType
  /\ g.answered => g.phase = "up"
  /\ h.mode = "command" => ~Talking(g)
  /\ \A p \in Protos : h.local[p] => g.gave[p] = h.val[p]

\* A guest that dials finds nothing on its way but its dialling and the answer.
DialOK(h, o, l, g) ==
  g.phase = "dialing" =>
    /\ ~h.owes
    /\ \/ o = <<>> /\ (l = <<>> \/ \E m \in Dials : l = <<m>>)
       \/ /\ l = <<>> /\ h.mode = "data" /\ \A p \in Protos : ~h.local[p]
          /\ \/ o = <<Text("CONNECT")>>
             \/ \E m \in Asked("LCP") : o = <<Text("CONNECT"), m>>

Base(h, o, l, g) ==
  /\ HostOK(h) /\ GuestOK(h, g)
  /\ o \in Seq(OutAllowed(h, g)) /\ Len(o) <= RingFrames
  /\ l \in Seq(LineAllowed(h, g))
  /\ h.mode = "data" => \A p \in Protos : OneRequest(o, l, p)
  /\ DialOK(h, o, l, g)

Kept(h) ==
  \A p \in Protos :
    h.sent[p] /\ ~h.local[p] => h.req = [proto |-> p, id |-> h.id[p], val |-> h.val[p]]

\* The layers the guest has come to.
Layers(h, g) ==
  /\ Talking(g) /\ (g.phase # "LCP" \/ g.acked) => h.peer["LCP"]
  /\ Talking(g) /\ g.phase # "LCP" => g.gave["LCP"] # "none"
  /\ g.phase = "up" \/ (g.phase = "IPCP" /\ g.acked) => h.peer["IPCP"]
  /\ g.phase = "up" => g.gave["IPCP"] # "none"

\* With nothing lost, what the guest gave has come to the host or is on the line.
Comes(h, l, g) ==
  Talking(g) => \A p \in Protos : g.gave[p] # "none" => h.local[p] \/ ~Free(l, Acks(p))

UsedOK == used \in [lost : 0..MaxLost, repeats : 0..MaxRepeats, naks : 0..MaxNaks, ip : 0..MaxIp]

IInv ==
  /\ Base(host, out, line, guest) /\ Kept(host) /\ Layers(host, guest)
  /\ used.lost = 0 => Comes(host, line, guest)
  /\ UsedOK

-----------------------------------------------------------------------------
\* Sequences of messages.

LEMMA SeqNarrows ==
  ASSUME NEW S, NEW T, NEW M, NEW q \in Seq(S), Free(q, M), \A m \in S : m \notin M => m \in T
  PROVE  q \in Seq(T)
<1>1. Len(q) \in Nat /\ q \in [1..Len(q) -> S]
  BY LenProperties
<1>2. \A i \in 1..Len(q) : q[i] \in T
  BY <1>1 DEF Free
<1>3. q \in [1..Len(q) -> T]
  BY <1>1, <1>2
<1>4. QED
  BY <1>1, <1>3, SeqDef

LEMMA SeqWidens ==
  ASSUME NEW S, NEW T, NEW q \in Seq(S), \A m \in S : m \in T
  PROVE  q \in Seq(T)
<1>1. Len(q) \in Nat /\ q \in [1..Len(q) -> S]
  BY LenProperties
<1>2. q \in [1..Len(q) -> T]
  BY <1>1
<1>3. QED
  BY <1>1, <1>2, SeqDef

LEMMA TailIs ==
  ASSUME NEW S, NEW q \in Seq(S), q # <<>>
  PROVE  /\ Head(q) \in S /\ Tail(q) \in Seq(S) /\ Len(Tail(q)) = Len(q) - 1
         /\ Len(q) \in Nat /\ Len(q) >= 1 /\ q[1] = Head(q)
         /\ \A i \in 1..Len(Tail(q)) : i + 1 \in 1..Len(q) /\ Tail(q)[i] = q[i + 1]
<1>1. Len(q) \in Nat /\ Len(q) # 0
  BY EmptySeq, LenProperties
<1>2. Head(q) \in S /\ Tail(q) \in Seq(S) /\ Len(Tail(q)) = Len(q) - 1
      /\ \A i \in 1..Len(Tail(q)) : Tail(q)[i] = q[i + 1]
  BY HeadTailProperties
<1>3. q[1] = Head(q)
  OBVIOUS
<1>4. \A i \in 1..Len(Tail(q)) : i + 1 \in 1..Len(q)
  BY <1>1, <1>2
<1>5. QED
  BY <1>1, <1>2, <1>3, <1>4

LEMMA TailHolds ==
  ASSUME NEW S, NEW q \in Seq(S), q # <<>>, NEW M
  PROVE  /\ Free(q, M) => Free(Tail(q), M)
         /\ Lone(q, M) => Lone(Tail(q), M)
         /\ Lone(q, M) /\ Head(q) \in M => Free(Tail(q), M)
         /\ ~Free(q, M) /\ Head(q) \notin M => ~Free(Tail(q), M)
         /\ Head(q) \in M => ~Free(q, M)
<1> DEFINE t == Tail(q)
           n == Len(q)
<1>1. /\ Len(t) = n - 1 /\ n \in Nat /\ n >= 1 /\ q[1] = Head(q)
      /\ \A i \in 1..Len(t) : i + 1 \in 1..n /\ t[i] = q[i + 1]
  BY TailIs
<1> HIDE DEF t, n
<1>2. Free(q, M) => Free(t, M)
  BY <1>1 DEF Free, n
<1>3. ASSUME Lone(q, M) PROVE Lone(t, M)
  <2>1. SUFFICES ASSUME NEW i \in 1..Len(t), NEW j \in 1..Len(t), t[i] \in M, t[j] \in M
                 PROVE  i = j
    BY DEF Lone
  <2>2. i + 1 = j + 1
    BY <1>1, <1>3, <2>1 DEF Lone, n
  <2>3. i \in Int /\ j \in Int
    OBVIOUS
  <2>4. QED
    BY <2>2, <2>3
<1>4. ASSUME Lone(q, M), Head(q) \in M PROVE Free(t, M)
  <2>1. SUFFICES ASSUME NEW i \in 1..Len(t), t[i] \in M PROVE FALSE
    BY DEF Free
  <2>2. 1 \in 1..n /\ i + 1 # 1
    BY <1>1, <2>1
  <2>3. QED
    BY <1>1, <1>4, <2>1, <2>2 DEF Lone, n
<1>5. ASSUME ~Free(q, M), Head(q) \notin M PROVE ~Free(t, M)
  <2>1. PICK i \in 1..n : q[i] \in M
    BY <1>5 DEF Free, n
  <2>2. i # 1
    BY <1>1, <1>5, <2>1
  <2>3. i - 1 \in 1..Len(t) /\ i - 1 + 1 = i
    BY <1>1, <2>1, <2>2
  <2>4. t[i - 1] \in M
    BY <1>1, <2>1, <2>3
  <2>5. QED
    BY <2>3, <2>4 DEF Free
<1>6. Head(q) \in M => ~Free(q, M)
  <2>1. 1 \in 1..n
    BY <1>1
  <2>2. QED
    BY <1>1, <2>1 DEF Free, n
<1>7. QED
  BY <1>2, <1>3, <1>4, <1>5, <1>6 DEF t

LEMMA AppendHolds ==
  ASSUME NEW S, NEW q \in Seq(S), NEW m \in S, NEW M
  PROVE  /\ Append(q, m) \in Seq(S) /\ Len(Append(q, m)) = Len(q) + 1
         /\ m \notin M /\ Free(q, M) => Free(Append(q, m), M)
         /\ m \notin M /\ Lone(q, M) => Lone(Append(q, m), M)
         /\ Free(q, M) => Lone(Append(q, m), M)
         /\ m \in M \/ ~Free(q, M) => ~Free(Append(q, m), M)
<1> DEFINE r == Append(q, m)
           n == Len(q)
<1>1. /\ n \in Nat /\ r \in Seq(S) /\ Len(r) = n + 1
      /\ r[n + 1] = m /\ \A i \in 1..n : r[i] = q[i]
  BY AppendProperties, LenProperties
<1> HIDE DEF r, n
<1>2. \A i \in 1..Len(r) : i = n + 1 \/ (i \in 1..n /\ r[i] = q[i])
  BY <1>1
<1>3. m \notin M /\ Free(q, M) => Free(r, M)
  BY <1>1, <1>2 DEF Free, n
<1>4. m \notin M /\ Lone(q, M) => Lone(r, M)
  BY <1>1, <1>2 DEF Lone, n
<1>5. Free(q, M) => Lone(r, M)
  BY <1>1, <1>2 DEF Lone, Free, n
<1>6. m \in M \/ ~Free(q, M) => ~Free(r, M)
  <2>1. n + 1 \in 1..Len(r) /\ \A i \in 1..n : i \in 1..Len(r)
    BY <1>1
  <2>2. QED
    BY <1>1, <2>1 DEF Free, n
<1>7. QED
  BY <1>1, <1>3, <1>4, <1>5, <1>6 DEF r, n

LEMMA EmptyHolds ==
  ASSUME NEW M
  PROVE  Free(<<>>, M) /\ Lone(<<>>, M) /\ \A S : <<>> \in Seq(S)
<1>1. Len(<<>>) = 0
  OBVIOUS
<1>2. QED
  BY <1>1 DEF Free, Lone

LEMMA SingleHolds ==
  ASSUME NEW S, NEW m \in S, NEW M
  PROVE  /\ <<m>> \in Seq(S) /\ Len(<<m>>) = 1 /\ Lone(<<m>>, M)
         /\ m \notin M => Free(<<m>>, M)
         /\ Head(<<m>>) = m /\ Tail(<<m>>) = <<>> /\ <<m>>[1] = m /\ <<m>> # <<>>
<1>1. <<m>>[1] = m /\ Len(<<m>>) = 1 /\ <<m>> \in Seq(S)
  OBVIOUS
<1>2. \A i \in 1..Len(<<m>>) : i = 1
  BY <1>1
<1>3. Lone(<<m>>, M) /\ (m \notin M => Free(<<m>>, M))
  BY <1>1, <1>2 DEF Lone, Free
<1>4. Head(<<m>>) = m /\ Tail(<<m>>) = <<>> /\ <<m>> # <<>>
  OBVIOUS
<1>5. QED
  BY <1>1, <1>3, <1>4

LEMMA PairIs ==
  ASSUME NEW c, NEW m
  PROVE  Append(<<c>>, m) = <<c, m>> /\ Len(<<c, m>>) = 2
<1> DEFINE S == {c, m}
           a == Append(<<c>>, m)
           b == <<c, m>>
<1>1. <<c>> \in Seq(S) /\ b \in Seq(S) /\ m \in S
  OBVIOUS
<1>2. Len(<<c>>) = 1 /\ Len(b) = 2 /\ <<c>>[1] = c /\ b[1] = c /\ b[2] = m
  OBVIOUS
<1>3. a \in Seq(S) /\ Len(a) = 2 /\ a[1] = c /\ a[2] = m
  BY <1>1, <1>2, AppendProperties
<1> HIDE DEF S, a, b
<1>4. \A i \in 1..Len(a) : i = 1 \/ i = 2
  BY <1>3
<1>5. \A i \in 1..Len(a) : a[i] = b[i]
  BY <1>2, <1>3, <1>4
<1>6. a = b
  BY <1>1, <1>2, <1>3, <1>5, SeqEqual
<1>7. QED
  BY <1>2, <1>6 DEF a, b

-----------------------------------------------------------------------------
\* Messages.

LEMMA MessageKinds ==
  /\ Packet \notin Frames /\ Packet \notin Dials
  /\ \A m \in Dials : m \notin Frames /\ m # Packet
  /\ Text("CONNECT") \notin Frames /\ Text("NO CARRIER") \notin Frames
  /\ Text("CONNECT") \notin Dials /\ Text("NO CARRIER") \notin Dials
  /\ Text("CONNECT") # Packet /\ Text("NO CARRIER") # Packet
  /\ Text("CONNECT") # Text("NO CARRIER")
<1>1. \A m \in Frames : m.proto \in {"LCP", "IPCP"}
  BY DEF Frames, Protos
<1>2. Packet.proto = "IPv4" /\ \A s : Text(s).proto = "text" /\ Text(s).say = s
  BY DEF Packet, Text
<1>3. \A m \in Dials : m.proto = "text" /\ m.say \in {"ATD", "ATE0D"}
  BY <1>2 DEF Dials
<1>4. /\ \A m \in Dials : m \notin Frames /\ m # Packet
      /\ Packet \notin Frames /\ Packet \notin Dials
  BY <1>1, <1>2, <1>3
<1>5. /\ \A s : Text(s) \notin Frames /\ Text(s) # Packet
      /\ Text("CONNECT") # Text("NO CARRIER")
  BY <1>1, <1>2
<1>6. Text("CONNECT") \notin Dials /\ Text("NO CARRIER") \notin Dials
  BY <1>2, <1>3
<1>7. QED
  BY <1>4, <1>5, <1>6

LEMMA FrameIs ==
  ASSUME NEW p \in Protos, NEW code \in Codes, NEW id \in 0..(Ids - 1), NEW val \in Values
  PROVE  /\ Frame(p, code, id, val) \in Frames
         /\ Frame(p, code, id, val).proto = p /\ Frame(p, code, id, val).code = code
         /\ Frame(p, code, id, val).id = id /\ Frame(p, code, id, val).val = val
         /\ \A q : /\ Frame(p, code, id, val) \in Asked(q) <=> q = p /\ code = "req"
                   /\ Frame(p, code, id, val) \in Told(q) <=> q = p /\ code \in {"ack", "nak"}
                   /\ Frame(p, code, id, val) \in Acks(q) <=> q = p /\ code = "ack"
<1>1. /\ Frame(p, code, id, val) \in Frames
      /\ Frame(p, code, id, val).proto = p /\ Frame(p, code, id, val).code = code
      /\ Frame(p, code, id, val).id = id /\ Frame(p, code, id, val).val = val
  BY DEF Frame, Frames
<1>2. QED
  BY <1>1 DEF Asked, Told, Acks

LEMMA MarksOfFrames ==
  /\ \A m, p : m \in Asked(p) => m \in Frames /\ m.proto = p /\ m.code = "req"
  /\ \A m, p : m \in Told(p) => m \in Frames /\ m.proto = p /\ m.code \in {"ack", "nak"}
  /\ \A m, p : m \in Acks(p) => m \in Frames /\ m.proto = p /\ m.code = "ack"
  /\ \A m, p : m \in Acks(p) => m \in Told(p)
  /\ \A m \in Frames : m.proto \in Protos /\ m.code \in Codes /\ m.id \in 0..(Ids - 1) /\ m.val \in Values
BY DEF Asked, Told, Acks, Frames

LEMMA Modulus ==
  /\ Ids \in Nat /\ Ids > 1 /\ RingFrames \in Nat /\ RingFrames > 0 /\ 0 \in 0..(Ids - 1)
  /\ \A n \in 0..(Ids - 1) : (n + 1) % Ids \in 0..(Ids - 1)
BY DialUpAssumption

\* A message that is neither a request nor an acknowledgement may always be in
\* the ring, one that is neither an answer nor an end nor dials always on the line.
LEMMA PlainOut ==
  ASSUME NEW h, NEW g, NEW m \in OutMessages, \A p \in Protos : m \notin Asked(p) /\ m \notin Acks(p)
  PROVE  m \in OutAllowed(h, g)
BY DEF OutAllowed

LEMMA PlainLine ==
  ASSUME NEW h, NEW g, NEW m \in Frames \cup {Packet},
         m \in Frames => m.code \notin {"ack", "nak", "termreq"}
  PROVE  m \in LineAllowed(h, g)
BY MessageKinds, MarksOfFrames DEF LineAllowed, LineMessages

\* An echo of the endpoint in command mode, when nobody listens.
LEMMA EchoOut ==
  ASSUME NEW h, NEW g, NEW m \in OutMessages, h.mode = "command", ~Talking(g)
  PROVE  m \in OutAllowed(h, g)
BY DEF OutAllowed

-----------------------------------------------------------------------------
\* The endpoint's helpers.

IsEnd(e) == e = [h |-> e.h, out |-> e.out] /\ e.h \in HostType

LEMMA PushIs ==
  ASSUME NEW e, IsEnd(e), NEW m
  PROVE  /\ IsEnd(Push(e, m)) /\ Push(e, m).h = e.h
         /\ Push(e, m).out = IF Len(e.out) < RingFrames THEN Append(e.out, m) ELSE e.out
<1>1. CASE Len(e.out) < RingFrames
  <2>1. Push(e, m) = [h |-> e.h, out |-> Append(e.out, m)]
    BY <1>1 DEF Push, IsEnd
  <2>2. QED
    BY <1>1, <2>1 DEF IsEnd
<1>2. CASE ~(Len(e.out) < RingFrames)
  BY <1>2 DEF Push, IsEnd
<1>3. QED
  BY <1>1, <1>2

\* What asking for a layer makes of the host's record.
Asks(h, p) ==
  [h EXCEPT !.id = [@ EXCEPT ![p] = (h.id[p] + 1) % Ids],
            !.sent = [@ EXCEPT ![p] = TRUE],
            !.req = [proto |-> p, id |-> (h.id[p] + 1) % Ids, val |-> h.val[p]]]

LEMMA HostFields ==
  ASSUME NEW h \in HostType
  PROVE  /\ h.mode \in {"command", "data"} /\ h.echo \in BOOLEAN /\ h.junk \in BOOLEAN
         /\ h.sent \in [Protos -> BOOLEAN] /\ h.local \in [Protos -> BOOLEAN]
         /\ h.peer \in [Protos -> BOOLEAN] /\ h.id \in [Protos -> 0..(Ids - 1)]
         /\ h.val \in [Protos -> HostValues] /\ h.owes \in BOOLEAN
         /\ h.req \in [proto : Protos, id : 0..(Ids - 1), val : HostValues]
BY DEF HostType

LEMMA AsksIs ==
  ASSUME NEW h \in HostType, NEW p \in Protos
  PROVE  /\ Asks(h, p) \in HostType
         /\ Asks(h, p).mode = h.mode /\ Asks(h, p).local = h.local /\ Asks(h, p).peer = h.peer
         /\ Asks(h, p).val = h.val /\ Asks(h, p).owes = h.owes
         /\ Asks(h, p).sent[p] /\ \A q \in Protos : q # p => /\ Asks(h, p).sent[q] <=> h.sent[q]
                                                             /\ Asks(h, p).id[q] = h.id[q]
         /\ Asks(h, p).id[p] = (h.id[p] + 1) % Ids
         /\ Asks(h, p).req = [proto |-> p, id |-> Asks(h, p).id[p], val |-> h.val[p]]
<1> DEFINE n == (h.id[p] + 1) % Ids
           sent == [h.sent EXCEPT ![p] = TRUE]
           ids == [h.id EXCEPT ![p] = n]
           req == [proto |-> p, id |-> n, val |-> h.val[p]]
<1>1. n \in 0..(Ids - 1)
  BY HostFields, Modulus
<1>2. req \in [proto : Protos, id : 0..(Ids - 1), val : HostValues]
  BY <1>1, HostFields
<1>3. /\ sent \in [Protos -> BOOLEAN] /\ ids \in [Protos -> 0..(Ids - 1)]
      /\ sent[p] = TRUE /\ ids[p] = n /\ \A q \in Protos : q # p => sent[q] = h.sent[q] /\ ids[q] = h.id[q]
  BY <1>1, HostFields
<1>4. Asks(h, p) = [h EXCEPT !.id = ids, !.sent = sent, !.req = req]
  BY DEF Asks
<1> HIDE DEF n, sent, ids, req
<1>5. /\ Asks(h, p) \in HostType
      /\ Asks(h, p).mode = h.mode /\ Asks(h, p).local = h.local /\ Asks(h, p).peer = h.peer
      /\ Asks(h, p).val = h.val /\ Asks(h, p).owes = h.owes
      /\ Asks(h, p).sent = sent /\ Asks(h, p).id = ids /\ Asks(h, p).req = req
  BY <1>2, <1>3, <1>4 DEF HostType
<1>6. QED
  BY <1>3, <1>5 DEF n, req

LEMMA AsksAgrees ==
  ASSUME NEW h \in HostType, NEW p \in Protos
  PROVE  Asks(h, p).local = h.local /\ Asks(h, p).peer = h.peer /\ Asks(h, p).mode = h.mode
BY DEF Asks, HostType

LEMMA ConfigureIs ==
  ASSUME NEW e, IsEnd(e), NEW p \in Protos
  PROVE  /\ IsEnd(Configure(e, p)) /\ Configure(e, p).h = Asks(e.h, p)
         /\ Configure(e, p).out = Push([h |-> Asks(e.h, p), out |-> e.out],
                                       Frame(p, "req", Asks(e.h, p).id[p], e.h.val[p])).out
<1> DEFINE c == [h |-> Asks(e.h, p), out |-> e.out]
           n == (e.h.id[p] + 1) % Ids
<1>1. Asks(e.h, p) \in HostType /\ Asks(e.h, p).id[p] = n
  BY AsksIs DEF IsEnd
<1>2. [e EXCEPT !.h.id[p] = n, !.h.sent[p] = TRUE,
                !.h.req = [proto |-> p, id |-> n, val |-> e.h.val[p]]] = c
  <2> DEFINE h == e.h
             ids == [h.id EXCEPT ![p] = n]
             sent == [h.sent EXCEPT ![p] = TRUE]
             req == [proto |-> p, id |-> n, val |-> h.val[p]]
             h1 == [h EXCEPT !.id = ids]
             h2 == [h1 EXCEPT !.sent = sent]
             h3 == [h2 EXCEPT !.req = req]
             e1 == [e EXCEPT !.h.id[p] = n]
             e2 == [e1 EXCEPT !.h.sent[p] = TRUE]
             e3 == [e2 EXCEPT !.h.req = req]
  <2>1. e = [h |-> h, out |-> e.out] /\ h \in HostType
    BY DEF IsEnd
  <2>2. h1.sent = h.sent
    BY <2>1 DEF HostType
  <2>3. e1 = [h |-> h1, out |-> e.out]
    BY <2>1
  <2> HIDE DEF e1, h1
  <2>4. e2 = [h |-> h2, out |-> e.out]
    <3>1. e1.h = h1 /\ e1.h.sent = h.sent
      BY <2>2, <2>3
    <3>2. e2 = [e1 EXCEPT !.h = h2]
      BY <3>1
    <3> HIDE DEF h2, e2
    <3>3. QED
      BY <2>3, <3>2
  <2> HIDE DEF e2, h2
  <2>5. e3 = [h |-> h3, out |-> e.out]
    BY <2>4
  <2>6. Asks(h, p) = h3
    BY DEF Asks, h1, h2
  <2>7. QED
    BY <2>5, <2>6 DEF e1, e2
<1>3. Configure(e, p) = Push(c, Frame(p, "req", n, e.h.val[p]))
  BY <1>2 DEF Configure
<1>4. IsEnd(c) /\ c.h = Asks(e.h, p)
  BY <1>1 DEF IsEnd
<1> HIDE DEF c
<1>5. IsEnd(Push(c, Frame(p, "req", n, e.h.val[p]))) /\ Push(c, Frame(p, "req", n, e.h.val[p])).h = c.h
  BY <1>4, PushIs
<1>6. QED
  BY <1>1, <1>3, <1>4, <1>5 DEF c

-----------------------------------------------------------------------------
\* What the endpoint does to the two directions, with a guest that does not dial.

LEMMA NoneAwaited ==
  ASSUME NEW h, NEW o, NEW l, NEW g, Base(h, o, l, g), NEW p \in Protos,
         h.mode = "data", ~h.sent[p] \/ h.local[p]
  PROVE  Free(o, Asked(p)) /\ Free(l, Told(p))
<1>1. o \in Seq(OutAllowed(h, g)) /\ l \in Seq(LineAllowed(h, g))
  BY DEF Base
<1>2. \A m \in OutAllowed(h, g) : m \notin Asked(p)
  BY DEF OutAllowed, Awaited
<1>3. \A m \in LineAllowed(h, g) : m \notin Told(p)
  BY DEF LineAllowed, Awaited
<1>4. QED
  BY <1>1, <1>2, <1>3, ElementOfSeq DEF Free

LEMMA PushKeeps ==
  ASSUME NEW e, IsEnd(e), NEW l, NEW g, Base(e.h, e.out, l, g), g.phase # "dialing",
         NEW m \in OutAllowed(e.h, g),
         \A p \in Protos : m \in Asked(p) /\ e.h.mode = "data" =>
           Free(e.out, Asked(p)) /\ Free(l, Told(p))
  PROVE  /\ IsEnd(Push(e, m)) /\ Push(e, m).h = e.h
         /\ Base(e.h, Push(e, m).out, l, g)
<1> DEFINE h == e.h
           o == e.out
           r == Push(e, m).out
<1>1. /\ IsEnd(Push(e, m)) /\ Push(e, m).h = h
      /\ r = IF Len(o) < RingFrames THEN Append(o, m) ELSE o
  BY PushIs
<1>2. CASE Len(o) < RingFrames
  <2>1. /\ o \in Seq(OutAllowed(h, g)) /\ Len(o) \in Nat /\ r = Append(o, m) /\ RingFrames \in Nat
    BY <1>1, <1>2, LenProperties, Modulus DEF Base
  <2>2. r \in Seq(OutAllowed(h, g)) /\ Len(r) <= RingFrames
    <3>1. r \in Seq(OutAllowed(h, g)) /\ Len(r) = Len(o) + 1
      BY <2>1, AppendHolds
    <3>2. QED
      BY <1>2, <2>1, <3>1
  <2>3. ASSUME h.mode = "data", NEW p \in Protos PROVE OneRequest(r, l, p)
    <3>1. OneRequest(o, l, p)
      BY <2>3 DEF Base
    <3>2. CASE m \in Asked(p)
      <4>1. Free(o, Asked(p)) /\ Free(l, Told(p))
        BY <2>3, <3>2
      <4>2. Lone(r, Asked(p))
        BY <2>1, <4>1, AppendHolds
      <4>3. QED
        BY <3>1, <4>1, <4>2 DEF OneRequest
    <3>3. CASE m \notin Asked(p)
      <4>1. /\ Free(o, Asked(p)) => Free(r, Asked(p))
            /\ Lone(o, Asked(p)) => Lone(r, Asked(p))
        BY <2>1, <3>3, AppendHolds
      <4>2. QED
        BY <3>1, <4>1 DEF OneRequest
    <3>4. QED
      BY <3>2, <3>3
  <2>4. Base(h, r, l, g)
    BY <2>2, <2>3 DEF Base, DialOK
  <2>5. QED
    BY <1>1, <2>4
<1>3. CASE ~(Len(o) < RingFrames)
  BY <1>1, <1>3
<1>4. QED
  BY <1>2, <1>3

\* Other values of the host's record than those a request shows.
LEMMA HostKeeps ==
  ASSUME NEW h, NEW o, NEW l, NEW g, Base(h, o, l, g), g.phase # "dialing",
         NEW h2, HostOK(h2), GuestOK(h2, g), h2.mode = "data" => h.mode = "data",
         NEW M, NEW N, Free(o, M), Free(l, N),
         \A m \in OutAllowed(h, g) : m \notin M => m \in OutAllowed(h2, g),
         \A m \in LineAllowed(h, g) : m \notin N => m \in LineAllowed(h2, g)
  PROVE  Base(h2, o, l, g)
<1>1. o \in Seq(OutAllowed(h2, g))
  <2>1. o \in Seq(OutAllowed(h, g))
    BY DEF Base
  <2>2. QED
    BY <2>1, SeqNarrows
<1>2. l \in Seq(LineAllowed(h2, g))
  <2>1. l \in Seq(LineAllowed(h, g))
    BY DEF Base
  <2>2. QED
    BY <2>1, SeqNarrows
<1>3. QED
  BY <1>1, <1>2 DEF Base, DialOK

LEMMA AsksKeeps ==
  ASSUME NEW h, NEW o, NEW l, NEW g, Base(h, o, l, g), g.phase # "dialing",
         NEW p \in Protos, h.mode = "data", ~h.local[p],
         Free(o, Asked(p)), Free(l, Told(p)),
         p = "LCP" => ~h.sent["IPCP"], p = "IPCP" => h.local["LCP"]
  PROVE  Base(Asks(h, p), o, l, g) /\ Kept(Asks(h, p))
<1> DEFINE h2 == Asks(h, p)
<1>1. HostOK(h) /\ GuestOK(h, g) /\ h \in HostType
  BY DEF Base, HostOK
<1>2. /\ h2 \in HostType
      /\ h2.mode = h.mode /\ h2.local = h.local /\ h2.peer = h.peer /\ h2.val = h.val
      /\ h2.sent[p] /\ \A q \in Protos : q # p => (h2.sent[q] <=> h.sent[q]) /\ h2.id[q] = h.id[q]
      /\ h2.req = [proto |-> p, id |-> h2.id[p], val |-> h.val[p]]
  BY <1>1, AsksIs
<1> HIDE DEF h2
<1>3. "LCP" \in Protos /\ "IPCP" \in Protos /\ Protos = {"LCP", "IPCP"}
  BY DEF Protos
<1>4. HostOK(h2)
  <2>1. h2.sent["LCP"]
    BY <1>1, <1>2, <1>3 DEF HostOK
  <2>2. h2.sent["IPCP"] => h2.local["LCP"]
    BY <1>1, <1>2, <1>3 DEF HostOK
  <2>3. \A q \in Protos : h2.local[q] => h2.sent[q]
    BY <1>1, <1>2 DEF HostOK
  <2>4. h2.mode # "command"
    BY <1>2
  <2>5. QED
    BY <1>2, <2>1, <2>2, <2>3, <2>4 DEF HostOK
<1>5. GuestOK(h2, g)
  BY <1>1, <1>2 DEF GuestOK
<1>6. \A m \in OutAllowed(h, g) : m \notin Asked(p) => m \in OutAllowed(h2, g)
  BY <1>2 DEF OutAllowed, Awaited
<1>7. \A m \in LineAllowed(h, g) : m \notin Told(p) => m \in LineAllowed(h2, g)
  <2>1. \A m, q : m \in Acks(q) => m \in Told(q)
    BY MarksOfFrames
  <2>2. QED
    BY <1>2, <2>1 DEF LineAllowed, Awaited
<1>8. Base(h2, o, l, g)
  BY <1>2, <1>4, <1>5, <1>6, <1>7, HostKeeps
<1>9. Kept(h2)
  <2>1. SUFFICES ASSUME NEW q \in Protos, h2.sent[q], ~h2.local[q]
                 PROVE  h2.req = [proto |-> q, id |-> h2.id[q], val |-> h2.val[q]]
    BY DEF Kept
  <2>2. q = p
    BY <1>1, <1>2, <1>3, <2>1
  <2>3. QED
    BY <1>2, <2>2
<1>10. QED
  BY <1>8, <1>9 DEF h2

LEMMA ConfigureKeeps ==
  ASSUME NEW e, IsEnd(e), NEW l, NEW g, Base(e.h, e.out, l, g), g.phase # "dialing",
         NEW p \in Protos, e.h.mode = "data", ~e.h.local[p],
         Free(e.out, Asked(p)), Free(l, Told(p)),
         p = "LCP" => ~e.h.sent["IPCP"], p = "IPCP" => e.h.local["LCP"]
  PROVE  /\ IsEnd(Configure(e, p)) /\ Configure(e, p).h = Asks(e.h, p)
         /\ Base(Asks(e.h, p), Configure(e, p).out, l, g) /\ Kept(Asks(e.h, p))
<1> DEFINE h2 == Asks(e.h, p)
           e2 == [h |-> h2, out |-> e.out]
           m == Frame(p, "req", h2.id[p], e.h.val[p])
<1>1. /\ IsEnd(Configure(e, p)) /\ Configure(e, p).h = h2
      /\ Configure(e, p).out = Push(e2, m).out
  BY ConfigureIs
<1>2. Base(h2, e.out, l, g) /\ Kept(h2)
  BY AsksKeeps
<1>3. /\ h2 \in HostType /\ h2.sent[p] /\ h2.local = e.h.local /\ h2.val = e.h.val
  BY AsksIs DEF IsEnd
<1>4. h2.id[p] \in 0..(Ids - 1) /\ e.h.val[p] \in Values
  BY <1>3, HostFields DEF Values
<1> HIDE DEF h2
<1>5. IsEnd(e2) /\ e2.h = h2 /\ e2.out = e.out
  BY <1>3 DEF IsEnd
<1>6. /\ m \in Frames /\ m.id = h2.id[p] /\ m.val = e.h.val[p]
      /\ \A q : (m \in Asked(q) <=> q = p) /\ m \notin Acks(q)
  <2>1. "req" \in Codes
    BY DEF Codes
  <2>2. QED
    BY <1>4, <2>1, FrameIs
<1> HIDE DEF m, e2
<1>7. m \in OutAllowed(h2, g)
  BY <1>3, <1>6 DEF OutAllowed, OutMessages, Awaited
<1>8. Base(e2.h, e2.out, l, g) /\ m \in OutAllowed(e2.h, g)
      /\ \A q \in Protos : m \in Asked(q) /\ e2.h.mode = "data" =>
           Free(e2.out, Asked(q)) /\ Free(l, Told(q))
  BY <1>2, <1>5, <1>6, <1>7
<1>9. Base(e2.h, Push(e2, m).out, l, g)
  BY <1>5, <1>8, PushKeeps
<1>10. QED
  BY <1>1, <1>2, <1>5, <1>9 DEF h2

-----------------------------------------------------------------------------
\* The endpoint's answers, on l, what is left of the line.

\* Nothing that was agreed is forgotten while the guest talks.
Took(e, r, l, g) ==
  /\ IsEnd(r) /\ Base(r.h, r.out, l, g) /\ Kept(r.h)
  /\ Talking(g) => \A p \in Protos : /\ e.h.peer[p] => r.h.peer[p]
                                     /\ e.h.local[p] => r.h.local[p]

\* What the host's record becomes.
Accepts(h, p) == [h EXCEPT !.peer = [@ EXCEPT ![p] = TRUE]]
Confirms(h, p) == [h EXCEPT !.local = [@ EXCEPT ![p] = TRUE]]
Revalues(h, p, val) == [h EXCEPT !.val = [@ EXCEPT ![p] = val]]
Hung(h) == [h EXCEPT !.sent = Each(FALSE), !.local = Each(FALSE), !.peer = Each(FALSE),
                     !.mode = "command"]

LEMMA AcceptsIs ==
  ASSUME NEW h \in HostType, NEW p \in Protos
  PROVE  /\ Accepts(h, p) \in HostType
         /\ Accepts(h, p).mode = h.mode /\ Accepts(h, p).sent = h.sent
         /\ Accepts(h, p).local = h.local /\ Accepts(h, p).id = h.id
         /\ Accepts(h, p).val = h.val /\ Accepts(h, p).req = h.req /\ Accepts(h, p).owes = h.owes
         /\ Accepts(h, p).peer[p]
         /\ \A q \in Protos : h.peer[q] => Accepts(h, p).peer[q]
<1> DEFINE peer == [h.peer EXCEPT ![p] = TRUE]
<1>1. /\ peer \in [Protos -> BOOLEAN] /\ peer[p] = TRUE
      /\ \A q \in Protos : q # p => peer[q] = h.peer[q]
  BY HostFields
<1>2. Accepts(h, p) = [h EXCEPT !.peer = peer]
  BY DEF Accepts
<1> HIDE DEF peer
<1>3. /\ Accepts(h, p) \in HostType
      /\ Accepts(h, p).mode = h.mode /\ Accepts(h, p).sent = h.sent
      /\ Accepts(h, p).local = h.local /\ Accepts(h, p).id = h.id
      /\ Accepts(h, p).val = h.val /\ Accepts(h, p).req = h.req /\ Accepts(h, p).owes = h.owes
      /\ Accepts(h, p).peer = peer
  BY <1>1, <1>2 DEF HostType
<1>4. QED
  BY <1>1, <1>3

LEMMA ConfirmsIs ==
  ASSUME NEW h \in HostType, NEW p \in Protos
  PROVE  /\ Confirms(h, p) \in HostType
         /\ Confirms(h, p).mode = h.mode /\ Confirms(h, p).sent = h.sent
         /\ Confirms(h, p).peer = h.peer /\ Confirms(h, p).id = h.id
         /\ Confirms(h, p).val = h.val /\ Confirms(h, p).req = h.req /\ Confirms(h, p).owes = h.owes
         /\ Confirms(h, p).local[p]
         /\ \A q \in Protos : q # p => (Confirms(h, p).local[q] <=> h.local[q])
<1> DEFINE local == [h.local EXCEPT ![p] = TRUE]
<1>1. /\ local \in [Protos -> BOOLEAN] /\ local[p] = TRUE
      /\ \A q \in Protos : q # p => local[q] = h.local[q]
  BY HostFields
<1>2. Confirms(h, p) = [h EXCEPT !.local = local]
  BY DEF Confirms
<1> HIDE DEF local
<1>3. /\ Confirms(h, p) \in HostType
      /\ Confirms(h, p).mode = h.mode /\ Confirms(h, p).sent = h.sent
      /\ Confirms(h, p).peer = h.peer /\ Confirms(h, p).id = h.id
      /\ Confirms(h, p).val = h.val /\ Confirms(h, p).req = h.req /\ Confirms(h, p).owes = h.owes
      /\ Confirms(h, p).local = local
  BY <1>1, <1>2 DEF HostType
<1>4. QED
  BY <1>1, <1>3

LEMMA RevaluesIs ==
  ASSUME NEW h \in HostType, NEW p \in Protos, NEW val \in HostValues
  PROVE  /\ Revalues(h, p, val) \in HostType
         /\ Revalues(h, p, val).mode = h.mode /\ Revalues(h, p, val).sent = h.sent
         /\ Revalues(h, p, val).peer = h.peer /\ Revalues(h, p, val).id = h.id
         /\ Revalues(h, p, val).local = h.local /\ Revalues(h, p, val).req = h.req
         /\ Revalues(h, p, val).owes = h.owes
         /\ \A q \in Protos : q # p => Revalues(h, p, val).val[q] = h.val[q]
<1> DEFINE vals == [h.val EXCEPT ![p] = val]
<1>1. /\ vals \in [Protos -> HostValues]
      /\ \A q \in Protos : q # p => vals[q] = h.val[q]
  BY HostFields
<1>2. Revalues(h, p, val) = [h EXCEPT !.val = vals]
  BY DEF Revalues
<1> HIDE DEF vals
<1>3. /\ Revalues(h, p, val) \in HostType
      /\ Revalues(h, p, val).mode = h.mode /\ Revalues(h, p, val).sent = h.sent
      /\ Revalues(h, p, val).peer = h.peer /\ Revalues(h, p, val).id = h.id
      /\ Revalues(h, p, val).local = h.local /\ Revalues(h, p, val).req = h.req
      /\ Revalues(h, p, val).owes = h.owes /\ Revalues(h, p, val).val = vals
  BY <1>1, <1>2 DEF HostType
<1>4. QED
  BY <1>1, <1>3

LEMMA HungIs ==
  ASSUME NEW h \in HostType
  PROVE  /\ Hung(h) \in HostType /\ Hung(h).mode = "command" /\ Hung(h).owes = h.owes
         /\ \A p \in Protos : ~Hung(h).sent[p] /\ ~Hung(h).local[p]
<1>1. /\ Each(FALSE) \in [Protos -> BOOLEAN] /\ \A p \in Protos : Each(FALSE)[p] = FALSE
  BY DEF Each
<1>2. /\ Hung(h) \in HostType /\ Hung(h).mode = "command" /\ Hung(h).owes = h.owes
      /\ Hung(h).sent = Each(FALSE) /\ Hung(h).local = Each(FALSE)
  BY <1>1 DEF Hung, HostType
<1>3. QED
  BY <1>1, <1>2

\* The same, done to the endpoint.
LEMMA EndUpdates ==
  ASSUME NEW e, IsEnd(e), NEW p \in Protos, NEW val
  PROVE  /\ [e EXCEPT !.h.peer[p] = TRUE] = [h |-> Accepts(e.h, p), out |-> e.out]
         /\ [e EXCEPT !.h.local[p] = TRUE] = [h |-> Confirms(e.h, p), out |-> e.out]
         /\ [e EXCEPT !.h.val[p] = val] = [h |-> Revalues(e.h, p, val), out |-> e.out]
<1>1. e = [h |-> e.h, out |-> e.out]
  BY DEF IsEnd
<1>2. [e EXCEPT !.h.peer[p] = TRUE] = [h |-> Accepts(e.h, p), out |-> e.out]
  <2>1. \A v : [e EXCEPT !.h.peer[p] = v]
                 = [h |-> [e.h EXCEPT !.peer = [@ EXCEPT ![p] = v]], out |-> e.out]
    BY <1>1
  <2>2. QED
    BY <2>1 DEF Accepts
<1>3. [e EXCEPT !.h.local[p] = TRUE] = [h |-> Confirms(e.h, p), out |-> e.out]
  <2>1. \A v : [e EXCEPT !.h.local[p] = v]
                 = [h |-> [e.h EXCEPT !.local = [@ EXCEPT ![p] = v]], out |-> e.out]
    BY <1>1
  <2>2. QED
    BY <2>1 DEF Confirms
<1>4. [e EXCEPT !.h.val[p] = val] = [h |-> Revalues(e.h, p, val), out |-> e.out]
  BY <1>1 DEF Revalues
<1>5. QED
  BY <1>2, <1>3, <1>4

LEMMA HungEnd ==
  ASSUME NEW e, IsEnd(e)
  PROVE  [e EXCEPT !.h.sent = Each(FALSE), !.h.local = Each(FALSE),
                   !.h.peer = Each(FALSE), !.h.mode = "command"]
           = [h |-> Hung(e.h), out |-> e.out]
<1> DEFINE h == e.h
           none == Each(FALSE)
           h1 == [h EXCEPT !.sent = none]
           h2 == [h1 EXCEPT !.local = none]
           h3 == [h2 EXCEPT !.peer = none]
           h4 == [h3 EXCEPT !.mode = "command"]
           e1 == [e EXCEPT !.h.sent = none]
           e2 == [e1 EXCEPT !.h.local = none]
           e3 == [e2 EXCEPT !.h.peer = none]
           e4 == [e3 EXCEPT !.h.mode = "command"]
<1>1. e = [h |-> h, out |-> e.out]
  BY DEF IsEnd
<1> HIDE DEF h, none
<1>2. e1 = [h |-> h1, out |-> e.out]
  BY <1>1
<1> HIDE DEF e1, h1
<1>3. e2 = [h |-> h2, out |-> e.out]
  BY <1>2
<1> HIDE DEF e2, h2
<1>4. e3 = [h |-> h3, out |-> e.out]
  BY <1>3
<1> HIDE DEF e3, h3
<1>5. e4 = [h |-> h4, out |-> e.out]
  BY <1>4
<1>6. Hung(h) = h4
  BY DEF Hung, h1, h2, h3, none
<1>7. QED
  BY <1>5, <1>6 DEF e1, e2, e3, h, none

LEMMA NoneInEmpty == \A q : Free(q, {})
BY DEF Free

LEMMA EndOf ==
  ASSUME NEW h \in HostType, NEW o
  PROVE  IsEnd([h |-> h, out |-> o]) /\ [h |-> h, out |-> o].h = h /\ [h |-> h, out |-> o].out = o
BY DEF IsEnd

LEMMA AcceptsKeeps ==
  ASSUME NEW h, NEW o, NEW l, NEW g, Base(h, o, l, g), Kept(h), g.phase # "dialing",
         NEW p \in Protos
  PROVE  Base(Accepts(h, p), o, l, g) /\ Kept(Accepts(h, p))
<1> DEFINE h2 == Accepts(h, p)
<1>1. HostOK(h) /\ GuestOK(h, g) /\ h \in HostType
  BY DEF Base, HostOK
<1>2. /\ h2 \in HostType /\ h2.mode = h.mode /\ h2.sent = h.sent /\ h2.local = h.local
      /\ h2.id = h.id /\ h2.val = h.val /\ h2.req = h.req
      /\ \A q \in Protos : h.peer[q] => h2.peer[q]
  BY <1>1, AcceptsIs
<1> HIDE DEF h2
<1>3. HostOK(h2) /\ GuestOK(h2, g) /\ Kept(h2)
  BY <1>1, <1>2 DEF HostOK, GuestOK, Kept
<1>4. \A m \in OutAllowed(h, g) : m \notin {} => m \in OutAllowed(h2, g)
  BY <1>2 DEF OutAllowed, Awaited
<1>5. \A m \in LineAllowed(h, g) : m \notin {} => m \in LineAllowed(h2, g)
  BY <1>2 DEF LineAllowed, Awaited
<1>6. Base(h2, o, l, g)
  BY <1>2, <1>3, <1>4, <1>5, NoneInEmpty, HostKeeps
<1>7. QED
  BY <1>3, <1>6 DEF h2

LEMMA ConfirmsKeeps ==
  ASSUME NEW h, NEW o, NEW l, NEW g, Base(h, o, l, g), Kept(h), g.phase # "dialing",
         NEW p \in Protos, h.sent[p], h.mode = "data", g.gave[p] = h.val[p],
         Free(o, Asked(p)), Free(l, Told(p))
  PROVE  Base(Confirms(h, p), o, l, g) /\ Kept(Confirms(h, p))
<1> DEFINE h2 == Confirms(h, p)
<1>1. HostOK(h) /\ GuestOK(h, g) /\ h \in HostType
  BY DEF Base, HostOK
<1>2. /\ h2 \in HostType /\ h2.mode = h.mode /\ h2.sent = h.sent /\ h2.peer = h.peer
      /\ h2.id = h.id /\ h2.val = h.val /\ h2.req = h.req
      /\ h2.local[p] /\ \A q \in Protos : q # p => (h2.local[q] <=> h.local[q])
  BY <1>1, ConfirmsIs
<1> HIDE DEF h2
<1>3. "LCP" \in Protos /\ "IPCP" \in Protos
  BY DEF Protos
<1>4. HostOK(h2)
  BY <1>1, <1>2, <1>3 DEF HostOK
<1>5. GuestOK(h2, g)
  BY <1>1, <1>2 DEF GuestOK
<1>6. Kept(h2)
  BY <1>2 DEF Kept
<1>7. \A m \in OutAllowed(h, g) : m \notin Asked(p) => m \in OutAllowed(h2, g)
  BY <1>2 DEF OutAllowed, Awaited
<1>8. \A m \in LineAllowed(h, g) : m \notin Told(p) => m \in LineAllowed(h2, g)
  <2>1. \A m, q : m \in Acks(q) => m \in Told(q)
    BY MarksOfFrames
  <2>2. QED
    BY <1>2, <2>1 DEF LineAllowed, Awaited
<1>9. Base(h2, o, l, g)
  BY <1>2, <1>4, <1>5, <1>7, <1>8, HostKeeps
<1>10. QED
  BY <1>6, <1>9 DEF h2

LEMMA RevaluesKeeps ==
  ASSUME NEW h, NEW o, NEW l, NEW g, Base(h, o, l, g), g.phase # "dialing",
         NEW p \in Protos, ~h.local[p], NEW val \in HostValues,
         Free(o, Asked(p)), Free(l, Told(p))
  PROVE  Base(Revalues(h, p, val), o, l, g)
<1> DEFINE h2 == Revalues(h, p, val)
<1>1. HostOK(h) /\ GuestOK(h, g) /\ h \in HostType
  BY DEF Base, HostOK
<1>2. /\ h2 \in HostType /\ h2.mode = h.mode /\ h2.sent = h.sent /\ h2.peer = h.peer
      /\ h2.id = h.id /\ h2.local = h.local
      /\ \A q \in Protos : q # p => h2.val[q] = h.val[q]
  BY <1>1, RevaluesIs
<1> HIDE DEF h2
<1>3. HostOK(h2)
  BY <1>1, <1>2 DEF HostOK
<1>4. GuestOK(h2, g)
  BY <1>1, <1>2 DEF GuestOK
<1>5. \A m \in OutAllowed(h, g) : m \notin Asked(p) => m \in OutAllowed(h2, g)
  BY <1>2 DEF OutAllowed, Awaited
<1>6. \A m \in LineAllowed(h, g) : m \notin Told(p) => m \in LineAllowed(h2, g)
  <2>1. \A m, q : m \in Acks(q) => m \in Told(q)
    BY MarksOfFrames
  <2>2. QED
    BY <1>2, <2>1 DEF LineAllowed, Awaited
<1>7. Base(h2, o, l, g)
  BY <1>2, <1>3, <1>4, <1>5, <1>6, HostKeeps
<1>8. QED
  BY <1>7 DEF h2

LEMMA HungKeeps ==
  ASSUME NEW h, NEW o, NEW l, NEW g, Base(h, o, l, g), g.phase # "dialing", ~Talking(g)
  PROVE  Base(Hung(h), o, l, g) /\ Kept(Hung(h))
<1> DEFINE h2 == Hung(h)
<1>1. HostOK(h) /\ GuestOK(h, g) /\ h \in HostType
  BY DEF Base, HostOK
<1>2. /\ h2 \in HostType /\ h2.mode = "command"
      /\ \A p \in Protos : ~h2.sent[p] /\ ~h2.local[p]
  BY <1>1, HungIs
<1> HIDE DEF h2
<1>3. "LCP" \in Protos /\ "IPCP" \in Protos
  BY DEF Protos
<1>4. HostOK(h2) /\ GuestOK(h2, g) /\ Kept(h2)
  BY <1>1, <1>2, <1>3 DEF HostOK, GuestOK, Kept
<1>5. \A m \in OutAllowed(h, g) : m \notin {} => m \in OutAllowed(h2, g)
  BY <1>2 DEF OutAllowed
<1>6. \A m \in LineAllowed(h, g) : m \notin {} => m \in LineAllowed(h2, g)
  BY <1>2 DEF LineAllowed
<1>7. Base(h2, o, l, g)
  BY <1>2, <1>4, <1>5, <1>6, NoneInEmpty, HostKeeps
<1>8. QED
  BY <1>4, <1>7 DEF h2

-----------------------------------------------------------------------------
\* What follows when the guest's LCP request is accepted: the second layer is
\* asked for when the first is open at both ends.
LEMMA SecondLayer ==
  ASSUME NEW e, NEW l, NEW g, IsEnd(e), Base(e.h, e.out, l, g), g.phase # "dialing",
         e.h.mode = "data", e.h.local["LCP"], ~e.h.sent["IPCP"]
  PROVE  Took(e, Configure(e, "IPCP"), l, g)
<1>1. "IPCP" \in Protos /\ "IPCP" # "LCP"
  BY DEF Protos
<1>2. ~e.h.local["IPCP"]
  BY <1>1 DEF Base, HostOK
<1>3. Free(e.out, Asked("IPCP")) /\ Free(l, Told("IPCP"))
  BY <1>1, NoneAwaited
<1>4. /\ IsEnd(Configure(e, "IPCP")) /\ Configure(e, "IPCP").h = Asks(e.h, "IPCP")
      /\ Base(Asks(e.h, "IPCP"), Configure(e, "IPCP").out, l, g) /\ Kept(Asks(e.h, "IPCP"))
  BY <1>1, <1>2, <1>3, ConfigureKeeps
<1>5. Asks(e.h, "IPCP").local = e.h.local /\ Asks(e.h, "IPCP").peer = e.h.peer
  <2>1. e.h \in HostType
    BY DEF IsEnd
  <2>2. QED
    BY <1>1, <2>1, AsksAgrees
<1> DEFINE r == Configure(e, "IPCP")
<1>6. /\ IsEnd(r) /\ Base(r.h, r.out, l, g) /\ Kept(r.h)
      /\ r.h.local = e.h.local /\ r.h.peer = e.h.peer
  BY <1>4, <1>5
<1> HIDE DEF r
<1>7. Took(e, r, l, g)
  BY <1>6 DEF Took
<1>8. QED
  BY <1>7 DEF r

LEMMA ContinueKeeps ==
  ASSUME NEW e, NEW l, NEW g, IsEnd(e), Base(e.h, e.out, l, g), Kept(e.h), g.phase # "dialing",
         e.h.mode = "data"
  PROVE  Took(e, Continue(e), l, g)
<1>1. e.h.sent["LCP"]
  BY DEF Base, HostOK
<1>2. Continue(e) = IF e.h.local["LCP"] /\ ~e.h.sent["IPCP"] THEN Configure(e, "IPCP") ELSE e
  BY <1>1 DEF Continue
<1>3. Took(e, e, l, g)
  BY DEF Took
<1>4. QED
  BY <1>2, <1>3, SecondLayer

LEMMA TookTrans ==
  ASSUME NEW a, NEW b, NEW c, NEW l, NEW g,
         \A p \in Protos : /\ a.h.peer[p] => b.h.peer[p]
                           /\ a.h.local[p] => b.h.local[p],
         Took(b, c, l, g)
  PROVE  Took(a, c, l, g)
BY DEF Took

\* A frame that is neither a request nor an acknowledgement is queued.
LEMMA ReplyKeeps ==
  ASSUME NEW e, NEW l, NEW g, IsEnd(e), Base(e.h, e.out, l, g), Kept(e.h), g.phase # "dialing",
         NEW p \in Protos, NEW code \in Codes \ {"req", "ack"},
         NEW id \in 0..(Ids - 1), NEW val \in Values
  PROVE  Took(e, Push(e, Frame(p, code, id, val)), l, g)
<1> DEFINE m == Frame(p, code, id, val)
<1>1. m \in Frames /\ \A q : m \notin Asked(q) /\ m \notin Acks(q)
  BY FrameIs
<1> HIDE DEF m
<1>2. m \in OutAllowed(e.h, g)
  BY <1>1, PlainOut DEF OutMessages
<1>3. IsEnd(Push(e, m)) /\ Push(e, m).h = e.h /\ Base(e.h, Push(e, m).out, l, g)
  BY <1>1, <1>2, PushKeeps
<1>4. QED
  BY <1>3 DEF Took, m

LEMMA TakeRequestKeeps ==
  ASSUME NEW e, NEW l, NEW g, IsEnd(e), Base(e.h, e.out, l, g), Kept(e.h), g.phase # "dialing",
         e.h.mode = "data", NEW m \in Frames, m.code = "req"
  PROVE  Took(e, TakeRequest(e, m), l, g)
<1> DEFINE p == m.proto
           f == Frame(p, "ack", m.id, m.val)
           h2 == Accepts(e.h, p)
           e2 == [h |-> h2, out |-> e.out]
           e3 == [h |-> h2, out |-> Push(e, f).out]
<1>1. p \in Protos /\ m.id \in 0..(Ids - 1) /\ m.val \in Values
  BY MarksOfFrames
<1>2. {"rej", "nak"} \subseteq Codes \ {"req", "ack"} /\ {"bad", "good"} \subseteq Values /\ "ack" \in Codes
  BY DEF Codes, Values
<1>3. CASE m.val = "bad"
  <2>1. TakeRequest(e, m) = Push(e, Frame(p, "rej", m.id, "bad"))
    BY <1>3 DEF TakeRequest
  <2>2. QED
    BY <1>1, <1>2, <2>1, ReplyKeeps
<1>4. CASE m.val = "wrong"
  <2>1. TakeRequest(e, m) = Push(e, Frame(p, "nak", m.id, "good"))
    BY <1>4 DEF TakeRequest
  <2>2. QED
    BY <1>1, <1>2, <2>1, ReplyKeeps
<1>5. CASE m.val \notin {"bad", "wrong"}
  <2>1. /\ f \in Frames /\ \A q : f \notin Asked(q) /\ (f \in Acks(q) <=> q = p)
    BY <1>1, <1>2, FrameIs
  <2>2. /\ h2 \in HostType /\ h2.mode = e.h.mode /\ h2.local = e.h.local /\ h2.peer[p]
        /\ \A q \in Protos : e.h.peer[q] => h2.peer[q]
    BY <1>1, AcceptsIs DEF IsEnd
  <2>3. Base(h2, e.out, l, g) /\ Kept(h2)
    BY <1>1, AcceptsKeeps
  <2>4. [Push(e, f) EXCEPT !.h.peer[p] = TRUE] = e3
    <3>1. IsEnd(Push(e, f)) /\ Push(e, f).h = e.h
      BY PushIs
    <3>2. QED
      BY <1>1, <3>1, EndUpdates
  <2>5. TakeRequest(e, m) = IF p = "LCP" THEN Continue(e3) ELSE e3
    BY <1>5, <2>4 DEF TakeRequest
  <2> HIDE DEF h2, f
  <2>6. IsEnd(e2) /\ e2.h = h2 /\ e2.out = e.out
    BY <2>2, EndOf
  <2>7. Push(e2, f).out = Push(e, f).out
    BY <2>6, PushIs
  <2> HIDE DEF e2
  <2>8. f \in OutAllowed(e2.h, g)
    BY <2>1, <2>2, <2>6 DEF OutAllowed, OutMessages
  <2>9. Base(e2.h, Push(e2, f).out, l, g)
    BY <2>1, <2>3, <2>6, <2>8, PushKeeps
  <2>10. IsEnd(e3) /\ e3.h = h2 /\ e3.out = Push(e, f).out
    BY <2>2, EndOf
  <2> HIDE DEF e3
  <2>11. Base(e3.h, e3.out, l, g) /\ Kept(e3.h) /\ e3.h.mode = "data"
    BY <2>2, <2>3, <2>6, <2>7, <2>9, <2>10
  <2>12. Took(e3, Continue(e3), l, g) /\ Took(e3, e3, l, g)
    BY <2>10, <2>11, ContinueKeeps DEF Took
  <2>13. \A q \in Protos : (e.h.peer[q] => e3.h.peer[q]) /\ (e.h.local[q] => e3.h.local[q])
    BY <2>2, <2>10
  <2>14. QED
    BY <2>5, <2>12, <2>13, TookTrans
<1>6. QED
  BY <1>3, <1>4, <1>5

\* The guest's answer to the request that is awaited: it is the only one.
Taken(e, m, l, g) ==
  /\ m \in LineAllowed(e.h, g)
  /\ e.h.mode = "data" =>
       \A p \in Protos : m \in Told(p) => Free(e.out, Asked(p)) /\ Free(l, Told(p))

LEMMA TakeAckKeeps ==
  ASSUME NEW e, NEW l, NEW g, IsEnd(e), Base(e.h, e.out, l, g), Kept(e.h), g.phase # "dialing",
         e.h.mode = "data", NEW m, Taken(e, m, l, g), m \in Frames, m.code = "ack"
  PROVE  Took(e, TakeAck(e, m), l, g) /\ TakeAck(e, m).h.local[m.proto]
<1> DEFINE p == m.proto
           h2 == Confirms(e.h, p)
           e2 == [h |-> h2, out |-> e.out]
<1>1. p \in Protos /\ m \in Told(p) /\ m \in Acks(p)
  BY MarksOfFrames DEF Told, Acks
<1>2. /\ Free(e.out, Asked(p)) /\ Free(l, Told(p))
      /\ e.h.sent[p] /\ ~e.h.local[p] /\ m.id = e.h.id[p]
      /\ m.val = e.h.val[p] /\ m.val = g.gave[p]
  BY <1>1 DEF Taken, LineAllowed, Awaited
<1>3. e.h.req = [proto |-> p, id |-> m.id, val |-> m.val]
  BY <1>1, <1>2 DEF Kept
<1>4. Answers(e, m)
  BY <1>2, <1>3 DEF Answers
<1>5. /\ h2 \in HostType /\ h2.mode = e.h.mode /\ h2.sent = e.h.sent /\ h2.peer = e.h.peer
      /\ h2.local[p] /\ \A q \in Protos : q # p => (h2.local[q] <=> e.h.local[q])
  BY <1>1, ConfirmsIs DEF IsEnd
<1>6. Base(h2, e.out, l, g) /\ Kept(h2)
  BY <1>1, <1>2, ConfirmsKeeps
<1>7. [e EXCEPT !.h.local[p] = TRUE] = e2
  BY <1>1, EndUpdates
<1>8. TakeAck(e, m) = IF p = "LCP" /\ e2.h.peer["LCP"] /\ ~e2.h.sent["IPCP"]
                      THEN Configure(e2, "IPCP") ELSE e2
  BY <1>4, <1>7 DEF TakeAck
<1> HIDE DEF h2
<1>9. IsEnd(e2) /\ e2.h = h2 /\ e2.out = e.out
  BY <1>5, EndOf
<1> HIDE DEF e2
<1>10. /\ Base(e2.h, e2.out, l, g) /\ Kept(e2.h) /\ e2.h.mode = "data" /\ e2.h.local[p]
       /\ \A q \in Protos : (e.h.peer[q] => e2.h.peer[q]) /\ (e.h.local[q] => e2.h.local[q])
  BY <1>5, <1>6, <1>9
<1>11. Took(e2, e2, l, g)
  BY <1>9, <1>10 DEF Took
<1>12. CASE p = "LCP" /\ e2.h.peer["LCP"] /\ ~e2.h.sent["IPCP"]
  <2>1. TakeAck(e, m) = Configure(e2, "IPCP")
    BY <1>8, <1>12
  <2>2. Took(e2, Configure(e2, "IPCP"), l, g)
    BY <1>9, <1>10, <1>12, SecondLayer
  <2>3. Configure(e2, "IPCP").h.local = e2.h.local
    <3>1. Configure(e2, "IPCP").h = Asks(e2.h, "IPCP")
      BY <1>9, ConfigureIs DEF Protos
    <3>2. e2.h \in HostType /\ "IPCP" \in Protos
      BY <1>9 DEF IsEnd, Protos
    <3>3. QED
      BY <3>1, <3>2, AsksAgrees
  <2>4. QED
    BY <1>10, <2>1, <2>2, <2>3, TookTrans
<1>13. CASE ~(p = "LCP" /\ e2.h.peer["LCP"] /\ ~e2.h.sent["IPCP"])
  <2>1. TakeAck(e, m) = e2
    BY <1>8, <1>13
  <2>2. QED
    BY <1>10, <1>11, <2>1, TookTrans
<1>14. QED
  BY <1>12, <1>13

LEMMA TakeNakKeeps ==
  ASSUME NEW e, NEW l, NEW g, IsEnd(e), Base(e.h, e.out, l, g), Kept(e.h), g.phase # "dialing",
         e.h.mode = "data", NEW m, Taken(e, m, l, g), m \in Frames, m.code = "nak"
  PROVE  Took(e, TakeNak(e, m), l, g)
<1> DEFINE p == m.proto
           h2 == Revalues(e.h, p, m.val)
           e2 == [h |-> h2, out |-> e.out]
           r == Configure(e2, p)
<1>1. p \in Protos /\ m \in Told(p)
  BY MarksOfFrames DEF Told
<1>2. /\ Free(e.out, Asked(p)) /\ Free(l, Told(p))
      /\ e.h.sent[p] /\ ~e.h.local[p] /\ m.id = e.h.id[p] /\ m.val = "theirs"
  BY <1>1 DEF Taken, LineAllowed, Awaited
<1>3. m.val \in HostValues
  BY <1>2 DEF HostValues
<1>4. e.h.req.id = m.id
  <2>1. e.h.req = [proto |-> p, id |-> m.id, val |-> e.h.val[p]]
    BY <1>1, <1>2 DEF Kept
  <2>2. QED
    BY <2>1
<1>5. /\ h2 \in HostType /\ h2.mode = e.h.mode /\ h2.sent = e.h.sent /\ h2.peer = e.h.peer
      /\ h2.local = e.h.local
  BY <1>1, <1>3, RevaluesIs DEF IsEnd
<1>6. Base(h2, e.out, l, g)
  BY <1>1, <1>2, <1>3, RevaluesKeeps
<1>7. [e EXCEPT !.h.val[p] = m.val] = e2
  BY <1>1, EndUpdates
<1>8. TakeNak(e, m) = r
  BY <1>2, <1>4, <1>7 DEF TakeNak
<1> HIDE DEF h2
<1>9. IsEnd(e2) /\ e2.h = h2 /\ e2.out = e.out
  BY <1>5, EndOf
<1> HIDE DEF e2
<1>10. /\ p = "LCP" => ~e2.h.sent["IPCP"]
       /\ p = "IPCP" => e2.h.local["LCP"]
  BY <1>1, <1>2, <1>5, <1>9 DEF Base, HostOK
<1>11. /\ IsEnd(r) /\ r.h = Asks(e2.h, p) /\ Base(Asks(e2.h, p), r.out, l, g) /\ Kept(Asks(e2.h, p))
  BY <1>1, <1>2, <1>5, <1>6, <1>9, <1>10, ConfigureKeeps
<1>12. /\ Asks(e2.h, p).local = e.h.local /\ Asks(e2.h, p).peer = e.h.peer
  <2>1. e2.h \in HostType
    BY <1>5, <1>9
  <2>2. QED
    BY <1>1, <1>5, <1>9, <2>1, AsksAgrees
<1> HIDE DEF r
<1>13. /\ IsEnd(r) /\ Base(r.h, r.out, l, g) /\ Kept(r.h)
       /\ r.h.local = e.h.local /\ r.h.peer = e.h.peer
  BY <1>11, <1>12
<1>14. QED
  BY <1>8, <1>13 DEF Took

LEMMA TakeTerminateKeeps ==
  ASSUME NEW e, NEW l, NEW g, IsEnd(e), Base(e.h, e.out, l, g), Kept(e.h), g.phase # "dialing",
         NEW m, m \in Frames, m.proto = "LCP", ~Talking(g)
  PROVE  Took(e, TakeTerminate(e, m), l, g)
<1> DEFINE acked == Push(e, Frame(m.proto, "termack", m.id, m.val))
           h2 == Hung(acked.h)
           e2 == [h |-> h2, out |-> acked.out]
           bye == Text("NO CARRIER")
           r == Push(e2, bye)
<1>1. m.proto \in Protos /\ m.id \in 0..(Ids - 1) /\ m.val \in Values
  BY MarksOfFrames
<1>2. "termack" \in Codes \ {"req", "ack"}
  BY DEF Codes
<1>3. Took(e, acked, l, g)
  BY <1>1, <1>2, ReplyKeeps
<1> HIDE DEF acked
<1>4. IsEnd(acked) /\ Base(acked.h, acked.out, l, g)
  BY <1>3 DEF Took
<1>5. Base(h2, acked.out, l, g) /\ Kept(h2)
  BY <1>4, HungKeeps
<1>6. h2 \in HostType
  BY <1>4, HungIs DEF IsEnd
<1>7. TakeTerminate(e, m) = r
  <2>1. TakeTerminate(e, m) = HangUp(acked)
    BY DEF TakeTerminate, acked
  <2>2. QED
    BY <1>4, <2>1, HungEnd DEF HangUp
<1> HIDE DEF h2
<1>8. IsEnd(e2) /\ e2.h = h2 /\ e2.out = acked.out
  BY <1>6, EndOf
<1> HIDE DEF e2
<1>9. /\ bye \in OutMessages /\ \A p \in Protos : bye \notin Asked(p) /\ bye \notin Acks(p)
  BY MessageKinds, MarksOfFrames DEF OutMessages
<1> HIDE DEF bye
<1>10. bye \in OutAllowed(e2.h, g)
  BY <1>9, PlainOut
<1>11. Base(e2.h, e2.out, l, g)
  BY <1>5, <1>8
<1>12. IsEnd(r) /\ r.h = e2.h /\ Base(e2.h, r.out, l, g)
  BY <1>8, <1>9, <1>10, <1>11, PushKeeps
<1> HIDE DEF r
<1>13. IsEnd(r) /\ Base(r.h, r.out, l, g) /\ Kept(r.h)
  BY <1>5, <1>8, <1>12
<1>14. QED
  BY <1>7, <1>13 DEF Took

\* A host that differs in what no frame shows.
Alike(h, h2) ==
  /\ h2 \in HostType /\ h2.mode = h.mode /\ h2.sent = h.sent /\ h2.local = h.local
  /\ h2.peer = h.peer /\ h2.id = h.id /\ h2.val = h.val /\ h2.req = h.req

LEMMA AlikeKeeps ==
  ASSUME NEW h, NEW o, NEW l, NEW g, Base(h, o, l, g), Kept(h),
         NEW h2, Alike(h, h2), g.phase = "dialing" => ~h2.owes
  PROVE  Base(h2, o, l, g) /\ Kept(h2)
<1>1. HostOK(h) /\ GuestOK(h, g) /\ h \in HostType
  BY DEF Base, HostOK
<1>2. /\ h2 \in HostType /\ h2.mode = h.mode /\ h2.sent = h.sent /\ h2.peer = h.peer
      /\ h2.id = h.id /\ h2.local = h.local /\ h2.val = h.val /\ h2.req = h.req
  BY DEF Alike
<1>3. HostOK(h2) /\ GuestOK(h2, g) /\ Kept(h2)
  BY <1>1, <1>2 DEF HostOK, GuestOK, Kept
<1>4. OutAllowed(h2, g) = OutAllowed(h, g)
  BY <1>2 DEF OutAllowed, Awaited
<1>5. LineAllowed(h2, g) = LineAllowed(h, g)
  BY <1>2 DEF LineAllowed, Awaited
<1>6. DialOK(h2, o, l, g)
  BY <1>2 DEF Base, DialOK
<1>7. Base(h2, o, l, g)
  BY <1>2, <1>3, <1>4, <1>5, <1>6 DEF Base
<1>8. QED
  BY <1>3, <1>7

LEMMA AlikeIs ==
  ASSUME NEW h \in HostType, NEW v \in BOOLEAN
  PROVE  /\ Alike(h, [h EXCEPT !.junk = v]) /\ [h EXCEPT !.junk = v].owes = h.owes
         /\ Alike(h, [h EXCEPT !.owes = v]) /\ [h EXCEPT !.owes = v].owes = v
         /\ Alike(h, [h EXCEPT !.echo = v]) /\ [h EXCEPT !.echo = v].owes = h.owes
BY DEF HostType, Alike

LEMMA TakeStrayKeeps ==
  ASSUME NEW e, NEW l, NEW g, IsEnd(e), Base(e.h, e.out, l, g), Kept(e.h), g.phase # "dialing",
         e.h.mode = "command", NEW m \in Frames \cup {Packet}
  PROVE  Took(e, TakeStray(e, m), l, g)
<1> DEFINE h2 == [e.h EXCEPT !.junk = TRUE]
           e2 == [h |-> h2, out |-> e.out]
<1>1. e.h \in HostType /\ e.h.echo \in BOOLEAN /\ ~Talking(g)
  BY HostFields DEF IsEnd, Base, GuestOK
<1>2. Alike(e.h, h2)
  BY <1>1, AlikeIs
<1>3. [e EXCEPT !.h.junk = TRUE] = e2
  <2>1. e = [h |-> e.h, out |-> e.out]
    BY DEF IsEnd
  <2>2. \A v : [e EXCEPT !.h.junk = v] = [h |-> [e.h EXCEPT !.junk = v], out |-> e.out]
    BY <2>1
  <2>3. QED
    BY <2>2
<1> HIDE DEF h2
<1>4. Base(h2, e.out, l, g) /\ Kept(h2)
  BY <1>2, AlikeKeeps
<1>5. /\ h2 \in HostType /\ h2.mode = e.h.mode /\ h2.peer = e.h.peer /\ h2.local = e.h.local
  BY <1>2 DEF Alike
<1>6. IsEnd(e2) /\ e2.h = h2 /\ e2.out = e.out
  BY <1>5, EndOf
<1>7. TakeStray(e, m) = IF e.h.echo THEN Push(e2, m) ELSE e2
  BY <1>3 DEF TakeStray
<1> HIDE DEF e2
<1>8. m \in OutAllowed(e2.h, g)
  BY <1>1, <1>5, <1>6, EchoOut DEF OutMessages
<1>9. Base(e2.h, e2.out, l, g) /\ e2.h.mode # "data"
  BY <1>4, <1>5, <1>6
<1>10. IsEnd(Push(e2, m)) /\ Push(e2, m).h = e2.h /\ Base(e2.h, Push(e2, m).out, l, g)
  BY <1>6, <1>8, <1>9, PushKeeps
<1>11. Took(e, e2, l, g)
  BY <1>1, <1>4, <1>6, <1>9 DEF Took
<1> DEFINE r == Push(e2, m)
<1>12. IsEnd(r) /\ Base(r.h, r.out, l, g) /\ Kept(r.h)
  BY <1>4, <1>6, <1>10
<1> HIDE DEF r
<1>13. Took(e, r, l, g)
  BY <1>1, <1>12 DEF Took
<1>14. QED
  BY <1>7, <1>11, <1>13 DEF r

LEMMA TakePacketKeeps ==
  ASSUME NEW e, NEW l, NEW g, IsEnd(e), Base(e.h, e.out, l, g), Kept(e.h), g.phase # "dialing"
  PROVE  Took(e, [e EXCEPT !.h.owes = TRUE], l, g)
<1> DEFINE h2 == [e.h EXCEPT !.owes = TRUE]
           e2 == [h |-> h2, out |-> e.out]
<1>1. Alike(e.h, h2)
  BY AlikeIs DEF IsEnd
<1>2. [e EXCEPT !.h.owes = TRUE] = e2
  <2>1. e = [h |-> e.h, out |-> e.out]
    BY DEF IsEnd
  <2>2. \A v : [e EXCEPT !.h.owes = v] = [h |-> [e.h EXCEPT !.owes = v], out |-> e.out]
    BY <2>1
  <2>3. QED
    BY <2>2
<1> HIDE DEF h2
<1>3. Base(h2, e.out, l, g) /\ Kept(h2)
  BY <1>1, AlikeKeeps
<1>4. h2 \in HostType /\ h2.peer = e.h.peer /\ h2.local = e.h.local
  BY <1>1 DEF Alike
<1>5. IsEnd(e2) /\ e2.h = h2 /\ e2.out = e.out
  BY <1>4, EndOf
<1> HIDE DEF e2
<1>6. Took(e, e2, l, g)
  BY <1>3, <1>4, <1>5 DEF Took
<1>7. QED
  BY <1>2, <1>6

LEMMA TakeKeeps ==
  ASSUME NEW e, NEW l, NEW g, IsEnd(e), Base(e.h, e.out, l, g), Kept(e.h), g.phase # "dialing",
         NEW m, Taken(e, m, l, g)
  PROVE  /\ Took(e, Take(e, m), l, g)
         /\ Talking(g) => \A p \in Protos : m \in Acks(p) => Take(e, m).h.local[p]
<1>1. m \in Frames \cup {Packet} /\ m \notin Dials
  BY DEF Taken, LineAllowed, LineMessages
<1>2. Took(e, e, l, g)
  BY DEF Took
<1>3. /\ \A p : m \in Acks(p) => m \in Frames /\ m.proto = p /\ m.code = "ack"
      /\ Packet \notin Frames
  BY MarksOfFrames, MessageKinds
<1>4. CASE e.h.mode = "command"
  <2>1. Take(e, m) = TakeStray(e, m)
    BY <1>1, <1>4 DEF Take
  <2>2. ~Talking(g)
    BY <1>4 DEF Base, GuestOK
  <2>3. QED
    BY <1>1, <1>4, <2>1, <2>2, TakeStrayKeeps
<1>5. CASE e.h.mode = "data" /\ m = Packet
  <2>1. Take(e, m) = IF Open(e.h) THEN [e EXCEPT !.h.owes = TRUE] ELSE e
    BY <1>1, <1>5 DEF Take
  <2>2. m \notin Frames
    BY <1>3, <1>5
  <2>3. QED
    BY <1>2, <1>3, <2>1, <2>2, TakePacketKeeps
<1>6. CASE e.h.mode = "data" /\ m # Packet
  <2>1. m \in Frames
    BY <1>1, <1>6
  <2>2. Take(e, m) = CASE m.code = "req" -> TakeRequest(e, m)
                       [] m.code = "ack" -> TakeAck(e, m)
                       [] m.code = "nak" -> TakeNak(e, m)
                       [] m.code = "termreq" -> TakeTerminate(e, m)
                       [] OTHER -> e
    BY <1>1, <1>6 DEF Take
  <2>3. CASE m.code = "req"
    BY <1>3, <1>6, <2>1, <2>2, <2>3, TakeRequestKeeps
  <2>4. CASE m.code = "ack"
    BY <1>3, <1>6, <2>1, <2>2, <2>4, TakeAckKeeps
  <2>5. CASE m.code = "nak"
    BY <1>3, <1>6, <2>1, <2>2, <2>5, TakeNakKeeps
  <2>6. CASE m.code = "termreq"
    <3>1. m.proto = "LCP" /\ g.phase \in {"closing", "hook"}
      BY <2>1, <2>6 DEF Taken, LineAllowed
    <3>2. ~Talking(g)
      BY <3>1 DEF Talking
    <3>3. QED
      BY <1>3, <2>1, <2>2, <2>6, <3>1, <3>2, TakeTerminateKeeps
  <2>7. CASE m.code \notin {"req", "ack", "nak", "termreq"}
    BY <1>2, <1>3, <2>2, <2>7
  <2>8. QED
    BY <2>3, <2>4, <2>5, <2>6, <2>7
<1>7. e.h.mode \in {"command", "data"}
  BY HostFields DEF IsEnd
<1>8. QED
  BY <1>4, <1>5, <1>6, <1>7

-----------------------------------------------------------------------------
\* What is taken from either direction, or lost on it.

LEMMA LinePasses ==
  ASSUME NEW h, NEW o, NEW l, NEW g, Base(h, o, l, g), l # <<>>
  PROVE  /\ Base(h, o, Tail(l), g) /\ Taken([h |-> h, out |-> o], Head(l), Tail(l), g)
<1> DEFINE t == Tail(l)
           m == Head(l)
<1>1. l \in Seq(LineAllowed(h, g))
  BY DEF Base
<1>2. m \in LineAllowed(h, g) /\ t \in Seq(LineAllowed(h, g))
  BY <1>1, TailIs
<1>3. \A M : /\ Free(l, M) => Free(t, M)
             /\ Lone(l, M) => Lone(t, M)
             /\ Lone(l, M) /\ m \in M => Free(t, M)
             /\ m \in M => ~Free(l, M)
  BY <1>1, TailHolds
<1>4. \A x : l = <<x>> => t = <<>>
  OBVIOUS
<1> HIDE DEF t, m
<1>5. ASSUME h.mode = "data", NEW p \in Protos
      PROVE  /\ OneRequest(o, t, p)
             /\ m \in Told(p) => Free(o, Asked(p)) /\ Free(t, Told(p))
  <2>1. OneRequest(o, l, p)
    BY <1>5 DEF Base
  <2>2. QED
    BY <1>3, <2>1 DEF OneRequest
<1>6. DialOK(h, o, t, g)
  <2>1. DialOK(h, o, l, g)
    BY DEF Base
  <2>2. QED
    BY <1>4, <2>1 DEF DialOK
<1>7. Base(h, o, t, g)
  BY <1>2, <1>5, <1>6 DEF Base
<1>8. [h |-> h, out |-> o].h = h /\ [h |-> h, out |-> o].out = o
  OBVIOUS
<1>9. Taken([h |-> h, out |-> o], m, t, g)
  BY <1>2, <1>5, <1>8 DEF Taken
<1>10. QED
  BY <1>7, <1>9 DEF t, m

LEMMA RingPasses ==
  ASSUME NEW h, NEW o, NEW l, NEW g, Base(h, o, l, g), o # <<>>,
         g.phase = "dialing" => Head(o) # Text("CONNECT")
  PROVE  /\ g.phase # "dialing" /\ Base(h, Tail(o), l, g) /\ Head(o) \in OutAllowed(h, g)
         /\ h.mode = "data" =>
              \A p \in Protos : Head(o) \in Asked(p) => Free(Tail(o), Asked(p)) /\ Free(l, Told(p))
<1> DEFINE t == Tail(o)
           m == Head(o)
<1>1. o \in Seq(OutAllowed(h, g)) /\ Len(o) <= RingFrames /\ RingFrames \in Nat
  BY Modulus DEF Base
<1>2. /\ m \in OutAllowed(h, g) /\ t \in Seq(OutAllowed(h, g)) /\ Len(o) \in Nat
      /\ Len(t) = Len(o) - 1
  BY <1>1, TailIs
<1>3. Len(t) <= RingFrames
  BY <1>1, <1>2
<1>4. \A M : /\ Free(o, M) => Free(t, M)
             /\ Lone(o, M) => Lone(t, M)
             /\ Lone(o, M) /\ m \in M => Free(t, M)
             /\ m \in M => ~Free(o, M)
  BY <1>1, TailHolds
<1>5. \A x, y : (o = <<x>> => m = x) /\ (o = <<x, y>> => m = x)
  OBVIOUS
<1>6. g.phase # "dialing"
  <2>1. DialOK(h, o, l, g)
    BY DEF Base
  <2>2. QED
    BY <1>5, <2>1 DEF DialOK
<1> HIDE DEF t, m
<1>7. ASSUME h.mode = "data", NEW p \in Protos
      PROVE  /\ OneRequest(t, l, p)
             /\ m \in Asked(p) => Free(t, Asked(p)) /\ Free(l, Told(p))
  <2>1. OneRequest(o, l, p)
    BY <1>7 DEF Base
  <2>2. QED
    BY <1>4, <2>1 DEF OneRequest
<1>8. DialOK(h, t, l, g)
  BY <1>6 DEF DialOK
<1>9. Base(h, t, l, g)
  BY <1>2, <1>3, <1>7, <1>8 DEF Base
<1>10. QED
  BY <1>2, <1>6, <1>7, <1>9 DEF t, m

LEMMA LayersStay ==
  ASSUME NEW h, NEW h2, NEW g, Layers(h, g),
         Talking(g) => \A p \in Protos : h.peer[p] => h2.peer[p]
  PROVE  Layers(h2, g)
<1>1. "LCP" \in Protos /\ "IPCP" \in Protos
  BY DEF Protos
<1>2. QED
  BY <1>1 DEF Layers, Talking

-----------------------------------------------------------------------------
\* The endpoint takes what a guest that does not dial has sent.
LEMMA HostTakesKeeps ==
  ASSUME IInv, HostTakes, guest.phase # "dialing"
  PROVE  IInv'
<1> DEFINE e == [h |-> host, out |-> out]
           m == Head(line)
           t == Tail(line)
           r == Take(e, m)
<1>1. /\ line # <<>> /\ host' = r.h /\ out' = r.out /\ line' = t
      /\ guest' = guest /\ used' = used
  BY DEF HostTakes
<1>2. Base(host, out, line, guest) /\ Kept(host) /\ Layers(host, guest) /\ UsedOK
      /\ (used.lost = 0 => Comes(host, line, guest)) /\ host \in HostType
  BY DEF IInv, Base, HostOK
<1>3. Base(host, out, t, guest) /\ Taken(e, m, t, guest)
  BY <1>1, <1>2, LinePasses
<1>4. IsEnd(e) /\ e.h = host /\ e.out = out
  BY <1>2, EndOf
<1>5. line \in Seq(LineAllowed(host, guest))
  BY <1>2 DEF Base
<1>6. \A M : ~Free(line, M) /\ m \notin M => ~Free(t, M)
  BY <1>1, <1>5, TailHolds
<1> HIDE DEF e, m, t
<1>7. Base(e.h, e.out, t, guest) /\ Kept(e.h)
  BY <1>2, <1>3, <1>4
<1>8. /\ Took(e, r, t, guest)
      /\ Talking(guest) => \A p \in Protos : m \in Acks(p) => r.h.local[p]
  BY <1>3, <1>4, <1>7, TakeKeeps
<1> HIDE DEF r
<1>9. /\ Base(r.h, r.out, t, guest) /\ Kept(r.h)
      /\ Talking(guest) => \A p \in Protos : /\ host.peer[p] => r.h.peer[p]
                                             /\ host.local[p] => r.h.local[p]
  BY <1>4, <1>8 DEF Took
<1>10. Layers(r.h, guest)
  BY <1>2, <1>9, LayersStay
<1>11. used.lost = 0 => Comes(r.h, t, guest)
  BY <1>2, <1>6, <1>8, <1>9 DEF Comes
<1>12. Base(host', out', line', guest') /\ Kept(host') /\ Layers(host', guest')
       /\ (used'.lost = 0 => Comes(host', line', guest'))
  BY <1>1, <1>9, <1>10, <1>11
<1>13. UsedOK'
  BY <1>1, <1>2 DEF UsedOK
<1>14. QED
  BY <1>12, <1>13 DEF IInv

-----------------------------------------------------------------------------
\* The endpoint takes the line a guest dials with.

Dialled(h) == [h EXCEPT !.mode = "data", !.sent = Each(FALSE), !.local = Each(FALSE),
                        !.peer = Each(FALSE)]

LEMMA DialledIs ==
  ASSUME NEW h \in HostType
  PROVE  /\ Dialled(h) \in HostType /\ Dialled(h).mode = "data" /\ Dialled(h).owes = h.owes
         /\ \A p \in Protos : ~Dialled(h).sent[p] /\ ~Dialled(h).local[p]
<1>1. /\ Each(FALSE) \in [Protos -> BOOLEAN] /\ \A p \in Protos : Each(FALSE)[p] = FALSE
  BY DEF Each
<1>2. /\ Dialled(h) \in HostType /\ Dialled(h).mode = "data" /\ Dialled(h).owes = h.owes
      /\ Dialled(h).sent = Each(FALSE) /\ Dialled(h).local = Each(FALSE)
  BY <1>1 DEF Dialled, HostType
<1>3. QED
  BY <1>1, <1>2

LEMMA DialledEnd ==
  ASSUME NEW e, IsEnd(e)
  PROVE  [e EXCEPT !.h.mode = "data", !.h.sent = Each(FALSE), !.h.local = Each(FALSE),
                   !.h.peer = Each(FALSE)]
           = [h |-> Dialled(e.h), out |-> e.out]
<1> DEFINE h == e.h
           none == Each(FALSE)
           h1 == [h EXCEPT !.mode = "data"]
           h2 == [h1 EXCEPT !.sent = none]
           h3 == [h2 EXCEPT !.local = none]
           h4 == [h3 EXCEPT !.peer = none]
           e1 == [e EXCEPT !.h.mode = "data"]
           e2 == [e1 EXCEPT !.h.sent = none]
           e3 == [e2 EXCEPT !.h.local = none]
           e4 == [e3 EXCEPT !.h.peer = none]
<1>1. e = [h |-> h, out |-> e.out]
  BY DEF IsEnd
<1> HIDE DEF h, none
<1>2. e1 = [h |-> h1, out |-> e.out]
  BY <1>1
<1> HIDE DEF e1, h1
<1>3. e2 = [h |-> h2, out |-> e.out]
  BY <1>2
<1> HIDE DEF e2, h2
<1>4. e3 = [h |-> h3, out |-> e.out]
  BY <1>3
<1> HIDE DEF e3, h3
<1>5. e4 = [h |-> h4, out |-> e.out]
  BY <1>4
<1>6. Dialled(h) = h4
  BY DEF Dialled, h1, h2, h3, none
<1>7. QED
  BY <1>5, <1>6 DEF e1, e2, e3, h, none

LEMMA StartDialKeeps ==
  ASSUME NEW e, IsEnd(e), e.out = <<>>, NEW g, GuestOK(e.h, g), g.phase = "dialing", ~e.h.owes
  PROVE  IsEnd(StartDial(e)) /\ Base(StartDial(e).h, StartDial(e).out, <<>>, g) /\ Kept(StartDial(e).h)
<1> DEFINE h1 == Dialled(e.h)
           h2 == Asks(h1, "LCP")
           c == Text("CONNECT")
           e1 == [h |-> h1, out |-> e.out]
           e2 == Push(e1, c)
           m == Frame("LCP", "req", h2.id["LCP"], h1.val["LCP"])
           r == Configure(e2, "LCP")
           e3 == [h |-> h2, out |-> <<c>>]
<1>1. "LCP" \in Protos /\ "IPCP" \in Protos /\ Protos = {"LCP", "IPCP"} /\ "req" \in Codes
  BY DEF Protos, Codes
<1>2. e.h \in HostType /\ g \in GuestType /\ ~Talking(g) /\ (g.answered => g.phase = "up")
  BY DEF IsEnd, GuestOK, Talking
<1>3. /\ h1 \in HostType /\ h1.mode = "data" /\ ~h1.owes
      /\ \A p \in Protos : ~h1.sent[p] /\ ~h1.local[p]
  BY <1>2, DialledIs
<1>4. /\ c \in OutMessages /\ \A p \in Protos : c \notin Asked(p) /\ c \notin Acks(p)
  BY MessageKinds, MarksOfFrames DEF OutMessages
<1>5. StartDial(e) = r
  BY DialledEnd DEF StartDial
<1> HIDE DEF h1
<1>6. /\ h2 \in HostType /\ h2.mode = "data" /\ h2.local = h1.local /\ h2.val = h1.val
      /\ h2.owes = h1.owes /\ h2.sent["LCP"] /\ (h2.sent["IPCP"] <=> h1.sent["IPCP"])
      /\ h2.req = [proto |-> "LCP", id |-> h2.id["LCP"], val |-> h1.val["LCP"]]
  BY <1>1, <1>3, AsksIs
<1>7. h2.id["LCP"] \in 0..(Ids - 1) /\ h1.val["LCP"] \in Values
  BY <1>1, <1>3, <1>6, HostFields DEF Values
<1>8. IsEnd(e2) /\ e2.h = h1 /\ e2.out = <<c>>
  <2>1. IsEnd(e1) /\ e1.h = h1 /\ e1.out = <<>>
    BY <1>3, EndOf
  <2> HIDE DEF e1
  <2>2. Len(e1.out) < RingFrames
    BY <2>1, Modulus
  <2>3. Append(<<>>, c) = <<c>>
    OBVIOUS
  <2>4. QED
    BY <2>1, <2>2, <2>3, PushIs
<1> HIDE DEF e2, c
<1>9. /\ IsEnd(r) /\ r.h = h2 /\ r.out = Push(e3, m).out
  BY <1>1, <1>8, ConfigureIs
<1> HIDE DEF h2
<1>10. /\ m \in Frames /\ m.id = h2.id["LCP"] /\ m.val = h1.val["LCP"]
       /\ \A q : (m \in Asked(q) <=> q = "LCP") /\ m \notin Acks(q)
  BY <1>1, <1>7, FrameIs
<1>11. IsEnd(e3) /\ e3.h = h2 /\ e3.out = <<c>>
  BY <1>6, EndOf
<1> HIDE DEF m, e3, r
<1>12. c \in OutAllowed(h2, g) /\ m \in OutAllowed(h2, g)
  <2>1. c \in OutAllowed(h2, g)
    BY <1>4, PlainOut
  <2>2. Awaited(h2, "LCP", m)
    BY <1>1, <1>3, <1>6, <1>10 DEF Awaited
  <2>3. m \in OutAllowed(h2, g)
    BY <1>6, <1>10, <2>2 DEF OutAllowed, OutMessages
  <2>4. QED
    BY <2>1, <2>3
<1>13. /\ r.out = <<c>> \/ r.out = <<c, m>>
       /\ r.out = <<c, m>> => Len(r.out) <= RingFrames
  <2>1. Len(<<c>>) = 1 /\ Append(<<c>>, m) = <<c, m>> /\ Len(<<c, m>>) = 2
    BY PairIs
  <2>2. r.out = IF Len(<<c>>) < RingFrames THEN Append(<<c>>, m) ELSE <<c>>
    BY <1>9, <1>11, PushIs
  <2>3. 1 < RingFrames => 2 <= RingFrames
    BY Modulus
  <2>4. CASE Len(<<c>>) < RingFrames
    BY <2>1, <2>2, <2>3, <2>4
  <2>5. CASE ~(Len(<<c>>) < RingFrames)
    <3>1. r.out = <<c>>
      BY <2>2, <2>5
    <3>2. <<c>> # <<c, m>>
      BY <2>1
    <3>3. QED
      BY <3>1, <3>2
  <2>6. QED
    BY <2>4, <2>5
<1>14. r.out \in Seq(OutAllowed(h2, g)) /\ Len(r.out) <= RingFrames
       /\ \A p \in Protos : Lone(r.out, Asked(p))
  <2>1. <<c>> \in Seq(OutAllowed(h2, g)) /\ Len(<<c>>) = 1
    BY <1>12, SingleHolds
  <2>2. \A p \in Protos : Lone(<<c>>, Asked(p)) /\ Free(<<c>>, Asked(p))
    BY <1>4, SingleHolds
  <2>3. Append(<<c>>, m) = <<c, m>>
    BY PairIs
  <2>4. Append(<<c>>, m) \in Seq(OutAllowed(h2, g))
    BY <1>12, <2>1, AppendHolds
  <2>5. \A p \in Protos : Lone(Append(<<c>>, m), Asked(p))
    BY <1>12, <2>1, <2>2, AppendHolds
  <2>6. 1 <= RingFrames
    BY Modulus
  <2>7. CASE r.out = <<c>>
    BY <2>1, <2>2, <2>6, <2>7
  <2>8. CASE r.out = <<c, m>>
    BY <1>13, <2>3, <2>4, <2>5, <2>8
  <2>9. QED
    BY <1>13, <2>7, <2>8
<1>15. HostOK(h2)
  BY <1>1, <1>3, <1>6 DEF HostOK
<1>16. GuestOK(h2, g)
  BY <1>2, <1>3, <1>6 DEF GuestOK
<1>17. DialOK(h2, r.out, <<>>, g)
  <2>1. m \in Asked("LCP")
    BY <1>10
  <2>2. \A p \in Protos : ~h2.local[p]
    BY <1>3, <1>6
  <2>3. ~h2.owes
    BY <1>3, <1>6
  <2>4. QED
    BY <1>6, <1>13, <2>1, <2>2, <2>3 DEF DialOK, c
<1>18. \A p \in Protos : OneRequest(r.out, <<>>, p)
  BY <1>14, EmptyHolds DEF OneRequest
<1>19. Base(h2, r.out, <<>>, g)
  <2>1. <<>> \in Seq(LineAllowed(h2, g))
    BY EmptyHolds
  <2>2. QED
    BY <1>14, <1>15, <1>16, <1>17, <1>18, <2>1 DEF Base
<1>20. Kept(h2)
  <2>1. SUFFICES ASSUME NEW p \in Protos, h2.sent[p], ~h2.local[p]
                 PROVE  h2.req = [proto |-> p, id |-> h2.id[p], val |-> h2.val[p]]
    BY DEF Kept
  <2>2. p = "LCP"
    BY <1>1, <1>3, <1>6, <2>1
  <2>3. QED
    BY <1>6, <2>2
<1>21. QED
  BY <1>5, <1>9, <1>19, <1>20

\* A line that is a command clears what came before it, or dials.
LEMMA TakeLineKeeps ==
  ASSUME NEW e, IsEnd(e), e.out = <<>>, NEW g, Base(e.h, <<>>, <<>>, g), Kept(e.h),
         g.phase = "dialing", NEW m
  PROVE  /\ IsEnd(TakeLine(e, m)) /\ Base(TakeLine(e, m).h, TakeLine(e, m).out, <<>>, g)
         /\ Kept(TakeLine(e, m).h)
<1> DEFINE h1 == [e.h EXCEPT !.junk = FALSE]
           e1 == [h |-> h1, out |-> e.out]
           v == h1.echo /\ m # Text("ATE0D")
           h2 == [h1 EXCEPT !.echo = v]
           e2 == [h |-> h2, out |-> e.out]
           r == StartDial(e2)
<1>1. e.h \in HostType /\ e = [h |-> e.h, out |-> e.out] /\ ~e.h.owes /\ GuestOK(e.h, g)
  BY DEF IsEnd, Base, DialOK
<1>2. Alike(e.h, h1) /\ h1.owes = e.h.owes
  BY <1>1, AlikeIs
<1>3. [e EXCEPT !.h.junk = FALSE] = e1
  <2>1. \A x : [e EXCEPT !.h.junk = x] = [h |-> [e.h EXCEPT !.junk = x], out |-> e.out]
    BY <1>1
  <2>2. QED
    BY <2>1
<1> HIDE DEF h1
<1>4. /\ h1 \in HostType /\ h1.mode = e.h.mode /\ h1.local = e.h.local /\ h1.val = e.h.val
  BY <1>2 DEF Alike
<1>5. Base(h1, <<>>, <<>>, g) /\ Kept(h1)
  BY <1>1, <1>2, AlikeKeeps
<1>6. IsEnd(e1) /\ e1.h = h1 /\ e1.out = <<>>
  BY <1>4, EndOf
<1>7. [e1 EXCEPT !.h.echo = @ /\ m # Text("ATE0D")] = e2
  <2>1. \A x : [e1 EXCEPT !.h.echo = x] = [h |-> [h1 EXCEPT !.echo = x], out |-> e.out]
    OBVIOUS
  <2>2. QED
    BY <2>1, <1>6
<1>8. h2 \in HostType /\ h2.owes = h1.owes /\ h2.mode = h1.mode /\ h2.local = h1.local /\ h2.val = h1.val
  <2>1. v \in BOOLEAN
    OBVIOUS
  <2> HIDE DEF v
  <2>2. Alike(h1, h2) /\ h2.owes = h1.owes
    BY <1>4, <2>1, AlikeIs
  <2>3. QED
    BY <2>2 DEF Alike
<1>9. TakeLine(e, m) = IF e.h.junk THEN e1 ELSE r
  BY <1>3, <1>7 DEF TakeLine
<1> HIDE DEF h2, e1
<1>10. IsEnd(e2) /\ e2.h = h2 /\ e2.out = <<>>
  BY <1>8, EndOf
<1>11. GuestOK(h2, g) /\ ~h2.owes
  BY <1>1, <1>2, <1>4, <1>8 DEF GuestOK
<1> HIDE DEF e2
<1>12. IsEnd(r) /\ Base(r.h, r.out, <<>>, g) /\ Kept(r.h)
  BY <1>10, <1>11, StartDialKeeps
<1> HIDE DEF r
<1>13. CASE e.h.junk
  <2>1. TakeLine(e, m) = e1
    BY <1>9, <1>13
  <2>2. QED
    BY <1>5, <1>6, <2>1
<1>14. CASE ~e.h.junk
  <2>1. TakeLine(e, m) = r
    BY <1>9, <1>14
  <2>2. QED
    BY <1>12, <2>1
<1>15. QED
  BY <1>13, <1>14

LEMMA HostTakesDialKeeps ==
  ASSUME IInv, HostTakes, guest.phase = "dialing"
  PROVE  IInv'
<1> DEFINE e == [h |-> host, out |-> out]
           m == Head(line)
           r == Take(e, m)
<1>1. /\ line # <<>> /\ host' = r.h /\ out' = r.out /\ line' = Tail(line)
      /\ guest' = guest /\ used' = used
  BY DEF HostTakes
<1>2. Base(host, out, line, guest) /\ Kept(host) /\ UsedOK /\ host \in HostType
  BY DEF IInv, Base, HostOK
<1>3. out = <<>> /\ m \in Dials /\ Tail(line) = <<>>
  <2>1. out = <<>> /\ \E x \in Dials : line = <<x>>
    BY <1>1, <1>2 DEF Base, DialOK
  <2>2. PICK x \in Dials : line = <<x>>
    BY <2>1
  <2>3. Head(<<x>>) = x /\ Tail(<<x>>) = <<>>
    OBVIOUS
  <2>4. QED
    BY <2>1, <2>2, <2>3
<1>4. Base(host, <<>>, <<>>, guest)
  BY <1>1, <1>2, <1>3, LinePasses
<1>5. IsEnd(e) /\ e.h = host /\ e.out = <<>>
  BY <1>2, <1>3, EndOf
<1> HIDE DEF e, m
<1>6. IsEnd(r) /\ Base(r.h, r.out, <<>>, guest) /\ Kept(r.h)
  <2>1. CASE e.h.mode = "command"
    <3>1. r = TakeLine(e, m)
      BY <1>3, <2>1 DEF Take
    <3>2. Base(e.h, <<>>, <<>>, guest) /\ Kept(e.h)
      BY <1>2, <1>4, <1>5
    <3> DEFINE c == TakeLine(e, m)
    <3>3. IsEnd(c) /\ Base(c.h, c.out, <<>>, guest) /\ Kept(c.h)
      BY <1>5, <3>2, TakeLineKeeps
    <3>4. r = c
      BY <3>1
    <3> HIDE DEF r, c
    <3>5. QED
      BY <3>3, <3>4
  <2>2. CASE e.h.mode = "data"
    <3>1. r = e
      BY <1>3, <2>2, MessageKinds DEF Take
    <3> HIDE DEF r
    <3>2. QED
      BY <1>2, <1>4, <1>5, <3>1
  <2>3. e.h.mode \in {"command", "data"}
    BY <1>2, <1>5, HostFields
  <2>4. QED
    BY <2>1, <2>2, <2>3
<1> HIDE DEF r
<1>7. ~Talking(guest) /\ guest.phase \notin {"up", "IPCP"}
  BY DEF Talking
<1>8. Layers(r.h, guest) /\ Comes(r.h, line', guest)
  BY <1>7 DEF Layers, Comes
<1>9. Base(host', out', line', guest') /\ Kept(host') /\ Layers(host', guest')
      /\ Comes(host', line', guest')
  BY <1>1, <1>3, <1>6, <1>8
<1>10. UsedOK'
  BY <1>1, <1>2 DEF UsedOK
<1>11. QED
  BY <1>9, <1>10 DEF IInv

-----------------------------------------------------------------------------
\* The network, and what is lost.

Uses == [lost : 0..MaxLost, repeats : 0..MaxRepeats, naks : 0..MaxNaks, ip : 0..MaxIp]

LEMMA UsedGrows ==
  ASSUME NEW u \in Uses
  PROVE  /\ u.lost < MaxLost => /\ [u EXCEPT !.lost = u.lost + 1] \in Uses
                                /\ [u EXCEPT !.lost = u.lost + 1].lost # 0
         /\ u.ip < MaxIp => /\ [u EXCEPT !.ip = u.ip + 1] \in Uses
                            /\ [u EXCEPT !.ip = u.ip + 1].lost = u.lost
         /\ u.naks < MaxNaks => /\ [u EXCEPT !.naks = u.naks + 1] \in Uses
                                /\ [u EXCEPT !.naks = u.naks + 1].lost = u.lost
         /\ u.repeats < MaxRepeats => /\ [u EXCEPT !.repeats = u.repeats + 1] \in Uses
                                      /\ [u EXCEPT !.repeats = u.repeats + 1].lost = u.lost
<1>1. MaxLost \in Nat /\ MaxIp \in Nat /\ MaxNaks \in Nat /\ MaxRepeats \in Nat
  BY DialUpAssumption
<1>2. \A b \in Nat : \A a \in 0..b : a < b => a + 1 \in 0..b /\ a + 1 # 0
  OBVIOUS
<1>3. u.lost \in 0..MaxLost /\ u.ip \in 0..MaxIp /\ u.naks \in 0..MaxNaks /\ u.repeats \in 0..MaxRepeats
  BY DEF Uses
<1>4. u.lost < MaxLost => /\ [u EXCEPT !.lost = u.lost + 1] \in Uses
                          /\ [u EXCEPT !.lost = u.lost + 1].lost # 0
  <2>1. u.lost < MaxLost => u.lost + 1 \in 0..MaxLost /\ u.lost + 1 # 0
    BY <1>1, <1>2, <1>3
  <2>2. \A x \in 0..MaxLost : [u EXCEPT !.lost = x] \in Uses /\ [u EXCEPT !.lost = x].lost = x
    BY DEF Uses
  <2>3. QED
    BY <2>1, <2>2
<1>5. u.ip < MaxIp => /\ [u EXCEPT !.ip = u.ip + 1] \in Uses
                      /\ [u EXCEPT !.ip = u.ip + 1].lost = u.lost
  <2>1. u.ip < MaxIp => u.ip + 1 \in 0..MaxIp
    BY <1>1, <1>2, <1>3
  <2>2. \A x \in 0..MaxIp : [u EXCEPT !.ip = x] \in Uses /\ [u EXCEPT !.ip = x].lost = u.lost
    BY DEF Uses
  <2>3. QED
    BY <2>1, <2>2
<1>6. u.naks < MaxNaks => /\ [u EXCEPT !.naks = u.naks + 1] \in Uses
                          /\ [u EXCEPT !.naks = u.naks + 1].lost = u.lost
  <2>1. u.naks < MaxNaks => u.naks + 1 \in 0..MaxNaks
    BY <1>1, <1>2, <1>3
  <2>2. \A x \in 0..MaxNaks : [u EXCEPT !.naks = x] \in Uses /\ [u EXCEPT !.naks = x].lost = u.lost
    BY DEF Uses
  <2>3. QED
    BY <2>1, <2>2
<1>7. u.repeats < MaxRepeats => /\ [u EXCEPT !.repeats = u.repeats + 1] \in Uses
                                /\ [u EXCEPT !.repeats = u.repeats + 1].lost = u.lost
  <2>1. u.repeats < MaxRepeats => u.repeats + 1 \in 0..MaxRepeats
    BY <1>1, <1>2, <1>3
  <2>2. \A x \in 0..MaxRepeats : /\ [u EXCEPT !.repeats = x] \in Uses
                                 /\ [u EXCEPT !.repeats = x].lost = u.lost
    BY DEF Uses
  <2>3. QED
    BY <2>1, <2>2
<1>8. QED
  BY <1>4, <1>5, <1>6, <1>7

\* A packet of the network may be queued for any guest that does not dial.
LEMMA PacketKeeps ==
  ASSUME NEW h, NEW o, NEW l, NEW g, Base(h, o, l, g), g.phase # "dialing"
  PROVE  Base(h, Push([h |-> h, out |-> o], Packet).out, l, g)
<1> DEFINE e == [h |-> h, out |-> o]
<1>1. h \in HostType
  BY DEF Base, HostOK
<1>2. IsEnd(e) /\ e.h = h /\ e.out = o
  BY <1>1, EndOf
<1>3. Packet \in OutMessages /\ \A p \in Protos : Packet \notin Asked(p) /\ Packet \notin Acks(p)
  BY MessageKinds, MarksOfFrames DEF OutMessages
<1> HIDE DEF e
<1>4. Packet \in OutAllowed(e.h, g)
  BY <1>3, PlainOut
<1>5. Base(e.h, e.out, l, g)
  BY <1>2
<1>6. Base(e.h, Push(e, Packet).out, l, g)
  BY <1>2, <1>3, <1>4, <1>5, PushKeeps
<1>7. QED
  BY <1>2, <1>6 DEF e

LEMMA NetworkAnswersKeeps ==
  ASSUME IInv, NetworkAnswers
  PROVE  IInv'
<1> DEFINE h2 == [host EXCEPT !.owes = FALSE]
<1>1. /\ Base(host, out, line, guest) /\ Kept(host) /\ Layers(host, guest) /\ UsedOK
      /\ (used.lost = 0 => Comes(host, line, guest)) /\ host \in HostType
  BY DEF IInv, Base, HostOK
<1>2. /\ host.owes /\ host' = h2 /\ out' = Push([h |-> host, out |-> out], Packet).out
      /\ line' = line /\ guest' = guest /\ used' = used
  BY DEF NetworkAnswers
<1>3. guest.phase # "dialing"
  BY <1>1, <1>2 DEF Base, DialOK
<1>4. Base(host, out', line, guest)
  BY <1>1, <1>2, <1>3, PacketKeeps
<1>5. Alike(host, h2)
  BY <1>1, AlikeIs
<1> HIDE DEF h2
<1>6. Base(h2, out', line, guest) /\ Kept(h2)
  BY <1>1, <1>3, <1>4, <1>5, AlikeKeeps
<1>7. h2.peer = host.peer /\ h2.local = host.local
  BY <1>5 DEF Alike
<1>8. Layers(h2, guest)
  BY <1>1, <1>7, LayersStay
<1>9. used.lost = 0 => Comes(h2, line, guest)
  BY <1>1, <1>7 DEF Comes
<1>10. UsedOK'
  BY <1>1, <1>2 DEF UsedOK
<1>11. QED
  BY <1>2, <1>6, <1>8, <1>9, <1>10 DEF IInv

LEMMA NetworkSendsKeeps ==
  ASSUME IInv, NetworkSends
  PROVE  IInv'
<1>1. /\ Base(host, out, line, guest) /\ Kept(host) /\ Layers(host, guest) /\ used \in Uses
      /\ (used.lost = 0 => Comes(host, line, guest))
  BY DEF IInv, UsedOK, Uses
<1>2. /\ guest.answered /\ used.ip < MaxIp /\ out' = Push([h |-> host, out |-> out], Packet).out
      /\ used' = [used EXCEPT !.ip = used.ip + 1]
      /\ host' = host /\ line' = line /\ guest' = guest
  BY DEF NetworkSends
<1>3. guest.phase # "dialing"
  BY <1>1, <1>2 DEF Base, GuestOK
<1>4. Base(host, out', line, guest)
  BY <1>1, <1>2, <1>3, PacketKeeps
<1>5. used' \in Uses /\ used'.lost = used.lost
  BY <1>1, <1>2, UsedGrows
<1>6. QED
  BY <1>1, <1>2, <1>4, <1>5 DEF IInv, UsedOK, Uses

LEMMA FrameLostKeeps ==
  ASSUME IInv, FrameLost
  PROVE  IInv'
<1>1. /\ Base(host, out, line, guest) /\ Kept(host) /\ Layers(host, guest) /\ used \in Uses
  BY DEF IInv, UsedOK, Uses
<1>2. /\ used.lost < MaxLost /\ used' = [used EXCEPT !.lost = used.lost + 1]
      /\ host' = host /\ guest' = guest
  BY DEF FrameLost
<1>3. used' \in Uses /\ used'.lost # 0
  BY <1>1, <1>2, UsedGrows
<1>4. Base(host, out', line', guest)
  <2>1. CASE out # <<>> /\ Head(out) # Text("CONNECT") /\ out' = Tail(out) /\ line' = line
    BY <1>1, <2>1, RingPasses
  <2>2. CASE line # <<>> /\ line' = Tail(line) /\ out' = out
    BY <1>1, <2>2, LinePasses
  <2>3. QED
    BY <2>1, <2>2 DEF FrameLost
<1>5. QED
  BY <1>1, <1>2, <1>3, <1>4 DEF IInv, UsedOK, Uses

-----------------------------------------------------------------------------
\* What the guest does of itself.

LEMMA GuestFields ==
  ASSUME NEW g \in GuestType
  PROVE  /\ g.phase \in {"hook", "dialing", "LCP", "IPCP", "up", "closing"}
         /\ g.id \in 0..(Ids - 1) /\ (g.id + 1) % Ids \in 0..(Ids - 1)
         /\ g.ask \in {"bad", "wrong", "good"} /\ g.ask \in Values
         /\ g.acked \in BOOLEAN /\ g.answered \in BOOLEAN
         /\ g.gave \in [Protos -> HostValues \cup {"none"}] /\ g.tries \in 0..2
         /\ g.tries < 2 => g.tries + 1 \in 0..2
<1>1. /\ g.phase \in {"hook", "dialing", "LCP", "IPCP", "up", "closing"}
      /\ g.id \in 0..(Ids - 1) /\ g.ask \in {"bad", "wrong", "good"}
      /\ g.gave \in [Protos -> HostValues \cup {"none"}] /\ g.tries \in 0..2
  BY DEF GuestType
<1>2. g.acked \in BOOLEAN /\ g.answered \in BOOLEAN
  BY DEF GuestType
<1>3. (g.id + 1) % Ids \in 0..(Ids - 1)
  BY <1>1, Modulus
<1>4. g.ask \in Values
  BY <1>1 DEF Values
<1>5. \A n \in 0..2 : n < 2 => n + 1 \in 0..2
  OBVIOUS
<1>6. QED
  BY <1>1, <1>2, <1>3, <1>4, <1>5

\* A guest that has come to another phase, by no dialling.
LEMMA GuestKeeps ==
  ASSUME NEW h, NEW o, NEW l, NEW g, Base(h, o, l, g), g.phase # "dialing",
         NEW g2, g2 \in GuestType, g2.phase # "dialing", g2.gave = g.gave,
         g2.answered => g2.phase = "up",
         Talking(g2) => Talking(g),
         g.phase \in {"closing", "hook"} => g2.phase \in {"closing", "hook"}
  PROVE  Base(h, o, l, g2)
<1>1. GuestOK(h, g2)
  BY DEF Base, GuestOK
<1>2. OutAllowed(h, g) \subseteq OutAllowed(h, g2)
  BY DEF OutAllowed
<1>3. LineAllowed(h, g) \subseteq LineAllowed(h, g2)
  BY DEF LineAllowed
<1>4. o \in Seq(OutAllowed(h, g)) /\ l \in Seq(LineAllowed(h, g))
  BY DEF Base
<1>5. o \in Seq(OutAllowed(h, g2)) /\ l \in Seq(LineAllowed(h, g2))
  BY <1>2, <1>3, <1>4, SeqWidens
<1>6. DialOK(h, o, l, g2)
  BY DEF DialOK
<1>7. QED
  BY <1>1, <1>5, <1>6 DEF Base

LEMMA LineGrows ==
  ASSUME NEW h, NEW o, NEW l, NEW g, Base(h, o, l, g), g.phase # "dialing",
         NEW m \in LineAllowed(h, g),
         h.mode = "data" =>
           \A p \in Protos : m \in Told(p) => Free(o, Asked(p)) /\ Free(l, Told(p))
  PROVE  Base(h, o, Append(l, m), g)
<1> DEFINE r == Append(l, m)
<1>1. l \in Seq(LineAllowed(h, g))
  BY DEF Base
<1>2. /\ r \in Seq(LineAllowed(h, g))
      /\ \A M : /\ m \notin M /\ Free(l, M) => Free(r, M)
                /\ m \notin M /\ Lone(l, M) => Lone(r, M)
                /\ Free(l, M) => Lone(r, M)
  BY <1>1, AppendHolds
<1> HIDE DEF r
<1>3. ASSUME h.mode = "data", NEW p \in Protos PROVE OneRequest(o, r, p)
  <2>1. OneRequest(o, l, p)
    BY <1>3 DEF Base
  <2>2. QED
    BY <1>2, <1>3, <2>1 DEF OneRequest
<1>4. DialOK(h, o, r, g)
  BY DEF DialOK
<1>5. Base(h, o, r, g)
  BY <1>2, <1>3, <1>4 DEF Base
<1>6. QED
  BY <1>5 DEF r

LEMMA ComesGrows ==
  ASSUME NEW S, NEW l \in Seq(S), NEW m \in S, NEW h, NEW g, Comes(h, l, g)
  PROVE  Comes(h, Append(l, m), g)
<1>1. \A M : ~Free(l, M) => ~Free(Append(l, m), M)
  BY AppendHolds
<1>2. QED
  BY <1>1 DEF Comes

LEMMA RequestIs ==
  ASSUME NEW g \in GuestType, g.phase \in Protos, NEW h
  PROVE  Request(g) \in LineAllowed(h, g) /\ \A p : Request(g) \notin Told(p)
<1>1. g.id \in 0..(Ids - 1) /\ g.ask \in Values /\ "req" \in Codes
  BY GuestFields DEF Codes
<1>2. /\ Request(g) \in Frames /\ Request(g).code = "req"
      /\ \A p : Request(g) \notin Told(p)
  BY <1>1, FrameIs DEF Request
<1>3. QED
  BY <1>2, PlainLine

LEMMA ClosingIs ==
  ASSUME NEW g \in GuestType, g.phase = "closing", NEW h
  PROVE  Closing(g) \in LineAllowed(h, g) /\ \A p : Closing(g) \notin Told(p)
<1>1. g.id \in 0..(Ids - 1) /\ "good" \in Values /\ "termreq" \in Codes /\ "LCP" \in Protos
  BY GuestFields DEF Codes, Values, Protos
<1>2. /\ Closing(g) \in Frames /\ Closing(g).code = "termreq" /\ Closing(g).proto = "LCP"
      /\ \A p : Closing(g) \notin Told(p)
  BY <1>1, FrameIs DEF Closing
<1>3. QED
  BY <1>2, MessageKinds, MarksOfFrames DEF LineAllowed, LineMessages

LEMMA RequestGrows ==
  ASSUME NEW h, NEW o, NEW l, NEW g, Base(h, o, l, g), g.phase \in Protos
  PROVE  Base(h, o, Append(l, Request(g)), g)
<1>1. g \in GuestType /\ g.phase # "dialing"
  BY DEF Base, GuestOK, Protos
<1>2. Request(g) \in LineAllowed(h, g) /\ \A p : Request(g) \notin Told(p)
  BY <1>1, RequestIs
<1>3. QED
  BY <1>1, <1>2, LineGrows

LEMMA ClosingGrows ==
  ASSUME NEW h, NEW o, NEW l, NEW g, Base(h, o, l, g), g.phase = "closing"
  PROVE  Base(h, o, Append(l, Closing(g)), g)
<1>1. g \in GuestType
  BY DEF Base, GuestOK
<1>2. Closing(g) \in LineAllowed(h, g) /\ \A p : Closing(g) \notin Told(p)
  BY <1>1, ClosingIs
<1>3. QED
  BY <1>2, LineGrows

\* What a step of the guest's alone has to keep.
LEMMA GuestSteps ==
  ASSUME IInv, host' = host, Base(host, out', line', guest'), Layers(host, guest'),
         used.lost = 0 => Comes(host, line', guest'), used' \in Uses, used'.lost = used.lost
  PROVE  IInv'
<1>1. Kept(host)
  BY DEF IInv
<1>2. QED
  BY <1>1 DEF IInv, UsedOK, Uses

LEMMA IInvIs ==
  ASSUME IInv
  PROVE  /\ Base(host, out, line, guest) /\ Kept(host) /\ Layers(host, guest) /\ used \in Uses
         /\ used.lost = 0 => Comes(host, line, guest)
         /\ host \in HostType /\ guest \in GuestType
         /\ guest.answered => guest.phase = "up"
         /\ out \in Seq(OutAllowed(host, guest)) /\ line \in Seq(LineAllowed(host, guest))
BY DEF IInv, UsedOK, Uses, Base, HostOK, GuestOK

\* A guest that is not Talking has nothing to show.
LEMMA Silent ==
  ASSUME NEW h, NEW l, NEW g, ~Talking(g)
  PROVE  Layers(h, g) /\ Comes(h, l, g)
BY DEF Layers, Comes, Talking

LEMMA AppendEmpty == \A m : Append(<<>>, m) = <<m>>
OBVIOUS

LEMMA GuestDialsKeeps ==
  ASSUME IInv, GuestDials
  PROVE  IInv'
<1> DEFINE g2 == [guest EXCEPT !.phase = "dialing"]
<1>1. /\ guest.phase \in {"hook", "dialing"} /\ out = <<>> /\ line = <<>> /\ ~host.owes
      /\ guest' = g2 /\ host' = host /\ out' = <<>> /\ used' = used
  BY DEF GuestDials, Quiet
<1>2. PICK cmd \in Dials : line' = <<cmd>>
  BY DEF GuestDials
<1>3. /\ g2 \in GuestType /\ g2.phase = "dialing" /\ g2.gave = guest.gave /\ ~g2.answered
  BY <1>1, IInvIs, GuestFields DEF GuestType
<1> HIDE DEF g2
<1>4. HostOK(host) /\ GuestOK(host, guest)
  BY DEF IInv, Base
<1>5. ~Talking(g2) /\ GuestOK(host, g2)
  BY <1>3, <1>4 DEF Talking, GuestOK
<1>6. cmd \in LineAllowed(host, g2)
  BY <1>3, MessageKinds, MarksOfFrames DEF LineAllowed, LineMessages
<1>7. <<cmd>> \in Seq(LineAllowed(host, g2)) /\ <<>> \in Seq(OutAllowed(host, g2))
  BY <1>6, SingleHolds, EmptyHolds
<1>8. Len(<<>>) <= RingFrames
  BY Modulus
<1>9. \A p \in Protos : OneRequest(<<>>, <<cmd>>, p)
  BY <1>6, SingleHolds, EmptyHolds DEF OneRequest
<1>10. DialOK(host, <<>>, <<cmd>>, g2)
  BY <1>1 DEF DialOK
<1>11. Base(host, <<>>, <<cmd>>, g2)
  BY <1>4, <1>5, <1>7, <1>8, <1>9, <1>10 DEF Base
<1>12. Layers(host, g2) /\ Comes(host, <<cmd>>, g2)
  BY <1>5, Silent
<1>13. QED
  BY <1>1, <1>2, <1>11, <1>12, IInvIs, GuestSteps

LEMMA GuestRepeatsKeeps ==
  ASSUME IInv, GuestRepeats
  PROVE  IInv'
<1>1. /\ guest.phase \in Protos /\ used.repeats < MaxRepeats /\ line' = Append(line, Request(guest))
      /\ used' = [used EXCEPT !.repeats = used.repeats + 1]
      /\ host' = host /\ out' = out /\ guest' = guest
  BY DEF GuestRepeats
<1>2. Base(host, out, line', guest)
  BY <1>1, IInvIs, RequestGrows
<1>3. Request(guest) \in LineAllowed(host, guest)
  BY <1>1, IInvIs, RequestIs
<1>4. used.lost = 0 => Comes(host, line', guest)
  <2>1. line \in Seq(LineAllowed(host, guest))
    BY IInvIs
  <2>2. Comes(host, line, guest) => Comes(host, Append(line, Request(guest)), guest)
    BY <1>3, <2>1, ComesGrows
  <2>3. QED
    BY <1>1, <2>2, IInvIs
<1>5. used' \in Uses /\ used'.lost = used.lost
  BY <1>1, IInvIs, UsedGrows
<1>6. QED
  BY <1>1, <1>2, <1>4, <1>5, IInvIs, GuestSteps

LEMMA GuestClosesKeeps ==
  ASSUME IInv, GuestCloses, guest.phase \in Protos \cup {"up"},
         host' = host, out' = out, used' = used
  PROVE  IInv'
<1> DEFINE n == (guest.id + 1) % Ids
           g1 == [guest EXCEPT !.phase = "closing", !.id = n, !.tries = 1]
           g2 == [g1 EXCEPT !.answered = FALSE]
<1>1. guest' = g2 /\ line' = Append(line, Closing(guest'))
  BY DEF GuestCloses
<1>2. guest \in GuestType /\ n \in 0..(Ids - 1) /\ 1 \in 0..2
  BY IInvIs, GuestFields
<1> HIDE DEF n
<1>3. g1 \in GuestType /\ g1.phase = "closing" /\ g1.gave = guest.gave
  BY <1>2 DEF GuestType
<1> HIDE DEF g1
<1>4. /\ g2 \in GuestType /\ g2.phase = "closing" /\ g2.gave = guest.gave /\ ~g2.answered
  BY <1>3 DEF GuestType
<1> HIDE DEF g2
<1>5. guest.phase # "dialing" /\ guest.phase \notin {"closing", "hook"} /\ ~Talking(g2)
  BY <1>4 DEF Talking, Protos
<1>6. Base(host, out, line, g2)
  BY <1>4, <1>5, IInvIs, GuestKeeps
<1>7. Base(host, out, Append(line, Closing(g2)), g2)
  BY <1>4, <1>6, ClosingGrows
<1>8. Layers(host, g2) /\ Comes(host, line', g2)
  BY <1>5, Silent
<1>9. QED
  BY <1>1, <1>7, <1>8, IInvIs, GuestSteps

LEMMA GuestHangsUpKeeps ==
  ASSUME IInv, GuestHangsUp
  PROVE  IInv'
BY GuestClosesKeeps DEF GuestHangsUp

LEMMA OnHookKeeps ==
  ASSUME NEW h, NEW o, NEW l, NEW g, Base(h, o, l, g), g.phase # "dialing"
  PROVE  Base(h, o, l, OnHook(g)) /\ ~Talking(OnHook(g))
<1> DEFINE g1 == [g EXCEPT !.phase = "hook", !.tries = 0]
           g2 == [g1 EXCEPT !.answered = FALSE]
<1>1. OnHook(g) = g2
  BY DEF OnHook
<1>2. g \in GuestType /\ 0 \in 0..2
  BY DEF Base, GuestOK
<1>3. g1 \in GuestType /\ g1.phase = "hook" /\ g1.gave = g.gave
  BY <1>2 DEF GuestType
<1> HIDE DEF g1
<1>4. g2 \in GuestType /\ g2.phase = "hook" /\ g2.gave = g.gave /\ ~g2.answered
  BY <1>3 DEF GuestType
<1> HIDE DEF g2
<1>5. ~Talking(g2)
  BY <1>4 DEF Talking
<1>6. Base(h, o, l, g2)
  BY <1>4, <1>5, GuestKeeps
<1>7. QED
  BY <1>1, <1>5, <1>6

\* The same guest, one try further.
LEMMA TriesKeep ==
  ASSUME NEW h, NEW o, NEW l, NEW g, Base(h, o, l, g), g.phase # "dialing", g.tries < 2,
         Layers(h, g)
  PROVE  LET g2 == [g EXCEPT !.tries = g.tries + 1]
         IN /\ g2 \in GuestType /\ Base(h, o, l, g2) /\ Layers(h, g2)
            /\ g2.phase = g.phase /\ g2.id = g.id /\ g2.ask = g.ask /\ g2.gave = g.gave
            /\ Comes(h, l, g) => Comes(h, l, g2)
<1> DEFINE n == g.tries + 1
           g2 == [g EXCEPT !.tries = n]
<1>1. g \in GuestType /\ (g.answered => g.phase = "up")
  BY DEF Base, GuestOK
<1>2. n \in 0..2
  BY <1>1, GuestFields
<1> HIDE DEF n
<1>3. /\ g2 \in GuestType /\ g2.phase = g.phase /\ g2.id = g.id /\ g2.ask = g.ask
      /\ g2.gave = g.gave
  BY <1>1, <1>2 DEF GuestType
<1>4. (g2.answered <=> g.answered) /\ (g2.acked <=> g.acked)
  BY <1>1, <1>2 DEF GuestType
<1> HIDE DEF g2
<1>5. Talking(g2) <=> Talking(g)
  BY <1>3 DEF Talking
<1>6. Base(h, o, l, g2)
  BY <1>1, <1>3, <1>4, <1>5, GuestKeeps
<1>7. Layers(h, g2) /\ (Comes(h, l, g) => Comes(h, l, g2))
  BY <1>3, <1>4, <1>5 DEF Layers, Comes
<1>8. QED
  BY <1>3, <1>6, <1>7 DEF g2, n

\* The same guest, its request no longer acknowledged.
LEMMA UnackedKeeps ==
  ASSUME NEW h, NEW o, NEW l, NEW g, Base(h, o, l, g), g.phase # "dialing", Layers(h, g)
  PROVE  LET g2 == [g EXCEPT !.acked = FALSE]
         IN /\ g2 \in GuestType /\ Base(h, o, l, g2) /\ Layers(h, g2)
            /\ g2.phase = g.phase /\ g2.id = g.id /\ g2.ask = g.ask
            /\ Comes(h, l, g) => Comes(h, l, g2)
<1> DEFINE g2 == [g EXCEPT !.acked = FALSE]
<1>1. g \in GuestType /\ (g.answered => g.phase = "up")
  BY DEF Base, GuestOK
<1>2. /\ g2 \in GuestType /\ g2.phase = g.phase /\ g2.id = g.id /\ g2.ask = g.ask
      /\ g2.gave = g.gave
  BY <1>1 DEF GuestType
<1>3. (g2.answered <=> g.answered) /\ ~g2.acked
  BY <1>1 DEF GuestType
<1> HIDE DEF g2
<1>4. Talking(g2) <=> Talking(g)
  BY <1>2 DEF Talking
<1>5. Base(h, o, l, g2)
  BY <1>1, <1>2, <1>3, <1>4, GuestKeeps
<1>6. Layers(h, g2) /\ (Comes(h, l, g) => Comes(h, l, g2))
  BY <1>2, <1>3, <1>4 DEF Layers, Comes
<1>7. QED
  BY <1>2, <1>5, <1>6 DEF g2

LEMMA GuestTimesOutKeeps ==
  ASSUME IInv, GuestTimesOut
  PROVE  IInv'
<1>1. /\ out = <<>> /\ line = <<>> /\ host' = host /\ out' = out /\ used' = used
      /\ used' \in Uses /\ used'.lost = used.lost
  BY IInvIs DEF GuestTimesOut, Quiet
<1>2. /\ Base(host, out, line, guest) /\ Layers(host, guest) /\ guest \in GuestType
      /\ (used.lost = 0 => Comes(host, line, guest))
  BY IInvIs
<1>3. ASSUME guest.phase \in Protos, guest.tries < 2,
             guest' = [guest EXCEPT !.tries = guest.tries + 1, !.acked = FALSE],
             line' = <<Request(guest)>>
      PROVE  IInv'
  <2> DEFINE g1 == [guest EXCEPT !.tries = guest.tries + 1]
             g2 == [g1 EXCEPT !.acked = FALSE]
  <2>1. guest.phase # "dialing" /\ guest' = g2
    BY <1>3 DEF Protos
  <2>2. /\ Base(host, out, line, g1) /\ Layers(host, g1) /\ g1.phase = guest.phase
        /\ g1.id = guest.id /\ g1.ask = guest.ask
        /\ (Comes(host, line, guest) => Comes(host, line, g1))
    BY <1>2, <1>3, <2>1, TriesKeep
  <2> HIDE DEF g1
  <2>3. /\ Base(host, out, line, g2) /\ Layers(host, g2) /\ g2.phase = guest.phase
        /\ g2.id = guest.id /\ g2.ask = guest.ask /\ g2 \in GuestType
        /\ (Comes(host, line, guest) => Comes(host, line, g2))
    BY <2>1, <2>2, UnackedKeeps
  <2> HIDE DEF g2
  <2>4. Request(guest) = Request(g2)
    BY <2>3 DEF Request
  <2>5. Base(host, out, Append(line, Request(g2)), g2)
    BY <1>3, <2>3, RequestGrows
  <2>6. Comes(host, line, g2) => Comes(host, Append(line, Request(g2)), g2)
    <3>1. line \in Seq(LineAllowed(host, g2)) /\ Request(g2) \in LineAllowed(host, g2)
      BY <1>3, <2>3, RequestIs DEF Base
    <3>2. QED
      BY <3>1, ComesGrows
  <2>7. line' = Append(line, Request(g2))
    BY <1>1, <1>3, <2>4, AppendEmpty
  <2>8. QED
    BY <1>1, <1>2, <2>1, <2>3, <2>5, <2>6, <2>7, GuestSteps
<1>4. ASSUME guest.phase = "up", guest.tries < 2,
             guest' = [guest EXCEPT !.tries = guest.tries + 1], line' = <<Packet>>
      PROVE  IInv'
  <2> DEFINE g2 == [guest EXCEPT !.tries = guest.tries + 1]
  <2>1. guest.phase # "dialing" /\ guest' = g2
    BY <1>4
  <2>2. /\ Base(host, out, line, g2) /\ Layers(host, g2) /\ g2.phase = "up"
        /\ (Comes(host, line, guest) => Comes(host, line, g2))
    BY <1>2, <1>4, <2>1, TriesKeep
  <2> HIDE DEF g2
  <2>3. Packet \in LineAllowed(host, g2) /\ \A p : Packet \notin Told(p)
    BY MessageKinds, MarksOfFrames, PlainLine
  <2>4. Base(host, out, Append(line, Packet), g2)
    BY <2>2, <2>3, LineGrows
  <2>5. Comes(host, line, g2) => Comes(host, Append(line, Packet), g2)
    <3>1. line \in Seq(LineAllowed(host, g2))
      BY <2>2 DEF Base
    <3>2. QED
      BY <2>3, <3>1, ComesGrows
  <2>6. line' = Append(line, Packet)
    BY <1>1, <1>4, AppendEmpty
  <2>7. QED
    BY <1>1, <1>2, <2>1, <2>2, <2>4, <2>5, <2>6, GuestSteps
<1>5. ASSUME guest.phase \in Protos \cup {"up"}, GuestCloses
      PROVE  IInv'
  BY <1>1, <1>5, GuestClosesKeeps
<1>6. ASSUME guest.phase = "closing", guest.tries < 2,
             guest' = [guest EXCEPT !.tries = guest.tries + 1], line' = <<Closing(guest)>>
      PROVE  IInv'
  <2> DEFINE g2 == [guest EXCEPT !.tries = guest.tries + 1]
  <2>1. guest.phase # "dialing" /\ guest' = g2
    BY <1>6
  <2>2. Base(host, out, line, g2) /\ g2.phase = "closing" /\ g2.id = guest.id
    BY <1>2, <1>6, <2>1, TriesKeep
  <2> HIDE DEF g2
  <2>3. Closing(guest) = Closing(g2)
    BY <2>2 DEF Closing
  <2>4. Base(host, out, Append(line, Closing(g2)), g2)
    BY <2>2, ClosingGrows
  <2>5. line' = Append(line, Closing(g2))
    BY <1>1, <1>6, <2>3, AppendEmpty
  <2>6. Layers(host, g2) /\ Comes(host, line', g2)
    BY <2>2, Silent DEF Talking
  <2>7. QED
    BY <1>1, <2>1, <2>4, <2>5, <2>6, GuestSteps
<1>7. ASSUME guest.phase = "closing", guest' = OnHook(guest), line' = line
      PROVE  IInv'
  <2>1. guest.phase # "dialing"
    BY <1>7
  <2>2. Base(host, out, line, OnHook(guest)) /\ ~Talking(OnHook(guest))
    BY <1>2, <2>1, OnHookKeeps
  <2>3. Layers(host, OnHook(guest)) /\ Comes(host, line', OnHook(guest))
    BY <2>2, Silent
  <2>4. QED
    BY <1>1, <1>7, <2>2, <2>3, GuestSteps
<1>8. QED
  BY <1>3, <1>4, <1>5, <1>6, <1>7 DEF GuestTimesOut

-----------------------------------------------------------------------------
\* The guest takes what the endpoint has sent.

\* All that a step of the guest's has to keep, but for the bounds.
Sound(h, o, l, g) ==
  Base(h, o, l, g) /\ Layers(h, g) /\ (used.lost = 0 => Comes(h, l, g))

LEMMA SoundSteps ==
  ASSUME IInv, host' = host, Sound(host, out', line', guest'), used' \in Uses,
         used'.lost = used.lost
  PROVE  IInv'
BY GuestSteps DEF Sound

LEMMA ConcatEnds ==
  ASSUME NEW S, NEW l \in Seq(S), NEW s \in Seq(S), NEW x \in S
  PROVE  /\ l \o s \in Seq(S) /\ l \o Append(s, x) = Append(l \o s, x)
         /\ l \o <<x>> = Append(l, x) /\ l \o <<>> = l
<1>1. l \o <<>> = l /\ l \o s \in Seq(S) /\ <<x>> \in Seq(S)
  BY ConcatEmptySeq, ConcatProperties
<1>2. Append(s, x) = s \o <<x>> /\ Append(l, x) = l \o <<x>> /\ Append(l \o s, x) = (l \o s) \o <<x>>
  BY <1>1, AppendIsConcat
<1>3. (l \o s) \o <<x>> = l \o (s \o <<x>>)
  BY <1>1, ConcatAssociative
<1>4. QED
  BY <1>1, <1>2, <1>3

LEMMA BeginningIs ==
  ASSUME NEW g \in GuestType, NEW phase \in Protos, NEW n \in Beginning(g, phase)
  PROVE  /\ n \in GuestType /\ n.phase = phase /\ n.gave = g.gave
         /\ ~n.acked /\ (n.answered <=> g.answered)
<1> DEFINE i == (g.id + 1) % Ids
           asks == {"bad", "good"} \cup (IF phase = "IPCP" THEN {"wrong"} ELSE {})
<1>1. i \in 0..(Ids - 1) /\ 0 \in 0..2
  BY GuestFields
<1>2. PICK ask \in asks :
        n = [g EXCEPT !.phase = phase, !.id = i, !.ask = ask, !.acked = FALSE, !.tries = 0]
  BY DEF Beginning
<1>3. ask \in {"bad", "wrong", "good"} /\ phase \in {"LCP", "IPCP"}
  BY DEF Protos
<1> HIDE DEF i
<1> DEFINE g1 == [g EXCEPT !.phase = phase, !.id = i, !.ask = ask]
           g2 == [g1 EXCEPT !.acked = FALSE]
           g3 == [g2 EXCEPT !.tries = 0]
<1>4. n = g3
  BY <1>2
<1>5. /\ g1 \in GuestType /\ g1.phase = phase /\ g1.gave = g.gave
      /\ (g1.answered <=> g.answered)
  BY <1>1, <1>3 DEF GuestType
<1> HIDE DEF g1
<1>6. /\ g2 \in GuestType /\ g2.phase = phase /\ g2.gave = g.gave /\ ~g2.acked
      /\ (g2.answered <=> g.answered)
  BY <1>5 DEF GuestType
<1> HIDE DEF g2
<1>7. /\ g3 \in GuestType /\ g3.phase = phase /\ g3.gave = g.gave
      /\ (g3.acked <=> g2.acked) /\ (g3.answered <=> g.answered)
  BY <1>1, <1>6 DEF GuestType
<1> HIDE DEF g3
<1>8. QED
  BY <1>4, <1>6, <1>7

\* A guest that goes on to the second layer asks for it.
LEMMA BeginKeeps ==
  ASSUME NEW h, NEW o, NEW l, NEW g, Sound(h, o, l, g), g.phase = "LCP", g.acked,
         g.gave["LCP"] # "none", NEW n \in Beginning(g, "IPCP")
  PROVE  Sound(h, o, Append(l, Request(n)), n) /\ Request(n) \in LineMessages
<1>1. /\ Base(h, o, l, g) /\ Layers(h, g) /\ (used.lost = 0 => Comes(h, l, g))
      /\ g \in GuestType /\ (g.answered => g.phase = "up")
  BY DEF Sound, Base, GuestOK
<1>2. "IPCP" \in Protos /\ "LCP" \in Protos
  BY DEF Protos
<1>3. /\ n \in GuestType /\ n.phase = "IPCP" /\ n.gave = g.gave
      /\ ~n.acked /\ (n.answered <=> g.answered)
  BY <1>1, <1>2, BeginningIs
<1>4. Talking(n) /\ Talking(g)
  BY <1>3 DEF Talking
<1>5. Base(h, o, l, n)
  BY <1>1, <1>3, <1>4, GuestKeeps
<1>6. Layers(h, n)
  BY <1>1, <1>3, <1>4 DEF Layers
<1>7. used.lost = 0 => Comes(h, l, n)
  BY <1>1, <1>3, <1>4 DEF Comes
<1>8. Base(h, o, Append(l, Request(n)), n)
  BY <1>2, <1>3, <1>5, RequestGrows
<1>9. Request(n) \in LineAllowed(h, n) /\ l \in Seq(LineAllowed(h, n))
  BY <1>2, <1>3, <1>5, RequestIs DEF Base
<1>10. used.lost = 0 => Comes(h, Append(l, Request(n)), n)
  BY <1>7, <1>9, ComesGrows
<1>11. QED
  BY <1>6, <1>8, <1>9, <1>10 DEF Sound, LineAllowed

LEMMA OnwardKeeps ==
  ASSUME NEW h, NEW o, NEW l \in Seq(LineMessages), NEW s \in Seq(LineMessages), NEW g,
         Sound(h, o, l \o s, g), g.phase \in Protos, NEW r \in Onward(g, s)
  PROVE  Sound(h, o, l \o r[2], r[1])
<1>1. CASE ~g.acked \/ g.gave[g.phase] = "none"
  <2>1. r = <<g, s>>
    BY <1>1 DEF Onward
  <2>2. QED
    BY <2>1
<1>2. CASE g.acked /\ g.gave[g.phase] # "none" /\ g.phase = "IPCP"
  <2> DEFINE g2 == [g EXCEPT !.phase = "up", !.tries = 0]
  <2>1. r = <<g2, s>>
    BY <1>2 DEF Onward
  <2>2. /\ Base(h, o, l \o s, g) /\ Layers(h, g) /\ (used.lost = 0 => Comes(h, l \o s, g))
        /\ g \in GuestType /\ 0 \in 0..2
    BY DEF Sound, Base, GuestOK
  <2>3. g2 \in GuestType /\ g2.phase = "up" /\ g2.gave = g.gave
    BY <2>2 DEF GuestType
  <2> HIDE DEF g2
  <2>4. Talking(g2) /\ Talking(g)
    BY <1>2, <2>3 DEF Talking
  <2>5. Base(h, o, l \o s, g2)
    BY <1>2, <2>2, <2>3, <2>4, GuestKeeps
  <2>6. Layers(h, g2)
    BY <1>2, <2>2, <2>3, <2>4 DEF Layers
  <2>7. used.lost = 0 => Comes(h, l \o s, g2)
    BY <2>2, <2>3, <2>4 DEF Comes
  <2>8. QED
    BY <2>1, <2>5, <2>6, <2>7 DEF Sound
<1>3. CASE g.acked /\ g.gave[g.phase] # "none" /\ g.phase = "LCP"
  <2>1. PICK n \in Beginning(g, "IPCP") : r = <<n, Append(s, Request(n))>>
    BY <1>3 DEF Onward
  <2>2. Sound(h, o, Append(l \o s, Request(n)), n) /\ Request(n) \in LineMessages
    BY <1>3, BeginKeeps
  <2>3. l \o Append(s, Request(n)) = Append(l \o s, Request(n))
    BY <2>2, ConcatEnds
  <2>4. QED
    BY <2>1, <2>2, <2>3
<1>4. QED
  BY <1>1, <1>2, <1>3 DEF Protos

\* A guest that hears the request for a layer awaits no other: what it says of
\* it is the only answer on its way.
LEMMA RequestHeard ==
  ASSUME NEW h, NEW o, NEW l, NEW g, Base(h, o, l, g), NEW m \in OutAllowed(h, g),
         m \in Frames, m.proto = g.phase, m.code = "req",
         h.mode = "data" => \A p \in Protos : m \in Asked(p) => Free(o, Asked(p)) /\ Free(l, Told(p))
  PROVE  /\ m.proto \in Protos /\ h.mode = "data" /\ Talking(g) /\ g.phase # "dialing"
         /\ Awaited(h, m.proto, m) /\ m.val = h.val[m.proto]
         /\ Free(o, Asked(m.proto)) /\ Free(l, Told(m.proto))
<1>1. m.proto \in Protos /\ m \in Asked(m.proto)
  BY MarksOfFrames DEF Asked
<1>2. Talking(g) /\ g.phase # "dialing"
  BY <1>1 DEF Talking, Protos
<1>3. h.mode \in {"command", "data"} /\ (h.mode = "command" => ~Talking(g))
  BY HostFields DEF Base, HostOK, GuestOK
<1>4. h.mode = "data"
  BY <1>2, <1>3
<1>5. QED
  BY <1>1, <1>2, <1>4 DEF OutAllowed

LEMMA TakesRequestKeeps ==
  ASSUME NEW h, NEW o, NEW l, NEW g, Sound(h, o, l, g), NEW m \in OutAllowed(h, g),
         m \in Frames, m.proto = g.phase, m.code = "req",
         h.mode = "data" => \A p \in Protos : m \in Asked(p) => Free(o, Asked(p)) /\ Free(l, Told(p)),
         NEW r \in Onward([g EXCEPT !.gave[m.proto] = m.val],
                          <<Frame(m.proto, "ack", m.id, m.val)>>)
  PROVE  Sound(h, o, l \o r[2], r[1])
<1> DEFINE p == m.proto
           gave == [g.gave EXCEPT ![p] = m.val]
           g1 == [g EXCEPT !.gave = gave]
           ack == Frame(p, "ack", m.id, m.val)
<1>1. /\ Base(h, o, l, g) /\ Layers(h, g) /\ (used.lost = 0 => Comes(h, l, g))
      /\ GuestOK(h, g) /\ HostOK(h) /\ g \in GuestType /\ h \in HostType
  BY DEF Sound, Base, GuestOK, HostOK
<1>2. /\ p \in Protos /\ h.mode = "data" /\ Talking(g) /\ g.phase # "dialing"
      /\ h.sent[p] /\ ~h.local[p] /\ m.id = h.id[p] /\ m.val = h.val[p]
      /\ Free(o, Asked(p)) /\ Free(l, Told(p))
  BY <1>1, RequestHeard DEF Awaited
<1>3. m.val \in HostValues /\ m.val # "none" /\ m.id \in 0..(Ids - 1) /\ m.val \in Values
      /\ "ack" \in Codes
  BY <1>1, <1>2, HostFields DEF HostValues, Values, Codes
<1>4. /\ gave \in [Protos -> HostValues \cup {"none"}] /\ gave[p] = m.val
      /\ \A q \in Protos : q # p => gave[q] = g.gave[q]
  BY <1>1, <1>2, <1>3, GuestFields
<1>5. /\ ack \in Frames /\ ack.code = "ack" /\ ack.id = m.id /\ ack.val = m.val
      /\ \A q : (ack \in Told(q) <=> q = p) /\ (ack \in Acks(q) <=> q = p)
  BY <1>2, <1>3, FrameIs
<1>6. r \in Onward(g1, <<ack>>)
  BY <1>2
<1> HIDE DEF ack, gave
<1>7. /\ g1 \in GuestType /\ g1.phase = g.phase /\ g1.gave = gave
      /\ (g1.acked <=> g.acked) /\ (g1.answered <=> g.answered)
  BY <1>1, <1>4 DEF GuestType
<1> HIDE DEF g1
<1>8. Talking(g1) /\ g1.phase \in Protos /\ g1.phase # "dialing"
  BY <1>2, <1>7 DEF Talking
<1>9. GuestOK(h, g1)
  BY <1>1, <1>2, <1>4, <1>7 DEF GuestOK
<1>10. Base(h, o, l, g1)
  <2>1. OutAllowed(h, g) \subseteq OutAllowed(h, g1)
    BY <1>2 DEF OutAllowed
  <2>2. \A x \in LineAllowed(h, g) : x \notin Told(p) => x \in LineAllowed(h, g1)
    <3>1. \A x, q : x \in Acks(q) => x \in Told(q)
      BY MarksOfFrames
    <3>2. QED
      BY <1>4, <1>7, <3>1 DEF LineAllowed
  <2>3. o \in Seq(OutAllowed(h, g)) /\ l \in Seq(LineAllowed(h, g))
    BY <1>1 DEF Base
  <2>4. o \in Seq(OutAllowed(h, g1))
    BY <2>1, <2>3, SeqWidens
  <2>5. l \in Seq(LineAllowed(h, g1))
    BY <1>2, <2>2, <2>3, SeqNarrows
  <2>6. DialOK(h, o, l, g1)
    BY <1>8 DEF DialOK
  <2>7. QED
    BY <1>1, <1>9, <2>4, <2>5, <2>6 DEF Base
<1>11. ack \in LineAllowed(h, g1)
  <2>1. ack \in LineMessages /\ ack \notin Dials
    BY <1>5, MessageKinds DEF LineMessages
  <2>2. \A q \in Protos : ack \in Told(q) => Awaited(h, q, ack)
    BY <1>2, <1>5 DEF Awaited
  <2>3. \A q \in Protos : ack \in Acks(q) => ack.val = h.val[q] /\ ack.val = g1.gave[q]
    BY <1>2, <1>4, <1>5, <1>7
  <2>4. QED
    BY <1>5, <2>1, <2>2, <2>3 DEF LineAllowed
<1>12. Base(h, o, Append(l, ack), g1)
  BY <1>2, <1>5, <1>8, <1>10, <1>11, LineGrows
<1>13. Layers(h, g1)
  BY <1>1, <1>2, <1>3, <1>4, <1>7, <1>8 DEF Layers, Protos
<1>14. used.lost = 0 => Comes(h, Append(l, ack), g1)
  <2>1. l \in Seq(LineAllowed(h, g1))
    BY <1>10 DEF Base
  <2>2. \A M : ack \in M \/ ~Free(l, M) => ~Free(Append(l, ack), M)
    BY <1>11, <2>1, AppendHolds
  <2>3. SUFFICES ASSUME used.lost = 0, NEW q \in Protos, g1.gave[q] # "none"
                 PROVE  h.local[q] \/ ~Free(Append(l, ack), Acks(q))
    BY DEF Comes
  <2>4. CASE q = p
    BY <1>5, <2>2, <2>4
  <2>5. CASE q # p
    BY <1>1, <1>2, <1>4, <1>7, <2>2, <2>3, <2>5 DEF Comes
  <2>6. QED
    BY <2>4, <2>5
<1>15. Sound(h, o, Append(l, ack), g1)
  BY <1>12, <1>13, <1>14 DEF Sound
<1>16. /\ l \in Seq(LineMessages) /\ ack \in LineMessages /\ <<ack>> \in Seq(LineMessages)
       /\ l \o <<ack>> = Append(l, ack)
  <2>1. l \in Seq(LineAllowed(h, g)) /\ \A x \in LineAllowed(h, g) : x \in LineMessages
    BY <1>1 DEF Base, LineAllowed
  <2>2. l \in Seq(LineMessages) /\ ack \in LineMessages
    BY <1>5, <2>1, SeqWidens DEF LineMessages
  <2>3. QED
    BY <2>2, SingleHolds, ConcatEnds
<1>17. QED
  BY <1>6, <1>8, <1>15, <1>16, OnwardKeeps

LEMMA TakesAnswerKeeps ==
  ASSUME NEW h, NEW o, NEW l, NEW g, Sound(h, o, l, g), NEW m \in OutAllowed(h, g),
         m \in Frames, m.proto = g.phase, m.code = "ack",
         NEW r \in Onward([g EXCEPT !.acked = TRUE], <<>>)
  PROVE  Sound(h, o, l \o r[2], r[1])
<1> DEFINE g1 == [g EXCEPT !.acked = TRUE]
<1>1. /\ Base(h, o, l, g) /\ Layers(h, g) /\ (used.lost = 0 => Comes(h, l, g))
      /\ g \in GuestType /\ (g.answered => g.phase = "up")
  BY DEF Sound, Base, GuestOK
<1>2. m.proto \in Protos /\ m \in Acks(m.proto)
  BY MarksOfFrames DEF Acks
<1>3. Talking(g) /\ g.phase # "dialing"
  BY <1>2 DEF Talking, Protos
<1>4. h.peer[g.phase]
  BY <1>2, <1>3 DEF OutAllowed
<1>5. g1 \in GuestType /\ g1.phase = g.phase /\ g1.gave = g.gave
  BY <1>1 DEF GuestType
<1>6. g1.answered <=> g.answered
  BY <1>1 DEF GuestType
<1> HIDE DEF g1
<1>7. Talking(g1)
  BY <1>3, <1>5 DEF Talking
<1>8. Base(h, o, l, g1)
  BY <1>1, <1>3, <1>5, <1>6, <1>7, GuestKeeps
<1>9. Layers(h, g1)
  BY <1>1, <1>2, <1>3, <1>4, <1>5, <1>7 DEF Layers, Protos
<1>10. used.lost = 0 => Comes(h, l, g1)
  BY <1>1, <1>3, <1>5, <1>7 DEF Comes
<1>11. l \in Seq(LineMessages) /\ <<>> \in Seq(LineMessages)
  <2>1. l \in Seq(LineAllowed(h, g)) /\ \A x \in LineAllowed(h, g) : x \in LineMessages
    BY <1>1 DEF Base, LineAllowed
  <2>2. QED
    BY <2>1, SeqWidens, EmptyHolds
<1>12. l \o <<>> = l
  BY <1>11, ConcatEmptySeq
<1>13. Sound(h, o, l \o <<>>, g1)
  BY <1>8, <1>9, <1>10, <1>12 DEF Sound
<1>14. g1.phase \in Protos
  BY <1>2, <1>5
<1>15. QED
  BY <1>11, <1>13, <1>14, OnwardKeeps DEF g1

\* A refused guest asks again.
LEMMA AsksAgainKeeps ==
  ASSUME NEW h, NEW o, NEW l, NEW g, Sound(h, o, l, g), g.phase \in Protos
  PROVE  LET g2 == [g EXCEPT !.id = (g.id + 1) % Ids, !.ask = "good"]
         IN Sound(h, o, l \o <<Request(g2)>>, g2)
<1> DEFINE i == (g.id + 1) % Ids
           g2 == [g EXCEPT !.id = i, !.ask = "good"]
<1>1. /\ Base(h, o, l, g) /\ Layers(h, g) /\ (used.lost = 0 => Comes(h, l, g))
      /\ g \in GuestType /\ (g.answered => g.phase = "up")
  BY DEF Sound, Base, GuestOK
<1>2. i \in 0..(Ids - 1)
  BY <1>1, GuestFields
<1> HIDE DEF i
<1>3. /\ g2 \in GuestType /\ g2.phase = g.phase /\ g2.gave = g.gave
  BY <1>1, <1>2 DEF GuestType
<1>4. (g2.acked <=> g.acked) /\ (g2.answered <=> g.answered)
  BY <1>1, <1>2 DEF GuestType
<1> HIDE DEF g2
<1>5. (Talking(g2) <=> Talking(g)) /\ g.phase # "dialing"
  BY <1>3 DEF Talking, Protos
<1>6. Base(h, o, l, g2)
  BY <1>1, <1>3, <1>4, <1>5, GuestKeeps
<1>7. Layers(h, g2) /\ (used.lost = 0 => Comes(h, l, g2))
  BY <1>1, <1>3, <1>4, <1>5 DEF Layers, Comes
<1>8. Base(h, o, Append(l, Request(g2)), g2)
  BY <1>3, <1>6, RequestGrows
<1>9. Request(g2) \in LineAllowed(h, g2) /\ l \in Seq(LineAllowed(h, g2))
  BY <1>3, <1>6, RequestIs DEF Base
<1>10. used.lost = 0 => Comes(h, Append(l, Request(g2)), g2)
  BY <1>7, <1>9, ComesGrows
<1>11. l \o <<Request(g2)>> = Append(l, Request(g2))
  BY <1>9, EmptyHolds, ConcatEnds
<1>12. Sound(h, o, l \o <<Request(g2)>>, g2)
  BY <1>7, <1>8, <1>10, <1>11 DEF Sound
<1>13. QED
  BY <1>12 DEF g2, i

\* The modem's CONNECT: the guest forgets what it agreed in another call.
LEMMA ConnectKeeps ==
  ASSUME NEW h, NEW o, NEW l, NEW g, Base(h, o, l, g), o # <<>>, Head(o) = Text("CONNECT"),
         g.phase = "dialing", NEW n \in Beginning([g EXCEPT !.gave = Each("none")], "LCP")
  PROVE  Sound(h, Tail(o), l \o <<Request(n)>>, n)
<1> DEFINE g1 == [g EXCEPT !.gave = Each("none")]
           t == Tail(o)
           c == Text("CONNECT")
<1>1. /\ HostOK(h) /\ GuestOK(h, g) /\ g \in GuestType /\ (g.answered => g.phase = "up")
  BY DEF Base, GuestOK
<1>2. /\ Each("none") \in [Protos -> HostValues \cup {"none"}]
      /\ \A p \in Protos : Each("none")[p] = "none"
  BY DEF Each
<1>3. g1 \in GuestType /\ g1.gave = Each("none")
  BY <1>1, <1>2 DEF GuestType
<1>4. g1.answered <=> g.answered
  BY <1>1, <1>2 DEF GuestType
<1> HIDE DEF g1
<1>5. /\ n \in GuestType /\ n.phase = "LCP" /\ ~n.answered /\ ~n.acked
      /\ \A p \in Protos : n.gave[p] = "none"
  <2>1. "LCP" \in Protos /\ n \in Beginning(g1, "LCP")
    BY DEF Protos, g1
  <2>2. n \in GuestType /\ n.phase = "LCP" /\ n.gave = g1.gave /\ ~n.acked /\ (n.answered <=> g1.answered)
    BY <1>3, <2>1, BeginningIs
  <2>3. QED
    BY <1>1, <1>2, <1>3, <1>4, <2>2
<1>6. /\ l = <<>> /\ h.mode = "data" /\ \A p \in Protos : ~h.local[p]
      /\ o = <<c>> \/ \E m \in Asked("LCP") : o = <<c, m>>
  BY DEF Base, DialOK
<1>7. t = <<>> \/ \E m \in Asked("LCP") : t = <<m>>
  <2>1. \A x : Tail(<<x>>) = <<>>
    OBVIOUS
  <2>2. \A x, y : Tail(<<x, y>>) = <<y>>
    OBVIOUS
  <2>3. QED
    BY <1>6, <2>1, <2>2
<1>8. o \in Seq(OutAllowed(h, g)) /\ Len(o) <= RingFrames /\ \A p \in Protos : OneRequest(o, l, p)
  BY <1>6 DEF Base
<1>9. t \in Seq(OutAllowed(h, g)) /\ Len(t) = Len(o) - 1 /\ Len(o) \in Nat
  BY <1>8, TailIs
<1>10. Len(t) <= RingFrames
  BY <1>8, <1>9, Modulus
<1> HIDE DEF t
<1>11. t \in Seq(OutAllowed(h, n))
  <2>1. CASE t = <<>>
    BY <2>1, EmptyHolds
  <2>2. CASE \E m \in Asked("LCP") : t = <<m>>
    <3>1. PICK m \in Asked("LCP") : t = <<m>>
      BY <2>2
    <3>2. m = t[1] /\ 1 \in 1..Len(t)
      BY <3>1
    <3>3. m \in OutAllowed(h, g)
      BY <1>9, <3>2, ElementOfSeq
    <3>4. \A q : m \notin Acks(q)
      BY MarksOfFrames
    <3>5. m \in OutAllowed(h, n)
      BY <3>3, <3>4 DEF OutAllowed
    <3>6. QED
      BY <3>1, <3>5, SingleHolds
  <2>3. QED
    BY <1>7, <2>1, <2>2
<1>12. \A p \in Protos : OneRequest(t, <<>>, p)
  <2>1. \A p : Lone(t, Asked(p))
    BY <1>7, EmptyHolds, SingleHolds
  <2>2. QED
    BY <2>1, EmptyHolds DEF OneRequest
<1>13. GuestOK(h, n)
  BY <1>5, <1>6 DEF GuestOK
<1>14. DialOK(h, t, <<>>, n)
  BY <1>5 DEF DialOK
<1>15. Base(h, t, <<>>, n)
  BY <1>1, <1>10, <1>11, <1>12, <1>13, <1>14, EmptyHolds DEF Base
<1>16. Base(h, t, Append(<<>>, Request(n)), n)
  BY <1>5, <1>15, RequestGrows DEF Protos
<1>17. l \o <<Request(n)>> = Append(<<>>, Request(n))
  <2>1. <<>> \in Seq({Request(n)}) /\ Request(n) \in {Request(n)}
    BY EmptyHolds
  <2>2. <<>> \o <<Request(n)>> = Append(<<>>, Request(n))
    BY <2>1, ConcatEnds
  <2>3. QED
    BY <1>6, <2>2
<1>18. Layers(h, n)
  BY <1>5 DEF Layers
<1>19. Comes(h, Append(<<>>, Request(n)), n)
  BY <1>5 DEF Comes
<1>20. QED
  BY <1>16, <1>17, <1>18, <1>19 DEF Sound, t

LEMMA AnsweredKeeps ==
  ASSUME NEW h, NEW o, NEW l, NEW g, Sound(h, o, l, g), g.phase = "up"
  PROVE  Sound(h, o, l, [g EXCEPT !.answered = TRUE])
<1> DEFINE g2 == [g EXCEPT !.answered = TRUE]
<1>1. /\ Base(h, o, l, g) /\ Layers(h, g) /\ (used.lost = 0 => Comes(h, l, g))
      /\ g \in GuestType
  BY DEF Sound, Base, GuestOK
<1>2. g2 \in GuestType /\ g2.phase = g.phase /\ g2.gave = g.gave
  BY <1>1 DEF GuestType
<1>3. g2.acked <=> g.acked
  BY <1>1 DEF GuestType
<1> HIDE DEF g2
<1>4. Talking(g2) /\ Talking(g)
  BY <1>2 DEF Talking
<1>5. Base(h, o, l, g2)
  BY <1>1, <1>2, <1>4, GuestKeeps
<1>6. Layers(h, g2) /\ (used.lost = 0 => Comes(h, l, g2))
  BY <1>1, <1>2, <1>3, <1>4 DEF Layers, Comes
<1>7. QED
  BY <1>5, <1>6 DEF Sound, g2

LEMMA GuestTakesKeeps ==
  ASSUME IInv, GuestTakes
  PROVE  IInv'
<1> DEFINE m == Head(out)
           t == Tail(out)
<1>1. /\ out # <<>> /\ out' = t /\ host' = host /\ used' = used
  BY DEF GuestTakes
<1>2. PICK r \in Outcomes(m) : guest' = r[1] /\ line' = line \o r[2]
  BY DEF GuestTakes
<1>3. /\ Base(host, out, line, guest) /\ Layers(host, guest) /\ used \in Uses
      /\ (used.lost = 0 => Comes(host, line, guest)) /\ guest \in GuestType
      /\ line \in Seq(LineAllowed(host, guest))
  BY IInvIs
<1>4. line \o <<>> = line
  BY <1>3, ConcatEmptySeq
<1>5. SUFFICES Sound(host, t, line \o r[2], r[1])
  BY <1>1, <1>2, <1>3, SoundSteps
<1>6. CASE m = Text("CONNECT") /\ guest.phase = "dialing"
  <2>1. r \in {<<g, <<Request(g)>>>> : g \in Beginning([guest EXCEPT !.gave = Each("none")], "LCP")}
    BY <1>6, MessageKinds DEF Outcomes
  <2>2. PICK n \in Beginning([guest EXCEPT !.gave = Each("none")], "LCP") : r = <<n, <<Request(n)>>>>
    BY <2>1
  <2>3. Sound(host, t, line \o <<Request(n)>>, n)
    BY <1>1, <1>3, <1>6, ConnectKeeps
  <2>4. QED
    BY <2>2, <2>3
<1>7. CASE ~(m = Text("CONNECT") /\ guest.phase = "dialing")
  <2>1. /\ guest.phase # "dialing" /\ Base(host, t, line, guest) /\ m \in OutAllowed(host, guest)
        /\ host.mode = "data" =>
             \A p \in Protos : m \in Asked(p) => Free(t, Asked(p)) /\ Free(line, Told(p))
    BY <1>1, <1>3, <1>7, RingPasses
  <2>2. Sound(host, t, line, guest)
    BY <1>3, <2>1 DEF Sound
  <2> HIDE DEF m, t
  <2>3. CASE m = Text("NO CARRIER")
    <3>1. r = <<OnHook(guest), <<>>>>
      BY <2>1, <2>3, MessageKinds DEF Outcomes
    <3>2. Base(host, t, line, OnHook(guest)) /\ Layers(host, OnHook(guest))
          /\ Comes(host, line, OnHook(guest))
      BY <2>1, OnHookKeeps, Silent
    <3>3. QED
      BY <1>4, <3>1, <3>2 DEF Sound
  <2>4. CASE m = Packet /\ guest.phase = "up"
    <3>1. r = <<[guest EXCEPT !.answered = TRUE], <<>>>>
      BY <2>4, MessageKinds DEF Outcomes
    <3>2. Sound(host, t, line, [guest EXCEPT !.answered = TRUE])
      BY <2>2, <2>4, AnsweredKeeps
    <3>3. QED
      BY <1>4, <3>1, <3>2
  <2>5. CASE m \in Frames /\ m.proto = guest.phase /\ m.code = "req"
    <3>1. r \in TakesRequest(m)
      BY <2>5, MessageKinds DEF Outcomes
    <3>2. QED
      BY <2>1, <2>2, <2>5, <3>1, TakesRequestKeeps DEF TakesRequest
  <2>6. CASE m \in Frames /\ m.proto = guest.phase /\ m.code \in {"ack", "nak", "rej"}
    <3>1. r \in TakesAnswer(m)
      BY <2>6, MessageKinds DEF Outcomes
    <3>2. CASE m.id # guest.id \/ guest.acked
      <4>1. r = <<guest, <<>>>>
        BY <3>1, <3>2 DEF TakesAnswer
      <4>2. QED
        BY <1>4, <2>2, <4>1
    <3>3. CASE ~(m.id # guest.id \/ guest.acked) /\ m.code = "ack"
      <4>1. r \in Onward([guest EXCEPT !.acked = TRUE], <<>>)
        BY <3>1, <3>3 DEF TakesAnswer
      <4>2. QED
        BY <2>1, <2>2, <2>6, <3>3, <4>1, TakesAnswerKeeps
    <3>4. CASE ~(m.id # guest.id \/ guest.acked) /\ m.code # "ack"
      <4> DEFINE g2 == [guest EXCEPT !.id = (guest.id + 1) % Ids, !.ask = "good"]
      <4>1. r = <<g2, <<Request(g2)>>>>
        BY <3>1, <3>4 DEF TakesAnswer
      <4>2. guest.phase \in Protos
        BY <2>6, MarksOfFrames
      <4>3. Sound(host, t, line \o <<Request(g2)>>, g2)
        BY <2>2, <4>2, AsksAgainKeeps
      <4> HIDE DEF g2
      <4>4. QED
        BY <4>1, <4>3
    <3>5. QED
      BY <3>2, <3>3, <3>4
  <2>7. CASE m \in Frames /\ m.code = "termack" /\ guest.phase = "closing"
    <3>1. r = <<OnHook(guest), <<>>>>
      BY <2>7, MessageKinds DEF Outcomes
    <3>2. Base(host, t, line, OnHook(guest)) /\ Layers(host, OnHook(guest))
          /\ Comes(host, line, OnHook(guest))
      BY <2>1, OnHookKeeps, Silent
    <3>3. QED
      BY <1>4, <3>1, <3>2 DEF Sound
  <2>8. CASE /\ m # Text("NO CARRIER") /\ ~(m = Packet /\ guest.phase = "up")
             /\ ~(m \in Frames /\ m.proto = guest.phase /\ m.code = "req")
             /\ ~(m \in Frames /\ m.proto = guest.phase /\ m.code \in {"ack", "nak", "rej"})
             /\ ~(m \in Frames /\ m.code = "termack" /\ guest.phase = "closing")
    <3>1. r = <<guest, <<>>>>
      BY <1>7, <2>8 DEF Outcomes
    <3>2. QED
      BY <1>4, <2>2, <3>1
  <2>9. QED
    BY <2>3, <2>4, <2>5, <2>6, <2>7, <2>8
<1>8. QED
  BY <1>6, <1>7

LEMMA GuestNaksKeeps ==
  ASSUME IInv, GuestNaks
  PROVE  IInv'
<1> DEFINE m == Head(out)
           t == Tail(out)
           p == m.proto
           nak == Frame(p, "nak", m.id, "theirs")
<1>1. /\ out # <<>> /\ used.naks < MaxNaks
      /\ m \in Frames /\ m.proto = guest.phase /\ m.code = "req" /\ m.val = "ours"
      /\ line' = Append(line, nak) /\ out' = t
      /\ used' = [used EXCEPT !.naks = used.naks + 1]
      /\ host' = host /\ guest' = guest
  BY DEF GuestNaks
<1>2. /\ Base(host, out, line, guest) /\ Layers(host, guest) /\ used \in Uses
      /\ (used.lost = 0 => Comes(host, line, guest))
  BY IInvIs
<1>3. m # Text("CONNECT")
  BY <1>1, MessageKinds
<1>4. /\ Base(host, t, line, guest) /\ m \in OutAllowed(host, guest)
      /\ host.mode = "data" =>
           \A q \in Protos : m \in Asked(q) => Free(t, Asked(q)) /\ Free(line, Told(q))
  BY <1>1, <1>2, <1>3, RingPasses
<1> HIDE DEF m, t
<1>5. /\ p \in Protos /\ host.mode = "data" /\ guest.phase # "dialing"
      /\ host.sent[p] /\ ~host.local[p] /\ m.id = host.id[p]
      /\ Free(t, Asked(p)) /\ Free(line, Told(p))
  BY <1>1, <1>4, RequestHeard DEF Awaited
<1>6. m.id \in 0..(Ids - 1) /\ "nak" \in Codes /\ "theirs" \in Values
  BY <1>1, MarksOfFrames DEF Codes, Values, HostValues
<1>7. /\ nak \in Frames /\ nak.code = "nak" /\ nak.id = m.id /\ nak.val = "theirs"
      /\ \A q : (nak \in Told(q) <=> q = p) /\ nak \notin Acks(q)
  BY <1>5, <1>6, FrameIs
<1> HIDE DEF nak, p
<1>8. nak \in LineAllowed(host, guest)
  <2>1. nak \in LineMessages /\ nak \notin Dials
    BY <1>7, MessageKinds DEF LineMessages
  <2>2. \A q \in Protos : nak \in Told(q) => Awaited(host, q, nak)
    BY <1>5, <1>7 DEF Awaited
  <2>3. QED
    BY <1>7, <2>1, <2>2 DEF LineAllowed
<1>9. Base(host, t, Append(line, nak), guest)
  BY <1>4, <1>5, <1>7, <1>8, LineGrows
<1>10. used.lost = 0 => Comes(host, Append(line, nak), guest)
  <2>1. line \in Seq(LineAllowed(host, guest))
    BY <1>2 DEF Base
  <2>2. QED
    BY <1>2, <1>8, <2>1, ComesGrows
<1>11. used' \in Uses /\ used'.lost = used.lost
  BY <1>1, <1>2, UsedGrows
<1>12. QED
  BY <1>1, <1>2, <1>9, <1>10, <1>11, GuestSteps

-----------------------------------------------------------------------------

LEMMA InitIInv == Init => IInv
<1> SUFFICES ASSUME Init PROVE IInv
  OBVIOUS
<1>1. /\ Each(FALSE) \in [Protos -> BOOLEAN] /\ \A p \in Protos : Each(FALSE)[p] = FALSE
      /\ Each(0) \in [Protos -> 0..(Ids - 1)] /\ Each("ours") \in [Protos -> HostValues]
      /\ Each("none") \in [Protos -> HostValues \cup {"none"}]
      /\ [proto |-> "LCP", id |-> 0, val |-> "ours"]
           \in [proto : Protos, id : 0..(Ids - 1), val : HostValues]
  BY Modulus DEF Each, HostValues, Protos
<1>2. /\ host \in HostType /\ host.mode = "command" /\ host.sent = Each(FALSE)
      /\ host.local = Each(FALSE) /\ host.owes = FALSE
  BY <1>1 DEF Init, HostType
<1>3. /\ guest \in GuestType /\ guest.phase = "hook" /\ guest.answered = FALSE
  BY <1>1, Modulus DEF Init, GuestType
<1>4. out = <<>> /\ line = <<>>
      /\ used = [lost |-> 0, repeats |-> 0, naks |-> 0, ip |-> 0]
  BY DEF Init
<1>5. UsedOK
  BY <1>4, DialUpAssumption DEF UsedOK
<1>6. HostOK(host) /\ Kept(host)
  BY <1>1, <1>2 DEF HostOK, Kept, Protos
<1>7. ~Talking(guest) /\ guest.phase # "dialing"
  BY <1>3 DEF Talking
<1>8. GuestOK(host, guest)
  BY <1>1, <1>2, <1>3, <1>7 DEF GuestOK
<1>9. Layers(host, guest) /\ Comes(host, line, guest)
  BY <1>7, Silent
<1>10. Len(<<>>) <= RingFrames
  BY Modulus
<1>11. Base(host, out, line, guest)
  BY <1>2, <1>4, <1>6, <1>7, <1>8, <1>10, EmptyHolds DEF Base, DialOK
<1>12. QED
  BY <1>5, <1>6, <1>9, <1>11 DEF IInv

LEMMA NextIInv == IInv /\ [Next]_vars => IInv'
<1> SUFFICES ASSUME IInv, [Next]_vars PROVE IInv'
  OBVIOUS
<1>1. CASE HostTakes
  BY <1>1, HostTakesKeeps, HostTakesDialKeeps
<1>2. CASE NetworkAnswers
  BY <1>2, NetworkAnswersKeeps
<1>3. CASE NetworkSends
  BY <1>3, NetworkSendsKeeps
<1>4. CASE FrameLost
  BY <1>4, FrameLostKeeps
<1>5. CASE GuestTakes
  BY <1>5, GuestTakesKeeps
<1>6. CASE GuestNaks
  BY <1>6, GuestNaksKeeps
<1>7. CASE GuestDials
  BY <1>7, GuestDialsKeeps
<1>8. CASE GuestTimesOut
  BY <1>8, GuestTimesOutKeeps
<1>9. CASE GuestRepeats
  BY <1>9, GuestRepeatsKeeps
<1>10. CASE GuestHangsUp
  BY <1>10, GuestHangsUpKeeps
<1>11. CASE UNCHANGED vars
  BY <1>11 DEF vars, IInv, UsedOK
<1>12. QED
  BY <1>1, <1>2, <1>3, <1>4, <1>5, <1>6, <1>7, <1>8, <1>9, <1>10, <1>11 DEF Next

\* A layer the endpoint holds acknowledged is open with the value the guest took
\* in this call, in every order of frames, repeats and refusals.
THEOREM Agree == Spec => []Agreement
<1>1. IInv => Agreement
  BY DEF IInv, Base, GuestOK, Agreement
<1>2. QED
  BY <1>1, InitIInv, NextIInv, PTL DEF Spec

\* Both ends keep their types, the ring its size, and the endpoint, while it
\* waits for an acknowledgement, the request that is to be acknowledged.
THEOREM RequestKept == Spec => []RequestOK
<1>1. IInv => RequestOK
  <2> SUFFICES ASSUME IInv PROVE RequestOK
    OBVIOUS
  <2>1. /\ host \in HostType /\ guest \in GuestType /\ Len(out) <= RingFrames
        /\ out \in Seq(OutAllowed(host, guest)) /\ line \in Seq(LineAllowed(host, guest))
        /\ UsedOK /\ Kept(host)
    BY DEF IInv, Base, HostOK, GuestOK
  <2>2. /\ \A m \in OutAllowed(host, guest) : m \in OutMessages
        /\ \A m \in LineAllowed(host, guest) : m \in LineMessages
    BY DEF OutAllowed, LineAllowed
  <2>3. out \in Seq(OutMessages) /\ line \in Seq(LineMessages)
    BY <2>1, <2>2, SeqWidens
  <2>4. TypeOK
    BY <2>1, <2>3 DEF TypeOK, UsedOK, OutMessages, LineMessages
  <2>5. KeptRequestIsTheOneAwaited
    BY <2>1 DEF Kept, KeptRequestIsTheOneAwaited
  <2>6. QED
    BY <2>4, <2>5 DEF RequestOK
<1>2. QED
  BY <1>1, InitIInv, NextIInv, PTL DEF Spec

\* In whatever order the acknowledgements cross, when nothing was lost and all
\* is delivered the endpoint has both layers open when the guest has.
THEOREM BothEndsUp == Spec => []UpAtBothEnds
<1>1. IInv => UpAtBothEnds
  <2> SUFFICES ASSUME IInv, guest.phase = "up", line = <<>>, used.lost = 0 PROVE Open(host)
    BY DEF UpAtBothEnds
  <2>1. Layers(host, guest) /\ Comes(host, line, guest) /\ Talking(guest)
    BY DEF IInv, Talking
  <2>2. host.peer["LCP"] /\ host.peer["IPCP"]
    BY <2>1 DEF Layers
  <2>3. guest.gave["LCP"] # "none" /\ guest.gave["IPCP"] # "none"
    BY <2>1 DEF Layers
  <2>4. \A p : Free(line, Acks(p))
    BY EmptyHolds
  <2>5. host.local["LCP"] /\ host.local["IPCP"]
    BY <2>1, <2>3, <2>4 DEF Comes, Protos
  <2>6. QED
    BY <2>2, <2>5 DEF Open, Protos
<1>2. QED
  BY <1>1, InitIInv, NextIInv, PTL DEF Spec
=============================================================================
