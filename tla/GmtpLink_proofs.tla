--------------------------- MODULE GmtpLink_proofs ---------------------------
(***************************************************************************)
(* The package link keeps its window, counts nothing as acknowledged that  *)
(* was not taken, and implements PackageTransfer, for a package of any     *)
(* length, any modulus of the numbers, and any number of damaged frames,   *)
(* repeats, pings and unasked commands.                                    *)
(*                                                                         *)
(* Frames show their numbers modulo Wrap; the invariants say what they     *)
(* stand for.  Beside a channel runs a sequence of places: the whole       *)
(* number of each of its frames.                                           *)
(***************************************************************************)
EXTENDS GmtpLink, SequenceTheorems, TLAPS

\* The frames of one kind have their places in lo..hi, each at least step
\* after the one before it.
Placed(frames, places, kind, step, lo, hi) ==
  /\ \A i \in 1..Len(frames) : frames[i].kind = kind => places[i] \in lo..hi
  /\ \A i, j \in 1..Len(frames) :
       i < j /\ frames[i].kind = kind /\ frames[j].kind = kind
         => places[i] + step <= places[j]

\* What the frames of one kind show of their places.
Shown(frames, places, kind) ==
  \A i \in 1..Len(frames) : frames[i].kind = kind => frames[i].number = places[i] % Wrap

-----------------------------------------------------------------------------
\* Numbers modulo Wrap.

LEMMA Moduli == \A w \in Windows : w \in {1, 3} /\ Wrap \in Nat /\ w < Wrap /\ Wrap > 1
BY LinkAssumption

LEMMA RemainderType ==
  ASSUME NEW m \in Nat, m > 0, NEW x \in Int
  PROVE  x % m \in 0..(m - 1)
OBVIOUS

\* The distance of a number from what another one shows, less than a modulus.
LEMMA ShownDistance ==
  ASSUME NEW m \in Nat, m > 0, NEW x \in Int, NEW y \in Int, y <= x, x - y < m
  PROVE  ((x % m) - y) % m = x - y
OBVIOUS

\* Two numbers less than a modulus apart show the same only if they are equal.
LEMMA ShownDiffer ==
  ASSUME NEW m \in Nat, m > 0, NEW x \in Int, NEW y \in Int, x % m = y % m,
         x - y < m, y - x < m
  PROVE  x = y
<1>1. CASE y <= x
  <2>1. ((x % m) - y) % m = x - y
    BY <1>1, ShownDistance
  <2>2. ((y % m) - y) % m = y - y
    <3>1. y <= y /\ y - y < m
      OBVIOUS
    <3>2. QED
      BY <3>1, ShownDistance
  <2>3. QED
    BY <2>1, <2>2
<1>2. CASE x <= y
  <2>1. ((y % m) - x) % m = y - x
    BY <1>2, ShownDistance
  <2>2. ((x % m) - x) % m = x - x
    <3>1. x <= x /\ x - x < m
      OBVIOUS
    <3>2. QED
      BY <3>1, ShownDistance
  <2>3. QED
    BY <2>1, <2>2
<1>3. QED
  BY <1>1, <1>2

-----------------------------------------------------------------------------
\* Places and channels.

\* A channel and its places are extended, cut and joined together.
LEMMA AppendPairs ==
  ASSUME NEW S, NEW frames \in Seq(S), NEW places \in Seq(Nat), Len(places) = Len(frames),
         NEW frame \in S, NEW place \in Nat
  PROVE  LET f == Append(frames, frame)
             p == Append(places, place)
         IN /\ f \in Seq(S) /\ p \in Seq(Nat) /\ Len(p) = Len(f)
            /\ Len(frames) \in Nat /\ Len(f) = Len(frames) + 1
            /\ \A i \in 1..Len(f) : i \in 1..Len(frames) \/ i = Len(frames) + 1
            /\ \A i \in 1..Len(frames) : /\ i \in 1..Len(f)
                                         /\ f[i] = frames[i] /\ p[i] = places[i] /\ places[i] \in Nat
            /\ f[Len(frames) + 1] = frame /\ p[Len(frames) + 1] = place
<1> DEFINE f == Append(frames, frame)
           p == Append(places, place)
<1>1. /\ f \in Seq(S) /\ p \in Seq(Nat) /\ Len(p) = Len(f)
      /\ Len(frames) \in Nat /\ Len(f) = Len(frames) + 1
      /\ \A i \in 1..Len(frames) : f[i] = frames[i] /\ p[i] = places[i] /\ places[i] \in Nat
      /\ f[Len(frames) + 1] = frame /\ p[Len(frames) + 1] = place
  BY AppendProperties, LenProperties, ElementOfSeq
<1> HIDE DEF f, p
<1>2. /\ \A i \in 1..Len(f) : i \in 1..Len(frames) \/ i = Len(frames) + 1
      /\ \A i \in 1..Len(frames) : i \in 1..Len(f)
  BY <1>1
<1>3. QED
  BY <1>1, <1>2 DEF f, p

LEMMA TailPairs ==
  ASSUME NEW S, NEW frames \in Seq(S), NEW places \in Seq(Nat), Len(places) = Len(frames),
         frames # <<>>
  PROVE  LET f == Tail(frames)
             p == Tail(places)
         IN /\ f \in Seq(S) /\ p \in Seq(Nat) /\ Len(p) = Len(f)
            /\ Len(frames) \in Nat /\ Len(frames) > 0 /\ Len(f) = Len(frames) - 1
            /\ \A i \in 1..Len(f) : /\ i + 1 \in 1..Len(frames) /\ 1 < i + 1
                                    /\ f[i] = frames[i + 1] /\ p[i] = places[i + 1]
                                    /\ places[i + 1] \in Nat
            /\ 1 \in 1..Len(frames) /\ Head(frames) = frames[1] /\ frames[1] \in S
            /\ places[1] \in Nat
<1> DEFINE f == Tail(frames)
           p == Tail(places)
<1>1. Len(frames) \in Nat /\ Len(frames) > 0 /\ places # <<>>
  BY EmptySeq, LenProperties
<1>2. /\ f \in Seq(S) /\ p \in Seq(Nat)
      /\ Len(f) = Len(frames) - 1 /\ Len(p) = Len(frames) - 1
      /\ \A i \in 1..Len(f) : f[i] = frames[i + 1]
      /\ \A i \in 1..Len(p) : p[i] = places[i + 1]
  BY <1>1, HeadTailProperties
<1>3. /\ \A i \in 1..Len(places) : places[i] \in Nat
      /\ \A i \in 1..Len(frames) : frames[i] \in S
      /\ Head(frames) = frames[1]
  BY <1>1, ElementOfSeq
<1> HIDE DEF f, p
<1>4. /\ \A i \in 1..Len(f) : i + 1 \in 1..Len(frames) /\ 1 < i + 1 /\ i \in 1..Len(p)
      /\ 1 \in 1..Len(frames)
  BY <1>1, <1>2
<1>5. QED
  BY <1>1, <1>2, <1>3, <1>4 DEF f, p

Joined(f, p, frames, places, frames2, places2) ==
  LET n == Len(frames)
  IN /\ Len(p) = Len(f)
     /\ n \in Nat /\ Len(frames2) \in Nat /\ Len(f) = n + Len(frames2)
     /\ \A i \in 1..Len(f) : i \in 1..n \/ i > n
     /\ \A i \in 1..n : /\ i \in 1..Len(f)
                        /\ f[i] = frames[i] /\ p[i] = places[i] /\ places[i] \in Nat
     /\ \A i \in 1..Len(f) : i > n => /\ i - n \in 1..Len(frames2)
                                      /\ f[i] = frames2[i - n] /\ p[i] = places2[i - n]
                                      /\ places2[i - n] \in Nat

LEMMA ConcatPairs ==
  ASSUME NEW S, NEW frames \in Seq(S), NEW places \in Seq(Nat), Len(places) = Len(frames),
         NEW frames2 \in Seq(S), NEW places2 \in Seq(Nat), Len(places2) = Len(frames2)
  PROVE  /\ frames \o frames2 \in Seq(S) /\ places \o places2 \in Seq(Nat)
         /\ Joined(frames \o frames2, places \o places2, frames, places, frames2, places2)
<1> DEFINE f == frames \o frames2
           p == places \o places2
           n == Len(frames)
<1>1. n \in Nat /\ Len(frames2) \in Nat
  BY LenProperties
<1>2. /\ f \in Seq(S) /\ Len(f) = n + Len(frames2)
      /\ \A i \in 1..n + Len(frames2) : f[i] = IF i <= n THEN frames[i] ELSE frames2[i - n]
  BY ConcatProperties
<1>3. /\ p \in Seq(Nat) /\ Len(p) = Len(places) + Len(places2)
      /\ \A i \in 1..Len(places) + Len(places2) :
           p[i] = IF i <= Len(places) THEN places[i] ELSE places2[i - Len(places)]
  BY ConcatProperties
<1>4. /\ \A i \in 1..n : places[i] \in Nat
      /\ \A i \in 1..Len(frames2) : places2[i] \in Nat
  BY ElementOfSeq
<1>5. Len(places) = n
  OBVIOUS
<1> HIDE DEF f, p, n
<1>6. /\ \A i \in 1..n : i \in 1..n + Len(frames2) /\ i <= n
      /\ \A i \in 1..Len(f) : i > n => i - n \in 1..Len(frames2) /\ ~(i <= n)
      /\ \A i \in 1..Len(f) : i \in 1..n \/ i > n
  BY <1>1, <1>2
<1>7. Joined(f, p, frames, places, frames2, places2)
  BY <1>1, <1>2, <1>3, <1>4, <1>5, <1>6 DEF Joined, n
<1>8. QED
  BY <1>2, <1>3, <1>7 DEF f, p

LEMMA PlacedWiden ==
  ASSUME NEW S, NEW frames \in Seq(S), NEW places \in Seq(Nat), Len(places) = Len(frames),
         NEW kind, NEW step \in Nat, NEW lo \in Int, NEW hi \in Int,
         Placed(frames, places, kind, step, lo, hi),
         NEW lo2 \in Int, NEW hi2 \in Int, lo2 <= lo, hi <= hi2
  PROVE  Placed(frames, places, kind, step, lo2, hi2)
<1>1. \A i \in 1..Len(frames) : places[i] \in Nat
  OBVIOUS
<1>2. QED
  BY <1>1 DEF Placed

LEMMA PlacedAppend ==
  ASSUME NEW S, NEW frames \in Seq(S), NEW places \in Seq(Nat), Len(places) = Len(frames),
         NEW kind, NEW step \in Nat, NEW lo \in Int, NEW hi \in Int,
         Placed(frames, places, kind, step, lo, hi),
         NEW frame \in S, NEW place \in Nat, NEW hi2 \in Int, hi <= hi2,
         frame.kind = kind => place \in lo..hi2 /\ hi + step <= place
  PROVE  Placed(Append(frames, frame), Append(places, place), kind, step, lo, hi2)
<1> DEFINE f == Append(frames, frame)
           p == Append(places, place)
<1>1. /\ Len(frames) \in Nat /\ Len(f) = Len(frames) + 1
      /\ \A i \in 1..Len(frames) : f[i] = frames[i] /\ p[i] = places[i] /\ places[i] \in Nat
      /\ f[Len(frames) + 1] = frame /\ p[Len(frames) + 1] = place
  BY AppendPairs
<1> HIDE DEF f, p
<1>2. \A i \in 1..Len(f) : i \in 1..Len(frames) \/ i = Len(frames) + 1
  BY <1>1
<1>3. \A i \in 1..Len(f) : f[i].kind = kind => p[i] \in lo..hi2
  BY <1>1, <1>2, SMTT(30) DEF Placed
<1>4. ASSUME NEW i \in 1..Len(f), NEW j \in 1..Len(f), i < j, f[i].kind = kind, f[j].kind = kind
      PROVE  p[i] + step <= p[j]
  <2>1. i \in 1..Len(frames)
    BY <1>1, <1>4
  <2>2. p[i] \in lo..hi /\ p[i] = places[i] /\ f[i] = frames[i]
    BY <1>1, <1>4, <2>1 DEF Placed
  <2>3. CASE j \in 1..Len(frames)
    BY <1>1, <1>4, <2>1, <2>2, <2>3 DEF Placed
  <2>4. CASE j = Len(frames) + 1
    BY <1>1, <1>4, <2>2, <2>4
  <2>5. QED
    BY <1>2, <2>3, <2>4
<1>5. QED
  BY <1>3, <1>4 DEF Placed, f, p

\* The frame taken from a channel was the lowest of its kind.
LEMMA PlacedTail ==
  ASSUME NEW S, NEW frames \in Seq(S), NEW places \in Seq(Nat), Len(places) = Len(frames),
         NEW kind, NEW step \in Nat, NEW lo \in Int, NEW hi \in Int,
         Placed(frames, places, kind, step, lo, hi), frames # <<>>,
         NEW lo2 \in Int,
         IF Head(frames).kind = kind THEN lo2 <= places[1] + step ELSE lo2 <= lo
  PROVE  Placed(Tail(frames), Tail(places), kind, step, lo2, hi)
<1> DEFINE f == Tail(frames)
           p == Tail(places)
<1>1. /\ Len(frames) \in Nat /\ Len(frames) > 0 /\ Len(f) = Len(frames) - 1
      /\ \A i \in 1..Len(f) : f[i] = frames[i + 1] /\ p[i] = places[i + 1] /\ places[i + 1] \in Nat
      /\ Head(frames) = frames[1] /\ places[1] \in Nat
  BY TailPairs
<1> HIDE DEF f, p
<1>2. 1 \in 1..Len(frames) /\ \A i \in 1..Len(f) : i + 1 \in 1..Len(frames) /\ 1 < i + 1
  <2> DEFINE m == Len(frames)
  <2>1. m \in Nat /\ m > 0 /\ Len(f) = m - 1
    BY <1>1
  <2> HIDE DEF m
  <2>2. 1 \in 1..m /\ \A i \in 1..(m - 1) : i + 1 \in 1..m /\ 1 < i + 1
    BY <2>1
  <2>3. QED
    BY <2>1, <2>2 DEF m
<1>3. ASSUME NEW i \in 1..Len(f), f[i].kind = kind
      PROVE  p[i] \in lo2..hi
  <2>1. p[i] = places[i + 1] /\ p[i] \in lo..hi /\ p[i] \in Nat
    BY <1>1, <1>2, <1>3 DEF Placed
  <2>2. CASE frames[1].kind = kind
    <3>1. frames[i + 1].kind = kind
      <4>1. f[i] = frames[i + 1]
        BY <1>1
      <4>2. QED
        BY <1>3, <4>1
    <3>2. places[1] + step <= p[i]
      <4>1. places[1] + step <= places[i + 1]
        BY <1>2, <2>2, <3>1 DEF Placed
      <4>2. QED
        BY <2>1, <4>1
    <3>3. lo2 <= places[1] + step /\ places[1] \in Nat
      BY <1>1, <2>2
    <3>4. p[i] <= hi /\ p[i] \in Nat
      BY <2>1
    <3>5. QED
      BY <3>2, <3>3, <3>4
  <2>3. CASE frames[1].kind # kind
    <3>1. lo2 <= lo
      BY <1>1, <2>3
    <3>2. QED
      BY <2>1, <3>1
  <2>4. QED
    BY <2>2, <2>3
<1>4. ASSUME NEW i \in 1..Len(f), NEW j \in 1..Len(f), i < j, f[i].kind = kind, f[j].kind = kind
      PROVE  p[i] + step <= p[j]
  <2>1. i + 1 \in 1..Len(frames) /\ j + 1 \in 1..Len(frames) /\ i + 1 < j + 1
    BY <1>2, <1>4
  <2>2. frames[i + 1].kind = kind /\ frames[j + 1].kind = kind
    BY <1>1, <1>4
  <2>3. places[i + 1] + step <= places[j + 1]
    BY <2>1, <2>2 DEF Placed
  <2>4. QED
    BY <1>1, <2>3
<1>5. QED
  BY <1>3, <1>4 DEF Placed, f, p

LEMMA PlacedConcat ==
  ASSUME NEW S, NEW frames \in Seq(S), NEW places \in Seq(Nat), Len(places) = Len(frames),
         NEW frames2 \in Seq(S), NEW places2 \in Seq(Nat), Len(places2) = Len(frames2),
         NEW kind, NEW step \in Nat, NEW lo \in Int, NEW mid \in Int, NEW hi \in Int,
         Placed(frames, places, kind, step, lo, mid),
         Placed(frames2, places2, kind, step, mid + step, hi),
         lo <= mid + step, mid <= hi
  PROVE  Placed(frames \o frames2, places \o places2, kind, step, lo, hi)
<1> DEFINE f == frames \o frames2
           p == places \o places2
           n == Len(frames)
<1>0. Joined(f, p, frames, places, frames2, places2)
  BY ConcatPairs
<1>1. /\ n \in Nat /\ Len(frames2) \in Nat /\ Len(f) = n + Len(frames2)
      /\ \A i \in 1..n : f[i] = frames[i] /\ p[i] = places[i] /\ places[i] \in Nat
      /\ \A i \in 1..Len(f) : i > n => /\ i - n \in 1..Len(frames2)
                                       /\ f[i] = frames2[i - n] /\ p[i] = places2[i - n]
                                       /\ places2[i - n] \in Nat
  <2> HIDE DEF f, p
  <2>1. QED
    BY <1>0 DEF Joined
<1> HIDE DEF f, p, n
<1>2. \A i \in 1..Len(f) : i \in 1..n \/ i > n
  BY <1>1
<1>3. \A i \in 1..n : f[i].kind = kind => p[i] \in lo..mid
  BY <1>1 DEF Placed, n
<1>4. \A i \in 1..Len(f) : i > n /\ f[i].kind = kind => p[i] \in (mid + step)..hi
  BY <1>1 DEF Placed
<1>5. \A i \in 1..Len(f) : f[i].kind = kind => p[i] \in lo..hi
  BY <1>1, <1>2, <1>3, <1>4
<1>6. ASSUME NEW i \in 1..Len(f), NEW j \in 1..Len(f), i < j, f[i].kind = kind, f[j].kind = kind
      PROVE  p[i] + step <= p[j]
  <2>1. CASE j \in 1..n
    <3>1. i \in 1..n
      BY <1>1, <1>6, <2>1
    <3>2. QED
      BY <1>1, <1>6, <2>1, <3>1 DEF Placed, n
  <2>2. CASE i \in 1..n /\ j > n
    BY <1>1, <1>3, <1>4, <1>6, <2>2, SMTT(30)
  <2>3. CASE i > n
    <3>1. j > n
      BY <1>1, <1>6, <2>3
    <3>2. i - n < j - n
      BY <1>1, <1>6
    <3>3. QED
      BY <1>1, <1>6, <2>3, <3>1, <3>2 DEF Placed
  <2>4. QED
    BY <1>2, <2>1, <2>2, <2>3
<1>7. QED
  BY <1>5, <1>6 DEF Placed, f, p

LEMMA ShownConcat ==
  ASSUME NEW S, NEW frames \in Seq(S), NEW places \in Seq(Nat), Len(places) = Len(frames),
         NEW frames2 \in Seq(S), NEW places2 \in Seq(Nat), Len(places2) = Len(frames2),
         NEW kind, Shown(frames, places, kind), Shown(frames2, places2, kind)
  PROVE  Shown(frames \o frames2, places \o places2, kind)
<1>1. Joined(frames \o frames2, places \o places2, frames, places, frames2, places2)
  BY ConcatPairs
<1> DEFINE f == frames \o frames2
           p == places \o places2
<1> HIDE DEF f, p
<1>2. Shown(f, p, kind)
  BY <1>1 DEF Shown, Joined, f, p
<1>3. QED
  BY <1>2 DEF f, p

LEMMA ShownAppend ==
  ASSUME NEW S, NEW frames \in Seq(S), NEW places \in Seq(Nat), Len(places) = Len(frames),
         NEW frame \in S, NEW place \in Nat,
         NEW kind, Shown(frames, places, kind), frame.kind = kind => frame.number = place % Wrap
  PROVE  Shown(Append(frames, frame), Append(places, place), kind)
BY AppendPairs DEF Shown

LEMMA ShownTail ==
  ASSUME NEW S, NEW frames \in Seq(S), NEW places \in Seq(Nat), Len(places) = Len(frames),
         NEW kind, Shown(frames, places, kind), frames # <<>>
  PROVE  Shown(Tail(frames), Tail(places), kind)
BY TailPairs, SMTT(30) DEF Shown

-----------------------------------------------------------------------------
\* The host's end.

ToGuest == Messages(HostCommands) \cup Acks
ToHost == Messages(GuestCommands) \cup Acks

EndType == [host : HostType, out : Seq(ToGuest), pending : Seq(Messages(HostCommands))]

Numbered(e, cmds) ==
  [i \in DOMAIN cmds |-> [kind |-> "msg", cmd |-> cmds[i],
                          number |-> (e.host.block + i - 1) % Wrap]]

\* What the window holds back, a full window holds back.
Held(e) == e.pending # <<>> => e.host.sent = e.host.acked + e.host.window

WindowRoom(e) == e.host.acked <= e.host.sent /\ e.host.sent <= e.host.acked + e.host.window

\* r is e after cmds got their numbers, of which now went out, and spent more
\* numbers were lost.
Emission(e, r, cmds, now, spent) ==
  /\ now \in 0..Len(cmds) /\ spent \in {0, 1} /\ cmds \in Seq(HostCommands)
  /\ r \in EndType
  /\ r.host.window = e.host.window /\ r.host.acked = e.host.acked
  /\ r.host.received = e.host.received /\ r.host.offered = e.host.offered
  /\ r.host.packageSent = e.host.packageSent /\ r.host.packageEnd = e.host.packageEnd
  /\ r.host.packageAcked = e.host.packageAcked
  /\ r.host.block = e.host.block + Len(cmds) + spent
  /\ r.host.sent = e.host.sent + now
  /\ r.out = e.out \o SubSeq(Numbered(e, cmds), 1, now)
  /\ r.pending = e.pending \o SubSeq(Numbered(e, cmds), now + 1, Len(cmds))
  /\ now > 0 => e.pending = <<>>
  /\ WindowRoom(r) /\ Held(r)

LEMMA NumberedType ==
  ASSUME NEW e \in EndType, NEW cmds \in Seq(HostCommands), NEW w \in Windows
  PROVE  /\ Numbered(e, cmds) \in Seq(Messages(HostCommands))
         /\ Len(Numbered(e, cmds)) = Len(cmds)
         /\ \A i \in 1..Len(cmds) :
              Numbered(e, cmds)[i] = [kind |-> "msg", cmd |-> cmds[i],
                                      number |-> (e.host.block + i - 1) % Wrap]
<1>1. /\ Len(cmds) \in Nat /\ DOMAIN cmds = 1..Len(cmds)
      /\ \A i \in 1..Len(cmds) : cmds[i] \in HostCommands
  BY LenProperties, ElementOfSeq
<1>2. e.host.block \in Nat
  BY DEF EndType, HostType
<1>3. \A i \in 1..Len(cmds) : (e.host.block + i - 1) % Wrap \in 0..(Wrap - 1)
  <2> TAKE i \in 1..Len(cmds)
  <2>1. e.host.block + i - 1 \in Int
    BY <1>1, <1>2
  <2>2. QED
    BY <2>1, Moduli, RemainderType
<1>4. \A i \in 1..Len(cmds) :
        [kind |-> "msg", cmd |-> cmds[i], number |-> (e.host.block + i - 1) % Wrap]
          \in Messages(HostCommands)
  BY <1>1, <1>3 DEF Messages
<1>5. Numbered(e, cmds) \in [1..Len(cmds) -> Messages(HostCommands)]
  BY <1>1, <1>4 DEF Numbered
<1>6. QED
  BY <1>1, <1>5, SeqDef DEF Numbered

LEMMA SubSeqType ==
  ASSUME NEW S, NEW s \in Seq(S), NEW m \in 1..(Len(s) + 1), NEW n \in (m - 1)..Len(s)
  PROVE  /\ SubSeq(s, m, n) \in Seq(S) /\ Len(SubSeq(s, m, n)) = n - m + 1
         /\ \A i \in 1..(n - m + 1) : SubSeq(s, m, n)[i] = s[m + i - 1] /\ m + i - 1 \in 1..Len(s)
<1>1. Len(s) \in Nat
  BY LenProperties
<1>2. \A i \in m..n : s[i] \in S
  BY <1>1, ElementOfSeq
<1>3. m \in Int /\ n \in Int
  BY <1>1
<1>4. /\ SubSeq(s, m, n) \in Seq(S)
      /\ Len(SubSeq(s, m, n)) = IF m <= n THEN n - m + 1 ELSE 0
      /\ \A i \in 1..(n - m + 1) : SubSeq(s, m, n)[i] = s[m + i - 1]
  BY <1>2, <1>3, SubSeqProperties
<1>5. QED
  BY <1>1, <1>4, SMTT(30)

LEMMA EmitAllIs ==
  ASSUME NEW e \in EndType, WindowRoom(e), Held(e), NEW cmds \in Seq(HostCommands)
  PROVE  /\ Emission(e, EmitAll(e, cmds), cmds, Least(Room(e), Len(cmds)), 0)
         /\ EmitAll(e, cmds).host.state = e.host.state
<1> DEFINE now == Least(Room(e), Len(cmds))
           h == [e.host EXCEPT !.block = @ + Len(cmds), !.sent = @ + now]
           number == Numbered(e, cmds)
<1>1. /\ e.host \in HostType /\ e.host.window \in Windows /\ e.host.window \in Nat
      /\ e.host.sent \in Nat /\ e.host.acked \in Nat /\ e.host.block \in Nat
      /\ Len(cmds) \in Nat
  BY Moduli, LenProperties DEF EndType, HostType
<1>2. /\ Room(e) \in Nat /\ Room(e) = e.host.window - (e.host.sent - e.host.acked)
  BY <1>1 DEF WindowRoom, Room
<1>3. now \in 0..Len(cmds) /\ now <= Room(e) /\ (now < Len(cmds) => now = Room(e))
  BY <1>1, <1>2 DEF Least
<1> HIDE DEF now
<1>4. /\ h \in HostType /\ h.block = e.host.block + Len(cmds) /\ h.sent = e.host.sent + now
      /\ h.window = e.host.window /\ h.acked = e.host.acked /\ h.received = e.host.received
      /\ h.offered = e.host.offered /\ h.packageSent = e.host.packageSent
      /\ h.packageEnd = e.host.packageEnd /\ h.state = e.host.state
      /\ (h.packageAcked <=> e.host.packageAcked) /\ h.packageAcked = e.host.packageAcked
  <2>1. e.host.block + Len(cmds) \in Nat /\ e.host.sent + now \in Nat
    BY <1>1, <1>3
  <2>2. QED
    BY <1>1, <2>1 DEF HostType
<1>5. number \in Seq(Messages(HostCommands)) /\ Len(number) = Len(cmds)
  BY <1>1, NumberedType
<1> HIDE DEF h, number
<1>6. /\ SubSeq(number, 1, now) \in Seq(Messages(HostCommands))
      /\ SubSeq(number, now + 1, Len(cmds)) \in Seq(Messages(HostCommands))
      /\ Len(SubSeq(number, now + 1, Len(cmds))) = Len(cmds) - now
  <2>1. /\ 1 \in 1..(Len(number) + 1) /\ now \in (1 - 1)..Len(number)
        /\ now + 1 \in 1..(Len(number) + 1) /\ Len(cmds) \in (now + 1 - 1)..Len(number)
    BY <1>1, <1>3, <1>5
  <2>2. /\ SubSeq(number, 1, now) \in Seq(Messages(HostCommands))
        /\ SubSeq(number, now + 1, Len(cmds)) \in Seq(Messages(HostCommands))
        /\ Len(SubSeq(number, now + 1, Len(cmds))) = Len(cmds) - (now + 1) + 1
    BY <1>5, <2>1, SubSeqType
  <2>3. QED
    BY <1>1, <1>3, <2>2
<1>7. /\ e.out \in Seq(ToGuest) /\ e.pending \in Seq(Messages(HostCommands))
  BY DEF EndType
<1>8. e.out \o SubSeq(number, 1, now) \in Seq(ToGuest)
  <2>1. SubSeq(number, 1, now) \in Seq(ToGuest)
    BY <1>6, SeqMonotonic DEF ToGuest
  <2>2. QED
    BY <1>7, <2>1, ConcatProperties
<1>9. /\ e.pending \o SubSeq(number, now + 1, Len(cmds)) \in Seq(Messages(HostCommands))
      /\ Len(e.pending \o SubSeq(number, now + 1, Len(cmds))) = Len(e.pending) + Len(cmds) - now
      /\ Len(e.pending) \in Nat
  <2>1. /\ e.pending \o SubSeq(number, now + 1, Len(cmds)) \in Seq(Messages(HostCommands))
        /\ Len(e.pending \o SubSeq(number, now + 1, Len(cmds)))
             = Len(e.pending) + Len(SubSeq(number, now + 1, Len(cmds)))
    BY <1>6, <1>7, ConcatProperties
  <2>2. Len(e.pending) \in Nat
    BY <1>7, LenProperties
  <2>3. QED
    BY <1>1, <1>3, <1>6, <2>1, <2>2
<1> DEFINE q == EmitAll(e, cmds)
<1>10. /\ q.host = h /\ q.out = e.out \o SubSeq(number, 1, now)
       /\ q.pending = e.pending \o SubSeq(number, now + 1, Len(cmds))
       /\ q = [host |-> h, out |-> e.out \o SubSeq(number, 1, now),
               pending |-> e.pending \o SubSeq(number, now + 1, Len(cmds))]
  BY DEF EmitAll, Numbered, h, number, now
<1>11. q \in EndType
  BY <1>4, <1>8, <1>9, <1>10 DEF EndType
<1> HIDE DEF q
<1>12. now > 0 => e.pending = <<>>
  BY <1>1, <1>2, <1>3 DEF Held
<1>n. /\ q.host.block = e.host.block + Len(cmds) /\ q.host.sent = e.host.sent + now
      /\ q.host.window = e.host.window /\ q.host.acked = e.host.acked
  BY <1>4, <1>10
<1>13. WindowRoom(q)
  <2>1. e.host.acked <= e.host.sent + now /\ e.host.sent + now <= e.host.acked + e.host.window
    <3>1. now \in Nat /\ now <= e.host.window - (e.host.sent - e.host.acked)
      BY <1>2, <1>3, <1>1
    <3>2. \A a, b, w, n \in Nat : a <= b /\ n <= w - (b - a) => a <= b + n /\ b + n <= a + w
      OBVIOUS
    <3>3. QED
      BY <1>1, <3>1, <3>2 DEF WindowRoom
  <2>2. QED
    BY <1>n, <2>1 DEF WindowRoom
<1>14. Held(q)
  <2> SUFFICES ASSUME q.pending # <<>> PROVE q.host.sent = q.host.acked + q.host.window
    BY DEF Held
  <2>1. CASE e.pending # <<>>
    BY <1>1, <1>4, <1>10, <1>12, <1>3, <2>1 DEF Held
  <2>2. CASE e.pending = <<>>
    <3>1. Len(q.pending) # 0
      BY <1>9, <1>10, EmptySeq
    <3>2. Len(e.pending) = 0
      BY <2>2, EmptySeq
    <3>3. now < Len(cmds)
      BY <1>1, <1>3, <1>9, <1>10, <3>1, <3>2
    <3>4. QED
      BY <1>1, <1>2, <1>3, <1>4, <1>10, <3>3
  <2>3. QED
    BY <2>1, <2>2
<1>15. QED
  <2>1. q.host.block = e.host.block + Len(cmds) + 0
    BY <1>1, <1>n
  <2>2. Emission(e, q, cmds, now, 0)
    BY <1>3, <1>4, <1>10, <1>11, <1>12, <1>13, <1>14, <2>1 DEF Emission, number
  <2>3. QED
    BY <2>2, <1>4, <1>10 DEF q, now

\* An emission may fail the link, or lose one more number.
LEMMA EmissionFails ==
  ASSUME NEW e \in EndType, NEW r, NEW cmds, NEW now, Emission(e, r, cmds, now, 0)
  PROVE  /\ Emission(e, Failed(r), cmds, now, 0)
         /\ Emission(e, [r EXCEPT !.host.block = @ + 1], cmds, now, 1)
<1>1. r \in EndType /\ r.host \in HostType /\ r.host.block \in Nat
  BY DEF Emission, EndType, HostType
<1> DEFINE h == [r.host EXCEPT !.state = "FAILED"]
           k == [r.host EXCEPT !.block = @ + 1]
<1>2. /\ h \in HostType /\ k \in HostType
      /\ h.window = r.host.window /\ h.acked = r.host.acked /\ h.received = r.host.received
      /\ h.offered = r.host.offered /\ h.packageSent = r.host.packageSent
      /\ h.packageEnd = r.host.packageEnd /\ h.packageAcked = r.host.packageAcked
      /\ h.block = r.host.block /\ h.sent = r.host.sent
      /\ k.window = r.host.window /\ k.acked = r.host.acked /\ k.received = r.host.received
      /\ k.offered = r.host.offered /\ k.packageSent = r.host.packageSent
      /\ k.packageEnd = r.host.packageEnd /\ k.packageAcked = r.host.packageAcked
      /\ k.block = r.host.block + 1 /\ k.sent = r.host.sent
  BY <1>1 DEF HostType
<1> HIDE DEF h, k
<1> DEFINE f == [r EXCEPT !.host = h]
           g == [r EXCEPT !.host = k]
<1>3. /\ f \in EndType /\ f.host = h /\ f.out = r.out /\ f.pending = r.pending
      /\ g \in EndType /\ g.host = k /\ g.out = r.out /\ g.pending = r.pending
  BY <1>1, <1>2 DEF EndType
<1>4. Failed(r) = f /\ [r EXCEPT !.host.block = @ + 1] = g
  BY DEF Failed, h, k
<1> HIDE DEF f, g
<1>5. WindowRoom(f) /\ Held(f) /\ WindowRoom(g) /\ Held(g)
  BY <1>2, <1>3 DEF Emission, WindowRoom, Held
<1>6. e.host.block + Len(cmds) + 0 + 1 = e.host.block + Len(cmds) + 1
  <2>1. e.host.block \in Nat /\ Len(cmds) \in Nat
    BY LenProperties DEF EndType, HostType, Emission
  <2>2. QED
    BY <2>1
<1>7. Emission(e, f, cmds, now, 0)
  BY <1>2, <1>3, <1>5 DEF Emission
<1>8. Emission(e, g, cmds, now, 1)
  BY <1>2, <1>3, <1>5, <1>6 DEF Emission
<1>9. QED
  BY <1>4, <1>7, <1>8

\* What goes out of an emission and what is held back.
Parted(e, r, cmds, now, new, rest) ==
  /\ r.out = e.out \o new /\ r.pending = e.pending \o rest
  /\ Len(new) = now /\ Len(rest) = Len(cmds) - now
  /\ \A i \in 1..now :
       new[i] = [kind |-> "msg", cmd |-> cmds[i],
                 number |-> (e.host.block + i - 1) % Wrap]
  /\ \A i \in 1..(Len(cmds) - now) :
       rest[i] = [kind |-> "msg", cmd |-> cmds[now + i],
                  number |-> (e.host.block + (now + i) - 1) % Wrap]

LEMMA EmissionParts ==
  ASSUME NEW e \in EndType, NEW r, NEW cmds, NEW now, NEW spent, Emission(e, r, cmds, now, spent)
  PROVE  \E new, rest \in Seq(Messages(HostCommands)) :
           Parted(e, r, cmds, now, new, rest)
<1> DEFINE number == Numbered(e, cmds)
           new == SubSeq(number, 1, now)
           rest == SubSeq(number, now + 1, Len(cmds))
<1>1. cmds \in Seq(HostCommands) /\ Len(cmds) \in Nat /\ now \in 0..Len(cmds)
  BY LenProperties DEF Emission
<1>2. e.host.window \in Windows
  BY DEF EndType, HostType
<1>3. /\ number \in Seq(Messages(HostCommands)) /\ Len(number) = Len(cmds)
      /\ \A i \in 1..Len(cmds) :
           number[i] = [kind |-> "msg", cmd |-> cmds[i],
                        number |-> (e.host.block + i - 1) % Wrap]
  BY <1>1, <1>2, NumberedType
<1>4. r.out = e.out \o new /\ r.pending = e.pending \o rest
  BY DEF Emission
<1> HIDE DEF number
<1>5. /\ 1 \in 1..(Len(number) + 1) /\ now \in (1 - 1)..Len(number)
      /\ now + 1 \in 1..(Len(number) + 1) /\ Len(cmds) \in (now + 1 - 1)..Len(number)
  BY <1>1, <1>3
<1>6. /\ new \in Seq(Messages(HostCommands)) /\ Len(new) = now - 1 + 1
      /\ \A i \in 1..(now - 1 + 1) : new[i] = number[1 + i - 1] /\ 1 + i - 1 \in 1..Len(number)
  BY <1>3, <1>5, SubSeqType
<1>7. /\ rest \in Seq(Messages(HostCommands)) /\ Len(rest) = Len(cmds) - (now + 1) + 1
      /\ \A i \in 1..(Len(cmds) - (now + 1) + 1) :
           rest[i] = number[now + 1 + i - 1] /\ now + 1 + i - 1 \in 1..Len(number)
  BY <1>3, <1>5, SubSeqType
<1> HIDE DEF new, rest
<1>8. /\ now - 1 + 1 = now /\ Len(cmds) - (now + 1) + 1 = Len(cmds) - now
      /\ \A i \in 1..now : 1 + i - 1 = i
      /\ \A i \in 1..(Len(cmds) - now) : now + 1 + i - 1 = now + i
  BY <1>1
<1>9. \A i \in 1..now :
        new[i] = [kind |-> "msg", cmd |-> cmds[i], number |-> (e.host.block + i - 1) % Wrap]
  BY <1>3, <1>6, <1>8
<1>10. \A i \in 1..(Len(cmds) - now) :
         rest[i] = [kind |-> "msg", cmd |-> cmds[now + i],
                    number |-> (e.host.block + (now + i) - 1) % Wrap]
  BY <1>3, <1>7, <1>8
<1>11. QED
  <2>1. Parted(e, r, cmds, now, new, rest)
    BY <1>4, <1>6, <1>7, <1>8, <1>9, <1>10 DEF Parted
  <2>2. QED
    BY <1>6, <1>7, <2>1

Fault == [at : Nat, loud : BOOLEAN]

\* Emit numbers the commands, or those before the fault.
LEMMA EmitIs ==
  ASSUME NEW e \in EndType, WindowRoom(e), Held(e),
         NEW cmds \in Seq(HostCommands), NEW fault \in Fault
  PROVE  /\ Emitted(cmds, fault) =>
              /\ Emit(e, cmds, fault).host.state = e.host.state
              /\ \E now \in Nat : Emission(e, Emit(e, cmds, fault), cmds, now, 0)
         /\ ~Emitted(cmds, fault) =>
              \E now \in Nat, spent \in {0, 1} :
                Emission(e, Emit(e, cmds, fault), SubSeq(cmds, 1, fault.at - 1), now, spent)
         /\ Emit(e, cmds, fault).host.state \in {e.host.state, "FAILED"}
<1>1. Len(cmds) \in Nat
  BY LenProperties
<1>2. CASE Emitted(cmds, fault)
  <2> DEFINE now == Least(Room(e), Len(cmds))
  <2>1. Emit(e, cmds, fault) = EmitAll(e, cmds)
    BY <1>2 DEF Emit, Emitted
  <2>2. Emission(e, EmitAll(e, cmds), cmds, now, 0) /\ EmitAll(e, cmds).host.state = e.host.state
    BY EmitAllIs
  <2>3. now \in Nat
    <3> HIDE DEF now
    <3>1. now \in 0..Len(cmds)
      BY <2>2 DEF Emission
    <3>2. QED
      BY <1>1, <3>1
  <2> HIDE DEF now
  <2>4. QED
    BY <1>2, <2>1, <2>2, <2>3
<1>3. CASE ~Emitted(cmds, fault)
  <2> DEFINE said == SubSeq(cmds, 1, fault.at - 1)
             now == Least(Room(e), Len(said))
             before == EmitAll(e, said)
  <2>1. fault.at \in 1..Len(cmds)
    BY <1>3 DEF Emitted
  <2>2. said \in Seq(HostCommands)
    <3>1. 1 \in 1..(Len(cmds) + 1) /\ fault.at - 1 \in (1 - 1)..Len(cmds)
      BY <1>1, <2>1
    <3>2. QED
      BY <3>1, SubSeqType
  <2> HIDE DEF said
  <2>3. Emission(e, before, said, now, 0) /\ before.host.state = e.host.state
    BY <2>2, EmitAllIs
  <2>4. now \in Nat
    <3>1. Len(said) \in Nat
      BY <2>2, LenProperties
    <3> HIDE DEF now
    <3>2. now \in 0..Len(said)
      BY <2>3 DEF Emission
    <3>3. QED
      BY <3>1, <3>2
  <2> HIDE DEF now, before
  <2>5. /\ Emission(e, Failed(before), said, now, 0)
        /\ Emission(e, [before EXCEPT !.host.block = @ + 1], said, now, 1)
    BY <2>3, EmissionFails
  <2>6. Emit(e, cmds, fault) = IF fault.loud THEN Failed(before)
                               ELSE [before EXCEPT !.host.block = @ + 1]
    BY <2>1 DEF Emit, said, before
  <2>7. CASE fault.loud
    <3>1. Failed(before).host.state = "FAILED"
      <4>1. before \in EndType /\ before.host \in HostType
        BY <2>3 DEF Emission, EndType
      <4>2. QED
        BY <4>1 DEF Failed, EndType, HostType
    <3>2. QED
      BY <1>3, <2>4, <2>5, <2>6, <2>7, <3>1 DEF said
  <2>8. CASE ~fault.loud
    <3>1. [before EXCEPT !.host.block = @ + 1].host.state = e.host.state
      <4>1. before \in EndType /\ before.host \in HostType
        BY <2>3 DEF Emission, EndType
      <4>2. QED
        BY <2>3, <4>1 DEF EndType, HostType
    <3>2. QED
      BY <1>3, <2>4, <2>5, <2>6, <2>8, <3>1 DEF said
  <2>9. QED
    BY <2>7, <2>8
<1>4. QED
  BY <1>2, <1>3

-----------------------------------------------------------------------------
\* The inductive invariant: what the host has sent and the guest not taken.
\* A message in out has the place it was sent at, an acknowledgement the
\* number of messages it acknowledges.
Sound(e, o, g) ==
  /\ o \in Seq(Nat) /\ Len(o) = Len(e.out)
  /\ WindowRoom(e) /\ e.host.acked <= g.got /\ g.got <= e.host.sent
  /\ g.answered <= e.host.received
  /\ e.host.sent + Len(e.pending) <= e.host.block
  /\ Placed(e.out, o, "msg", 1, g.got, e.host.sent - 1)
  /\ Placed(e.out, o, "ack", 0, g.answered, e.host.received)
  /\ Shown(e.out, o, "ack")

LEMMA SoundEmission ==
  ASSUME NEW e \in EndType, NEW g \in GuestType, NEW o, Sound(e, o, g),
         NEW r, NEW cmds, NEW now, NEW spent, Emission(e, r, cmds, now, spent)
  PROVE  \E o2 \in Seq(Nat) : Sound(r, o2, g)
<1>0. PICK new, rest \in Seq(Messages(HostCommands)) : Parted(e, r, cmds, now, new, rest)
  BY EmissionParts
<1>1. /\ r.out = e.out \o new /\ r.pending = e.pending \o rest
      /\ Len(new) = now /\ Len(rest) = Len(cmds) - now
  BY <1>0 DEF Parted
<1> DEFINE places == [i \in 1..now |-> e.host.sent + i - 1]
           o2 == o \o places
<1>2. /\ e.out \in Seq(ToGuest) /\ e.pending \in Seq(Messages(HostCommands)) /\ e.host.sent \in Nat
      /\ e.host.window \in Windows /\ e.host.acked \in Nat /\ e.host.received \in Nat
      /\ e.host.block \in Nat /\ Len(e.pending) \in Nat
      /\ g.got \in Nat /\ g.answered \in Nat
  BY LenProperties DEF EndType, HostType, GuestType
<1>3. /\ cmds \in Seq(HostCommands) /\ Len(cmds) \in Nat /\ now \in 0..Len(cmds)
      /\ spent \in {0, 1}
  BY LenProperties DEF Emission
<1>4. /\ new \in Seq(ToGuest) /\ Len(new) = now
      /\ \A i \in 1..now : new[i] \in Messages(HostCommands)
      /\ rest \in Seq(Messages(HostCommands)) /\ Len(rest) = Len(cmds) - now
  <2>1. new \in Seq(ToGuest)
    BY SeqMonotonic DEF ToGuest
  <2>2. \A i \in 1..Len(new) : new[i] \in Messages(HostCommands)
    BY ElementOfSeq
  <2>3. QED
    BY <1>1, <2>1, <2>2
<1>5. /\ places \in Seq(Nat) /\ Len(places) = now
      /\ \A i \in 1..now : places[i] = e.host.sent + i - 1
  <2>1. now \in Nat /\ \A i \in 1..now : e.host.sent + i - 1 \in Nat
    <3>1. now \in Nat /\ e.host.sent \in Nat
      BY <1>2, <1>3
    <3>2. QED
      BY <3>1
  <2>2. places \in [1..now -> Nat]
    BY <2>1
  <2>3. QED
    BY <2>1, <2>2, SeqDef
<1>6. /\ r.out = e.out \o new /\ r.pending = e.pending \o rest /\ WindowRoom(r)
      /\ r.host.sent = e.host.sent + now /\ r.host.acked = e.host.acked
      /\ r.host.received = e.host.received
      /\ r.host.block = e.host.block + Len(cmds) + spent
  BY <1>1 DEF Emission
<1> HIDE DEF places
<1>7. o \in Seq(Nat) /\ Len(o) = Len(e.out)
  BY DEF Sound
<1>8. o2 \in Seq(Nat) /\ Len(o2) = Len(r.out)
  <2>1. /\ o2 \in Seq(Nat)
        /\ Joined(e.out \o new, o \o places, e.out, o, new, places)
    BY <1>2, <1>4, <1>5, <1>7, ConcatPairs
  <2>2. QED
    BY <1>6, <2>1 DEF Joined
<1>9. /\ r.host.acked <= g.got /\ g.got <= r.host.sent
      /\ r.host.sent + Len(r.pending) <= r.host.block
  <2>1. Len(r.pending) = Len(e.pending) + (Len(cmds) - now)
    <3>1. /\ e.pending \in Seq(Messages(HostCommands)) /\ rest \in Seq(Messages(HostCommands))
          /\ Len(rest) = Len(cmds) - now
      BY <1>2, <1>4
    <3>2. Len(e.pending \o rest) = Len(e.pending) + Len(rest)
      BY <3>1, ConcatProperties
    <3>3. QED
      BY <1>6, <3>1, <3>2
  <2>2. /\ e.host.acked <= g.got /\ g.got <= e.host.sent
        /\ e.host.sent + Len(e.pending) <= e.host.block
    BY DEF Sound
  <2>3. \A s, l, b, c, n, x \in Nat : s + l <= b => s + n + (l + (c - n)) <= b + c + x
    OBVIOUS
  <2>4. now \in Nat /\ spent \in Nat
    BY <1>3
  <2>5. e.host.sent + now + (Len(e.pending) + (Len(cmds) - now)) <= e.host.block + Len(cmds) + spent
    BY <1>2, <1>3, <2>2, <2>3, <2>4
  <2>6. g.got <= e.host.sent + now
    BY <1>2, <1>3, <2>2
  <2>7. QED
    BY <1>6, <2>1, <2>2, <2>5, <2>6
<1>10. Placed(r.out, o2, "msg", 1, g.got, r.host.sent - 1)
  <2> DEFINE s == e.host.sent
  <2>1. Placed(e.out, o, "msg", 1, g.got, s - 1)
    BY DEF Sound
  <2>2. /\ s \in Nat /\ now \in Nat /\ g.got <= s /\ g.got \in Nat /\ r.host.sent = s + now
        /\ \A i \in 1..now : places[i] = s + i - 1
    BY <1>2, <1>3, <1>5, <1>6 DEF Sound
  <2> HIDE DEF s
  <2>3. /\ s - 1 \in Int /\ s + now - 1 \in Int /\ 1 \in Nat
        /\ g.got <= s - 1 + 1 /\ s - 1 <= s + now - 1 /\ s - 1 + 1 = s
    BY <2>2
  <2>4. Placed(new, places, "msg", 1, s - 1 + 1, s + now - 1)
    <3>1. \A i \in 1..now : i \in Nat /\ places[i] \in s..(s + now - 1)
      BY <2>2
    <3>2. \A i, j \in 1..now : i < j => places[i] + 1 <= places[j]
      BY <2>2
    <3>3. Len(new) = now /\ s - 1 + 1 = s
      BY <1>4, <2>3
    <3>4. QED
      BY <3>1, <3>2, <3>3 DEF Placed
  <2>5. Placed(e.out \o new, o \o places, "msg", 1, g.got, s + now - 1)
    <3>1. /\ e.out \in Seq(ToGuest) /\ new \in Seq(ToGuest)
          /\ o \in Seq(Nat) /\ Len(o) = Len(e.out) /\ places \in Seq(Nat) /\ Len(places) = Len(new)
          /\ g.got \in Int
      BY <1>2, <1>4, <1>5, <1>7
    <3>2. QED
      BY <2>1, <2>3, <2>4, <3>1, PlacedConcat
  <2>6. QED
    BY <1>6, <2>2, <2>5
<1>11. Placed(r.out, o2, "ack", 0, g.answered, r.host.received)
  <2>1. Placed(e.out, o, "ack", 0, g.answered, e.host.received)
    BY DEF Sound
  <2>2. Placed(new, places, "ack", 0, e.host.received + 0, e.host.received)
    BY <1>4 DEF Placed, Messages
  <2>3. e.host.received \in Int /\ 0 \in Nat /\ g.answered <= e.host.received + 0
        /\ g.answered \in Int /\ e.host.received <= e.host.received
    BY <1>2 DEF Sound
  <2>4. Placed(e.out \o new, o \o places, "ack", 0, g.answered, e.host.received)
    BY <1>2, <1>4, <1>5, <1>7, <2>1, <2>2, <2>3, PlacedConcat
  <2>5. QED
    BY <1>6, <2>4
<1>12. Shown(r.out, o2, "ack")
  <2>1. Shown(e.out, o, "ack") /\ Shown(new, places, "ack")
    BY <1>4 DEF Sound, Shown, Messages
  <2>2. Shown(e.out \o new, o \o places, "ack")
    BY <1>2, <1>4, <1>5, <1>7, <2>1, ShownConcat
  <2>3. QED
    BY <1>6, <2>2
<1>13. g.answered <= r.host.received
  BY <1>6 DEF Sound
<1> HIDE DEF o2
<1>14. QED
  BY <1>6, <1>8, <1>9, <1>10, <1>11, <1>12, <1>13 DEF Sound

-----------------------------------------------------------------------------
\* The inductive invariant: the numbers of the messages.  n has those of the
\* messages in out, p of those in pending, and with failures numbers have been
\* lost that no message has.

\* The lowest number that can still go out.
NextOut(e, p) == IF e.pending = <<>> THEN e.host.block ELSE p[1]

Counted(e, n, p, g, failures) ==
  /\ n \in Seq(Nat) /\ Len(n) = Len(e.out) /\ p \in Seq(Nat) /\ Len(p) = Len(e.pending)
  /\ Shown(e.out, n, "msg") /\ Shown(e.pending, p, "msg")
  /\ g.got <= NextOut(e, p)
  /\ Placed(e.out, n, "msg", 1, g.got, NextOut(e, p) - 1)
  /\ Placed(e.pending, p, "msg", 1, 0, e.host.block - 1)
  /\ \A j \in 1..Len(e.pending) : p[j] <= e.host.sent + j - 1 + failures
  /\ e.host.block <= e.host.sent + Len(e.pending) + failures

\* Each of frames was one of old, or is one of cmds, numbered from block.
Said(frames, nums, old, oldNums, cmds, block) ==
  \A i \in 1..Len(frames) :
    \/ i \in 1..Len(old) /\ frames[i] = old[i] /\ nums[i] = oldNums[i]
    \/ /\ nums[i] - block + 1 \in 1..Len(cmds) /\ frames[i].kind = "msg"
       /\ frames[i].cmd = cmds[nums[i] - block + 1]

LEMMA NextOutBound ==
  ASSUME NEW e \in EndType, NEW n, NEW p, NEW g, NEW failures, Counted(e, n, p, g, failures)
  PROVE  NextOut(e, p) \in Nat /\ NextOut(e, p) <= e.host.block
<1>1. /\ e.host.block \in Nat /\ e.pending \in Seq(Messages(HostCommands))
  BY DEF EndType, HostType
<1>2. CASE e.pending = <<>>
  BY <1>1, <1>2 DEF NextOut
<1>3. CASE e.pending # <<>>
  <2>1. 1 \in 1..Len(e.pending)
    BY <1>1, <1>3, EmptySeq
  <2>2. e.pending[1] \in Messages(HostCommands)
    BY <1>1, <2>1, ElementOfSeq
  <2>3. e.pending[1].kind = "msg"
    BY <2>2 DEF Messages
  <2>4. p[1] \in 0..(e.host.block - 1)
    BY <2>1, <2>3 DEF Counted, Placed
  <2>5. NextOut(e, p) = p[1]
    BY <1>3 DEF NextOut
  <2>6. QED
    BY <1>1, <2>4, <2>5
<1>4. QED
  BY <1>2, <1>3

LEMMA CountedEmission ==
  ASSUME NEW e \in EndType, NEW g \in GuestType, NEW n, NEW p, NEW failures \in Nat,
         Counted(e, n, p, g, failures),
         NEW r, NEW cmds, NEW now, NEW spent, Emission(e, r, cmds, now, spent)
  PROVE  \E n2, p2 \in Seq(Nat) :
           /\ Counted(r, n2, p2, g, failures + spent)
           /\ Said(r.out, n2, e.out, n, cmds, e.host.block)
           /\ Said(r.pending, p2, e.pending, p, cmds, e.host.block)
<1>0. PICK new, rest \in Seq(Messages(HostCommands)) : Parted(e, r, cmds, now, new, rest)
  BY EmissionParts
<1>1. r.out = e.out \o new /\ r.pending = e.pending \o rest
  BY <1>0 DEF Parted
<1> DEFINE b == e.host.block
           s == e.host.sent
           l == Len(e.pending)
           c == Len(cmds)
           x == NextOut(e, p)
           got == g.got
           nums == [i \in 1..now |-> b + i - 1]
           held == [i \in 1..(c - now) |-> b + (now + i) - 1]
           n2 == n \o nums
           p2 == p \o held
<1>2. /\ b \in Nat /\ s \in Nat /\ l \in Nat /\ c \in Nat /\ got \in Nat
      /\ e.out \in Seq(ToGuest) /\ e.pending \in Seq(Messages(HostCommands))
      /\ now \in 0..c /\ spent \in {0, 1} /\ (now > 0 => e.pending = <<>>)
      /\ r.host.block = b + c + spent /\ r.host.sent = s + now
  BY LenProperties DEF EndType, HostType, GuestType, Emission
<1>3. /\ n \in Seq(Nat) /\ Len(n) = Len(e.out) /\ p \in Seq(Nat) /\ Len(p) = l
      /\ Shown(e.out, n, "msg") /\ Shown(e.pending, p, "msg")
      /\ got <= x /\ Placed(e.out, n, "msg", 1, got, x - 1)
      /\ Placed(e.pending, p, "msg", 1, 0, b - 1)
      /\ \A j \in 1..l : p[j] <= s + j - 1 + failures
      /\ b <= s + l + failures
  BY DEF Counted
<1>4. x \in Nat /\ x <= b /\ (e.pending = <<>> => x = b /\ l = 0) /\ (e.pending # <<>> => x = p[1] /\ l > 0)
  <2>1. x \in Nat /\ x <= b
    BY NextOutBound
  <2>2. (e.pending = <<>> => l = 0) /\ (e.pending # <<>> => l > 0)
    BY <1>2, EmptySeq
  <2>3. (e.pending = <<>> => x = b) /\ (e.pending # <<>> => x = p[1])
    BY DEF NextOut
  <2>4. QED
    BY <2>1, <2>2, <2>3
<1>5. /\ nums \in Seq(Nat) /\ Len(nums) = now /\ \A i \in 1..now : nums[i] = b + i - 1
      /\ held \in Seq(Nat) /\ Len(held) = c - now
      /\ \A i \in 1..(c - now) : held[i] = b + (now + i) - 1
  <2> HIDE DEF b, c
  <2>1. /\ now \in Nat /\ c - now \in Nat
        /\ \A i \in 1..now : b + i - 1 \in Nat
        /\ \A i \in 1..(c - now) : b + (now + i) - 1 \in Nat
    BY <1>2
  <2>2. nums \in [1..now -> Nat] /\ held \in [1..(c - now) -> Nat]
    BY <2>1
  <2>3. QED
    BY <2>1, <2>2, SeqDef
<1> HIDE DEF nums, held, x, b, s, l, c, got
<1>6. /\ Len(new) = now /\ Len(rest) = c - now
      /\ \A i \in 1..now : /\ new[i].kind = "msg" /\ new[i].cmd = cmds[i]
                           /\ new[i].number = nums[i] % Wrap
      /\ \A i \in 1..(c - now) : /\ rest[i].kind = "msg" /\ rest[i].cmd = cmds[now + i]
                                 /\ rest[i].number = held[i] % Wrap
  <2>1. /\ Len(new) = now /\ Len(rest) = c - now
        /\ \A i \in 1..now :
             new[i] = [kind |-> "msg", cmd |-> cmds[i], number |-> (b + i - 1) % Wrap]
        /\ \A i \in 1..(c - now) :
             rest[i] = [kind |-> "msg", cmd |-> cmds[now + i], number |-> (b + (now + i) - 1) % Wrap]
    BY <1>0 DEF Parted, b, c
  <2>2. ASSUME NEW i \in 1..now
        PROVE  /\ new[i].kind = "msg" /\ new[i].cmd = cmds[i]
               /\ new[i].number = nums[i] % Wrap
    <3>1. nums[i] = b + i - 1
      BY <1>5
    <3>2. QED
      BY <2>1, <3>1
  <2>3. ASSUME NEW i \in 1..(c - now)
        PROVE  /\ rest[i].kind = "msg" /\ rest[i].cmd = cmds[now + i]
               /\ rest[i].number = held[i] % Wrap
    <3>1. held[i] = b + (now + i) - 1
      BY <1>5
    <3>2. QED
      BY <2>1, <3>1
  <2>4. QED
    BY <2>1, <2>2, <2>3
<1>n. /\ b \in Nat /\ s \in Nat /\ l \in Nat /\ c \in Nat /\ got \in Nat
      /\ now \in Nat /\ now <= c /\ spent \in Nat /\ x \in Nat /\ x <= b /\ got <= x
      /\ (now > 0 => x = b)
  BY <1>2, <1>3, <1>4
<1>7. /\ new \in Seq(ToGuest) /\ Len(nums) = Len(new) /\ Len(held) = Len(rest)
  BY <1>5, <1>6, SeqMonotonic DEF ToGuest
<1>8. /\ n2 \in Seq(Nat) /\ Joined(r.out, n2, e.out, n, new, nums)
      /\ p2 \in Seq(Nat) /\ Joined(r.pending, p2, e.pending, p, rest, held)
  <2>1. /\ n2 \in Seq(Nat) /\ Joined(e.out \o new, n2, e.out, n, new, nums)
    BY <1>2, <1>3, <1>5, <1>7, ConcatPairs
  <2>2. /\ p2 \in Seq(Nat) /\ Joined(e.pending \o rest, p2, e.pending, p, rest, held)
    BY <1>2, <1>3, <1>5, <1>7, ConcatPairs DEF l
  <2>3. QED
    BY <1>1, <2>1, <2>2
<1>9. Shown(r.out, n2, "msg") /\ Shown(r.pending, p2, "msg")
  <2>1. Shown(new, nums, "msg") /\ Shown(rest, held, "msg")
    BY <1>6 DEF Shown
  <2>2. Shown(e.out \o new, n2, "msg")
    BY <1>2, <1>3, <1>5, <1>7, <2>1, ShownConcat
  <2>3. Shown(e.pending \o rest, p2, "msg")
    BY <1>2, <1>3, <1>5, <1>7, <2>1, ShownConcat DEF l
  <2>4. QED
    BY <1>1, <2>2, <2>3
<1>10. Len(r.pending) = l + (c - now)
  BY <1>6, <1>8 DEF Joined, l
<1>11. NextOut(r, p2) \in Nat /\ x + now <= NextOut(r, p2)
  <2>1. CASE e.pending # <<>>
    <3>1. l > 0 /\ 1 \in 1..l
      BY <1>2, <1>4, <2>1
    <3>2. Len(r.pending) > 0
      BY <1>2, <1>10, <3>1
    <3>3. r.pending # <<>>
      BY <3>2
    <3>4. p2[1] = p[1]
      BY <1>8, <3>1 DEF Joined, l
    <3>5. now = 0
      BY <1>2, <2>1
    <3>6. QED
      BY <1>4, <2>1, <3>3, <3>4, <3>5 DEF NextOut
  <2>2. CASE e.pending = <<>> /\ r.pending = <<>>
    <3>1. NextOut(r, p2) = b + c + spent
      BY <1>2, <2>2 DEF NextOut
    <3>2. QED
      BY <1>2, <1>4, <2>2, <3>1
  <2>3. CASE e.pending = <<>> /\ r.pending # <<>>
    <3>1. r.pending \in Seq(Messages(HostCommands))
      BY DEF Emission, EndType
    <3>2. Len(r.pending) > 0
      BY <2>3, <3>1, EmptySeq
    <3>3. l = 0 /\ 1 \in 1..Len(r.pending) /\ 1 > l /\ 1 \in 1..(c - now) /\ 1 - l = 1
      BY <1>2, <1>4, <1>10, <2>3, <3>2
    <3>4. p2[1] = held[1]
      BY <1>8, <3>3 DEF Joined, l
    <3>5. NextOut(r, p2) = b + (now + 1) - 1
      BY <1>5, <2>3, <3>3, <3>4 DEF NextOut
    <3>6. QED
      BY <1>2, <1>4, <2>3, <3>5
  <2>4. QED
    BY <2>1, <2>2, <2>3
<1>12. got <= NextOut(r, p2) /\ Placed(r.out, n2, "msg", 1, got, NextOut(r, p2) - 1)
  <2> DEFINE y == NextOut(r, p2)
  <2>1. /\ y \in Nat /\ x + now <= y /\ now \in Nat /\ x \in Nat
    BY <1>2, <1>4, <1>11
  <2> HIDE DEF y
  <2>2. Placed(new, nums, "msg", 1, x - 1 + 1, x + now - 1)
    <3>1. \A i \in 1..now : i \in Nat /\ x = b /\ b + i - 1 \in x..(x + now - 1)
      BY <1>n
    <3>2. \A i \in 1..now : i \in Nat /\ nums[i] \in x..(x + now - 1)
      BY <1>5, <3>1
    <3>3. \A i, j \in 1..now : i < j => nums[i] + 1 <= nums[j]
      BY <1>n, <1>5
    <3>4. x - 1 + 1 = x
      BY <2>1
    <3>5. QED
      BY <1>6, <3>2, <3>3, <3>4 DEF Placed
  <2>3. /\ x - 1 \in Int /\ x + now - 1 \in Int /\ got <= x - 1 + 1 /\ x - 1 <= x + now - 1
        /\ 1 \in Nat /\ got \in Int
    BY <1>2, <1>3, <2>1
  <2>4. Placed(e.out \o new, n2, "msg", 1, got, x + now - 1)
    BY <1>2, <1>3, <1>5, <1>7, <2>2, <2>3, PlacedConcat
  <2>5. Placed(r.out, n2, "msg", 1, got, x + now - 1)
    BY <1>1, <2>4
  <2>6. /\ r.out \in Seq(ToGuest) /\ Len(n2) = Len(r.out) /\ y - 1 \in Int
        /\ x + now - 1 <= y - 1 /\ got <= got /\ got <= y
    <3>1. r.out \in Seq(ToGuest) /\ Len(n2) = Len(r.out)
      BY <1>8 DEF Emission, EndType, Joined
    <3>2. y - 1 \in Int /\ x + now - 1 <= y - 1 /\ got <= got /\ got <= y
      BY <1>n, <2>1
    <3>3. QED
      BY <3>1, <3>2
  <2>7. Placed(r.out, n2, "msg", 1, got, y - 1)
    BY <1>8, <2>3, <2>5, <2>6, PlacedWiden
  <2>8. QED
    BY <2>6, <2>7 DEF y
<1>13. Placed(r.pending, p2, "msg", 1, 0, r.host.block - 1)
  <2>1. Placed(rest, held, "msg", 1, b - 1 + 1, b + c + spent - 1)
    <3>0. \A i \in 1..(c - now) : i \in Nat /\ b + (now + i) - 1 \in b..(b + c + spent - 1)
      BY <1>n
    <3>1. \A i \in 1..(c - now) : i \in Nat /\ held[i] \in b..(b + c + spent - 1)
      BY <1>5, <3>0
    <3>2. \A i, j \in 1..(c - now) : i < j => held[i] + 1 <= held[j]
      <4>1. \A i, j \in 1..(c - now) : i < j => b + (now + i) - 1 + 1 <= b + (now + j) - 1
        BY <1>n
      <4>2. QED
        BY <1>5, <4>1
    <3>3. b - 1 + 1 = b
      BY <1>n
    <3>4. QED
      BY <1>6, <3>1, <3>2, <3>3 DEF Placed
  <2>2. /\ b - 1 \in Int /\ b + c + spent - 1 \in Int /\ 0 <= b - 1 + 1
        /\ b - 1 <= b + c + spent - 1 /\ 1 \in Nat /\ 0 \in Int
    BY <1>2
  <2>3. Placed(e.pending \o rest, p2, "msg", 1, 0, b + c + spent - 1)
    BY <1>2, <1>3, <1>5, <1>7, <2>1, <2>2, PlacedConcat DEF l
  <2>4. QED
    BY <1>1, <1>2, <2>3
<1>14. \A j \in 1..Len(r.pending) : p2[j] <= r.host.sent + j - 1 + (failures + spent)
  <2> TAKE j \in 1..Len(r.pending)
  <2>1. CASE j \in 1..l
    <3>1. p2[j] = p[j] /\ p[j] \in Nat
      BY <1>8, <2>1 DEF Joined, l
    <3>2. p[j] <= s + j - 1 + failures
      BY <1>3, <2>1
    <3>3. p[j] <= s + now + j - 1 + (failures + spent)
      BY <1>n, <2>1, <3>1, <3>2
    <3>4. QED
      BY <1>2, <3>1, <3>3
  <2>2. CASE j > l
    <3>1. j - l \in 1..(c - now) /\ p2[j] = held[j - l]
      BY <1>6, <1>8, <2>2 DEF Joined, l
    <3>2. p2[j] = b + (now + (j - l)) - 1
      BY <1>5, <3>1
    <3>3. b + (now + (j - l)) - 1 <= s + now + j - 1 + (failures + spent)
      <4>1. b <= s + l + failures /\ j \in Nat
        BY <1>3
      <4>2. QED
        BY <1>n, <4>1
    <3>4. QED
      BY <1>2, <3>2, <3>3
  <2>3. QED
    BY <1>8, <2>1, <2>2 DEF Joined, l
<1>15. r.host.block <= r.host.sent + Len(r.pending) + (failures + spent)
  BY <1>2, <1>3, <1>10
<1>16. Said(r.out, n2, e.out, n, cmds, b)
  <2> SUFFICES ASSUME NEW i \in 1..Len(r.out), ~(i \in 1..Len(e.out))
               PROVE  /\ n2[i] - b + 1 \in 1..c /\ r.out[i].kind = "msg"
                      /\ r.out[i].cmd = cmds[n2[i] - b + 1]
    BY <1>8 DEF Said, Joined, c
  <2> DEFINE k == i - Len(e.out)
  <2>1. k \in 1..now /\ r.out[i] = new[k] /\ n2[i] = nums[k]
    BY <1>6, <1>8 DEF Joined
  <2> HIDE DEF k
  <2>2. n2[i] - b + 1 = k /\ k \in 1..c
    <3>1. n2[i] = b + k - 1
      BY <1>5, <2>1
    <3>2. b \in Nat /\ c \in Nat /\ now \in Nat /\ now <= c /\ k \in 1..now
      BY <1>n, <2>1
    <3>3. QED
      BY <3>1, <3>2
  <2>3. QED
    BY <1>6, <2>1, <2>2
<1>17. Said(r.pending, p2, e.pending, p, cmds, b)
  <2> SUFFICES ASSUME NEW i \in 1..Len(r.pending), ~(i \in 1..Len(e.pending))
               PROVE  /\ p2[i] - b + 1 \in 1..c /\ r.pending[i].kind = "msg"
                      /\ r.pending[i].cmd = cmds[p2[i] - b + 1]
    BY <1>8 DEF Said, Joined, c
  <2> DEFINE k == i - Len(e.pending)
  <2>1. k \in 1..(c - now) /\ r.pending[i] = rest[k] /\ p2[i] = held[k]
    BY <1>6, <1>8 DEF Joined
  <2> HIDE DEF k
  <2>2. p2[i] - b + 1 = now + k /\ now + k \in 1..c
    <3>1. p2[i] = b + (now + k) - 1
      BY <1>5, <2>1
    <3>2. b \in Nat /\ c \in Nat /\ now \in Nat /\ now <= c /\ k \in 1..(c - now)
      BY <1>n, <2>1
    <3>3. QED
      BY <3>1, <3>2
  <2>3. QED
    BY <1>6, <2>1, <2>2
<1>18. Counted(r, n2, p2, g, failures + spent)
  <2>1. Len(n2) = Len(r.out) /\ Len(p2) = Len(r.pending)
    BY <1>8 DEF Joined
  <2> HIDE DEF n2, p2
  <2>2. QED
    BY <1>8, <1>9, <1>12, <1>13, <1>14, <1>15, <2>1 DEF Counted, got
<1>19. QED
  <2> HIDE DEF n2, p2
  <2>1. QED
    BY <1>8, <1>16, <1>17, <1>18 DEF b

-----------------------------------------------------------------------------
\* The inductive invariant: the parts of the package are the messages base ..
\* base + count - 1, and no others.
Cut(frames, nums, base, count) ==
  \A i \in 1..Len(frames) :
    frames[i].kind = "msg" =>
      IF nums[i] \in base..(base + count - 1)
      THEN frames[i].cmd = Part(nums[i] - base + 1)
      ELSE frames[i].cmd[1] # "part"

\* Numbers lost without a word do not add up to a turn of the numbers.
FewFailures == \A w \in Windows : MaxFailures + w <= Wrap

Parcel(e, n, p, base, count, g, failures) ==
  /\ Counted(e, n, p, g, failures)
  /\ Cut(e.out, n, base, count) /\ Cut(e.pending, p, base, count)
  /\ base + count <= e.host.block

\* The host's end as the guest's end g finds it.
Neat(e, base, count, g, failures) ==
  /\ e \in EndType
  /\ \E o \in Seq(Nat) : Sound(e, o, g)
  /\ FewFailures => \E n, p \in Seq(Nat) : Parcel(e, n, p, base, count, g, failures)

\* Other commands leave the package as it is.
LEMMA SaidCut ==
  ASSUME NEW frames, NEW nums \in Seq(Nat), NEW old, NEW oldNums, NEW cmds, NEW block \in Nat,
         Said(frames, nums, old, oldNums, cmds, block), Len(nums) = Len(frames),
         NEW base \in Nat, NEW count \in Nat, base + count <= block,
         Cut(old, oldNums, base, count), \A i \in 1..Len(cmds) : cmds[i][1] # "part"
  PROVE  Cut(frames, nums, base, count)
<1> SUFFICES ASSUME NEW i \in 1..Len(frames), frames[i].kind = "msg"
             PROVE  IF nums[i] \in base..(base + count - 1)
                    THEN frames[i].cmd = Part(nums[i] - base + 1)
                    ELSE frames[i].cmd[1] # "part"
  BY DEF Cut
<1>1. CASE i \in 1..Len(old) /\ frames[i] = old[i] /\ nums[i] = oldNums[i]
  BY <1>1 DEF Cut
<1>2. CASE nums[i] - block + 1 \in 1..Len(cmds) /\ frames[i].cmd = cmds[nums[i] - block + 1]
  <2>1. nums[i] \in Nat
    BY ElementOfSeq
  <2>2. nums[i] >= block
    BY <1>2, <2>1
  <2>3. nums[i] \notin base..(base + count - 1)
    BY <2>1, <2>2
  <2>4. QED
    BY <1>2, <2>3
<1>3. QED
  BY <1>1, <1>2 DEF Said

\* The package gets the numbers from block on.
LEMMA SaidPackage ==
  ASSUME NEW frames, NEW nums \in Seq(Nat), NEW old, NEW oldNums, NEW cmds, NEW block \in Nat,
         Said(frames, nums, old, oldNums, cmds, block), Len(nums) = Len(frames),
         Len(cmds) \in Nat, NEW base \in Nat,
         Cut(old, oldNums, base, 0), \A i \in 1..Len(cmds) : cmds[i] = Part(i),
         \A i \in 1..Len(old) : old[i].kind = "msg" => oldNums[i] < block
  PROVE  Cut(frames, nums, block, Len(cmds))
<1> SUFFICES ASSUME NEW i \in 1..Len(frames), frames[i].kind = "msg"
             PROVE  IF nums[i] \in block..(block + Len(cmds) - 1)
                    THEN frames[i].cmd = Part(nums[i] - block + 1)
                    ELSE frames[i].cmd[1] # "part"
  BY DEF Cut
<1>0. nums[i] \in Nat
  BY ElementOfSeq
<1>1. CASE i \in 1..Len(old) /\ frames[i] = old[i] /\ nums[i] = oldNums[i]
  <2>1. nums[i] < block
    BY <1>1
  <2>2. nums[i] \notin block..(block + Len(cmds) - 1) /\ nums[i] \notin base..(base + 0 - 1)
    BY <1>0, <2>1
  <2>3. frames[i].cmd[1] # "part"
    BY <1>1, <2>2 DEF Cut
  <2>4. QED
    BY <2>2, <2>3
<1>2. CASE nums[i] - block + 1 \in 1..Len(cmds) /\ frames[i].cmd = cmds[nums[i] - block + 1]
  <2>1. nums[i] \in block..(block + Len(cmds) - 1)
    BY <1>0, <1>2, SMTT(30)
  <2>2. QED
    BY <1>2, <2>1
<1>3. QED
  BY <1>1, <1>2 DEF Said

LEMMA NeatEmission ==
  ASSUME NEW e, NEW g \in GuestType, NEW base \in Nat, NEW count \in Nat, NEW failures \in Nat,
         Neat(e, base, count, g, failures),
         NEW r, NEW cmds, NEW now, NEW spent, Emission(e, r, cmds, now, spent),
         \A i \in 1..Len(cmds) : cmds[i][1] # "part"
  PROVE  Neat(r, base, count, g, failures + spent)
<1>1. e \in EndType /\ r \in EndType
  BY DEF Neat, Emission
<1>2. \E o \in Seq(Nat) : Sound(r, o, g)
  BY <1>1, SoundEmission DEF Neat
<1>3. ASSUME FewFailures
      PROVE  \E n, p \in Seq(Nat) : Parcel(r, n, p, base, count, g, failures + spent)
  <2>1. PICK n, p \in Seq(Nat) : Parcel(e, n, p, base, count, g, failures)
    BY <1>3 DEF Neat
  <2>2. Counted(e, n, p, g, failures)
    BY <2>1 DEF Parcel
  <2>3. PICK n2, p2 \in Seq(Nat) :
             /\ Counted(r, n2, p2, g, failures + spent)
             /\ Said(r.out, n2, e.out, n, cmds, e.host.block)
             /\ Said(r.pending, p2, e.pending, p, cmds, e.host.block)
    BY <1>1, <2>2, CountedEmission
  <2>4. e.host.block \in Nat /\ base + count <= e.host.block
    BY <1>1, <2>1 DEF Parcel, EndType, HostType
  <2>5. Len(n2) = Len(r.out) /\ Len(p2) = Len(r.pending)
    BY <2>3 DEF Counted
  <2>6. Cut(r.out, n2, base, count)
    BY <2>1, <2>3, <2>4, <2>5, SaidCut DEF Parcel
  <2>7. Cut(r.pending, p2, base, count)
    BY <2>1, <2>3, <2>4, <2>5, SaidCut DEF Parcel
  <2>8. base + count <= r.host.block
    <3>1. Len(cmds) \in Nat /\ spent \in Nat /\ r.host.block = e.host.block + Len(cmds) + spent
      BY LenProperties DEF Emission
    <3>2. QED
      BY <2>4, <3>1, SMTT(30)
  <2>9. QED
    BY <2>3, <2>6, <2>7, <2>8 DEF Parcel
<1>4. QED
  BY <1>1, <1>2, <1>3 DEF Neat

LEMMA NeatPackage ==
  ASSUME NEW e, NEW g \in GuestType, NEW base \in Nat, NEW failures \in Nat,
         Neat(e, base, 0, g, failures),
         NEW r, NEW cmds, NEW now, NEW spent, Emission(e, r, cmds, now, spent),
         \A i \in 1..Len(cmds) : cmds[i] = Part(i)
  PROVE  Neat(r, e.host.block, Len(cmds), g, failures + spent)
<1>1. e \in EndType /\ r \in EndType
  BY DEF Neat, Emission
<1>2. \E o \in Seq(Nat) : Sound(r, o, g)
  BY <1>1, SoundEmission DEF Neat
<1>3. ASSUME FewFailures
      PROVE  \E n, p \in Seq(Nat) : Parcel(r, n, p, e.host.block, Len(cmds), g, failures + spent)
  <2>1. PICK n, p \in Seq(Nat) : Parcel(e, n, p, base, 0, g, failures)
    BY <1>3 DEF Neat
  <2>2. Counted(e, n, p, g, failures)
    BY <2>1 DEF Parcel
  <2>3. PICK n2, p2 \in Seq(Nat) :
             /\ Counted(r, n2, p2, g, failures + spent)
             /\ Said(r.out, n2, e.out, n, cmds, e.host.block)
             /\ Said(r.pending, p2, e.pending, p, cmds, e.host.block)
    BY <1>1, <2>2, CountedEmission
  <2>4. e.host.block \in Nat /\ Len(cmds) \in Nat
    BY <1>1, LenProperties DEF EndType, HostType, Emission
  <2>5. Len(n2) = Len(r.out) /\ Len(p2) = Len(r.pending)
    BY <2>3 DEF Counted
  <2>6. /\ \A i \in 1..Len(e.out) : e.out[i].kind = "msg" => n[i] < e.host.block
        /\ \A i \in 1..Len(e.pending) : e.pending[i].kind = "msg" => p[i] < e.host.block
    <3>1. NextOut(e, p) \in Nat /\ NextOut(e, p) <= e.host.block
      BY <1>1, <2>2, NextOutBound
    <3>2. /\ \A i \in 1..Len(e.out) : n[i] \in Nat
          /\ \A i \in 1..Len(e.pending) : p[i] \in Nat
      BY <2>2, ElementOfSeq DEF Counted
    <3>3. \A i \in 1..Len(e.out) : e.out[i].kind = "msg" => n[i] \in (g.got)..(NextOut(e, p) - 1)
      BY <2>2 DEF Counted, Placed
    <3>4. \A i \in 1..Len(e.pending) : e.pending[i].kind = "msg" => p[i] \in 0..(e.host.block - 1)
      BY <2>2 DEF Counted, Placed
    <3>5. \A a, x, b \in Nat : x <= b /\ a <= x - 1 => a < b
      OBVIOUS
    <3>6. ASSUME NEW i \in 1..Len(e.out), e.out[i].kind = "msg"
          PROVE  n[i] < e.host.block
      <4>1. n[i] \in Nat /\ n[i] <= NextOut(e, p) - 1
        BY <3>2, <3>3, <3>6
      <4>2. QED
        BY <2>4, <3>1, <3>5, <4>1
    <3>7. ASSUME NEW i \in 1..Len(e.pending), e.pending[i].kind = "msg"
          PROVE  p[i] < e.host.block
      <4>1. p[i] \in Nat /\ p[i] <= e.host.block - 1
        BY <3>2, <3>4, <3>7
      <4>2. QED
        BY <2>4, <4>1
    <3>8. QED
      BY <3>6, <3>7
  <2>7. Cut(r.out, n2, e.host.block, Len(cmds))
    BY <2>1, <2>3, <2>4, <2>5, <2>6, SaidPackage DEF Parcel
  <2>8. Cut(r.pending, p2, e.host.block, Len(cmds))
    BY <2>1, <2>3, <2>4, <2>5, <2>6, SaidPackage DEF Parcel
  <2>9. e.host.block + Len(cmds) <= r.host.block
    <3>1. spent \in Nat /\ r.host.block = e.host.block + Len(cmds) + spent
      BY DEF Emission
    <3>2. QED
      BY <2>4, <3>1
  <2>10. QED
    BY <2>3, <2>7, <2>8, <2>9 DEF Parcel
<1>4. QED
  BY <1>1, <1>2, <1>3 DEF Neat

\* What of the host's end the numbers do not depend on.
LEMMA NeatSame ==
  ASSUME NEW e, NEW g \in GuestType, NEW base \in Nat, NEW count \in Nat, NEW failures \in Nat,
         Neat(e, base, count, g, failures),
         NEW r \in EndType, r.out = e.out, r.pending = e.pending,
         r.host.window = e.host.window, r.host.sent = e.host.sent,
         r.host.acked = e.host.acked, r.host.received = e.host.received,
         r.host.block = e.host.block, NEW more \in Nat, failures <= more
  PROVE  Neat(r, base, count, g, more)
<1>1. \A o : Sound(e, o, g) => Sound(r, o, g)
  BY DEF Sound, WindowRoom
<1>2. \A n, p : Counted(e, n, p, g, failures) => Counted(r, n, p, g, more)
  <2> TAKE n, p
  <2> HAVE Counted(e, n, p, g, failures)
  <2>1. e.host.sent \in Nat /\ Len(e.pending) \in Nat /\ e.host.block \in Nat
    BY LenProperties DEF Neat, EndType, HostType
  <2>2. \A j \in 1..Len(e.pending) : p[j] <= e.host.sent + j - 1 + more
    <3> TAKE j \in 1..Len(e.pending)
    <3>1. p[j] \in Nat /\ p[j] <= e.host.sent + j - 1 + failures
      BY ElementOfSeq DEF Counted
    <3>2. QED
      BY <2>1, <3>1
  <2>3. e.host.block <= e.host.sent + Len(e.pending) + more
    <3>1. e.host.block <= e.host.sent + Len(e.pending) + failures
      BY DEF Counted
    <3>2. QED
      BY <2>1, <3>1
  <2>4. NextOut(r, p) = NextOut(e, p)
    BY DEF NextOut
  <2>5. QED
    BY <2>2, <2>3, <2>4 DEF Counted
<1>3. \A n, p : Parcel(e, n, p, base, count, g, failures) => Parcel(r, n, p, base, count, g, more)
  BY <1>2 DEF Parcel
<1>4. QED
  BY <1>1, <1>3 DEF Neat

-----------------------------------------------------------------------------
\* What the host does with a command.

\* No frame carries cmd.
Never(frames, cmd) ==
  \A i \in 1..Len(frames) : frames[i].kind = "msg" => frames[i].cmd # cmd

LEMMA NeverConcat ==
  ASSUME NEW S, NEW frames \in Seq(S), NEW frames2 \in Seq(S), NEW cmd,
         Never(frames, cmd), Never(frames2, cmd)
  PROVE  Never(frames \o frames2, cmd)
<1> DEFINE f == frames \o frames2
<1>1. /\ Len(f) = Len(frames) + Len(frames2) /\ Len(frames) \in Nat /\ Len(frames2) \in Nat
      /\ \A i \in 1..Len(f) : f[i] = IF i <= Len(frames) THEN frames[i]
                                     ELSE frames2[i - Len(frames)]
  BY ConcatProperties, LenProperties
<1> HIDE DEF f
<1>2. ASSUME NEW i \in 1..Len(f), f[i].kind = "msg"
      PROVE  f[i].cmd # cmd
  <2>1. CASE i <= Len(frames)
    BY <1>1, <1>2, <2>1 DEF Never
  <2>2. CASE ~(i <= Len(frames))
    <3>1. i - Len(frames) \in 1..Len(frames2)
      BY <1>1, <2>2
    <3>2. QED
      BY <1>1, <1>2, <2>2, <3>1 DEF Never
  <2>3. QED
    BY <2>1, <2>2
<1>3. QED
  BY <1>2 DEF Never, f

LEMMA NeverSay ==
  ASSUME NEW e \in EndType, NEW r, NEW cmds, NEW now, NEW spent, Emission(e, r, cmds, now, spent),
         NEW cmd, Never(e.out, cmd), Never(e.pending, cmd), \A i \in 1..Len(cmds) : cmds[i] # cmd
  PROVE  Never(r.out, cmd) /\ Never(r.pending, cmd)
<1>1. PICK new, rest \in Seq(Messages(HostCommands)) : Parted(e, r, cmds, now, new, rest)
  BY EmissionParts
<1>2. /\ r.out = e.out \o new /\ r.pending = e.pending \o rest
      /\ Len(new) = now /\ Len(rest) = Len(cmds) - now
  BY <1>1 DEF Parted
<1>3. Len(cmds) \in Nat /\ now \in Nat /\ now <= Len(cmds)
  BY LenProperties DEF Emission
<1>4. \A i \in 1..now : new[i].cmd = cmds[i] /\ i \in 1..Len(cmds)
  BY <1>1, <1>3 DEF Parted
<1>5. \A i \in 1..(Len(cmds) - now) : rest[i].cmd = cmds[now + i] /\ now + i \in 1..Len(cmds)
  <2>1. \A a, b \in Nat : b <= a => \A i \in 1..(a - b) : b + i \in 1..a
    OBVIOUS
  <2>2. \A i \in 1..(Len(cmds) - now) : now + i \in 1..Len(cmds)
    BY <1>3, <2>1
  <2>3. \A i \in 1..(Len(cmds) - now) : rest[i].cmd = cmds[now + i]
    BY <1>1 DEF Parted
  <2>4. QED
    BY <2>2, <2>3
<1>6. Never(new, cmd) /\ Never(rest, cmd)
  BY <1>2, <1>4, <1>5, ZenonT(40) DEF Never
<1>7. e.out \in Seq(ToGuest) /\ e.pending \in Seq(Messages(HostCommands)) /\ new \in Seq(ToGuest)
  <2>1. Messages(HostCommands) \subseteq ToGuest
    BY DEF ToGuest
  <2>2. QED
    BY <2>1, SeqMonotonic DEF EndType
<1>8. QED
  BY <1>2, <1>6, <1>7, NeverConcat

\* What a command leaves as it is when it sends something.
SameHeader(h, k) ==
  /\ h.window = k.window /\ h.acked = k.acked /\ h.received = k.received
  /\ h.offered = k.offered /\ h.packageSent = k.packageSent
  /\ h.packageEnd = k.packageEnd /\ h.packageAcked = k.packageAcked

Hit(cmds, fault) == IF Emitted(cmds, fault) THEN 0 ELSE 1

\* r is what the host's end e is after Emit.
Uttered(e, r, base, count, g, failures, cmds, fault) ==
  /\ Held(r) /\ SameHeader(r.host, e.host)
  /\ Neat(r, base, count, g, failures + Hit(cmds, fault))
  /\ Emitted(cmds, fault) => r.host.state = e.host.state
  /\ r.host.state \in {e.host.state, "FAILED"}
  /\ \A cmd : (/\ Never(e.out, cmd) /\ Never(e.pending, cmd)
               /\ \A i \in 1..Len(cmds) : cmds[i] # cmd)
                 => Never(r.out, cmd) /\ Never(r.pending, cmd)

\* Commands other than the parts of the package.
LEMMA EmitOk ==
  ASSUME NEW e, NEW g \in GuestType, NEW base \in Nat, NEW count \in Nat, NEW failures \in Nat,
         Neat(e, base, count, g, failures), Held(e),
         NEW cmds \in Seq(HostCommands), \A i \in 1..Len(cmds) : cmds[i][1] # "part",
         NEW fault \in Fault, NEW r, r = Emit(e, cmds, fault)
  PROVE  Uttered(e, r, base, count, g, failures, cmds, fault)
<1>1. e \in EndType /\ WindowRoom(e)
  BY DEF Neat, Sound
<1>2. Len(cmds) \in Nat
  BY LenProperties
<1>3. CASE Emitted(cmds, fault)
  <2>1. PICK now \in Nat : Emission(e, r, cmds, now, 0)
    BY <1>1, <1>3, EmitIs
  <2>2. r.host.state = e.host.state
    BY <1>1, <1>3, EmitIs
  <2>3. Neat(r, base, count, g, failures + 0)
    BY <2>1, NeatEmission
  <2>4. Hit(cmds, fault) = 0
    BY <1>3 DEF Hit
  <2>5. Held(r) /\ SameHeader(r.host, e.host)
    BY <2>1 DEF Emission, SameHeader
  <2>6. QED
    BY <1>1, <2>1, <2>2, <2>3, <2>4, <2>5, NeverSay, SMTT(30) DEF Uttered
<1>4. CASE ~Emitted(cmds, fault)
  <2> DEFINE said == SubSeq(cmds, 1, fault.at - 1)
  <2>1. PICK now \in Nat, spent \in {0, 1} : Emission(e, r, said, now, spent)
    BY <1>1, <1>4, EmitIs
  <2>2. r.host.state \in {e.host.state, "FAILED"}
    BY <1>1, EmitIs
  <2>3. /\ said \in Seq(HostCommands)
        /\ \A i \in 1..Len(said) : i \in 1..Len(cmds) /\ said[i] = cmds[i]
    <3>1. fault.at \in 1..Len(cmds)
      BY <1>4 DEF Emitted
    <3>2. 1 \in 1..(Len(cmds) + 1) /\ fault.at - 1 \in (1 - 1)..Len(cmds)
      BY <1>2, <3>1
    <3>3. /\ said \in Seq(HostCommands) /\ Len(said) = fault.at - 1 - 1 + 1
          /\ \A i \in 1..(fault.at - 1 - 1 + 1) : said[i] = cmds[1 + i - 1] /\ 1 + i - 1 \in 1..Len(cmds)
      BY <3>2, SubSeqType
    <3> HIDE DEF said
    <3>4. \A i \in Nat : 1 + i - 1 = i
      OBVIOUS
    <3>5. \A i \in 1..Len(said) : i \in Nat /\ i \in 1..(fault.at - 1 - 1 + 1)
      BY <3>3, <3>1
    <3>6. QED
      BY <3>3, <3>4, <3>5
  <2> HIDE DEF said
  <2>4. \A i \in 1..Len(said) : said[i][1] # "part"
    BY <2>3
  <2>5. Neat(r, base, count, g, failures + spent)
    BY <2>1, <2>4, NeatEmission
  <2>6. Hit(cmds, fault) = 1
    BY <1>4 DEF Hit
  <2>7. Neat(r, base, count, g, failures + 1)
    <3>1. r \in EndType
      BY <2>5 DEF Neat
    <3>2. failures + spent \in Nat /\ failures + 1 \in Nat /\ failures + spent <= failures + 1
      OBVIOUS
    <3>3. QED
      BY <2>5, <3>1, <3>2, NeatSame
  <2>8. Held(r) /\ SameHeader(r.host, e.host)
    BY <2>1 DEF Emission, SameHeader
  <2>9. ASSUME NEW cmd, Never(e.out, cmd), Never(e.pending, cmd), \A i \in 1..Len(cmds) : cmds[i] # cmd
        PROVE  Never(r.out, cmd) /\ Never(r.pending, cmd)
    <3>1. \A i \in 1..Len(said) : said[i] # cmd
      BY <2>3, <2>9
    <3>2. QED
      BY <1>1, <2>1, <2>9, <3>1, NeverSay
  <2>10. QED
    BY <1>4, <2>2, <2>6, <2>7, <2>8, <2>9 DEF Uttered
<1>5. QED
  BY <1>3, <1>4

-----------------------------------------------------------------------------
\* The inductive invariant: what the host knows of the package.  Without an
\* allocation that failed it all went out, and it ends where packageEnd says.
Offer(h, base, count, failures) ==
  /\ count <= PackageParts
  /\ h.packageSent \/ count = 0
  /\ failures = 0 =>
       /\ h.packageSent => count = PackageParts /\ h.packageEnd = base + count
       /\ h.packageAcked => h.packageSent /\ base + count <= h.acked
       /\ ~h.offered => h.state \in {"WAITING", "FAILED"}

\* Before the guest links it is not offered anything.
Waits(e) ==
  e.host.state = "WAITING" =>
    /\ ~e.host.packageSent
    /\ Never(e.out, Single("SPkg")) /\ Never(e.pending, Single("SPkg"))

Ready(e, base, count, g, failures) ==
  Neat(e, base, count, g, failures) /\ Held(e) /\ Offer(e.host, base, count, failures) /\ Waits(e)

Spent(fault) == IF fault = NoFault THEN 0 ELSE 1

\* The states a link goes through that runs out of nothing.
Moves(h, k) ==
  \/ k.state = h.state
  \/ h.state = "WAITING" /\ k.state = "SENDING"
  \/ h.state = "SENDING" /\ h.packageAcked /\ k.state = "DONE"
  \/ k.state = "FAILED"

Handled(e, r, base, count, g, failures, fault) ==
  /\ \E base2, count2 \in Nat :
       /\ Ready(r, base2, count2, g, failures + Spent(fault))
       /\ (base2 = base /\ count2 = count) \/ (count = 0 /\ base2 = e.host.block)
  /\ r.host.acked = e.host.acked /\ r.host.received = e.host.received
  /\ r.host.state = "WAITING" => e.host.state = "WAITING"
  /\ failures + Spent(fault) = 0 => Moves(e.host, r.host)

LEMMA SingleSaid ==
  ASSUME NEW tag \in {"Cntd", "SPkg", "Ping", "Pong"}
  PROVE  /\ <<Single(tag)>> \in Seq(HostCommands) /\ Len(<<Single(tag)>>) = 1
         /\ \A i \in 1..Len(<<Single(tag)>>) : <<Single(tag)>>[i] = Single(tag)
         /\ Single(tag)[1] # "part"
         /\ tag # "SPkg" => Single(tag) # Single("SPkg")
<1>1. Single(tag) \in HostCommands
  BY DEF Single, HostCommands
<1>2. <<Single(tag)>> \in Seq(HostCommands) /\ Len(<<Single(tag)>>) = 1
  BY <1>1
<1>3. \A i \in 1..Len(<<Single(tag)>>) : <<Single(tag)>>[i] = Single(tag)
  BY <1>2
<1>4. Single(tag)[1] = tag /\ Single("SPkg")[1] = "SPkg"
  BY DEF Single
<1>5. QED
  BY <1>2, <1>3, <1>4

LEMMA FaultType ==
  ASSUME NEW fault \in Fault, NEW n \in Nat
  PROVE  /\ After(fault, n) \in Fault
         /\ After(fault, n).at = IF fault.at > n THEN fault.at - n ELSE 0
         /\ Spent(fault) \in {0, 1} /\ (Spent(fault) = 0 => fault.at = 0)
<1>1. fault.at \in Nat /\ fault.loud \in BOOLEAN
  BY DEF Fault
<1>2. After(fault, n).at = IF fault.at > n THEN fault.at - n ELSE 0
  BY DEF After, Fault
<1>3. After(fault, n) = [at |-> After(fault, n).at, loud |-> fault.loud]
  BY DEF After, Fault
<1>4. (IF fault.at > n THEN fault.at - n ELSE 0) \in Nat
  BY <1>1
<1>5. After(fault, n) \in Fault
  BY <1>1, <1>2, <1>3, <1>4 DEF Fault
<1>6. Spent(fault) \in {0, 1} /\ (Spent(fault) = 0 => fault.at = 0)
  BY DEF Spent, NoFault
<1>7. QED
  BY <1>2, <1>5, <1>6

LEMMA SpentMore ==
  ASSUME NEW fault \in Fault, NEW failures \in Nat
  PROVE  /\ failures + Spent(fault) \in Nat /\ failures <= failures + Spent(fault)
         /\ Spent(fault) \in {0, 1} /\ (Spent(fault) = 0 => fault.at = 0)
         /\ failures + Spent(fault) = 0 => failures = 0 /\ Spent(fault) = 0
<1>1. Spent(fault) \in {0, 1} /\ (Spent(fault) = 0 => fault.at = 0)
  BY DEF Spent, NoFault
<1>2. QED
  BY <1>1

\* One message.
SaidOne(e, r, base, count, g, failures, tag, fault) ==
  /\ Held(r) /\ SameHeader(r.host, e.host)
  /\ Neat(r, base, count, g, failures + (IF fault.at = 1 THEN 1 ELSE 0))
  /\ fault.at # 1 => r.host.state = e.host.state
  /\ r.host.state \in {e.host.state, "FAILED"}
  /\ (tag # "SPkg" /\ Never(e.out, Single("SPkg")) /\ Never(e.pending, Single("SPkg")))
       => Never(r.out, Single("SPkg")) /\ Never(r.pending, Single("SPkg"))
  /\ Emitted(<<Single(tag)>>, fault) <=> fault.at # 1

LEMMA SayOk ==
  ASSUME NEW e, NEW g \in GuestType, NEW base \in Nat, NEW count \in Nat, NEW failures \in Nat,
         Neat(e, base, count, g, failures), Held(e),
         NEW tag \in {"Cntd", "SPkg", "Ping", "Pong"},
         NEW fault \in Fault, NEW r, r = Emit(e, <<Single(tag)>>, fault)
  PROVE  SaidOne(e, r, base, count, g, failures, tag, fault)
<1> DEFINE cmds == <<Single(tag)>>
<1>1. /\ cmds \in Seq(HostCommands) /\ Len(cmds) = 1
      /\ \A i \in 1..Len(cmds) : cmds[i] = Single(tag)
      /\ Single(tag)[1] # "part"
      /\ tag # "SPkg" => Single(tag) # Single("SPkg")
  BY SingleSaid
<1> HIDE DEF cmds
<1>2. Emitted(cmds, fault) <=> fault.at # 1
  <2>1. fault.at \in Nat
    BY DEF Fault
  <2>2. QED
    BY <1>1, <2>1 DEF Emitted
<1>3. Hit(cmds, fault) = IF fault.at = 1 THEN 1 ELSE 0
  BY <1>2 DEF Hit
<1>4. \A i \in 1..Len(cmds) : cmds[i][1] # "part"
  BY <1>1
<1>5. r = Emit(e, cmds, fault)
  BY DEF cmds
<1>6. Uttered(e, r, base, count, g, failures, cmds, fault)
  BY <1>1, <1>4, <1>5, EmitOk
<1>7. tag # "SPkg" => \A i \in 1..Len(cmds) : cmds[i] # Single("SPkg")
  BY <1>1
<1>8. Emitted(<<Single(tag)>>, fault) <=> fault.at # 1
  BY <1>2 DEF cmds
<1>9. (tag # "SPkg" /\ Never(e.out, Single("SPkg")) /\ Never(e.pending, Single("SPkg")))
        => Never(r.out, Single("SPkg")) /\ Never(r.pending, Single("SPkg"))
  BY <1>6, <1>7 DEF Uttered
<1>10. /\ Held(r) /\ SameHeader(r.host, e.host)
       /\ fault.at # 1 => r.host.state = e.host.state
       /\ r.host.state \in {e.host.state, "FAILED"}
  BY <1>2, <1>6 DEF Uttered
<1>11. Neat(r, base, count, g, failures + (IF fault.at = 1 THEN 1 ELSE 0))
  BY <1>3, <1>6 DEF Uttered
<1>12. QED
  BY <1>8, <1>9, <1>10, <1>11 DEF SaidOne

LEMMA OfferSame ==
  ASSUME NEW h \in HostType, NEW base \in Nat, NEW count \in Nat, NEW failures \in Nat,
         Offer(h, base, count, failures), NEW k, SameHeader(k, h),
         NEW more \in Nat, failures <= more,
         more = 0 /\ ~h.offered => k.state \in {h.state, "FAILED"}
  PROVE  Offer(k, base, count, more)
<1>1. more = 0 => failures = 0
  OBVIOUS
<1>2. QED
  BY <1>1 DEF Offer, SameHeader

\* A single message other than the offer.
LEMMA ReadySay ==
  ASSUME NEW e, NEW g \in GuestType, NEW base \in Nat, NEW count \in Nat, NEW failures \in Nat,
         Ready(e, base, count, g, failures), NEW tag \in {"Ping", "Pong"},
         NEW fault \in Fault, NEW r, r = Emit(e, <<Single(tag)>>, fault)
  PROVE  Handled(e, r, base, count, g, failures, fault)
<1> DEFINE hit == IF fault.at = 1 THEN 1 ELSE 0
<1>1. SaidOne(e, r, base, count, g, failures, tag, fault)
  <2>1. Neat(e, base, count, g, failures) /\ Held(e) /\ tag \in {"Cntd", "SPkg", "Ping", "Pong"}
    BY DEF Ready
  <2>2. QED
    BY <2>1, SayOk
<1>2. Spent(fault) \in {0, 1} /\ (Spent(fault) = 0 => fault.at = 0)
  BY FaultType
<1>3. hit \in Nat /\ hit <= Spent(fault)
  BY <1>2
<1>3a. Neat(r, base, count, g, failures + hit)
  BY <1>1 DEF SaidOne
<1>3b. r.host.state \in {e.host.state, "FAILED"} /\ SameHeader(r.host, e.host) /\ Held(r)
  BY <1>1 DEF SaidOne
<1> HIDE DEF hit
<1>4. /\ failures + hit \in Nat /\ failures + Spent(fault) \in Nat
      /\ failures + hit <= failures + Spent(fault) /\ failures <= failures + Spent(fault)
  BY <1>2, <1>3
<1>5. Neat(r, base, count, g, failures + Spent(fault))
  <2>1. r \in EndType
    BY <1>3a DEF Neat
  <2>2. QED
    BY <1>3a, <1>3b, <1>4, <2>1, NeatSame DEF SameHeader
<1>6. Offer(r.host, base, count, failures + Spent(fault))
  <2>1. e.host \in HostType /\ Offer(e.host, base, count, failures)
    BY DEF Ready, Neat, EndType
  <2>2. QED
    BY <1>3b, <1>4, <2>1, OfferSame
<1>7. Waits(r) /\ (r.host.state = "WAITING" => e.host.state = "WAITING")
  <2>1. ASSUME r.host.state = "WAITING"
        PROVE  e.host.state = "WAITING" /\ (r.host.packageSent <=> e.host.packageSent)
    BY <1>3b, <2>1 DEF SameHeader
  <2>2. Waits(e)
    BY DEF Ready
  <2>3. tag # "SPkg"
    OBVIOUS
  <2>4. QED
    BY <1>1, <2>1, <2>2, <2>3 DEF Waits, SaidOne
<1>8. Moves(e.host, r.host)
  BY <1>3b DEF Moves
<1>9. QED
  <2>1. Ready(r, base, count, g, failures + Spent(fault))
    BY <1>3b, <1>5, <1>6, <1>7 DEF Ready
  <2>2. r.host.acked = e.host.acked /\ r.host.received = e.host.received
    BY <1>3b DEF SameHeader
  <2>3. QED
    BY <1>7, <1>8, <2>1, <2>2 DEF Handled

\* The greetings and the offer.
LEMMA CnctOk ==
  ASSUME NEW e, NEW g \in GuestType, NEW base \in Nat, NEW count \in Nat, NEW failures \in Nat,
         Ready(e, base, count, g, failures), e.host.state # "FAILED",
         NEW fault \in Fault, ~e.host.offered, NEW r, r = Cnct(e, fault)
  PROVE  Handled(e, r, base, count, g, failures, fault)
<1> DEFINE fault1 == After(fault, 1)
           fault2 == After(fault, 2)
           once == Emit(e, <<Single("Cntd")>>, fault)
           twice == Emit(once, <<Single("Cntd")>>, fault1)
           linked == [twice EXCEPT !.host.state = "CONNECTED", !.host.offered = TRUE]
           offer == Emit(linked, <<Single("SPkg")>>, fault2)
           sending == [offer EXCEPT !.host.state = "SENDING"]
           hit == IF fault.at = 1 THEN 1 ELSE 0
           hit1 == IF fault1.at = 1 THEN 1 ELSE 0
           hit2 == IF fault2.at = 1 THEN 1 ELSE 0
           more == failures + Spent(fault)
<1>1. r = IF Emitted(<<Single("SPkg")>>, fault2) THEN sending ELSE offer
  BY DEF Cnct
<1>2. /\ fault1 \in Fault /\ fault2 \in Fault /\ fault.at \in Nat
      /\ fault1.at = (IF fault.at > 1 THEN fault.at - 1 ELSE 0)
      /\ fault2.at = (IF fault.at > 2 THEN fault.at - 2 ELSE 0)
      /\ Spent(fault) \in {0, 1} /\ (Spent(fault) = 0 => fault.at = 0)
  BY FaultType DEF Fault
<1> HIDE DEF fault1, fault2
<1>3. /\ hit \in Nat /\ hit1 \in Nat /\ hit2 \in Nat
      /\ hit + hit1 + hit2 <= Spent(fault)
      /\ Spent(fault) = 0 => fault2.at # 1
  BY <1>2
<1>4. SaidOne(e, once, base, count, g, failures, "Cntd", fault)
  <2>1. Neat(e, base, count, g, failures) /\ Held(e)
    BY DEF Ready
  <2>2. QED
    BY <2>1, SayOk
<1> HIDE DEF once
<1>5. /\ Neat(once, base, count, g, failures + hit) /\ Held(once)
      /\ SameHeader(once.host, e.host)
  BY <1>4 DEF SaidOne
<1>6. failures + hit \in Nat /\ failures + hit + hit1 \in Nat /\ failures + hit + hit1 + hit2 \in Nat
      /\ more \in Nat /\ failures + hit + hit1 + hit2 <= more /\ failures <= more
  BY <1>2, <1>3
<1> HIDE DEF hit, hit1, hit2
<1>7. SaidOne(once, twice, base, count, g, failures + hit, "Cntd", fault1)
  BY <1>2, <1>5, <1>6, SayOk DEF twice
<1> HIDE DEF twice
<1>8. /\ Neat(twice, base, count, g, failures + hit + hit1) /\ Held(twice)
      /\ SameHeader(twice.host, once.host)
  BY <1>7 DEF SaidOne, hit1
<1>9. twice \in EndType /\ twice.host \in HostType
  BY <1>8 DEF Neat, EndType
<1>10. /\ linked \in EndType /\ linked.out = twice.out /\ linked.pending = twice.pending
       /\ linked.host.window = twice.host.window /\ linked.host.sent = twice.host.sent
       /\ linked.host.acked = twice.host.acked /\ linked.host.received = twice.host.received
       /\ linked.host.block = twice.host.block /\ linked.host.state = "CONNECTED"
       /\ linked.host.packageSent = twice.host.packageSent /\ linked.host.offered = TRUE
       /\ linked.host.packageEnd = twice.host.packageEnd
       /\ linked.host.packageAcked = twice.host.packageAcked
  BY <1>9 DEF EndType, HostType
<1> HIDE DEF linked
<1>11. Neat(linked, base, count, g, failures + hit + hit1) /\ Held(linked)
  <2>1. failures + hit + hit1 <= failures + hit + hit1
    BY <1>6
  <2>2. Neat(linked, base, count, g, failures + hit + hit1)
    BY <1>6, <1>8, <1>10, <2>1, NeatSame
  <2>3. QED
    BY <1>8, <1>10, <2>2 DEF Held
<1>12. SaidOne(linked, offer, base, count, g, failures + hit + hit1, "SPkg", fault2)
  BY <1>2, <1>6, <1>11, SayOk DEF offer
<1> HIDE DEF offer
<1>13. /\ Neat(offer, base, count, g, failures + hit + hit1 + hit2) /\ Held(offer)
       /\ SameHeader(offer.host, linked.host)
       /\ offer.host.state \in {"CONNECTED", "FAILED"}
       /\ Emitted(<<Single("SPkg")>>, fault2) <=> fault2.at # 1
  BY <1>10, <1>12 DEF SaidOne, hit2
<1>14. offer \in EndType /\ offer.host \in HostType
  BY <1>13 DEF Neat, EndType
<1>15. /\ sending \in EndType /\ sending.out = offer.out /\ sending.pending = offer.pending
       /\ sending.host.window = offer.host.window /\ sending.host.sent = offer.host.sent
       /\ sending.host.acked = offer.host.acked /\ sending.host.received = offer.host.received
       /\ sending.host.block = offer.host.block /\ sending.host.state = "SENDING"
       /\ SameHeader(sending.host, offer.host)
  BY <1>14 DEF EndType, HostType, SameHeader
<1> HIDE DEF sending
<1>16. /\ r \in EndType /\ r.out = offer.out /\ r.pending = offer.pending
       /\ r.host.window = offer.host.window /\ r.host.sent = offer.host.sent
       /\ r.host.acked = offer.host.acked /\ r.host.received = offer.host.received
       /\ r.host.block = offer.host.block /\ SameHeader(r.host, offer.host)
       /\ r.host.state \in {"CONNECTED", "SENDING", "FAILED"}
       /\ Spent(fault) = 0 => r.host.state = "SENDING"
  BY <1>1, <1>3, <1>13, <1>14, <1>15 DEF SameHeader
<1>17. Neat(r, base, count, g, more)
  BY <1>6, <1>13, <1>16, NeatSame
<1>18. Held(r)
  BY <1>13, <1>16 DEF Held
<1>19. /\ r.host.packageSent = e.host.packageSent /\ r.host.packageEnd = e.host.packageEnd
       /\ r.host.packageAcked = e.host.packageAcked /\ r.host.offered = TRUE
       /\ r.host.acked = e.host.acked /\ r.host.received = e.host.received
  BY <1>5, <1>8, <1>10, <1>13, <1>16 DEF SameHeader
<1>20. Offer(r.host, base, count, more)
  <2>1. Offer(e.host, base, count, failures)
    BY DEF Ready
  <2>2. more = 0 => failures = 0
    BY <1>2
  <2>3. QED
    BY <1>19, <2>1, <2>2 DEF Offer
<1>21. Waits(r) /\ r.host.state # "WAITING"
  BY <1>16 DEF Waits
<1>22. ASSUME more = 0
       PROVE  Moves(e.host, r.host)
  <2>1. failures = 0 /\ Spent(fault) = 0
    BY <1>2, <1>22
  <2>2. e.host.state \in {"WAITING", "FAILED"}
    BY <2>1 DEF Ready, Offer
  <2>3. QED
    BY <1>16, <2>1, <2>2 DEF Moves
<1>23. QED
  <2>1. Ready(r, base, count, g, more)
    BY <1>17, <1>18, <1>20, <1>21 DEF Ready
  <2>2. QED
    BY <1>19, <1>21, <1>22, <2>1 DEF Handled

LEMMA PackageIs ==
  /\ Package \in Seq(HostCommands) /\ Len(Package) = PackageParts /\ PackageParts \in Nat
  /\ \A i \in 1..Len(Package) : Package[i] = Part(i)
<1>1. PackageParts \in Nat
  BY LinkAssumption
<1>2. \A i \in 1..PackageParts : Part(i) \in HostCommands
  BY DEF HostCommands
<1>3. Package \in [1..PackageParts -> HostCommands]
  BY <1>2 DEF Package
<1>4. Package \in Seq(HostCommands)
  BY <1>1, <1>3, SeqDef
<1>5. Len(Package) = PackageParts
  BY <1>1 DEF Package
<1>6. QED
  BY <1>1, <1>4, <1>5 DEF Package

\* A step that only spends.
LEMMA ReadyStays ==
  ASSUME NEW e, NEW g \in GuestType, NEW base \in Nat, NEW count \in Nat, NEW failures \in Nat,
         Ready(e, base, count, g, failures), NEW fault \in Fault,
         NEW r \in EndType, r.out = e.out, r.pending = e.pending,
         SameHeader(r.host, e.host), r.host.sent = e.host.sent, r.host.block = e.host.block,
         Moves(e.host, r.host), r.host.state = "WAITING" => e.host.state = "WAITING",
         failures + Spent(fault) = 0 /\ ~e.host.offered => r.host.state \in {e.host.state, "FAILED"}
  PROVE  Handled(e, r, base, count, g, failures, fault)
<1>1. failures + Spent(fault) \in Nat /\ failures <= failures + Spent(fault)
  BY SpentMore
<1>2. Neat(r, base, count, g, failures + Spent(fault))
  <2>1. Neat(e, base, count, g, failures)
    BY DEF Ready
  <2>2. QED
    BY <1>1, <2>1, NeatSame DEF SameHeader
<1>3. Offer(r.host, base, count, failures + Spent(fault))
  <2>1. Offer(e.host, base, count, failures) /\ e.host \in HostType
    BY DEF Ready, Neat, EndType
  <2>2. QED
    BY <1>1, <2>1, OfferSame
<1>4. Held(r) /\ Waits(r)
  BY DEF Ready, Held, Waits, SameHeader
<1>5. Ready(r, base, count, g, failures + Spent(fault))
  BY <1>2, <1>3, <1>4 DEF Ready
<1>6. QED
  BY <1>5 DEF Handled, SameHeader

\* The package.
LEMMA SendOk ==
  ASSUME NEW e, NEW g \in GuestType, NEW base \in Nat, NEW count \in Nat, NEW failures \in Nat,
         Ready(e, base, count, g, failures), e.host.state # "FAILED", e.host.state # "WAITING",
         NEW fault \in Fault, ~e.host.packageSent, NEW r, r = Send(e, fault)
  PROVE  Handled(e, r, base, count, g, failures, fault)
<1> DEFINE marked == [e EXCEPT !.host.packageSent = TRUE]
           parts == Emit(marked, Package, fault)
           more == failures + Spent(fault)
<1>1. /\ e \in EndType /\ e.host \in HostType /\ Neat(e, base, count, g, failures) /\ Held(e)
      /\ e.host.block \in Nat
  BY DEF Ready, Neat, EndType, HostType
<1>2. count = 0 /\ (failures = 0 => ~e.host.packageAcked)
  BY DEF Ready, Offer
<1>3. /\ marked \in EndType /\ marked.out = e.out /\ marked.pending = e.pending
      /\ marked.host.window = e.host.window /\ marked.host.sent = e.host.sent
      /\ marked.host.acked = e.host.acked /\ marked.host.received = e.host.received
      /\ marked.host.block = e.host.block /\ marked.host.packageSent = TRUE
      /\ marked.host.offered = e.host.offered /\ marked.host.state = e.host.state
      /\ marked.host.packageAcked = e.host.packageAcked
  BY <1>1 DEF EndType, HostType
<1> HIDE DEF marked
<1>4. Neat(marked, base, 0, g, failures) /\ Held(marked) /\ WindowRoom(marked)
  <2>1. failures <= failures
    OBVIOUS
  <2>2. Neat(marked, base, count, g, failures)
    BY <1>1, <1>3, <2>1, NeatSame
  <2>3. WindowRoom(marked)
    BY <2>2 DEF Neat, Sound
  <2>4. Held(marked)
    BY <1>1, <1>3 DEF Held
  <2>5. QED
    BY <1>2, <2>2, <2>3, <2>4
<1>5. r = IF Emitted(Package, fault) THEN [parts EXCEPT !.host.packageEnd = parts.host.block]
          ELSE parts
  BY DEF Send, marked
<1>6. Package \in Seq(HostCommands) /\ Len(Package) = PackageParts /\ PackageParts \in Nat
  BY PackageIs
<1>7. more \in Nat /\ failures <= more /\ Spent(fault) \in {0, 1} /\ (Spent(fault) = 0 => fault.at = 0)
  BY SpentMore
<1>8. CASE Emitted(Package, fault)
  <2>1. PICK now \in Nat : Emission(marked, parts, Package, now, 0)
    BY <1>3, <1>4, <1>6, <1>8, EmitIs
  <2>2. parts.host.state = e.host.state
    BY <1>3, <1>4, <1>6, <1>8, EmitIs
  <2> HIDE DEF parts
  <2>3. Neat(parts, e.host.block, PackageParts, g, failures + 0)
    <3>1. Neat(parts, marked.host.block, Len(Package), g, failures + 0)
      BY <1>4, <2>1, PackageIs, NeatPackage
    <3>2. QED
      BY <1>3, <1>6, <3>1
  <2>4. /\ parts \in EndType /\ parts.host \in HostType /\ parts.host.block \in Nat
        /\ parts.host.block = e.host.block + PackageParts
        /\ parts.host.packageSent = TRUE /\ parts.host.offered = e.host.offered
        /\ parts.host.packageAcked = e.host.packageAcked /\ parts.host.acked = e.host.acked
        /\ parts.host.received = e.host.received /\ Held(parts)
    <3>1. parts \in EndType /\ parts.host \in HostType /\ parts.host.block \in Nat
      BY <2>3 DEF Neat, EndType, HostType
    <3>2. parts.host.block = marked.host.block + Len(Package) + 0
      BY <2>1 DEF Emission
    <3>3. parts.host.block = e.host.block + PackageParts
      BY <1>1, <1>3, <1>6, <3>2
    <3>4. QED
      BY <1>3, <2>1, <3>1, <3>3 DEF Emission
  <2>5. /\ r \in EndType /\ r.out = parts.out /\ r.pending = parts.pending
        /\ r.host.window = parts.host.window /\ r.host.sent = parts.host.sent
        /\ r.host.acked = parts.host.acked /\ r.host.received = parts.host.received
        /\ r.host.block = parts.host.block /\ r.host.packageSent = TRUE
        /\ r.host.packageEnd = parts.host.block /\ r.host.state = parts.host.state
        /\ r.host.offered = parts.host.offered /\ r.host.packageAcked = parts.host.packageAcked
    BY <1>5, <1>8, <2>4, SMTT(30) DEF EndType, HostType
  <2>6. Neat(r, e.host.block, PackageParts, g, more)
    <3>1. failures + 0 \in Nat /\ failures + 0 <= more
      BY <1>7
    <3>2. QED
      BY <1>1, <1>6, <1>7, <2>3, <2>5, <3>1, NeatSame, ZenonT(40)
  <2>7. Held(r)
    BY <2>4, <2>5 DEF Held
  <2>8. Offer(r.host, e.host.block, PackageParts, more)
    <3>1. PackageParts <= PackageParts /\ (more = 0 => failures = 0)
      BY <1>6, <1>7
    <3>2. failures = 0 /\ ~e.host.offered => e.host.state \in {"WAITING", "FAILED"}
      BY DEF Ready, Offer
    <3>3. QED
      BY <1>2, <2>2, <2>4, <2>5, <3>1, <3>2 DEF Offer
  <2>9. r.host.state = e.host.state /\ Waits(r)
    BY <2>2, <2>5 DEF Waits
  <2>10. Ready(r, e.host.block, PackageParts, g, more)
    BY <2>6, <2>7, <2>8, <2>9 DEF Ready
  <2>11. Moves(e.host, r.host)
    BY <2>9 DEF Moves
  <2>12. r.host.acked = e.host.acked /\ r.host.received = e.host.received
    BY <2>4, <2>5
  <2>13. QED
    BY <1>1, <1>2, <1>6, <2>9, <2>10, <2>11, <2>12 DEF Handled
<1>9. CASE ~Emitted(Package, fault)
  <2> DEFINE said == SubSeq(Package, 1, fault.at - 1)
  <2>1. PICK now \in Nat, spent \in {0, 1} : Emission(marked, parts, said, now, spent)
    BY <1>3, <1>4, <1>6, <1>9, EmitIs
  <2>2. r = parts /\ r.host.state \in {e.host.state, "FAILED"}
    BY <1>3, <1>4, <1>5, <1>6, <1>9, EmitIs
  <2>3. fault.at \in 1..PackageParts /\ Spent(fault) = 1
    BY <1>6, <1>7, <1>9 DEF Emitted
  <2>4. Len(said) \in Nat /\ Len(said) <= PackageParts /\ \A i \in 1..Len(said) : said[i] = Part(i)
    <3>1. 1 \in 1..(Len(Package) + 1) /\ fault.at - 1 \in (1 - 1)..Len(Package)
      BY <1>6, <2>3
    <3>2. /\ Len(said) = fault.at - 1 - 1 + 1
          /\ \A i \in 1..(fault.at - 1 - 1 + 1) : said[i] = Package[1 + i - 1] /\ 1 + i - 1 \in 1..Len(Package)
      BY <1>6, <3>1, SubSeqType
    <3> HIDE DEF said
    <3>3. Len(said) \in Nat /\ Len(said) <= PackageParts
      BY <1>6, <2>3, <3>2
    <3>4. \A i \in Nat : 1 + i - 1 = i
      OBVIOUS
    <3>5. \A i \in 1..Len(said) : i \in Nat /\ i \in 1..(fault.at - 1 - 1 + 1)
      BY <3>2, <3>3
    <3>6. ASSUME NEW i \in 1..Len(said)
          PROVE  said[i] = Part(i)
      <4>1. said[i] = Package[i] /\ i \in 1..Len(Package)
        BY <3>2, <3>4, <3>5
      <4>2. QED
        BY <4>1, PackageIs
    <3>7. QED
      BY <3>3, <3>6
  <2> HIDE DEF said, parts
  <2>5. Neat(parts, e.host.block, Len(said), g, failures + spent)
    <3>1. Neat(parts, marked.host.block, Len(said), g, failures + spent)
      BY <1>4, <2>1, <2>4, NeatPackage
    <3>2. QED
      BY <1>3, <3>1
  <2>6. Neat(r, e.host.block, Len(said), g, more)
    <3>1. failures + spent \in Nat /\ failures + spent <= more
      BY <2>3
    <3>2. parts \in EndType
      BY <2>5 DEF Neat
    <3>3. QED
      BY <1>1, <1>7, <2>2, <2>4, <2>5, <3>1, <3>2, NeatSame
  <2>7. /\ Held(r) /\ r.host.packageSent = TRUE
        /\ r.host.acked = e.host.acked /\ r.host.received = e.host.received
    BY <1>3, <2>1, <2>2 DEF Emission
  <2>8. more # 0
    BY <2>3
  <2>9. Offer(r.host, e.host.block, Len(said), more)
    BY <2>4, <2>7, <2>8 DEF Offer
  <2>10. Waits(r) /\ r.host.state # "WAITING"
    BY <2>2 DEF Waits
  <2>11. Ready(r, e.host.block, Len(said), g, more)
    BY <2>6, <2>7, <2>9, <2>10 DEF Ready
  <2>12. QED
    BY <1>1, <1>2, <2>4, <2>7, <2>8, <2>10, <2>11 DEF Handled
<1>10. QED
  BY <1>8, <1>9

LEMMA StateChanges ==
  ASSUME NEW e \in EndType, NEW state \in {"DONE", "FAILED"}, NEW r,
         r = [e EXCEPT !.host.state = state]
  PROVE  /\ r \in EndType /\ r.out = e.out /\ r.pending = e.pending
         /\ SameHeader(r.host, e.host) /\ r.host.sent = e.host.sent /\ r.host.block = e.host.block
         /\ r.host.state = state
<1>1. e.host \in HostType
  BY DEF EndType
<1>2. /\ r.out = e.out /\ r.pending = e.pending /\ r.host = [e.host EXCEPT !.state = state]
      /\ r = [host |-> r.host, out |-> r.out, pending |-> r.pending]
  BY DEF EndType
<1>3. [e.host EXCEPT !.state = state] \in HostType
  BY <1>1 DEF HostType
<1>4. r \in EndType
  BY <1>2, <1>3 DEF EndType
<1>5. SameHeader(r.host, e.host) /\ r.host.sent = e.host.sent /\ r.host.block = e.host.block
      /\ r.host.state = state
  BY <1>1, <1>2 DEF SameHeader, HostType
<1>6. QED
  BY <1>2, <1>4, <1>5

\* A command from the guest.
LEMMA HandleOk ==
  ASSUME NEW e, NEW g \in GuestType, NEW base \in Nat, NEW count \in Nat, NEW failures \in Nat,
         Ready(e, base, count, g, failures), e.host.state # "FAILED",
         NEW cmd \in GuestCommands, cmd = "Send" => e.host.state # "WAITING",
         NEW fault \in Fault, NEW r, r = Handle(e, cmd, fault)
  PROVE  Handled(e, r, base, count, g, failures, fault)
<1>1. e \in EndType /\ e.host \in HostType
  BY DEF Ready, Neat, EndType
<1>2. CASE r = e
  <2>1. SameHeader(r.host, e.host) /\ Moves(e.host, r.host)
    BY <1>2 DEF SameHeader, Moves
  <2>2. QED
    BY <1>1, <1>2, <2>1, ReadyStays
<1>3. CASE cmd = "Cnct"
  <2>1. r = Cnct(e, fault)
    BY <1>3 DEF Handle
  <2>2. CASE e.host.offered
    BY <1>2, <2>1, <2>2 DEF Cnct
  <2>3. CASE ~e.host.offered
    BY <2>1, <2>3, CnctOk
  <2>4. QED
    BY <2>2, <2>3
<1>4. CASE cmd = "Send"
  <2>1. r = Send(e, fault)
    BY <1>4 DEF Handle
  <2>2. CASE e.host.packageSent
    BY <1>2, <2>1, <2>2 DEF Send
  <2>3. CASE ~e.host.packageSent
    BY <1>4, <2>1, <2>3, SendOk
  <2>4. QED
    BY <2>2, <2>3
<1>5. CASE cmd = "Ping"
  <2>1. r = Emit(e, <<Single("Pong")>>, fault)
    BY <1>5 DEF Handle
  <2>2. QED
    BY <2>1, ReadySay
<1>6. CASE cmd = "Pong"
  <2>1. r = Pong(e)
    BY <1>6 DEF Handle
  <2>2. CASE e.host.state = "SENDING" /\ e.host.packageAcked
    <3>1. r = [e EXCEPT !.host.state = "DONE"]
      BY <2>1, <2>2 DEF Pong
    <3>2. /\ r \in EndType /\ r.out = e.out /\ r.pending = e.pending
          /\ SameHeader(r.host, e.host) /\ r.host.sent = e.host.sent /\ r.host.block = e.host.block
          /\ r.host.state = "DONE"
      BY <1>1, <3>1, StateChanges
    <3>3. Moves(e.host, r.host)
      BY <2>2, <3>2 DEF Moves
    <3>4. failures + Spent(fault) = 0 /\ ~e.host.offered => r.host.state \in {e.host.state, "FAILED"}
      <4>1. failures + Spent(fault) = 0 => failures = 0
        BY SpentMore
      <4>2. QED
        BY <2>2, <4>1 DEF Ready, Offer
    <3>5. QED
      BY <3>2, <3>3, <3>4, ReadyStays
  <2>3. CASE ~(e.host.state = "SENDING" /\ e.host.packageAcked)
    BY <1>2, <2>1, <2>3 DEF Pong
  <2>4. QED
    BY <2>2, <2>3
<1>7. CASE cmd \notin {"Cnct", "Send", "Ping", "Pong"}
  <2>1. r = HungUp(e)
    BY <1>7 DEF Handle
  <2>2. CASE e.host.state # "DONE"
    <3>1. r = [e EXCEPT !.host.state = "FAILED"]
      BY <2>1, <2>2 DEF HungUp, Failed
    <3>2. /\ r \in EndType /\ r.out = e.out /\ r.pending = e.pending
          /\ SameHeader(r.host, e.host) /\ r.host.sent = e.host.sent /\ r.host.block = e.host.block
          /\ r.host.state = "FAILED"
      BY <1>1, <3>1, StateChanges
    <3>3. Moves(e.host, r.host)
      BY <3>2 DEF Moves
    <3>4. QED
      BY <3>2, <3>3, ReadyStays
  <2>3. CASE e.host.state = "DONE"
    BY <1>2, <2>1, <2>3 DEF HungUp
  <2>4. QED
    BY <2>2, <2>3
<1>8. QED
  BY <1>3, <1>4, <1>5, <1>6, <1>7

-----------------------------------------------------------------------------
\* What an acknowledgement admits moves from pending to out.

LEMMA Halves ==
  ASSUME NEW S, NEW s \in Seq(S), NEW m \in 0..Len(s)
  PROVE  /\ SubSeq(s, 1, m) \in Seq(S) /\ Len(SubSeq(s, 1, m)) = m
         /\ \A i \in 1..m : SubSeq(s, 1, m)[i] = s[i] /\ i \in 1..Len(s)
         /\ SubSeq(s, m + 1, Len(s)) \in Seq(S) /\ Len(SubSeq(s, m + 1, Len(s))) = Len(s) - m
         /\ \A i \in 1..(Len(s) - m) :
              SubSeq(s, m + 1, Len(s))[i] = s[m + i] /\ m + i \in 1..Len(s)
<1> DEFINE n == Len(s)
<1>1. n \in Nat /\ m \in Nat /\ m <= n
  BY LenProperties
<1>2. 1 \in 1..(n + 1) /\ m \in (1 - 1)..n /\ m + 1 \in 1..(n + 1) /\ n \in (m + 1 - 1)..n
  BY <1>1
<1>3. /\ SubSeq(s, 1, m) \in Seq(S) /\ Len(SubSeq(s, 1, m)) = m - 1 + 1
      /\ \A i \in 1..(m - 1 + 1) : SubSeq(s, 1, m)[i] = s[1 + i - 1] /\ 1 + i - 1 \in 1..n
  BY <1>2, SubSeqType
<1>4. /\ SubSeq(s, m + 1, n) \in Seq(S) /\ Len(SubSeq(s, m + 1, n)) = n - (m + 1) + 1
      /\ \A i \in 1..(n - (m + 1) + 1) :
           SubSeq(s, m + 1, n)[i] = s[m + 1 + i - 1] /\ m + 1 + i - 1 \in 1..n
  BY <1>2, SubSeqType
<1>5. /\ m - 1 + 1 = m /\ n - (m + 1) + 1 = n - m
      /\ \A i \in 1..m : 1 + i - 1 = i
      /\ \A i \in 1..(n - m) : m + 1 + i - 1 = m + i
  BY <1>1
<1> DEFINE a == SubSeq(s, 1, m)
           b == SubSeq(s, m + 1, n)
<1> HIDE DEF a, b, n
<1>6. Len(a) = m /\ \A i \in 1..m : a[i] = s[i] /\ i \in 1..n
  BY <1>3, <1>5 DEF a
<1>7. Len(b) = n - m /\ \A i \in 1..(n - m) : b[i] = s[m + i] /\ m + i \in 1..n
  BY <1>4, <1>5 DEF b
<1>8. QED
  BY <1>3, <1>4, <1>6, <1>7 DEF a, b, n

LEMMA HalvesNat ==
  ASSUME NEW s \in Seq(Nat), NEW m \in 0..Len(s)
  PROVE  /\ SubSeq(s, 1, m) \in Seq(Nat) /\ Len(SubSeq(s, 1, m)) = m
         /\ \A i \in 1..m : SubSeq(s, 1, m)[i] = s[i] /\ i \in 1..Len(s)
         /\ SubSeq(s, m + 1, Len(s)) \in Seq(Nat) /\ Len(SubSeq(s, m + 1, Len(s))) = Len(s) - m
         /\ \A i \in 1..(Len(s) - m) :
              SubSeq(s, m + 1, Len(s))[i] = s[m + i] /\ m + i \in 1..Len(s)
BY Halves, Zenon

Refilled(e, r, moved) ==
  /\ moved \in 0..Len(e.pending) /\ r \in EndType
  /\ r.host.window = e.host.window /\ r.host.received = e.host.received
  /\ r.host.block = e.host.block /\ r.host.sent = e.host.sent + moved
  /\ r.out = e.out \o SubSeq(e.pending, 1, moved)
  /\ r.pending = SubSeq(e.pending, moved + 1, Len(e.pending))
  /\ WindowRoom(r)

LEMMA PendingSaid ==
  ASSUME NEW e \in EndType
  PROVE  /\ e.pending \in Seq(Messages(HostCommands)) /\ Len(e.pending) \in Nat
         /\ e.pending \in Seq(ToGuest) /\ e.out \in Seq(ToGuest)
         /\ \A i \in 1..Len(e.pending) : e.pending[i].kind = "msg"
<1>1. e.pending \in Seq(Messages(HostCommands)) /\ e.out \in Seq(ToGuest)
  BY DEF EndType
<1>2. \A i \in 1..Len(e.pending) : e.pending[i] \in Messages(HostCommands)
  BY <1>1, ElementOfSeq
<1>3. \A i \in 1..Len(e.pending) : e.pending[i].kind = "msg"
  BY <1>2 DEF Messages
<1>4. e.pending \in Seq(ToGuest)
  BY <1>1, SeqMonotonic DEF ToGuest
<1>5. QED
  BY <1>1, <1>3, <1>4, LenProperties

LEMMA SoundRefill ==
  ASSUME NEW e \in EndType, NEW g \in GuestType, NEW o, Sound(e, o, g),
         NEW r, NEW moved, Refilled(e, r, moved), r.host.acked <= g.got
  PROVE  \E o2 \in Seq(Nat) : Sound(r, o2, g)
<1> DEFINE new == SubSeq(e.pending, 1, moved)
           rest == SubSeq(e.pending, moved + 1, Len(e.pending))
           places == [i \in 1..moved |-> e.host.sent + i - 1]
           o2 == o \o places
           s == e.host.sent
           got == g.got
<1>1. /\ e.pending \in Seq(ToGuest) /\ e.out \in Seq(ToGuest) /\ Len(e.pending) \in Nat
      /\ \A i \in 1..Len(e.pending) : e.pending[i].kind = "msg"
  BY PendingSaid
<1>2. moved \in 0..Len(e.pending)
  BY DEF Refilled
<1>3. /\ new \in Seq(ToGuest) /\ Len(new) = moved
      /\ \A i \in 1..moved : new[i] = e.pending[i] /\ i \in 1..Len(e.pending)
      /\ rest \in Seq(ToGuest) /\ Len(rest) = Len(e.pending) - moved
  BY <1>1, <1>2, Halves
<1>4. r.out = e.out \o new /\ r.pending = rest
  BY DEF Refilled
<1> HIDE DEF new, rest
<1>5. \A i \in 1..Len(new) : new[i].kind = "msg"
  BY <1>1, <1>3
<1>6. /\ s \in Nat /\ moved \in Nat /\ got \in Nat /\ got <= s
      /\ e.host.received \in Nat /\ g.answered \in Nat /\ g.answered <= e.host.received
      /\ e.host.block \in Nat /\ s + Len(e.pending) <= e.host.block
      /\ o \in Seq(Nat) /\ Len(o) = Len(e.out)
  BY <1>1, <1>2 DEF Sound, EndType, HostType, GuestType
<1>7. /\ r.host.sent = s + moved /\ r.host.received = e.host.received
      /\ r.host.block = e.host.block /\ WindowRoom(r)
  BY DEF Refilled
<1> HIDE DEF s, got
<1>8. /\ places \in Seq(Nat) /\ Len(places) = moved
      /\ \A i \in 1..moved : places[i] = s + i - 1
  <2>1. \A i \in 1..moved : s + i - 1 \in Nat
    BY <1>6
  <2>2. places \in [1..moved -> Nat]
    BY <2>1 DEF s
  <2>3. QED
    BY <1>6, <2>2, SeqDef DEF s
<1> HIDE DEF places
<1>9. o2 \in Seq(Nat) /\ Len(o2) = Len(r.out)
  <2>1. /\ o2 \in Seq(Nat)
        /\ Joined(e.out \o new, o \o places, e.out, o, new, places)
    BY <1>1, <1>3, <1>6, <1>8, ConcatPairs
  <2>2. QED
    BY <1>4, <2>1 DEF Joined
<1>10. Placed(r.out, o2, "msg", 1, got, s + moved - 1)
  <2>1. Placed(e.out, o, "msg", 1, got, s - 1)
    BY DEF Sound, s, got
  <2>2. /\ s - 1 \in Int /\ s + moved - 1 \in Int /\ 1 \in Nat
        /\ got <= s - 1 + 1 /\ s - 1 <= s + moved - 1 /\ s - 1 + 1 = s
    BY <1>6
  <2>3. Placed(new, places, "msg", 1, s - 1 + 1, s + moved - 1)
    <3>1. \A i \in 1..moved : i \in Nat /\ places[i] \in s..(s + moved - 1)
      BY <1>6, <1>8
    <3>2. \A i, j \in 1..moved : i < j => places[i] + 1 <= places[j]
      BY <1>6, <1>8
    <3>3. QED
      BY <1>3, <2>2, <3>1, <3>2 DEF Placed
  <2>4. Placed(e.out \o new, o \o places, "msg", 1, got, s + moved - 1)
    <3>1. Len(places) = Len(new) /\ got \in Int
      BY <1>3, <1>6, <1>8
    <3>2. QED
      BY <1>1, <1>3, <1>6, <1>8, <2>1, <2>2, <2>3, <3>1, PlacedConcat
  <2>5. QED
    BY <1>4, <2>4
<1>11. Placed(r.out, o2, "ack", 0, g.answered, e.host.received)
  <2>1. Placed(e.out, o, "ack", 0, g.answered, e.host.received)
    BY DEF Sound
  <2>2. Placed(new, places, "ack", 0, e.host.received + 0, e.host.received)
    BY <1>5 DEF Placed
  <2>3. e.host.received \in Int /\ 0 \in Nat /\ g.answered <= e.host.received + 0
        /\ g.answered \in Int /\ e.host.received <= e.host.received
    BY <1>6
  <2>4. Placed(e.out \o new, o \o places, "ack", 0, g.answered, e.host.received)
    BY <1>1, <1>3, <1>6, <1>8, <2>1, <2>2, <2>3, PlacedConcat
  <2>5. QED
    BY <1>4, <2>4
<1>12. Shown(r.out, o2, "ack")
  <2>1. Shown(e.out, o, "ack") /\ Shown(new, places, "ack")
    BY <1>5 DEF Sound, Shown
  <2>2. Shown(e.out \o new, o \o places, "ack")
    BY <1>1, <1>3, <1>6, <1>8, <2>1, ShownConcat
  <2>3. QED
    BY <1>4, <2>2
<1>13. /\ got <= s + moved
       /\ s + moved + Len(r.pending) <= e.host.block
  BY <1>2, <1>1, <1>3, <1>4, <1>6
<1> HIDE DEF o2
<1>14. /\ Placed(r.out, o2, "msg", 1, g.got, r.host.sent - 1)
       /\ Placed(r.out, o2, "ack", 0, g.answered, r.host.received)
       /\ g.got <= r.host.sent /\ r.host.sent + Len(r.pending) <= r.host.block
       /\ g.answered <= r.host.received
  <2>1. r.host.sent - 1 = s + moved - 1
    BY <1>6, <1>7
  <2>2. Placed(r.out, o2, "msg", 1, g.got, r.host.sent - 1)
    BY <1>10, <2>1 DEF got
  <2>3. Placed(r.out, o2, "ack", 0, g.answered, r.host.received)
    BY <1>7, <1>11
  <2>4. g.got <= r.host.sent /\ r.host.sent + Len(r.pending) <= r.host.block
    BY <1>7, <1>13 DEF got
  <2>5. g.answered <= r.host.received
    BY <1>6, <1>7
  <2>6. QED
    BY <2>2, <2>3, <2>4, <2>5
<1>15. QED
  BY <1>7, <1>9, <1>12, <1>14 DEF Sound

LEMMA CountedRefill ==
  ASSUME NEW e \in EndType, NEW g \in GuestType, NEW n, NEW p, NEW failures \in Nat,
         Counted(e, n, p, g, failures),
         NEW r, NEW moved, Refilled(e, r, moved)
  PROVE  Counted(r, n \o SubSeq(p, 1, moved), SubSeq(p, moved + 1, Len(p)), g, failures)
<1> DEFINE new == SubSeq(e.pending, 1, moved)
           rest == SubSeq(e.pending, moved + 1, Len(e.pending))
           nums == SubSeq(p, 1, moved)
           p2 == SubSeq(p, moved + 1, Len(p))
           n2 == n \o nums
           b == e.host.block
           s == e.host.sent
           l == Len(e.pending)
           x == NextOut(e, p)
           y == NextOut(r, p2)
           got == g.got
<1>1. /\ e.pending \in Seq(ToGuest) /\ e.out \in Seq(ToGuest) /\ l \in Nat
      /\ \A i \in 1..l : e.pending[i].kind = "msg"
  BY PendingSaid
<1>2. /\ n \in Seq(Nat) /\ Len(n) = Len(e.out) /\ p \in Seq(Nat) /\ Len(p) = l
      /\ Shown(e.out, n, "msg") /\ Shown(e.pending, p, "msg")
      /\ got <= x /\ Placed(e.out, n, "msg", 1, got, x - 1)
      /\ Placed(e.pending, p, "msg", 1, 0, b - 1)
      /\ \A j \in 1..l : p[j] <= s + j - 1 + failures
      /\ b <= s + l + failures
  BY DEF Counted
<1>3. moved \in 0..l /\ r.host.block = b /\ r.host.sent = s + moved
      /\ r.out = e.out \o new /\ r.pending = rest
  BY DEF Refilled
<1>4. /\ new \in Seq(ToGuest) /\ Len(new) = moved
      /\ \A i \in 1..moved : new[i] = e.pending[i] /\ i \in 1..l
      /\ rest \in Seq(ToGuest) /\ Len(rest) = l - moved
      /\ \A i \in 1..(l - moved) : rest[i] = e.pending[moved + i] /\ moved + i \in 1..l
  BY <1>1, <1>3, Halves
<1>5. /\ nums \in Seq(Nat) /\ Len(nums) = moved
      /\ \A i \in 1..moved : nums[i] = p[i]
      /\ p2 \in Seq(Nat) /\ Len(p2) = l - moved
      /\ \A i \in 1..(l - moved) : p2[i] = p[moved + i]
  <2>1. moved \in 0..Len(p)
    BY <1>2, <1>3
  <2>2. /\ nums \in Seq(Nat) /\ Len(nums) = moved
        /\ \A i \in 1..moved : nums[i] = p[i]
        /\ p2 \in Seq(Nat) /\ Len(p2) = Len(p) - moved
        /\ \A i \in 1..(Len(p) - moved) : p2[i] = p[moved + i]
    BY <1>2, <2>1, HalvesNat
  <2>3. QED
    BY <1>2, <2>2
<1>6. x \in Nat /\ x <= b /\ b \in Nat /\ s \in Nat /\ got \in Nat
  BY NextOutBound DEF EndType, HostType, GuestType
<1> HIDE DEF new, rest, nums, p2, l, b, s, got
<1>7. /\ (e.pending = <<>> => x = b /\ l = 0) /\ (e.pending # <<>> => x = p[1] /\ l > 0)
      /\ (l = moved => y = b) /\ (l > moved => y = p2[1])
  <2>1. (e.pending = <<>> => l = 0) /\ (e.pending # <<>> => l > 0)
    BY <1>1, EmptySeq DEF l
  <2>2. (rest = <<>> => l - moved = 0) /\ (rest # <<>> => l - moved > 0)
    BY <1>4, EmptySeq
  <2>3. (e.pending = <<>> => x = b) /\ (e.pending # <<>> => x = p[1])
    BY DEF NextOut, b
  <2>4. (rest = <<>> => y = b) /\ (rest # <<>> => y = p2[1])
    BY <1>3 DEF NextOut
  <2>5. QED
    BY <1>1, <1>3, <2>1, <2>2, <2>3, <2>4
<1> HIDE DEF x, y
<1>8. /\ \A i \in 1..l : p[i] \in 0..(b - 1) /\ p[i] \in Nat
      /\ \A i, j \in 1..l : i < j => p[i] + 1 <= p[j]
  BY <1>1, <1>2, ElementOfSeq DEF Placed, l
<1>n. moved \in Nat /\ moved <= l /\ l \in Nat /\ l - moved \in Nat
  BY <1>1, <1>3
<1>9. y \in Nat /\ x <= y /\ \A i \in 1..moved : x <= p[i] /\ p[i] <= y - 1
  <2>1. \A i \in 1..moved : x <= p[i]
    <3> TAKE i \in 1..moved
    <3>1. i \in 1..l /\ 1 \in 1..l
      BY <1>n
    <3>2. x = p[1]
      BY <1>7, <1>n, <3>1
    <3>3. CASE i = 1
      BY <1>6, <3>2, <3>3
    <3>4. CASE 1 < i
      <4>1. p[1] + 1 <= p[i] /\ p[1] \in Nat /\ p[i] \in Nat
        BY <1>8, <3>1, <3>4
      <4>2. QED
        BY <3>2, <4>1
    <3>5. QED
      BY <3>1, <3>3, <3>4
  <2>2. CASE l = moved
    <3>1. y = b
      BY <1>7, <2>2
    <3>2. \A i \in 1..moved : p[i] <= b - 1
      BY <1>6, <1>8, <2>2
    <3>3. QED
      BY <1>6, <2>1, <3>1, <3>2
  <2>3. CASE l > moved
    <3>1. y = p[moved + 1] /\ moved + 1 \in 1..l
      BY <1>n, <1>5, <1>7, <2>3
    <3>2. y \in Nat
      BY <1>8, <3>1
    <3>3. ASSUME NEW i \in 1..moved
          PROVE  p[i] <= y - 1
      <4>1. i \in 1..l /\ i < moved + 1
        BY <1>n
      <4>2. p[i] + 1 <= y /\ p[i] \in Nat
        BY <1>8, <3>1, <4>1
      <4>3. QED
        BY <3>2, <4>2
    <3>4. x <= y
      <4>1. x = p[1] /\ 1 \in 1..l
        BY <1>7, <1>n, <2>3
      <4>2. CASE moved = 0
        BY <1>6, <3>1, <4>1, <4>2
      <4>3. CASE moved # 0
        <5>1. 1 < moved + 1
          BY <1>n, <4>3
        <5>2. p[1] + 1 <= p[moved + 1] /\ p[1] \in Nat
          BY <1>8, <3>1, <4>1, <5>1
        <5>3. QED
          BY <3>1, <3>2, <4>1, <5>2
      <4>4. QED
        BY <4>2, <4>3
    <3>5. QED
      BY <2>1, <3>2, <3>3, <3>4
  <2>4. QED
    BY <1>n, <2>2, <2>3
<1>10. /\ n2 \in Seq(Nat) /\ Len(n2) = Len(r.out)
  <2>1. /\ n2 \in Seq(Nat)
        /\ Joined(e.out \o new, n \o nums, e.out, n, new, nums)
    BY <1>1, <1>2, <1>4, <1>5, ConcatPairs
  <2>2. QED
    BY <1>3, <2>1 DEF Joined
<1>11. Shown(r.out, n2, "msg") /\ Shown(r.pending, p2, "msg")
  <2>1. Shown(new, nums, "msg")
    BY <1>2, <1>4, <1>5 DEF Shown, l
  <2>2. Shown(rest, p2, "msg")
    <3>1. ASSUME NEW i \in 1..(l - moved)
          PROVE  rest[i].number = p2[i] % Wrap
      <4>1. moved + i \in 1..l /\ rest[i] = e.pending[moved + i] /\ p2[i] = p[moved + i]
        BY <1>4, <1>5
      <4>2. e.pending[moved + i].number = p[moved + i] % Wrap
        BY <1>1, <1>2, <4>1 DEF Shown, l
      <4>3. QED
        BY <4>1, <4>2
    <3>2. QED
      BY <1>4, <3>1 DEF Shown
  <2>3. Len(nums) = Len(new)
    BY <1>4, <1>5
  <2>4. Shown(e.out \o new, n2, "msg")
    BY <1>1, <1>2, <1>4, <1>5, <2>1, <2>3, ShownConcat
  <2>5. QED
    BY <1>3, <2>2, <2>4
<1>12. Placed(r.out, n2, "msg", 1, got, y - 1)
  <2>1. Placed(new, nums, "msg", 1, x - 1 + 1, y - 1)
    <3>1. \A i \in 1..moved : nums[i] \in x..(y - 1)
      <4>1. \A i \in 1..moved : p[i] \in Nat /\ x <= p[i] /\ p[i] <= y - 1
        BY <1>8, <1>9, <1>n
      <4>2. QED
        BY <1>5, <1>6, <1>9, <4>1, SMTT(30)
    <3>2. \A i, j \in 1..moved : i < j => nums[i] + 1 <= nums[j]
      <4>1. \A i \in 1..moved : i \in 1..l
        BY <1>n
      <4>2. QED
        BY <1>5, <1>8, <4>1
    <3>3. x - 1 + 1 = x
      BY <1>6
    <3>4. QED
      BY <1>4, <3>1, <3>2, <3>3 DEF Placed
  <2>2. /\ x - 1 \in Int /\ y - 1 \in Int /\ got <= x - 1 + 1 /\ x - 1 <= y - 1
        /\ 1 \in Nat /\ got \in Int
    BY <1>2, <1>6, <1>9
  <2>3. Len(nums) = Len(new)
    BY <1>4, <1>5
  <2>4. Placed(e.out \o new, n2, "msg", 1, got, y - 1)
    BY <1>1, <1>2, <1>4, <1>5, <2>1, <2>2, <2>3, PlacedConcat
  <2>5. QED
    BY <1>3, <2>4
<1>13. Placed(r.pending, p2, "msg", 1, 0, b - 1)
  <2>1. \A i \in 1..(l - moved) : p2[i] \in 0..(b - 1)
    BY <1>4, <1>5, <1>8
  <2>2. ASSUME NEW i \in 1..(l - moved), NEW j \in 1..(l - moved), i < j
        PROVE  p2[i] + 1 <= p2[j]
    <3>1. moved + i \in 1..l /\ moved + j \in 1..l /\ moved + i < moved + j
      BY <1>n, <2>2
    <3>2. QED
      BY <1>5, <1>8, <3>1
  <2>3. QED
    BY <1>3, <1>4, <2>1, <2>2 DEF Placed
<1>14. \A j \in 1..(l - moved) : p2[j] <= s + moved + j - 1 + failures
  <2> TAKE j \in 1..(l - moved)
  <2>1. moved + j \in 1..l /\ p2[j] = p[moved + j]
    BY <1>n, <1>5
  <2>2. p[moved + j] <= s + (moved + j) - 1 + failures /\ p[moved + j] \in Nat
    BY <1>2, <1>8, <2>1
  <2>3. QED
    BY <1>6, <1>n, <2>1, <2>2
<1>15. b <= s + moved + (l - moved) + failures
  BY <1>2, <1>6, <1>n
<1>16. Len(r.pending) = l - moved /\ Len(p2) = Len(r.pending)
  BY <1>3, <1>4, <1>5
<1>17. got <= y
  BY <1>2, <1>6, <1>9
<1>18. Counted(r, n2, p2, g, failures)
  <2> HIDE DEF n2
  <2>1. QED
    BY <1>3, <1>5, <1>10, <1>11, <1>12, <1>13, <1>14, <1>15, <1>16, <1>17 DEF Counted, y, got
<1>19. QED
  BY <1>18 DEF nums, p2

LEMMA CutRefill ==
  ASSUME NEW e \in EndType, NEW n \in Seq(Nat), NEW p \in Seq(Nat),
         Len(n) = Len(e.out), Len(p) = Len(e.pending),
         NEW base \in Nat, NEW count \in Nat,
         Cut(e.out, n, base, count), Cut(e.pending, p, base, count),
         NEW r, NEW moved, Refilled(e, r, moved)
  PROVE  /\ Cut(r.out, n \o SubSeq(p, 1, moved), base, count)
         /\ Cut(r.pending, SubSeq(p, moved + 1, Len(p)), base, count)
<1> DEFINE new == SubSeq(e.pending, 1, moved)
           rest == SubSeq(e.pending, moved + 1, Len(e.pending))
           nums == SubSeq(p, 1, moved)
           p2 == SubSeq(p, moved + 1, Len(p))
           n2 == n \o nums
           l == Len(e.pending)
<1>1. /\ e.pending \in Seq(ToGuest) /\ e.out \in Seq(ToGuest) /\ l \in Nat
  BY PendingSaid
<1>2. moved \in 0..l /\ r.out = e.out \o new /\ r.pending = rest /\ moved \in 0..Len(p) /\ Len(p) = l
  BY DEF Refilled
<1>3. /\ new \in Seq(ToGuest) /\ Len(new) = moved
      /\ \A i \in 1..moved : new[i] = e.pending[i] /\ i \in 1..l
      /\ rest \in Seq(ToGuest) /\ Len(rest) = l - moved
      /\ \A i \in 1..(l - moved) : rest[i] = e.pending[moved + i] /\ moved + i \in 1..l
  BY <1>1, <1>2, Halves
<1>4. /\ nums \in Seq(Nat) /\ Len(nums) = moved
      /\ \A i \in 1..moved : nums[i] = p[i]
      /\ p2 \in Seq(Nat) /\ Len(p2) = Len(p) - moved
      /\ \A i \in 1..(Len(p) - moved) : p2[i] = p[moved + i]
  BY <1>2, HalvesNat
<1> HIDE DEF new, rest, nums, p2, l
<1>5. Joined(e.out \o new, n \o nums, e.out, n, new, nums)
  BY <1>1, <1>3, <1>4, ConcatPairs
<1>6. Cut(new, nums, base, count)
  BY <1>3, <1>4 DEF Cut, l
<1>7. Cut(rest, p2, base, count)
  <2> SUFFICES ASSUME NEW i \in 1..Len(rest), rest[i].kind = "msg"
               PROVE  IF p2[i] \in base..(base + count - 1)
                      THEN rest[i].cmd = Part(p2[i] - base + 1)
                      ELSE rest[i].cmd[1] # "part"
    BY DEF Cut
  <2>1. moved + i \in 1..l /\ rest[i] = e.pending[moved + i] /\ p2[i] = p[moved + i]
    BY <1>2, <1>3, <1>4
  <2>2. QED
    BY <2>1 DEF Cut, l
<1>8. Cut(r.out, n2, base, count)
  <2> DEFINE f == e.out \o new
             q == n \o nums
  <2>1. Joined(f, q, e.out, n, new, nums)
    BY <1>5
  <2> HIDE DEF f, q
  <2>2. Cut(f, q, base, count)
    <3> SUFFICES ASSUME NEW i \in 1..Len(f), f[i].kind = "msg"
                 PROVE  IF q[i] \in base..(base + count - 1)
                        THEN f[i].cmd = Part(q[i] - base + 1)
                        ELSE f[i].cmd[1] # "part"
      BY DEF Cut
    <3>1. CASE i \in 1..Len(e.out)
      <4>1. f[i] = e.out[i] /\ q[i] = n[i]
        BY <2>1, <3>1 DEF Joined
      <4>2. QED
        BY <3>1, <4>1 DEF Cut
    <3>2. CASE ~(i \in 1..Len(e.out))
      <4>1. i - Len(e.out) \in 1..Len(new) /\ f[i] = new[i - Len(e.out)] /\ q[i] = nums[i - Len(e.out)]
        BY <2>1, <3>2 DEF Joined
      <4>2. QED
        BY <1>6, <4>1 DEF Cut
    <3>3. QED
      BY <3>1, <3>2
  <2>3. QED
    BY <1>2, <2>2 DEF f, q
<1>9. QED
  BY <1>2, <1>7, <1>8 DEF nums, p2

LEMMA NeatRefill ==
  ASSUME NEW e, NEW g \in GuestType, NEW base \in Nat, NEW count \in Nat, NEW failures \in Nat,
         Neat(e, base, count, g, failures),
         NEW r, NEW moved, Refilled(e, r, moved), r.host.acked <= g.got
  PROVE  Neat(r, base, count, g, failures)
<1>1. e \in EndType /\ r \in EndType
  BY DEF Neat, Refilled
<1>2. \E o \in Seq(Nat) : Sound(r, o, g)
  <2>1. PICK o \in Seq(Nat) : Sound(e, o, g)
    BY DEF Neat
  <2>2. QED
    BY <1>1, <2>1, SoundRefill
<1>3. ASSUME FewFailures
      PROVE  \E n, p \in Seq(Nat) : Parcel(r, n, p, base, count, g, failures)
  <2>1. PICK n, p \in Seq(Nat) : Parcel(e, n, p, base, count, g, failures)
    BY <1>3 DEF Neat
  <2>2. Counted(e, n, p, g, failures)
    BY <2>1 DEF Parcel
  <2> DEFINE n2 == n \o SubSeq(p, 1, moved)
             p2 == SubSeq(p, moved + 1, Len(p))
  <2>3. Counted(r, n2, p2, g, failures)
    BY <1>1, <2>2, CountedRefill
  <2>4. Len(n) = Len(e.out) /\ Len(p) = Len(e.pending)
    BY <2>2 DEF Counted
  <2>5. Cut(r.out, n2, base, count) /\ Cut(r.pending, p2, base, count)
    BY <1>1, <2>1, <2>4, CutRefill DEF Parcel
  <2>6. base + count <= r.host.block
    BY <2>1 DEF Parcel, Refilled
  <2> HIDE DEF n2, p2
  <2>7. n2 \in Seq(Nat) /\ p2 \in Seq(Nat)
    BY <2>3 DEF Counted
  <2>8. QED
    BY <2>3, <2>5, <2>6, <2>7 DEF Parcel
<1>4. QED
  BY <1>1, <1>2, <1>3 DEF Neat

LEMMA NeverRefill ==
  ASSUME NEW e \in EndType, NEW cmd, Never(e.out, cmd), Never(e.pending, cmd),
         NEW r, NEW moved, Refilled(e, r, moved)
  PROVE  Never(r.out, cmd) /\ Never(r.pending, cmd)
<1> DEFINE new == SubSeq(e.pending, 1, moved)
           rest == SubSeq(e.pending, moved + 1, Len(e.pending))
<1>1. /\ e.pending \in Seq(ToGuest) /\ e.out \in Seq(ToGuest)
  BY PendingSaid
<1>2. moved \in 0..Len(e.pending) /\ r.out = e.out \o new /\ r.pending = rest
  BY DEF Refilled
<1>3. /\ new \in Seq(ToGuest) /\ Len(new) = moved
      /\ \A i \in 1..moved : new[i] = e.pending[i] /\ i \in 1..Len(e.pending)
      /\ rest \in Seq(ToGuest) /\ Len(rest) = Len(e.pending) - moved
      /\ \A i \in 1..(Len(e.pending) - moved) :
           rest[i] = e.pending[moved + i] /\ moved + i \in 1..Len(e.pending)
  BY <1>1, <1>2, Halves
<1> HIDE DEF new, rest
<1>4. Never(new, cmd) /\ Never(rest, cmd)
  BY <1>3 DEF Never
<1>5. QED
  BY <1>1, <1>2, <1>3, <1>4, NeverConcat

\* r is the host's end after it learnt that the guest has taken x messages.
Learnt(e, r, x, base, count, g, failures, fault) ==
  /\ Neat(r, base, count, g, failures + Spent(fault))
  /\ Offer(r.host, base, count, failures + Spent(fault))
  /\ Waits(r) /\ (r.host.state # "FAILED" => Held(r))
  /\ r.host.acked = x /\ r.host.received = e.host.received
  /\ r.host.state = "WAITING" => e.host.state = "WAITING"
  /\ failures + Spent(fault) = 0 => r.host.state = e.host.state

LEMMA AckedOk ==
  ASSUME NEW e, NEW g \in GuestType, NEW base \in Nat, NEW count \in Nat, NEW failures \in Nat,
         Ready(e, base, count, g, failures),
         NEW x \in Nat, e.host.acked <= x, x <= g.got,
         NEW fault \in Fault, NEW r, r = Acked(e, x % Wrap, fault)
  PROVE  Learnt(e, r, x, base, count, g, failures, fault)
<1> DEFINE a == e.host.acked
           s == e.host.sent
           win == e.host.window
           l == Len(e.pending)
           got == g.got
           advance == ((x % Wrap) - e.host.acked) % Wrap
           acked == e.host.acked + advance
           taken == [e EXCEPT !.host.acked = acked,
                              !.host.packageAcked =
                                 @ \/ (e.host.packageSent /\ acked >= e.host.packageEnd)]
           fits == Least(Room(taken), Len(e.pending))
           moved == IF fault.at \in 1..fits THEN fault.at - 1 ELSE fits
           refilled == [taken EXCEPT !.host.sent = @ + moved,
                                     !.out = @ \o SubSeq(e.pending, 1, moved),
                                     !.pending = SubSeq(@, moved + 1, Len(@))]
           more == failures + Spent(fault)
<1>1. r = IF advance \notin 1..(e.host.sent - e.host.acked) THEN e
          ELSE IF moved < fits THEN Failed(refilled) ELSE refilled
  BY DEF Acked
<1>2. /\ e \in EndType /\ e.host \in HostType /\ Neat(e, base, count, g, failures) /\ Held(e)
      /\ Offer(e.host, base, count, failures) /\ Waits(e)
  BY DEF Ready, Neat, EndType
<1>3. /\ a \in Nat /\ s \in Nat /\ win \in Nat /\ l \in Nat /\ got \in Nat
      /\ Wrap \in Nat /\ win < Wrap /\ a <= s /\ s <= a + win /\ got <= s
  <2>1. win \in Windows /\ a \in Nat /\ s \in Nat /\ got \in Nat
    BY <1>2 DEF HostType, GuestType
  <2>2. win \in Nat /\ Wrap \in Nat /\ win < Wrap
    BY <2>1, Moduli
  <2>3. a <= s /\ s <= a + win /\ got <= s
    BY <1>2 DEF Neat, Sound, WindowRoom
  <2>4. QED
    BY <1>2, <2>1, <2>2, <2>3, LenProperties DEF EndType
<1>4. /\ more \in Nat /\ failures <= more /\ Spent(fault) \in {0, 1}
      /\ (Spent(fault) = 0 => fault.at = 0) /\ (more = 0 => failures = 0 /\ Spent(fault) = 0)
      /\ fault.at \in Nat
  BY SpentMore DEF Fault
<1>5. advance = x - a
  <2>1. x \in Int /\ a \in Int /\ a <= x /\ x - a < Wrap /\ Wrap > 0
    <3>1. a <= x /\ x <= got
      OBVIOUS
    <3> HIDE DEF a, s, win, got
    <3>2. QED
      BY <1>3, <3>1
  <2>2. QED
    BY <1>3, <2>1, ShownDistance
<1>6. acked = x
  <2> HIDE DEF advance
  <2>1. QED
    BY <1>3, <1>5
<1>7. a <= x /\ x <= got
  OBVIOUS
<1> HIDE DEF advance, acked, a, s, win, got
<1>8. CASE advance \notin 1..(s - a)
  <2>1. x = a
    BY <1>3, <1>5, <1>7, <1>8
  <2>2. r = e
    BY <1>1, <1>8 DEF s, a
  <2>3. Neat(r, base, count, g, more)
    BY <1>2, <1>4, <2>2, NeatSame
  <2>4. Offer(r.host, base, count, more)
    BY <1>2, <1>4, <2>2 DEF Offer
  <2>5. QED
    BY <1>2, <2>1, <2>2, <2>3, <2>4 DEF Learnt, a
<1>9. CASE advance \in 1..(s - a)
  <2>1. /\ taken \in EndType /\ taken.out = e.out /\ taken.pending = e.pending
        /\ taken.host.window = win /\ taken.host.sent = s /\ taken.host.acked = x
        /\ taken.host.received = e.host.received /\ taken.host.block = e.host.block
        /\ taken.host.state = e.host.state /\ taken.host.offered = e.host.offered
        /\ taken.host.packageSent = e.host.packageSent
        /\ taken.host.packageEnd = e.host.packageEnd
        /\ taken.host.packageAcked = (e.host.packageAcked \/ (e.host.packageSent /\ x >= e.host.packageEnd))
    <3> DEFINE h == [e.host EXCEPT !.acked = x,
                       !.packageAcked = e.host.packageAcked \/ (e.host.packageSent /\ x >= e.host.packageEnd)]
    <3>1. h \in HostType
      BY <1>2 DEF HostType
    <3>2. taken = [e EXCEPT !.host = h]
      BY <1>2, <1>6 DEF EndType, HostType
    <3>3. /\ h.window = win /\ h.sent = s /\ h.acked = x /\ h.received = e.host.received
          /\ h.block = e.host.block /\ h.state = e.host.state /\ h.offered = e.host.offered
          /\ h.packageSent = e.host.packageSent /\ h.packageEnd = e.host.packageEnd
          /\ h.packageAcked = (e.host.packageAcked \/ (e.host.packageSent /\ x >= e.host.packageEnd))
      BY <1>2 DEF HostType, win, s
    <3> HIDE DEF h, taken
    <3>4. /\ taken.host = h /\ taken.out = e.out /\ taken.pending = e.pending
          /\ taken = [host |-> h, out |-> e.out, pending |-> e.pending]
      BY <1>2, <3>2 DEF EndType
    <3>5. taken \in EndType
      BY <1>2, <3>1, <3>4 DEF EndType
    <3>6. QED
      BY <3>3, <3>4, <3>5
  <2> HIDE DEF taken
  <2>2. /\ fits \in Nat /\ fits <= l /\ s + fits <= x + win
        /\ fits = l \/ s + fits = x + win
    <3>1. Room(taken) = win - (s - x)
      BY <2>1 DEF Room
    <3>2. win - (s - x) \in Nat
      BY <1>3, <1>7
    <3>3. fits = IF win - (s - x) < l THEN win - (s - x) ELSE l
      BY <3>1 DEF Least
    <3> HIDE DEF fits, l
    <3>4. QED
      BY <1>3, <3>2, <3>3
  <2> HIDE DEF fits
  <2>3. moved \in Nat /\ moved <= fits /\ (moved < fits => Spent(fault) = 1)
    <3>1. CASE fault.at \in 1..fits
      BY <1>4, <2>2, <3>1
    <3>2. CASE fault.at \notin 1..fits
      BY <2>2, <3>2
    <3>3. QED
      BY <3>1, <3>2
  <2> HIDE DEF moved
  <2> DEFINE new == SubSeq(e.pending, 1, moved)
             rest == SubSeq(e.pending, moved + 1, Len(e.pending))
  <2>4. /\ new \in Seq(ToGuest) /\ rest \in Seq(Messages(HostCommands)) /\ Len(rest) = l - moved
        /\ e.out \o new \in Seq(ToGuest)
    <3>1. moved \in 0..Len(e.pending) /\ e.pending \in Seq(Messages(HostCommands))
      BY <1>2, <1>3, <2>2, <2>3 DEF EndType
    <3>2. new \in Seq(Messages(HostCommands)) /\ rest \in Seq(Messages(HostCommands)) /\ Len(rest) = l - moved
      BY <3>1, Halves
    <3> HIDE DEF new, rest
    <3>3. new \in Seq(ToGuest) /\ e.out \in Seq(ToGuest)
      BY <1>2, <3>2, SeqMonotonic DEF ToGuest, EndType
    <3>4. QED
      BY <3>2, <3>3, ConcatProperties
  <2>5. /\ refilled \in EndType /\ refilled.out = e.out \o new /\ refilled.pending = rest
        /\ refilled.host.sent = s + moved
        /\ refilled.host.window = win /\ refilled.host.acked = x
        /\ refilled.host.received = e.host.received /\ refilled.host.block = e.host.block
        /\ refilled.host.state = e.host.state /\ refilled.host.offered = e.host.offered
        /\ refilled.host.packageSent = e.host.packageSent
        /\ refilled.host.packageEnd = e.host.packageEnd
        /\ refilled.host.packageAcked = taken.host.packageAcked
    <3> DEFINE h == [taken.host EXCEPT !.sent = s + moved]
    <3>0. taken.host \in HostType
      BY <2>1 DEF EndType
    <3>1. h \in HostType
      <4>1. s + moved \in Nat
        BY <1>3, <2>3
      <4>2. QED
        BY <3>0, <4>1 DEF HostType
    <3>2. /\ refilled.host = h /\ refilled.out = e.out \o new /\ refilled.pending = rest
          /\ refilled = [host |-> refilled.host, out |-> refilled.out, pending |-> refilled.pending]
      <4>1. taken = [host |-> taken.host, out |-> e.out, pending |-> e.pending]
        BY <2>1 DEF EndType
      <4>2. refilled = [taken EXCEPT !.host = [taken.host EXCEPT !.sent = taken.host.sent + moved],
                                     !.out = taken.out \o new,
                                     !.pending = SubSeq(taken.pending, moved + 1, Len(taken.pending))]
        OBVIOUS
      <4>3. [taken.host EXCEPT !.sent = taken.host.sent + moved] = h
        BY <2>1
      <4>4. SubSeq(taken.pending, moved + 1, Len(taken.pending)) = rest /\ taken.out \o new = e.out \o new
        BY <2>1
      <4> HIDE DEF h, refilled, new, rest
      <4>5. refilled = [taken EXCEPT !.host = h, !.out = e.out \o new, !.pending = rest]
        BY <4>2, <4>3, <4>4
      <4>6. refilled = [host |-> h, out |-> e.out \o new, pending |-> rest]
        BY <4>1, <4>5
      <4>7. QED
        BY <4>6
    <3>3. /\ h.window = win /\ h.sent = s + moved /\ h.acked = x /\ h.received = e.host.received
          /\ h.block = e.host.block /\ h.state = e.host.state /\ h.offered = e.host.offered
          /\ h.packageSent = e.host.packageSent /\ h.packageEnd = e.host.packageEnd
          /\ h.packageAcked = taken.host.packageAcked
      BY <2>1, <3>0 DEF HostType
    <3> HIDE DEF h, refilled, new, rest
    <3>4. refilled \in EndType
      BY <2>4, <3>1, <3>2 DEF EndType
    <3>5. QED
      BY <3>2, <3>3, <3>4
  <2> HIDE DEF refilled, new, rest
  <2>6. /\ r \in EndType /\ r.out = e.out \o new /\ r.pending = rest
        /\ r.host.sent = s + moved
        /\ r.host.window = win /\ r.host.acked = x
        /\ r.host.received = e.host.received /\ r.host.block = e.host.block
        /\ r.host.offered = e.host.offered
        /\ r.host.packageSent = e.host.packageSent
        /\ r.host.packageEnd = e.host.packageEnd
        /\ r.host.packageAcked = taken.host.packageAcked
        /\ r.host.state = IF moved < fits THEN "FAILED" ELSE e.host.state
    <3>1. CASE moved < fits
      <4>1. r = [refilled EXCEPT !.host.state = "FAILED"]
        BY <1>1, <1>9, <3>1 DEF s, a, Failed
      <4>2. /\ r \in EndType /\ r.out = refilled.out /\ r.pending = refilled.pending
            /\ SameHeader(r.host, refilled.host) /\ r.host.sent = refilled.host.sent
            /\ r.host.block = refilled.host.block /\ r.host.state = "FAILED"
        BY <2>5, <4>1, StateChanges, SMTT(30)
      <4>3. QED
        BY <2>5, <3>1, <4>2 DEF SameHeader
    <3>2. CASE ~(moved < fits)
      <4>1. r = refilled
        BY <1>1, <1>9, <3>2 DEF s, a
      <4>2. QED
        BY <2>5, <3>2, <4>1
    <3>3. QED
      BY <3>1, <3>2
  <2>7. Refilled(e, r, moved)
    <3>1. moved \in 0..Len(e.pending)
      BY <1>3, <2>2, <2>3, SMTT(30)
    <3>2. WindowRoom(r)
      <4>1. x <= s + moved /\ s + moved <= x + win
        BY <1>3, <1>7, <2>2, <2>3
      <4>2. QED
        BY <2>6, <4>1 DEF WindowRoom
    <3>3. QED
      BY <2>6, <3>1, <3>2 DEF Refilled, new, rest, win, s
  <2>8. Neat(r, base, count, g, more)
    <3>1. r.host.acked <= g.got
      BY <1>7, <2>6 DEF got
    <3>2. Neat(r, base, count, g, failures)
      BY <1>2, <2>7, <3>1, NeatRefill
    <3>3. QED
      BY <1>4, <2>6, <3>2, NeatSame
  <2>9. ASSUME r.host.state # "FAILED"
        PROVE  Held(r)
    <3>1. moved = fits
      BY <2>2, <2>3, <2>6, <2>9
    <3>2. ASSUME r.pending # <<>>
          PROVE  s + moved = x + win
      <4>1. rest \in Seq(Messages(HostCommands)) /\ rest # <<>>
        BY <2>4, <2>6, <3>2
      <4>2. Len(rest) > 0
        BY <4>1, EmptySeq
      <4>3. fits # l
        BY <1>3, <2>2, <2>4, <3>1, <4>2, SMTT(30)
      <4>4. QED
        BY <2>2, <3>1, <4>3
    <3>3. QED
      BY <2>6, <3>2 DEF Held
  <2>10. Offer(r.host, base, count, more)
    <3>1. count <= PackageParts /\ (r.host.packageSent \/ count = 0)
      BY <1>2, <2>6 DEF Offer
    <3>2. ASSUME more = 0
          PROVE  /\ r.host.packageSent => count = PackageParts /\ r.host.packageEnd = base + count
                 /\ r.host.packageAcked => r.host.packageSent /\ base + count <= r.host.acked
                 /\ ~r.host.offered => r.host.state \in {"WAITING", "FAILED"}
      <4>1. failures = 0 /\ Spent(fault) = 0
        BY <1>4, <3>2
      <4>2. /\ e.host.packageSent => count = PackageParts /\ e.host.packageEnd = base + count
            /\ e.host.packageAcked => e.host.packageSent /\ base + count <= a
            /\ ~e.host.offered => e.host.state \in {"WAITING", "FAILED"}
        BY <1>2, <4>1 DEF Offer, a
      <4>3. ASSUME r.host.packageAcked
            PROVE  e.host.packageSent /\ base + count <= x
        <5>1. e.host.packageAcked \/ (e.host.packageSent /\ x >= e.host.packageEnd)
          BY <2>1, <2>6, <4>3
        <5>2. CASE e.host.packageAcked
          BY <1>3, <1>7, <4>2, <5>2
        <5>3. CASE e.host.packageSent /\ x >= e.host.packageEnd
          BY <4>2, <5>3
        <5>4. QED
          BY <5>1, <5>2, <5>3
      <4>4. QED
        BY <2>6, <4>2, <4>3
    <3>3. QED
      BY <3>1, <3>2 DEF Offer
  <2>11. Waits(r) /\ (r.host.state = "WAITING" => e.host.state = "WAITING")
    <3>1. ASSUME r.host.state = "WAITING"
          PROVE  e.host.state = "WAITING" /\ (r.host.packageSent <=> e.host.packageSent)
      BY <2>6, <3>1
    <3>2. QED
      BY <1>2, <2>7, <3>1, NeverRefill DEF Waits
  <2>12. more = 0 => r.host.state = e.host.state
    BY <1>4, <2>2, <2>3, <2>6
  <2>13. QED
    BY <2>6, <2>8, <2>9, <2>10, <2>11, <2>12 DEF Learnt
<1>10. QED
  BY <1>8, <1>9

-----------------------------------------------------------------------------
\* A message from the guest is counted, and answered.

LEMMA NeatCounted ==
  ASSUME NEW e, NEW g \in GuestType, NEW base \in Nat, NEW count \in Nat, NEW failures \in Nat,
         Neat(e, base, count, g, failures),
         NEW r \in EndType, r.out = e.out, r.pending = e.pending,
         r.host.window = e.host.window, r.host.sent = e.host.sent,
         r.host.acked = e.host.acked, r.host.block = e.host.block,
         e.host.received <= r.host.received
  PROVE  Neat(r, base, count, g, failures)
<1>0. /\ e \in EndType /\ e.host.received \in Nat /\ r.host.received \in Nat /\ g.answered \in Nat
      /\ e.out \in Seq(ToGuest)
  BY DEF Neat, EndType, HostType, GuestType
<1>1. ASSUME NEW o \in Seq(Nat), Sound(e, o, g)
      PROVE  Sound(r, o, g)
  <2>1. Placed(e.out, o, "ack", 0, g.answered, e.host.received) /\ Len(o) = Len(e.out)
        /\ g.answered <= e.host.received
    BY <1>1 DEF Sound
  <2>2. g.answered <= g.answered /\ g.answered \in Int /\ e.host.received \in Int
        /\ r.host.received \in Int /\ 0 \in Nat /\ g.answered <= r.host.received
    BY <1>0, <2>1
  <2>3. Placed(e.out, o, "ack", 0, g.answered, r.host.received)
    BY <1>0, <2>1, <2>2, PlacedWiden
  <2>4. QED
    BY <1>1, <2>2, <2>3 DEF Sound, WindowRoom
<1>2. \A n, p : NextOut(r, p) = NextOut(e, p)
  BY DEF NextOut
<1>3. \A n, p : Parcel(e, n, p, base, count, g, failures) => Parcel(r, n, p, base, count, g, failures)
  BY <1>2 DEF Parcel, Counted
<1>4. QED
  BY <1>1, <1>3 DEF Neat

LEMMA NeatAnswer ==
  ASSUME NEW e, NEW g \in GuestType, NEW base \in Nat, NEW count \in Nat, NEW failures \in Nat,
         Neat(e, base, count, g, failures),
         NEW r \in EndType, r.host = e.host, r.pending = e.pending,
         NEW ack \in Acks, ack.number = e.host.received % Wrap, r.out = Append(e.out, ack)
  PROVE  Neat(r, base, count, g, failures)
<1>0. /\ e \in EndType /\ e.out \in Seq(ToGuest) /\ ack \in ToGuest /\ ack.kind = "ack"
      /\ e.host.received \in Nat /\ g.answered \in Nat /\ g.got \in Nat /\ e.host.sent \in Nat
  BY DEF Neat, EndType, HostType, GuestType, ToGuest, Acks
<1>1. ASSUME NEW o \in Seq(Nat), Sound(e, o, g)
      PROVE  Sound(r, Append(o, e.host.received), g)
  <2> DEFINE x == e.host.received
             o2 == Append(o, x)
  <2>1. /\ Placed(e.out, o, "ack", 0, g.answered, x) /\ Len(o) = Len(e.out)
        /\ Placed(e.out, o, "msg", 1, g.got, e.host.sent - 1)
        /\ g.answered <= x /\ Shown(e.out, o, "ack")
    BY <1>1 DEF Sound
  <2>2. /\ 0 \in Nat /\ x \in Nat /\ x \in Int /\ x <= x /\ x \in g.answered..x /\ x + 0 <= x
        /\ g.answered \in Int /\ 1 \in Nat /\ g.got \in Int /\ e.host.sent - 1 \in Int
        /\ e.host.sent - 1 <= e.host.sent - 1
    BY <1>0, <2>1, SMTT(30)
  <2> HIDE DEF x
  <2>3. Placed(Append(e.out, ack), o2, "ack", 0, g.answered, x)
    BY <1>0, <2>1, <2>2, PlacedAppend
  <2>4. Placed(Append(e.out, ack), o2, "msg", 1, g.got, e.host.sent - 1)
    BY <1>0, <2>1, <2>2, PlacedAppend
  <2>5. Shown(Append(e.out, ack), o2, "ack")
    BY <1>0, <2>1, <2>2, ShownAppend DEF x
  <2>6. o2 \in Seq(Nat) /\ Len(o2) = Len(Append(e.out, ack))
    BY <1>0, <2>1, <2>2, AppendProperties
  <2> HIDE DEF o2
  <2>7. Sound(r, o2, g)
    BY <1>1, <2>3, <2>4, <2>5, <2>6 DEF Sound, WindowRoom, x
  <2>8. QED
    BY <2>7 DEF o2, x
<1>2. ASSUME NEW n \in Seq(Nat), NEW p \in Seq(Nat), Parcel(e, n, p, base, count, g, failures)
      PROVE  Parcel(r, Append(n, 0), p, base, count, g, failures)
  <2> DEFINE y == NextOut(e, p)
             n2 == Append(n, 0)
             f == Append(e.out, ack)
  <2>1. /\ Counted(e, n, p, g, failures) /\ Cut(e.out, n, base, count) /\ Cut(e.pending, p, base, count)
        /\ base + count <= e.host.block
    BY <1>2 DEF Parcel
  <2>2. /\ Len(n) = Len(e.out) /\ Shown(e.out, n, "msg") /\ Placed(e.out, n, "msg", 1, g.got, y - 1)
    BY <2>1 DEF Counted
  <2>3. y \in Nat /\ y = NextOut(r, p)
    <3>1. y \in Nat
      BY <1>0, <2>1, NextOutBound
    <3>2. y = NextOut(r, p)
      BY DEF NextOut
    <3>3. QED
      BY <3>1, <3>2
  <2> HIDE DEF y
  <2>4. y - 1 \in Int /\ y - 1 <= y - 1 /\ 0 \in Nat /\ 1 \in Nat /\ g.got \in Int
    BY <1>0, <2>3
  <2>5. Placed(f, n2, "msg", 1, g.got, y - 1)
    BY <1>0, <2>2, <2>4, PlacedAppend
  <2>6. Shown(f, n2, "msg")
    BY <1>0, <2>2, <2>4, ShownAppend
  <2>7. /\ n2 \in Seq(Nat) /\ Len(n2) = Len(f) /\ Len(f) = Len(e.out) + 1 /\ Len(e.out) \in Nat
        /\ \A i \in 1..Len(e.out) : f[i] = e.out[i] /\ n2[i] = n[i]
        /\ f[Len(e.out) + 1] = ack
    BY <1>0, <2>2, <2>4, AppendPairs, SMTT(30)
  <2> HIDE DEF f, n2
  <2>8. Cut(f, n2, base, count)
    <3>1. \A i \in 1..Len(f) : i \in 1..Len(e.out) \/ i = Len(e.out) + 1
      BY <2>7
    <3>2. QED
      BY <1>0, <2>1, <2>7, <3>1, ZenonT(40) DEF Cut
  <2>9. r.out = f
    BY DEF f
  <2>10. Counted(r, n2, p, g, failures)
    BY <2>1, <2>3, <2>5, <2>6, <2>7, <2>9 DEF Counted, y
  <2>11. Parcel(r, n2, p, base, count, g, failures)
    BY <2>1, <2>8, <2>9, <2>10 DEF Parcel
  <2>12. QED
    BY <2>11 DEF n2
<1>3. \E o \in Seq(Nat) : Sound(r, o, g)
  <2>1. PICK o \in Seq(Nat) : Sound(e, o, g)
    BY DEF Neat
  <2>2. Append(o, e.host.received) \in Seq(Nat)
    BY <1>0, AppendProperties
  <2>3. QED
    BY <1>1, <2>1, <2>2
<1>4. ASSUME FewFailures
      PROVE  \E n, p \in Seq(Nat) : Parcel(r, n, p, base, count, g, failures)
  <2>1. PICK n, p \in Seq(Nat) : Parcel(e, n, p, base, count, g, failures)
    BY <1>4 DEF Neat
  <2>2. Append(n, 0) \in Seq(Nat)
    BY AppendProperties
  <2>3. QED
    BY <1>2, <2>1, <2>2
<1>5. QED
  BY <1>3, <1>4 DEF Neat

\* What of the guest the numbers do not depend on.
LEMMA NeatGuest ==
  ASSUME NEW e, NEW g, NEW base \in Nat, NEW count \in Nat, NEW failures \in Nat,
         Neat(e, base, count, g, failures), NEW k, k.got = g.got, k.answered = g.answered
  PROVE  Neat(e, base, count, k, failures)
<1>1. \A o : Sound(e, o, g) => Sound(e, o, k)
  BY DEF Sound
<1>2. \A n, p : Parcel(e, n, p, base, count, g, failures) => Parcel(e, n, p, base, count, k, failures)
  BY DEF Parcel, Counted
<1>3. QED
  BY <1>1, <1>2 DEF Neat

-----------------------------------------------------------------------------
\* The guest takes a frame.

\* The guest sends one message at a time.
Answers(g) ==
  /\ g.sent = g.answered \/ g.sent = g.answered + 1
  /\ g.sent > g.answered => g.outbox # <<>>
  /\ g.acked <= g.got

Delivered(g, base, count) ==
  Len(g.parts) = IF g.got <= base THEN 0 ELSE Least(g.got - base, count)

\* An acknowledgement of the message on the wire, nothing, or the message wanted.
TakesAck(g, k, frame) ==
  /\ frame.kind = "ack" /\ g.sent > g.answered /\ frame.number = g.sent % Wrap
  /\ k.answered = g.sent /\ k.got = g.got /\ k.parts = g.parts
  /\ k.asked = g.asked /\ k.outbox = Tail(g.outbox)

TakesMessage(g, k, frame) ==
  /\ frame.kind = "msg" /\ frame.number = g.got % Wrap
  /\ k.answered = g.answered /\ k.got = g.got + 1
  /\ k.parts = IF frame.cmd[1] = "part" THEN Append(g.parts, frame.cmd[2]) ELSE g.parts
  /\ frame.cmd # Single("SPkg") => k.asked = g.asked
  /\ k.outbox = g.outbox \/ k.outbox = Append(g.outbox, "Pong")
       \/ (frame.cmd = Single("SPkg") /\ k.outbox = Append(g.outbox, "Send"))

LEMMA GuestTakesIs ==
  ASSUME NEW g \in GuestType, Answers(g), NEW frame \in ToGuest, NEW k, k = GuestTakes(g, frame)
  PROVE  /\ k \in GuestType /\ k.sent = g.sent /\ k.acked = g.acked
         /\ \/ TakesAck(g, k, frame)
            \/ k = g /\ ~(frame.kind = "msg" /\ frame.number = g.got % Wrap)
            \/ TakesMessage(g, k, frame)
<1>0. /\ frame.kind \in {"msg", "ack"}
      /\ frame.kind = "msg" => frame \in Messages(HostCommands) /\ frame.cmd \in HostCommands
  BY DEF ToGuest, Messages, Acks
<1>g. /\ g.got \in Nat /\ g.acked \in Nat /\ g.asked \in BOOLEAN /\ g.parts \in Seq(1..PackageParts)
      /\ g.outbox \in Seq(GuestCommands) /\ g.sent \in Nat /\ g.answered \in Nat
  BY DEF GuestType
<1>1. CASE frame.kind = "ack" /\ g.sent > g.answered /\ frame.number = g.sent % Wrap
  <2>1. k = [g EXCEPT !.answered = g.sent, !.outbox = Tail(g.outbox)]
    BY <1>1 DEF GuestTakes
  <2>2. Tail(g.outbox) \in Seq(GuestCommands)
    BY <1>1, <1>g, HeadTailProperties DEF Answers
  <2>3. k \in GuestType
    BY <1>g, <2>1, <2>2 DEF GuestType
  <2>4. /\ k.sent = g.sent /\ k.acked = g.acked /\ k.answered = g.sent /\ k.got = g.got
        /\ k.parts = g.parts /\ k.asked = g.asked /\ k.outbox = Tail(g.outbox)
    BY <2>1 DEF GuestType
  <2>5. QED
    BY <1>1, <2>3, <2>4 DEF TakesAck
<1>2. CASE frame.kind = "ack" /\ ~(g.sent > g.answered /\ frame.number = g.sent % Wrap)
  BY <1>2 DEF GuestTakes
<1>3. CASE frame.kind = "msg" /\ frame.number # g.got % Wrap
  BY <1>3 DEF GuestTakes
<1>4. CASE frame.kind = "msg" /\ frame.number = g.got % Wrap
  <2> DEFINE h == [g EXCEPT !.got = g.got + 1]
             cmd == frame.cmd
  <2>1. k = GuestAnswers(h, cmd)
    BY <1>4 DEF GuestTakes
  <2>2. /\ h \in GuestType /\ h.got = g.got + 1 /\ h.acked = g.acked /\ h.asked = g.asked
        /\ h.parts = g.parts /\ h.outbox = g.outbox /\ h.sent = g.sent /\ h.answered = g.answered
    <3>1. g.got + 1 \in Nat
      BY <1>g
    <3>2. QED
      BY <3>1 DEF GuestType
  <2> HIDE DEF h, cmd
  <2>3. /\ cmd \in HostCommands
        /\ Single("SPkg")[1] = "SPkg" /\ Single("Ping")[1] = "Ping"
    BY <1>0, <1>4 DEF cmd, Single
  <2>4. CASE cmd = Single("SPkg")
    <3>0. cmd # Single("Ping") /\ cmd[1] # "part"
      BY <2>3, <2>4
    <3>1. k = [h EXCEPT !.asked = TRUE, !.outbox = Append(h.outbox, "Send")]
      BY <2>1, <2>4, <3>0 DEF GuestAnswers
    <3>2. Append(g.outbox, "Send") \in Seq(GuestCommands)
      BY <1>g, AppendProperties DEF GuestCommands
    <3>3. k \in GuestType
      BY <2>2, <3>1, <3>2 DEF GuestType
    <3>4. /\ k.sent = g.sent /\ k.acked = g.acked /\ k.answered = g.answered /\ k.got = g.got + 1
          /\ k.parts = g.parts /\ k.outbox = Append(g.outbox, "Send")
      BY <2>2, <3>1 DEF GuestType
    <3>5. cmd[1] # "part"
      BY <2>3, <2>4
    <3>6. QED
      BY <1>4, <2>4, <3>3, <3>4, <3>5 DEF TakesMessage, cmd
  <2>5. CASE cmd = Single("Ping")
    <3>0. cmd # Single("SPkg") /\ cmd[1] # "part"
      BY <2>3, <2>5
    <3>1. k = [h EXCEPT !.outbox = Append(h.outbox, "Pong")]
      BY <2>1, <2>5, <3>0 DEF GuestAnswers
    <3>2. Append(g.outbox, "Pong") \in Seq(GuestCommands)
      BY <1>g, AppendProperties DEF GuestCommands
    <3>3. k \in GuestType
      BY <2>2, <3>1, <3>2 DEF GuestType
    <3>4. /\ k.sent = g.sent /\ k.acked = g.acked /\ k.answered = g.answered /\ k.got = g.got + 1
          /\ k.parts = g.parts /\ k.outbox = Append(g.outbox, "Pong") /\ k.asked = g.asked
      BY <2>2, <3>1 DEF GuestType
    <3>5. QED
      BY <1>4, <3>0, <3>3, <3>4 DEF TakesMessage, cmd
  <2>6. CASE cmd[1] = "part"
    <3>0. cmd # Single("SPkg") /\ cmd # Single("Ping")
      BY <2>3, <2>6
    <3>1. k = [h EXCEPT !.parts = Append(h.parts, cmd[2])]
      BY <2>1, <2>6, <3>0 DEF GuestAnswers
    <3>2. cmd[2] \in 1..PackageParts
      <4>1. PICK i \in 1..PackageParts : cmd = Part(i)
        BY <2>3, <2>6 DEF HostCommands
      <4>2. QED
        BY <4>1 DEF Part
    <3>3. Append(g.parts, cmd[2]) \in Seq(1..PackageParts)
      BY <1>g, <3>2, AppendProperties
    <3>4. k \in GuestType
      BY <2>2, <3>1, <3>3 DEF GuestType
    <3>5. /\ k.sent = g.sent /\ k.acked = g.acked /\ k.answered = g.answered /\ k.got = g.got + 1
          /\ k.parts = Append(g.parts, cmd[2]) /\ k.outbox = g.outbox /\ k.asked = g.asked
      BY <2>2, <3>1 DEF GuestType
    <3>6. QED
      BY <1>4, <2>6, <3>4, <3>5 DEF TakesMessage, cmd
  <2>7. CASE cmd[1] # "part" /\ cmd # Single("SPkg") /\ cmd # Single("Ping")
    <3>1. k = h
      BY <2>1, <2>7 DEF GuestAnswers
    <3>2. QED
      BY <1>4, <2>2, <2>7, <3>1 DEF TakesMessage, cmd
  <2>8. QED
    BY <2>4, <2>5, <2>6, <2>7
<1>5. QED
  BY <1>0, <1>1, <1>2, <1>3, <1>4

\* What the host's end is without the first of its frames.
Sent(e, r) == r \in EndType /\ r.host = e.host /\ r.pending = e.pending /\ e.out # <<>> /\ r.out = Tail(e.out)

LEMMA SoundTake ==
  ASSUME NEW e \in EndType, NEW g \in GuestType, Answers(g), e.host.received <= g.sent,
         NEW o, Sound(e, o, g), NEW r, Sent(e, r),
         NEW k \in GuestType,
         \/ TakesAck(g, k, Head(e.out))
         \/ k = g
         \/ TakesMessage(g, k, Head(e.out))
  PROVE  Sound(r, Tail(o), k)
<1> DEFINE got == g.got
           answered == g.answered
           received == e.host.received
           s == e.host.sent
           frame == Head(e.out)
           q == o[1]
           sent == g.sent
<1>1. /\ e.out \in Seq(ToGuest) /\ e.out # <<>> /\ r.out = Tail(e.out)
      /\ o \in Seq(Nat) /\ Len(o) = Len(e.out) /\ Shown(e.out, o, "ack")
      /\ Placed(e.out, o, "msg", 1, got, s - 1)
      /\ Placed(e.out, o, "ack", 0, answered, received)
  BY DEF Sound, EndType, Sent
<1>2. /\ frame = e.out[1] /\ 1 \in 1..Len(e.out) /\ q \in Nat
      /\ Tail(o) \in Seq(Nat) /\ Len(Tail(o)) = Len(Tail(e.out))
  BY <1>1, TailPairs
<1>3. /\ got \in Nat /\ answered \in Nat /\ received \in Nat /\ s \in Nat
      /\ answered <= received /\ got <= s /\ received <= sent /\ sent \in Nat
      /\ sent = answered \/ sent = answered + 1
      /\ e.host.acked <= got /\ e.host.acked \in Nat
  BY DEF Sound, EndType, HostType, GuestType, Answers
<1>4. Shown(r.out, Tail(o), "ack")
  BY <1>1, ShownTail
<1>5. /\ frame.kind = "msg" => q \in got..(s - 1)
      /\ frame.kind = "ack" => q \in answered..received /\ frame.number = q % Wrap
  BY <1>1, <1>2 DEF Placed, Shown
<1>6. Wrap \in Nat /\ Wrap > 1
  <2>1. e.host.window \in Windows
    BY DEF EndType, HostType
  <2>2. QED
    BY <2>1, Moduli
<1> HIDE DEF got, answered, received, s, frame, q, sent
<1>7. /\ k.got \in Nat /\ k.answered \in Nat /\ k.answered <= received /\ k.got <= s
      /\ e.host.acked <= k.got
      /\ IF frame.kind = "msg" THEN k.got <= q + 1 ELSE k.got <= got
      /\ IF frame.kind = "ack" THEN k.answered <= q + 0 ELSE k.answered <= answered
  <2>1. CASE TakesAck(g, k, frame)
    <3>1. frame.kind = "ack" /\ sent > answered /\ frame.number = sent % Wrap
          /\ k.answered = sent /\ k.got = got
      BY <2>1 DEF TakesAck, sent, answered, got
    <3>2. q \in answered..received /\ q % Wrap = sent % Wrap
      BY <1>5, <3>1
    <3>3. q - sent < Wrap /\ sent - q < Wrap /\ q \in Int /\ sent \in Int /\ Wrap > 0
      <4>1. \A a, b, c, d \in Nat : a <= b /\ b <= c /\ c = d + 1 /\ d <= a => a - c <= 0 /\ c - a <= 1
        OBVIOUS
      <4>2. q \in Nat /\ answered <= q /\ q <= received /\ sent = answered + 1
        BY <1>2, <1>3, <3>1, <3>2
      <4>3. q - sent <= 0 /\ sent - q <= 1
        BY <1>3, <4>1, <4>2
      <4>4. QED
        BY <1>3, <1>6, <4>2, <4>3
    <3>4. q = sent
      BY <1>6, <3>2, <3>3, ShownDiffer
    <3>5. sent <= received
      BY <1>3, <3>2, <3>4
    <3>6. QED
      BY <1>2, <1>3, <3>1, <3>4, <3>5
  <2>2. CASE k = g
    <3>1. k.got = got /\ k.answered = answered
      BY <2>2 DEF got, answered
    <3>2. frame.kind = "msg" => got <= q + 1
      BY <1>2, <1>3, <1>5
    <3>3. frame.kind = "ack" => answered <= q + 0
      BY <1>2, <1>3, <1>5
    <3>4. QED
      BY <1>3, <3>1, <3>2, <3>3
  <2>3. CASE TakesMessage(g, k, frame)
    <3>1. frame.kind = "msg" /\ k.answered = answered /\ k.got = got + 1
      BY <2>3 DEF TakesMessage, answered, got
    <3>2. q \in Nat /\ got <= q /\ q <= s - 1
      BY <1>2, <1>5, <3>1
    <3>3. got + 1 <= s /\ got + 1 <= q + 1 /\ e.host.acked <= got + 1 /\ got + 1 \in Nat
      BY <1>3, <3>2
    <3>4. QED
      BY <1>3, <3>1, <3>3
  <2>4. QED
    BY <2>1, <2>2, <2>3 DEF frame
<1>8. s - 1 \in Int /\ received \in Int /\ got \in Int /\ answered \in Int /\ 0 \in Nat /\ 1 \in Nat
      /\ k.got \in Int /\ k.answered \in Int
  BY <1>3, <1>7
<1>9. Placed(r.out, Tail(o), "msg", 1, k.got, s - 1)
  <2>1. IF Head(e.out).kind = "msg" THEN k.got <= o[1] + 1 ELSE k.got <= got
    BY <1>7 DEF frame, q
  <2>2. QED
    BY <1>1, <1>8, <2>1, PlacedTail
<1>10. Placed(r.out, Tail(o), "ack", 0, k.answered, received)
  <2>1. IF Head(e.out).kind = "ack" THEN k.answered <= o[1] + 0 ELSE k.answered <= answered
    BY <1>7 DEF frame, q
  <2>2. QED
    BY <1>1, <1>8, <2>1, PlacedTail
<1>11. r.host = e.host /\ r.pending = e.pending
  BY DEF Sent
<1>12. QED
  BY <1>1, <1>2, <1>4, <1>7, <1>9, <1>10, <1>11 DEF Sound, WindowRoom, s, received

\* The message the guest takes has the number it wants.
LEMMA ParcelTake ==
  ASSUME NEW e \in EndType, NEW g \in GuestType, WindowRoom(e), e.host.acked <= g.got,
         NEW failures \in Nat, failures <= MaxFailures, FewFailures,
         NEW base \in Nat, NEW count \in Nat, NEW n, NEW p,
         Parcel(e, n, p, base, count, g, failures), NEW r, Sent(e, r),
         NEW k \in GuestType,
         \/ TakesAck(g, k, Head(e.out))
         \/ k = g
         \/ TakesMessage(g, k, Head(e.out))
  PROVE  /\ Parcel(r, Tail(n), p, base, count, k, failures)
         /\ TakesMessage(g, k, Head(e.out)) =>
              IF g.got \in base..(base + count - 1)
              THEN Head(e.out).cmd = Part(g.got - base + 1)
              ELSE Head(e.out).cmd[1] # "part"
<1> DEFINE got == g.got
           s == e.host.sent
           a == e.host.acked
           win == e.host.window
           frame == Head(e.out)
           q == n[1]
           y == NextOut(e, p)
<1>1. /\ Counted(e, n, p, g, failures) /\ Cut(e.out, n, base, count) /\ Cut(e.pending, p, base, count)
      /\ base + count <= e.host.block
  BY DEF Parcel
<1>2. /\ n \in Seq(Nat) /\ Len(n) = Len(e.out) /\ Shown(e.out, n, "msg")
      /\ Placed(e.out, n, "msg", 1, got, y - 1) /\ got <= y
      /\ \A j \in 1..Len(e.pending) : p[j] <= s + j - 1 + failures
      /\ e.host.block <= s + Len(e.pending) + failures
  BY <1>1 DEF Counted
<1>3. /\ e.out \in Seq(ToGuest) /\ e.out # <<>> /\ r.out = Tail(e.out)
      /\ r.host = e.host /\ r.pending = e.pending
  BY DEF EndType, Sent
<1>4. /\ frame = e.out[1] /\ 1 \in 1..Len(e.out) /\ q \in Nat
      /\ Tail(n) \in Seq(Nat) /\ Len(Tail(n)) = Len(Tail(e.out))
      /\ Len(Tail(e.out)) = Len(e.out) - 1
      /\ \A i \in 1..Len(Tail(e.out)) : /\ i + 1 \in 1..Len(e.out) /\ Tail(e.out)[i] = e.out[i + 1]
                                        /\ Tail(n)[i] = n[i + 1]
  BY <1>2, <1>3, TailPairs
<1>5. y \in Nat /\ y = NextOut(r, p)
  <2>1. y \in Nat
    BY <1>1, NextOutBound
  <2>2. QED
    BY <1>3, <2>1 DEF NextOut
<1>6. /\ got \in Nat /\ s \in Nat /\ a \in Nat /\ win \in Nat /\ a <= got /\ s <= a + win
      /\ Wrap \in Nat /\ Wrap > 0 /\ MaxFailures \in Nat /\ MaxFailures + win <= Wrap /\ win > 0
  <2>1. win \in Windows
    BY DEF EndType, HostType
  <2>2. Wrap \in Nat /\ Wrap > 1 /\ MaxFailures + win <= Wrap /\ win \in {1, 3}
    BY <2>1, Moduli DEF FewFailures
  <2>3. MaxFailures \in Nat
    BY LinkAssumption
  <2>4. got \in Nat /\ s \in Nat /\ a \in Nat
    BY DEF EndType, HostType, GuestType
  <2>5. a <= got /\ s <= a + win
    BY DEF WindowRoom
  <2> HIDE DEF got, s, a, win
  <2>6. QED
    BY <2>2, <2>3, <2>4, <2>5
<1>7. y <= s + failures
  <2>1. e.pending \in Seq(Messages(HostCommands)) /\ Len(e.pending) \in Nat
    BY PendingSaid
  <2>2. CASE e.pending = <<>>
    <3>1. y = e.host.block /\ Len(e.pending) = 0
      BY <2>2 DEF NextOut
    <3>2. QED
      BY <1>2, <1>6, <3>1
  <2>3. CASE e.pending # <<>>
    <3>1. y = p[1] /\ 1 \in 1..Len(e.pending)
      BY <2>1, <2>3, EmptySeq DEF NextOut
    <3>2. y <= s + 1 - 1 + failures
      BY <1>2, <3>1
    <3> HIDE DEF y, s
    <3>3. QED
      BY <1>5, <1>6, <3>2
  <2>4. QED
    BY <2>2, <2>3
<1> HIDE DEF got, s, a, win, frame, q, y
<1>8. frame.kind = "msg" => q \in got..(y - 1) /\ frame.number = q % Wrap
  <2>1. e.out[1].kind = "msg" => n[1] \in got..(y - 1)
    BY <1>2, <1>4 DEF Placed
  <2>2. e.out[1].kind = "msg" => e.out[1].number = n[1] % Wrap
    BY <1>2, <1>4 DEF Shown
  <2>3. QED
    BY <1>4, <2>1, <2>2 DEF q
<1>9. ASSUME TakesMessage(g, k, Head(e.out))
      PROVE  q = got /\ frame.kind = "msg" /\ k.got = got + 1
  <2>1. frame.kind = "msg" /\ frame.number = got % Wrap /\ k.got = got + 1
    BY <1>9 DEF TakesMessage, frame, got
  <2>2. q % Wrap = got % Wrap /\ got <= q /\ q <= y - 1
    BY <1>4, <1>5, <1>6, <1>8, <2>1
  <2>3. q - got < Wrap /\ got - q < Wrap /\ q \in Int /\ got \in Int
    <3>1. q \in Nat /\ y \in Nat /\ got \in Nat /\ s \in Nat /\ a \in Nat /\ win \in Nat
      BY <1>4, <1>5, <1>6
    <3>2. q <= y - 1 /\ y <= s + failures /\ s <= a + win /\ a <= got
      BY <1>6, <1>7, <2>2
    <3>3. q <= got + win + failures - 1
      BY <3>1, <3>2
    <3>4. got <= q /\ failures <= MaxFailures /\ MaxFailures \in Nat /\ MaxFailures + win <= Wrap
          /\ Wrap \in Nat /\ Wrap > 0
      BY <1>6, <2>2
    <3>5. QED
      BY <3>1, <3>3, <3>4
  <2>4. QED
    BY <1>6, <2>1, <2>2, <2>3, ShownDiffer
<1>10. /\ k.got \in Nat /\ k.got <= y /\ got <= k.got
       /\ IF frame.kind = "msg" THEN k.got <= q + 1 ELSE k.got <= got
  <2>0. got <= y
    BY <1>2
  <2>1. CASE TakesMessage(g, k, Head(e.out))
    <3>1. q = got /\ frame.kind = "msg" /\ k.got = got + 1
      BY <1>9, <2>1
    <3>2. got <= y - 1
      BY <1>5, <1>6, <1>8, <3>1
    <3>3. QED
      BY <1>5, <1>6, <3>1, <3>2
  <2>2. CASE k.got = got
    <3>1. frame.kind = "msg" => got <= q
      BY <1>4, <1>6, <1>8
    <3>2. QED
      BY <1>4, <1>6, <2>0, <2>2, <3>1
  <2>3. QED
    BY <2>1, <2>2 DEF TakesAck, got
<1>11. Placed(r.out, Tail(n), "msg", 1, k.got, y - 1)
  <2>1. IF Head(e.out).kind = "msg" THEN k.got <= n[1] + 1 ELSE k.got <= got
    BY <1>10 DEF frame, q
  <2>2. y - 1 \in Int /\ got \in Int /\ 1 \in Nat /\ k.got \in Int
    BY <1>5, <1>6, <1>10
  <2>3. QED
    BY <1>2, <1>3, <2>1, <2>2, PlacedTail
<1>12. Shown(r.out, Tail(n), "msg")
  BY <1>2, <1>3, ShownTail
<1>13. Cut(r.out, Tail(n), base, count)
  BY <1>1, <1>3, <1>4, SMTT(30) DEF Cut
<1>14. Counted(r, Tail(n), p, k, failures)
  BY <1>1, <1>3, <1>4, <1>5, <1>10, <1>11, <1>12 DEF Counted, y
<1>15. ASSUME TakesMessage(g, k, Head(e.out))
       PROVE  IF g.got \in base..(base + count - 1)
              THEN Head(e.out).cmd = Part(g.got - base + 1)
              ELSE Head(e.out).cmd[1] # "part"
  <2>1. n[1] = g.got /\ e.out[1].kind = "msg" /\ e.out[1] = Head(e.out)
    BY <1>4, <1>9, <1>15 DEF frame, q, got
  <2>2. QED
    BY <1>1, <1>4, <2>1 DEF Cut
<1>16. QED
  BY <1>1, <1>3, <1>13, <1>14, <1>15 DEF Parcel

\* The parts the guest has, after another frame.
LEMMA DeliveredTake ==
  ASSUME NEW g \in GuestType, NEW base \in Nat, NEW count \in Nat, count <= PackageParts,
         Delivered(g, base, count), NEW frame \in ToGuest, NEW k \in GuestType,
         TakesMessage(g, k, frame),
         IF g.got \in base..(base + count - 1)
         THEN frame.cmd = Part(g.got - base + 1) ELSE frame.cmd[1] # "part"
  PROVE  /\ Delivered(k, base, count)
         /\ \/ k.parts = g.parts
            \/ /\ count # 0 /\ Len(g.parts) < PackageParts
               /\ k.parts = Append(g.parts, Len(g.parts) + 1)
<1> DEFINE got == g.got
           l == Len(g.parts)
<1>1. /\ got \in Nat /\ l \in Nat /\ g.parts \in Seq(1..PackageParts) /\ PackageParts \in Nat
  BY LenProperties, LinkAssumption DEF GuestType
<1>2. /\ k.got = got + 1
      /\ k.parts = IF frame.cmd[1] = "part" THEN Append(g.parts, frame.cmd[2]) ELSE g.parts
  BY DEF TakesMessage
<1>3. l = IF got <= base THEN 0 ELSE IF got - base < count THEN got - base ELSE count
  BY DEF Delivered, Least
<1>4. Delivered(k, base, count) <=>
        Len(k.parts) = IF k.got <= base THEN 0
                       ELSE IF k.got - base < count THEN k.got - base ELSE count
  BY DEF Delivered, Least
<1>5. /\ got \in base..(base + count - 1) => frame.cmd = Part(got - base + 1)
      /\ got \notin base..(base + count - 1) => frame.cmd[1] # "part"
  OBVIOUS
<1> HIDE DEF got, l
<1>6. CASE got \in base..(base + count - 1)
  <2>1. l = got - base /\ l < count /\ count # 0 /\ got >= base
    BY <1>1, <1>3, <1>6
  <2>2. frame.cmd[1] = "part" /\ frame.cmd[2] = got - base + 1
    BY <1>5, <1>6 DEF Part
  <2>3. k.parts = Append(g.parts, l + 1)
    BY <1>2, <2>1, <2>2
  <2>4. Len(k.parts) = l + 1
    BY <1>1, <2>3 DEF l
  <2>5. l + 1 = IF k.got <= base THEN 0
                ELSE IF k.got - base < count THEN k.got - base ELSE count
    BY <1>1, <1>2, <2>1
  <2>6. Delivered(k, base, count)
    BY <1>4, <2>4, <2>5
  <2>7. l < PackageParts
    BY <1>1, <2>1
  <2>8. QED
    BY <2>1, <2>3, <2>6, <2>7 DEF l
<1>7. CASE got \notin base..(base + count - 1)
  <2>1. k.parts = g.parts
    BY <1>2, <1>5, <1>7
  <2>2. Len(k.parts) = l
    BY <2>1 DEF l
  <2>3. l = IF k.got <= base THEN 0
            ELSE IF k.got - base < count THEN k.got - base ELSE count
    BY <1>1, <1>2, <1>3, <1>7
  <2>4. QED
    BY <1>4, <2>1, <2>2, <2>3
<1>8. QED
  BY <1>6, <1>7

-----------------------------------------------------------------------------
\* The inductive invariant: the frames on their way to the host.

\* A message of the guest has the place it was sent at, an acknowledgement
\* the number of messages it acknowledges.
Heard(e, g, frames, w) ==
  /\ w \in Seq(Nat) /\ Len(w) = Len(frames)
  /\ Placed(frames, w, "msg", 0, e.host.received - 1, g.sent - 1)
  /\ Placed(frames, w, "ack", 0, e.host.acked, g.acked)
  /\ Shown(frames, w, "msg") /\ Shown(frames, w, "ack")
  /\ e.host.received <= g.sent

\* A guest that has not linked has not been offered anything and does not ask.
Talks(e, g, frames) ==
  e.host.state = "WAITING" =>
    ~g.asked /\ Never(frames, "Send") /\ \A i \in 1..Len(g.outbox) : g.outbox[i] # "Send"

Linked(e, g, frames, failures) ==
  /\ e.host.state # "FAILED" => Held(e)
  /\ Waits(e) /\ Answers(g) /\ Talks(e, g, frames)
  /\ \E w \in Seq(Nat) : Heard(e, g, frames, w)
  /\ \E base, count \in Nat :
       /\ Neat(e, base, count, g, failures) /\ Offer(e.host, base, count, failures)
       /\ FewFailures => Delivered(g, base, count)

UsedType == [failures : 0..MaxFailures, lost : 0..MaxLost, repeats : 0..MaxRepeats,
             pings : 0..MaxPings, chatter : 0..MaxChatter]

IInv ==
  /\ End \in EndType /\ guest \in GuestType /\ wire \in Seq(ToHost) /\ used \in UsedType
  /\ Linked(End, guest, wire, used.failures)

LEMMA HeadHeard ==
  ASSUME NEW e \in EndType, NEW g \in GuestType, NEW frames \in Seq(ToHost), frames # <<>>,
         NEW w \in Seq(Nat), Heard(e, g, frames, w)
  PROVE  /\ w[1] \in Nat /\ Head(frames) = frames[1] /\ Head(frames) \in ToHost
         /\ Head(frames).kind = "msg" =>
              w[1] \in (e.host.received - 1)..(g.sent - 1) /\ Head(frames).number = w[1] % Wrap
         /\ Head(frames).kind = "ack" =>
              w[1] \in (e.host.acked)..(g.acked) /\ Head(frames).number = w[1] % Wrap
<1>1. Len(w) = Len(frames)
  BY DEF Heard
<1>2. /\ Head(frames) = frames[1] /\ 1 \in 1..Len(frames) /\ w[1] \in Nat
  BY <1>1, TailPairs
<1>3. frames[1] \in ToHost
  BY <1>2, ElementOfSeq
<1>4. /\ frames[1].kind = "msg" => w[1] \in (e.host.received - 1)..(g.sent - 1)
      /\ frames[1].kind = "ack" => w[1] \in (e.host.acked)..(g.acked)
  BY <1>2 DEF Heard, Placed
<1>5. frames[1].kind = "msg" \/ frames[1].kind = "ack" => frames[1].number = w[1] % Wrap
  BY <1>2 DEF Heard, Shown
<1>6. QED
  BY <1>2, <1>3, <1>4, <1>5

LEMMA HeardTail ==
  ASSUME NEW e \in EndType, NEW g \in GuestType, NEW frames \in Seq(ToHost), frames # <<>>,
         NEW w \in Seq(Nat), Heard(e, g, frames, w), NEW r \in EndType,
         IF Head(frames).kind = "msg" THEN r.host.received - 1 <= w[1] + 0
                                      ELSE r.host.received - 1 <= e.host.received - 1,
         IF Head(frames).kind = "ack" THEN r.host.acked <= w[1] + 0
                                      ELSE r.host.acked <= e.host.acked,
         r.host.received <= g.sent
  PROVE  Heard(r, g, Tail(frames), Tail(w))
<1>1. /\ Len(w) = Len(frames)
      /\ Placed(frames, w, "msg", 0, e.host.received - 1, g.sent - 1)
      /\ Placed(frames, w, "ack", 0, e.host.acked, g.acked)
      /\ Shown(frames, w, "msg") /\ Shown(frames, w, "ack")
  BY DEF Heard
<1>2. Tail(w) \in Seq(Nat) /\ Len(Tail(w)) = Len(Tail(frames))
  BY <1>1, TailPairs
<1>3. /\ e.host.received - 1 \in Int /\ g.sent - 1 \in Int /\ e.host.acked \in Int /\ g.acked \in Int
      /\ r.host.received - 1 \in Int /\ r.host.acked \in Int /\ 0 \in Nat
  <2>1. /\ e.host.received \in Nat /\ g.sent \in Nat /\ e.host.acked \in Nat /\ g.acked \in Nat
        /\ r.host.received \in Nat /\ r.host.acked \in Nat
    BY DEF EndType, HostType, GuestType
  <2>2. \A a \in Nat : a \in Int /\ a - 1 \in Int
    OBVIOUS
  <2>3. QED
    BY <2>1, <2>2
<1>4. Placed(Tail(frames), Tail(w), "msg", 0, r.host.received - 1, g.sent - 1)
  BY <1>1, <1>3, PlacedTail
<1>5. Placed(Tail(frames), Tail(w), "ack", 0, r.host.acked, g.acked)
  BY <1>1, <1>3, PlacedTail
<1>6. Shown(Tail(frames), Tail(w), "msg") /\ Shown(Tail(frames), Tail(w), "ack")
  BY <1>1, ShownTail
<1>7. QED
  BY <1>2, <1>4, <1>5, <1>6 DEF Heard

LEMMA OneLess ==
  \A m, n \in Nat : m - 1 \in Int /\ n - 1 \in Int /\ (m <= n => m - 1 <= n - 1)
  OBVIOUS

LEMMA HeardAppend ==
  ASSUME NEW e \in EndType, NEW g \in GuestType, NEW frames \in Seq(ToHost),
         NEW w \in Seq(Nat), Heard(e, g, frames, w), NEW k \in GuestType,
         NEW frame \in ToHost, NEW place \in Nat, frame.number = place % Wrap,
         g.sent <= k.sent, g.acked <= k.acked,
         frame.kind = "msg" => e.host.received - 1 <= place /\ place = k.sent - 1,
         frame.kind = "ack" => e.host.acked <= place /\ place = k.acked
  PROVE  Heard(e, k, Append(frames, frame), Append(w, place))
<1>1. /\ Len(w) = Len(frames)
      /\ Placed(frames, w, "msg", 0, e.host.received - 1, g.sent - 1)
      /\ Placed(frames, w, "ack", 0, e.host.acked, g.acked)
      /\ Shown(frames, w, "msg") /\ Shown(frames, w, "ack")
      /\ e.host.received <= g.sent
  BY DEF Heard
<1>2. Append(w, place) \in Seq(Nat) /\ Len(Append(w, place)) = Len(Append(frames, frame))
  BY <1>1, AppendPairs
<1>3. /\ e.host.received \in Nat /\ g.sent \in Nat /\ e.host.acked \in Nat /\ g.acked \in Nat
      /\ k.sent \in Nat /\ k.acked \in Nat
  BY DEF EndType, HostType, GuestType
<1>4. /\ e.host.received - 1 \in Int /\ g.sent - 1 \in Int /\ e.host.acked \in Int /\ g.acked \in Int
      /\ k.sent - 1 \in Int /\ k.acked \in Int /\ 0 \in Nat /\ g.sent - 1 <= k.sent - 1
  <2>1. e.host.received - 1 \in Int /\ g.sent - 1 \in Int /\ k.sent - 1 \in Int
    BY <1>3, OneLess
  <2>2. e.host.acked \in Int /\ g.acked \in Int /\ k.acked \in Int /\ 0 \in Nat
    BY <1>3
  <2>3. g.sent - 1 <= k.sent - 1
    BY <1>3, OneLess
  <2>4. QED
    BY <2>1, <2>2, <2>3
<1>5. frame.kind = "msg" =>
        place \in (e.host.received - 1)..(k.sent - 1) /\ g.sent - 1 + 0 <= place
  BY <1>3, <1>4
<1>6. frame.kind = "ack" => place \in (e.host.acked)..(k.acked) /\ g.acked + 0 <= place
  BY <1>3, <1>4
<1>7. Placed(Append(frames, frame), Append(w, place), "msg", 0, e.host.received - 1, k.sent - 1)
  BY <1>1, <1>4, <1>5, PlacedAppend
<1>8. Placed(Append(frames, frame), Append(w, place), "ack", 0, e.host.acked, k.acked)
  BY <1>1, <1>4, <1>6, PlacedAppend
<1>9. Shown(Append(frames, frame), Append(w, place), "msg")
      /\ Shown(Append(frames, frame), Append(w, place), "ack")
  BY <1>1, ShownAppend
<1>10. e.host.received <= k.sent
  BY <1>1, <1>3
<1>11. QED
  BY <1>2, <1>7, <1>8, <1>9, <1>10 DEF Heard

LEMMA NeverTail ==
  ASSUME NEW S, NEW frames \in Seq(S), frames # <<>>, NEW cmd, Never(frames, cmd)
  PROVE  Never(Tail(frames), cmd)
<1>1. /\ Len(Tail(frames)) = Len(frames) - 1 /\ Len(frames) \in Nat
      /\ \A i \in 1..Len(Tail(frames)) : Tail(frames)[i] = frames[i + 1]
  BY HeadTailProperties, LenProperties
<1>2. \A i \in 1..Len(Tail(frames)) : i + 1 \in 1..Len(frames)
  BY <1>1
<1>3. QED
  BY <1>1, <1>2 DEF Never

LEMMA NeverAppend ==
  ASSUME NEW S, NEW frames \in Seq(S), NEW frame \in S, NEW cmd, Never(frames, cmd),
         frame.kind = "msg" => frame.cmd # cmd
  PROVE  Never(Append(frames, frame), cmd)
<1>1. /\ Len(Append(frames, frame)) = Len(frames) + 1 /\ Len(frames) \in Nat
      /\ \A i \in 1..Len(frames) : Append(frames, frame)[i] = frames[i]
      /\ Append(frames, frame)[Len(frames) + 1] = frame
  BY AppendProperties, LenProperties
<1>2. \A i \in 1..Len(Append(frames, frame)) : i \in 1..Len(frames) \/ i = Len(frames) + 1
  BY <1>1
<1>3. QED
  BY <1>1, <1>2 DEF Never

\* The initial states.
LEMMA InitIInv == Init => IInv
<1> SUFFICES ASSUME Init PROVE IInv
  OBVIOUS
<1>1. /\ host \in HostType /\ host.state = "WAITING" /\ ~host.packageSent /\ ~host.packageAcked
      /\ host.block = 0 /\ host.sent = 0 /\ host.acked = 0 /\ host.received = 0
      /\ host.window \in Windows
  <2>1. host \in [window : Windows, state : {"WAITING"}, offered : {FALSE},
                  packageSent : {FALSE}, packageAcked : {FALSE}, packageEnd : {0},
                  block : {0}, sent : {0}, acked : {0}, received : {0}]
    BY DEF Init
  <2>2. /\ host.window \in Windows /\ host.state \in {"WAITING"} /\ host.offered \in {FALSE}
        /\ host.packageSent \in {FALSE} /\ host.packageAcked \in {FALSE} /\ host.packageEnd \in {0}
        /\ host.block \in {0} /\ host.sent \in {0} /\ host.acked \in {0} /\ host.received \in {0}
    BY <2>1
  <2>3. host \in HostType
    <3>1. host = [window |-> host.window, state |-> host.state, offered |-> host.offered,
                  packageSent |-> host.packageSent, packageAcked |-> host.packageAcked,
                  packageEnd |-> host.packageEnd, block |-> host.block, sent |-> host.sent,
                  acked |-> host.acked, received |-> host.received]
      BY <2>1
    <3>2. /\ host.state \in {"WAITING", "CONNECTED", "SENDING", "DONE", "FAILED"}
          /\ host.packageEnd \in Nat /\ host.block \in Nat /\ host.sent \in Nat
          /\ host.acked \in Nat /\ host.received \in Nat
      BY <2>2
    <3>3. host.offered \in BOOLEAN /\ host.packageSent \in BOOLEAN /\ host.packageAcked \in BOOLEAN
      BY <2>2, Zenon
    <3>4. QED
      BY <2>2, <3>1, <3>2, <3>3 DEF HostType
  <2>4. QED
    BY <2>1, <2>2, <2>3
<1>2. /\ End \in EndType /\ End.host = host /\ End.out = <<>> /\ End.pending = <<>>
  BY <1>1 DEF Init, End, EndType
<1>3. /\ guest \in GuestType /\ guest.got = 0 /\ guest.acked = 0 /\ ~guest.asked
      /\ guest.parts = <<>> /\ guest.outbox = <<"Cnct">> /\ guest.sent = 0 /\ guest.answered = 0
  <2>1. <<"Cnct">> \in Seq(GuestCommands)
    BY DEF GuestCommands
  <2>2. QED
    BY <2>1 DEF Init, GuestType
<1>4. wire = <<>> /\ wire \in Seq(ToHost) /\ used \in UsedType /\ used.failures = 0
  BY LinkAssumption DEF Init, UsedType
<1>5. Held(End) /\ Waits(End)
  BY <1>1, <1>2 DEF Held, Waits, Never
<1>6. Answers(guest)
  BY <1>3 DEF Answers
<1>7. Talks(End, guest, wire)
  <2>1. \A i \in 1..Len(guest.outbox) : guest.outbox[i] # "Send"
    BY <1>3
  <2>2. QED
    BY <1>3, <1>4, <2>1 DEF Talks, Never
<1>8. <<>> \in Seq(Nat)
  OBVIOUS
<1>9. Heard(End, guest, wire, <<>>)
  BY <1>1, <1>2, <1>3, <1>4, <1>8 DEF Heard, Placed, Shown
<1>10. Sound(End, <<>>, guest)
  <2>1. WindowRoom(End)
    <3>1. host.window \in Nat
      BY <1>1, Moduli
    <3>2. QED
      BY <1>1, <1>2, <3>1 DEF WindowRoom
  <2>2. QED
    BY <1>1, <1>2, <1>3, <1>8, <2>1 DEF Sound, Placed, Shown
<1>11. Parcel(End, <<>>, <<>>, 0, 0, guest, 0)
  <2>1. NextOut(End, <<>>) = 0
    BY <1>1, <1>2 DEF NextOut
  <2>2. Counted(End, <<>>, <<>>, guest, 0)
    BY <1>1, <1>2, <1>3, <1>8, <2>1 DEF Counted, Placed, Shown
  <2>3. QED
    BY <1>1, <1>2, <2>2 DEF Parcel, Cut
<1>12. Neat(End, 0, 0, guest, 0)
  BY <1>2, <1>8, <1>10, <1>11 DEF Neat
<1>13. Offer(End.host, 0, 0, 0)
  BY <1>1, <1>2, LinkAssumption DEF Offer
<1>14. Delivered(guest, 0, 0)
  BY <1>3 DEF Delivered
<1>15. Linked(End, guest, wire, used.failures)
  <2>1. \E w \in Seq(Nat) : Heard(End, guest, wire, w)
    BY <1>8, <1>9
  <2>2. \E base, count \in Nat :
          /\ Neat(End, base, count, guest, 0) /\ Offer(End.host, base, count, 0)
          /\ FewFailures => Delivered(guest, base, count)
    <3>1. 0 \in Nat
      OBVIOUS
    <3>2. QED
      BY <1>12, <1>13, <1>14, <3>1
  <2>3. QED
    BY <1>4, <1>5, <1>6, <1>7, <2>1, <2>2 DEF Linked
<1>16. QED
  BY <1>2, <1>3, <1>4, <1>15 DEF IInv

-----------------------------------------------------------------------------
\* Every step keeps the invariant.  What PackageTransfer sees of a step of the
\* host, and of one of the guest:
HostSteps ==
  /\ guest'.parts = guest.parts /\ used.failures <= used'.failures
  /\ used'.failures = 0 => Moves(host, host')

GuestSteps ==
  /\ host' = host /\ used'.failures = used.failures
  /\ FewFailures =>
       \/ guest'.parts = guest.parts
       \/ /\ used.failures > 0 \/ host.state # "WAITING"
          /\ Len(guest.parts) < PackageParts
          /\ guest'.parts = Append(guest.parts, Len(guest.parts) + 1)

LEMMA Becoming ==
  ASSUME NEW r \in EndType, Becomes(r)
  PROVE  End' = r /\ host' = r.host
<1>1. r = [host |-> r.host, out |-> r.out, pending |-> r.pending]
  BY DEF EndType
<1>2. End' = [host |-> host', out |-> out', pending |-> pending']
  BY DEF End
<1>3. host' = r.host /\ out' = r.out /\ pending' = r.pending
  BY DEF Becomes
<1>4. QED
  BY <1>1, <1>2, <1>3

LEMMA EndIs == End.host = host /\ End.out = out /\ End.pending = pending
BY DEF End

LEMMA SpendOk ==
  ASSUME used \in UsedType, used.failures < MaxFailures
  PROVE  /\ [used EXCEPT !.failures = @ + 1] \in UsedType
         /\ [used EXCEPT !.failures = @ + 1].failures = used.failures + 1
<1>1. used.failures \in 0..MaxFailures /\ MaxFailures \in Nat
  BY LinkAssumption DEF UsedType
<1>2. used.failures + 1 \in 0..MaxFailures
  BY <1>1
<1>3. QED
  BY <1>2 DEF UsedType

LEMMA FaultsOk ==
  ASSUME NEW fault \in Faults
  PROVE  fault \in Fault /\ (fault = NoFault \/ used.failures < MaxFailures)
<1>1. PackageParts \in Nat
  BY LinkAssumption
<1>2. NoFault \in Fault
  BY DEF NoFault, Fault
<1>3. CASE fault = NoFault
  BY <1>2, <1>3
<1>4. CASE fault # NoFault
  <2>1. used.failures < MaxFailures /\ fault \in [at : 1..(PackageParts + 2), loud : BOOLEAN]
    BY <1>4 DEF Faults
  <2>2. \A i \in 1..(PackageParts + 2) : i \in Nat
    BY <1>1
  <2>3. fault \in Fault
    BY <2>1, <2>2 DEF Fault
  <2>4. QED
    BY <2>1, <2>3
<1>5. QED
  BY <1>3, <1>4

LEMMA ChargeOk ==
  ASSUME used \in UsedType, NEW fault \in Faults, Charge(fault)
  PROVE  fault \in Fault /\ used' \in UsedType /\ used'.failures = used.failures + Spent(fault)
<1>1. fault \in Fault /\ (fault = NoFault \/ used.failures < MaxFailures)
  BY FaultsOk
<1>2. CASE fault = NoFault
  <2>1. used' = used /\ Spent(fault) = 0
    BY <1>2 DEF Charge, Spent
  <2>2. used.failures \in Nat
    BY DEF UsedType
  <2>3. QED
    BY <1>1, <2>1, <2>2
<1>3. CASE fault # NoFault
  <2>1. used' = [used EXCEPT !.failures = @ + 1] /\ Spent(fault) = 1
    BY <1>3 DEF Charge, Spent
  <2>2. QED
    BY <1>1, <1>3, <2>1, SpendOk
<1>4. QED
  BY <1>2, <1>3

LEMMA HandledLinks ==
  ASSUME NEW e, NEW g \in GuestType, NEW base \in Nat, NEW count \in Nat, NEW failures \in Nat,
         NEW fault, NEW r, Neat(e, base, count, g, failures),
         Handled(e, r, base, count, g, failures, fault),
         Offer(e.host, base, count, failures),
         FewFailures => Delivered(g, base, count), Answers(g),
         NEW frames, Talks(e, g, frames), NEW w \in Seq(Nat), Heard(r, g, frames, w)
  PROVE  Linked(r, g, frames, failures + Spent(fault)) /\ r \in EndType
<1>1. PICK base2, count2 \in Nat :
        /\ Ready(r, base2, count2, g, failures + Spent(fault))
        /\ (base2 = base /\ count2 = count) \/ (count = 0 /\ base2 = e.host.block)
  BY DEF Handled
<1>2. /\ Neat(r, base2, count2, g, failures + Spent(fault)) /\ Held(r) /\ Waits(r)
      /\ Offer(r.host, base2, count2, failures + Spent(fault))
  BY <1>1 DEF Ready
<1>3. r \in EndType
  BY <1>2 DEF Neat
<1>4. ASSUME FewFailures
      PROVE  Delivered(g, base2, count2)
  <2>1. CASE base2 = base /\ count2 = count
    BY <1>4, <2>1
  <2>2. CASE count = 0 /\ base2 = e.host.block
    <3>1. e \in EndType /\ \E o \in Seq(Nat) : Sound(e, o, g)
      BY DEF Neat
    <3>2. /\ g.got \in Nat /\ e.host.sent \in Nat /\ e.host.block \in Nat /\ Len(e.pending) \in Nat
      BY <3>1, LenProperties DEF EndType, HostType, GuestType
    <3>3. g.got <= e.host.sent /\ e.host.sent + Len(e.pending) <= e.host.block
      BY <3>1 DEF Sound
    <3>4. g.got <= base2
      BY <2>2, <3>2, <3>3
    <3>5. Len(g.parts) = 0
      <4>1. Len(g.parts) = IF g.got <= base THEN 0
                           ELSE IF g.got - base < 0 THEN g.got - base ELSE 0
        BY <1>4, <2>2 DEF Delivered, Least
      <4>2. QED
        BY <3>2, <4>1
    <3>6. QED
      BY <3>4, <3>5 DEF Delivered
  <2>3. QED
    BY <1>1, <2>1, <2>2
<1>5. Talks(r, g, frames)
  BY DEF Handled, Talks
<1>6. QED
  BY <1>2, <1>3, <1>4, <1>5 DEF Linked

LEMMA HostTakesAckOk ==
  ASSUME IInv, HostTakesAck
  PROVE  IInv' /\ HostSteps
<1> DEFINE failures == used.failures
<1>1. /\ End \in EndType /\ guest \in GuestType /\ wire \in Seq(ToHost) /\ used \in UsedType
      /\ failures \in Nat
  BY LinkAssumption DEF IInv, UsedType
<1>2. /\ wire # <<>> /\ Head(wire).kind = "ack" /\ host.state # "FAILED"
      /\ wire' = Tail(wire) /\ guest' = guest
  BY DEF HostTakesAck
<1>3. PICK fault \in Faults : Becomes(Acked(End, Head(wire).number, fault)) /\ Charge(fault)
  BY DEF HostTakesAck
<1>4. PICK base \in Nat, count \in Nat :
        /\ Neat(End, base, count, guest, failures) /\ Offer(End.host, base, count, failures)
        /\ FewFailures => Delivered(guest, base, count)
  BY DEF IInv, Linked
<1>5. PICK w \in Seq(Nat) : Heard(End, guest, wire, w)
  BY DEF IInv, Linked
<1>6. Waits(End) /\ Answers(guest) /\ Talks(End, guest, wire) /\ Held(End)
  BY <1>2, EndIs DEF IInv, Linked
<1>7. /\ fault \in Fault /\ used' \in UsedType /\ used'.failures = failures + Spent(fault)
  BY <1>1, <1>3, ChargeOk
<1> DEFINE x == w[1]
<1>8. x \in Nat /\ End.host.acked <= x /\ x <= guest.got /\ Head(wire).number = x % Wrap
  <2>1. x \in Nat /\ x \in (End.host.acked)..(guest.acked) /\ Head(wire).number = x % Wrap
    BY <1>1, <1>2, <1>5, HeadHeard
  <2>2. guest.acked <= guest.got /\ guest.acked \in Nat /\ guest.got \in Nat /\ End.host.acked \in Nat
    BY <1>1, <1>6 DEF Answers, GuestType, EndType, HostType
  <2>3. QED
    BY <2>1, <2>2
<1> DEFINE r == Acked(End, x % Wrap, fault)
<1> HIDE DEF failures
<1>9. Learnt(End, r, x, base, count, guest, failures, fault)
  <2>1. Ready(End, base, count, guest, failures)
    BY <1>4, <1>6 DEF Ready
  <2>2. failures \in Nat
    BY <1>1
  <2>3. QED
    BY <1>1, <1>7, <1>8, <2>1, <2>2, AckedOk
<1>10. Becomes(r)
  BY <1>3, <1>8
<1> HIDE DEF r, x
<1>11. r \in EndType /\ End' = r /\ host' = r.host
  <2>1. r \in EndType
    BY <1>9 DEF Learnt, Neat
  <2>2. QED
    BY <1>10, <2>1, Becoming
<1>12. Heard(r, guest, Tail(wire), Tail(w))
  <2>1. r.host.received = End.host.received /\ r.host.acked = x
    BY <1>9 DEF Learnt
  <2>2. End.host.received <= guest.sent
    BY <1>5 DEF Heard
  <2>3. r.host.received - 1 <= End.host.received - 1 /\ r.host.acked <= x + 0
    <3>1. End.host.received \in Nat
      BY <1>1 DEF EndType, HostType
    <3>2. End.host.received - 1 <= End.host.received - 1 /\ x <= x + 0
      BY <1>8, <3>1
    <3>3. QED
      BY <2>1, <3>2
  <2>4. "ack" # "msg"
    OBVIOUS
  <2>5. QED
    BY <1>1, <1>2, <1>5, <1>11, <2>1, <2>2, <2>3, HeardTail DEF x
<1>13. Tail(w) \in Seq(Nat)
  BY <1>12 DEF Heard
<1>14. Talks(r, guest, Tail(wire))
  <2>1. r.host.state = "WAITING" => End.host.state = "WAITING"
    BY <1>9 DEF Learnt
  <2>2. Never(wire, "Send") => Never(Tail(wire), "Send")
    BY <1>1, <1>2, NeverTail
  <2>3. QED
    BY <1>6, <2>1, <2>2 DEF Talks
<1>15. Linked(r, guest, Tail(wire), failures + Spent(fault))
  BY <1>4, <1>6, <1>9, <1>12, <1>13, <1>14 DEF Linked, Learnt
<1>16. IInv'
  <2>1. Tail(wire) \in Seq(ToHost)
    BY <1>1, <1>2, HeadTailProperties
  <2>2. Linked(End', guest', wire', used'.failures)
    BY <1>2, <1>7, <1>11, <1>15
  <2>3. QED
    BY <1>1, <1>2, <1>7, <1>11, <2>1, <2>2 DEF IInv
<1>17. HostSteps
  <2>1. failures <= failures + Spent(fault)
    BY <1>1, <1>7, SpentMore
  <2>2. ASSUME failures + Spent(fault) = 0
        PROVE  Moves(host, host')
    BY <1>9, <1>11, <2>2, EndIs DEF Learnt, Moves
  <2>3. QED
    BY <1>2, <1>7, <2>1, <2>2 DEF HostSteps, failures
<1>18. QED
  BY <1>16, <1>17

\* The number of messages taken, and the acknowledgement of them.
Recounted(e, received) == [e EXCEPT !.host.received = received]

OnlyReceived(e, r, received) ==
  /\ r \in EndType /\ r.out = e.out /\ r.pending = e.pending
  /\ r.host.window = e.host.window /\ r.host.state = e.host.state
  /\ r.host.offered = e.host.offered /\ r.host.packageSent = e.host.packageSent
  /\ r.host.packageAcked = e.host.packageAcked /\ r.host.packageEnd = e.host.packageEnd
  /\ r.host.block = e.host.block /\ r.host.sent = e.host.sent
  /\ r.host.acked = e.host.acked /\ r.host.received = received

Answered(e) ==
  [e EXCEPT !.out = Append(@, [kind |-> "ack", number |-> e.host.received % Wrap])]

LEMMA CountedIs ==
  ASSUME NEW e \in EndType, NEW received \in Nat, NEW r, r = Recounted(e, received)
  PROVE  OnlyReceived(e, r, received)
<1>1. e.host \in HostType
  BY DEF EndType
<1>2. /\ r.out = e.out /\ r.pending = e.pending /\ r.host = [e.host EXCEPT !.received = received]
      /\ r = [host |-> r.host, out |-> r.out, pending |-> r.pending]
  BY DEF EndType, Recounted
<1>3. [e.host EXCEPT !.received = received] \in HostType
  BY <1>1 DEF HostType
<1>4. r \in EndType
  BY <1>2, <1>3 DEF EndType
<1>5. /\ r.host.window = e.host.window /\ r.host.state = e.host.state
      /\ r.host.offered = e.host.offered /\ r.host.packageSent = e.host.packageSent
      /\ r.host.packageAcked = e.host.packageAcked /\ r.host.packageEnd = e.host.packageEnd
      /\ r.host.block = e.host.block /\ r.host.sent = e.host.sent
      /\ r.host.acked = e.host.acked /\ r.host.received = received
  BY <1>1, <1>2 DEF HostType
<1>6. QED
  BY <1>2, <1>4, <1>5 DEF OnlyReceived

LEMMA ReadyCounted ==
  ASSUME NEW e, NEW g \in GuestType, NEW base \in Nat, NEW count \in Nat, NEW failures \in Nat,
         Ready(e, base, count, g, failures),
         NEW received \in Nat, e.host.received <= received,
         NEW r, r = Recounted(e, received)
  PROVE  Ready(r, base, count, g, failures)
<1>1. e \in EndType /\ Neat(e, base, count, g, failures)
  BY DEF Ready, Neat
<1>2. OnlyReceived(e, r, received)
  BY <1>1, CountedIs
<1>3. Neat(r, base, count, g, failures)
  BY <1>1, <1>2, NeatCounted DEF OnlyReceived
<1>4. Held(r) /\ Offer(r.host, base, count, failures) /\ Waits(r)
  BY <1>2 DEF Ready, Held, Offer, Waits, OnlyReceived
<1>5. QED
  BY <1>3, <1>4 DEF Ready

LEMMA ReadyAnswer ==
  ASSUME NEW e, NEW g \in GuestType, NEW base \in Nat, NEW count \in Nat, NEW failures \in Nat,
         Ready(e, base, count, g, failures),
         NEW r, r = Answered(e)
  PROVE  Ready(r, base, count, g, failures) /\ r.host = e.host
<1> DEFINE ack == [kind |-> "ack", number |-> e.host.received % Wrap]
<1>1. e \in EndType /\ Neat(e, base, count, g, failures) /\ e.host \in HostType
      /\ e.out \in Seq(ToGuest) /\ e.host.received \in Nat
  BY DEF Ready, Neat, EndType, HostType
<1>2. ack \in Acks /\ ack.kind = "ack" /\ ack.number = e.host.received % Wrap
  <2>1. Wrap \in Nat /\ Wrap > 0
    BY <1>1, Moduli DEF HostType
  <2>2. e.host.received % Wrap \in 0..(Wrap - 1)
    BY <1>1, <2>1, RemainderType
  <2>3. QED
    BY <2>2 DEF Acks
<1>3. r = [e EXCEPT !.out = Append(e.out, ack)]
  BY DEF Answered
<1> HIDE DEF ack
<1>4. /\ r.host = e.host /\ r.pending = e.pending /\ r.out = Append(e.out, ack)
      /\ r = [host |-> r.host, out |-> r.out, pending |-> r.pending]
  BY <1>1, <1>3 DEF EndType
<1>5. r \in EndType
  <2>1. Append(e.out, ack) \in Seq(ToGuest)
    BY <1>1, <1>2, AppendProperties DEF ToGuest
  <2>2. r.pending \in Seq(Messages(HostCommands))
    BY <1>1, <1>4 DEF EndType
  <2>3. r = [host |-> e.host, out |-> Append(e.out, ack), pending |-> r.pending]
    BY <1>4
  <2>4. e.host \in HostType
    BY <1>1
  <2> DEFINE h == e.host
             o == Append(e.out, ack)
             q == r.pending
  <2> HIDE DEF h, o, q
  <2>5. [host |-> h, out |-> o, pending |-> q] \in EndType
    BY <2>1, <2>2, <2>4 DEF EndType, h, o, q
  <2>6. QED
    BY <2>3, <2>5 DEF h, o, q
<1>6. Neat(r, base, count, g, failures)
  BY <1>1, <1>2, <1>4, <1>5, NeatAnswer
<1>7. Waits(r)
  <2>1. Never(e.out, Single("SPkg")) => Never(r.out, Single("SPkg"))
    <3>1. ack \in ToGuest /\ ack.kind # "msg"
      BY <1>2 DEF ToGuest
    <3>2. QED
      BY <1>1, <1>4, <3>1, NeverAppend
  <2>2. QED
    BY <1>4, <2>1 DEF Ready, Waits
<1>8. QED
  BY <1>4, <1>6, <1>7 DEF Ready, Held

\* The messages the guest sends again have the number before the one wanted.
LEMMA MessageNumber ==
  ASSUME NEW e \in EndType, NEW g \in GuestType, Answers(g), g.answered <= e.host.received,
         NEW frames \in Seq(ToHost), frames # <<>>, Head(frames).kind = "msg",
         NEW w \in Seq(Nat), Heard(e, g, frames, w),
         NEW fresh, fresh <=> Head(frames).number = e.host.received % Wrap,
         NEW received, received = e.host.received + (IF fresh THEN 1 ELSE 0)
  PROVE  /\ received \in Nat /\ e.host.received <= received
         /\ received - 1 <= w[1] + 0 /\ received <= g.sent
         /\ g.answered <= received
<1> DEFINE x == w[1]
           old == e.host.received
           sent == g.sent
           answered == g.answered
<1>1. /\ x \in Nat /\ x \in (old - 1)..(sent - 1) /\ Head(frames).number = x % Wrap
  BY HeadHeard
<1>2. /\ old \in Nat /\ sent \in Nat /\ answered \in Nat /\ answered <= old
      /\ sent = answered \/ (sent = answered + 1 /\ old <= sent)
  BY DEF Answers, EndType, HostType, GuestType, Heard
<1>3. Wrap \in Nat /\ Wrap > 1
  BY Moduli DEF EndType, HostType
<1>4. old <= sent
  BY DEF Heard
<1>5. (fresh <=> x % Wrap = old % Wrap) /\ received = old + (IF fresh THEN 1 ELSE 0)
  BY <1>1
<1> HIDE DEF x, old, sent, answered
<1>6. x <= old /\ old - 1 <= x
  BY <1>1, <1>2, <1>4
<1>7. fresh => x = old
  <2>1. Wrap > 0 /\ x \in Int /\ old \in Int /\ x - old < Wrap /\ old - x < Wrap
    BY <1>1, <1>2, <1>3, <1>6
  <2>2. QED
    BY <1>3, <1>5, <2>1, ShownDiffer
<1>8. CASE fresh
  <2>1. received = old + 1 /\ x = old
    BY <1>5, <1>7, <1>8
  <2>2. x \in Nat /\ old \in Nat /\ sent \in Nat /\ answered \in Nat /\ x <= sent - 1 /\ answered <= old
    BY <1>1, <1>2
  <2>3. received \in Nat /\ old <= received /\ received - 1 <= x + 0 /\ received <= sent
        /\ answered <= received
    BY <2>1, <2>2
  <2>4. QED
    BY <2>3 DEF x, old, sent, answered
<1>9. CASE ~fresh
  <2>1. received = old + 0
    BY <1>5, <1>9
  <2>2. QED
    BY <1>1, <1>2, <1>4, <1>6, <2>1 DEF x, old, sent, answered
<1>10. QED
  BY <1>8, <1>9

LEMMA HostTakesMessageOk ==
  ASSUME IInv, HostTakesMessage
  PROVE  IInv' /\ HostSteps
<1> DEFINE failures == used.failures
           fresh == Head(wire).number = host.received % Wrap
           received == host.received + (IF fresh THEN 1 ELSE 0)
           counted == [End EXCEPT !.host.received = received]
           answered == [counted EXCEPT
                          !.out = Append(@, [kind |-> "ack", number |-> received % Wrap])]
           cmd == Head(wire).cmd
           doomed == [at |-> 1, loud |-> TRUE]
<1>1. /\ End \in EndType /\ guest \in GuestType /\ wire \in Seq(ToHost) /\ used \in UsedType
      /\ failures \in Nat
  BY LinkAssumption DEF IInv, UsedType
<1>2. /\ wire # <<>> /\ Head(wire).kind = "msg" /\ host.state # "FAILED"
      /\ wire' = Tail(wire) /\ guest' = guest
  BY DEF HostTakesMessage
<1>3. \/ \E fault \in Faults :
           /\ Becomes(IF fresh THEN Handle(answered, cmd, fault) ELSE answered)
           /\ Charge(fault)
      \/ /\ used.failures < MaxFailures /\ Becomes(Failed(counted))
         /\ used' = [used EXCEPT !.failures = @ + 1]
  BY DEF HostTakesMessage
<1>4. PICK base \in Nat, count \in Nat :
        /\ Neat(End, base, count, guest, failures) /\ Offer(End.host, base, count, failures)
        /\ FewFailures => Delivered(guest, base, count)
  BY DEF IInv, Linked
<1>5. PICK w \in Seq(Nat) : Heard(End, guest, wire, w)
  BY DEF IInv, Linked
<1>6. Waits(End) /\ Answers(guest) /\ Talks(End, guest, wire) /\ Held(End)
  BY <1>2, EndIs DEF IInv, Linked
<1>7. /\ received \in Nat /\ End.host.received <= received
      /\ received - 1 <= w[1] + 0 /\ received <= guest.sent
      /\ guest.answered <= received
  <2>1. guest.answered <= End.host.received
    BY <1>4 DEF Neat, Sound
  <2>2. /\ fresh <=> Head(wire).number = End.host.received % Wrap
        /\ received = End.host.received + (IF fresh THEN 1 ELSE 0)
    BY EndIs
  <2> HIDE DEF fresh, received
  <2>3. QED
    BY <1>1, <1>2, <1>5, <1>6, <2>1, <2>2, MessageNumber
<1> HIDE DEF failures, received
<1>8. Ready(counted, base, count, guest, failures)
  <2>1. Ready(End, base, count, guest, failures)
    BY <1>4, <1>6 DEF Ready
  <2>2. counted = Recounted(End, received)
    BY DEF Recounted
  <2> HIDE DEF counted
  <2>3. QED
    BY <1>1, <1>7, <2>1, <2>2, ReadyCounted
<1>9. /\ counted \in EndType /\ counted.host.received = received
      /\ counted.host.acked = End.host.acked /\ counted.host.state = End.host.state
      /\ counted.host.packageAcked = End.host.packageAcked
  <2>1. counted = Recounted(End, received)
    BY DEF Recounted
  <2> HIDE DEF counted
  <2>2. OnlyReceived(End, counted, received)
    BY <1>1, <1>7, <2>1, CountedIs
  <2>3. QED
    BY <2>2 DEF OnlyReceived
<1> HIDE DEF counted
<1>10. Ready(answered, base, count, guest, failures) /\ answered.host = counted.host
  <2>1. answered = Answered(counted)
    BY <1>9 DEF Answered
  <2> HIDE DEF answered
  <2>2. QED
    BY <1>1, <1>8, <2>1, ReadyAnswer
<1>11. answered \in EndType
  BY <1>10 DEF Ready, Neat
<1> HIDE DEF answered
<1>12. Talks(answered, guest, Tail(wire)) /\ Talks(counted, guest, Tail(wire))
  <2>1. Never(wire, "Send") => Never(Tail(wire), "Send")
    BY <1>1, <1>2, NeverTail
  <2>2. QED
    BY <1>6, <1>9, <1>10, <2>1 DEF Talks
<1>13. ASSUME NEW e \in {answered, counted}, NEW fault \in Fault, NEW r, Becomes(r),
              Handled(e, r, base, count, guest, failures, fault),
              used' \in UsedType, used'.failures = failures + Spent(fault)
       PROVE  IInv' /\ HostSteps
  <2>1. /\ Ready(e, base, count, guest, failures) /\ Talks(e, guest, Tail(wire))
        /\ e.host.acked = End.host.acked /\ e.host.received = received
        /\ e.host.state = End.host.state /\ e.host.packageAcked = End.host.packageAcked
    BY <1>8, <1>9, <1>10, <1>12
  <2>2. r \in EndType /\ r.host.acked = End.host.acked /\ r.host.received = received
    BY <1>13, <2>1 DEF Handled, Ready, Neat
  <2>3. End' = r /\ host' = r.host
    BY <1>13, <2>2, Becoming
  <2>4. Heard(r, guest, Tail(wire), Tail(w))
    <3>1. /\ r.host.received - 1 <= w[1] + 0 /\ r.host.received <= guest.sent
      BY <1>7, <2>2
    <3>2. r.host.acked <= End.host.acked
      <4>1. End.host.acked \in Nat
        BY <1>1 DEF EndType, HostType
      <4>2. QED
        BY <2>2, <4>1
    <3>3. "msg" # "ack"
      OBVIOUS
    <3>4. QED
      BY <1>1, <1>2, <1>5, <2>2, <3>1, <3>2, <3>3, HeardTail
  <2>5. Tail(w) \in Seq(Nat)
    BY <2>4 DEF Heard
  <2>6. Linked(r, guest, Tail(wire), failures + Spent(fault))
    <3>1. Neat(e, base, count, guest, failures) /\ Offer(e.host, base, count, failures)
      BY <2>1 DEF Ready
    <3>2. QED
      BY <1>1, <1>4, <1>6, <1>13, <2>1, <2>4, <2>5, <3>1, HandledLinks
  <2>7. Tail(wire) \in Seq(ToHost)
    BY <1>1, <1>2, HeadTailProperties
  <2>8. IInv'
    <3>1. Linked(End', guest', wire', used'.failures)
      BY <1>2, <1>13, <2>3, <2>6
    <3>2. QED
      BY <1>1, <1>2, <1>13, <2>2, <2>3, <2>7, <3>1 DEF IInv
  <2>9. HostSteps
    <3>1. failures <= failures + Spent(fault)
      BY <1>1, <1>13, SpentMore
    <3>2. ASSUME failures + Spent(fault) = 0
          PROVE  Moves(host, host')
      <4>1. Moves(e.host, r.host)
        BY <1>13, <3>2 DEF Handled
      <4>2. e.host.state = host.state /\ e.host.packageAcked = host.packageAcked
        BY <2>1, EndIs
      <4>3. QED
        BY <2>3, <4>1, <4>2 DEF Moves
    <3>3. QED
      BY <1>2, <1>13, <3>1, <3>2 DEF HostSteps, failures
  <2>10. QED
    BY <2>8, <2>9
<1>14. ASSUME NEW fault \in Faults,
              Becomes(IF fresh THEN Handle(answered, cmd, fault) ELSE answered), Charge(fault)
       PROVE  IInv' /\ HostSteps
  <2> DEFINE r == IF fresh THEN Handle(answered, cmd, fault) ELSE answered
  <2>1. fault \in Fault /\ used' \in UsedType /\ used'.failures = failures + Spent(fault)
    BY <1>1, <1>14, ChargeOk DEF failures
  <2>2. Handled(answered, r, base, count, guest, failures, fault)
    <3>1. CASE fresh
      <4>1. cmd \in GuestCommands /\ (cmd = "Send" => answered.host.state # "WAITING")
        <5>1. Head(wire) = wire[1] /\ 1 \in 1..Len(wire) /\ Head(wire) \in ToHost
          BY <1>1, <1>2, HeadTailProperties, EmptySeq, LenProperties, ElementOfSeq
        <5>2. cmd \in GuestCommands
          BY <1>2, <5>1 DEF ToHost, Messages, Acks
        <5>3. cmd = "Send" => ~Never(wire, "Send")
          BY <1>2, <5>1 DEF Never
        <5>4. QED
          BY <1>6, <1>9, <1>10, <5>2, <5>3 DEF Talks
      <4>2. r = Handle(answered, cmd, fault)
        BY <3>1
      <4>3. answered.host.state # "FAILED"
        BY <1>2, <1>9, <1>10, EndIs
      <4> HIDE DEF r, cmd
      <4>4. QED
        BY <1>1, <1>10, <2>1, <4>1, <4>2, <4>3, HandleOk
    <3>2. CASE ~fresh
      <4>1. r = answered
        BY <3>2
      <4> HIDE DEF r
      <4>2. SameHeader(r.host, answered.host) /\ Moves(answered.host, r.host)
        BY <4>1 DEF SameHeader, Moves
      <4>3. QED
        BY <1>1, <1>10, <1>11, <2>1, <4>1, <4>2, ReadyStays
    <3>3. QED
      BY <3>1, <3>2
  <2>3. Becomes(r)
    BY <1>14
  <2> HIDE DEF r
  <2>4. QED
    BY <1>13, <2>1, <2>2, <2>3
<1>15. ASSUME used.failures < MaxFailures, Becomes(Failed(counted)),
              used' = [used EXCEPT !.failures = @ + 1]
       PROVE  IInv' /\ HostSteps
  <2> DEFINE r == Failed(counted)
  <2>1. doomed \in Fault /\ Spent(doomed) = 1
    BY DEF Fault, Spent, NoFault
  <2>2. used' \in UsedType /\ used'.failures = failures + Spent(doomed)
    BY <1>1, <1>15, <2>1, SpendOk DEF failures
  <2> HIDE DEF doomed
  <2>3. /\ r \in EndType /\ r.out = counted.out /\ r.pending = counted.pending
        /\ SameHeader(r.host, counted.host) /\ r.host.sent = counted.host.sent
        /\ r.host.block = counted.host.block /\ r.host.state = "FAILED"
    BY <1>9, StateChanges DEF Failed
  <2>4. Becomes(r)
    BY <1>15
  <2> HIDE DEF r
  <2>5. Moves(counted.host, r.host)
    BY <2>3 DEF Moves
  <2>6. Handled(counted, r, base, count, guest, failures, doomed)
    BY <1>1, <1>8, <2>1, <2>3, <2>5, ReadyStays
  <2>7. QED
    BY <1>13, <2>1, <2>2, <2>4, <2>6
<1>16. QED
  BY <1>3, <1>14, <1>15

\* A frame nobody listens to.
LEMMA FrameGoes ==
  ASSUME IInv, wire # <<>>, wire' = Tail(wire), UNCHANGED <<host, out, pending, guest>>,
         used' \in UsedType, used'.failures = used.failures
  PROVE  IInv' /\ HostSteps
<1>1. /\ End \in EndType /\ guest \in GuestType /\ wire \in Seq(ToHost) /\ used \in UsedType
      /\ used.failures \in Nat /\ Linked(End, guest, wire, used.failures)
  BY LinkAssumption DEF IInv, UsedType
<1>2. End' = End /\ guest' = guest /\ host' = host
  BY DEF End
<1>3. PICK w \in Seq(Nat) : Heard(End, guest, wire, w)
  BY <1>1 DEF Linked
<1>4. Heard(End, guest, Tail(wire), Tail(w))
  <2>1. /\ w[1] \in Nat
        /\ Head(wire).kind = "msg" => w[1] \in (End.host.received - 1)..(guest.sent - 1)
        /\ Head(wire).kind = "ack" => w[1] \in (End.host.acked)..(guest.acked)
    BY <1>1, <1>3, HeadHeard
  <2>2. /\ End.host.received \in Nat /\ End.host.acked \in Nat
        /\ guest.sent \in Nat /\ guest.acked \in Nat
    BY <1>1 DEF EndType, HostType, GuestType
  <2>3. /\ IF Head(wire).kind = "msg" THEN End.host.received - 1 <= w[1] + 0
                                      ELSE End.host.received - 1 <= End.host.received - 1
        /\ IF Head(wire).kind = "ack" THEN End.host.acked <= w[1] + 0
                                      ELSE End.host.acked <= End.host.acked
    <3> DEFINE x == w[1]
               received == End.host.received
               acked == End.host.acked
    <3>1. /\ x \in Nat /\ received \in Nat /\ acked \in Nat
          /\ guest.sent \in Nat /\ guest.acked \in Nat
          /\ Head(wire).kind = "msg" => x \in (received - 1)..(guest.sent - 1)
          /\ Head(wire).kind = "ack" => x \in acked..(guest.acked)
      BY <2>1, <2>2
    <3> HIDE DEF x, received, acked
    <3>2. /\ Head(wire).kind = "msg" => received - 1 <= x + 0
          /\ Head(wire).kind = "ack" => acked <= x + 0
          /\ received - 1 <= received - 1 /\ acked <= acked
      BY <3>1
    <3>3. QED
      BY <3>2 DEF x, received, acked
  <2>4. End.host.received <= guest.sent
    BY <1>3 DEF Heard
  <2>5. QED
    BY <1>1, <1>3, <2>3, <2>4, HeardTail
<1>5. Tail(w) \in Seq(Nat)
  BY <1>4 DEF Heard
<1>6. Talks(End, guest, Tail(wire))
  <2>1. Never(wire, "Send") => Never(Tail(wire), "Send")
    BY <1>1, NeverTail
  <2>2. QED
    BY <1>1, <2>1 DEF Talks, Linked
<1>7. Linked(End, guest, Tail(wire), used.failures)
  BY <1>1, <1>4, <1>5, <1>6 DEF Linked
<1>8. IInv'
  <2>1. Tail(wire) \in Seq(ToHost)
    BY <1>1, HeadTailProperties
  <2>2. Linked(End', guest', wire', used'.failures)
    BY <1>2, <1>7
  <2>3. QED
    BY <1>1, <1>2, <2>1, <2>2 DEF IInv
<1>9. HostSteps
  BY <1>1, <1>2 DEF HostSteps, Moves
<1>10. QED
  BY <1>8, <1>9

LEMMA HostIgnoresOk ==
  ASSUME IInv, HostIgnores
  PROVE  IInv' /\ HostSteps
<1>1. used \in UsedType
  BY DEF IInv
<1>2. /\ wire # <<>> /\ wire' = Tail(wire) /\ UNCHANGED <<host, out, pending, guest>>
      /\ used' = used
  BY DEF HostIgnores
<1>3. QED
  BY <1>1, <1>2, FrameGoes

LEMMA FrameDamagedOk ==
  ASSUME IInv, FrameDamaged
  PROVE  IInv' /\ HostSteps
<1>1. used \in UsedType /\ used.lost < MaxLost /\ used' = [used EXCEPT !.lost = @ + 1]
  BY DEF IInv, FrameDamaged
<1>2. used.lost + 1 \in 0..MaxLost
  BY <1>1, LinkAssumption DEF UsedType
<1>3. used' \in UsedType /\ used'.failures = used.failures
  BY <1>1, <1>2 DEF UsedType
<1>4. wire # <<>> /\ wire' = Tail(wire) /\ UNCHANGED <<host, out, pending, guest>>
  BY DEF FrameDamaged
<1>5. QED
  BY <1>3, <1>4, FrameGoes

LEMMA HostPingsOk ==
  ASSUME IInv, HostPings
  PROVE  IInv' /\ HostSteps
<1> DEFINE failures == used.failures
<1>1. /\ End \in EndType /\ guest \in GuestType /\ wire \in Seq(ToHost) /\ used \in UsedType
      /\ failures \in Nat /\ Linked(End, guest, wire, failures)
  BY LinkAssumption DEF IInv, UsedType
<1>2. PICK fault \in Faults :
        /\ Becomes(Emit(End, <<Single("Ping")>>, fault))
        /\ used' = [used EXCEPT !.pings = Least(@ + 1, MaxPings),
                                !.failures = @ + (IF fault = NoFault THEN 0 ELSE 1)]
  BY DEF HostPings
<1>3. guest' = guest /\ wire' = wire /\ host.state # "FAILED"
  BY DEF HostPings
<1>4. fault \in Fault /\ (fault = NoFault \/ used.failures < MaxFailures)
  BY FaultsOk
<1>5. used' \in UsedType /\ used'.failures = failures + Spent(fault)
  <2>1. used.pings \in 0..MaxPings /\ MaxPings \in Nat /\ used.failures \in 0..MaxFailures
        /\ MaxFailures \in Nat
    BY <1>1, LinkAssumption DEF UsedType
  <2>2. Least(used.pings + 1, MaxPings) \in 0..MaxPings
    BY <2>1 DEF Least
  <2>3. used.failures + (IF fault = NoFault THEN 0 ELSE 1) \in 0..MaxFailures
    <3>1. CASE fault = NoFault
      BY <2>1, <3>1
    <3>2. CASE fault # NoFault
      BY <1>4, <2>1, <3>2
    <3>3. QED
      BY <3>1, <3>2
  <2>4. used' \in UsedType
    BY <1>1, <1>2, <2>2, <2>3 DEF UsedType
  <2>5. used'.failures = failures + Spent(fault)
    BY <1>1, <1>2 DEF UsedType, Spent
  <2>6. QED
    BY <2>4, <2>5
<1>6. PICK base \in Nat, count \in Nat :
        /\ Neat(End, base, count, guest, failures) /\ Offer(End.host, base, count, failures)
        /\ FewFailures => Delivered(guest, base, count)
  BY <1>1 DEF Linked
<1>7. PICK w \in Seq(Nat) : Heard(End, guest, wire, w)
  BY <1>1 DEF Linked
<1>8. Waits(End) /\ Answers(guest) /\ Talks(End, guest, wire) /\ Held(End)
  BY <1>1, <1>3, EndIs DEF Linked
<1> DEFINE r == Emit(End, <<Single("Ping")>>, fault)
<1> HIDE DEF failures
<1>9. Handled(End, r, base, count, guest, failures, fault)
  <2>1. Ready(End, base, count, guest, failures)
    BY <1>6, <1>8 DEF Ready
  <2>2. QED
    BY <1>1, <1>4, <2>1, ReadySay
<1>10. Becomes(r)
  BY <1>2
<1> HIDE DEF r
<1>11. r \in EndType /\ r.host.acked = End.host.acked /\ r.host.received = End.host.received
  BY <1>9 DEF Handled, Ready, Neat
<1>12. End' = r /\ host' = r.host
  BY <1>10, <1>11, Becoming
<1>13. Heard(r, guest, wire, w)
  BY <1>7, <1>11 DEF Heard
<1>14. Linked(r, guest, wire, failures + Spent(fault))
  BY <1>1, <1>6, <1>7, <1>8, <1>9, <1>13, HandledLinks
<1>15. IInv'
  <2>1. Linked(End', guest', wire', used'.failures)
    BY <1>3, <1>5, <1>12, <1>14
  <2>2. QED
    BY <1>1, <1>3, <1>5, <1>11, <1>12, <2>1 DEF IInv
<1>16. HostSteps
  <2>1. failures <= failures + Spent(fault)
    BY <1>1, <1>4, SpentMore
  <2>2. ASSUME failures + Spent(fault) = 0
        PROVE  Moves(host, host')
    BY <1>9, <1>12, <2>2, EndIs DEF Handled
  <2>3. QED
    BY <1>3, <1>5, <2>1, <2>2 DEF HostSteps, failures
<1>17. QED
  BY <1>15, <1>16

-----------------------------------------------------------------------------
\* The guest's steps.

LEMMA GuestChanges ==
  ASSUME IInv, UNCHANGED <<host, out, pending>>,
         guest' \in GuestType, guest'.got = guest.got, guest'.answered = guest.answered,
         guest'.parts = guest.parts, Answers(guest'), wire' \in Seq(ToHost),
         Talks(End, guest', wire'), NEW w \in Seq(Nat), Heard(End, guest', wire', w),
         used' \in UsedType, used'.failures = used.failures
  PROVE  IInv' /\ GuestSteps
<1> DEFINE k == guest'
<1>1. /\ End \in EndType /\ guest \in GuestType /\ used.failures \in Nat
      /\ Linked(End, guest, wire, used.failures)
  BY LinkAssumption DEF IInv, UsedType
<1>2. End' = End /\ host' = host
  BY DEF End
<1>3. PICK base \in Nat, count \in Nat :
        /\ Neat(End, base, count, guest, used.failures)
        /\ Offer(End.host, base, count, used.failures)
        /\ FewFailures => Delivered(guest, base, count)
  BY <1>1 DEF Linked
<1>4. /\ k \in GuestType /\ k.got = guest.got /\ k.answered = guest.answered /\ k.parts = guest.parts
      /\ Answers(k) /\ Talks(End, k, wire') /\ Heard(End, k, wire', w)
  OBVIOUS
<1> HIDE DEF k
<1>5. Neat(End, base, count, k, used.failures)
  BY <1>1, <1>3, <1>4, NeatGuest
<1>6. FewFailures => Delivered(k, base, count)
  BY <1>3, <1>4 DEF Delivered
<1>7. Linked(End, k, wire', used.failures)
  BY <1>1, <1>3, <1>4, <1>5, <1>6 DEF Linked
<1>8. IInv'
  <2>1. Linked(End', guest', wire', used'.failures)
    BY <1>2, <1>7 DEF k
  <2>2. QED
    BY <1>1, <1>2, <2>1 DEF IInv
<1>9. GuestSteps
  BY <1>2, <1>4 DEF GuestSteps, k
<1>10. QED
  BY <1>8, <1>9

\* What the guest's steps have in common.
LEMMA GuestKnows ==
  ASSUME IInv
  PROVE  /\ End \in EndType /\ guest \in GuestType /\ wire \in Seq(ToHost) /\ used \in UsedType
         /\ Answers(guest) /\ Talks(End, guest, wire)
         /\ End.host.acked \in Nat /\ guest.got \in Nat /\ End.host.acked <= guest.got
         /\ End.host.received \in Nat /\ guest.sent \in Nat /\ End.host.received <= guest.sent
         /\ guest.answered \in Nat /\ guest.acked \in Nat /\ guest.outbox \in Seq(GuestCommands)
         /\ guest.asked \in BOOLEAN /\ guest.parts \in Seq(1..PackageParts)
         /\ Wrap \in Nat /\ Wrap > 0
<1>1. /\ End \in EndType /\ guest \in GuestType /\ wire \in Seq(ToHost) /\ used \in UsedType
      /\ Linked(End, guest, wire, used.failures)
  BY DEF IInv
<1>2. Answers(guest) /\ Talks(End, guest, wire)
  BY <1>1 DEF Linked
<1>3. /\ End.host.acked \in Nat /\ End.host.received \in Nat /\ End.host.window \in Windows
      /\ guest.got \in Nat /\ guest.sent \in Nat /\ guest.acked \in Nat
      /\ guest.answered \in Nat /\ guest.outbox \in Seq(GuestCommands)
      /\ guest.asked \in BOOLEAN /\ guest.parts \in Seq(1..PackageParts)
  BY <1>1 DEF EndType, HostType, GuestType
<1>4. End.host.acked <= guest.got
  <2>1. \E base, count \in Nat : Neat(End, base, count, guest, used.failures)
    BY <1>1 DEF Linked
  <2>2. QED
    BY <2>1 DEF Neat, Sound
<1>5. End.host.received <= guest.sent
  <2>1. \E w \in Seq(Nat) : Heard(End, guest, wire, w)
    BY <1>1 DEF Linked
  <2>2. QED
    BY <2>1 DEF Heard
<1>6. Wrap \in Nat /\ Wrap > 0
  BY <1>3, Moduli
<1>7. QED
  BY <1>1, <1>2, <1>3, <1>4, <1>5, <1>6

LEMMA MessageIs ==
  ASSUME IInv, guest.outbox # <<>>, NEW number \in Nat
  PROVE  /\ Message(number) \in ToHost /\ Message(number).kind = "msg"
         /\ Message(number).number = number % Wrap
         /\ Message(number).cmd = guest.outbox[1] /\ 1 \in 1..Len(guest.outbox)
<1>1. guest.outbox \in Seq(GuestCommands) /\ Wrap \in Nat /\ Wrap > 0
  BY GuestKnows
<1>2. Head(guest.outbox) = guest.outbox[1] /\ 1 \in 1..Len(guest.outbox)
      /\ guest.outbox[1] \in GuestCommands
  BY <1>1, EmptySeq, LenProperties, ElementOfSeq
<1>3. number % Wrap \in 0..(Wrap - 1)
  BY <1>1, RemainderType
<1>4. Message(number) = [kind |-> "msg", number |-> number % Wrap, cmd |-> guest.outbox[1]]
  BY <1>2 DEF Message
<1>5. QED
  BY <1>2, <1>3, <1>4 DEF ToHost, Messages

LEMMA GuestAcknowledgesOk ==
  ASSUME IInv, GuestAcknowledges
  PROVE  IInv' /\ GuestSteps
<1> DEFINE ack == [kind |-> "ack", number |-> guest.got % Wrap]
           k == guest'
<1>1. /\ End \in EndType /\ guest \in GuestType /\ wire \in Seq(ToHost) /\ used \in UsedType
      /\ Answers(guest) /\ Talks(End, guest, wire)
      /\ End.host.acked \in Nat /\ guest.got \in Nat /\ End.host.acked <= guest.got
      /\ guest.acked \in Nat /\ guest.sent \in Nat /\ Wrap \in Nat /\ Wrap > 0
  BY GuestKnows
<1>2. /\ guest.acked < guest.got /\ wire' = Append(wire, ack)
      /\ k = [guest EXCEPT !.acked = guest.got] /\ UNCHANGED <<host, out, pending, used>>
  BY DEF GuestAcknowledges
<1>3. /\ k \in GuestType /\ k.got = guest.got /\ k.answered = guest.answered /\ k.parts = guest.parts
      /\ k.sent = guest.sent /\ k.acked = guest.got /\ k.outbox = guest.outbox /\ k.asked = guest.asked
  BY <1>1, <1>2 DEF GuestType
<1>4. /\ ack \in ToHost /\ ack.kind = "ack" /\ ack.number = guest.got % Wrap
  <2>1. guest.got % Wrap \in 0..(Wrap - 1)
    BY <1>1, RemainderType
  <2>2. QED
    BY <2>1 DEF ToHost, Acks
<1> HIDE DEF ack, k
<1>5. PICK w \in Seq(Nat) : Heard(End, guest, wire, w)
  BY DEF IInv, Linked
<1>6. Answers(k)
  BY <1>1, <1>3 DEF Answers
<1>7. Talks(End, k, Append(wire, ack))
  <2>1. Never(wire, "Send") => Never(Append(wire, ack), "Send")
    <3>1. ack.kind # "msg"
      BY <1>4
    <3>2. QED
      BY <1>1, <1>4, <3>1, NeverAppend
  <2>2. QED
    BY <1>1, <1>3, <2>1 DEF Talks
<1>8. Heard(End, k, Append(wire, ack), Append(w, guest.got))
  <2>1. guest.sent <= k.sent /\ guest.acked <= k.acked
    BY <1>1, <1>2, <1>3
  <2>2. /\ ack.kind = "msg" => End.host.received - 1 <= guest.got /\ guest.got = k.sent - 1
        /\ ack.kind = "ack" => End.host.acked <= guest.got /\ guest.got = k.acked
    BY <1>1, <1>3, <1>4
  <2>3. QED
    BY <1>1, <1>3, <1>4, <1>5, <2>1, <2>2, HeardAppend
<1>9. Append(w, guest.got) \in Seq(Nat) /\ Append(wire, ack) \in Seq(ToHost)
  BY <1>1, <1>4, AppendProperties
<1>10. /\ guest' \in GuestType /\ guest'.got = guest.got /\ guest'.answered = guest.answered
       /\ guest'.parts = guest.parts /\ Answers(guest') /\ wire' \in Seq(ToHost)
       /\ Talks(End, guest', wire') /\ Heard(End, guest', wire', Append(w, guest.got))
       /\ used' \in UsedType /\ used'.failures = used.failures
       /\ UNCHANGED <<host, out, pending>>
  BY <1>1, <1>2, <1>3, <1>6, <1>7, <1>8, <1>9 DEF k
<1>11. QED
  BY <1>9, <1>10, GuestChanges

LEMMA GuestSendsOk ==
  ASSUME IInv, GuestSends
  PROVE  IInv' /\ GuestSteps
<1> DEFINE frame == Message(guest.sent)
           k == guest'
<1>1. /\ End \in EndType /\ guest \in GuestType /\ wire \in Seq(ToHost) /\ used \in UsedType
      /\ Answers(guest) /\ Talks(End, guest, wire) /\ End.host.received <= guest.sent
      /\ End.host.received \in Nat /\ guest.sent \in Nat /\ guest.acked \in Nat
      /\ guest.answered \in Nat /\ guest.got \in Nat
  BY GuestKnows
<1>2. /\ guest.outbox # <<>> /\ guest.sent = guest.answered /\ wire' = Append(wire, frame)
      /\ k = [guest EXCEPT !.sent = guest.sent + 1] /\ UNCHANGED <<host, out, pending, used>>
  BY DEF GuestSends
<1>3. /\ k \in GuestType /\ k.got = guest.got /\ k.answered = guest.answered /\ k.parts = guest.parts
      /\ k.sent = guest.sent + 1 /\ k.acked = guest.acked /\ k.outbox = guest.outbox
      /\ k.asked = guest.asked
  <2>1. guest.sent + 1 \in Nat
    BY <1>1
  <2>2. QED
    BY <1>1, <1>2, <2>1 DEF GuestType
<1>4. /\ frame \in ToHost /\ frame.kind = "msg" /\ frame.number = guest.sent % Wrap
      /\ frame.cmd = guest.outbox[1] /\ 1 \in 1..Len(guest.outbox)
  BY <1>1, <1>2, MessageIs
<1> HIDE DEF frame, k
<1>5. PICK w \in Seq(Nat) : Heard(End, guest, wire, w)
  BY DEF IInv, Linked
<1>6. Answers(k)
  BY <1>1, <1>2, <1>3 DEF Answers
<1>7. Talks(End, k, Append(wire, frame))
  <2>1. Never(wire, "Send") /\ guest.outbox[1] # "Send" => Never(Append(wire, frame), "Send")
    BY <1>1, <1>4, NeverAppend
  <2>2. QED
    BY <1>1, <1>3, <1>4, <2>1 DEF Talks
<1>8. Heard(End, k, Append(wire, frame), Append(w, guest.sent))
  <2>1. guest.sent <= k.sent /\ guest.acked <= k.acked
    BY <1>1, <1>3
  <2>2. guest.sent = k.sent - 1
    BY <1>1, <1>3
  <2>3. End.host.received - 1 <= guest.sent
    BY <1>1
  <2>4. frame.kind # "ack"
    BY <1>4
  <2>5. QED
    BY <1>1, <1>3, <1>4, <1>5, <2>1, <2>2, <2>3, <2>4, HeardAppend
<1>9. Append(w, guest.sent) \in Seq(Nat) /\ Append(wire, frame) \in Seq(ToHost)
  BY <1>1, <1>4, AppendProperties
<1>10. /\ guest' \in GuestType /\ guest'.got = guest.got /\ guest'.answered = guest.answered
       /\ guest'.parts = guest.parts /\ Answers(guest') /\ wire' \in Seq(ToHost)
       /\ Talks(End, guest', wire') /\ Heard(End, guest', wire', Append(w, guest.sent))
       /\ used' \in UsedType /\ used'.failures = used.failures
       /\ UNCHANGED <<host, out, pending>>
  BY <1>1, <1>2, <1>3, <1>6, <1>7, <1>8, <1>9 DEF k
<1>11. QED
  BY <1>9, <1>10, GuestChanges

LEMMA GuestRepeatsOk ==
  ASSUME IInv, GuestRepeats
  PROVE  IInv' /\ GuestSteps
<1> DEFINE place == guest.sent - 1
           frame == Message(place)
<1>1. /\ End \in EndType /\ guest \in GuestType /\ wire \in Seq(ToHost) /\ used \in UsedType
      /\ Answers(guest) /\ Talks(End, guest, wire) /\ End.host.received <= guest.sent
      /\ End.host.received \in Nat /\ guest.sent \in Nat /\ guest.acked \in Nat
      /\ guest.answered \in Nat
  BY GuestKnows
<1>2. /\ guest.sent > guest.answered /\ used.repeats < MaxRepeats /\ wire' = Append(wire, frame)
      /\ used' = [used EXCEPT !.repeats = @ + 1] /\ UNCHANGED <<host, out, pending, guest>>
  BY DEF GuestRepeats
<1>3. place \in Nat /\ End.host.received - 1 <= place /\ place = guest.sent - 1
  BY <1>1, <1>2
<1>4. /\ frame \in ToHost /\ frame.kind = "msg" /\ frame.number = place % Wrap
      /\ frame.cmd = guest.outbox[1] /\ 1 \in 1..Len(guest.outbox)
  BY <1>1, <1>2, <1>3, MessageIs DEF Answers
<1> HIDE DEF frame, place
<1>5. PICK w \in Seq(Nat) : Heard(End, guest, wire, w)
  BY DEF IInv, Linked
<1>6. used' \in UsedType /\ used'.failures = used.failures
  <2>1. used.repeats \in 0..MaxRepeats /\ MaxRepeats \in Nat
    BY <1>1, LinkAssumption DEF UsedType
  <2>2. used.repeats + 1 \in 0..MaxRepeats
    BY <1>2, <2>1
  <2>3. QED
    BY <1>1, <1>2, <2>2 DEF UsedType
<1>7. Talks(End, guest, Append(wire, frame))
  <2>1. Never(wire, "Send") /\ guest.outbox[1] # "Send" => Never(Append(wire, frame), "Send")
    BY <1>1, <1>4, NeverAppend
  <2>2. QED
    BY <1>1, <1>4, <2>1 DEF Talks
<1>8. Heard(End, guest, Append(wire, frame), Append(w, place))
  <2>1. guest.sent <= guest.sent /\ guest.acked <= guest.acked
    BY <1>1
  <2>2. /\ frame.kind = "msg" => End.host.received - 1 <= place /\ place = guest.sent - 1
        /\ frame.kind = "ack" => End.host.acked <= place /\ place = guest.acked
    BY <1>3, <1>4
  <2>3. QED
    BY <1>1, <1>3, <1>4, <1>5, <2>1, <2>2, HeardAppend
<1>9. Append(w, place) \in Seq(Nat) /\ Append(wire, frame) \in Seq(ToHost)
  BY <1>1, <1>3, <1>4, AppendProperties
<1>10. /\ guest' \in GuestType /\ guest'.got = guest.got /\ guest'.answered = guest.answered
       /\ guest'.parts = guest.parts /\ Answers(guest') /\ wire' \in Seq(ToHost)
       /\ Talks(End, guest', wire') /\ Heard(End, guest', wire', Append(w, place))
       /\ UNCHANGED <<host, out, pending>>
  BY <1>1, <1>2, <1>7, <1>8, <1>9
<1>11. QED
  BY <1>6, <1>9, <1>10, GuestChanges

LEMMA GuestSpeaksOk ==
  ASSUME IInv, GuestSpeaks
  PROVE  IInv' /\ GuestSteps
<1> DEFINE k == guest'
<1>1. /\ End \in EndType /\ guest \in GuestType /\ wire \in Seq(ToHost) /\ used \in UsedType
      /\ Answers(guest) /\ Talks(End, guest, wire) /\ guest.outbox \in Seq(GuestCommands)
  BY GuestKnows
<1>2. PICK cmd \in Chatter : (cmd = "Send" => guest.asked)
                             /\ guest' = [guest EXCEPT !.outbox = Append(@, cmd)]
  BY DEF GuestSpeaks
<1>3. /\ used.chatter < MaxChatter /\ used' = [used EXCEPT !.chatter = @ + 1]
      /\ UNCHANGED <<host, out, pending, wire>>
  BY DEF GuestSpeaks
<1>4. cmd \in GuestCommands
  BY LinkAssumption DEF GuestCommands
<1>5. /\ Append(guest.outbox, cmd) \in Seq(GuestCommands) /\ Append(guest.outbox, cmd) # <<>>
      /\ Len(Append(guest.outbox, cmd)) = Len(guest.outbox) + 1 /\ Len(guest.outbox) \in Nat
      /\ \A i \in 1..Len(guest.outbox) : Append(guest.outbox, cmd)[i] = guest.outbox[i]
      /\ Append(guest.outbox, cmd)[Len(guest.outbox) + 1] = cmd
  BY <1>1, <1>4, AppendProperties, LenProperties
<1>6. /\ k \in GuestType /\ k.got = guest.got /\ k.answered = guest.answered /\ k.parts = guest.parts
      /\ k.sent = guest.sent /\ k.acked = guest.acked /\ k.asked = guest.asked
      /\ k.outbox = Append(guest.outbox, cmd)
  BY <1>1, <1>2, <1>5 DEF GuestType
<1> HIDE DEF k
<1>7. PICK w \in Seq(Nat) : Heard(End, guest, wire, w)
  BY DEF IInv, Linked
<1>8. Answers(k)
  BY <1>1, <1>5, <1>6 DEF Answers
<1>9. Talks(End, k, wire)
  <2>1. \A i \in 1..Len(k.outbox) : i \in 1..Len(guest.outbox) \/ i = Len(guest.outbox) + 1
    BY <1>5, <1>6
  <2>2. QED
    BY <1>1, <1>2, <1>5, <1>6, <2>1 DEF Talks
<1>10. Heard(End, k, wire, w)
  BY <1>6, <1>7 DEF Heard
<1>11. used' \in UsedType /\ used'.failures = used.failures
  <2>1. used.chatter + 1 \in 0..MaxChatter
    BY <1>1, <1>3, LinkAssumption, SMTT(30) DEF UsedType
  <2>2. QED
    BY <1>1, <1>3, <2>1 DEF UsedType
<1>12. /\ guest' \in GuestType /\ guest'.got = guest.got /\ guest'.answered = guest.answered
       /\ guest'.parts = guest.parts /\ Answers(guest') /\ wire' \in Seq(ToHost)
       /\ Talks(End, guest', wire') /\ Heard(End, guest', wire', w)
       /\ UNCHANGED <<host, out, pending>>
  BY <1>1, <1>3, <1>6, <1>8, <1>9, <1>10 DEF k
<1>13. QED
  BY <1>11, <1>12, GuestChanges

\* What a frame does to the guest's part of the invariant.
LEMMA AnswersTake ==
  ASSUME NEW g \in GuestType, Answers(g), NEW frame, NEW k \in GuestType,
         k.sent = g.sent, k.acked = g.acked,
         TakesAck(g, k, frame) \/ k = g \/ TakesMessage(g, k, frame)
  PROVE  Answers(k)
<1>1. /\ g.sent \in Nat /\ g.answered \in Nat /\ g.acked \in Nat /\ g.got \in Nat
      /\ g.outbox \in Seq(GuestCommands)
  BY DEF GuestType
<1>2. CASE TakesAck(g, k, frame)
  BY <1>1, <1>2 DEF TakesAck, Answers
<1>3. CASE k = g
  BY <1>3
<1>4. CASE TakesMessage(g, k, frame)
  <2>1. /\ k.got = g.got + 1 /\ k.answered = g.answered
        /\ k.outbox = g.outbox \/ k.outbox = Append(g.outbox, "Pong")
             \/ k.outbox = Append(g.outbox, "Send")
    BY <1>4 DEF TakesMessage
  <2>2. \A cmd \in GuestCommands : Append(g.outbox, cmd) # <<>>
    BY <1>1, AppendProperties
  <2>3. "Pong" \in GuestCommands /\ "Send" \in GuestCommands
    BY DEF GuestCommands
  <2>4. k.outbox = g.outbox \/ k.outbox # <<>>
    BY <2>1, <2>2, <2>3
  <2>5. QED
    BY <1>1, <2>1, <2>4 DEF Answers
<1>5. QED
  BY <1>2, <1>3, <1>4

LEMMA TalksTake ==
  ASSUME NEW e, NEW r, r.host = e.host, NEW frames, NEW g \in GuestType, Talks(e, g, frames),
         Answers(g), NEW frame, NEW k \in GuestType,
         TakesAck(g, k, frame) \/ k = g \/ TakesMessage(g, k, frame),
         e.host.state = "WAITING" /\ frame.kind = "msg" => frame.cmd # Single("SPkg")
  PROVE  Talks(r, k, frames)
<1> SUFFICES ASSUME e.host.state = "WAITING"
             PROVE  ~k.asked /\ \A i \in 1..Len(k.outbox) : k.outbox[i] # "Send"
  BY DEF Talks
<1>1. /\ ~g.asked /\ \A i \in 1..Len(g.outbox) : g.outbox[i] # "Send"
      /\ g.outbox \in Seq(GuestCommands)
  BY DEF Talks, GuestType
<1>2. CASE TakesAck(g, k, frame)
  <2>1. k.asked = g.asked /\ k.outbox = Tail(g.outbox) /\ g.outbox # <<>>
    BY <1>2 DEF TakesAck, Answers
  <2>2. /\ Len(Tail(g.outbox)) = Len(g.outbox) - 1 /\ Len(g.outbox) \in Nat
        /\ \A i \in 1..Len(Tail(g.outbox)) : Tail(g.outbox)[i] = g.outbox[i + 1]
    BY <1>1, <2>1, HeadTailProperties, LenProperties
  <2>3. \A i \in 1..Len(Tail(g.outbox)) : i + 1 \in 1..Len(g.outbox)
    BY <2>2
  <2>4. QED
    BY <1>1, <2>1, <2>2, <2>3
<1>3. CASE k = g
  BY <1>1, <1>3
<1>4. CASE TakesMessage(g, k, frame)
  <2>1. k.asked = g.asked /\ (k.outbox = g.outbox \/ k.outbox = Append(g.outbox, "Pong"))
    BY <1>4 DEF TakesMessage
  <2>2. /\ Len(Append(g.outbox, "Pong")) = Len(g.outbox) + 1 /\ Len(g.outbox) \in Nat
        /\ \A i \in 1..Len(g.outbox) : Append(g.outbox, "Pong")[i] = g.outbox[i]
        /\ Append(g.outbox, "Pong")[Len(g.outbox) + 1] = "Pong"
    <3>1. "Pong" \in GuestCommands
      BY DEF GuestCommands
    <3>2. QED
      BY <1>1, <3>1, AppendProperties, LenProperties
  <2>3. \A i \in 1..Len(Append(g.outbox, "Pong")) : i \in 1..Len(g.outbox) \/ i = Len(g.outbox) + 1
    BY <2>2
  <2>4. \A i \in 1..Len(Append(g.outbox, "Pong")) : Append(g.outbox, "Pong")[i] # "Send"
    BY <1>1, <2>2, <2>3
  <2>5. QED
    BY <1>1, <2>1, <2>4
<1>5. QED
  BY <1>2, <1>3, <1>4

\* What a frame does to the numbers and to the package.
LEMMA NeatTake ==
  ASSUME NEW e \in EndType, NEW g \in GuestType, Answers(g), e.host.received <= g.sent,
         NEW base \in Nat, NEW count \in Nat, NEW failures \in Nat, failures <= MaxFailures,
         Neat(e, base, count, g, failures), Offer(e.host, base, count, failures),
         FewFailures => Delivered(g, base, count),
         NEW r, Sent(e, r), NEW k \in GuestType,
         \/ TakesAck(g, k, Head(e.out))
         \/ k = g
         \/ TakesMessage(g, k, Head(e.out))
  PROVE  /\ Neat(r, base, count, k, failures)
         /\ FewFailures =>
              /\ Delivered(k, base, count)
              /\ \/ k.parts = g.parts
                 \/ /\ count # 0 /\ Len(g.parts) < PackageParts
                    /\ k.parts = Append(g.parts, Len(g.parts) + 1)
<1>1. PICK o \in Seq(Nat) : Sound(e, o, g)
  BY DEF Neat
<1>2. Sound(r, Tail(o), k)
  BY <1>1, SoundTake
<1>3. Tail(o) \in Seq(Nat)
  BY <1>2 DEF Sound
<1>4. r \in EndType /\ Head(e.out) \in ToGuest
  <2>1. e.out \in Seq(ToGuest) /\ e.out # <<>> /\ r \in EndType
    BY DEF Sent, EndType
  <2>2. Head(e.out) \in ToGuest
    BY <2>1, HeadTailProperties
  <2>3. QED
    BY <2>1, <2>2
<1>5. ASSUME FewFailures
      PROVE  /\ \E n, p \in Seq(Nat) : Parcel(r, n, p, base, count, k, failures)
             /\ Delivered(k, base, count)
             /\ \/ k.parts = g.parts
                \/ /\ count # 0 /\ Len(g.parts) < PackageParts
                   /\ k.parts = Append(g.parts, Len(g.parts) + 1)
  <2>1. PICK n, p \in Seq(Nat) : Parcel(e, n, p, base, count, g, failures)
    BY <1>5 DEF Neat
  <2>2. WindowRoom(e) /\ e.host.acked <= g.got
    BY <1>1 DEF Sound
  <2>3. /\ Parcel(r, Tail(n), p, base, count, k, failures)
        /\ TakesMessage(g, k, Head(e.out)) =>
             IF g.got \in base..(base + count - 1)
             THEN Head(e.out).cmd = Part(g.got - base + 1)
             ELSE Head(e.out).cmd[1] # "part"
    BY <1>5, <2>1, <2>2, ParcelTake
  <2>4. Tail(n) \in Seq(Nat)
    BY <2>3 DEF Parcel, Counted
  <2>5. CASE TakesMessage(g, k, Head(e.out))
    <3>1. count <= PackageParts /\ Delivered(g, base, count)
      BY <1>5 DEF Offer
    <3> DEFINE frame == Head(e.out)
    <3>2. /\ TakesMessage(g, k, frame) /\ frame \in ToGuest
          /\ IF g.got \in base..(base + count - 1)
             THEN frame.cmd = Part(g.got - base + 1) ELSE frame.cmd[1] # "part"
      BY <1>4, <2>3, <2>5
    <3> HIDE DEF frame
    <3>3. /\ Delivered(k, base, count)
          /\ \/ k.parts = g.parts
             \/ /\ count # 0 /\ Len(g.parts) < PackageParts
                /\ k.parts = Append(g.parts, Len(g.parts) + 1)
      BY <3>1, <3>2, DeliveredTake
    <3>4. QED
      BY <2>3, <2>4, <3>3
  <2>6. CASE TakesAck(g, k, Head(e.out)) \/ k = g
    <3>1. k.got = g.got /\ k.parts = g.parts
      BY <2>6 DEF TakesAck
    <3>2. Delivered(k, base, count)
      BY <1>5, <3>1 DEF Delivered
    <3>3. QED
      BY <2>3, <2>4, <3>1, <3>2
  <2>7. QED
    BY <2>5, <2>6
<1>6. QED
  BY <1>2, <1>3, <1>4, <1>5 DEF Neat

LEMMA HostSendsOk ==
  ASSUME IInv, HostSends
  PROVE  IInv' /\ GuestSteps
<1> DEFINE e == End
           r == End'
           k == guest'
           frame == Head(e.out)
           failures == used.failures
<1>1. /\ e \in EndType /\ guest \in GuestType /\ wire \in Seq(ToHost) /\ used \in UsedType
      /\ failures \in Nat /\ failures <= MaxFailures /\ Linked(e, guest, wire, failures)
  BY LinkAssumption DEF IInv, UsedType
<1>2. /\ e.out # <<>> /\ out' = Tail(e.out) /\ k = GuestTakes(guest, frame)
      /\ UNCHANGED <<host, pending, wire, used>>
  BY EndIs DEF HostSends
<1>3. /\ e.out \in Seq(ToGuest) /\ frame = e.out[1] /\ frame \in ToGuest /\ 1 \in 1..Len(e.out)
  <2>1. e.out \in Seq(ToGuest)
    BY <1>1 DEF EndType
  <2>2. QED
    BY <1>2, <2>1, HeadTailProperties, EmptySeq, LenProperties
<1>4. r.host = e.host /\ r.pending = e.pending /\ r.out = Tail(e.out) /\ r \in EndType
  <2>1. /\ End' = [host |-> host', out |-> out', pending |-> pending']
        /\ End = [host |-> host, out |-> out, pending |-> pending]
    BY DEF End
  <2>2. Tail(e.out) \in Seq(ToGuest)
    BY <1>2, <1>3, HeadTailProperties
  <2>3. e.host \in HostType /\ e.pending \in Seq(Messages(HostCommands))
    BY <1>1 DEF EndType
  <2>4. r = [host |-> e.host, out |-> Tail(e.out), pending |-> e.pending]
    BY <1>2, <2>1
  <2> HIDE DEF r, e
  <2>5. QED
    BY <2>2, <2>3, <2>4 DEF EndType
<1>5. Sent(e, r)
  BY <1>2, <1>4 DEF Sent
<1>6. host' = host /\ e.host = host
  BY <1>2, EndIs
<1>7. /\ e.host.state # "FAILED" => Held(e)
      /\ Waits(e) /\ Answers(guest) /\ Talks(e, guest, wire)
  BY <1>1 DEF Linked
<1>8. PICK w \in Seq(Nat) : Heard(e, guest, wire, w)
  BY <1>1 DEF Linked
<1>9. PICK base \in Nat, count \in Nat :
        /\ Neat(e, base, count, guest, failures) /\ Offer(e.host, base, count, failures)
        /\ FewFailures => Delivered(guest, base, count)
  BY <1>1 DEF Linked
<1> HIDE DEF e, r, k, failures
<1>10. /\ k \in GuestType /\ k.sent = guest.sent /\ k.acked = guest.acked
       /\ TakesAck(guest, k, frame) \/ k = guest \/ TakesMessage(guest, k, frame)
  BY <1>1, <1>2, <1>3, <1>7, GuestTakesIs
<1>11. (e.host.state # "FAILED" => Held(r)) /\ Waits(r)
  <2>1. Never(e.out, Single("SPkg")) => Never(r.out, Single("SPkg"))
    BY <1>2, <1>3, <1>4, NeverTail
  <2>2. QED
    BY <1>4, <1>7, <2>1 DEF Held, Waits
<1>12. Answers(k)
  BY <1>1, <1>7, <1>10, AnswersTake
<1>13. Talks(r, k, wire)
  <2>1. e.host.state = "WAITING" /\ frame.kind = "msg" => frame.cmd # Single("SPkg")
    BY <1>3, <1>7 DEF Waits, Never
  <2> HIDE DEF frame
  <2>2. QED
    BY <1>1, <1>4, <1>7, <1>10, <2>1, TalksTake
<1>14. Heard(r, k, wire, w)
  BY <1>4, <1>8, <1>10 DEF Heard
<1>15. /\ Neat(r, base, count, k, failures)
       /\ FewFailures =>
            /\ Delivered(k, base, count)
            /\ \/ k.parts = guest.parts
               \/ /\ count # 0 /\ Len(guest.parts) < PackageParts
                  /\ k.parts = Append(guest.parts, Len(guest.parts) + 1)
  <2>1. e.host.received <= guest.sent
    BY <1>8 DEF Heard
  <2>2. QED
    BY <1>1, <1>5, <1>7, <1>9, <1>10, <2>1, NeatTake
<1>16. Linked(r, k, wire, failures)
  BY <1>4, <1>9, <1>11, <1>12, <1>13, <1>14, <1>15 DEF Linked
<1>17. IInv'
  <2>1. Linked(End', guest', wire', used'.failures)
    BY <1>2, <1>16 DEF r, k, failures
  <2>2. QED
    BY <1>1, <1>2, <1>4, <1>10, <2>1 DEF IInv, r, k
<1>18. GuestSteps
  <2>1. count # 0 => host.state # "WAITING"
    BY <1>6, <1>7, <1>9 DEF Offer, Waits
  <2>2. QED
    BY <1>2, <1>6, <1>15, <2>1 DEF GuestSteps, k
<1>19. QED
  BY <1>17, <1>18

-----------------------------------------------------------------------------
LEMMA NextIInv == IInv /\ [Next]_vars => IInv' /\ (HostSteps \/ GuestSteps)
<1> SUFFICES ASSUME IInv, [Next]_vars
             PROVE  IInv' /\ (HostSteps \/ GuestSteps)
  OBVIOUS
<1>1. CASE HostTakesAck
  BY <1>1, HostTakesAckOk
<1>2. CASE HostTakesMessage
  BY <1>2, HostTakesMessageOk
<1>3. CASE HostIgnores
  BY <1>3, HostIgnoresOk
<1>4. CASE FrameDamaged
  BY <1>4, FrameDamagedOk
<1>5. CASE HostPings
  BY <1>5, HostPingsOk
<1>6. CASE HostSends
  BY <1>6, HostSendsOk
<1>7. CASE GuestAcknowledges
  BY <1>7, GuestAcknowledgesOk
<1>8. CASE GuestSends
  BY <1>8, GuestSendsOk
<1>9. CASE GuestRepeats
  BY <1>9, GuestRepeatsOk
<1>10. CASE GuestSpeaks
  BY <1>10, GuestSpeaksOk
<1>11. CASE UNCHANGED vars
  <2>1. /\ host' = host /\ guest' = guest /\ used' = used /\ wire' = wire /\ End' = End
    BY <1>11 DEF vars, End
  <2>2. IInv'
    BY <2>1 DEF IInv
  <2>3. GuestSteps
    BY <2>1 DEF GuestSteps
  <2>4. QED
    BY <2>2, <2>3
<1>12. QED
  BY <1>1, <1>2, <1>3, <1>4, <1>5, <1>6, <1>7, <1>8, <1>9, <1>10, <1>11 DEF Next, HostTakes

LEMMA Invariant == Spec => []IInv
<1>1. IInv /\ [Next]_vars => IInv'
  BY NextIInv
<1>2. QED
  BY <1>1, InitIInv, PTL DEF Spec

-----------------------------------------------------------------------------
LEMMA WindowFollows == IInv => WindowOK
<1> SUFFICES ASSUME IInv PROVE WindowOK
  OBVIOUS
<1>1. /\ End \in EndType /\ guest \in GuestType /\ wire \in Seq(ToHost) /\ used \in UsedType
      /\ Linked(End, guest, wire, used.failures)
  BY DEF IInv
<1>2. /\ host \in HostType /\ out \in Seq(ToGuest) /\ pending \in Seq(Messages(HostCommands))
  BY <1>1, EndIs DEF EndType
<1>3. TypeOK
  BY <1>1, <1>2 DEF TypeOK, ToGuest, ToHost, UsedType
<1>4. WindowRoom(End) /\ (host.state # "FAILED" => Held(End))
  <2>1. \E base, count \in Nat : Neat(End, base, count, guest, used.failures)
    BY <1>1 DEF Linked
  <2>2. QED
    BY <1>1, <2>1, EndIs DEF Linked, Neat, Sound
<1>5. WindowKept
  <2>1. /\ host.sent <= host.acked + host.window
        /\ host.state # "FAILED" => (pending # <<>> => host.sent = host.acked + host.window)
    BY <1>4, EndIs DEF WindowRoom, Held
  <2>2. host.sent \in Nat /\ host.acked \in Nat /\ host.window \in Nat
    BY <1>2, Moduli DEF HostType
  <2>3. QED
    BY <2>1, <2>2 DEF WindowKept
<1>6. QED
  BY <1>3, <1>5 DEF WindowOK

LEMMA TakenFollows == IInv => AckedWasTaken
<1> SUFFICES ASSUME IInv PROVE AckedWasTaken
  OBVIOUS
<1>1. /\ End \in EndType /\ guest \in GuestType /\ Linked(End, guest, wire, used.failures)
  BY DEF IInv
<1>2. PICK base \in Nat, count \in Nat : Neat(End, base, count, guest, used.failures)
  BY <1>1 DEF Linked
<1>3. PICK o \in Seq(Nat) : Sound(End, o, guest)
  BY <1>2 DEF Neat
<1>4. PICK w \in Seq(Nat) : Heard(End, guest, wire, w)
  BY <1>1 DEF Linked
<1>5. /\ host.acked <= guest.got /\ guest.got <= host.sent
      /\ host.sent + Len(pending) <= host.block /\ guest.answered <= host.received
      /\ host.received <= guest.sent
  BY <1>3, <1>4, EndIs DEF Sound, Heard
<1>6. /\ guest.got \in Nat /\ host.sent \in Nat /\ Len(pending) \in Nat /\ host.block \in Nat
  BY <1>1, EndIs, LenProperties DEF EndType, HostType, GuestType
<1>7. guest.got <= host.block
  BY <1>5, <1>6
<1>8. QED
  BY <1>5, <1>7 DEF AckedWasTaken

\* A package acknowledged to its end was delivered.
LEMMA AllDelivered ==
  ASSUME IInv, FewFailures, used.failures = 0, host.packageAcked
  PROVE  Len(guest.parts) = PackageParts
<1>1. /\ End \in EndType /\ guest \in GuestType /\ Linked(End, guest, wire, used.failures)
  BY DEF IInv
<1>2. PICK base \in Nat, count \in Nat :
        /\ Neat(End, base, count, guest, used.failures)
        /\ Offer(End.host, base, count, used.failures)
        /\ FewFailures => Delivered(guest, base, count)
  BY <1>1 DEF Linked
<1>3. base + count <= host.acked /\ count = PackageParts
  BY <1>2, EndIs DEF Offer
<1>4. host.acked <= guest.got
  BY <1>2, EndIs DEF Neat, Sound
<1>5. Len(guest.parts) = IF guest.got <= base THEN 0
                         ELSE IF guest.got - base < count THEN guest.got - base ELSE count
  BY <1>2 DEF Delivered, Least
<1>6. host.acked \in Nat /\ guest.got \in Nat /\ PackageParts \in Nat /\ PackageParts > 0
  BY <1>1, EndIs, LinkAssumption DEF EndType, HostType, GuestType
<1>7. QED
  BY <1>3, <1>4, <1>5, <1>6

\* What PackageTransfer sees of the state.
Shows == IF used.failures > 0 THEN "FAILED" ELSE host.state

LEMMA InitTransfer == Init => Transfer!Init
<1> SUFFICES ASSUME Init PROVE Transfer!Init
  OBVIOUS
<1>1. used.failures = 0 /\ guest.parts = <<>>
  BY DEF Init
<1>2. host.state = "WAITING"
  BY DEF Init
<1>3. QED
  BY <1>1, <1>2 DEF Transfer!Init

LEMMA NextTransfer ==
  ASSUME IInv, FewFailures, HostSteps \/ GuestSteps, used' \in UsedType
  PROVE  Transfer!Next \/ (Shows' = Shows /\ guest'.parts = guest.parts)
<1>1. used.failures \in Nat /\ used'.failures \in Nat
  BY LinkAssumption DEF IInv, UsedType
<1>2. Shows = (IF used.failures > 0 THEN "FAILED" ELSE host.state)
      /\ Shows' = (IF used'.failures > 0 THEN "FAILED" ELSE host'.state)
  BY DEF Shows
<1>3. CASE HostSteps
  <2>1. /\ guest'.parts = guest.parts /\ used.failures <= used'.failures
        /\ used'.failures = 0 => Moves(host, host')
    BY <1>3 DEF HostSteps
  <2>2. CASE used.failures > 0
    <3>1. used'.failures > 0
      BY <1>1, <2>1, <2>2
    <3>2. QED
      BY <1>2, <2>1, <2>2, <3>1
  <2>3. CASE used.failures = 0 /\ used'.failures > 0
    <3>1. Shows = host.state /\ Shows' = "FAILED"
      BY <1>2, <2>3
    <3>2. CASE host.state = "FAILED"
      BY <2>1, <3>1, <3>2
    <3>3. CASE host.state # "FAILED"
      <4>1. Transfer!Fail
        BY <2>1, <3>1, <3>3 DEF Transfer!Fail, Shows
      <4>2. QED
        BY <4>1 DEF Transfer!Next
    <3>4. QED
      BY <3>2, <3>3
  <2>4. CASE used'.failures = 0
    <3>1. used.failures = 0 /\ Shows = host.state /\ Shows' = host'.state
      BY <1>1, <1>2, <2>1, <2>4
    <3>2. CASE host'.state = host.state
      BY <2>1, <3>1, <3>2
    <3>3. CASE host.state = "WAITING" /\ host'.state = "SENDING"
      <4>1. Transfer!Link
        BY <2>1, <3>1, <3>3 DEF Transfer!Link, Shows
      <4>2. QED
        BY <4>1 DEF Transfer!Next
    <3>4. CASE host.state = "SENDING" /\ host.packageAcked /\ host'.state = "DONE"
      <4>1. Len(guest.parts) = PackageParts
        BY <3>1, <3>4, AllDelivered
      <4>2. Transfer!Finish
        BY <2>1, <3>1, <3>4, <4>1 DEF Transfer!Finish, Shows
      <4>3. QED
        BY <4>2 DEF Transfer!Next
    <3>5. CASE host.state # "FAILED" /\ host'.state = "FAILED"
      <4>1. Transfer!Fail
        BY <2>1, <3>1, <3>5 DEF Transfer!Fail, Shows
      <4>2. QED
        BY <4>1 DEF Transfer!Next
    <3>6. QED
      BY <2>1, <2>4, <3>2, <3>3, <3>4, <3>5 DEF Moves
  <2>5. QED
    BY <1>1, <2>2, <2>3, <2>4
<1>4. CASE GuestSteps
  <2>1. /\ host' = host /\ used'.failures = used.failures
        /\ \/ guest'.parts = guest.parts
           \/ /\ used.failures > 0 \/ host.state # "WAITING"
              /\ Len(guest.parts) < PackageParts
              /\ guest'.parts = Append(guest.parts, Len(guest.parts) + 1)
    BY <1>4 DEF GuestSteps
  <2>2. Shows' = Shows
    BY <1>2, <2>1
  <2>3. CASE guest'.parts = guest.parts
    BY <2>2, <2>3
  <2>4. CASE /\ used.failures > 0 \/ host.state # "WAITING"
             /\ Len(guest.parts) < PackageParts
             /\ guest'.parts = Append(guest.parts, Len(guest.parts) + 1)
    <3>1. Shows # "WAITING"
      BY <1>2, <2>4
    <3>2. Transfer!Deliver
      BY <2>2, <2>4, <3>1 DEF Transfer!Deliver, Shows
    <3>3. QED
      BY <3>2 DEF Transfer!Next
  <2>5. QED
    BY <2>1, <2>3, <2>4
<1>5. QED
  BY <1>3, <1>4

-----------------------------------------------------------------------------
\* The send window is kept and not jumped, whatever the length of the package
\* and the modulus of the numbers, and however often memory runs out: at most
\* a window of messages is on its way, and none is held back with room in it.
THEOREM WindowAlwaysKept == Spec => []WindowOK
BY Invariant, WindowFollows, PTL

\* Across the wrap of the numbers neither end of the link counts a message as
\* acknowledged that the other has not taken (ppp_acked, ppp_frame_received).
THEOREM AcknowledgedWasTaken == Spec => []AckedWasTaken
BY Invariant, TakenFollows, PTL

\* Every step of the link is a step of PackageTransfer or one it does not see,
\* as long as the numbers lost without a word do not add up to a turn of the
\* modulus: then a guest could take a message of the turn before.
THEOREM LinkImplements == FewFailures => (Spec => Implements)
<1> SUFFICES ASSUME FewFailures PROVE Spec => Implements
  OBVIOUS
<1>1. Init => Transfer!Init
  BY InitTransfer
<1>2. IInv /\ [Next]_vars => [Transfer!Next]_<<Shows, guest.parts>>
  <2> SUFFICES ASSUME IInv, [Next]_vars
               PROVE  Transfer!Next \/ (Shows' = Shows /\ guest'.parts = guest.parts)
    OBVIOUS
  <2>1. IInv' /\ (HostSteps \/ GuestSteps)
    BY NextIInv
  <2>2. used' \in UsedType
    BY <2>1 DEF IInv
  <2>3. QED
    BY <2>1, <2>2, NextTransfer
<1>3. Implements <=> Transfer!Init /\ [][Transfer!Next]_<<Shows, guest.parts>>
  BY DEF Implements, Transfer!Spec, Shows
<1>4. QED
  BY <1>1, <1>2, <1>3, Invariant, PTL DEF Spec
=============================================================================
