--------------------------- MODULE PenQueue_proofs ---------------------------
(***************************************************************************)
(* The pen queue keeps its order and the guest sees every contact whole,   *)
(* for any points, step, sample and hold, any lag of the guest and any     *)
(* length of the queue.                                                    *)
(***************************************************************************)
EXTENDS PenQueue, SequenceTheorems, TLAPS

\* What may stand behind event a: no motion behind a motion, a press behind a
\* release only, and a release where the pen was sent before it.
Behind(a, b) ==
  /\ ~(Motion(a) /\ Motion(b))
  /\ b.press <=> ~a.down
  /\ ~b.down => b.x = a.x

Ordered(q) ==
  \A i \in 2..Len(q) : /\ i > 2 => q[i - 1].in <= q[i].in
                       /\ Behind(q[i - 1], q[i])

\* The tail is where the mouse is, and the head starts where the pen is.
Ends(q, m, p) ==
  IF q = <<>> THEN (m.down <=> p.down) /\ (m.down => m.x = p.x)
  ELSE /\ (m.down <=> q[Len(q)].down) /\ m.x = q[Len(q)].x
       /\ (p.down <=> ~q[1].press) /\ (~q[1].down => q[1].x = p.x)

\* While the pen is down the queue knows where, and believes the contact to be
\* no older than it is.
Knows(c, p, s) ==
  p.down => /\ c.down /\ c.x = p.x
            /\ s.edge + c.left >= MinHold
            /\ s.point >= c.since

IInv == TypeOK /\ Ordered(queue) /\ Ends(queue, mouse, pen) /\ Knows(contact, pen, seen)

-----------------------------------------------------------------------------
\* Numbers.

LEMMA MaxOfTwo ==
  ASSUME NEW a \in Int, NEW b \in Int
  PROVE  Max({a, b}) = IF a >= b THEN a ELSE b
<1>1. \E x \in {a, b} : \A y \in {a, b} : x >= y
  OBVIOUS
<1>2. Max({a, b}) \in {a, b} /\ \A y \in {a, b} : Max({a, b}) >= y
  BY <1>1 DEF Max
<1>3. QED
  BY <1>2

LEMMA MinOfTwo ==
  ASSUME NEW a \in Int, NEW b \in Int
  PROVE  Min({a, b}) = IF a <= b THEN a ELSE b
<1>1. \E x \in {a, b} : \A y \in {a, b} : x <= y
  OBVIOUS
<1>2. Min({a, b}) \in {a, b} /\ \A y \in {a, b} : Min({a, b}) <= y
  BY <1>1 DEF Min
<1>3. QED
  BY <1>2

LEMMA LargestOfPair ==
  ASSUME NEW a \in Int, NEW b \in Int, NEW T, T \subseteq {a, b}, T # {}
  PROVE  \E x \in T : \A y \in T : x >= y
<1>1. a \in T \/ b \in T
  OBVIOUS
<1>2. \A y \in T : y = a \/ y = b
  OBVIOUS
<1>3. CASE a \in T /\ b \in T
  <2>1. a >= b \/ b >= a
    OBVIOUS
  <2>2. a >= a /\ b >= b
    OBVIOUS
  <2>3. QED
    BY <1>2, <1>3, <2>1, <2>2
<1>4. CASE a \notin T
  BY <1>1, <1>2, <1>4
<1>5. CASE b \notin T
  BY <1>1, <1>2, <1>5
<1>6. QED
  BY <1>3, <1>4, <1>5

LEMMA MaxOfFour ==
  ASSUME NEW a \in Int, NEW b \in Int, NEW c \in Int, NEW d \in Int,
         NEW S, S \subseteq {a, b, c, d}, S # {}
  PROVE  Max(S) \in S /\ \A y \in S : y <= Max(S)
<1>1. S \subseteq Int
  OBVIOUS
<1>2. \E x \in S : \A y \in S : x >= y
  <2>1. \A T : T \subseteq {a, b} /\ T # {} => \E x \in T : \A y \in T : x >= y
    BY LargestOfPair
  <2>2. \A T : T \subseteq {c, d} /\ T # {} => \E x \in T : \A y \in T : x >= y
    BY LargestOfPair
  <2> DEFINE T == S \cap {a, b}
             U == S \cap {c, d}
  <2>3. /\ S = T \cup U
        /\ T # {} => \E x \in T : \A y \in T : x >= y
        /\ U # {} => \E x \in U : \A y \in U : x >= y
    BY <2>1, <2>2
  <2>4. T \subseteq Int /\ U \subseteq Int /\ (T # {} \/ U # {})
    BY <1>1, <2>3
  <2> HIDE DEF T, U
  <2>5. CASE T = {}
    BY <2>3, <2>4, <2>5
  <2>6. CASE U = {}
    BY <2>3, <2>4, <2>6
  <2>7. CASE T # {} /\ U # {}
    <3>1. PICK x \in T : \A y \in T : x >= y
      BY <2>3, <2>7
    <3>2. PICK z \in U : \A y \in U : z >= y
      BY <2>3, <2>7
    <3>3. x >= z \/ z >= x
      BY <2>4
    <3>4. \A y \in S : IF x >= z THEN x >= y ELSE z >= y
      BY <2>3, <2>4, <3>1, <3>2, <3>3
    <3>5. QED
      BY <2>3, <3>4
  <2>8. QED
    BY <2>5, <2>6, <2>7
<1>3. Max(S) \in S /\ \A y \in S : Max(S) >= y
  BY <1>2 DEF Max
<1>4. QED
  BY <1>1, <1>3

LEMMA Constants ==
  /\ Step \in Nat /\ Sample \in Nat /\ MinHold \in Nat
  /\ Step > 0 /\ Sample > 0 /\ MinHold > 0 /\ Points \subseteq Nat /\ Points # {}
  /\ Gaps \subseteq Nat /\ Max(Gaps) \in Nat
<1>1. /\ Step \in Nat /\ Sample \in Nat /\ MinHold \in Nat
      /\ Step > 0 /\ Sample > 0 /\ MinHold > 0 /\ Points \subseteq Nat /\ Points # {}
  BY PenAssumption
<1>2. Gaps \subseteq Nat /\ \E top \in Gaps : \A gap \in Gaps : top >= gap
  BY PenAssumption
<1>3. Max(Gaps) \in Gaps
  BY <1>2 DEF Max
<1>4. QED
  BY <1>1, <1>2, <1>3

LEMMA CountsDown ==
  ASSUME NEW n \in Nat
  PROVE  Minus1(n) = IF n = 0 THEN 0 ELSE n - 1
BY MaxOfTwo DEF Minus1

LEMMA CountsUp ==
  ASSUME NEW n \in Nat, NEW top \in Nat
  PROVE  Plus1(n, top) = IF n + 1 <= top THEN n + 1 ELSE top
BY MinOfTwo DEF Plus1

-----------------------------------------------------------------------------
\* A host's event enters the queue.

LEMMA StampIsNear ==
  ASSUME TypeOK, NEW press \in BOOLEAN, NEW gap \in Gaps
  PROVE  Stamped(press, gap) \in Nat
<1>1. /\ Sample \in Nat /\ lastSlot + gap \in Int
  BY Constants DEF TypeOK
<1>2. /\ Max({lastSlot + gap, 0}) = IF lastSlot + gap >= 0 THEN lastSlot + gap ELSE 0
  BY <1>1, MaxOfTwo
<1>3. Max({lastSlot + gap, 0}) \in Nat
  BY <1>1, <1>2
<1>4. Min({Max({lastSlot + gap, 0}), Sample}) \in Nat
  <2>1. \A m \in Nat : Min({m, Sample}) \in Nat
    BY <1>1, MinOfTwo
  <2>2. QED
    BY <1>3, <2>1
<1>5. QED
  BY <1>4 DEF Stamped

\* The deadline of an event is not before the tail's, nor in the past.
LEMMA DeadlineIsLast ==
  ASSUME TypeOK, NEW press \in BOOLEAN, NEW down \in BOOLEAN, NEW gap \in Gaps
  PROVE  /\ Deadline(press, down, gap) \in Nat
         /\ queue # <<>> => queue[Len(queue)].in <= Deadline(press, down, gap)
<1> DEFINE stamp == Stamped(press, gap)
           tails == {queue[i] : i \in {Len(queue)} \ {0}}
           seeFirst == {t \in tails : IF down THEN ~press /\ t.press ELSE Motion(t)}
           floors == {stamp}
                       \cup {t.in : t \in tails}
                       \cup {t.in + Sample : t \in seeFirst}
                       \cup (IF down THEN {} ELSE {hold})
<1>1. stamp \in Nat /\ hold \in Nat /\ Sample \in Nat /\ Len(queue) \in Nat
  BY StampIsNear, Constants, LenProperties DEF TypeOK
<1>2. Deadline(press, down, gap) = Max(floors)
  BY DEF Deadline
<1>3. CASE queue = <<>>
  <2>1. Len(queue) = 0
    BY <1>3
  <2>2. tails = {}
    BY <2>1
  <2>3. floors \subseteq {stamp, hold, stamp, hold} /\ floors # {} /\ stamp \in floors
    BY <2>2
  <2> HIDE DEF floors, stamp
  <2>4. Max(floors) \in floors /\ \A y \in floors : y <= Max(floors)
    <3>1. stamp \in Int /\ hold \in Int
      BY <1>1
    <3>2. QED
      BY <2>3, <3>1, MaxOfFour
  <2>5. QED
    BY <1>1, <1>2, <1>3, <2>3, <2>4
<1>4. CASE queue # <<>>
  <2> DEFINE last == queue[Len(queue)]
  <2>1. Len(queue) \in 1..Len(queue) /\ last \in Event
    BY <1>1, <1>4, EmptySeq, LenProperties, ElementOfSeq DEF TypeOK
  <2>2. last.in \in Int
    BY <2>1 DEF Event
  <2>3. tails = {last}
    BY <1>1, <2>1
  <2> HIDE DEF last
  <2>4. /\ floors \subseteq {stamp, last.in, last.in + Sample, hold}
        /\ stamp \in floors /\ last.in \in floors
    BY <2>3
  <2> HIDE DEF floors, stamp
  <2>5. last.in + Sample \in Int /\ stamp \in Int /\ hold \in Int
    BY <1>1, <2>2
  <2>6. Max(floors) \in floors /\ \A y \in floors : y <= Max(floors)
    BY <2>2, <2>4, <2>5, MaxOfFour
  <2>7. Max(floors) \in Int /\ stamp <= Max(floors) /\ last.in <= Max(floors)
    BY <2>2, <2>4, <2>5, <2>6
  <2>8. Max(floors) \in Nat
    BY <1>1, <2>7
  <2>9. QED
    BY <1>2, <2>7, <2>8 DEF last
<1>5. QED
  BY <1>3, <1>4

\* Either a motion takes the place of the motion at the tail, or the event is
\* behind the tail and not earlier.
Placed(q, r, e) ==
  \/ /\ r = Append(q, e)
     /\ q # <<>> => q[Len(q)].in <= e.in /\ ~(Motion(q[Len(q)]) /\ Motion(e))
  \/ /\ q # <<>> /\ Motion(q[Len(q)]) /\ Motion(e)
     /\ q[Len(q)].in <= e.in
     /\ r = Append(Front(q), e)

LEMMA EnqueueIs ==
  ASSUME TypeOK, NEW press \in BOOLEAN, NEW down \in BOOLEAN, NEW x \in Nat,
         NEW gap \in Gaps, Enqueue(press, down, x, gap)
  PROVE  /\ \E e \in Event : /\ e.x = x /\ (e.down <=> down) /\ (e.press <=> press)
                             /\ Placed(queue, queue', e)
         /\ lastSlot' \in Int /\ hold' \in Nat /\ started' \in BOOLEAN
<1> DEFINE at == Deadline(press, down, gap)
           last == queue[Len(queue)]
           merges == queue # <<>> /\ down /\ ~press /\ Motion(last)
           late == IF merges THEN Max({last.in, 0}) ELSE at
           event == [in |-> late, x |-> x, down |-> down, press |-> press]
<1>1. at \in Nat /\ (queue # <<>> => last.in <= at) /\ MinHold \in Nat /\ hold \in Nat
  BY DeadlineIsLast, Constants DEF TypeOK
<1>2. queue # <<>> => last.in \in Int
  <2>1. SUFFICES ASSUME queue # <<>> PROVE last \in Event
    BY DEF Event
  <2>2. QED
    BY <2>1, EmptySeq, LenProperties, ElementOfSeq DEF TypeOK
<1>3. /\ queue' = Append(IF merges THEN Front(queue) ELSE queue, event)
      /\ lastSlot' = event.in
      /\ hold' = IF press THEN at + MinHold ELSE hold
      /\ started' = TRUE
  BY DEF Enqueue, Last
<1> HIDE DEF at
<1>4. merges => /\ Max({last.in, 0}) \in Nat /\ last.in <= Max({last.in, 0})
  <2>1. SUFFICES ASSUME merges
                 PROVE /\ Max({last.in, 0}) \in Nat /\ last.in <= Max({last.in, 0})
    OBVIOUS
  <2>2. last.in \in Int
    BY <1>2, <2>1
  <2> HIDE DEF last
  <2>3. Max({last.in, 0}) = IF last.in >= 0 THEN last.in ELSE 0
    BY <2>2, MaxOfTwo
  <2>4. QED
    BY <2>2, <2>3
<1>5. late \in Nat /\ (queue # <<>> => last.in <= late)
  BY <1>1, <1>4
<1> HIDE DEF late
<1>6. event \in Event /\ event.in = late /\ event.x = x /\ event.down = down /\ event.press = press
  BY <1>5 DEF Event
<1>7. Motion(event) <=> down /\ ~press
  BY <1>6 DEF Motion
<1> HIDE DEF event
<1>8. Placed(queue, queue', event)
  BY <1>3, <1>5, <1>6, <1>7 DEF Placed
<1>9. lastSlot' \in Int /\ hold' \in Nat
  BY <1>1, <1>3, <1>5, <1>6
<1>10. QED
  BY <1>3, <1>6, <1>8, <1>9

-----------------------------------------------------------------------------
\* The order of the queue.

LEMMA QueueElement ==
  ASSUME NEW q \in Seq(Event), NEW i \in 1..Len(q)
  PROVE  /\ q[i] \in Event /\ q[i].in \in Int /\ q[i].x \in Nat
         /\ q[i].down \in BOOLEAN /\ q[i].press \in BOOLEAN
<1>1. q[i] \in Event
  BY ElementOfSeq
<1>2. QED
  BY <1>1 DEF Event

LEMMA NotEmpty ==
  ASSUME NEW q \in Seq(Event), q # <<>>
  PROVE  Len(q) \in Nat /\ Len(q) >= 1 /\ 1 \in 1..Len(q) /\ Len(q) \in 1..Len(q)
<1>1. Len(q) \in Nat /\ Len(q) # 0
  BY EmptySeq, LenProperties
<1>2. QED
  BY <1>1

\* What stands at the head for the one who sends the pen there.
SameStart(a, b) ==
  (a.press <=> b.press) /\ (a.down <=> b.down) /\ (~b.down => a.x = b.x)

LEMMA AppendKeepsOrder ==
  ASSUME NEW q \in Seq(Event), Ordered(q), NEW e \in Event,
         q # <<>> => (Len(q) > 1 => q[Len(q)].in <= e.in) /\ Behind(q[Len(q)], e)
  PROVE  /\ Append(q, e) \in Seq(Event) /\ Append(q, e) # <<>>
         /\ Ordered(Append(q, e))
         /\ Append(q, e)[Len(Append(q, e))] = e
         /\ q # <<>> => Append(q, e)[1] = q[1]
         /\ q = <<>> => Append(q, e)[1] = e
<1> DEFINE r == Append(q, e)
           n == Len(q)
<1>1. /\ n \in Nat /\ r \in Seq(Event) /\ Len(r) = n + 1
      /\ r[n + 1] = e /\ \A i \in 1..n : r[i] = q[i]
  BY AppendProperties, LenProperties
<1>2. n = 0 <=> q = <<>>
  BY EmptySeq, LenProperties
<1> HIDE DEF r
<1>3. r # <<>>
  BY <1>1
<1>4. Ordered(r)
  <2>1. SUFFICES ASSUME NEW i \in 2..Len(r)
                 PROVE  (i > 2 => r[i - 1].in <= r[i].in) /\ Behind(r[i - 1], r[i])
    BY DEF Ordered
  <2>2. CASE i = n + 1
    <3>1. n # 0 /\ i - 1 = n /\ n \in 1..n /\ (i > 2 => n > 1)
      BY <1>1, <2>1, <2>2
    <3>2. r[i] = e /\ r[i - 1] = q[Len(q)]
      BY <1>1, <2>2, <3>1
    <3>3. QED
      BY <1>2, <3>1, <3>2
  <2>3. CASE i # n + 1
    <3>1. i \in 2..n /\ i \in 1..n /\ i - 1 \in 1..n
      BY <1>1, <2>1, <2>3
    <3>2. r[i] = q[i] /\ r[i - 1] = q[i - 1]
      BY <1>1, <3>1
    <3>3. QED
      BY <3>1, <3>2 DEF Ordered
  <2>4. QED
    BY <2>2, <2>3
<1>5. q # <<>> => r[1] = q[1]
  <2>1. SUFFICES ASSUME q # <<>> PROVE r[1] = q[1]
    OBVIOUS
  <2>2. 1 \in 1..n
    BY <1>1, <1>2, <2>1
  <2>3. QED
    BY <1>1, <2>2
<1>6. q = <<>> => r[1] = e
  <2>1. SUFFICES ASSUME q = <<>> PROVE r[1] = e
    OBVIOUS
  <2>2. n + 1 = 1
    BY <1>1, <1>2, <2>1
  <2>3. QED
    BY <1>1, <2>2
<1>7. r[Len(r)] = e
  BY <1>1
<1>8. QED
  BY <1>1, <1>3, <1>4, <1>5, <1>6, <1>7 DEF r

\* The queue without its last event.
LEMMA FrontKeepsOrder ==
  ASSUME NEW q \in Seq(Event), Ordered(q), q # <<>>
  PROVE  /\ Front(q) \in Seq(Event) /\ Ordered(Front(q)) /\ Len(Front(q)) = Len(q) - 1
         /\ \A i \in 1..Len(Front(q)) : Front(q)[i] = q[i]
<1> DEFINE f == Front(q)
           n == Len(q)
<1>1. n \in Nat /\ n >= 1 /\ f = SubSeq(q, 1, n - 1)
  BY NotEmpty DEF Front
<1>2. 1 \in Int /\ n - 1 \in Int /\ 1 \in 1..n + 1 /\ n - 1 \in 0..n
  BY <1>1
<1>3. \A i \in 1..n - 1 : q[i] \in Event
  BY <1>1, ElementOfSeq
<1>4. f \in Seq(Event) /\ Len(f) = n - 1 /\ \A i \in 1..n - 1 : f[i] = q[i]
  <2> DEFINE m == n - 1
  <2>1. m \in Int
    BY <1>1
  <2>2. \A i \in 1..m : q[i] \in Event
    BY <1>3
  <2> HIDE DEF m
  <2>3. /\ SubSeq(q, 1, m) \in Seq(Event)
        /\ Len(SubSeq(q, 1, m)) = IF 1 <= m THEN m - 1 + 1 ELSE 0
        /\ \A i \in 1..(m - 1 + 1) : SubSeq(q, 1, m)[i] = q[1 + i - 1]
    BY <2>1, <2>2, SubSeqProperties
  <2>4. Len(SubSeq(q, 1, m)) = m
    <3>1. m \in Nat
      BY <1>1 DEF m
    <3>2. (IF 1 <= m THEN m - 1 + 1 ELSE 0) = m
      BY <3>1
    <3>3. QED
      BY <2>3, <3>2
  <2>5. \A i \in 1..m : SubSeq(q, 1, m)[i] = q[i]
    <3>1. SUFFICES ASSUME NEW i \in 1..m PROVE SubSeq(q, 1, m)[i] = q[i]
      OBVIOUS
    <3>2. i \in 1..(m - 1 + 1) /\ 1 + i - 1 = i
      BY <2>1
    <3>3. QED
      BY <2>3, <3>2
  <2>6. QED
    BY <1>1, <2>3, <2>4, <2>5 DEF m
<1> HIDE DEF f, n
<1>5. Ordered(f)
  <2>1. SUFFICES ASSUME NEW i \in 2..Len(f)
                 PROVE  (i > 2 => f[i - 1].in <= f[i].in) /\ Behind(f[i - 1], f[i])
    BY DEF Ordered
  <2>2. i \in 2..n /\ i \in 1..n - 1 /\ i - 1 \in 1..n - 1
    BY <1>1, <1>4, <2>1
  <2>3. f[i] = q[i] /\ f[i - 1] = q[i - 1]
    BY <1>4, <2>2
  <2>4. QED
    BY <2>2, <2>3 DEF Ordered, n
<1>6. QED
  BY <1>4, <1>5 DEF f, n

LEMMA PlacedKeepsOrder ==
  ASSUME NEW q \in Seq(Event), Ordered(q), NEW e \in Event, NEW r, Placed(q, r, e),
         q # <<>> => (e.press <=> ~q[Len(q)].down) /\ (~e.down => e.x = q[Len(q)].x)
  PROVE  /\ r \in Seq(Event) /\ r # <<>> /\ Ordered(r) /\ r[Len(r)] = e
         /\ q # <<>> => SameStart(r[1], q[1])
         /\ q = <<>> => r[1] = e
<1>1. CASE /\ r = Append(q, e)
           /\ q # <<>> => q[Len(q)].in <= e.in /\ ~(Motion(q[Len(q)]) /\ Motion(e))
  <2>1. q # <<>> => q[Len(q)].in <= e.in /\ Behind(q[Len(q)], e)
    BY <1>1 DEF Behind
  <2>2. /\ r \in Seq(Event) /\ r # <<>> /\ Ordered(r) /\ r[Len(r)] = e
        /\ q # <<>> => r[1] = q[1]
        /\ q = <<>> => r[1] = e
    BY <1>1, <2>1, AppendKeepsOrder
  <2>3. SameStart(q[1], q[1])
    BY DEF SameStart
  <2>4. QED
    BY <2>2, <2>3
<1>2. CASE /\ q # <<>> /\ Motion(q[Len(q)]) /\ Motion(e)
           /\ q[Len(q)].in <= e.in
           /\ r = Append(Front(q), e)
  <2> DEFINE f == Front(q)
             n == Len(q)
  <2>1. n \in Nat /\ n >= 1 /\ n \in 1..n
    BY <1>2, NotEmpty
  <2>2. f \in Seq(Event) /\ Ordered(f) /\ Len(f) = n - 1 /\ \A i \in 1..n - 1 : f[i] = q[i]
    BY <1>2, FrontKeepsOrder
  <2>3. (e.press <=> q[n].press) /\ (e.down <=> q[n].down) /\ e.down
    BY <1>2 DEF Motion
  <2> HIDE DEF f
  <2>4. r = Append(f, e)
    BY <1>2 DEF f
  <2>5. CASE n = 1
    <3>1. f = <<>>
      BY <2>2, <2>5, EmptySeq
    <3>2. /\ r \in Seq(Event) /\ r # <<>> /\ Ordered(r) /\ r[Len(r)] = e /\ r[1] = e
      BY <2>2, <2>4, <3>1, AppendKeepsOrder
    <3>3. SameStart(e, q[1])
      BY <2>3, <2>5 DEF SameStart
    <3>4. QED
      BY <1>2, <3>2, <3>3
  <2>6. CASE n > 1
    <3>1. /\ n - 1 \in 1..n - 1 /\ 1 \in 1..n - 1 /\ n \in 2..n
          /\ (n - 1 > 1 => n > 2) /\ n - 1 \in 1..n
      BY <2>1, <2>6
    <3>2. f # <<>> /\ f[Len(f)] = q[n - 1] /\ f[1] = q[1]
      BY <2>2, <3>1
    <3>3. (n > 2 => q[n - 1].in <= q[n].in) /\ Behind(q[n - 1], q[n])
      BY <3>1 DEF Ordered
    <3>4. Behind(q[n - 1], e)
      BY <1>2, <2>3, <3>3 DEF Behind
    <3>5. n > 2 => q[n - 1].in <= e.in
      <4>1. q[n - 1].in \in Int /\ q[n].in \in Int /\ e.in \in Int
        BY <2>1, <3>1, QueueElement DEF Event
      <4>2. \A a, b, c \in Int : a <= b /\ b <= c => a <= c
        OBVIOUS
      <4>3. QED
        BY <1>2, <3>3, <4>1, <4>2
    <3>6. (Len(f) > 1 => f[Len(f)].in <= e.in) /\ Behind(f[Len(f)], e)
      BY <2>2, <3>1, <3>2, <3>4, <3>5
    <3>7. /\ r \in Seq(Event) /\ r # <<>> /\ Ordered(r) /\ r[Len(r)] = e
          /\ r[1] = f[1]
      BY <2>2, <2>4, <3>2, <3>6, AppendKeepsOrder
    <3>8. SameStart(q[1], q[1])
      BY DEF SameStart
    <3>9. QED
      BY <1>2, <3>2, <3>7, <3>8
  <2>7. n = 1 \/ n > 1
    <3>1. \A k \in Nat : k >= 1 => k = 1 \/ k > 1
      OBVIOUS
    <3>2. QED
      BY <2>1, <3>1
  <2>8. QED
    BY <2>5, <2>6, <2>7
<1>3. QED
  BY <1>1, <1>2 DEF Placed

\* The queue without its head.
LEMMA TailKeepsOrder ==
  ASSUME NEW q \in Seq(Event), Ordered(q), q # <<>>
  PROVE  /\ Tail(q) \in Seq(Event) /\ Ordered(Tail(q))
         /\ Tail(q) = <<>> <=> Len(q) = 1
         /\ Tail(q) # <<>> => /\ Tail(q)[1] = q[2] /\ Behind(q[1], q[2])
                              /\ Tail(q)[Len(Tail(q))] = q[Len(q)]
<1> DEFINE t == Tail(q)
           n == Len(q)
<1>1. n \in Nat /\ n >= 1
  BY NotEmpty
<1>2. t \in Seq(Event) /\ Len(t) = n - 1 /\ \A i \in 1..Len(t) : t[i] = q[i + 1]
  BY HeadTailProperties
<1> HIDE DEF t, n
<1>3. Ordered(t)
  <2>1. SUFFICES ASSUME NEW i \in 2..Len(t)
                 PROVE  (i > 2 => t[i - 1].in <= t[i].in) /\ Behind(t[i - 1], t[i])
    BY DEF Ordered
  <2>2. /\ i + 1 \in 2..n /\ i + 1 > 2 /\ i \in 1..Len(t) /\ i - 1 \in 1..Len(t)
        /\ i - 1 + 1 = i /\ i + 1 - 1 = i
    BY <1>1, <1>2, <2>1
  <2>3. t[i] = q[i + 1] /\ t[i - 1] = q[i]
    BY <1>2, <2>2
  <2>4. q[i + 1 - 1].in <= q[i + 1].in /\ Behind(q[i + 1 - 1], q[i + 1])
    BY <2>2 DEF Ordered, n
  <2>5. QED
    BY <2>2, <2>3, <2>4
<1>4. t = <<>> <=> n = 1
  BY <1>1, <1>2, EmptySeq
<1>5. t # <<>> => /\ t[1] = q[2] /\ Behind(q[1], q[2]) /\ t[Len(t)] = q[n]
  <2>1. SUFFICES ASSUME t # <<>>
                 PROVE t[1] = q[2] /\ Behind(q[1], q[2]) /\ t[Len(t)] = q[n]
    OBVIOUS
  <2>2. n # 1 /\ n >= 2 /\ 1 \in 1..Len(t) /\ Len(t) \in 1..Len(t) /\ Len(t) + 1 = n /\ 2 \in 2..n
    BY <1>1, <1>2, <1>4, <2>1
  <2>3. t[1] = q[1 + 1] /\ t[Len(t)] = q[Len(t) + 1]
    BY <1>2, <2>2
  <2>4. Behind(q[2 - 1], q[2])
    BY <2>2 DEF Ordered, n
  <2>5. 1 + 1 = 2 /\ 2 - 1 = 1
    OBVIOUS
  <2>6. QED
    BY <2>2, <2>3, <2>4, <2>5
<1>6. QED
  BY <1>2, <1>3, <1>4, <1>5 DEF t, n

\* The same events with other deadlines.
SameEvents(r, q) ==
  /\ Len(r) = Len(q)
  /\ \A i \in 1..Len(q) : /\ r[i].x = q[i].x
                          /\ r[i].down <=> q[i].down
                          /\ r[i].press <=> q[i].press

LEMMA OtherDeadlines ==
  ASSUME NEW q \in Seq(Event), Ordered(q), NEW r \in Seq(Event), SameEvents(r, q),
         \A i \in 2..Len(q) : i > 2 => r[i - 1].in <= r[i].in
  PROVE  /\ Ordered(r)
         /\ r = <<>> <=> q = <<>>
         /\ q # <<>> => /\ SameStart(r[1], q[1]) /\ r[1].x = q[1].x
                        /\ r[Len(r)].x = q[Len(q)].x
                        /\ r[Len(r)].down <=> q[Len(q)].down
<1>1. Ordered(r)
  <2>1. SUFFICES ASSUME NEW i \in 2..Len(r)
                 PROVE  (i > 2 => r[i - 1].in <= r[i].in) /\ Behind(r[i - 1], r[i])
    BY DEF Ordered
  <2>2. Len(q) \in Nat /\ Len(r) = Len(q)
    BY LenProperties DEF SameEvents
  <2>3. i \in 2..Len(q) /\ i \in 1..Len(q) /\ i - 1 \in 1..Len(q)
    BY <2>1, <2>2
  <2>4. Behind(q[i - 1], q[i])
    BY <2>3 DEF Ordered
  <2>5. /\ r[i].x = q[i].x /\ (r[i].down <=> q[i].down) /\ (r[i].press <=> q[i].press)
        /\ r[i - 1].x = q[i - 1].x /\ (r[i - 1].down <=> q[i - 1].down)
        /\ (r[i - 1].press <=> q[i - 1].press)
    BY <2>3 DEF SameEvents
  <2>6. Behind(r[i - 1], r[i])
    BY <2>4, <2>5 DEF Behind, Motion
  <2>7. QED
    BY <2>3, <2>6
<1>2. r = <<>> <=> q = <<>>
  BY EmptySeq DEF SameEvents
<1>3. ASSUME q # <<>>
      PROVE  /\ SameStart(r[1], q[1]) /\ r[1].x = q[1].x
             /\ r[Len(r)].x = q[Len(q)].x
             /\ r[Len(r)].down <=> q[Len(q)].down
  BY <1>3, NotEmpty DEF SameEvents, SameStart
<1>4. QED
  BY <1>1, <1>2, <1>3

\* The head with another deadline.
Redated(q, at) == [q EXCEPT ![1].in = at]

LEMMA NewDeadline ==
  ASSUME NEW q \in Seq(Event), q # <<>>, Ordered(q), NEW at \in Int,
         NEW r, r = Redated(q, at)
  PROVE  /\ r \in Seq(Event) /\ Ordered(r) /\ r # <<>>
         /\ SameStart(r[1], q[1]) /\ r[1].x = q[1].x
         /\ r[Len(r)].x = q[Len(q)].x
         /\ r[Len(r)].down <=> q[Len(q)].down
<1> DEFINE n == Len(q)
           head == [q[1] EXCEPT !.in = at]
<1>1. n \in Nat /\ 1 \in 1..n /\ q \in [1..n -> Event]
  BY NotEmpty, LenProperties
<1>2. head \in Event /\ head.x = q[1].x /\ head.down = q[1].down /\ head.press = q[1].press
  <2>1. q[1] \in Event
    BY <1>1, QueueElement
  <2>2. QED
    BY <2>1 DEF Event
<1>3. r = [q EXCEPT ![1] = head]
  BY DEF Redated
<1> HIDE DEF head
<1>4. r \in [1..n -> Event] /\ r[1] = head /\ \A i \in 1..n : i # 1 => r[i] = q[i]
  BY <1>1, <1>2, <1>3
<1>5. r \in Seq(Event) /\ Len(r) = n
  BY <1>1, <1>4, SeqDef, LenProperties
<1>6. SameEvents(r, q)
  BY <1>2, <1>4, <1>5 DEF SameEvents
<1>7. \A i \in 2..n : i > 2 => r[i - 1].in <= r[i].in
  <2>1. SUFFICES ASSUME NEW i \in 2..n, i > 2 PROVE r[i - 1].in <= r[i].in
    OBVIOUS
  <2>2. i \in 1..n /\ i - 1 \in 1..n /\ i # 1 /\ i - 1 # 1
    BY <1>1, <2>1
  <2>3. r[i] = q[i] /\ r[i - 1] = q[i - 1]
    BY <1>4, <2>2
  <2>4. QED
    BY <2>1, <2>3 DEF Ordered
<1>8. QED
  BY <1>5, <1>6, <1>7, OtherDeadlines

\* A slot of the guest: every deadline is a slot nearer.
Nearer(q) == [i \in DOMAIN q |-> [q[i] EXCEPT !.in = Max({@ - 1, -Sample})]]

LEMMA NearerKeepsOrder ==
  ASSUME NEW q \in Seq(Event), Ordered(q), NEW r, r = Nearer(q)
  PROVE  /\ r \in Seq(Event) /\ Ordered(r) /\ (r = <<>> <=> q = <<>>)
         /\ q # <<>> => /\ SameStart(r[1], q[1]) /\ r[1].x = q[1].x
                        /\ r[Len(r)].x = q[Len(q)].x
                        /\ r[Len(r)].down <=> q[Len(q)].down
<1> DEFINE n == Len(q)
           next(e) == [e EXCEPT !.in = Max({e.in - 1, -Sample})]
<1>1. n \in Nat /\ DOMAIN q = 1..n /\ q \in [1..n -> Event] /\ Sample \in Nat
  BY LenProperties, Constants
<1>2. \A i \in 1..n : /\ q[i] \in Event /\ q[i].in \in Int
  BY QueueElement
<1>3. \A t \in Int : Max({t - 1, -Sample}) = IF t - 1 >= -Sample THEN t - 1 ELSE -Sample
  <2>1. SUFFICES ASSUME NEW t \in Int
                 PROVE  Max({t - 1, -Sample}) = IF t - 1 >= -Sample THEN t - 1 ELSE -Sample
    OBVIOUS
  <2>2. t - 1 \in Int /\ -Sample \in Int
    BY <1>1
  <2>3. QED
    BY <2>2, MaxOfTwo
<1>4. \A t \in Int : Max({t - 1, -Sample}) \in Int
  <2>1. SUFFICES ASSUME NEW t \in Int PROVE Max({t - 1, -Sample}) \in Int
    OBVIOUS
  <2>2. t - 1 \in Int /\ -Sample \in Int
    BY <1>1
  <2>3. QED
    BY <1>3, <2>2
<1>5. \A s, t \in Int : s <= t => Max({s - 1, -Sample}) <= Max({t - 1, -Sample})
  <2>1. SUFFICES ASSUME NEW s \in Int, NEW t \in Int, s <= t
                 PROVE  Max({s - 1, -Sample}) <= Max({t - 1, -Sample})
    OBVIOUS
  <2>2. /\ Max({s - 1, -Sample}) = IF s - 1 >= -Sample THEN s - 1 ELSE -Sample
        /\ Max({t - 1, -Sample}) = IF t - 1 >= -Sample THEN t - 1 ELSE -Sample
    BY <1>3
  <2>3. QED
    BY <1>1, <2>1, <2>2
<1>6. \A e \in Event : /\ next(e) \in Event
                       /\ next(e).in = Max({e.in - 1, -Sample})
                       /\ next(e).x = e.x /\ next(e).down = e.down /\ next(e).press = e.press
  <2>1. SUFFICES ASSUME NEW e \in Event
                 PROVE  /\ next(e) \in Event
                        /\ next(e).in = Max({e.in - 1, -Sample})
                        /\ next(e).x = e.x /\ next(e).down = e.down /\ next(e).press = e.press
    OBVIOUS
  <2> DEFINE at == Max({e.in - 1, -Sample})
  <2>2. at \in Int
    BY <1>4 DEF Event
  <2> HIDE DEF at
  <2>3. next(e) = [e EXCEPT !.in = at]
    BY DEF at
  <2>4. QED
    BY <2>2, <2>3 DEF Event, at
<1> HIDE DEF next
<1>7. r = [i \in 1..n |-> next(q[i])]
  BY <1>1 DEF Nearer, next
<1>8. r \in [1..n -> Event] /\ \A i \in 1..n : r[i] = next(q[i])
  BY <1>2, <1>6, <1>7
<1>9. r \in Seq(Event) /\ Len(r) = n
  BY <1>1, <1>8, SeqDef, LenProperties
<1>10. SameEvents(r, q)
  BY <1>2, <1>6, <1>8, <1>9 DEF SameEvents
<1>11. \A i \in 2..n : i > 2 => r[i - 1].in <= r[i].in
  <2>1. SUFFICES ASSUME NEW i \in 2..n, i > 2 PROVE r[i - 1].in <= r[i].in
    OBVIOUS
  <2>2. i \in 1..n /\ i - 1 \in 1..n
    BY <1>1, <2>1
  <2>3. q[i - 1].in <= q[i].in
    BY <2>1 DEF Ordered
  <2>4. /\ r[i].in = Max({q[i].in - 1, -Sample})
        /\ r[i - 1].in = Max({q[i - 1].in - 1, -Sample})
    BY <1>2, <1>6, <1>8, <2>2
  <2>5. q[i].in \in Int /\ q[i - 1].in \in Int
    BY <1>2, <2>2
  <2>6. QED
    BY <1>5, <2>3, <2>4, <2>5
<1>12. QED
  BY <1>9, <1>10, <1>11, OtherDeadlines

-----------------------------------------------------------------------------
\* The host's events.

LEMMA InitIInv == Init => IInv
<1> SUFFICES ASSUME Init PROVE IInv
  OBVIOUS
<1>1. (CHOOSE p \in Points : TRUE) \in Points
  BY Constants
<1>2. mouse = [down |-> FALSE, x |-> CHOOSE p \in Points : TRUE]
      /\ pen = [down |-> FALSE, x |-> 0] /\ queue = <<>>
  BY DEF Init
<1>3. mouse \in [down : BOOLEAN, x : Points] /\ ~mouse.down
  BY <1>1, <1>2
<1>4. pen \in [down : BOOLEAN, x : Nat] /\ ~pen.down
  BY <1>2
<1>5. contact \in [down : BOOLEAN, x : Nat, left : 0..MinHold, since : 0..Sample]
  <2>1. contact = [down |-> FALSE, x |-> 0, left |-> 0, since |-> Sample]
    BY DEF Init
  <2>2. 0 \in 0..MinHold /\ Sample \in 0..Sample /\ 0 \in Nat
    BY Constants
  <2>3. QED
    BY <2>1, <2>2
<1>6. seen \in [edge : 0..MinHold, point : 0..Sample]
  BY Constants DEF Init
<1>7. queue \in Seq(Event) /\ Len(queue) = 0
  BY <1>2
<1>8. TypeOK
  <2>1. hold = 0 /\ lastSlot = 0 /\ started = FALSE /\ background = FALSE /\ running = FALSE
    BY DEF Init
  <2>2. hold \in Nat /\ lastSlot \in Int
    BY <2>1
  <2>3. started \in BOOLEAN /\ background \in BOOLEAN /\ running \in BOOLEAN
    BY <2>1
  <2>4. QED
    BY <1>3, <1>4, <1>5, <1>6, <1>7, <2>2, <2>3 DEF TypeOK
<1>9. Ordered(queue)
  BY <1>7 DEF Ordered
<1>10. Ends(queue, mouse, pen) /\ Knows(contact, pen, seen)
  BY <1>2, <1>3, <1>4 DEF Ends, Knows
<1>11. QED
  BY <1>8, <1>9, <1>10 DEF IInv

\* The host's event is behind the last one of its contact.
LEMMA EnqueueKeeps ==
  ASSUME IInv, NEW press \in BOOLEAN, NEW down \in BOOLEAN, NEW x \in Points,
         NEW gap \in Gaps, Enqueue(press, down, x, gap),
         press => down, press <=> ~mouse.down, ~down => x = mouse.x,
         mouse' = [down |-> down, x |-> x],
         UNCHANGED <<contact, pen, background, running, seen>>
  PROVE  IInv'
<1>1. TypeOK /\ Ordered(queue) /\ Ends(queue, mouse, pen) /\ Knows(contact, pen, seen)
      /\ queue \in Seq(Event) /\ x \in Nat
  BY Constants DEF IInv, TypeOK
<1>2. /\ \E e \in Event : /\ e.x = x /\ (e.down <=> down) /\ (e.press <=> press)
                          /\ Placed(queue, queue', e)
      /\ lastSlot' \in Int /\ hold' \in Nat /\ started' \in BOOLEAN
  BY <1>1, EnqueueIs
<1>3. PICK e \in Event : /\ e.x = x /\ (e.down <=> down) /\ (e.press <=> press)
                         /\ Placed(queue, queue', e)
  BY <1>2
<1>4. queue # <<>> => (e.press <=> ~queue[Len(queue)].down) /\ (~e.down => e.x = queue[Len(queue)].x)
  BY <1>1, <1>3 DEF Ends
<1>5. /\ queue' \in Seq(Event) /\ queue' # <<>> /\ Ordered(queue')
      /\ queue'[Len(queue')] = e
      /\ queue # <<>> => SameStart(queue'[1], queue[1])
      /\ queue = <<>> => queue'[1] = e
  BY <1>1, <1>3, <1>4, PlacedKeepsOrder
<1>6. (mouse'.down <=> down) /\ mouse'.x = x /\ mouse' \in [down : BOOLEAN, x : Points]
  OBVIOUS
<1>7. (pen.down <=> ~queue'[1].press) /\ (~queue'[1].down => queue'[1].x = pen.x)
  <2>1. CASE queue = <<>>
    <3>1. (mouse.down <=> pen.down) /\ (mouse.down => mouse.x = pen.x) /\ queue'[1] = e
      BY <1>1, <1>5, <2>1 DEF Ends
    <3>2. QED
      BY <1>3, <3>1
  <2>2. CASE queue # <<>>
    <3>1. (pen.down <=> ~queue[1].press) /\ (~queue[1].down => queue[1].x = pen.x)
      BY <1>1, <2>2 DEF Ends
    <3>2. QED
      BY <1>5, <2>2, <3>1 DEF SameStart
  <2>3. QED
    BY <2>1, <2>2
<1>8. Ends(queue', mouse', pen)
  BY <1>3, <1>5, <1>6, <1>7 DEF Ends
<1>9. TypeOK'
  BY <1>1, <1>2, <1>5, <1>6 DEF TypeOK
<1>10. QED
  BY <1>1, <1>5, <1>8, <1>9 DEF IInv

LEMMA HostPressesKeeps == IInv /\ HostPresses => IInv'
<1> SUFFICES ASSUME IInv, HostPresses PROVE IInv'
  OBVIOUS
<1>1. PICK x \in Points, gap \in Gaps :
           Enqueue(TRUE, TRUE, x, gap) /\ mouse' = [down |-> TRUE, x |-> x]
  BY DEF HostPresses
<1>2. ~mouse.down /\ UNCHANGED <<contact, pen, background, running, seen>>
  BY DEF HostPresses
<1>3. QED
  BY <1>1, <1>2, EnqueueKeeps

LEMMA HostMovesKeeps == IInv /\ HostMoves => IInv'
<1> SUFFICES ASSUME IInv, HostMoves PROVE IInv'
  OBVIOUS
<1>1. PICK x \in Points, gap \in Gaps :
           Enqueue(FALSE, TRUE, x, gap) /\ mouse' = [down |-> TRUE, x |-> x]
  BY DEF HostMoves
<1>2. mouse.down /\ UNCHANGED <<contact, pen, background, running, seen>>
  BY DEF HostMoves
<1>3. QED
  BY <1>1, <1>2, EnqueueKeeps

LEMMA HostLiftsKeeps == IInv /\ HostLifts => IInv'
<1> SUFFICES ASSUME IInv, HostLifts PROVE IInv'
  OBVIOUS
<1>1. PICK gap \in Gaps : Enqueue(FALSE, FALSE, mouse.x, gap)
  BY DEF HostLifts
<1>2. mouse.down /\ UNCHANGED <<contact, pen, background, running, seen>>
      /\ mouse' = [mouse EXCEPT !.down = FALSE]
  BY DEF HostLifts
<1>3. mouse \in [down : BOOLEAN, x : Points]
  BY DEF IInv, TypeOK
<1>4. mouse.x \in Points /\ mouse' = [down |-> FALSE, x |-> mouse.x]
  BY <1>2, <1>3
<1>5. QED
  BY <1>1, <1>2, <1>4, EnqueueKeeps

LEMMA HostHidesKeeps == IInv /\ HostHides => IInv'
<1> SUFFICES ASSUME IInv, HostHides PROVE IInv'
  OBVIOUS
<1>1. TypeOK
  BY DEF IInv
<1>2. /\ queue' = <<>> /\ background' = TRUE
      /\ pen' = [pen EXCEPT !.down = FALSE] /\ mouse' = [mouse EXCEPT !.down = FALSE]
      /\ seen' = [edge |-> MinHold, point |-> Sample]
      /\ UNCHANGED <<hold, lastSlot, started, contact, running>>
  BY DEF HostHides
<1>3. mouse' \in [down : BOOLEAN, x : Points] /\ ~mouse'.down
  BY <1>1, <1>2 DEF TypeOK
<1>4. pen' \in [down : BOOLEAN, x : Nat] /\ ~pen'.down
  BY <1>1, <1>2 DEF TypeOK
<1>5. seen' \in [edge : 0..MinHold, point : 0..Sample]
  BY <1>2, Constants
<1>6. queue' \in Seq(Event) /\ Len(queue') = 0
  BY <1>2
<1>7. TypeOK'
  BY <1>1, <1>2, <1>3, <1>4, <1>5, <1>6 DEF TypeOK
<1>8. Ordered(queue')
  BY <1>6 DEF Ordered
<1>9. Ends(queue', mouse', pen') /\ Knows(contact', pen', seen')
  BY <1>2, <1>3, <1>4 DEF Ends, Knows
<1>10. QED
  BY <1>7, <1>8, <1>9 DEF IInv

-----------------------------------------------------------------------------
\* The loop, and the guest's slots.

LEMMA OnlyTheLoop ==
  ASSUME IInv, background' \in BOOLEAN, running' \in BOOLEAN,
         UNCHANGED <<queue, hold, lastSlot, started, contact, pen, mouse, seen>>
  PROVE  IInv'
BY DEF IInv, TypeOK, Ordered, Ends, Knows, Behind, Motion

LEMMA LoopKeeps == IInv /\ (HostShows \/ StartFrame \/ EndFrame) => IInv'
<1>1. ASSUME IInv, HostShows PROVE IInv'
  <2>1. running \in BOOLEAN
    BY <1>1 DEF IInv, TypeOK
  <2>2. QED
    BY <1>1, <2>1, OnlyTheLoop DEF HostShows
<1>2. ASSUME IInv, StartFrame PROVE IInv'
  <2>1. background \in BOOLEAN
    BY <1>2 DEF IInv, TypeOK
  <2>2. QED
    BY <1>2, <2>1, OnlyTheLoop DEF StartFrame
<1>3. ASSUME IInv, EndFrame PROVE IInv'
  <2>1. background \in BOOLEAN
    BY <1>3 DEF IInv, TypeOK
  <2>2. QED
    BY <1>3, <2>1, OnlyTheLoop DEF EndFrame
<1>4. QED
  BY <1>1, <1>2, <1>3

LEMMA ElapseKeeps == IInv /\ Elapse => IInv'
<1> SUFFICES ASSUME IInv, Elapse PROVE IInv'
  OBVIOUS
<1> DEFINE left == Minus1(contact.left)
           since == Plus1(contact.since, Sample)
           edge == Plus1(seen.edge, MinHold)
           point == Plus1(seen.point, Sample)
<1>1. /\ queue' = Nearer(queue) /\ hold' = Minus1(hold)
      /\ lastSlot' = Max({lastSlot - 1, -Max(Gaps)})
      /\ contact' = [contact EXCEPT !.left = left, !.since = since]
      /\ seen' = [edge |-> edge, point |-> point]
      /\ UNCHANGED <<started, pen, mouse, background, running>>
  BY DEF Elapse, Nearer
<1>2. TypeOK /\ Ordered(queue) /\ Ends(queue, mouse, pen) /\ Knows(contact, pen, seen)
      /\ queue \in Seq(Event)
  BY DEF IInv, TypeOK
<1>3. /\ queue' \in Seq(Event) /\ Ordered(queue') /\ (queue' = <<>> <=> queue = <<>>)
      /\ queue # <<>> => /\ SameStart(queue'[1], queue[1])
                         /\ queue'[Len(queue')].x = queue[Len(queue)].x
                         /\ queue'[Len(queue')].down <=> queue[Len(queue)].down
  BY <1>1, <1>2, NearerKeepsOrder
<1>4. Ends(queue', mouse, pen)
  <2>1. CASE queue = <<>>
    BY <1>2, <1>3, <2>1 DEF Ends
  <2>2. CASE queue # <<>>
    BY <1>2, <1>3, <2>2 DEF Ends, SameStart
  <2>3. QED
    BY <2>1, <2>2
<1>5. /\ contact.left \in 0..MinHold /\ contact.since \in 0..Sample
      /\ seen.edge \in 0..MinHold /\ seen.point \in 0..Sample
      /\ MinHold \in Nat /\ Sample \in Nat /\ hold \in Nat
      /\ contact \in [down : BOOLEAN, x : Nat, left : 0..MinHold, since : 0..Sample]
  BY <1>2, Constants DEF TypeOK
<1>6. /\ left = IF contact.left = 0 THEN 0 ELSE contact.left - 1
      /\ since = IF contact.since + 1 <= Sample THEN contact.since + 1 ELSE Sample
      /\ edge = IF seen.edge + 1 <= MinHold THEN seen.edge + 1 ELSE MinHold
      /\ point = IF seen.point + 1 <= Sample THEN seen.point + 1 ELSE Sample
      /\ hold' = IF hold = 0 THEN 0 ELSE hold - 1
  <2>1. contact.left \in Nat /\ contact.since \in Nat /\ seen.edge \in Nat /\ seen.point \in Nat
    BY <1>5
  <2>2. QED
    BY <1>1, <1>5, <2>1, CountsDown, CountsUp
<1> HIDE DEF left, since, edge, point
<1>7. left \in 0..MinHold /\ since \in 0..Sample /\ edge \in 0..MinHold /\ point \in 0..Sample
  BY <1>5, <1>6
<1>8. /\ contact' \in [down : BOOLEAN, x : Nat, left : 0..MinHold, since : 0..Sample]
      /\ contact'.down = contact.down /\ contact'.x = contact.x
      /\ contact'.left = left /\ contact'.since = since
  BY <1>1, <1>5, <1>7
<1>9. /\ seen' \in [edge : 0..MinHold, point : 0..Sample]
      /\ seen'.edge = edge /\ seen'.point = point
  BY <1>1, <1>7
<1>10. hold' \in Nat /\ lastSlot' \in Int
  <2>1. hold' \in Nat
    BY <1>5, <1>6
  <2>2. lastSlot - 1 \in Int /\ -Max(Gaps) \in Int
    BY <1>2, Constants DEF TypeOK
  <2>3. \A a, b \in Int : Max({a, b}) \in Int
    BY MaxOfTwo
  <2>4. QED
    BY <1>1, <2>1, <2>2, <2>3
<1>11. TypeOK'
  BY <1>1, <1>2, <1>3, <1>8, <1>9, <1>10 DEF TypeOK
<1>12. Knows(contact', pen, seen')
  <2>1. SUFFICES ASSUME pen.down
                 PROVE  /\ contact'.down /\ contact'.x = pen.x
                        /\ seen'.edge + contact'.left >= MinHold
                        /\ seen'.point >= contact'.since
    BY DEF Knows
  <2>2. /\ contact.down /\ contact.x = pen.x
        /\ seen.edge + contact.left >= MinHold
        /\ seen.point >= contact.since
    BY <1>2, <2>1 DEF Knows
  <2>3. edge + left >= MinHold
    BY <1>5, <1>6, <2>2
  <2>4. point >= since
    BY <1>5, <1>6, <2>2
  <2>5. QED
    BY <1>8, <1>9, <2>2, <2>3, <2>4
<1>13. QED
  BY <1>1, <1>3, <1>4, <1>11, <1>12 DEF IInv

-----------------------------------------------------------------------------
\* What the head waits for, and how far it takes the pen.

LEMMA WaitIs ==
  ASSUME TypeOK, NEW e \in Event
  PROVE  /\ Wait(e) \in Nat
         /\ Wait(e) = 0 /\ ~e.press /\ ~e.down => contact.left = 0 /\ contact.since = Sample
         /\ Wait(e) = 0 /\ Motion(e) /\ contact.down => contact.since >= Interval
<1> DEFINE left == contact.left
           since == contact.since
<1>1. left \in 0..MinHold /\ since \in 0..Sample /\ MinHold \in Nat /\ Sample \in Nat
  BY Constants DEF TypeOK
<1>2. Wait(e) = IF e.press THEN 0
                ELSE IF ~e.down THEN Max({left, Sample - since})
                ELSE IF contact.down THEN Max({Interval - since, 0})
                ELSE 0
  BY DEF Wait
<1>3. Motion(e) <=> e.down /\ ~e.press
  BY DEF Motion
<1> HIDE DEF left, since
<1>4. left \in Int /\ Sample - since \in Int /\ Interval - since \in Int /\ 0 \in Int
  BY <1>1 DEF Interval
<1>5. /\ Max({left, Sample - since}) = IF left >= Sample - since THEN left ELSE Sample - since
      /\ Max({Interval - since, 0}) = IF Interval - since >= 0 THEN Interval - since ELSE 0
  BY <1>4, MaxOfTwo
<1>6. /\ Max({left, Sample - since}) \in Nat
      /\ Max({left, Sample - since}) = 0 => left = 0 /\ since = Sample
      /\ Max({Interval - since, 0}) \in Nat
      /\ Max({Interval - since, 0}) = 0 => since >= Interval
  BY <1>1, <1>5 DEF Interval
<1>7. QED
  BY <1>2, <1>3, <1>6 DEF left, since

LEMMA TowardIs ==
  ASSUME TypeOK, NEW e \in Event
  PROVE  /\ Toward(e) \in Nat
         /\ Toward(e) # e.x => Motion(e) /\ contact.down
         /\ Motion(e) /\ contact.down => Toward(e) - contact.x \in -Step..Step
<1>1. contact.x \in Nat /\ e.x \in Nat /\ Step \in Nat
  BY Constants DEF TypeOK, Event
<1>2. \A c, x, s \in Nat :
        LET to == IF x - c > s THEN c + s ELSE IF x - c < -s THEN c - s ELSE x
        IN to \in Nat /\ to - c \in -s..s
  OBVIOUS
<1>3. CASE ~(Motion(e) /\ contact.down)
  BY <1>1, <1>3 DEF Toward
<1>4. CASE Motion(e) /\ contact.down
  <2>1. Toward(e) = IF e.x - contact.x > Step THEN contact.x + Step
                    ELSE IF e.x - contact.x < -Step THEN contact.x - Step ELSE e.x
    BY <1>4 DEF Toward
  <2>2. QED
    BY <1>1, <1>2, <1>4, <2>1
<1>5. QED
  BY <1>3, <1>4

-----------------------------------------------------------------------------
\* The head is deferred, or reaches the guest.

LEMMA HeadIs ==
  ASSUME NEW q \in Seq(Event), q # <<>>
  PROVE  Head(q) = q[1] /\ q[1] \in Event
BY NotEmpty, QueueElement, HeadTailProperties

LEMMA DeferKeeps == IInv /\ Defer => IInv'
<1> SUFFICES ASSUME IInv, Defer PROVE IInv'
  OBVIOUS
<1>1. TypeOK /\ Ordered(queue) /\ Ends(queue, mouse, pen) /\ Knows(contact, pen, seen)
      /\ queue \in Seq(Event)
  BY DEF IInv, TypeOK
<1>2. /\ queue # <<>> /\ queue' = Redated(queue, Wait(Head(queue)))
      /\ UNCHANGED <<hold, lastSlot, started, contact, pen, mouse, background, running, seen>>
  BY DEF Defer, Due, Redated
<1>3. Wait(Head(queue)) \in Int
  <2>1. Head(queue) \in Event
    BY <1>1, <1>2, HeadIs
  <2>2. Wait(Head(queue)) \in Nat
    BY <1>1, <2>1, WaitIs
  <2>3. QED
    BY <2>2
<1>4. /\ queue' \in Seq(Event) /\ Ordered(queue') /\ queue' # <<>>
      /\ SameStart(queue'[1], queue[1])
      /\ queue'[Len(queue')].x = queue[Len(queue)].x
      /\ queue'[Len(queue')].down <=> queue[Len(queue)].down
  BY <1>1, <1>2, <1>3, NewDeadline
<1>5. Ends(queue', mouse, pen)
  BY <1>1, <1>2, <1>4 DEF Ends, SameStart
<1>6. TypeOK'
  BY <1>1, <1>2, <1>4 DEF TypeOK
<1>7. QED
  BY <1>1, <1>2, <1>4, <1>5, <1>6 DEF IInv

\* What Deliver does, its event called by name.
Delivered(e) ==
  /\ e \in Event /\ e = queue[1] /\ queue # <<>> /\ Wait(e) = 0
  /\ contact' = [down |-> e.down,
                 x |-> IF e.down THEN Toward(e) ELSE contact.x,
                 left |-> IF e.press THEN MinHold ELSE contact.left,
                 since |-> 0]
  /\ queue' = IF Toward(e) = e.x THEN Tail(queue) ELSE Redated(queue, Interval)
  /\ PenTakes(e, Toward(e))
  /\ UNCHANGED <<hold, lastSlot, started, mouse, background, running>>

LEMMA DeliverIs ==
  ASSUME IInv, Deliver
  PROVE  Delivered(queue[1])
<1>1. queue # <<>> /\ queue \in Seq(Event)
  BY DEF Deliver, Due, IInv, TypeOK
<1>2. Head(queue) = queue[1] /\ queue[1] \in Event
  BY <1>1, HeadIs
<1>3. QED
  BY <1>1, <1>2 DEF Deliver, Delivered, Redated

LEMMA PenTakesIs ==
  ASSUME TypeOK, NEW e \in Event, NEW x \in Nat, PenTakes(e, x)
  PROVE  /\ pen' \in [down : BOOLEAN, x : Nat]
         /\ pen'.down <=> e.down
         /\ pen'.x = IF e.down THEN x ELSE pen.x
         /\ seen' \in [edge : 0..MinHold, point : 0..Sample]
         /\ (pen.down <=> e.down) => seen'.edge = seen.edge
<1>1. pen \in [down : BOOLEAN, x : Nat] /\ e.down \in BOOLEAN /\ pen.down \in BOOLEAN
  BY DEF TypeOK, Event
<1>2. /\ e.down => pen' = [down |-> TRUE, x |-> x]
      /\ ~e.down => pen' = [pen EXCEPT !.down = FALSE]
  BY DEF PenTakes
<1>3. /\ pen' \in [down : BOOLEAN, x : Nat]
      /\ pen'.down <=> e.down
      /\ pen'.x = IF e.down THEN x ELSE pen.x
  <2>1. CASE e.down
    <3>1. pen' = [down |-> TRUE, x |-> x]
      BY <1>2, <2>1
    <3>2. pen' \in [down : BOOLEAN, x : Nat] /\ pen'.down = TRUE /\ pen'.x = x
      BY <3>1
    <3>3. QED
      BY <2>1, <3>2
  <2>2. CASE ~e.down
    <3>1. pen' = [pen EXCEPT !.down = FALSE]
      BY <1>2, <2>2
    <3>2. pen' \in [down : BOOLEAN, x : Nat] /\ pen'.down = FALSE /\ pen'.x = pen.x
      BY <1>1, <3>1
    <3>3. QED
      BY <2>2, <3>2
  <2>3. QED
    BY <2>1, <2>2
<1>4. seen.edge \in 0..MinHold /\ seen.point \in 0..Sample /\ 0 \in 0..MinHold /\ 0 \in 0..Sample
  BY Constants DEF TypeOK
<1>5. PICK edge \in {seen.edge, 0}, point \in {seen.point, 0} :
        /\ seen' = [edge |-> edge, point |-> point]
        /\ pen.down = e.down => edge = seen.edge
  BY DEF PenTakes
<1>6. seen' \in [edge : 0..MinHold, point : 0..Sample] /\ seen'.edge = edge
  BY <1>4, <1>5
<1>7. (pen.down <=> e.down) => pen.down = e.down
  BY <1>1
<1>8. QED
  BY <1>3, <1>5, <1>6, <1>7

LEMMA DeliverKeeps == IInv /\ Deliver => IInv'
<1> SUFFICES ASSUME IInv, Deliver PROVE IInv'
  OBVIOUS
<1> DEFINE e == queue[1]
           x == Toward(e)
<1>1. TypeOK /\ Ordered(queue) /\ Ends(queue, mouse, pen) /\ Knows(contact, pen, seen)
      /\ queue \in Seq(Event)
  BY DEF IInv, TypeOK
<1>2. Delivered(e)
  BY DeliverIs
<1> HIDE DEF e
<1>3. /\ e \in Event /\ e = queue[1] /\ queue # <<>> /\ Wait(e) = 0
      /\ contact' = [down |-> e.down,
                     x |-> IF e.down THEN x ELSE contact.x,
                     left |-> IF e.press THEN MinHold ELSE contact.left,
                     since |-> 0]
      /\ queue' = IF x = e.x THEN Tail(queue) ELSE Redated(queue, Interval)
      /\ PenTakes(e, x)
      /\ UNCHANGED <<hold, lastSlot, started, mouse, background, running>>
  BY <1>2 DEF Delivered
<1>4. x \in Nat /\ (x # e.x => Motion(e) /\ contact.down)
  BY <1>1, <1>3, TowardIs
<1> HIDE DEF x
<1>5. /\ pen' \in [down : BOOLEAN, x : Nat]
      /\ pen'.down <=> e.down
      /\ pen'.x = IF e.down THEN x ELSE pen.x
      /\ seen' \in [edge : 0..MinHold, point : 0..Sample]
      /\ (pen.down <=> e.down) => seen'.edge = seen.edge
  BY <1>1, <1>3, <1>4, PenTakesIs
<1>6. /\ (mouse.down <=> queue[Len(queue)].down) /\ mouse.x = queue[Len(queue)].x
      /\ (pen.down <=> ~e.press) /\ (~e.down => e.x = pen.x)
  BY <1>1, <1>3 DEF Ends
<1>7. /\ queue' \in Seq(Event) /\ Ordered(queue') /\ Ends(queue', mouse, pen')
  <2>1. CASE x = e.x
    <3>1. queue' = Tail(queue)
      BY <1>3, <2>1
    <3>2. /\ Tail(queue) \in Seq(Event) /\ Ordered(Tail(queue))
          /\ Tail(queue) = <<>> <=> Len(queue) = 1
          /\ Tail(queue) # <<>> => /\ Tail(queue)[1] = queue[2] /\ Behind(queue[1], queue[2])
                                   /\ Tail(queue)[Len(Tail(queue))] = queue[Len(queue)]
      BY <1>1, <1>3, TailKeepsOrder
    <3>3. pen'.x = e.x
      BY <1>5, <1>6, <2>1
    <3>4. CASE queue' = <<>>
      <4>1. (mouse.down <=> e.down) /\ mouse.x = e.x
        BY <1>3, <1>6, <3>1, <3>2, <3>4
      <4>2. Ends(queue', mouse, pen')
        BY <1>5, <3>3, <3>4, <4>1 DEF Ends
      <4>3. QED
        BY <3>1, <3>2, <4>2
    <3>5. CASE queue' # <<>>
      <4>1. /\ queue'[1] = queue[2] /\ Behind(e, queue[2])
            /\ queue'[Len(queue')] = queue[Len(queue)]
        BY <1>3, <3>1, <3>2, <3>5
      <4>2. Ends(queue', mouse, pen')
        BY <1>5, <1>6, <3>3, <3>5, <4>1 DEF Ends, Behind
      <4>3. QED
        BY <3>1, <3>2, <4>2
    <3>6. QED
      BY <3>4, <3>5
  <2>2. CASE x # e.x
    <3>1. queue' = Redated(queue, Interval) /\ Interval \in Int
      BY <1>3, <2>2 DEF Interval
    <3>2. /\ queue' \in Seq(Event) /\ Ordered(queue') /\ queue' # <<>>
          /\ SameStart(queue'[1], queue[1])
          /\ queue'[Len(queue')].x = queue[Len(queue)].x
          /\ queue'[Len(queue')].down <=> queue[Len(queue)].down
      BY <1>1, <1>3, <3>1, NewDeadline
    <3>3. e.down /\ ~e.press
      BY <1>4, <2>2 DEF Motion
    <3>4. Ends(queue', mouse, pen')
      BY <1>3, <1>5, <1>6, <3>2, <3>3 DEF Ends, SameStart
    <3>5. QED
      BY <3>2, <3>4
  <2>3. QED
    BY <2>1, <2>2
<1>8. /\ contact' \in [down : BOOLEAN, x : Nat, left : 0..MinHold, since : 0..Sample]
      /\ contact'.down <=> e.down
      /\ e.down => contact'.x = x
      /\ e.press => contact'.left = MinHold
      /\ ~e.press => contact'.left = contact.left
      /\ contact'.since = 0
  <2> DEFINE to == IF e.down THEN x ELSE contact.x
             left == IF e.press THEN MinHold ELSE contact.left
  <2>1. /\ contact.left \in 0..MinHold /\ contact.x \in Nat
        /\ MinHold \in 0..MinHold /\ 0 \in 0..Sample
    BY <1>1, Constants DEF TypeOK
  <2>2. e.down \in BOOLEAN
    BY <1>3 DEF Event
  <2>3. to \in Nat /\ left \in 0..MinHold
    BY <1>4, <2>1
  <2>4. /\ e.down => to = x
        /\ e.press => left = MinHold
        /\ ~e.press => left = contact.left
    OBVIOUS
  <2>5. contact' = [down |-> e.down, x |-> to, left |-> left, since |-> 0]
    BY <1>3
  <2> HIDE DEF to, left
  <2>6. contact' \in [down : BOOLEAN, x : Nat, left : 0..MinHold, since : 0..Sample]
    BY <2>1, <2>2, <2>3, <2>5
  <2>7. contact'.down = e.down /\ contact'.x = to /\ contact'.left = left /\ contact'.since = 0
    BY <2>5
  <2>8. QED
    BY <2>4, <2>6, <2>7
<1>9. Knows(contact', pen', seen')
  <2>1. SUFFICES ASSUME pen'.down
                 PROVE  /\ contact'.down /\ contact'.x = pen'.x
                        /\ seen'.edge + contact'.left >= MinHold
                        /\ seen'.point >= contact'.since
    BY DEF Knows
  <2>2. e.down /\ contact'.down /\ contact'.x = pen'.x
    BY <1>5, <1>8, <2>1
  <2>3. seen'.edge \in Nat /\ seen'.point \in Nat /\ MinHold \in Nat
    BY <1>5, Constants
  <2>4. seen'.point >= contact'.since
    BY <1>8, <2>3
  <2>5. CASE e.press
    BY <1>8, <2>2, <2>3, <2>4, <2>5
  <2>6. CASE ~e.press
    <3>1. pen.down /\ seen'.edge = seen.edge /\ contact'.left = contact.left
      BY <1>5, <1>6, <1>8, <2>2, <2>6
    <3>2. seen.edge + contact.left >= MinHold
      BY <1>1, <3>1 DEF Knows
    <3>3. QED
      BY <2>2, <2>4, <3>1, <3>2
  <2>7. QED
    BY <2>5, <2>6
<1>10. TypeOK'
  BY <1>1, <1>3, <1>5, <1>7, <1>8 DEF TypeOK
<1>11. QED
  BY <1>3, <1>7, <1>9, <1>10 DEF IInv

LEMMA NextIInv == IInv /\ [Next]_vars => IInv'
<1> SUFFICES ASSUME IInv, [Next]_vars PROVE IInv'
  OBVIOUS
<1>1. CASE Host
  BY <1>1, HostPressesKeeps, HostMovesKeeps, HostLiftsKeeps, HostHidesKeeps, LoopKeeps DEF Host
<1>2. CASE StartFrame \/ EndFrame
  BY <1>2, LoopKeeps
<1>3. CASE Defer
  BY <1>3, DeferKeeps
<1>4. CASE Deliver
  BY <1>4, DeliverKeeps
<1>5. CASE Elapse
  BY <1>5, ElapseKeeps
<1>6. CASE UNCHANGED vars
  <2>1. background' \in BOOLEAN /\ running' \in BOOLEAN
    BY <1>6 DEF vars, IInv, TypeOK
  <2>2. QED
    BY <1>6, <2>1, OnlyTheLoop DEF vars
<1>7. QED
  BY <1>1, <1>2, <1>3, <1>4, <1>5, <1>6 DEF Next

-----------------------------------------------------------------------------
\* The queue is in order, however the host moves and however late it is polled:
\* it holds the edges and one motion of each contact (mh_pen_enqueue).
THEOREM QueueInOrder == Spec => []PenOK
<1>1. IInv => PenOK
  <2> SUFFICES ASSUME IInv PROVE PenOK
    OBVIOUS
  <2>1. TypeOK /\ Ordered(queue) /\ Ends(queue, mouse, pen) /\ queue \in Seq(Event)
    BY DEF IInv, TypeOK
  <2>2. ASSUME NEW i \in 2..Len(queue)
        PROVE  /\ i > 2 => queue[i - 1].in <= queue[i].in
               /\ ~(Motion(queue[i - 1]) /\ Motion(queue[i]))
               /\ queue[i].press = ~queue[i - 1].down
    <3>1. /\ i > 2 => queue[i - 1].in <= queue[i].in
          /\ ~(Motion(queue[i - 1]) /\ Motion(queue[i]))
          /\ queue[i].press <=> ~queue[i - 1].down
      BY <2>1 DEF Ordered, Behind
    <3>2. Len(queue) \in Nat
      BY <2>1, LenProperties
    <3>3. i \in 1..Len(queue) /\ i - 1 \in 1..Len(queue)
      BY <2>2, <3>2
    <3>4. queue[i].press \in BOOLEAN /\ queue[i - 1].down \in BOOLEAN
      BY <2>1, <3>3, QueueElement
    <3>5. queue[i].press = ~queue[i - 1].down
      BY <3>1, <3>4
    <3>6. QED
      BY <3>1, <3>5
  <2>3. ASSUME queue # <<>>
        PROVE  mouse.down = Last(queue).down /\ pen.down = ~Head(queue).press
    <3>1. (mouse.down <=> queue[Len(queue)].down) /\ (pen.down <=> ~queue[1].press)
      BY <2>1, <2>3 DEF Ends
    <3>2. /\ queue[Len(queue)].down \in BOOLEAN /\ queue[1].press \in BOOLEAN
          /\ mouse.down \in BOOLEAN /\ pen.down \in BOOLEAN
      BY <2>1, <2>3, NotEmpty, QueueElement DEF TypeOK
    <3>3. Head(queue) = queue[1] /\ Last(queue) = queue[Len(queue)]
      BY <2>1, <2>3, HeadIs DEF Last
    <3>4. mouse.down = queue[Len(queue)].down
      BY <3>1, <3>2
    <3>5. pen.down = ~queue[1].press
      BY <3>1, <3>2
    <3>6. QED
      BY <3>3, <3>4, <3>5
  <2>4. QED
    BY <2>1, <2>2, <2>3 DEF PenOK
<1>2. QED
  BY <1>1, InitIInv, NextIInv, PTL DEF Spec

\* Only Deliver moves the pen, but for the application going to the background.
LEMMA OthersLeaveThePen ==
  [Next]_vars => HostHides \/ Deliver \/ UNCHANGED pen
BY DEF Next, Host, HostPresses, HostMoves, HostLifts, HostShows, StartFrame,
       Defer, Elapse, EndFrame, vars

LEMMA DeliveredWhole ==
  ASSUME IInv, Deliver
  PROVE  ContactIsWhole
<1> DEFINE e == queue[1]
           x == Toward(e)
<1>1. TypeOK /\ Ends(queue, mouse, pen) /\ Knows(contact, pen, seen) /\ queue \in Seq(Event)
  BY DEF IInv, TypeOK
<1>2. Delivered(e)
  BY DeliverIs
<1> HIDE DEF e
<1>3. /\ e \in Event /\ e = queue[1] /\ queue # <<>> /\ Wait(e) = 0 /\ PenTakes(e, x)
  BY <1>2 DEF Delivered
<1>4. Head(queue) = e
  BY <1>1, <1>3, HeadIs
<1>5. /\ x \in Nat
      /\ Motion(e) /\ contact.down => x - contact.x \in -Step..Step
  BY <1>1, <1>3, TowardIs
<1>6. /\ ~e.press /\ ~e.down => contact.left = 0 /\ contact.since = Sample
      /\ Motion(e) /\ contact.down => contact.since >= Interval
  BY <1>1, <1>3, WaitIs
<1> HIDE DEF x
<1>7. /\ pen'.down <=> e.down
      /\ pen'.x = IF e.down THEN x ELSE pen.x
  BY <1>1, <1>3, <1>5, PenTakesIs
<1>8. (pen.down <=> ~e.press) /\ (~e.down => e.x = pen.x)
  BY <1>1, <1>3 DEF Ends
<1>9. /\ seen.edge \in 0..MinHold /\ seen.point \in 0..Sample
      /\ contact.left \in 0..MinHold /\ contact.since \in 0..Sample
      /\ MinHold \in Nat /\ Sample \in Nat
  BY <1>1, Constants DEF TypeOK
<1>10. pen.down => /\ contact.down /\ contact.x = pen.x
                   /\ seen.edge + contact.left >= MinHold
                   /\ seen.point >= contact.since
  BY <1>1 DEF Knows
<1>11. ASSUME pen.down, ~pen'.down
       PROVE  seen.edge = MinHold /\ seen.point = Sample /\ pen.x = Head(queue).x
  <2>1. ~e.press /\ ~e.down /\ contact.left = 0 /\ contact.since = Sample /\ e.x = pen.x
    BY <1>6, <1>7, <1>8, <1>11
  <2>2. seen.edge = MinHold /\ seen.point = Sample
    BY <1>9, <1>10, <1>11, <2>1
  <2>3. QED
    BY <1>4, <2>1, <2>2
<1>12. ASSUME pen.down, pen'.down
       PROVE  pen'.x - pen.x \in -Step..Step /\ seen.point >= Interval
  <2>1. Motion(e) /\ e.down /\ contact.down
    BY <1>7, <1>8, <1>10, <1>12 DEF Motion
  <2>2. pen'.x = x /\ contact.x = pen.x /\ x - contact.x \in -Step..Step
    BY <1>5, <1>7, <1>10, <1>12, <2>1
  <2>3. contact.since >= Interval /\ seen.point >= contact.since
    BY <1>6, <1>10, <1>12, <2>1
  <2>4. seen.point >= Interval
    BY <1>9, <2>3 DEF Interval
  <2>5. QED
    BY <2>2, <2>4
<1>13. QED
  BY <1>11, <1>12 DEF ContactIsWhole

\* Each contact reaches the guest whole: the pen is lifted after the promised
\* time, a sample at the point where the host let go, and goes a step at most
\* in an interval (mh_pen_deliver), whatever the guest's lag.
THEOREM ContactsReachTheGuest == Spec => ContactsAreWhole
<1>1. IInv /\ [Next]_vars => [~HostHides => ContactIsWhole]_vars
  <2> SUFFICES ASSUME IInv, [Next]_vars, ~HostHides PROVE ContactIsWhole
    OBVIOUS
  <2>1. CASE Deliver
    BY <2>1, DeliveredWhole
  <2>2. CASE UNCHANGED pen
    BY <2>2 DEF ContactIsWhole
  <2>3. QED
    BY <2>1, <2>2, OthersLeaveThePen
<1>2. QED
  BY <1>1, InitIInv, NextIInv, PTL DEF Spec, ContactsAreWhole
=============================================================================
