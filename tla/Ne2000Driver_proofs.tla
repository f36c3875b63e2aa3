------------------------ MODULE Ne2000Driver_proofs ------------------------
(***************************************************************************)
(* Theorems about the Ethernet chip and its driver, for a ring of any size *)
(* from three pages on, frames of any sizes that fit it, any modes and any *)
(* value the driver writes to the boundary register for a frame that ends  *)
(* with the ring.                                                          *)
(*                                                                         *)
(* Places in the ring are counted from the page the driver reads next, so  *)
(* that wrapping disappears: the unread frames take the pages from 0 to    *)
(* PagesOf(queue), the chip's page comes behind them, and whatever is      *)
(* stored there touches none of theirs.  PagesOf is a sum over the queue;  *)
(* what it does when a frame is appended or taken is shown from a least    *)
(* counterexample (Least, UpTo).                                           *)
(*                                                                         *)
(* The invariant relates driver, chip and ring at every step of a          *)
(* handler: RingOK holds the unread frames and keeps the boundary right    *)
(* behind them, ReadingOK says which pages a read of the ring has got so   *)
(* far and where the remote DMA stands, FillOK that the transmit page is   *)
(* what a remote write goes to, OffOK and OnOK what the driver knows       *)
(* before and after it has set the chip up.                                *)
(***************************************************************************)
EXTENDS Ne2000Driver, SequenceTheorems, WellFoundedInduction, TLAPS

\* Frames the ring can hold, the pages before the i-th frame of a queue, and
\* what the ring holds of the queue from page next on.
Frames == [frame : Int, size : 1..(RingSize - 2)]

Start(q, i) == PagesOf(SubSeq(q, 1, i - 1))

-----------------------------------------------------------------------------
\* Induction comes from the least element of a set of numbers.
LEMMA Least ==
  ASSUME NEW S \in SUBSET Nat, S # {}
  PROVE  \E k \in S : \A l \in S : k <= l
<1>1. PICK x \in S : \A y \in S : ~(<<y, x>> \in OpToRel(<, Nat))
  BY NatLessThanWellFounded, WFMin
<1>2. \A y \in S : <<y, x>> \in Nat \X Nat
  OBVIOUS
<1>3. \A y \in S : ~(y < x)
  BY <1>1, <1>2 DEF OpToRel
<1>4. QED
  BY <1>3

\* A set of numbers that holds 0 and with each number up to n the next one.
LEMMA UpTo ==
  ASSUME NEW n \in Nat, NEW S, 0 \in S, \A i \in 1..n : i - 1 \in S => i \in S
  PROVE  0..n \subseteq S
<1> SUFFICES ASSUME (0..n) \ S # {}
             PROVE  FALSE
  OBVIOUS
<1>1. PICK k \in (0..n) \ S : \A l \in (0..n) \ S : k <= l
  <2>1. (0..n) \ S \in SUBSET Nat
    OBVIOUS
  <2> DEFINE T == (0..n) \ S
  <2>2. T \in SUBSET Nat /\ T # {}
    BY <2>1
  <2> HIDE DEF T
  <2>3. \E k \in T : \A l \in T : k <= l
    BY <2>2, Least
  <2>4. QED
    BY <2>3 DEF T
<1>2. k \in 1..n
  BY <1>1
<1>3. k - 1 \in 0..n /\ ~(k <= k - 1)
  BY <1>2
<1>4. k - 1 \in S
  BY <1>1, <1>3
<1>5. QED
  BY <1>1, <1>2, <1>4

-----------------------------------------------------------------------------
\* The pages of a queue are the last of any sums of its sizes.
Sums(q, s) ==
  s = [i \in 0..Len(q) |-> IF i = 0 THEN 0 ELSE s[i - 1] + q[i].size]

LEMMA SumsAgree ==
  ASSUME NEW q, Len(q) \in Nat, NEW s, Sums(q, s), NEW t, Sums(q, t)
  PROVE  s = t
<1> DEFINE S == {i \in 0..Len(q) : s[i] = t[i]}
<1>1. 0 \in S
  BY DEF Sums
<1>2. ASSUME NEW i \in 1..Len(q), i - 1 \in S PROVE i \in S
  <2>1. i \in 0..Len(q) /\ i # 0
    OBVIOUS
  <2>2. s[i] = s[i - 1] + q[i].size /\ t[i] = t[i - 1] + q[i].size
    BY <2>1 DEF Sums
  <2>3. QED
    BY <1>2, <2>1, <2>2
<1>3. 0..Len(q) \subseteq S
  <2> HIDE DEF S
  <2>1. QED
    BY <1>1, <1>2, UpTo
<1>4. \A i \in 0..Len(q) : s[i] = t[i]
  BY <1>3
<1>5. QED
  BY <1>4 DEF Sums

LEMMA PagesAre ==
  ASSUME NEW q, Len(q) \in Nat, NEW s, Sums(q, s)
  PROVE  PagesOf(q) = s[Len(q)]
<1> DEFINE u == CHOOSE u : Sums(q, u)
<1>1. PagesOf(q) = u[Len(q)]
  BY DEF PagesOf, Sums
<1>2. Sums(q, u)
  OBVIOUS
<1> HIDE DEF u
<1>3. u = s
  BY <1>2, SumsAgree
<1>4. QED
  BY <1>1, <1>3

\* Sums of the first n sizes, and that every queue has them.
Adds(q, n, s) ==
  /\ s \in [0..n -> Nat] /\ s[0] = 0
  /\ \A i \in 1..n : s[i] = s[i - 1] + q[i].size

LEMMA SumsExist ==
  ASSUME NEW q, Len(q) \in Nat, \A i \in 1..Len(q) : q[i].size \in Nat
  PROVE  \E s : Adds(q, Len(q), s)
<1> DEFINE S == {n \in 0..Len(q) : \E s : Adds(q, n, s)}
<1>1. 0 \in S
  <2> DEFINE s == [i \in 0..0 |-> 0]
  <2>1. Adds(q, 0, s)
    BY DEF Adds
  <2>2. 0 \in 0..Len(q)
    OBVIOUS
  <2> HIDE DEF s
  <2>3. QED
    BY <2>1, <2>2
<1>2. ASSUME NEW n \in 1..Len(q), n - 1 \in S PROVE n \in S
  <2>1. PICK s : Adds(q, n - 1, s)
    BY <1>2
  <2> DEFINE t == [i \in 0..n |-> IF i = n THEN s[n - 1] + q[n].size ELSE s[i]]
  <2>2. n \in Nat /\ n > 0 /\ n \in 0..Len(q) /\ n - 1 \in 0..(n - 1) /\ q[n].size \in Nat
    OBVIOUS
  <2>3. \A i \in 0..n : t[i] \in Nat
    <3>1. \A i \in 0..n : i # n => i \in 0..(n - 1)
      BY <2>2
    <3>2. QED
      BY <2>1, <2>2, <3>1 DEF Adds
  <2>4. t[0] = 0
    BY <2>1, <2>2 DEF Adds
  <2>5. ASSUME NEW i \in 1..n PROVE t[i] = t[i - 1] + q[i].size
    <3>1. i \in 0..n /\ i - 1 \in 0..n /\ i - 1 # n
      BY <2>2
    <3>2. t[i - 1] = s[i - 1]
      BY <3>1
    <3>3. CASE i = n
      BY <3>1, <3>2, <3>3
    <3>4. CASE i # n
      <4>1. i \in 1..(n - 1) /\ t[i] = s[i]
        BY <2>2, <3>1, <3>4
      <4>2. QED
        BY <2>1, <3>2, <4>1 DEF Adds
    <3>5. QED
      BY <3>3, <3>4
  <2>6. t \in [0..n -> Nat]
    BY <2>3
  <2> HIDE DEF t
  <2>7. Adds(q, n, t)
    BY <2>4, <2>5, <2>6 DEF Adds
  <2>8. QED
    BY <2>2, <2>7
<1> HIDE DEF S
<1>3. 0..Len(q) \subseteq S
  BY <1>1, <1>2, UpTo
<1>4. Len(q) \in S
  BY <1>3
<1>5. QED
  BY <1>4 DEF S

LEMMA PagesAdd ==
  ASSUME NEW T, NEW q \in Seq(T), NEW n \in 0..Len(q), NEW s, Adds(q, n, s)
  PROVE  PagesOf(SubSeq(q, 1, n)) = s[n]
<1> DEFINE p == SubSeq(q, 1, n)
<1>1. Len(q) \in Nat /\ n \in Nat /\ Len(p) = n /\ \A i \in 1..n : p[i] = q[i]
  <2>1. Len(q) \in Nat
    BY LenProperties
  <2>2. 1 \in 1..(Len(q) + 1) /\ n \in (1 - 1)..Len(q) /\ n \in Nat
    BY <2>1
  <2>3. Len(p) = n - 1 + 1 /\ \A i \in 1..(n - 1 + 1) : p[i] = q[1 + i - 1]
    BY <2>2, SubSeqProperties
  <2>4. n - 1 + 1 = n /\ \A i \in 1..n : 1 + i - 1 = i
    BY <2>2
  <2>5. QED
    BY <2>1, <2>2, <2>3, <2>4
<1> HIDE DEF p
<1>2. Sums(p, s)
  <2>1. s = [i \in 0..n |-> s[i]]
    BY DEF Adds
  <2>2. ASSUME NEW i \in 0..n
        PROVE  s[i] = IF i = 0 THEN 0 ELSE s[i - 1] + p[i].size
    <3>1. i # 0 => i \in 1..n
      BY <1>1
    <3>2. QED
      BY <1>1, <3>1 DEF Adds
  <2>3. QED
    BY <1>1, <2>1, <2>2 DEF Sums
<1>3. PagesOf(p) = s[Len(p)]
  BY <1>1, <1>2, PagesAre
<1>4. QED
  BY <1>1, <1>3 DEF p

\* The place of a frame is the sum of the sizes before it.
LEMMA Starts ==
  ASSUME NEW q \in Seq(Frames)
  PROVE  /\ Len(q) \in Nat
         /\ \A i \in 1..Len(q) : q[i] \in Frames /\ q[i].size \in Nat /\ q[i].size > 0
         /\ \A i \in 1..(Len(q) + 1) : Start(q, i) \in Nat
         /\ Start(q, 1) = 0 /\ Start(q, Len(q) + 1) = PagesOf(q) /\ PagesOf(q) \in Nat
         /\ \A i \in 1..Len(q) : Start(q, i + 1) = Start(q, i) + q[i].size
<1>1. Len(q) \in Nat /\ \A i \in 1..Len(q) : q[i] \in Frames /\ q[i].size \in Nat /\ q[i].size > 0
  <2>1. Len(q) \in Nat /\ \A i \in 1..Len(q) : q[i] \in Frames
    BY LenProperties, ElementOfSeq
  <2>2. QED
    BY <2>1 DEF Frames
<1>2. PICK s : Adds(q, Len(q), s)
  BY <1>1, SumsExist
<1>3. \A n \in 0..Len(q) : Adds(q, n, [i \in 0..n |-> s[i]])
  <2> SUFFICES ASSUME NEW n \in 0..Len(q)
               PROVE  Adds(q, n, [i \in 0..n |-> s[i]])
    OBVIOUS
  <2>1. /\ \A i \in 0..n : i \in 0..Len(q)
        /\ \A i \in 1..n : i \in 1..Len(q) /\ i \in 0..n /\ i - 1 \in 0..n
        /\ 0 \in 0..n
    BY <1>1
  <2>2. QED
    BY <1>2, <2>1 DEF Adds
<1>4. \A n \in 0..Len(q) : PagesOf(SubSeq(q, 1, n)) = s[n]
  <2> SUFFICES ASSUME NEW n \in 0..Len(q)
               PROVE  PagesOf(SubSeq(q, 1, n)) = s[n]
    OBVIOUS
  <2> DEFINE t == [i \in 0..n |-> s[i]]
  <2>1. Adds(q, n, t) /\ t[n] = s[n]
    BY <1>1, <1>3
  <2> HIDE DEF t
  <2>2. PagesOf(SubSeq(q, 1, n)) = t[n]
    BY <2>1, PagesAdd
  <2>3. QED
    BY <2>1, <2>2
<1>5. \A i \in 1..(Len(q) + 1) : i - 1 \in 0..Len(q) /\ Start(q, i) = s[i - 1]
  BY <1>1, <1>4 DEF Start
<1>6. SubSeq(q, 1, Len(q)) = q
  BY <1>1, SubSeqFull
<1>7. PagesOf(q) = s[Len(q)] /\ Start(q, Len(q) + 1) = s[Len(q)]
  <2>1. Len(q) \in 0..Len(q) /\ Len(q) + 1 \in 1..(Len(q) + 1) /\ Len(q) + 1 - 1 = Len(q)
    BY <1>1
  <2>2. PagesOf(SubSeq(q, 1, Len(q))) = s[Len(q)]
    BY <1>4, <2>1
  <2>3. Start(q, Len(q) + 1) = s[Len(q) + 1 - 1]
    BY <1>5, <2>1
  <2> DEFINE p == SubSeq(q, 1, Len(q))
  <2>4. PagesOf(p) = s[Len(q)] /\ p = q
    BY <1>6, <2>2
  <2> HIDE DEF p
  <2>5. PagesOf(q) = s[Len(q)]
    BY <2>4
  <2>6. QED
    BY <2>1, <2>3, <2>5
<1>8. ASSUME NEW i \in 1..Len(q)
      PROVE  Start(q, i + 1) = Start(q, i) + q[i].size
  <2>1. i + 1 \in 1..(Len(q) + 1) /\ i \in 1..(Len(q) + 1) /\ i + 1 - 1 = i
    BY <1>1
  <2>2. Start(q, i + 1) = s[i] /\ Start(q, i) = s[i - 1]
    BY <1>5, <2>1
  <2>3. QED
    BY <1>2, <2>2 DEF Adds
<1>9. \A i \in 1..(Len(q) + 1) : Start(q, i) \in Nat
  BY <1>2, <1>5 DEF Adds
<1>10. Start(q, 1) = 0
  <2>1. 1 \in 1..(Len(q) + 1)
    BY <1>1
  <2>2. QED
    BY <1>2, <1>5, <2>1 DEF Adds
<1>11. PagesOf(q) \in Nat
  <2>1. Len(q) \in 0..Len(q)
    BY <1>1
  <2>2. QED
    BY <1>2, <1>7, <2>1 DEF Adds
<1>12. QED
  BY <1>1, <1>7, <1>8, <1>9, <1>10, <1>11

LEMMA StartsRise ==
  ASSUME NEW q \in Seq(Frames), NEW i \in 1..(Len(q) + 1), NEW j \in 1..(Len(q) + 1), i <= j
  PROVE  Start(q, i) <= Start(q, j)
<1>1. /\ Len(q) \in Nat /\ \A k \in 1..(Len(q) + 1) : Start(q, k) \in Nat
      /\ \A k \in 1..Len(q) : Start(q, k + 1) = Start(q, k) + q[k].size /\ q[k].size \in Nat
  BY Starts
<1> DEFINE S == {n \in 0..Len(q) : i <= n + 1 => Start(q, i) <= Start(q, n + 1)}
<1>2. 0 \in S
  <2>1. 0 \in 0..Len(q) /\ (i <= 0 + 1 => i = 0 + 1)
    BY <1>1
  <2>2. Start(q, i) \in Nat
    BY <1>1
  <2>3. QED
    BY <2>1, <2>2
<1>3. ASSUME NEW n \in 1..Len(q), n - 1 \in S PROVE n \in S
  <2>1. n \in 0..Len(q) /\ n + 1 \in 1..(Len(q) + 1) /\ n \in 1..(Len(q) + 1) /\ n - 1 + 1 = n
    BY <1>1
  <2>2. i <= n => Start(q, i) <= Start(q, n)
    BY <1>3, <2>1
  <2>3. Start(q, n + 1) = Start(q, n) + q[n].size /\ q[n].size \in Nat /\ Start(q, n) \in Nat
        /\ Start(q, i) \in Nat
    BY <1>1, <2>1
  <2>4. CASE i <= n
    BY <2>1, <2>2, <2>3, <2>4
  <2>5. CASE i = n + 1
    BY <2>1, <2>3, <2>5
  <2>6. CASE i > n + 1
    BY <2>1, <2>6
  <2>7. QED
    BY <2>1, <2>4, <2>5, <2>6
<1> HIDE DEF S
<1>4. 0..Len(q) \subseteq S
  BY <1>1, <1>2, <1>3, UpTo
<1>5. j - 1 \in S
  BY <1>1, <1>4
<1>6. j - 1 + 1 = j
  OBVIOUS
<1>7. QED
  BY <1>5, <1>6 DEF S

-----------------------------------------------------------------------------
\* A frame more, and a frame less.
LEMMA StartAppend ==
  ASSUME NEW q \in Seq(Frames), NEW f \in Frames
  PROVE  /\ \A i \in 1..(Len(q) + 1) : Start(Append(q, f), i) = Start(q, i)
         /\ Start(Append(q, f), Len(q) + 2) = PagesOf(q) + f.size
         /\ PagesOf(Append(q, f)) = PagesOf(q) + f.size
<1> DEFINE r == Append(q, f)
<1>1. /\ r \in Seq(Frames) /\ Len(r) = Len(q) + 1 /\ r[Len(q) + 1] = f
      /\ \A i \in 1..Len(q) : r[i] = q[i]
  BY AppendProperties
<1>2. /\ Len(q) \in Nat /\ Start(q, 1) = 0 /\ Start(q, Len(q) + 1) = PagesOf(q)
      /\ \A i \in 1..Len(q) : Start(q, i + 1) = Start(q, i) + q[i].size
  BY Starts
<1> HIDE DEF r
<1>3. /\ Start(r, 1) = 0 /\ Start(r, Len(r) + 1) = PagesOf(r)
      /\ \A i \in 1..Len(r) : Start(r, i + 1) = Start(r, i) + r[i].size
  BY <1>1, Starts
<1> DEFINE S == {n \in 0..Len(q) : Start(r, n + 1) = Start(q, n + 1)}
<1>4. 0 \in S
  BY <1>2, <1>3
<1>5. ASSUME NEW n \in 1..Len(q), n - 1 \in S PROVE n \in S
  <2>1. n \in 0..Len(q) /\ n \in 1..Len(r) /\ n - 1 + 1 = n
    BY <1>1, <1>2
  <2>2. Start(r, n) = Start(q, n)
    BY <1>5, <2>1
  <2>3. QED
    BY <1>1, <1>2, <1>3, <2>1, <2>2
<1> HIDE DEF S
<1>6. 0..Len(q) \subseteq S
  BY <1>2, <1>4, <1>5, UpTo
<1>7. ASSUME NEW i \in 1..(Len(q) + 1) PROVE Start(r, i) = Start(q, i)
  <2>1. i - 1 \in 0..Len(q) /\ i - 1 + 1 = i
    BY <1>2
  <2>2. i - 1 \in S
    BY <1>6, <2>1
  <2>3. Start(r, i - 1 + 1) = Start(q, i - 1 + 1)
    BY <2>2 DEF S
  <2>4. QED
    BY <2>1, <2>3
<1>8. Start(r, Len(q) + 2) = PagesOf(q) + f.size /\ PagesOf(r) = PagesOf(q) + f.size
  <2>1. Len(q) + 1 \in 1..Len(r) /\ Len(q) + 1 \in 1..(Len(q) + 1) /\ Len(q) + 1 + 1 = Len(q) + 2
        /\ Len(r) + 1 = Len(q) + 2
    BY <1>1, <1>2
  <2>2. Start(r, Len(q) + 1 + 1) = Start(r, Len(q) + 1) + r[Len(q) + 1].size
    BY <1>3, <2>1
  <2>3. Start(r, Len(q) + 1) = Start(q, Len(q) + 1)
    BY <1>7, <2>1
  <2>4. QED
    BY <1>1, <1>2, <1>3, <2>1, <2>2, <2>3
<1>9. QED
  BY <1>7, <1>8 DEF r

LEMMA StartTail ==
  ASSUME NEW q \in Seq(Frames), q # <<>>
  PROVE  /\ \A i \in 1..Len(q) : Start(Tail(q), i) = Start(q, i + 1) - q[1].size
         /\ PagesOf(Tail(q)) = PagesOf(q) - q[1].size
         /\ q[1].size <= PagesOf(q)
<1> DEFINE r == Tail(q)
<1>1. /\ r \in Seq(Frames) /\ Len(r) = Len(q) - 1
      /\ \A i \in 1..Len(r) : r[i] = q[i + 1]
  BY HeadTailProperties
<1>2. Len(q) \in Nat /\ Len(q) > 0
  BY EmptySeq
<1>3. /\ Start(q, 1) = 0 /\ Start(q, Len(q) + 1) = PagesOf(q)
      /\ \A i \in 1..Len(q) : Start(q, i + 1) = Start(q, i) + q[i].size /\ q[i].size \in Nat
      /\ \A i \in 1..(Len(q) + 1) : Start(q, i) \in Nat
  BY Starts
<1> HIDE DEF r
<1>4. /\ Start(r, 1) = 0 /\ Start(r, Len(r) + 1) = PagesOf(r)
      /\ \A i \in 1..Len(r) : Start(r, i + 1) = Start(r, i) + r[i].size
  BY <1>1, Starts
<1>5. 1 \in 1..Len(q) /\ 1 \in 1..(Len(q) + 1) /\ 1 + 1 \in 1..(Len(q) + 1)
      /\ Len(q) + 1 \in 1..(Len(q) + 1)
  BY <1>2
<1>6. Start(q, 1 + 1) = q[1].size /\ q[1].size \in Nat
  BY <1>3, <1>5
<1> DEFINE S == {n \in 0..Len(r) : Start(r, n + 1) = Start(q, n + 1 + 1) - q[1].size}
<1>7. 0 \in S
  <2>1. 0 \in 0..Len(r) /\ 0 + 1 = 1
    BY <1>1, <1>2
  <2>2. Start(r, 0 + 1) = 0 /\ Start(q, 0 + 1 + 1) = q[1].size
    BY <1>4, <1>6, <2>1
  <2>3. QED
    BY <1>6, <2>1, <2>2
<1>8. ASSUME NEW n \in 1..Len(r), n - 1 \in S PROVE n \in S
  <2>1. n \in 0..Len(r) /\ n + 1 \in 1..Len(q) /\ n - 1 + 1 = n /\ n + 1 \in 1..(Len(q) + 1)
        /\ n - 1 + 1 + 1 = n + 1
    BY <1>1, <1>2
  <2>2. Start(r, n - 1 + 1) = Start(q, n - 1 + 1 + 1) - q[1].size
    BY <1>8
  <2>3. Start(r, n) = Start(q, n + 1) - q[1].size
    BY <2>1, <2>2
  <2>4. Start(r, n + 1) = Start(r, n) + r[n].size /\ r[n] = q[n + 1]
    BY <1>1, <1>4
  <2>5. Start(q, n + 1 + 1) = Start(q, n + 1) + q[n + 1].size /\ q[n + 1].size \in Nat
        /\ Start(q, n + 1) \in Nat
    BY <1>3, <2>1
  <2>6. Start(r, n + 1) = Start(q, n + 1 + 1) - q[1].size
    BY <1>6, <2>3, <2>4, <2>5
  <2>7. QED
    BY <2>1, <2>6
<1> HIDE DEF S
<1>9. 0..Len(r) \subseteq S
  <2>1. Len(r) \in Nat
    BY <1>1, <1>2
  <2>2. QED
    BY <1>7, <1>8, <2>1, UpTo
<1>10. ASSUME NEW i \in 1..Len(q) PROVE Start(r, i) = Start(q, i + 1) - q[1].size
  <2>1. i - 1 \in 0..Len(r) /\ i - 1 + 1 = i /\ i - 1 + 1 + 1 = i + 1
    BY <1>1, <1>2
  <2>2. i - 1 \in S
    BY <1>9, <2>1
  <2>3. Start(r, i - 1 + 1) = Start(q, i - 1 + 1 + 1) - q[1].size
    BY <2>2 DEF S
  <2>4. QED
    BY <2>1, <2>3
<1>11. PagesOf(r) = PagesOf(q) - q[1].size
  <2>1. Len(r) + 1 = Len(q) /\ Len(q) \in 1..Len(q)
    BY <1>1, <1>2
  <2>2. QED
    BY <1>3, <1>4, <1>10, <2>1
<1>12. q[1].size <= PagesOf(q)
  <2>1. Start(q, 1 + 1) <= Start(q, Len(q) + 1)
    BY <1>2, <1>5, StartsRise
  <2>2. QED
    BY <1>3, <1>6, <2>1
<1>13. QED
  BY <1>10, <1>11, <1>12 DEF r

LEMMA NoPages == PagesOf(<<>>) = 0 /\ <<>> \in Seq(Frames)
<1>1. <<>> \in Seq(Frames) /\ Len(<<>>) = 0
  BY EmptySeq
<1>2. Start(<<>>, 1) = 0 /\ Start(<<>>, Len(<<>>) + 1) = PagesOf(<<>>)
  BY <1>1, Starts
<1>3. Len(<<>>) + 1 = 1
  BY <1>1
<1>4. QED
  BY <1>1, <1>2, <1>3

-----------------------------------------------------------------------------
\* Pages around the ring.
LEMMA RingIs ==
  /\ PStart \in Nat /\ PStart > 0 /\ PStop \in Nat /\ RingSize \in Nat /\ RingSize > 2
  /\ PStop = PStart + RingSize /\ TxPage \in Nat /\ TxPage < PStart
BY RingAssumption DEF RingSize, TxPage

LEMMA Around ==
  ASSUME NEW n \in Ring, NEW a \in 0..RingSize
  PROVE  /\ Wrapped(n + a) \in Ring
         /\ \A b \in 0..RingSize : a + b <= RingSize => Wrapped(Wrapped(n + a) + b) = Wrapped(n + (a + b))
BY RingIs DEF Ring, Wrapped

\* How far a page is behind another one.
LEMMA Behind ==
  ASSUME NEW n \in Ring, NEW p \in 0..(RingSize - 1), NEW o \in 0..(RingSize - 1)
  PROVE  (Wrapped(n + o) - Wrapped(n + p)) % RingSize = IF o >= p THEN o - p ELSE o - p + RingSize
<1>1. \A x \in 0..(RingSize - 1) : x % RingSize = x /\ (x - RingSize) % RingSize = x
  BY RingIs
<1>2. LET x == Wrapped(n + o) - Wrapped(n + p)
          y == IF o >= p THEN o - p ELSE o - p + RingSize
      IN y \in 0..(RingSize - 1) /\ (x = y \/ x = y - RingSize)
  BY RingIs DEF Ring, Wrapped
<1>3. QED
  BY <1>1, <1>2

\* What a frame stored behind p pages from page n on does to the others.
LEMMA StorePages ==
  ASSUME NEW c, c.ram \in [Pages -> Parts(Int)], NEW n \in Ring, NEW p \in Nat,
         NEW size \in 1..(RingSize - 2), p + size < RingSize, c.nic.curr = Wrapped(n + p),
         NEW frame, NEW o \in 0..(RingSize - 1)
  PROVE  Store(c, frame, size).ram[Wrapped(n + o)] =
           IF p <= o /\ o < p + size
           THEN [frame |-> frame, part |-> o - p + 1, size |-> size,
                 next |-> Wrapped(n + (p + size))]
           ELSE c.ram[Wrapped(n + o)]
<1>1. Wrapped(n + o) \in Ring /\ Wrapped(n + o) \in Pages
  BY Around, RingIs DEF Pages
<1>2. Wrapped(c.nic.curr + size) = Wrapped(n + (p + size))
  BY Around, RingIs
<1>3. p \in 0..(RingSize - 1)
  BY RingIs
<1> DEFINE part(x) == 1 + ((x - c.nic.curr) % RingSize)
<1>4. part(Wrapped(n + o)) = 1 + IF o >= p THEN o - p ELSE o - p + RingSize
  BY <1>3, Behind
<1>5. Store(c, frame, size).ram[Wrapped(n + o)] =
        IF part(Wrapped(n + o)) <= size
        THEN [frame |-> frame, part |-> part(Wrapped(n + o)), size |-> size,
              next |-> Wrapped(n + (p + size))]
        ELSE c.ram[Wrapped(n + o)]
  BY <1>1, <1>2 DEF Store
<1> HIDE DEF part
<1>6. part(Wrapped(n + o)) <= size <=> (p <= o /\ o < p + size)
  BY <1>3, <1>4, RingIs
<1>7. p <= o => part(Wrapped(n + o)) = o - p + 1
  BY <1>3, <1>4
<1>8. QED
  BY <1>5, <1>6, <1>7

-----------------------------------------------------------------------------
\* What the ring holds of the unread frames q from page n on, and the
\* boundary that keeps the chip from them.
Holds(ram, q, n) ==
  \A i \in 1..Len(q) : \A k \in 1..q[i].size :
    ram[Wrapped(n + (Start(q, i) + k - 1))] =
      [frame |-> q[i].frame, part |-> k, size |-> q[i].size, next |-> Wrapped(n + Start(q, i + 1))]

Ringed(c, q, n) ==
  /\ PagesOf(q) < RingSize
  /\ c.nic.curr = Wrapped(n + PagesOf(q))
  /\ Holds(c.ram, q, n)

Guarded(m, q, n) ==
  m.bnry \in Ring => n = Wrapped(m.bnry + 1) /\ PagesOf(q) < RingSize - 1

\* Every page of the queue is less than its pages from the first.
LEMMA Offsets ==
  ASSUME NEW q \in Seq(Frames), NEW i \in 1..Len(q), NEW k \in 1..q[i].size
  PROVE  /\ Start(q, i) + k - 1 \in 0..(PagesOf(q) - 1)
         /\ Start(q, i) \in Nat /\ Start(q, i + 1) \in Nat /\ Start(q, i + 1) <= PagesOf(q)
<1>1. /\ Len(q) \in Nat /\ Start(q, Len(q) + 1) = PagesOf(q) /\ PagesOf(q) \in Nat
      /\ Start(q, i) \in Nat /\ q[i].size \in Nat /\ Start(q, i + 1) = Start(q, i) + q[i].size
  <2>1. Len(q) \in Nat
    BY Starts
  <2>2. i \in 1..(Len(q) + 1)
    BY <2>1
  <2>3. QED
    BY <2>1, <2>2, Starts
<1>2. i + 1 \in 1..(Len(q) + 1) /\ Len(q) + 1 \in 1..(Len(q) + 1) /\ i + 1 <= Len(q) + 1
  BY <1>1
<1>3. Start(q, i + 1) <= Start(q, Len(q) + 1)
  BY <1>2, StartsRise
<1>4. QED
  BY <1>1, <1>3

\* A frame stored behind the queue leaves the queue's pages alone.
LEMMA StoreHolds ==
  ASSUME NEW c, c.ram \in [Pages -> Parts(Int)], NEW n \in Ring, NEW q \in Seq(Frames),
         Ringed(c, q, n), NEW f \in Frames, PagesOf(q) + f.size < RingSize
  PROVE  Holds(Store(c, f.frame, f.size).ram, Append(q, f), n)
<1> DEFINE r == Append(q, f)
           ram == Store(c, f.frame, f.size).ram
           p == PagesOf(q)
<1>1. /\ Len(q) \in Nat /\ p \in Nat /\ f.size \in 1..(RingSize - 2)
      /\ Start(q, Len(q) + 1) = p
  BY Starts DEF Frames
<1>2. /\ r \in Seq(Frames) /\ Len(r) = Len(q) + 1 /\ r[Len(q) + 1] = f
      /\ \A i \in 1..Len(q) : r[i] = q[i]
  BY AppendProperties
<1>3. /\ \A i \in 1..(Len(q) + 1) : Start(r, i) = Start(q, i)
      /\ Start(r, Len(q) + 2) = p + f.size
  BY StartAppend
<1>4. p + f.size < RingSize /\ c.nic.curr = Wrapped(n + p) /\ Holds(c.ram, q, n)
  BY DEF Ringed
<1>5. \A o \in 0..(RingSize - 1) :
        ram[Wrapped(n + o)] =
           IF p <= o /\ o < p + f.size
           THEN [frame |-> f.frame, part |-> o - p + 1, size |-> f.size,
                 next |-> Wrapped(n + (p + f.size))]
           ELSE c.ram[Wrapped(n + o)]
  <2> SUFFICES ASSUME NEW o \in 0..(RingSize - 1)
               PROVE  ram[Wrapped(n + o)] =
                         IF p <= o /\ o < p + f.size
                         THEN [frame |-> f.frame, part |-> o - p + 1, size |-> f.size,
                               next |-> Wrapped(n + (p + f.size))]
                         ELSE c.ram[Wrapped(n + o)]
    OBVIOUS
  <2> DEFINE frame == f.frame
             size == f.size
  <2>1. size \in 1..(RingSize - 2) /\ p + size < RingSize /\ p \in Nat /\ c.nic.curr = Wrapped(n + p)
    BY <1>1, <1>4
  <2> HIDE DEF p, frame, size
  <2>2. Store(c, frame, size).ram[Wrapped(n + o)] =
           IF p <= o /\ o < p + size
           THEN [frame |-> frame, part |-> o - p + 1, size |-> size,
                 next |-> Wrapped(n + (p + size))]
           ELSE c.ram[Wrapped(n + o)]
    BY <2>1, StorePages
  <2>3. QED
    BY <2>2 DEF frame, size
<1> HIDE DEF r, ram, p
<1>6. ASSUME NEW i \in 1..Len(r), NEW k \in 1..r[i].size
      PROVE  ram[Wrapped(n + (Start(r, i) + k - 1))] =
               [frame |-> r[i].frame, part |-> k, size |-> r[i].size,
                next |-> Wrapped(n + Start(r, i + 1))]
  <2>1. CASE i = Len(q) + 1
    <3>1. Start(r, i) = p /\ r[i] = f /\ Start(r, i + 1) = p + f.size
      <4>1. i \in 1..(Len(q) + 1) /\ i + 1 = Len(q) + 2
        BY <1>1, <2>1
      <4>2. QED
        BY <1>1, <1>2, <1>3, <2>1, <4>1
    <3> DEFINE o == p + k - 1
    <3>2. o \in 0..(RingSize - 1) /\ p <= o /\ o < p + f.size /\ o - p + 1 = k
      BY <1>1, <1>4, <3>1, RingIs
    <3>3. Start(r, i) + k - 1 = o
      BY <3>1
    <3> HIDE DEF o
    <3>4. ram[Wrapped(n + o)] = [frame |-> f.frame, part |-> k, size |-> f.size,
                                 next |-> Wrapped(n + (p + f.size))]
      BY <1>5, <3>2
    <3>5. QED
      BY <3>1, <3>3, <3>4
  <2>2. CASE i # Len(q) + 1
    <3>1. i \in 1..Len(q) /\ i \in 1..(Len(q) + 1) /\ i + 1 \in 1..(Len(q) + 1)
      BY <1>1, <1>2, <2>2
    <3>2. r[i] = q[i] /\ Start(r, i) = Start(q, i) /\ Start(r, i + 1) = Start(q, i + 1)
      BY <1>2, <1>3, <3>1
    <3> DEFINE o == Start(q, i) + k - 1
    <3>3. o \in 0..(p - 1)
      BY <3>1, <3>2, Offsets DEF p
    <3>4. c.ram[Wrapped(n + o)] =
            [frame |-> q[i].frame, part |-> k, size |-> q[i].size,
             next |-> Wrapped(n + Start(q, i + 1))]
      BY <1>4, <3>1, <3>2 DEF Holds
    <3> HIDE DEF o
    <3>5. o \in 0..(RingSize - 1) /\ ~(p <= o)
      BY <1>1, <1>4, <3>3, RingIs
    <3>6. ram[Wrapped(n + o)] = c.ram[Wrapped(n + o)]
      BY <1>5, <3>5
    <3>7. QED
      BY <3>2, <3>4, <3>6 DEF o
  <2>3. QED
    BY <2>1, <2>2
<1>7. QED
  BY <1>6 DEF Holds, r, ram

LEMMA Shifted ==
  ASSUME NEW a \in Nat, NEW x \in Int, a <= x, x <= RingSize
  PROVE  x - a \in 0..RingSize /\ a + (x - a) <= RingSize /\ a + (x - a) = x
BY RingIs

\* Without its first frame the queue goes on where that frame's header leads.
LEMMA TailHolds ==
  ASSUME NEW c, NEW n \in Ring, NEW q \in Seq(Frames), q # <<>>, Ringed(c, q, n)
  PROVE  Wrapped(n + q[1].size) \in Ring /\ Ringed(c, Tail(q), Wrapped(n + q[1].size))
<1> DEFINE r == Tail(q)
           a == q[1].size
           m == Wrapped(n + a)
           p == PagesOf(q)
<1>1. /\ r \in Seq(Frames) /\ Len(r) = Len(q) - 1
      /\ \A i \in 1..Len(r) : r[i] = q[i + 1]
  BY HeadTailProperties
<1>2. Len(q) \in Nat /\ Len(q) > 0 /\ p \in Nat /\ a \in Nat /\ a > 0
  <2>1. Len(q) \in Nat /\ Len(q) > 0
    BY EmptySeq
  <2>2. 1 \in 1..Len(q)
    BY <2>1
  <2>3. QED
    BY <2>1, <2>2, Starts
<1>3. /\ \A i \in 1..Len(q) : Start(r, i) = Start(q, i + 1) - a
      /\ PagesOf(r) = p - a /\ a <= p
  BY StartTail
<1>4. p < RingSize /\ c.nic.curr = Wrapped(n + p) /\ Holds(c.ram, q, n)
  BY DEF Ringed
<1> HIDE DEF r, a, p
<1>5. m \in Ring /\ \A b \in 0..RingSize : a + b <= RingSize => Wrapped(m + b) = Wrapped(n + (a + b))
  <2>1. a \in 0..RingSize
    BY <1>2, <1>3, <1>4, RingIs
  <2>2. QED
    BY <2>1, Around
<1>6. PagesOf(r) < RingSize /\ c.nic.curr = Wrapped(m + PagesOf(r))
  <2> DEFINE b == p - a
  <2>1. b \in 0..RingSize /\ a + b <= RingSize /\ a + b = p /\ b < RingSize
    BY <1>2, <1>3, <1>4, RingIs
  <2> HIDE DEF b
  <2>2. Wrapped(m + b) = Wrapped(n + p)
    BY <1>5, <2>1
  <2>3. QED
    BY <1>3, <1>4, <2>1, <2>2 DEF b
<1> HIDE DEF m
<1>7. ASSUME NEW i \in 1..Len(r), NEW k \in 1..r[i].size
      PROVE  c.ram[Wrapped(m + (Start(r, i) + k - 1))] =
               [frame |-> r[i].frame, part |-> k, size |-> r[i].size,
                next |-> Wrapped(m + Start(r, i + 1))]
  <2>1. i \in 1..Len(q) /\ i + 1 \in 1..Len(q)
    BY <1>1, <1>2
  <2>2. r[i] = q[i + 1]
    BY <1>1
  <2>3. /\ Start(q, i + 1) + k - 1 \in 0..(p - 1)
        /\ Start(q, i + 1) \in Nat /\ Start(q, i + 1 + 1) \in Nat /\ Start(q, i + 1 + 1) <= p
    BY <2>1, <2>2, Offsets DEF p
  <2>4. /\ Start(r, i) \in Nat /\ Start(r, i + 1) \in Nat
        /\ Start(r, i) = Start(q, i + 1) - a /\ Start(r, i + 1) = Start(q, i + 1 + 1) - a
    <3>1. Len(r) \in Nat /\ i \in 1..(Len(r) + 1) /\ i + 1 \in 1..(Len(r) + 1)
      BY <1>1, <1>2
    <3>2. Start(r, i) \in Nat /\ Start(r, i + 1) \in Nat
      BY <1>1, <3>1, Starts
    <3>3. QED
      BY <1>3, <2>1, <3>2
  <2>5. c.ram[Wrapped(n + (Start(q, i + 1) + k - 1))] =
          [frame |-> q[i + 1].frame, part |-> k, size |-> q[i + 1].size,
           next |-> Wrapped(n + Start(q, i + 1 + 1))]
    BY <1>4, <2>1, <2>2 DEF Holds
  <2>6. Wrapped(m + (Start(r, i) + k - 1)) = Wrapped(n + (Start(q, i + 1) + k - 1))
    <3> DEFINE x == Start(q, i + 1) + k - 1
    <3>1. k \in Nat /\ k >= 1
      OBVIOUS
    <3>2. x \in Int /\ a <= x /\ x <= RingSize /\ Start(r, i) + k - 1 = x - a
      <4>1. x \in 0..(p - 1)
        BY <2>3
      <4>2. a \in Nat /\ p \in Nat /\ p < RingSize /\ RingSize \in Nat
        BY <1>2, <1>4, RingIs
      <4> DEFINE s == Start(q, i + 1)
                 t == Start(r, i)
      <4>3. s \in Nat /\ t \in Nat /\ t = s - a /\ x = s + k - 1
        BY <2>3, <2>4
      <4> HIDE DEF s, t, x
      <4>4. x \in Int /\ a <= x /\ x <= RingSize /\ t + k - 1 = x - a
        BY <3>1, <4>1, <4>2, <4>3
      <4>5. QED
        BY <4>4 DEF t
    <3> HIDE DEF x
    <3>3. Wrapped(m + (x - a)) = Wrapped(n + x)
      BY <1>2, <1>5, <3>2, Shifted
    <3>4. QED
      BY <3>2, <3>3 DEF x
  <2>7. Wrapped(m + Start(r, i + 1)) = Wrapped(n + Start(q, i + 1 + 1))
    <3> DEFINE x == Start(q, i + 1 + 1)
    <3>1. x \in Int /\ a <= x /\ x <= RingSize /\ Start(r, i + 1) = x - a
      <4>1. a \in Nat /\ p \in Nat /\ p < RingSize /\ RingSize \in Nat
        BY <1>2, <1>4, RingIs
      <4> DEFINE t == Start(r, i + 1)
      <4>2. x \in Nat /\ t \in Nat /\ t = x - a /\ x <= p
        BY <2>3, <2>4
      <4> HIDE DEF t, x
      <4>3. x \in Int /\ a <= x /\ x <= RingSize /\ t = x - a
        BY <4>1, <4>2
      <4>4. QED
        BY <4>3 DEF t
    <3> HIDE DEF x
    <3>2. Wrapped(m + (x - a)) = Wrapped(n + x)
      BY <1>2, <1>5, <3>1, Shifted
    <3>3. QED
      BY <3>1, <3>2 DEF x
  <2>8. QED
    BY <2>2, <2>5, <2>6, <2>7
<1>8. QED
  BY <1>5, <1>6, <1>7 DEF Ringed, Holds, r, m, a

-----------------------------------------------------------------------------
\* The chip's operations.
LEMMA Bounds == MaxArrivals \in Nat /\ MaxSends \in Nat /\ MaxWhims \in Nat
BY DriverAssumption

ChipType == [nic : NicType, ram : [Pages -> Parts((-MaxSends)..MaxArrivals)]]

\* The transmitter's registers, and those of the ring.
TxSame(m, n) == m.txp = n.txp /\ m.pending = n.pending /\ m.frame = n.frame
RingSame(m, n) == m.curr = n.curr /\ m.bnry = n.bnry

Stopped(m) == (m.stp /\ ~m.pending) => "rst" \in m.isr

LEMMA CommandIs ==
  ASSUME NEW n \in NicType, n.txp = n.pending, Stopped(n), NEW sta \in BOOLEAN, NEW stp \in BOOLEAN,
         NEW dma \in {"none", "read", "write"}, NEW m, m = Command(n, sta, stp, dma)
  PROVE  /\ m \in NicType /\ TxSame(m, n) /\ RingSame(m, n) /\ Stopped(m)
         /\ m.rsar = n.rsar /\ m.rbcr = n.rbcr /\ m.stp = stp
<1> DEFINE sta1 == sta \/ (stp /\ n.sta)
           isr1 == (IF stp THEN IF n.pending THEN n.isr ELSE n.isr \cup {"rst"}
                    ELSE IF sta THEN n.isr \ {"rst"} ELSE n.isr)
                   \cup (IF dma = "read" /\ n.rbcr = 0 THEN {"rdc"} ELSE {})
<1>1. m = [n EXCEPT !.stp = stp, !.sta = sta1, !.txp = n.pending, !.dma = dma, !.isr = isr1]
  BY DEF Command
<1>2. sta1 \in BOOLEAN
  OBVIOUS
<1>3. n.isr \in SUBSET Bits /\ n.pending \in BOOLEAN
  BY DEF NicType
<1>4. isr1 \in SUBSET Bits
  BY <1>3 DEF Bits
<1>5. (stp /\ ~n.pending) => "rst" \in isr1
  OBVIOUS
<1> HIDE DEF sta1, isr1
<1>6. m \in NicType
  BY <1>1, <1>2, <1>3, <1>4 DEF NicType
<1>7. /\ m.stp = stp /\ m.txp = n.pending /\ m.isr = isr1 /\ m.pending = n.pending
      /\ m.frame = n.frame /\ m.curr = n.curr /\ m.bnry = n.bnry
      /\ m.rsar = n.rsar /\ m.rbcr = n.rbcr
  BY <1>1 DEF NicType
<1>8. QED
  BY <1>5, <1>6, <1>7 DEF TxSame, RingSame, Stopped

LEMMA StartDmaIs ==
  ASSUME NEW n \in NicType, n.txp = n.pending, Stopped(n), NEW page \in 0..PStop,
         NEW count \in 0..RingSize, NEW dma \in {"none", "read", "write"},
         NEW m, m = StartDma(n, page, count, dma)
  PROVE  /\ m \in NicType /\ TxSame(m, n) /\ RingSame(m, n) /\ Stopped(m)
         /\ m.rsar = page /\ m.rbcr = count
<1> DEFINE k == [n EXCEPT !.rsar = page, !.rbcr = count]
<1>1. /\ k \in NicType /\ TxSame(k, n) /\ RingSame(k, n) /\ Stopped(k) /\ k.txp = k.pending
      /\ k.rsar = page /\ k.rbcr = count
  BY DEF NicType, TxSame, RingSame, Stopped
<1> DEFINE yes == TRUE
           no == FALSE
<1>2. m = Command(k, yes, no, dma)
  BY DEF StartDma
<1>3. yes \in BOOLEAN /\ no \in BOOLEAN
  OBVIOUS
<1> HIDE DEF k, yes, no
<1>4. /\ m \in NicType /\ TxSame(m, k) /\ RingSame(m, k) /\ Stopped(m)
      /\ m.rsar = k.rsar /\ m.rbcr = k.rbcr
  BY <1>1, <1>2, <1>3, CommandIs
<1>5. QED
  BY <1>1, <1>4 DEF TxSame, RingSame

LEMMA ResetIs ==
  ASSUME NEW n \in NicType, NEW m, m = Reset(n)
  PROVE  /\ m \in NicType /\ ~m.sta /\ ~m.txp /\ ~m.pending /\ "rst" \in m.isr
         /\ m.rsar = n.rsar
<1>1. m = [n EXCEPT !.sta = FALSE, !.stp = TRUE, !.txp = FALSE, !.dma = "none",
                    !.isr = {"rst"}, !.imr = {}, !.rbcr = 0, !.pending = FALSE, !.tally = 0]
  BY DEF Reset
<1>2. {"rst"} \in SUBSET Bits /\ {} \in SUBSET (Bits \ {"rst"}) /\ 0 \in 0..RingSize
      /\ 0 \in 0..(2 * TallyFlag - 1)
  BY RingIs, RingAssumption DEF Bits
<1>3. m \in NicType
  BY <1>1, <1>2 DEF NicType
<1> DEFINE no == FALSE
           off == {"rst"}
<1>4. m = [n EXCEPT !.sta = no, !.stp = TRUE, !.txp = no, !.dma = "none",
                    !.isr = off, !.imr = {}, !.rbcr = 0, !.pending = no, !.tally = 0]
  BY <1>1
<1>5. ~no /\ "rst" \in off
  OBVIOUS
<1> HIDE DEF no, off
<1>6. m.sta = no /\ m.txp = no /\ m.pending = no /\ m.isr = off /\ m.rsar = n.rsar
  BY <1>4 DEF NicType
<1>7. QED
  BY <1>3, <1>5, <1>6, Zenon

LEMMA AdvanceIs ==
  ASSUME NEW n \in NicType, Stopped(n), n.rsar < PStop, n.rbcr > 0, NEW m, m = Advance(n)
  PROVE  /\ m \in NicType /\ TxSame(m, n) /\ RingSame(m, n) /\ Stopped(m)
         /\ m.rsar = Wrapped(n.rsar + 1) /\ m.rbcr = n.rbcr - 1 /\ m.rsar < PStop
<1>1. n.rsar \in Nat /\ n.rsar < PStop /\ n.rbcr \in 1..RingSize /\ n.isr \subseteq Bits
  BY RingIs DEF NicType
<1>2. /\ m.rsar = (IF n.rsar + 1 = PStop THEN PStart ELSE n.rsar + 1) /\ m.rbcr = n.rbcr - 1
      /\ m.isr = n.isr \cup (IF n.rbcr = 1 THEN {"rdc"} ELSE {})
      /\ TxSame(m, n) /\ RingSame(m, n) /\ m.stp = n.stp
  BY DEF Advance, NicType, TxSame, RingSame
<1>3. m.rsar = Wrapped(n.rsar + 1) /\ m.rsar \in 0..PStop /\ m.rsar < PStop /\ m.rbcr \in 0..RingSize
  BY <1>1, <1>2, RingIs DEF Wrapped
<1>4. m.isr \in SUBSET Bits
  BY <1>1, <1>2 DEF Bits
<1>5. m = [n EXCEPT !.rsar = m.rsar, !.rbcr = m.rbcr, !.isr = m.isr]
  BY <1>2 DEF Advance, NicType
<1>6. m \in NicType
  BY <1>3, <1>4, <1>5 DEF NicType
<1>7. QED
  BY <1>2, <1>3, <1>6 DEF Stopped, TxSame

LEMMA AcknowledgeIs ==
  ASSUME NEW n \in NicType, Stopped(n), NEW bits, NEW m, m = Acknowledge(n, bits)
  PROVE  /\ m \in NicType /\ TxSame(m, n) /\ RingSame(m, n) /\ Stopped(m)
         /\ m.rsar = n.rsar /\ m.rbcr = n.rbcr
BY DEF Acknowledge, NicType, TxSame, RingSame, Stopped

LEMMA MissedIs ==
  ASSUME NEW n \in NicType, NEW m, m = Missed(n)
  PROVE  /\ m \in NicType /\ TxSame(m, n) /\ RingSame(m, n) /\ (Stopped(n) => Stopped(m))
         /\ m.rsar = n.rsar /\ m.rbcr = n.rbcr
<1>1. n.tally + 1 \in Nat /\ 2 * TallyFlag \in Nat /\ 2 * TallyFlag > 0
  BY RingAssumption DEF NicType
<1> DEFINE t == (n.tally + 1) % (2 * TallyFlag)
<1>2. t \in 0..((2 * TallyFlag) - 1)
  BY <1>1
<1>3. m = [n EXCEPT !.tally = t, !.isr = n.isr \cup (IF t = TallyFlag THEN {"cnt"} ELSE {})]
  BY DEF Missed, NicType
<1> HIDE DEF t
<1> DEFINE isr1 == n.isr \cup (IF t = TallyFlag THEN {"cnt"} ELSE {})
<1>4. isr1 \in SUBSET Bits /\ n.isr \subseteq isr1
  BY DEF NicType, Bits
<1>5. m = [n EXCEPT !.tally = t, !.isr = isr1]
  BY <1>3
<1> HIDE DEF isr1
<1>6. m \in NicType
  BY <1>2, <1>4, <1>5 DEF NicType
<1>7. /\ m.stp = n.stp /\ m.txp = n.txp /\ m.isr = isr1 /\ m.pending = n.pending
      /\ m.frame = n.frame /\ m.curr = n.curr /\ m.bnry = n.bnry
      /\ m.rsar = n.rsar /\ m.rbcr = n.rbcr
  BY <1>5 DEF NicType
<1>8. QED
  BY <1>4, <1>6, <1>7 DEF TxSame, RingSame, Stopped

-----------------------------------------------------------------------------
\* What the chip does with a frame: it keeps all registers but the ring's and
\* the interrupt state, and the page to be sent.
LEMMA ReceiveIs ==
  ASSUME NEW c \in ChipType, NEW frame \in (-MaxSends)..MaxArrivals,
         NEW size \in 1..(RingSize - 2), NEW r, r = Receive(c, frame, size)
  PROVE  /\ r \in ChipType /\ TxSame(r.nic, c.nic) /\ (Stopped(c.nic) => Stopped(r.nic))
         /\ r.nic.bnry = c.nic.bnry /\ r.nic.rsar = c.nic.rsar /\ r.nic.rbcr = c.nic.rbcr
         /\ r.nic.sta = c.nic.sta /\ r.nic.stp = c.nic.stp
         /\ r.ram[TxPage] = c.ram[TxPage]
         /\ Takes(c.nic, size) => r = Store(c, frame, size)
         /\ ~Takes(c.nic, size) => r.ram = c.ram /\ r.nic.curr = c.nic.curr
<1> USE RingIs
<1> DEFINE n == c.nic
<1>1. n \in NicType /\ c.ram \in [Pages -> Parts((-MaxSends)..MaxArrivals)]
  BY DEF ChipType
<1>2. CASE Takes(n, size)
  <2>1. Started(n) /\ ~n.monitor /\ n.curr \in Ring
    BY <1>2 DEF Takes
  <2>2. r = Store(c, frame, size)
    BY <1>2, <2>1 DEF Receive
  <2>3. n.curr \in 0..PStop /\ Wrapped(n.curr + size) \in 0..(PStop - 1)
    BY <2>1 DEF Ring, Wrapped
  <2> DEFINE isr1 == n.isr \cup {"prx"}
             next == Wrapped(n.curr + size)
  <2>11. isr1 \in SUBSET Bits /\ n.isr \subseteq isr1
    BY <1>1 DEF NicType, Bits
  <2>12. r.nic = [n EXCEPT !.curr = next, !.isr = isr1]
    BY <2>2 DEF Store
  <2>13. next \in 0..PStop
    BY <2>3
  <2> HIDE DEF isr1, next
  <2>4. r.nic \in NicType
    <3> HIDE DEF n
    <3>1. QED
      BY <1>1, <2>11, <2>12, <2>13 DEF NicType
  <2>5. TxSame(r.nic, n) /\ (Stopped(n) => Stopped(r.nic)) /\ r.nic.bnry = n.bnry /\ r.nic.rsar = n.rsar
        /\ r.nic.rbcr = n.rbcr /\ r.nic.sta = n.sta /\ r.nic.stp = n.stp
    <3> HIDE DEF n
    <3>1. /\ TxSame(r.nic, n) /\ r.nic.bnry = n.bnry /\ r.nic.rsar = n.rsar
          /\ r.nic.rbcr = n.rbcr /\ r.nic.sta = n.sta /\ r.nic.stp = n.stp /\ r.nic.isr = isr1
      BY <1>1, <2>12 DEF NicType, TxSame
    <3>2. QED
      BY <2>11, <3>1 DEF Stopped, TxSame
  <2>6. r.ram \in [Pages -> Parts((-MaxSends)..MaxArrivals)]
    <3>1. \A p \in Ring : (p - n.curr) % RingSize \in Nat
      BY <2>1 DEF Ring
    <3>2. \A p \in Ring : [frame |-> frame, part |-> 1 + ((p - n.curr) % RingSize), size |-> size,
                           next |-> Wrapped(n.curr + size)] \in Parts((-MaxSends)..MaxArrivals)
      BY <2>3, <3>1 DEF Parts
    <3>3. QED
      BY <1>1, <2>2, <3>2 DEF Store
  <2>7. r.ram[TxPage] = c.ram[TxPage]
    <3>1. TxPage \in Pages /\ TxPage \notin Ring
      BY DEF Pages, Ring
    <3>2. QED
      BY <2>2, <3>1 DEF Store
  <2>8. r = [nic |-> r.nic, ram |-> r.ram]
    BY <2>2 DEF Store
  <2>9. QED
    BY <1>2, <2>2, <2>4, <2>5, <2>6, <2>7, <2>8 DEF ChipType
<1>3. CASE ~Takes(n, size)
  <2>1. r = c \/ r = [c EXCEPT !.nic = Missed(n)]
        \/ r = [c EXCEPT !.nic = Missed([n EXCEPT !.isr = n.isr \cup {"ovw"}])]
    BY <1>3 DEF Receive
  <2> DEFINE k == [n EXCEPT !.isr = n.isr \cup {"ovw"}]
  <2>2. k \in NicType /\ TxSame(k, n) /\ RingSame(k, n) /\ (Stopped(n) => Stopped(k)) /\ k.rsar = n.rsar
        /\ k.rbcr = n.rbcr /\ k.sta = n.sta /\ k.stp = n.stp
    BY <1>1 DEF NicType, TxSame, RingSame, Stopped, Bits
  <2> HIDE DEF k
  <2>3. \A j \in {n, k} : /\ Missed(j) \in NicType /\ TxSame(Missed(j), n) /\ RingSame(Missed(j), n)
                          /\ (Stopped(n) => Stopped(Missed(j))) /\ Missed(j).rsar = n.rsar /\ Missed(j).rbcr = n.rbcr
                          /\ Missed(j).sta = n.sta /\ Missed(j).stp = n.stp
    <3> SUFFICES ASSUME NEW j \in {n, k}
                 PROVE  /\ Missed(j) \in NicType /\ TxSame(Missed(j), n) /\ RingSame(Missed(j), n)
                        /\ (Stopped(n) => Stopped(Missed(j))) /\ Missed(j).rsar = n.rsar /\ Missed(j).rbcr = n.rbcr
                        /\ Missed(j).sta = n.sta /\ Missed(j).stp = n.stp
      OBVIOUS
    <3>1. j \in NicType /\ (Stopped(n) => Stopped(j)) /\ TxSame(j, n) /\ RingSame(j, n) /\ j.rsar = n.rsar
          /\ j.rbcr = n.rbcr /\ j.sta = n.sta /\ j.stp = n.stp
      BY <1>1, <2>2 DEF TxSame, RingSame
    <3>2. /\ Missed(j) \in NicType /\ TxSame(Missed(j), j) /\ RingSame(Missed(j), j)
          /\ (Stopped(j) => Stopped(Missed(j))) /\ Missed(j).rsar = j.rsar /\ Missed(j).rbcr = j.rbcr
      BY <3>1, MissedIs
    <3>3. Missed(j).sta = j.sta /\ Missed(j).stp = j.stp
      BY <3>1 DEF Missed, NicType
    <3>4. QED
      BY <3>1, <3>2, <3>3 DEF TxSame, RingSame
  <2>4. CASE r = c
    BY <1>3, <2>4 DEF TxSame
  <2>5. ASSUME NEW j \in {n, k}, r = [c EXCEPT !.nic = Missed(j)]
        PROVE  /\ r \in ChipType /\ TxSame(r.nic, c.nic) /\ (Stopped(n) => Stopped(r.nic))
               /\ r.nic.bnry = c.nic.bnry /\ r.nic.rsar = c.nic.rsar /\ r.nic.rbcr = c.nic.rbcr
               /\ r.nic.sta = c.nic.sta /\ r.nic.stp = c.nic.stp
               /\ r.ram = c.ram /\ r.nic.curr = c.nic.curr
    <3>1. r.nic = Missed(j) /\ r.ram = c.ram /\ r = [nic |-> Missed(j), ram |-> c.ram]
      BY <2>5 DEF ChipType
    <3>2. QED
      BY <1>1, <2>3, <3>1 DEF ChipType, RingSame
  <2>6. QED
    BY <1>3, <2>1, <2>4, <2>5 DEF k
<1>4. QED
  BY <1>2, <1>3

\* A boundary in the ring keeps the frames from those that are not read.
LEMMA FitsBehind ==
  ASSUME NEW m, NEW n \in Ring, NEW p \in Nat, NEW size \in Nat, m.bnry \in Ring,
         n = Wrapped(m.bnry + 1), p < RingSize - 1, m.curr = Wrapped(n + p), Fits(m, size)
  PROVE  p + size < RingSize - 1
BY RingIs DEF Fits, Wrapped, Ring

\* Frames come into the ring behind those in it, or one is lost because the
\* boundary does not stop the chip.
LEMMA ReceiveKeeps ==
  ASSUME NEW c \in ChipType, NEW frame \in (-MaxSends)..MaxArrivals,
         NEW size \in 1..(RingSize - 2), NEW r, r = Receive(c, frame, size),
         NEW n \in Ring, NEW q \in Seq(Frames), NEW lap \in BOOLEAN,
         ~lap => Ringed(c, q, n) /\ Guarded(c.nic, q, n),
         NEW q2, NEW lap2,
         IF Takes(c.nic, size)
         THEN /\ q2 = Append(q, [frame |-> frame, size |-> size])
              /\ lap2 = (lap \/ PagesOf(q) + size >= RingSize)
         ELSE q2 = q /\ lap2 = lap
  PROVE  /\ q2 \in Seq(Frames) /\ lap2 \in BOOLEAN /\ (lap => lap2)
         /\ ~lap2 => Ringed(r, q2, n) /\ Guarded(r.nic, q2, n)
         /\ q # <<>> => q2 # <<>> /\ q2[1] = q[1]
         /\ ~lap /\ lap2 => c.nic.bnry \notin Ring
<1> DEFINE f == [frame |-> frame, size |-> size]
           p == PagesOf(q)
<1>1. f \in Frames /\ f.size = size /\ f.frame = frame /\ p \in Nat
  <2>1. p \in Nat
    BY Starts
  <2>2. frame \in Int
    BY Bounds
  <2>3. QED
    BY <2>1, <2>2 DEF Frames
<1>2. /\ r.nic.bnry = c.nic.bnry
      /\ Takes(c.nic, size) => r = Store(c, frame, size)
      /\ ~Takes(c.nic, size) => r.ram = c.ram /\ r.nic.curr = c.nic.curr
  BY ReceiveIs
<1>3. Takes(c.nic, size) => Fits(c.nic, size)
  BY DEF Takes
<1>4. c.ram \in [Pages -> Parts(Int)]
  BY Bounds DEF ChipType, Parts
<1> HIDE DEF f, p
<1>5. CASE ~Takes(c.nic, size)
  BY <1>2, <1>5 DEF Ringed, Guarded
<1>6. CASE Takes(c.nic, size)
  <2>1. q2 = Append(q, f) /\ lap2 = (lap \/ p + size >= RingSize) /\ r = Store(c, frame, size)
    BY <1>2, <1>6 DEF f, p
  <2>2. q2 \in Seq(Frames) /\ (q # <<>> => q2 # <<>> /\ q2[1] = q[1])
    <3>1. q2 \in Seq(Frames) /\ q2 # <<>> /\ \A i \in 1..Len(q) : q2[i] = q[i]
      BY <1>1, <2>1, AppendProperties
    <3>2. q # <<>> => 1 \in 1..Len(q)
      BY EmptySeq
    <3>3. QED
      BY <3>1, <3>2
  <2>3. PagesOf(q2) = p + size
    BY <1>1, <2>1, StartAppend DEF p
  <2>4. ASSUME ~lap, c.nic.bnry \in Ring
        PROVE  p + size < RingSize - 1
    <3>1. c.nic.curr = Wrapped(n + p) /\ n = Wrapped(c.nic.bnry + 1) /\ p < RingSize - 1
      BY <2>4 DEF Ringed, Guarded, p
    <3>2. size \in Nat
      OBVIOUS
    <3>3. QED
      BY <1>1, <1>3, <1>6, <2>4, <3>1, <3>2, FitsBehind
  <2>5. ASSUME ~lap2 PROVE Ringed(r, q2, n) /\ Guarded(r.nic, q2, n)
    <3>1. ~lap /\ p + size < RingSize
      <4>1. ~lap /\ ~(p + size >= RingSize)
        BY <2>1, <2>5, Zenon
      <4>2. QED
        BY <1>1, <4>1, RingIs
    <3>2. Ringed(c, q, n) /\ c.nic.curr = Wrapped(n + p) /\ p < RingSize
          /\ (c.nic.bnry \in Ring => n = Wrapped(c.nic.bnry + 1))
      BY <3>1 DEF Ringed, Guarded, p
    <3>3. Holds(r.ram, q2, n)
      BY <1>1, <1>4, <2>1, <3>1, <3>2, StoreHolds DEF p
    <3>4. r.nic.curr = Wrapped(n + PagesOf(q2))
      <4>1. r.nic.curr = Wrapped(Wrapped(n + p) + size)
        <5> DEFINE k == c.nic
                   next == Wrapped(k.curr + size)
                   isr1 == k.isr \cup {"prx"}
        <5>1. r.nic = [k EXCEPT !.curr = next, !.isr = isr1] /\ k \in NicType
          BY <2>1 DEF Store, ChipType
        <5>2. k.curr = Wrapped(n + p)
          BY <3>2
        <5> HIDE DEF k, isr1
        <5>3. r.nic.curr = next
          BY <5>1 DEF NicType
        <5>4. QED
          BY <5>2, <5>3
      <4>2. p \in 0..RingSize /\ size \in 0..RingSize /\ p + size <= RingSize
        BY <1>1, <3>1, RingIs
      <4>3. QED
        BY <2>3, <4>1, <4>2, Around
    <3>5. QED
      BY <1>2, <2>3, <2>4, <3>1, <3>2, <3>3, <3>4 DEF Ringed, Guarded
  <2>6. ASSUME ~lap, lap2 PROVE c.nic.bnry \notin Ring
    <3>1. p + size >= RingSize
      BY <2>1, <2>6, Zenon
    <3>2. QED
      BY <1>1, <2>4, <2>6, <3>1, RingIs
  <2>7. QED
    BY <2>1, <2>2, <2>5, <2>6
<1>7. QED
  BY <1>5, <1>6

-----------------------------------------------------------------------------
\* The frame being read: the pages taken are its first ones, and the remote
\* address is at the next.
Reading(d, q, m) ==
  /\ q # <<>>
  /\ Len(d.taken) + m.rbcr = IF d.pc = "header" THEN 1 ELSE q[1].size
  /\ m.rsar = Wrapped(d.next + Len(d.taken))
  /\ \A k \in 1..Len(d.taken) :
       d.taken[k] = [frame |-> q[1].frame, part |-> k, size |-> q[1].size,
                     next |-> Wrapped(d.next + q[1].size)]

UsedType == [arrivals : 0..MaxArrivals, sends : 0..MaxSends, whims : 0..MaxWhims]

Kinds ==
  /\ chip \in ChipType /\ drv \in DriverType
  /\ chip.nic.rsar < PStop /\ chip.ram[TxPage].frame \in (-MaxSends)..0
  /\ queue \in Seq(Frames) /\ flight \in Seq((-MaxSends)..0)
  /\ lapped \in BOOLEAN /\ used \in UsedType

OffOK == drv.pc = "off" => queue = <<>> /\ ~lapped /\ ~chip.nic.sta

FillOK == drv.pc = "fill" => chip.nic.rsar = TxPage /\ chip.nic.rbcr = 1

OnOK == drv.pc # "off" => drv.next \in Ring

RingOK ==
  drv.pc # "off" /\ ~lapped =>
    Ringed(chip, queue, drv.next) /\ Guarded(chip.nic, queue, drv.next)

ReadingOK == drv.pc \in {"header", "body"} /\ ~lapped => Reading(drv, queue, chip.nic)

IInv ==
  /\ Kinds /\ SentOnceAsRequested /\ StoppedSaysSo
  /\ OffOK /\ FillOK /\ OnOK /\ RingOK /\ ReadingOK

\* The invariant at a state given by its parts, for the steps.
LEMMA Gathered ==
  ASSUME NEW c \in ChipType, c.nic.rsar < PStop, c.ram[TxPage].frame \in (-MaxSends)..0,
         NEW d \in DriverType, queue' \in Seq(Frames), flight' \in Seq((-MaxSends)..0),
         lapped' \in BOOLEAN, used' \in UsedType, chip' = c, drv' = d,
         c.nic.txp = c.nic.pending, flight' = (IF c.nic.pending THEN <<c.nic.frame>> ELSE <<>>),
         Stopped(c.nic),
         d.pc = "off" => queue' = <<>> /\ ~lapped' /\ ~c.nic.sta,
         d.pc = "fill" => c.nic.rsar = TxPage /\ c.nic.rbcr = 1,
         d.pc # "off" => d.next \in Ring,
         d.pc # "off" /\ ~lapped' => Ringed(c, queue', d.next) /\ Guarded(c.nic, queue', d.next),
         d.pc \in {"header", "body"} /\ ~lapped' => Reading(d, queue', c.nic)
  PROVE  IInv'
<1>1. Kinds' /\ OffOK' /\ FillOK' /\ OnOK' /\ RingOK' /\ ReadingOK'
  BY DEF Kinds, OffOK, FillOK, OnOK, RingOK, ReadingOK
<1>2. SentOnceAsRequested' /\ StoppedSaysSo'
  BY DEF SentOnceAsRequested, StoppedSaysSo, Stopped, nic
<1>3. QED
  BY <1>1, <1>2 DEF IInv

LEMMA Facts ==
  ASSUME IInv
  PROVE  /\ chip \in ChipType /\ drv \in DriverType /\ nic = chip.nic /\ nic \in NicType
         /\ chip.ram \in [Pages -> Parts((-MaxSends)..MaxArrivals)]
         /\ chip = [nic |-> nic, ram |-> chip.ram]
         /\ nic.rsar < PStop /\ chip.ram[TxPage].frame \in (-MaxSends)..0
         /\ queue \in Seq(Frames) /\ flight \in Seq((-MaxSends)..0)
         /\ lapped \in BOOLEAN /\ used \in UsedType
         /\ nic.txp = nic.pending /\ flight = (IF nic.pending THEN <<nic.frame>> ELSE <<>>)
         /\ Stopped(nic)
         /\ drv.pc = "off" => queue = <<>> /\ ~lapped /\ ~nic.sta
         /\ drv.pc = "fill" => nic.rsar = TxPage /\ nic.rbcr = 1
         /\ drv.pc # "off" => drv.next \in Ring
         /\ drv.pc # "off" /\ ~lapped => Ringed(chip, queue, drv.next) /\ Guarded(nic, queue, drv.next)
         /\ drv.pc \in {"header", "body"} /\ ~lapped => Reading(drv, queue, nic)
<1>1. chip \in ChipType
  BY DEF IInv, Kinds
<1>2. nic = chip.nic
  BY DEF nic
<1>3. nic \in NicType /\ chip.ram \in [Pages -> Parts((-MaxSends)..MaxArrivals)]
      /\ chip = [nic |-> nic, ram |-> chip.ram]
  BY <1>1, <1>2 DEF ChipType
<1>4. Stopped(nic) /\ nic.txp = nic.pending /\ flight = (IF nic.pending THEN <<nic.frame>> ELSE <<>>)
  BY DEF IInv, SentOnceAsRequested, StoppedSaysSo, Stopped
<1>5. QED
  BY <1>1, <1>2, <1>3, <1>4 DEF IInv, Kinds, OffOK, FillOK, OnOK, RingOK, ReadingOK

\* The initial state.
LEMMA InitIInv == Init => IInv
<1> SUFFICES ASSUME Init PROVE IInv
  OBVIOUS
<1> USE RingIs
<1>1. chip = PowerOn /\ drv = DriverOff /\ queue = <<>> /\ flight = <<>> /\ lapped = FALSE
      /\ used = [arrivals |-> 0, sends |-> 0, whims |-> 0]
  BY DEF Init
<1>2. /\ PowerOn.nic \in NicType /\ ~PowerOn.nic.sta /\ ~PowerOn.nic.txp /\ ~PowerOn.nic.pending
      /\ "rst" \in PowerOn.nic.isr /\ PowerOn.nic.rsar = 0
  <2> DEFINE n == [sta |-> FALSE, stp |-> FALSE, txp |-> FALSE, dma |-> "none",
                   isr |-> {}, imr |-> {}, bnry |-> 0, curr |-> 0, rsar |-> 0,
                   rbcr |-> 0, monitor |-> FALSE, loop |-> "none", tally |-> 0,
                   pending |-> FALSE, frame |-> 0]
  <2>1. n \in NicType /\ n.rsar = 0
    BY RingAssumption DEF NicType, Bits
  <2>2. PowerOn.nic = Reset(n)
    BY DEF PowerOn
  <2> HIDE DEF n
  <2>3. QED
    BY <2>1, <2>2, ResetIs
<1>3. /\ PowerOn \in ChipType /\ PowerOn.ram[TxPage].frame = 0
  <2>1. Blank \in Parts((-MaxSends)..MaxArrivals)
    BY Bounds DEF Blank, Parts
  <2>2. TxPage \in Pages
    BY DEF Pages
  <2>3. PowerOn = [nic |-> PowerOn.nic, ram |-> [p \in Pages |-> Blank]]
    BY DEF PowerOn
  <2>4. QED
    BY <1>2, <2>1, <2>2, <2>3 DEF ChipType, Blank
<1>4. DriverOff \in DriverType /\ DriverOff.pc = "off"
  <2>1. <<>> \in Seq(Parts(Int))
    BY EmptySeq
  <2>2. QED
    BY <2>1 DEF DriverOff, DriverType
<1>5. Kinds
  <2>1. queue \in Seq(Frames) /\ flight \in Seq((-MaxSends)..0)
    BY <1>1, EmptySeq
  <2>2. used \in UsedType
    BY <1>1, Bounds DEF UsedType
  <2>3. 0 \in (-MaxSends)..0 /\ 0 < PStop /\ lapped \in BOOLEAN
    <3>1. lapped \in BOOLEAN
      BY <1>1
    <3>2. QED
      BY <3>1, Bounds
  <2>4. chip.nic.rsar < PStop /\ chip.ram[TxPage].frame \in (-MaxSends)..0
    BY <1>1, <1>2, <1>3, <2>3
  <2>5. chip \in ChipType /\ drv \in DriverType
    BY <1>1, <1>3, <1>4
  <2>6. QED
    BY <2>1, <2>2, <2>3, <2>4, <2>5 DEF Kinds
<1>6. SentOnceAsRequested /\ StoppedSaysSo /\ OffOK /\ FillOK /\ OnOK /\ RingOK /\ ReadingOK
  <2>1. SentOnceAsRequested
    <3>1. PowerOn.nic.txp = PowerOn.nic.pending
      BY <1>2 DEF NicType
    <3>2. QED
      BY <1>1, <1>2, <3>1 DEF SentOnceAsRequested, nic
  <2>2. StoppedSaysSo
    BY <1>1, <1>2 DEF StoppedSaysSo, nic
  <2>3. QED
    BY <1>1, <1>2, <1>4, <2>1, <2>2 DEF OffOK, FillOK, OnOK, RingOK, ReadingOK
<1>7. QED
  BY <1>5, <1>6 DEF IInv

\* A guest access that leaves the transmitter and the ring's registers alone.
LEMMA Accessed ==
  ASSUME IInv, drv.pc # "off",
         NEW n \in NicType, n.rsar < PStop, TxSame(n, nic), RingSame(n, nic), Stopped(n),
         NEW d \in DriverType, d.next = drv.next, d.pc # "off",
         d.pc = "fill" => n.rsar = TxPage /\ n.rbcr = 1,
         d.pc \in {"header", "body"} /\ ~lapped => Reading(d, queue, n),
         chip' = [chip EXCEPT !.nic = n], drv' = d, used' \in UsedType,
         queue' = queue, flight' = flight, lapped' = lapped
  PROVE  IInv'
<1> DEFINE c == chip'
<1>1. c = [nic |-> n, ram |-> chip.ram]
  BY Facts
<1>2. c \in ChipType /\ c.nic = n /\ c.ram = chip.ram
  BY <1>1, Facts DEF ChipType
<1>3. c.nic.txp = c.nic.pending /\ flight' = (IF c.nic.pending THEN <<c.nic.frame>> ELSE <<>>)
  BY <1>2, Facts DEF TxSame
<1>4. ~lapped' => Ringed(c, queue', d.next) /\ Guarded(c.nic, queue', d.next)
  <2>1. ~lapped => Ringed(chip, queue, drv.next) /\ Guarded(nic, queue, drv.next) /\ nic = chip.nic
    BY Facts
  <2>2. QED
    BY <1>2, <2>1 DEF Ringed, Guarded, RingSame
<1>5. /\ c.ram[TxPage].frame \in (-MaxSends)..0 /\ queue' \in Seq(Frames)
      /\ flight' \in Seq((-MaxSends)..0) /\ lapped' \in BOOLEAN /\ d.next \in Ring
  BY <1>2, Facts
<1>6. chip' = c
  OBVIOUS
<1> HIDE DEF c
<1>7. QED
  BY <1>2, <1>3, <1>4, <1>5, <1>6, Gathered

-----------------------------------------------------------------------------
\* The guest's accesses.
LEMMA ReadIsrStep ==
  ASSUME IInv, ReadIsr
  PROVE  IInv'
<1> DEFINE d == [drv EXCEPT !.pc = "seen", !.seen = nic.isr]
<1>1. /\ drv.pc = "idle" /\ chip' = [chip EXCEPT !.nic = nic] /\ drv' = d
      /\ UNCHANGED <<queue, flight, lapped, used>>
  BY DEF ReadIsr, Access
<1>2. drv \in DriverType /\ nic \in NicType
  BY Facts
<1>3. d \in DriverType /\ d.next = drv.next /\ d.pc = "seen"
  BY <1>2 DEF DriverType, NicType
<1>4. nic.rsar < PStop /\ Stopped(nic) /\ used \in UsedType /\ TxSame(nic, nic) /\ RingSame(nic, nic)
  BY Facts DEF TxSame, RingSame
<1> HIDE DEF d
<1>5. QED
  BY <1>1, <1>2, <1>3, <1>4, Accessed

LEMMA AckIsrStep ==
  ASSUME IInv, AckIsr
  PROVE  IInv'
<1> DEFINE k == Acknowledge(nic, drv.seen \ {"ovw"})
           t == IF "cnt" \in drv.seen THEN 0 ELSE k.tally
           n == [k EXCEPT !.tally = t]
           d == [drv EXCEPT !.pc = "drain"]
<1>1. /\ drv.pc = "seen" /\ chip' = [chip EXCEPT !.nic = n] /\ drv' = d
      /\ UNCHANGED <<queue, flight, lapped, used>>
  BY DEF AckIsr, Access
<1>2. /\ drv \in DriverType /\ nic \in NicType /\ nic.rsar < PStop /\ Stopped(nic)
      /\ used \in UsedType
  BY Facts
<1>3. /\ k \in NicType /\ TxSame(k, nic) /\ RingSame(k, nic) /\ Stopped(k)
      /\ k.rsar = nic.rsar /\ k.rbcr = nic.rbcr
  BY <1>2, AcknowledgeIs
<1> HIDE DEF k
<1>4. t \in 0..(2 * TallyFlag - 1)
  <2>1. 0 \in 0..(2 * TallyFlag - 1) /\ k.tally \in 0..(2 * TallyFlag - 1)
    BY <1>3, RingAssumption DEF NicType
  <2>2. QED
    BY <2>1
<1> HIDE DEF t
<1>5. n \in NicType /\ TxSame(n, nic) /\ RingSame(n, nic) /\ Stopped(n) /\ n.rsar = nic.rsar
  <2>1. n \in NicType /\ TxSame(n, k) /\ RingSame(n, k) /\ n.stp = k.stp /\ n.isr = k.isr
        /\ n.rsar = k.rsar
    BY <1>3, <1>4 DEF NicType, TxSame, RingSame
  <2>2. QED
    BY <1>3, <2>1 DEF TxSame, RingSame, Stopped
<1>6. d \in DriverType /\ d.next = drv.next /\ d.pc = "drain"
  BY <1>2 DEF DriverType
<1>7. n.rsar < PStop
  BY <1>2, <1>5
<1> HIDE DEF n, d
<1>8. QED
  BY <1>1, <1>2, <1>5, <1>6, <1>7, Accessed

LEMMA ReadHeaderStep ==
  ASSUME IInv, ReadHeader
  PROVE  IInv'
<1> USE RingIs
<1> DEFINE n == StartDma(nic, drv.next, 1, "read")
           d == [drv EXCEPT !.pc = "header", !.taken = <<>>]
<1>1. /\ drv.pc = "drain" /\ chip' = [chip EXCEPT !.nic = n] /\ drv' = d
      /\ nic.curr # drv.next /\ UNCHANGED <<queue, flight, lapped, used>>
  BY DEF ReadHeader, Access
<1>2. /\ drv \in DriverType /\ nic \in NicType /\ nic.txp = nic.pending /\ Stopped(nic)
      /\ used \in UsedType /\ drv.next \in Ring
      /\ ~lapped => Ringed(chip, queue, drv.next)
  BY <1>1, Facts
<1>3. drv.next \in 0..PStop /\ drv.next < PStop /\ 1 \in 0..RingSize
  BY <1>2 DEF Ring
<1>4. /\ n \in NicType /\ TxSame(n, nic) /\ RingSame(n, nic) /\ Stopped(n)
      /\ n.rsar = drv.next /\ n.rbcr = 1
  BY <1>2, <1>3, StartDmaIs
<1>5. d \in DriverType /\ d.next = drv.next /\ d.pc = "header" /\ d.taken = <<>> /\ Len(d.taken) = 0
  <2>1. <<>> \in Seq(Parts(Int)) /\ Len(<<>>) = 0
    BY EmptySeq
  <2>2. QED
    BY <1>2, <2>1 DEF DriverType
<1> HIDE DEF n, d
<1>6. ASSUME ~lapped PROVE Reading(d, queue, n)
  <2>1. queue # <<>>
    <3>1. Wrapped(drv.next + 0) = drv.next
      BY <1>2 DEF Wrapped, Ring
    <3>2. nic.curr = Wrapped(drv.next + PagesOf(queue))
      BY <1>2, <1>6 DEF Ringed, nic
    <3>3. QED
      BY <1>1, <3>1, <3>2, NoPages
  <2>2. Wrapped(drv.next + 0) = drv.next
    BY <1>2 DEF Wrapped, Ring
  <2>3. QED
    BY <1>4, <1>5, <2>1, <2>2 DEF Reading
<1>7. QED
  BY <1>1, <1>2, <1>3, <1>4, <1>5, <1>6, Accessed

LEMMA ReadPageStep ==
  ASSUME IInv, ReadPage
  PROVE  IInv'
<1> USE RingIs
<1> DEFINE n == Advance(nic)
           page == DmaPage(chip)
           d == [drv EXCEPT !.taken = Append(drv.taken, page)]
<1>1. /\ drv.pc \in {"header", "body"} /\ chip' = [chip EXCEPT !.nic = n] /\ drv' = d
      /\ nic.rbcr > 0 /\ UNCHANGED <<queue, flight, lapped, used>>
  BY DEF ReadPage, Access
<1>2. /\ drv \in DriverType /\ nic \in NicType /\ nic.rsar < PStop /\ Stopped(nic)
      /\ used \in UsedType /\ drv.next \in Ring /\ queue \in Seq(Frames)
      /\ ~lapped => Ringed(chip, queue, drv.next) /\ Reading(drv, queue, nic)
      /\ chip.ram \in [Pages -> Parts((-MaxSends)..MaxArrivals)] /\ nic = chip.nic
  BY <1>1, Facts
<1>3. /\ n \in NicType /\ TxSame(n, nic) /\ RingSame(n, nic) /\ Stopped(n)
      /\ n.rsar = Wrapped(nic.rsar + 1) /\ n.rbcr = nic.rbcr - 1 /\ n.rsar < PStop
  BY <1>1, <1>2, AdvanceIs
<1>4. page \in Parts(Int)
  BY <1>2, Bounds DEF DmaPage, Parts, Blank
<1>5. page = IF nic.rsar \in Pages THEN chip.ram[nic.rsar] ELSE Blank
  BY <1>2 DEF DmaPage
<1> HIDE DEF page
<1>6. /\ drv.taken \in Seq(Parts(Int)) /\ Len(drv.taken) \in Nat
      /\ d.taken \in Seq(Parts(Int)) /\ Len(d.taken) = Len(drv.taken) + 1
      /\ \A i \in 1..Len(drv.taken) : d.taken[i] = drv.taken[i]
      /\ d.taken[Len(drv.taken) + 1] = page
  <2>1. drv.taken \in Seq(Parts(Int)) /\ d.taken = Append(drv.taken, page)
    BY <1>2 DEF DriverType
  <2>2. QED
    BY <1>4, <2>1, AppendProperties, LenProperties
<1>7. d \in DriverType /\ d.next = drv.next /\ d.pc = drv.pc
  BY <1>2, <1>6 DEF DriverType
<1> HIDE DEF n, d
<1>8. ASSUME ~lapped PROVE Reading(d, queue, n)
  <2> DEFINE l == Len(drv.taken)
             f == queue[1]
  <2>1. /\ queue # <<>> /\ nic.rsar = Wrapped(drv.next + l)
        /\ l + nic.rbcr = IF drv.pc = "header" THEN 1 ELSE f.size
        /\ \A k \in 1..l :
             drv.taken[k] = [frame |-> f.frame, part |-> k, size |-> f.size,
                             next |-> Wrapped(drv.next + f.size)]
    BY <1>2, <1>8 DEF Reading
  <2>2. /\ PagesOf(queue) < RingSize /\ Holds(chip.ram, queue, drv.next)
    BY <1>2, <1>8 DEF Ringed
  <2>3. 1 \in 1..Len(queue) /\ Start(queue, 1) = 0 /\ f.size \in 1..(RingSize - 2)
        /\ Start(queue, 1 + 1) = f.size /\ f.size <= PagesOf(queue)
    <3>1. Len(queue) \in Nat /\ Len(queue) > 0
      BY <1>2, <2>1, EmptySeq
    <3>2. 1 \in 1..Len(queue)
      BY <3>1
    <3>3. f \in Frames /\ Start(queue, 1) = 0 /\ Start(queue, 1 + 1) = Start(queue, 1) + f.size
      BY <1>2, <3>2, Starts
    <3>4. f.size <= PagesOf(queue)
      BY <1>2, <2>1, StartTail
    <3>5. QED
      BY <3>2, <3>3, <3>4 DEF Frames
  <2>4. nic.rbcr \in Nat /\ l \in Nat
    BY <1>2, <1>6 DEF NicType
  <2> DEFINE k == l + 1
  <2>5. k \in 1..f.size /\ 0 + k - 1 = l /\ l + 1 <= RingSize
    <3> DEFINE s == f.size
               b == nic.rbcr
    <3>1. s \in 1..(RingSize - 2) /\ b \in Nat /\ b > 0 /\ l \in Nat
      BY <1>1, <2>3, <2>4
    <3>2. l + b = 1 \/ l + b = s
      BY <2>1
    <3> HIDE DEF s, b, l
    <3>3. l + 1 \in 1..s /\ 0 + (l + 1) - 1 = l /\ l + 1 <= RingSize
      BY <3>1, <3>2
    <3>4. QED
      BY <3>3 DEF s
  <2>6. chip.ram[Wrapped(drv.next + (Start(queue, 1) + k - 1))] =
          [frame |-> f.frame, part |-> k, size |-> f.size, next |-> Wrapped(drv.next + Start(queue, 1 + 1))]
    BY <2>2, <2>3, <2>5 DEF Holds
  <2>7. chip.ram[Wrapped(drv.next + l)] =
          [frame |-> f.frame, part |-> k, size |-> f.size, next |-> Wrapped(drv.next + f.size)]
    <3>1. Start(queue, 1) + k - 1 = l
      BY <2>3, <2>4
    <3>2. QED
      BY <2>3, <2>6, <3>1
  <2>8. Wrapped(drv.next + l) \in Pages /\ Wrapped(Wrapped(drv.next + l) + 1) = Wrapped(drv.next + (l + 1))
    <3>1. l \in 0..RingSize /\ 1 \in 0..RingSize
      BY <2>4, <2>5
    <3>2. QED
      BY <1>2, <2>5, <3>1, Around DEF Pages
  <2>9. page = [frame |-> f.frame, part |-> k, size |-> f.size, next |-> Wrapped(drv.next + f.size)]
    BY <1>5, <2>1, <2>7, <2>8
  <2>10. Len(d.taken) + n.rbcr = IF d.pc = "header" THEN 1 ELSE f.size
    <3>1. Len(d.taken) + n.rbcr = l + nic.rbcr
      <4> DEFINE b == nic.rbcr
      <4>1. Len(d.taken) = l + 1 /\ n.rbcr = b - 1 /\ b \in Nat /\ l \in Nat
        BY <1>3, <1>6, <2>4
      <4> HIDE DEF b, l
      <4>2. QED
        BY <4>1 DEF b
    <3>2. QED
      BY <1>7, <2>1, <3>1
  <2>11. n.rsar = Wrapped(d.next + Len(d.taken))
    BY <1>3, <1>6, <1>7, <2>1, <2>8
  <2>12. ASSUME NEW i \in 1..Len(d.taken)
         PROVE  d.taken[i] = [frame |-> f.frame, part |-> i, size |-> f.size,
                              next |-> Wrapped(d.next + f.size)]
    <3>1. i \in 1..l \/ i = l + 1
      BY <1>6
    <3>2. CASE i \in 1..l
      BY <1>6, <1>7, <2>1, <3>2
    <3>3. CASE i = l + 1
      BY <1>6, <1>7, <2>9, <3>3
    <3>4. QED
      BY <3>1, <3>2, <3>3
  <2>13. QED
    BY <2>1, <2>10, <2>11, <2>12 DEF Reading
<1>9. QED
  BY <1>1, <1>2, <1>3, <1>7, <1>8, Accessed

LEMMA ReadBodyStep ==
  ASSUME IInv, ReadBody
  PROVE  IInv'
<1> USE RingIs
<1> DEFINE size == drv.taken[1].size
           n == StartDma(nic, drv.next, size, "read")
           d == [drv EXCEPT !.pc = "body", !.taken = <<>>]
<1>1. /\ drv.pc = "header" /\ nic.rbcr = 0 /\ ~lapped
      /\ chip' = [chip EXCEPT !.nic = n] /\ drv' = d
      /\ UNCHANGED <<queue, flight, lapped, used>>
  BY DEF ReadBody, Access
<1>2. /\ drv \in DriverType /\ nic \in NicType /\ nic.txp = nic.pending /\ Stopped(nic)
      /\ used \in UsedType /\ drv.next \in Ring /\ queue \in Seq(Frames)
      /\ Ringed(chip, queue, drv.next) /\ Reading(drv, queue, nic)
  BY <1>1, Facts
<1>3. drv.next \in 0..PStop /\ drv.next < PStop
  BY <1>2 DEF Ring
<1>4. queue # <<>> /\ size = queue[1].size /\ size \in 0..RingSize
  <2>1. queue # <<>> /\ Len(drv.taken) = 1
    <3>1. Len(drv.taken) \in Nat
      BY <1>2, LenProperties DEF DriverType
    <3>2. QED
      BY <1>1, <1>2, <3>1 DEF Reading
  <2>2. 1 \in 1..Len(drv.taken)
    BY <2>1
  <2>3. size = queue[1].size
    <3>1. drv.taken[1] = [frame |-> queue[1].frame, part |-> 1, size |-> queue[1].size,
                          next |-> Wrapped(drv.next + queue[1].size)]
      BY <1>2, <2>2 DEF Reading
    <3>2. QED
      BY <3>1
  <2>4. queue[1] \in Frames
    <3>1. 1 \in 1..Len(queue)
      BY <1>2, <2>1, EmptySeq
    <3>2. QED
      BY <1>2, <3>1, Starts
  <2>5. QED
    BY <2>1, <2>3, <2>4 DEF Frames
<1> HIDE DEF size
<1>5. /\ n \in NicType /\ TxSame(n, nic) /\ RingSame(n, nic) /\ Stopped(n)
      /\ n.rsar = drv.next /\ n.rbcr = size
  BY <1>2, <1>3, <1>4, StartDmaIs
<1>6. d \in DriverType /\ d.next = drv.next /\ d.pc = "body" /\ Len(d.taken) = 0
  <2>1. <<>> \in Seq(Parts(Int)) /\ Len(<<>>) = 0
    BY EmptySeq
  <2>2. QED
    BY <1>2, <2>1 DEF DriverType
<1> HIDE DEF n, d
<1>7. Reading(d, queue, n)
  <2>1. Wrapped(drv.next + 0) = drv.next
    BY <1>2 DEF Wrapped, Ring
  <2>2. QED
    BY <1>4, <1>5, <1>6, <2>1 DEF Reading
<1>8. QED
  BY <1>1, <1>2, <1>3, <1>5, <1>6, <1>7, Accessed

LEMMA DrainedStep ==
  ASSUME IInv, Drained
  PROVE  IInv'
<1>1. /\ drv \in DriverType /\ nic \in NicType /\ nic.rsar < PStop /\ Stopped(nic)
      /\ used \in UsedType /\ TxSame(nic, nic) /\ RingSame(nic, nic)
  BY Facts DEF TxSame, RingSame
<1>2. CASE "ovw" \in drv.seen
  <2> DEFINE n == Acknowledge(nic, {"ovw"})
             d == [drv EXCEPT !.seen = {}]
  <2>1. /\ drv.pc = "drain" /\ chip' = [chip EXCEPT !.nic = n] /\ drv' = d
        /\ UNCHANGED <<queue, flight, lapped, used>>
    BY <1>2 DEF Drained, Access
  <2>2. /\ n \in NicType /\ TxSame(n, nic) /\ RingSame(n, nic) /\ Stopped(n)
        /\ n.rsar = nic.rsar
    BY <1>1, AcknowledgeIs
  <2>3. d \in DriverType /\ d.next = drv.next /\ d.pc = "drain"
    BY <1>1, <2>1 DEF DriverType
  <2>4. n.rsar < PStop
    BY <1>1, <2>2
  <2> HIDE DEF n, d
  <2>5. QED
    BY <1>1, <2>1, <2>2, <2>3, <2>4, Accessed
<1>3. CASE "ovw" \notin drv.seen
  <2> DEFINE d == [drv EXCEPT !.pc = "idle", !.seen = {}]
  <2>1. /\ drv.pc = "drain" /\ chip' = [chip EXCEPT !.nic = nic] /\ drv' = d
        /\ UNCHANGED <<queue, flight, lapped, used>>
    BY <1>3 DEF Drained, Access
  <2>2. d \in DriverType /\ d.next = drv.next /\ d.pc = "idle"
    BY <1>1 DEF DriverType
  <2> HIDE DEF d
  <2>3. QED
    BY <1>1, <2>1, <2>2, Accessed
<1>4. QED
  BY <1>2, <1>3

LEMMA FillTransmitPageStep ==
  ASSUME IInv, FillTransmitPage
  PROVE  IInv'
<1> DEFINE n == StartDma(nic, TxPage, 1, "write")
           d == [drv EXCEPT !.pc = "fill"]
<1>1. /\ drv.pc = "idle" /\ chip' = [chip EXCEPT !.nic = n] /\ drv' = d
      /\ used.sends < MaxSends /\ used' = [used EXCEPT !.sends = used.sends + 1]
      /\ UNCHANGED <<queue, flight, lapped>>
  BY DEF FillTransmitPage, nic
<1>2. /\ drv \in DriverType /\ nic \in NicType /\ nic.txp = nic.pending /\ Stopped(nic)
      /\ used \in UsedType
  BY Facts
<1>3. TxPage \in 0..PStop /\ TxPage < PStop /\ 1 \in 0..RingSize
  BY RingIs
<1>4. /\ n \in NicType /\ TxSame(n, nic) /\ RingSame(n, nic) /\ Stopped(n)
      /\ n.rsar = TxPage /\ n.rbcr = 1
  BY <1>2, <1>3, StartDmaIs
<1>5. d \in DriverType /\ d.next = drv.next /\ d.pc = "fill"
  BY <1>2 DEF DriverType
<1>6. used' \in UsedType
  BY <1>1, <1>2, Bounds DEF UsedType
<1> HIDE DEF n, d
<1>7. QED
  BY <1>1, <1>3, <1>4, <1>5, <1>6, Accessed

LEMMA StopStep ==
  ASSUME IInv, Stop
  PROVE  IInv'
<1> DEFINE no == FALSE
           yes == TRUE
           n == Command(nic, no, yes, "none")
           d == [drv EXCEPT !.pc = "stopping"]
<1>1. /\ drv.pc = "idle" /\ chip' = [chip EXCEPT !.nic = n] /\ drv' = d
      /\ used.whims < MaxWhims /\ used' = [used EXCEPT !.whims = used.whims + 1]
      /\ UNCHANGED <<queue, flight, lapped>>
  BY DEF Stop, nic
<1>2. /\ drv \in DriverType /\ nic \in NicType /\ nic.txp = nic.pending /\ Stopped(nic)
      /\ used \in UsedType /\ nic.rsar < PStop
  BY Facts
<1>3. no \in BOOLEAN /\ yes \in BOOLEAN
  OBVIOUS
<1> HIDE DEF no, yes
<1>4. /\ n \in NicType /\ TxSame(n, nic) /\ RingSame(n, nic) /\ Stopped(n)
      /\ n.rsar = nic.rsar
  BY <1>2, <1>3, CommandIs
<1>5. d \in DriverType /\ d.next = drv.next /\ d.pc = "stopping"
  BY <1>2 DEF DriverType
<1>6. used' \in UsedType
  BY <1>1, <1>2, Bounds DEF UsedType
<1> HIDE DEF n, d
<1>7. QED
  BY <1>1, <1>2, <1>4, <1>5, <1>6, Accessed

LEMMA RestartStep ==
  ASSUME IInv, Restart
  PROVE  IInv'
<1> DEFINE no == FALSE
           yes == TRUE
           n == Command(nic, yes, no, "none")
           d == [drv EXCEPT !.pc = "idle"]
<1>1. /\ drv.pc = "stopping" /\ chip' = [chip EXCEPT !.nic = n] /\ drv' = d
      /\ UNCHANGED <<queue, flight, lapped, used>>
  BY DEF Restart, Access
<1>2. /\ drv \in DriverType /\ nic \in NicType /\ nic.txp = nic.pending /\ Stopped(nic)
      /\ used \in UsedType /\ nic.rsar < PStop
  BY Facts
<1>3. no \in BOOLEAN /\ yes \in BOOLEAN
  OBVIOUS
<1> HIDE DEF no, yes
<1>4. /\ n \in NicType /\ TxSame(n, nic) /\ RingSame(n, nic) /\ Stopped(n)
      /\ n.rsar = nic.rsar
  BY <1>2, <1>3, CommandIs
<1>5. d \in DriverType /\ d.next = drv.next /\ d.pc = "idle"
  BY <1>2 DEF DriverType
<1> HIDE DEF n, d
<1>6. QED
  BY <1>1, <1>2, <1>4, <1>5, Accessed

LEMMA SetupStep ==
  ASSUME IInv, Setup
  PROVE  IInv'
<1> USE RingIs
<1>1. PICK mode \in Modes :
        Access(Command([nic EXCEPT !.bnry = PStart, !.curr = PStart + 1,
                                   !.monitor = mode.monitor, !.loop = mode.loop,
                                   !.imr = Bits \ {"rst", "rdc"}],
                       TRUE, FALSE, "none"),
               [drv EXCEPT !.pc = "idle", !.next = PStart + 1])
  BY DEF Setup
<1> DEFINE no == FALSE
           yes == TRUE
           k == [nic EXCEPT !.bnry = PStart, !.curr = PStart + 1,
                            !.monitor = mode.monitor, !.loop = mode.loop,
                            !.imr = Bits \ {"rst", "rdc"}]
           n == Command(k, yes, no, "none")
           d == [drv EXCEPT !.pc = "idle", !.next = PStart + 1]
           c == [chip EXCEPT !.nic = n]
<1>2. /\ drv.pc = "off" /\ chip' = c /\ drv' = d
      /\ UNCHANGED <<queue, flight, lapped, used>>
  BY <1>1 DEF Setup, Access
<1>3. /\ drv \in DriverType /\ nic \in NicType /\ nic.txp = nic.pending /\ Stopped(nic)
      /\ used \in UsedType /\ nic.rsar < PStop /\ queue = <<>> /\ lapped \in BOOLEAN
      /\ chip.ram \in [Pages -> Parts((-MaxSends)..MaxArrivals)]
      /\ chip.ram[TxPage].frame \in (-MaxSends)..0 /\ chip = [nic |-> nic, ram |-> chip.ram]
      /\ flight = (IF nic.pending THEN <<nic.frame>> ELSE <<>>)
      /\ flight \in Seq((-MaxSends)..0)
  BY <1>2, Facts
<1>4. mode.monitor \in BOOLEAN /\ mode.loop \in {"none", "internal", "external"}
  BY DriverAssumption
<1>5. PStart \in 0..PStop /\ PStart + 1 \in 0..PStop /\ PStart + 1 \in Ring
      /\ Bits \ {"rst", "rdc"} \in SUBSET (Bits \ {"rst"})
  BY DEF Ring
<1>6. /\ k \in NicType /\ TxSame(k, nic) /\ k.stp = nic.stp /\ k.isr = nic.isr
      /\ k.rsar = nic.rsar /\ k.bnry = PStart /\ k.curr = PStart + 1
  BY <1>3, <1>4, <1>5 DEF NicType, TxSame
<1>7. k.txp = k.pending /\ Stopped(k) /\ no \in BOOLEAN /\ yes \in BOOLEAN
  BY <1>3, <1>6 DEF TxSame, Stopped
<1> HIDE DEF k, no, yes
<1>8. /\ n \in NicType /\ TxSame(n, k) /\ RingSame(n, k) /\ Stopped(n)
      /\ n.rsar = k.rsar
  BY <1>6, <1>7, CommandIs
<1>9. d \in DriverType /\ d.next = PStart + 1 /\ d.pc = "idle"
  BY <1>3, <1>5 DEF DriverType
<1>10. c \in ChipType /\ c.nic = n /\ c.ram = chip.ram
  BY <1>3, <1>8 DEF ChipType
<1> HIDE DEF n, d, c
<1>11. Ringed(c, queue, PStart + 1) /\ Guarded(c.nic, queue, PStart + 1)
  <2>1. PagesOf(queue) = 0 /\ Len(queue) = 0
    BY <1>3, NoPages, EmptySeq
  <2>2. Wrapped(PStart + 1 + 0) = PStart + 1 /\ PStart + 1 = Wrapped(PStart + 1)
    BY DEF Wrapped
  <2>3. c.nic.curr = PStart + 1 /\ c.nic.bnry = PStart
    BY <1>6, <1>8, <1>10 DEF RingSame
  <2>4. QED
    BY <2>1, <2>2, <2>3 DEF Ringed, Guarded, Holds
<1>12. /\ c.nic.txp = c.nic.pending /\ c.nic.rsar < PStop /\ Stopped(c.nic)
       /\ flight' = (IF c.nic.pending THEN <<c.nic.frame>> ELSE <<>>)
  BY <1>2, <1>3, <1>6, <1>8, <1>10 DEF TxSame
<1>13. /\ queue' \in Seq(Frames) /\ flight' \in Seq((-MaxSends)..0) /\ lapped' \in BOOLEAN
       /\ used' \in UsedType /\ c.ram[TxPage].frame \in (-MaxSends)..0
  BY <1>2, <1>3, <1>10, NoPages
<1>14. QED
  BY <1>2, <1>5, <1>9, <1>10, <1>11, <1>12, <1>13, Gathered

LEMMA ConsumeStep ==
  ASSUME IInv, Consume
  PROVE  /\ IInv' /\ Len(drv.taken) = Head(queue).size
         /\ \A k \in DOMAIN drv.taken :
              drv.taken[k].frame = Head(queue).frame /\ drv.taken[k].part = k
<1> USE RingIs
<1> DEFINE next == drv.taken[1].next
<1>1. PICK mark \in IF next = PStart THEN EndMarks ELSE {next - 1} :
        /\ chip' = [chip EXCEPT !.nic.bnry = mark]
        /\ drv' = [drv EXCEPT !.pc = "drain", !.next = next, !.taken = <<>>]
  BY DEF Consume
<1> DEFINE d == [drv EXCEPT !.pc = "drain", !.next = next, !.taken = <<>>]
           n == [nic EXCEPT !.bnry = mark]
           c == [chip EXCEPT !.nic = n]
           f == queue[1]
<1>2. /\ drv.pc = "body" /\ nic.rbcr = 0 /\ ~lapped /\ chip' = c /\ drv' = d
      /\ queue' = Tail(queue) /\ UNCHANGED <<flight, lapped, used>>
  BY <1>1 DEF Consume, nic
<1>3. /\ drv \in DriverType /\ nic \in NicType /\ nic.txp = nic.pending /\ Stopped(nic)
      /\ used \in UsedType /\ nic.rsar < PStop /\ drv.next \in Ring /\ queue \in Seq(Frames)
      /\ Ringed(chip, queue, drv.next) /\ Guarded(nic, queue, drv.next) /\ Reading(drv, queue, nic)
      /\ chip.ram \in [Pages -> Parts((-MaxSends)..MaxArrivals)]
      /\ chip.ram[TxPage].frame \in (-MaxSends)..0 /\ chip = [nic |-> nic, ram |-> chip.ram]
      /\ flight = (IF nic.pending THEN <<nic.frame>> ELSE <<>>)
      /\ flight \in Seq((-MaxSends)..0) /\ lapped \in BOOLEAN
  BY <1>2, Facts
<1>4. /\ queue # <<>> /\ f \in Frames /\ Len(drv.taken) = f.size
      /\ \A k \in 1..Len(drv.taken) :
           drv.taken[k] = [frame |-> f.frame, part |-> k, size |-> f.size,
                           next |-> Wrapped(drv.next + f.size)]
  <2>1. queue # <<>> /\ Len(drv.taken) + 0 = f.size
        /\ \A k \in 1..Len(drv.taken) :
             drv.taken[k] = [frame |-> f.frame, part |-> k, size |-> f.size,
                             next |-> Wrapped(drv.next + f.size)]
    BY <1>2, <1>3 DEF Reading
  <2>2. 1 \in 1..Len(queue)
    BY <1>3, <2>1, EmptySeq
  <2>3. f \in Frames
    BY <1>3, <2>2, Starts
  <2>4. Len(drv.taken) \in Nat
    BY <1>3, LenProperties DEF DriverType
  <2>5. QED
    BY <2>1, <2>3, <2>4
<1>5. f.size \in Nat /\ f.size > 0
  BY <1>4 DEF Frames
<1>6. next = Wrapped(drv.next + f.size)
  <2>1. 1 \in 1..Len(drv.taken)
    BY <1>4, <1>5
  <2>2. drv.taken[1] = [frame |-> f.frame, part |-> 1, size |-> f.size,
                        next |-> Wrapped(drv.next + f.size)]
    BY <1>4, <2>1
  <2>3. QED
    BY <2>2
<1>7. Head(queue) = f /\ DOMAIN drv.taken = 1..Len(drv.taken)
  BY <1>3, <1>4, LenProperties DEF DriverType
<1>8. next \in Ring /\ Ringed(chip, Tail(queue), next)
  BY <1>3, <1>4, <1>6, TailHolds
<1> HIDE DEF next
<1>9. mark \in 0..PStop /\ (mark \in Ring => next = Wrapped(mark + 1))
  <2>1. CASE next = PStart
    <3>1. mark = PStop - 1 \/ mark = PStop
      BY <1>1, <2>1, DriverAssumption
    <3>2. QED
      BY <2>1, <3>1 DEF Ring, Wrapped
  <2>2. CASE next # PStart
    <3>1. mark = next - 1
      BY <1>1, <2>2
    <3>2. QED
      BY <1>8, <2>2, <3>1 DEF Ring, Wrapped
  <2>3. QED
    BY <2>1, <2>2
<1>10. PagesOf(Tail(queue)) < RingSize - 1 /\ Tail(queue) \in Seq(Frames)
  <2>1. PagesOf(Tail(queue)) = PagesOf(queue) - f.size /\ PagesOf(queue) \in Nat
    BY <1>3, <1>4, StartTail, Starts
  <2>2. PagesOf(queue) < RingSize
    BY <1>3 DEF Ringed
  <2>3. Tail(queue) \in Seq(Frames)
    BY <1>3, <1>4, HeadTailProperties
  <2>4. QED
    BY <1>5, <2>1, <2>2, <2>3
<1>11. /\ n \in NicType /\ TxSame(n, nic) /\ n.stp = nic.stp /\ n.isr = nic.isr
       /\ n.rsar = nic.rsar /\ n.bnry = mark /\ n.curr = nic.curr
  BY <1>3, <1>9 DEF NicType, TxSame
<1>12. d \in DriverType /\ d.pc = "drain" /\ d.next = next
  <2>1. <<>> \in Seq(Parts(Int)) /\ next \in 0..PStop
    BY <1>8, EmptySeq DEF Ring
  <2>2. QED
    BY <1>3, <2>1 DEF DriverType
<1>13. c \in ChipType /\ c.nic = n /\ c.ram = chip.ram
  BY <1>3, <1>11 DEF ChipType
<1> HIDE DEF n, d, c
<1>14. Ringed(c, queue', next) /\ Guarded(c.nic, queue', next)
  <2>1. chip.nic.curr = c.nic.curr
    BY <1>11, <1>13 DEF nic
  <2>2. QED
    BY <1>2, <1>8, <1>9, <1>10, <1>11, <1>13, <2>1 DEF Ringed, Guarded
<1>15. /\ c.nic.txp = c.nic.pending /\ c.nic.rsar < PStop /\ Stopped(c.nic)
       /\ flight' = (IF c.nic.pending THEN <<c.nic.frame>> ELSE <<>>)
  BY <1>2, <1>3, <1>11, <1>13 DEF TxSame, Stopped
<1>16. /\ queue' \in Seq(Frames) /\ flight' \in Seq((-MaxSends)..0) /\ lapped' \in BOOLEAN
       /\ used' \in UsedType /\ c.ram[TxPage].frame \in (-MaxSends)..0
  BY <1>2, <1>3, <1>10, <1>13
<1>17. IInv'
  BY <1>2, <1>8, <1>12, <1>13, <1>14, <1>15, <1>16, Gathered
<1>18. Len(drv.taken) = Head(queue).size
  BY <1>4, <1>7
<1>19. ASSUME NEW k \in DOMAIN drv.taken
       PROVE  drv.taken[k].frame = Head(queue).frame /\ drv.taken[k].part = k
  <2>1. drv.taken[k] = [frame |-> f.frame, part |-> k, size |-> f.size,
                        next |-> Wrapped(drv.next + f.size)]
    BY <1>4, <1>7
  <2>2. drv.taken[k].frame = f.frame /\ drv.taken[k].part = k
    BY <2>1
  <2>3. QED
    BY <1>7, <2>2
<1> HIDE DEF f
<1>20. QED
  BY <1>17, <1>18, <1>19

LEMMA WritePageStep ==
  ASSUME IInv, WritePage
  PROVE  IInv'
<1> USE RingIs
<1> DEFINE n == Advance(nic)
           d == [drv EXCEPT !.pc = "idle", !.filled = TRUE]
           ram == [chip.ram EXCEPT ![TxPage].frame = -used.sends]
           c == [nic |-> n, ram |-> ram]
<1>1. /\ drv \in DriverType /\ nic \in NicType /\ nic.rsar < PStop /\ nic.txp = nic.pending
      /\ Stopped(nic) /\ used \in UsedType
      /\ queue \in Seq(Frames) /\ lapped \in BOOLEAN /\ nic = chip.nic
      /\ chip.ram \in [Pages -> Parts((-MaxSends)..MaxArrivals)]
      /\ flight = (IF nic.pending THEN <<nic.frame>> ELSE <<>>)
      /\ flight \in Seq((-MaxSends)..0)
  BY Facts
<1>2. /\ drv.pc = "fill" /\ nic.rsar = TxPage /\ nic.rbcr = 1 /\ drv.next \in Ring
      /\ ~lapped => Ringed(chip, queue, drv.next) /\ Guarded(nic, queue, drv.next)
  <2>1. drv.pc = "fill"
    BY DEF WritePage
  <2>2. QED
    BY <2>1, Facts
<1>3. chip' = c /\ drv' = d /\ UNCHANGED <<queue, flight, lapped, used>>
  BY <1>2 DEF WritePage
<1>4. /\ n \in NicType /\ TxSame(n, nic) /\ RingSame(n, nic) /\ Stopped(n) /\ n.rsar < PStop
  BY <1>1, <1>2, AdvanceIs
<1>5. d \in DriverType /\ d.pc = "idle" /\ d.next = drv.next
  BY <1>1 DEF DriverType
<1>6. TxPage \in Pages /\ TxPage \notin Ring /\ -used.sends \in (-MaxSends)..0
  BY <1>1, Bounds DEF Pages, Ring, UsedType
<1>7. /\ ram \in [Pages -> Parts((-MaxSends)..MaxArrivals)]
      /\ ram[TxPage].frame = -used.sends /\ \A p \in Ring : ram[p] = chip.ram[p]
  <2> DEFINE part == [chip.ram[TxPage] EXCEPT !.frame = -used.sends]
  <2>1. chip.ram[TxPage] \in Parts((-MaxSends)..MaxArrivals)
    BY <1>1, <1>6
  <2>2. -used.sends \in (-MaxSends)..MaxArrivals
    BY <1>6, Bounds
  <2>3. part \in Parts((-MaxSends)..MaxArrivals) /\ part.frame = -used.sends
    BY <2>1, <2>2 DEF Parts
  <2>4. ram = [chip.ram EXCEPT ![TxPage] = part]
    OBVIOUS
  <2> HIDE DEF part, ram
  <2>5. ram \in [Pages -> Parts((-MaxSends)..MaxArrivals)] /\ ram[TxPage] = part
    BY <1>1, <1>6, <2>3, <2>4
  <2>6. \A p \in Ring : ram[p] = chip.ram[p]
    BY <1>1, <1>6, <2>4 DEF Pages
  <2>7. QED
    BY <2>3, <2>5, <2>6
<1>8. c \in ChipType /\ c.nic = n /\ c.ram = ram
  BY <1>4, <1>7 DEF ChipType
<1> HIDE DEF n, d, ram, c
<1>9. ASSUME ~lapped'
      PROVE  Ringed(c, queue', drv.next) /\ Guarded(c.nic, queue', drv.next)
  <2>1. Ringed(chip, queue, drv.next) /\ Guarded(nic, queue, drv.next)
    BY <1>2, <1>3, <1>9
  <2>2. Guarded(c.nic, queue, drv.next) /\ PagesOf(queue) < RingSize
        /\ c.nic.curr = Wrapped(drv.next + PagesOf(queue))
    BY <1>1, <1>4, <1>8, <2>1 DEF Ringed, Guarded, RingSame
  <2>3. ASSUME NEW i \in 1..Len(queue), NEW k \in 1..queue[i].size
        PROVE  c.ram[Wrapped(drv.next + (Start(queue, i) + k - 1))] =
                 [frame |-> queue[i].frame, part |-> k, size |-> queue[i].size,
                  next |-> Wrapped(drv.next + Start(queue, i + 1))]
    <3> DEFINE o == Start(queue, i) + k - 1
    <3>1. o \in 0..(PagesOf(queue) - 1)
      BY <1>1, Offsets
    <3>2. PagesOf(queue) \in Nat
      BY <1>1, Starts
    <3>3. chip.ram[Wrapped(drv.next + o)] =
            [frame |-> queue[i].frame, part |-> k, size |-> queue[i].size,
             next |-> Wrapped(drv.next + Start(queue, i + 1))]
      BY <2>1 DEF Ringed, Holds
    <3> HIDE DEF o
    <3>4. o \in 0..RingSize
      BY <2>2, <3>1, <3>2
    <3>5. Wrapped(drv.next + o) \in Ring
      BY <1>2, <3>4, Around
    <3>6. QED
      BY <1>7, <1>8, <3>3, <3>5 DEF o
  <2>4. QED
    BY <1>3, <2>2, <2>3 DEF Ringed, Holds
<1>10. /\ c.nic.txp = c.nic.pending /\ Stopped(c.nic) /\ c.nic.rsar < PStop
       /\ flight' = (IF c.nic.pending THEN <<c.nic.frame>> ELSE <<>>)
  BY <1>1, <1>3, <1>4, <1>8 DEF TxSame
<1>11. /\ queue' \in Seq(Frames) /\ flight' \in Seq((-MaxSends)..0) /\ lapped' \in BOOLEAN
       /\ used' \in UsedType /\ c.ram[TxPage].frame \in (-MaxSends)..0
  BY <1>1, <1>3, <1>6, <1>7, <1>8
<1>12. QED
  BY <1>2, <1>3, <1>5, <1>8, <1>9, <1>10, <1>11, Gathered

LEMMA RequestTransmitStep ==
  ASSUME IInv, RequestTransmit
  PROVE  IInv'
<1>1. PICK valid \in BOOLEAN :
        /\ chip' = CommandTransmit(chip, "none", valid)
        /\ flight' = IF valid /\ ~nic.pending THEN Append(flight, chip.ram[TxPage].frame)
                                              ELSE flight
  BY DEF RequestTransmit
<1> DEFINE no == FALSE
           yes == TRUE
           k == Command(nic, yes, no, "none")
           b == [nic |-> k, ram |-> chip.ram]
           d == [drv EXCEPT !.filled = FALSE]
           c == chip'
<1>2. /\ drv \in DriverType /\ nic \in NicType /\ nic.rsar < PStop /\ nic.txp = nic.pending
      /\ Stopped(nic) /\ used \in UsedType
      /\ queue \in Seq(Frames) /\ lapped \in BOOLEAN /\ nic = chip.nic
      /\ chip.ram \in [Pages -> Parts((-MaxSends)..MaxArrivals)]
      /\ chip.ram[TxPage].frame \in (-MaxSends)..0
      /\ chip = [nic |-> nic, ram |-> chip.ram]
      /\ flight = (IF nic.pending THEN <<nic.frame>> ELSE <<>>)
      /\ flight \in Seq((-MaxSends)..0)
  BY Facts
<1>3. drv.pc = "idle" /\ drv' = d /\ UNCHANGED <<queue, lapped, used>>
  BY DEF RequestTransmit
<1>4. drv.next \in Ring /\ (~lapped => Ringed(chip, queue, drv.next) /\ Guarded(nic, queue, drv.next))
  BY <1>3, Facts
<1>5. d \in DriverType /\ d.pc = "idle" /\ d.next = drv.next
  BY <1>2, <1>3 DEF DriverType
<1>6. chip' = Transmit(b, valid)
  <2>1. \A x : [chip EXCEPT !.nic = x] = [nic |-> x, ram |-> chip.ram]
    BY <1>2
  <2>2. Command(chip.nic, TRUE, FALSE, "none") = k
    BY <1>2
  <2> HIDE DEF k
  <2>3. [chip EXCEPT !.nic = Command(chip.nic, TRUE, FALSE, "none")] = b
    BY <2>1, <2>2
  <2> HIDE DEF b
  <2>4. QED
    BY <1>1, <2>3 DEF CommandTransmit
<1>7. no \in BOOLEAN /\ yes \in BOOLEAN
  OBVIOUS
<1> HIDE DEF no, yes
<1>8. /\ k \in NicType /\ TxSame(k, nic) /\ RingSame(k, nic) /\ Stopped(k) /\ k.rsar = nic.rsar
      /\ k.stp = no
  BY <1>2, <1>7, CommandIs
<1> HIDE DEF k, d
<1>9. /\ c \in ChipType /\ c.ram = chip.ram /\ RingSame(c.nic, nic) /\ c.nic.rsar = nic.rsar
      /\ c.nic.txp = c.nic.pending /\ Stopped(c.nic)
      /\ flight' = (IF c.nic.pending THEN <<c.nic.frame>> ELSE <<>>)
      /\ flight' \in Seq((-MaxSends)..0)
  <2>1. CASE k.pending
    <3>1. chip' = b
      BY <1>6, <2>1 DEF Transmit
    <3>2. nic.pending /\ nic.frame = k.frame
      BY <1>8, <2>1 DEF TxSame
    <3>3. flight' = flight /\ flight = <<k.frame>>
      BY <1>1, <1>2, <3>2
    <3>4. c.nic = k /\ c.ram = chip.ram /\ k.txp = k.pending
      BY <1>2, <1>8, <3>1 DEF TxSame
    <3>5. c \in ChipType
      BY <1>2, <1>8, <3>1 DEF ChipType
    <3> HIDE DEF c
    <3>6. QED
      BY <1>2, <1>8, <2>1, <3>3, <3>4, <3>5
  <2>2. CASE ~k.pending /\ ~valid
    <3> DEFINE i1 == k.isr \cup {"txe"}
               m == [k EXCEPT !.txp = no, !.isr = i1]
    <3>1. chip' = [nic |-> m, ram |-> chip.ram]
      BY <1>6, <2>2 DEF Transmit, no
    <3>2. i1 \in SUBSET Bits
      BY <1>8 DEF NicType, Bits
    <3>3. "rst" \in k.isr => "rst" \in i1
      OBVIOUS
    <3> HIDE DEF i1
    <3>4. m \in NicType /\ RingSame(m, k) /\ m.rsar = k.rsar /\ m.stp = k.stp /\ m.isr = i1
          /\ m.pending = k.pending /\ m.txp = no
      BY <1>7, <1>8, <3>2 DEF NicType, RingSame
    <3> HIDE DEF m
    <3>5. c.nic = m /\ c.ram = chip.ram /\ c \in ChipType
      BY <1>2, <3>1, <3>4 DEF ChipType
    <3> HIDE DEF c
    <3>6. flight' = flight /\ flight = <<>> /\ ~m.pending /\ ~m.txp
      BY <1>1, <1>2, <1>8, <2>2, <3>4 DEF TxSame, no
    <3>7. m.txp = m.pending
      BY <3>4, <3>6 DEF NicType
    <3>8. Stopped(m) /\ RingSame(m, nic) /\ m.rsar = nic.rsar
      BY <1>8, <3>3, <3>4 DEF Stopped, RingSame
    <3>9. QED
      BY <1>2, <3>5, <3>6, <3>7, <3>8
  <2>3. CASE ~k.pending /\ valid
    <3> DEFINE id == chip.ram[TxPage].frame
               m == [k EXCEPT !.txp = yes, !.pending = yes, !.frame = id]
    <3>1. chip' = [nic |-> m, ram |-> chip.ram]
      BY <1>6, <2>3 DEF Transmit, yes
    <3>2. id \in Int /\ id \in (-MaxSends)..0
      BY <1>2, Bounds
    <3> HIDE DEF id
    <3>3. m \in NicType /\ RingSame(m, k) /\ m.rsar = k.rsar /\ m.pending = yes /\ m.txp = yes
          /\ m.frame = id
      BY <1>7, <1>8, <3>2 DEF NicType, RingSame
    <3> HIDE DEF m
    <3>4. c.nic = m /\ c.ram = chip.ram /\ c \in ChipType
      BY <1>2, <3>1, <3>3 DEF ChipType
    <3> HIDE DEF c
    <3>5. ~nic.pending /\ flight = <<>>
      BY <1>2, <1>8, <2>3 DEF TxSame
    <3>6. flight' = <<id>>
      BY <1>1, <2>3, <3>5 DEF id
    <3>7. m.pending /\ m.txp = m.pending /\ Stopped(m) /\ RingSame(m, nic) /\ m.rsar = nic.rsar
      BY <1>8, <3>3 DEF Stopped, RingSame, yes
    <3>8. <<id>> \in Seq((-MaxSends)..0)
      BY <3>2
    <3>9. QED
      BY <3>3, <3>4, <3>6, <3>7, <3>8
  <2>4. QED
    BY <2>1, <2>2, <2>3
<1>10. chip' = c
  OBVIOUS
<1> HIDE DEF c
<1>11. ~lapped' => Ringed(c, queue', drv.next) /\ Guarded(c.nic, queue', drv.next)
  BY <1>2, <1>3, <1>4, <1>9 DEF Ringed, Guarded, RingSame
<1>12. /\ queue' \in Seq(Frames) /\ lapped' \in BOOLEAN /\ used' \in UsedType
       /\ c.ram[TxPage].frame \in (-MaxSends)..0 /\ c.nic.rsar < PStop
  BY <1>2, <1>3, <1>9
<1>13. QED
  BY <1>3, <1>4, <1>5, <1>9, <1>10, <1>11, <1>12, Gathered

LEMMA ResetPortStep ==
  ASSUME IInv, ResetPort
  PROVE  IInv'
<1> DEFINE n == Reset(nic)
           c == [chip EXCEPT !.nic = n]
<1>1. /\ nic \in NicType /\ nic.rsar < PStop /\ used \in UsedType
      /\ chip.ram \in [Pages -> Parts((-MaxSends)..MaxArrivals)]
      /\ chip.ram[TxPage].frame \in (-MaxSends)..0
      /\ chip = [nic |-> nic, ram |-> chip.ram]
      /\ flight = (IF nic.pending THEN <<nic.frame>> ELSE <<>>)
      /\ flight \in Seq((-MaxSends)..0)
  BY Facts
<1>2. /\ chip' = c /\ drv' = DriverOff /\ queue' = <<>> /\ lapped' = FALSE
      /\ flight' = IF nic.pending THEN Front(flight) ELSE flight
  BY DEF ResetPort, nic
<1>3. used' \in UsedType
  BY <1>1, Bounds DEF ResetPort, UsedType
<1>4. n \in NicType /\ ~n.sta /\ ~n.txp /\ ~n.pending /\ "rst" \in n.isr /\ n.rsar = nic.rsar
  BY <1>1, ResetIs
<1>5. c \in ChipType /\ c.nic = n /\ c.ram = chip.ram
  BY <1>1, <1>4 DEF ChipType
<1> HIDE DEF n, c
<1>6. flight' = <<>> /\ <<>> \in Seq((-MaxSends)..0)
  <2>1. SubSeq(<<nic.frame>>, 1, 0) = <<>>
    BY SubSeqEmpty
  <2>2. Len(<<nic.frame>>) - 1 = 0
    OBVIOUS
  <2>3. Front(<<nic.frame>>) = <<>>
    BY <2>1, <2>2 DEF Front
  <2>4. QED
    BY <1>1, <1>2, <2>3, EmptySeq
<1>7. DriverOff \in DriverType /\ DriverOff.pc = "off"
  <2>1. <<>> \in Seq(Parts(Int))
    BY EmptySeq
  <2>2. QED
    BY <2>1, RingIs DEF DriverOff, DriverType
<1>8. c.nic.txp = c.nic.pending /\ Stopped(c.nic) /\ ~c.nic.sta /\ c.nic.rsar < PStop
  BY <1>1, <1>4, <1>5 DEF Stopped, NicType
<1>9. queue' = <<>> /\ queue' \in Seq(Frames) /\ lapped' \in BOOLEAN /\ ~lapped'
  BY <1>2, NoPages
<1>10. flight' = (IF c.nic.pending THEN <<c.nic.frame>> ELSE <<>>)
  BY <1>4, <1>5, <1>6
<1>11. QED
  BY <1>1, <1>2, <1>3, <1>5, <1>6, <1>7, <1>8, <1>9, <1>10, Gathered

-----------------------------------------------------------------------------
\* The loop.  What its turn may make of the chip, the queue and the mark of
\* a lost frame.
Turned(c, q, l) ==
  /\ c \in ChipType /\ c.nic.rsar = nic.rsar /\ c.nic.rbcr = nic.rbcr /\ c.nic.sta = nic.sta
  /\ c.ram[TxPage] = chip.ram[TxPage]
  /\ q \in Seq(Frames) /\ l \in BOOLEAN /\ (lapped => l)
  /\ drv.pc = "off" => q = <<>> /\ ~l
  /\ drv.pc # "off" /\ ~l => Ringed(c, q, drv.next) /\ Guarded(c.nic, q, drv.next)
  /\ queue # <<>> => q # <<>> /\ q[1] = queue[1]
  /\ ~lapped /\ l => nic.bnry \notin Ring

LEMMA TurnKeeps ==
  ASSUME IInv, NEW c, Turned(c, queue', lapped'), chip' = c, drv' = drv, used' \in UsedType,
         c.nic.txp = c.nic.pending, Stopped(c.nic),
         flight' = (IF c.nic.pending THEN <<c.nic.frame>> ELSE <<>>),
         flight' \in Seq((-MaxSends)..0)
  PROVE  IInv'
<1>1. /\ drv \in DriverType /\ nic.rsar < PStop /\ chip.ram[TxPage].frame \in (-MaxSends)..0
      /\ lapped \in BOOLEAN
      /\ drv.pc = "off" => ~nic.sta
      /\ drv.pc = "fill" => nic.rsar = TxPage /\ nic.rbcr = 1
      /\ drv.pc # "off" => drv.next \in Ring
      /\ drv.pc \in {"header", "body"} /\ ~lapped => Reading(drv, queue, nic)
  BY Facts
<1>2. /\ c \in ChipType /\ c.nic.rsar = nic.rsar /\ c.nic.rbcr = nic.rbcr /\ c.nic.sta = nic.sta
      /\ c.ram[TxPage] = chip.ram[TxPage]
      /\ queue' \in Seq(Frames) /\ lapped' \in BOOLEAN /\ (lapped => lapped')
      /\ drv.pc = "off" => queue' = <<>> /\ ~lapped'
      /\ drv.pc # "off" /\ ~lapped' => Ringed(c, queue', drv.next) /\ Guarded(c.nic, queue', drv.next)
      /\ queue # <<>> => queue' # <<>> /\ queue'[1] = queue[1]
  BY DEF Turned
<1>3. drv.pc \in {"header", "body"} /\ ~lapped' => Reading(drv, queue', c.nic)
  BY <1>1, <1>2 DEF Reading
<1>4. /\ c.nic.rsar < PStop /\ c.ram[TxPage].frame \in (-MaxSends)..0
      /\ drv.pc = "off" => queue' = <<>> /\ ~lapped' /\ ~c.nic.sta
      /\ drv.pc = "fill" => c.nic.rsar = TxPage /\ c.nic.rbcr = 1
  BY <1>1, <1>2
<1>5. QED
  BY <1>1, <1>2, <1>3, <1>4, Gathered

LEMMA Received ==
  ASSUME IInv, NEW c \in ChipType, c.ram = chip.ram, RingSame(c.nic, nic),
         c.nic.rsar = nic.rsar, c.nic.rbcr = nic.rbcr, c.nic.sta = nic.sta,
         NEW frame \in (-MaxSends)..MaxArrivals, NEW size \in 1..(RingSize - 2),
         Queued(c, frame, size), NEW r, r = Receive(c, frame, size)
  PROVE  /\ Turned(r, queue', lapped')
         /\ TxSame(r.nic, c.nic) /\ (Stopped(c.nic) => Stopped(r.nic)) /\ r.nic.stp = c.nic.stp
<1>1. /\ queue \in Seq(Frames) /\ lapped \in BOOLEAN
      /\ drv.pc = "off" => queue = <<>> /\ ~lapped /\ ~nic.sta
      /\ drv.pc # "off" => drv.next \in Ring
      /\ drv.pc # "off" /\ ~lapped => Ringed(chip, queue, drv.next) /\ Guarded(nic, queue, drv.next)
      /\ nic = chip.nic
  BY Facts
<1>2. /\ r \in ChipType /\ TxSame(r.nic, c.nic) /\ (Stopped(c.nic) => Stopped(r.nic))
      /\ r.nic.rsar = c.nic.rsar /\ r.nic.rbcr = c.nic.rbcr
      /\ r.nic.sta = c.nic.sta /\ r.nic.stp = c.nic.stp /\ r.ram[TxPage] = c.ram[TxPage]
  BY ReceiveIs
<1>3. IF Takes(c.nic, size)
      THEN /\ queue' = Append(queue, [frame |-> frame, size |-> size])
           /\ lapped' = (lapped \/ PagesOf(queue) + size >= RingSize)
      ELSE queue' = queue /\ lapped' = lapped
  BY DEF Queued
<1>4. CASE drv.pc = "off"
  <2>1. ~Takes(c.nic, size)
    BY <1>1, <1>4 DEF Takes, Started
  <2>2. QED
    BY <1>1, <1>2, <1>3, <1>4, <2>1 DEF Turned
<1>5. CASE drv.pc # "off"
  <2>1. ~lapped => Ringed(c, queue, drv.next) /\ Guarded(c.nic, queue, drv.next)
    BY <1>1, <1>5 DEF Ringed, Guarded, RingSame
  <2>2. /\ queue' \in Seq(Frames) /\ lapped' \in BOOLEAN /\ (lapped => lapped')
        /\ ~lapped' => Ringed(r, queue', drv.next) /\ Guarded(r.nic, queue', drv.next)
        /\ queue # <<>> => queue' # <<>> /\ queue'[1] = queue[1]
        /\ ~lapped /\ lapped' => c.nic.bnry \notin Ring
    BY <1>1, <1>3, <1>5, <2>1, ReceiveKeeps
  <2>3. QED
    BY <1>2, <1>5, <2>2 DEF Turned, RingSame
<1>6. QED
  BY <1>2, <1>4, <1>5

LEMMA Reported ==
  ASSUME NEW r, NEW q, NEW l, Turned(r, q, l), NEW ok \in BOOLEAN, NEW c, c = Completed(r, ok)
  PROVE  Turned(c, q, l) /\ TxSame(c.nic, r.nic) /\ Stopped(c.nic)
<1> DEFINE isr1 == r.nic.isr \cup {IF ok THEN "ptx" ELSE "txe"}
                             \cup (IF r.nic.stp THEN {"rst"} ELSE {})
           n == [r.nic EXCEPT !.isr = isr1]
<1>1. r \in ChipType /\ r.nic \in NicType
  BY DEF Turned, ChipType
<1>2. r = [nic |-> r.nic, ram |-> r.ram] /\ r.ram \in [Pages -> Parts((-MaxSends)..MaxArrivals)]
  BY <1>1 DEF ChipType
<1>3. c = [nic |-> n, ram |-> r.ram]
  BY <1>2 DEF Completed
<1>4. isr1 \in SUBSET Bits
  BY <1>1 DEF NicType, Bits
<1>5. r.nic.stp => "rst" \in isr1
  OBVIOUS
<1> HIDE DEF isr1
<1>6. /\ n \in NicType /\ TxSame(n, r.nic) /\ RingSame(n, r.nic) /\ n.isr = isr1
      /\ n.stp = r.nic.stp /\ n.sta = r.nic.sta /\ n.rsar = r.nic.rsar /\ n.rbcr = r.nic.rbcr
  BY <1>1, <1>4 DEF NicType, TxSame, RingSame
<1> HIDE DEF n
<1>7. c \in ChipType /\ c.nic = n /\ c.ram = r.ram
  BY <1>2, <1>3, <1>6 DEF ChipType
<1>8. Stopped(n)
  BY <1>5, <1>6 DEF Stopped
<1>9. Turned(c, q, l)
  BY <1>6, <1>7 DEF Turned, Ringed, Guarded, RingSame
<1>10. QED
  BY <1>6, <1>7, <1>8, <1>9

LEMMA SentIs ==
  ASSUME IInv, NEW c, c = Sent(chip)
  PROVE  /\ c \in ChipType /\ c.ram = chip.ram /\ RingSame(c.nic, nic) /\ ~c.nic.txp /\ ~c.nic.pending
         /\ c.nic.txp = c.nic.pending
         /\ c.nic.rsar = nic.rsar /\ c.nic.rbcr = nic.rbcr /\ c.nic.sta = nic.sta
<1> DEFINE no == FALSE
           n == [nic EXCEPT !.pending = no, !.txp = no]
<1>1. /\ nic \in NicType /\ nic = chip.nic /\ chip = [nic |-> nic, ram |-> chip.ram]
      /\ chip.ram \in [Pages -> Parts((-MaxSends)..MaxArrivals)]
  BY Facts
<1>2. c = [nic |-> n, ram |-> chip.ram]
  BY <1>1 DEF Sent
<1>3. no \in BOOLEAN /\ ~no
  OBVIOUS
<1> HIDE DEF no
<1>4. /\ n \in NicType /\ RingSame(n, nic) /\ n.txp = no /\ n.pending = no
      /\ n.sta = nic.sta /\ n.rsar = nic.rsar /\ n.rbcr = nic.rbcr
  BY <1>1, <1>3 DEF NicType, RingSame
<1> HIDE DEF n
<1>5. c \in ChipType /\ c.nic = n /\ c.ram = chip.ram
  BY <1>1, <1>2, <1>4 DEF ChipType
<1>6. QED
  BY <1>3, <1>4, <1>5

LEMMA Arrived ==
  ASSUME NEW u \in UsedType, NEW frame, frame = u.arrivals + 1, frame <= MaxArrivals, NEW size \in Sizes
  PROVE  /\ frame \in (-MaxSends)..MaxArrivals /\ size \in 1..(RingSize - 2)
         /\ [u EXCEPT !.arrivals = frame] \in UsedType
<1>1. u.arrivals \in 0..MaxArrivals
  BY DEF UsedType
<1>2. frame \in 0..MaxArrivals
  BY <1>1, Bounds
<1>3. frame \in (-MaxSends)..MaxArrivals
  BY <1>2, Bounds
<1>4. size \in 1..(RingSize - 2)
  BY DriverAssumption
<1>5. QED
  BY <1>2, <1>3, <1>4 DEF UsedType

\* A turn that reports the end of the frame in flight.
LEMMA FinishKeeps ==
  ASSUME IInv, nic.pending, NEW r, NEW ok \in BOOLEAN, Finish(r, ok), Turned(r, queue', lapped'),
         ~r.nic.txp, ~r.nic.pending, r.nic.txp = r.nic.pending, used' \in UsedType
  PROVE  IInv' /\ (lapped' /\ ~lapped => nic.bnry \notin Ring)
<1>1. chip' = Completed(r, ok) /\ flight' = Tail(flight) /\ drv' = drv
  BY DEF Finish
<1>2. flight = <<nic.frame>>
  BY Facts
<1>3. flight' = <<>> /\ flight' \in Seq((-MaxSends)..0)
  BY <1>1, <1>2, EmptySeq
<1> DEFINE c == chip'
<1>4. chip' = c /\ c = Completed(r, ok)
  BY <1>1
<1> HIDE DEF c
<1>5. Turned(c, queue', lapped') /\ TxSame(c.nic, r.nic) /\ Stopped(c.nic)
  BY <1>4, Reported
<1>6. ~c.nic.pending /\ c.nic.txp = c.nic.pending
  BY <1>5 DEF TxSame
<1>7. IInv'
  BY <1>1, <1>3, <1>4, <1>5, <1>6, TurnKeeps
<1>8. QED
  BY <1>5, <1>7 DEF Turned

LEMMA TickStep ==
  ASSUME IInv, Tick
  PROVE  IInv' /\ (lapped' /\ ~lapped => nic.bnry \notin Ring)
<1> DEFINE s == Sent(chip)
           yes == TRUE
<1>1. /\ s \in ChipType /\ s.ram = chip.ram /\ RingSame(s.nic, nic) /\ ~s.nic.txp /\ ~s.nic.pending
      /\ s.nic.txp = s.nic.pending
      /\ s.nic.rsar = nic.rsar /\ s.nic.rbcr = nic.rbcr /\ s.nic.sta = nic.sta
  BY SentIs
<1>2. /\ used \in UsedType /\ lapped \in BOOLEAN /\ queue \in Seq(Frames)
      /\ nic.pending => flight = <<nic.frame>>
      /\ flight \in Seq((-MaxSends)..0)
  BY Facts
<1>3. yes \in BOOLEAN
  OBVIOUS
<1>4. CASE TickLoopBack
  <2> DEFINE r == Receive(s, nic.frame, 1)
  <2>1. nic.pending /\ Finish(r, yes) /\ Queued(s, nic.frame, 1) /\ used' = used
    BY <1>4 DEF TickLoopBack
  <2>2. nic.frame \in (-MaxSends)..MaxArrivals
    <3>1. 1 \in 1..Len(flight) /\ flight[1] = nic.frame
      <4> DEFINE x == nic.frame
      <4>1. flight = <<x>>
        BY <1>2, <2>1
      <4> HIDE DEF x
      <4>2. QED
        BY <4>1 DEF x
    <3>2. nic.frame \in (-MaxSends)..0
      BY <1>2, <3>1, ElementOfSeq
    <3>3. QED
      BY <3>2, Bounds
  <2>3. 1 \in 1..(RingSize - 2)
    BY RingIs
  <2> HIDE DEF s, yes
  <2>4. Turned(r, queue', lapped') /\ TxSame(r.nic, s.nic)
    BY <1>1, <2>1, <2>2, <2>3, Received
  <2> HIDE DEF r
  <2>5. ~r.nic.txp /\ ~r.nic.pending /\ r.nic.txp = r.nic.pending
    BY <1>1, <2>4 DEF TxSame
  <2>6. QED
    BY <1>2, <1>3, <2>1, <2>4, <2>5, FinishKeeps
<1>5. CASE TickToNetwork
  <2>1. nic.pending /\ used' = used /\ queue' = queue /\ lapped' = lapped
        /\ \E ok \in BOOLEAN : Finish(s, ok)
    BY <1>5 DEF TickToNetwork
  <2>2. Turned(s, queue', lapped')
    <3>1. /\ drv.pc = "off" => queue = <<>> /\ ~lapped
          /\ drv.pc # "off" /\ ~lapped => Ringed(chip, queue, drv.next) /\ Guarded(nic, queue, drv.next)
          /\ nic = chip.nic
      BY Facts
    <3> HIDE DEF s
    <3>2. drv.pc # "off" /\ ~lapped => Ringed(s, queue, drv.next) /\ Guarded(s.nic, queue, drv.next)
      BY <1>1, <3>1 DEF Ringed, Guarded, RingSame
    <3>3. QED
      BY <1>1, <1>2, <2>1, <3>1, <3>2 DEF Turned
  <2>3. PICK ok \in BOOLEAN : Finish(s, ok)
    BY <2>1
  <2> HIDE DEF s
  <2>4. QED
    BY <1>1, <1>2, <2>1, <2>2, <2>3, FinishKeeps
<1>6. CASE \E size \in Sizes : TickAnswered(size)
  <2>1. PICK size \in Sizes : TickAnswered(size)
    BY <1>6
  <2> DEFINE frame == used.arrivals + 1
             r == Receive(s, frame, size)
  <2>2. /\ nic.pending /\ frame <= MaxArrivals /\ Finish(r, yes) /\ Queued(s, frame, size)
        /\ used' = [used EXCEPT !.arrivals = frame]
    BY <2>1 DEF TickAnswered
  <2>3. /\ frame \in (-MaxSends)..MaxArrivals /\ size \in 1..(RingSize - 2) /\ used' \in UsedType
    BY <1>2, <2>2, Arrived
  <2> HIDE DEF s, yes, frame
  <2>4. Turned(r, queue', lapped') /\ TxSame(r.nic, s.nic)
    BY <1>1, <2>2, <2>3, Received
  <2> HIDE DEF r
  <2>5. ~r.nic.txp /\ ~r.nic.pending /\ r.nic.txp = r.nic.pending
    BY <1>1, <2>4 DEF TxSame
  <2>6. QED
    BY <1>3, <2>2, <2>3, <2>4, <2>5, FinishKeeps
<1>7. QED
  BY <1>4, <1>5, <1>6 DEF Tick

LEMMA DeliverStep ==
  ASSUME IInv, NEW size \in Sizes, Deliver(size)
  PROVE  IInv' /\ (lapped' /\ ~lapped => nic.bnry \notin Ring)
<1> DEFINE frame == used.arrivals + 1
           r == chip'
<1>1. /\ frame <= MaxArrivals /\ r = Receive(chip, frame, size) /\ Queued(chip, frame, size)
      /\ used' = [used EXCEPT !.arrivals = frame] /\ drv' = drv /\ flight' = flight
  BY DEF Deliver
<1>2. /\ used \in UsedType /\ chip \in ChipType /\ nic = chip.nic /\ Stopped(nic)
      /\ nic.txp = nic.pending /\ flight = (IF nic.pending THEN <<nic.frame>> ELSE <<>>)
      /\ flight \in Seq((-MaxSends)..0)
  BY Facts
<1>3. frame \in (-MaxSends)..MaxArrivals /\ size \in 1..(RingSize - 2) /\ used' \in UsedType
  BY <1>1, <1>2, Arrived
<1>4. RingSame(chip.nic, nic) /\ chip.nic.rsar = nic.rsar /\ chip.nic.rbcr = nic.rbcr
      /\ chip.nic.sta = nic.sta /\ chip.ram = chip.ram /\ chip' = r
  BY <1>2 DEF RingSame
<1> HIDE DEF frame, r
<1>5. Turned(r, queue', lapped') /\ TxSame(r.nic, chip.nic) /\ (Stopped(chip.nic) => Stopped(r.nic))
  BY <1>1, <1>2, <1>3, <1>4, Received
<1>6. /\ r.nic.txp = r.nic.pending /\ Stopped(r.nic)
      /\ flight' = (IF r.nic.pending THEN <<r.nic.frame>> ELSE <<>>)
      /\ flight' \in Seq((-MaxSends)..0)
  BY <1>1, <1>2, <1>5 DEF TxSame
<1>7. IInv'
  BY <1>1, <1>3, <1>4, <1>5, <1>6, TurnKeeps
<1>8. QED
  BY <1>5, <1>7 DEF Turned

-----------------------------------------------------------------------------
LEMMA Step ==
  ASSUME IInv, [Next]_vars
  PROVE  IInv'
<1>1. CASE \E size \in Sizes : Deliver(size)
  BY <1>1, DeliverStep
<1>2. CASE Tick
  BY <1>2, TickStep
<1>3. CASE Setup
  BY <1>3, SetupStep
<1>4. CASE ReadIsr
  BY <1>4, ReadIsrStep
<1>5. CASE AckIsr
  BY <1>5, AckIsrStep
<1>6. CASE ReadHeader
  BY <1>6, ReadHeaderStep
<1>7. CASE ReadPage
  BY <1>7, ReadPageStep
<1>8. CASE ReadBody
  BY <1>8, ReadBodyStep
<1>9. CASE Consume
  BY <1>9, ConsumeStep
<1>10. CASE Drained
  BY <1>10, DrainedStep
<1>11. CASE WritePage
  BY <1>11, WritePageStep
<1>12. CASE FillTransmitPage
  BY <1>12, FillTransmitPageStep
<1>13. CASE RequestTransmit
  BY <1>13, RequestTransmitStep
<1>14. CASE Stop
  BY <1>14, StopStep
<1>15. CASE Restart
  BY <1>15, RestartStep
<1>16. CASE ResetPort
  BY <1>16, ResetPortStep
<1>17. CASE UNCHANGED vars
  BY <1>17 DEF vars, IInv, Kinds, SentOnceAsRequested, StoppedSaysSo, OffOK, FillOK, OnOK, RingOK,
               ReadingOK, nic
<1>18. QED
  BY <1>1, <1>2, <1>3, <1>4, <1>5, <1>6, <1>7, <1>8, <1>9, <1>10, <1>11, <1>12, <1>13, <1>14, <1>15,
     <1>16, <1>17 DEF Next, Handle

LEMMA Invariant == Spec => []IInv
<1>1. QED
  BY InitIInv, Step, PTL DEF Spec

\* What the ring holds of the queue, as the property states it.
LEMMA RingFromInv ==
  ASSUME IInv
  PROVE  RingHoldsUnread
<1> SUFFICES ASSUME drv.pc # "off", ~lapped
             PROVE  /\ nic.curr = Place(Len(queue) + 1)
                    /\ \A i \in DOMAIN queue : \A k \in 1..queue[i].size :
                         chip.ram[Wrapped(Place(i) + k - 1)] =
                           [frame |-> queue[i].frame, part |-> k, size |-> queue[i].size,
                            next |-> Place(i + 1)]
  BY DEF RingHoldsUnread
<1>1. /\ queue \in Seq(Frames) /\ drv.next \in Ring /\ nic = chip.nic
      /\ PagesOf(queue) < RingSize /\ nic.curr = Wrapped(drv.next + PagesOf(queue))
      /\ Holds(chip.ram, queue, drv.next)
  BY Facts DEF Ringed
<1>2. Len(queue) \in Nat /\ DOMAIN queue = 1..Len(queue) /\ PagesOf(queue) \in Nat
      /\ Start(queue, Len(queue) + 1) = PagesOf(queue)
  BY <1>1, Starts, LenProperties
<1>3. \A i : Place(i) = Wrapped(drv.next + Start(queue, i))
  BY DEF Place, Start
<1>4. nic.curr = Place(Len(queue) + 1)
  BY <1>1, <1>2, <1>3
<1>5. ASSUME NEW i \in 1..Len(queue), NEW k \in 1..queue[i].size
      PROVE  chip.ram[Wrapped(Place(i) + k - 1)] =
               [frame |-> queue[i].frame, part |-> k, size |-> queue[i].size, next |-> Place(i + 1)]
  <2>1. /\ Start(queue, i) + k - 1 \in 0..(PagesOf(queue) - 1)
        /\ Start(queue, i) \in Nat /\ Start(queue, i) <= PagesOf(queue)
    <3>1. i \in 1..(Len(queue) + 1) /\ Len(queue) + 1 \in 1..(Len(queue) + 1) /\ i <= Len(queue) + 1
      BY <1>2
    <3>2. QED
      BY <1>1, <1>2, <3>1, Offsets, StartsRise
  <2> DEFINE a == Start(queue, i)
             b == k - 1
  <2>2. a \in 0..RingSize /\ b \in 0..RingSize /\ a + b <= RingSize /\ a + b = a + k - 1
    <3>1. a \in Nat /\ a + k - 1 \in 0..(PagesOf(queue) - 1) /\ a <= PagesOf(queue)
      BY <2>1
    <3> HIDE DEF a
    <3>2. QED
      BY <1>1, <1>2, <3>1, RingIs
  <2>3. Wrapped(drv.next + a) \in Ring
    BY <1>1, <2>2, Around
  <2>4. Wrapped(Place(i) + k - 1) = Wrapped(Wrapped(drv.next + a) + b)
    <3>1. Wrapped(drv.next + a) \in Int
      BY <2>3, RingIs DEF Ring
    <3>2. Place(i) + k - 1 = Wrapped(drv.next + a) + b
      BY <1>3, <3>1
    <3>3. QED
      BY <3>2
  <2> HIDE DEF a, b
  <2>5. Wrapped(Wrapped(drv.next + a) + b) = Wrapped(drv.next + (a + b))
    BY <1>1, <2>2, Around
  <2>6. chip.ram[Wrapped(drv.next + (Start(queue, i) + k - 1))] =
          [frame |-> queue[i].frame, part |-> k, size |-> queue[i].size,
           next |-> Wrapped(drv.next + Start(queue, i + 1))]
    BY <1>1 DEF Holds
  <2>7. Wrapped(Place(i) + k - 1) = Wrapped(drv.next + (Start(queue, i) + k - 1))
    BY <2>2, <2>4, <2>5 DEF a
  <2>8. QED
    BY <1>3, <2>6, <2>7
<1>6. QED
  BY <1>2, <1>4, <1>5

\* The chip and the driver keep their types; every frame the chip takes on to
\* send leaves once, as it was when it was requested; a chip that has stopped
\* says so (mh_ne2000_write, mh_ne2000_tick).
THEOREM TransmitterKept == Spec => []TransmitterOK
<1>1. ASSUME IInv PROVE TransmitterOK
  <2>1. SentOnceAsRequested /\ StoppedSaysSo
    BY <1>1 DEF IInv
  <2>2. queue \in Seq([frame : Int, size : Nat])
    <3>1. queue \in Seq(Frames)
      BY <1>1, Facts
    <3>2. Frames \subseteq [frame : Int, size : Nat]
      BY DEF Frames
    <3>3. QED
      BY <3>1, <3>2, SeqMonotonic
  <2>3. TypeOK
    BY <1>1, <2>2, Facts DEF TypeOK, UsedType
  <2>4. QED
    BY <2>1, <2>3 DEF TransmitterOK
<1>2. QED
  BY Invariant, <1>1, PTL

\* For any ring, any sizes of frames, any modes and any writes to the boundary:
\* while no frame was lost, the ring holds the frames that arrived and were not
\* read, one behind the other from the page the driver expects (mh_ne2000_receive).
THEOREM UnreadKept == Spec => []RingHoldsUnread
<1>1. QED
  BY Invariant, RingFromInv, PTL

\* No step of the chip stores over a frame that was not read while the boundary
\* register is in the ring (mh_ne2000_receive's check against the boundary).
THEOREM BoundaryProtects == Spec => InRingBoundaryProtects
<1>1. ASSUME IInv, [Next]_vars PROVE [lapped' /\ ~lapped => nic.bnry \notin Ring]_vars
  <2>1. CASE \E size \in Sizes : Deliver(size)
    BY <1>1, <2>1, DeliverStep
  <2>2. CASE Tick
    BY <1>1, <2>2, TickStep
  <2>3. CASE lapped' = lapped
    BY <2>3
  <2>4. CASE ResetPort
    <3>1. lapped' = FALSE
      BY <2>4 DEF ResetPort
    <3>2. QED
      BY <3>1
  <2>5. CASE UNCHANGED vars
    BY <2>5
  <2>6. QED
    BY <1>1, <2>1, <2>2, <2>3, <2>4, <2>5
       DEF Next, Handle, Setup, ReadIsr, AckIsr, ReadHeader, ReadPage, ReadBody, Consume, Drained,
           WritePage, FillTransmitPage, RequestTransmit, Stop, Restart, Access
<1>2. QED
  BY Invariant, <1>1, PTL DEF Spec, InRingBoundaryProtects

\* What the driver consumes is the oldest frame that was not read, whole and in
\* order, wherever it lies across the end of the ring (remote DMA's advance).
THEOREM WholeFramesRead == Spec => ReadsWholeFrames
<1>1. ASSUME IInv, [Next]_vars
      PROVE  [Consume => /\ Len(drv.taken) = Head(queue).size
                         /\ \A k \in DOMAIN drv.taken :
                              /\ drv.taken[k].frame = Head(queue).frame
                              /\ drv.taken[k].part = k]_vars
  BY <1>1, ConsumeStep
<1>2. QED
  BY Invariant, <1>1, PTL DEF Spec, ReadsWholeFrames
=============================================================================
