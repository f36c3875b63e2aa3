--------------------------- MODULE JitCache_proofs ---------------------------
(***************************************************************************)
(* The native engine's block cache keeps its promises for any code, any    *)
(* number of ways and any size of the arena.                               *)
(***************************************************************************)
EXTENDS JitCache, WellFoundedInduction, TLAPS

CacheType == [arena : Seq(Blocks),
              slot : [1..Ways -> [va : Addresses \cup {0}, code : 0..ArenaBlocks]],
              clock : 0..(Ways - 1), flushed : BOOLEAN]

\* Redirected sites lead, within the arena, to blocks filed under the address
\* they stand for; only the first block can be filed under another than its own.
ArenaOK(a) ==
  /\ Len(a) <= ArenaBlocks
  /\ \A i \in 1..Len(a) : a[i].filed # a[i].va => i = 1 /\ a[i].filed = 0
  /\ \A i \in 1..Len(a) :
       /\ a[i].next # None => a[i].next <= Len(a) /\ a[a[i].next].filed = a[i].word.to
       /\ a[i].again # None => a[i].again <= Len(a) /\ a[a[i].again].filed = a[i].filed

\* A way names a block filed under its address, and no other way names it.
SlotsOK(a, s) ==
  \A k \in 1..Ways :
    s[k].code # None =>
      /\ s[k].code <= Len(a) /\ a[s[k].code].filed = s[k].va
      /\ \A l \in 1..Ways : s[l].code = s[k].code => l = k

CacheOK(c) == c \in CacheType /\ ArenaOK(c.arena) /\ SlotsOK(c.arena, c.slot)

NoneOld(a) == \A i \in 1..Len(a) : ~a[i].old

Extends(b, a) == Len(a) <= Len(b) /\ \A i \in 1..Len(a) : b[i] = a[i]

-----------------------------------------------------------------------------
LEMMA Constants ==
  /\ Ways \in Nat \ {0} /\ ArenaBlocks \in Nat \ {0}
  /\ Code \subseteq Addresses /\ Addresses \subseteq Nat
  /\ \A va \in Addresses : va \in Devices \/ va \in Code
  /\ \A va \in Code : va \notin Devices
BY JitAssumption DEF Addresses

LEMMA Least ==
  ASSUME NEW S \in SUBSET Nat, S # {}
  PROVE  \E k \in S : \A l \in S : k <= l
<1>1. \E x \in S : \A y \in S : ~(<<y, x>> \in OpToRel(<, Nat))
  BY NatLessThanWellFounded, WFMin
<1>2. PICK x \in S : \A y \in S : ~(<<y, x>> \in OpToRel(<, Nat))
  BY <1>1
<1>3. \A y \in S : <<y, x>> \in Nat \X Nat
  OBVIOUS
<1>4. \A y \in S : ~(y < x)
  BY <1>2, <1>3 DEF OpToRel
<1>5. QED
  BY <1>4

LEMMA FirstIn ==
  ASSUME NEW S \in SUBSET (1..Ways), S # {}
  PROVE  First(S) \in S
<1>1. S \in SUBSET Nat
  BY Constants
<1>2. \E k \in S : \A l \in S : k <= l
  BY <1>1, Least
<1>3. QED
  BY <1>2 DEF First

LEMMA LastIn ==
  ASSUME NEW S \in SUBSET (1..Ways), S # {}
  PROVE  Last(S) \in S
<1> DEFINE T == {Ways - k : k \in S}
<1>a. \A k \in S : k \in Nat /\ k <= Ways /\ Ways - k \in Nat
  BY Constants
<1>b. T \subseteq Nat
  BY <1>a
<1>c. T # {}
  OBVIOUS
<1>1. T \in SUBSET Nat /\ T # {}
  BY <1>b, <1>c
<1>2. PICK m \in T : \A n \in T : m <= n
  BY <1>1, Least
<1>3. PICK k \in S : m = Ways - k
  BY <1>2
<1>4. ASSUME NEW l \in S PROVE l <= k
  <2>1. Ways - l \in T
    OBVIOUS
  <2>2. Ways - k <= Ways - l
    BY <1>2, <1>3, <2>1
  <2>3. QED
    BY <1>a, <2>2, Constants
<1>5. QED
  BY <1>3, <1>4 DEF Last

LEMMA VictimIn ==
  ASSUME NEW c \in CacheType, NEW va, NEW recompile \in BOOLEAN
  PROVE  /\ Victim(c, va, recompile) \in 1..Ways
         /\ Hits(c, va) # {} => /\ Victim(c, va, recompile) = First(Hits(c, va))
                                /\ First(Hits(c, va)) \in Hits(c, va)
<1> DEFINE empty == {k \in 1..Ways : c.slot[k].code = None}
<1>1. Hits(c, va) \in SUBSET (1..Ways) /\ empty \in SUBSET (1..Ways)
  BY DEF Hits
<1>2. Hits(c, va) # {} => First(Hits(c, va)) \in Hits(c, va)
  BY <1>1, FirstIn
<1>3. empty # {} => Last(empty) \in 1..Ways
  BY <1>1, LastIn
<1>4. c.clock + 1 \in 1..Ways /\ 1 \in 1..Ways
  BY Constants DEF CacheType
<1>5. QED
  BY <1>1, <1>2, <1>3, <1>4 DEF Victim
LEMMA FlushOk ==
  ASSUME NEW c \in CacheType
  PROVE  /\ CacheOK(Flush(c)) /\ NoneOld(Flush(c).arena)
         /\ Flush(c).arena = <<>> /\ Flush(c).clock = c.clock /\ Flush(c).flushed
         /\ Flush(c).slot = [k \in 1..Ways |-> EmptySlot]
<1>1. Flush(c).arena = <<>> /\ Flush(c).clock = c.clock
  BY DEF Flush, CacheType
<1>2. Flush(c).slot = [k \in 1..Ways |-> EmptySlot]
  BY DEF Flush, CacheType
<1>3. Flush(c).flushed
  BY DEF Flush, CacheType
<1>4. [k \in 1..Ways |-> EmptySlot] \in
        [1..Ways -> [va : Addresses \cup {0}, code : 0..ArenaBlocks]]
  BY Constants DEF EmptySlot, None
<1>5. Len(<<>>) = 0 /\ <<>> \in Seq(Blocks)
  OBVIOUS
<1>6. Flush(c) \in CacheType
  BY <1>4, <1>5 DEF Flush, CacheType
<1>7. ArenaOK(<<>>) /\ NoneOld(<<>>)
  BY <1>5, Constants DEF ArenaOK, NoneOld
<1>8. SlotsOK(<<>>, [k \in 1..Ways |-> EmptySlot])
  BY DEF SlotsOK, EmptySlot
<1>9. QED
  BY <1>1, <1>2, <1>3, <1>6, <1>7, <1>8 DEF CacheOK

LEMMA Fields ==
  ASSUME NEW c \in CacheType, NEW k \in 1..Ways
  PROVE  /\ Len(c.arena) \in Nat /\ c.arena \in Seq(Blocks)
         /\ c.slot[k].code \in 0..ArenaBlocks /\ c.slot[k].va \in Addresses \cup {0}
<1>1. c.slot \in [1..Ways -> [va : Addresses \cup {0}, code : 0..ArenaBlocks]]
  BY DEF CacheType
<1>2. c.arena \in Seq(Blocks)
  BY DEF CacheType
<1>3. c.slot[k] \in [va : Addresses \cup {0}, code : 0..ArenaBlocks]
  BY <1>1
<1>4. QED
  BY <1>2, <1>3

LEMMA CodeSet ==
  ASSUME NEW c \in CacheType, NEW k \in 1..Ways
  PROVE  \A n \in 0..ArenaBlocks : \A s : s = [c.slot EXCEPT ![k].code = n] =>
         /\ s \in [1..Ways -> [va : Addresses \cup {0}, code : 0..ArenaBlocks]]
         /\ s[k].code = n /\ s[k].va = c.slot[k].va
         /\ \A l \in (1..Ways) \ {k} : s[l] = c.slot[l]
BY DEF CacheType

\* A block emitted behind the others disturbs none of them.
LEMMA AppendOk ==
  ASSUME NEW a \in Seq(Blocks), ArenaOK(a), Len(a) < ArenaBlocks,
         NEW b \in Blocks, b.next = None, b.again = None,
         b.filed # b.va => Len(a) = 0 /\ b.filed = 0
  PROVE  /\ Append(a, b) \in Seq(Blocks) /\ ArenaOK(Append(a, b))
         /\ Len(Append(a, b)) = Len(a) + 1
         /\ Append(a, b)[Len(a) + 1] = b /\ Extends(Append(a, b), a)
         /\ (NoneOld(a) /\ ~b.old => NoneOld(Append(a, b)))
<1> DEFINE d == Append(a, b)
<1>1. d \in Seq(Blocks) /\ Len(d) = Len(a) + 1 /\ Len(a) \in Nat
  OBVIOUS
<1>2. d[Len(a) + 1] = b /\ \A i \in 1..Len(a) : d[i] = a[i]
  OBVIOUS
<1>3. \A i \in 1..Len(a) : a[i] \in Blocks
  OBVIOUS
<1> HIDE DEF d
<1>4. ASSUME NEW i \in 1..Len(d)
      PROVE  /\ d[i].next # None => d[i].next <= Len(d) /\ d[d[i].next].filed = d[i].word.to
             /\ d[i].again # None => d[i].again <= Len(d) /\ d[d[i].again].filed = d[i].filed
  <2>1. CASE i = Len(a) + 1
    BY <2>1, <1>2
  <2>2. CASE i \in 1..Len(a)
    <3>1. d[i] = a[i] /\ a[i].next \in 0..ArenaBlocks /\ a[i].again \in 0..ArenaBlocks
      BY <2>2, <1>2, <1>3 DEF Blocks
    <3>2. a[i].next # None => a[i].next \in 1..Len(a) /\ a[a[i].next].filed = a[i].word.to
      BY <2>2, <3>1 DEF ArenaOK, None
    <3>3. a[i].again # None => a[i].again \in 1..Len(a) /\ a[a[i].again].filed = a[i].filed
      BY <2>2, <3>1 DEF ArenaOK, None
    <3>4. QED
      BY <3>1, <3>2, <3>3, <1>1, <1>2
  <2>3. QED
    BY <2>1, <2>2, <1>1
<1>a. \A i \in 1..Len(d) : d[i].filed # d[i].va => i = 1 /\ d[i].filed = 0
  BY <1>1, <1>2 DEF ArenaOK
<1>5. ArenaOK(d)
  BY <1>1, <1>4, <1>a, Constants DEF ArenaOK
<1>6. NoneOld(a) /\ ~b.old => NoneOld(d)
  BY <1>1, <1>2 DEF NoneOld
<1>7. Extends(d, a)
  BY <1>1, <1>2 DEF Extends
<1>8. QED
  BY <1>1, <1>2, <1>5, <1>6, <1>7 DEF d

LEMMA NewBlockOk ==
  ASSUME mem \in [Code -> Words], NEW va \in Code, NEW filed \in {0, va}
  PROVE  LET b == NewBlock(va, filed)
         IN /\ b \in Blocks /\ b.va = va /\ b.filed = filed /\ b.word = mem[va]
            /\ b.next = None /\ b.again = None /\ ~b.old
BY Constants DEF NewBlock, Blocks, None

LEMMA EmittedOk ==
  ASSUME mem \in [Code -> Words], NEW va \in Code, NEW k \in 1..Ways,
         NEW c, CacheOK(c), Len(c.arena) < ArenaBlocks,
         c.slot[k].va = va \/ (c.slot[k].va = 0 /\ Len(c.arena) = 0)
  PROVE  /\ CacheOK(Emitted(c, k, va))
         /\ Emitted(c, k, va).slot[k].code = Len(c.arena) + 1
         /\ Emitted(c, k, va).arena[Len(c.arena) + 1] = NewBlock(va, c.slot[k].va)
         /\ (Emitted(c, k, va).flushed <=> c.flushed)
         /\ Extends(Emitted(c, k, va).arena, c.arena)
         /\ (NoneOld(c.arena) => NoneOld(Emitted(c, k, va).arena))
<1> DEFINE a == c.arena  b == NewBlock(va, c.slot[k].va)  d == Append(a, b)
           n == Len(a) + 1
           s == [c.slot EXCEPT ![k].code = n]  e == Emitted(c, k, va)
<1>1. c \in CacheType /\ a \in Seq(Blocks) /\ ArenaOK(a) /\ SlotsOK(a, c.slot)
  BY DEF CacheOK, CacheType
<1>2. /\ d \in Seq(Blocks) /\ ArenaOK(d) /\ Len(d) = n
      /\ d[n] = b /\ Extends(d, a) /\ (NoneOld(a) => NoneOld(d))
      /\ b.filed = c.slot[k].va
  <2>1. /\ b \in Blocks /\ b.va = va /\ b.filed = c.slot[k].va
        /\ b.next = None /\ b.again = None /\ ~b.old
    BY NewBlockOk
  <2>2. b.filed # b.va => Len(a) = 0 /\ b.filed = 0
    BY <2>1
  <2> HIDE DEF b
  <2>3. QED
    BY <1>1, <2>1, <2>2, AppendOk
<1>3. e.arena = d /\ e.slot = s /\ e.flushed = c.flushed
  BY <1>1 DEF Emitted, CacheType
<1>4. n \in 1..ArenaBlocks /\ n \in Nat
  BY <1>1, Constants
<1>5. c.slot \in [1..Ways -> [va : Addresses \cup {0}, code : 0..ArenaBlocks]]
  BY <1>1 DEF CacheType
<1>6. /\ s \in [1..Ways -> [va : Addresses \cup {0}, code : 0..ArenaBlocks]]
      /\ s[k].code = n /\ s[k].va = c.slot[k].va
      /\ \A l \in (1..Ways) \ {k} : s[l] = c.slot[l]
  <2>1. n \in 0..ArenaBlocks
    BY <1>4
  <2>2. s = [c.slot EXCEPT ![k].code = n]
    OBVIOUS
  <2>3. \A m \in 0..ArenaBlocks : \A t : t = [c.slot EXCEPT ![k].code = m] =>
          /\ t \in [1..Ways -> [va : Addresses \cup {0}, code : 0..ArenaBlocks]]
          /\ t[k].code = m /\ t[k].va = c.slot[k].va
          /\ \A l \in (1..Ways) \ {k} : t[l] = c.slot[l]
    BY <1>1, CodeSet
  <2> HIDE DEF n, s
  <2>4. QED
    BY <2>1, <2>2, <2>3, Zenon
<1>7. e \in CacheType
  BY <1>1, <1>2, <1>6 DEF Emitted, CacheType
<1> HIDE DEF d, s, b, n, e
<1>8. SlotsOK(d, s)
  <2> SUFFICES ASSUME NEW l \in 1..Ways, s[l].code # None
               PROVE  /\ s[l].code <= Len(d) /\ d[s[l].code].filed = s[l].va
                      /\ \A m \in 1..Ways : s[m].code = s[l].code => m = l
    BY DEF SlotsOK
  <2>0. ASSUME NEW m \in (1..Ways) \ {k}, s[m].code # None
        PROVE  /\ s[m] = c.slot[m] /\ c.slot[m].code \in 1..Len(a)
               /\ a[c.slot[m].code].filed = c.slot[m].va
    <3>1. s[m] = c.slot[m] /\ c.slot[m].code \in 1..ArenaBlocks
      BY <2>0, <1>5, <1>6 DEF None
    <3>2. QED
      BY <2>0, <3>1, <1>1, Constants DEF SlotsOK
  <2>a. Len(a) \in Nat
    BY <1>1
  <2>1. CASE l = k
    BY <2>0, <2>1, <2>a, <1>2, <1>4, <1>6 DEF n, None
  <2>2. CASE l # k
    <3>1. /\ s[l] = c.slot[l] /\ c.slot[l].code \in 1..Len(a)
          /\ a[c.slot[l].code].filed = c.slot[l].va
      BY <2>0, <2>2
    <3>2. s[l].code <= Len(d) /\ d[s[l].code].filed = s[l].va
      BY <3>1, <2>a, <1>2, <1>4 DEF Extends, n
    <3>3. ASSUME NEW m \in 1..Ways, s[m].code = s[l].code PROVE m = l
      <4>1. m # k
        BY <2>a, <3>1, <3>3, <1>6 DEF n
      <4>2. s[m] = c.slot[m]
        BY <4>1, <1>6
      <4>3. QED
        BY <3>1, <3>3, <4>2, <1>1 DEF SlotsOK, None
    <3>4. QED
      BY <3>2, <3>3
  <2>3. QED
    BY <2>1, <2>2
<1>9. CacheOK(e)
  BY <1>2, <1>3, <1>7, <1>8 DEF CacheOK
<1>10. QED
  BY <1>2, <1>3, <1>6, <1>9 DEF b, e, n

\* A block that answers for va: filed under it, or compiled for it this moment.
Suits(b, va, flushed) ==
  b.filed = va \/ (flushed /\ b.va = va /\ b.word = mem[va])

\* What a lookup needs of the way it is given: no stale code, the new key.
LEMMA CompileOk ==
  ASSUME mem \in [Code -> Words], NEW va \in Addresses, NEW k \in 1..Ways,
         NEW c, CacheOK(c), c.slot[k].va = va, c.slot[k].code = None
  PROVE  LET r == Compile(c, k, va)
         IN /\ CacheOK(r)
            /\ r.slot[k].code # None => Suits(r.arena[r.slot[k].code], va, r.flushed)
            /\ NoneOld(c.arena) => NoneOld(r.arena)
            /\ c.flushed => r.flushed
            /\ ~r.flushed => Extends(r.arena, c.arena)
<1> DEFINE r == Compile(c, k, va)
<1>0. c \in CacheType /\ c.arena \in Seq(Blocks) /\ Len(c.arena) \in Nat
  BY DEF CacheOK, CacheType
<1>1. CASE va \in Devices
  BY <1>0, <1>1 DEF Compile, Extends
<1>2. CASE va \notin Devices /\ Len(c.arena) < ArenaBlocks
  <2>1. r = Emitted(c, k, va) /\ va \in Code
    BY <1>2, Constants DEF Compile
  <2>2. /\ CacheOK(r) /\ r.slot[k].code = Len(c.arena) + 1
        /\ r.arena[Len(c.arena) + 1] = NewBlock(va, va)
        /\ (r.flushed <=> c.flushed) /\ Extends(r.arena, c.arena)
        /\ (NoneOld(c.arena) => NoneOld(r.arena))
    BY <1>2, <2>1, EmittedOk
  <2>3. NewBlock(va, va).filed = va
    BY DEF NewBlock
  <2>4. QED
    BY <2>2, <2>3 DEF Suits
<1>3. CASE va \notin Devices /\ ~(Len(c.arena) < ArenaBlocks)
  <2> DEFINE f == Flush(c)
  <2>1. r = Emitted(f, k, va) /\ va \in Code
    BY <1>3, Constants DEF Compile
  <2>2. /\ CacheOK(f) /\ NoneOld(f.arena) /\ f.arena = <<>> /\ f.flushed
        /\ f.slot = [l \in 1..Ways |-> EmptySlot]
    BY <1>0, FlushOk
  <2> HIDE DEF f
  <2>a. f.slot[k].va = 0
    BY <2>2 DEF EmptySlot
  <2>3. Len(f.arena) = 0 /\ Len(f.arena) < ArenaBlocks
    BY <2>2, Constants
  <2> DEFINE g == Emitted(f, k, va)
  <2>b. /\ CacheOK(g) /\ g.slot[k].code = Len(f.arena) + 1
        /\ g.arena[Len(f.arena) + 1] = NewBlock(va, 0)
        /\ (g.flushed <=> f.flushed) /\ (NoneOld(f.arena) => NoneOld(g.arena))
    <3>1. va \in Code /\ CacheOK(f) /\ Len(f.arena) < ArenaBlocks
      BY <2>1, <2>2, <2>3
    <3>2. QED
      BY <3>1, <2>3, <2>a, EmittedOk
  <2> HIDE DEF r, g
  <2>4. /\ CacheOK(r) /\ r.slot[k].code = Len(f.arena) + 1
        /\ r.arena[Len(f.arena) + 1] = NewBlock(va, 0)
        /\ (r.flushed <=> f.flushed) /\ (NoneOld(f.arena) => NoneOld(r.arena))
    BY <2>1, <2>b DEF g
  <2>5. r.flushed
    BY <2>2, <2>4
  <2>6. NewBlock(va, 0).va = va /\ NewBlock(va, 0).word = mem[va]
    BY DEF NewBlock
  <2>7. QED
    BY <2>2, <2>4, <2>5, <2>6 DEF r, Suits
<1>4. QED
  BY <1>1, <1>2, <1>3

LEMMA ClearedOk ==
  ASSUME NEW c, CacheOK(c), NEW k \in 1..Ways, NEW va \in Addresses
  PROVE  LET e == [c EXCEPT !.slot[k] = [va |-> va, code |-> None]]
         IN /\ CacheOK(e) /\ e.arena = c.arena /\ e.flushed = c.flushed
            /\ e.slot[k].va = va /\ e.slot[k].code = None
<1> DEFINE e == [c EXCEPT !.slot[k] = [va |-> va, code |-> None]]
<1>1. c \in CacheType /\ ArenaOK(c.arena) /\ SlotsOK(c.arena, c.slot)
  BY DEF CacheOK
<1>2. e.arena = c.arena /\ e.flushed = c.flushed
  BY <1>1 DEF CacheType
<1>w. [va |-> va, code |-> None] \in [va : Addresses \cup {0}, code : 0..ArenaBlocks]
  BY Constants DEF None
<1>3. e \in CacheType
  BY <1>1, <1>w DEF CacheType
<1>4. e.slot[k] = [va |-> va, code |-> None] /\ \A l \in (1..Ways) \ {k} : e.slot[l] = c.slot[l]
  BY <1>1 DEF CacheType
<1> HIDE DEF e
<1>5. SlotsOK(e.arena, e.slot)
  BY <1>1, <1>2, <1>4 DEF SlotsOK
<1>6. QED
  BY <1>1, <1>2, <1>3, <1>4, <1>5 DEF CacheOK, e

LEMMA TurnedOk ==
  ASSUME NEW c, CacheOK(c)
  PROVE  LET e == [c EXCEPT !.clock = (@ + 1) % Ways]
         IN CacheOK(e) /\ e.arena = c.arena /\ e.flushed = c.flushed
<1> DEFINE e == [c EXCEPT !.clock = (@ + 1) % Ways]
<1>1. c \in CacheType /\ ArenaOK(c.arena) /\ SlotsOK(c.arena, c.slot)
  BY DEF CacheOK
<1>2. (c.clock + 1) % Ways \in 0..(Ways - 1)
  BY <1>1, Constants DEF CacheType
<1>3. e.arena = c.arena /\ e.flushed = c.flushed /\ e.slot = c.slot
  BY <1>1 DEF CacheType
<1>4. e \in CacheType
  BY <1>1, <1>2 DEF CacheType
<1>5. QED
  BY <1>1, <1>3, <1>4 DEF CacheOK

\* mh_jit_find: whatever it replaces or flushes, the entry it returns is filed
\* under the address asked for or was compiled for it just now, and without a flush every block stays.
LEMMA FoundOk ==
  ASSUME mem \in [Code -> Words], NEW c, CacheOK(c), NEW va \in Addresses,
         NEW recompile \in BOOLEAN
  PROVE  LET f == Found(c, va, recompile)
         IN /\ CacheOK(f.cache)
            /\ Entry(f) \in 0..ArenaBlocks
            /\ Entry(f) # None => /\ Entry(f) \in 1..Len(f.cache.arena)
                                  /\ Suits(f.cache.arena[Entry(f)], va, f.cache.flushed)
            /\ NoneOld(c.arena) => NoneOld(f.cache.arena)
            /\ ~f.cache.flushed => Extends(f.cache.arena, c.arena)
<1> DEFINE k == Victim(c, va, recompile)
           full == \A l \in 1..Ways : c.slot[l].code # None
           turned == IF full /\ ~recompile THEN [c EXCEPT !.clock = (@ + 1) % Ways] ELSE c
           cleared == [turned EXCEPT !.slot[k] = [va |-> va, code |-> None]]
           f == Found(c, va, recompile)
<1>0. c \in CacheType /\ ArenaOK(c.arena) /\ SlotsOK(c.arena, c.slot)
  BY DEF CacheOK
<1>1. /\ k \in 1..Ways
      /\ Hits(c, va) # {} => k = First(Hits(c, va)) /\ First(Hits(c, va)) \in Hits(c, va)
  BY <1>0, VictimIn
<1>2. CASE Hits(c, va) # {} /\ ~recompile
  <2>1. f = [cache |-> c, way |-> k]
    BY <1>1, <1>2 DEF Found
  <2>2. k \in Hits(c, va)
    BY <1>1, <1>2
  <2> HIDE DEF k, f
  <2>3. f.cache = c /\ Entry(f) = c.slot[k].code
    BY <2>1 DEF Entry
  <2>4. c.slot[k].va = va /\ c.slot[k].code # None
    BY <2>2 DEF Hits
  <2>5. c.slot[k].code \in 1..ArenaBlocks
    BY <1>0, <1>1, <2>4, Fields DEF None
  <2>6. c.slot[k].code <= Len(c.arena) /\ c.arena[c.slot[k].code].filed = va
    BY <1>0, <1>1, <2>4 DEF SlotsOK
  <2>7. Len(c.arena) \in Nat
    BY <1>0 DEF CacheType
  <2>8. QED
    BY <2>3, <2>5, <2>6, <2>7 DEF Extends, Suits, f
<1>3. CASE ~(Hits(c, va) # {} /\ ~recompile)
  <2>1. f = [cache |-> Compile(cleared, k, va), way |-> k]
    BY <1>3 DEF Found
  <2>2. CacheOK(turned) /\ turned.arena = c.arena
    BY TurnedOk
  <2> HIDE DEF turned, k
  <2>3. /\ CacheOK(cleared) /\ cleared.arena = turned.arena
        /\ cleared.slot[k].va = va /\ cleared.slot[k].code = None
    BY <1>1, <2>2, ClearedOk
  <2> HIDE DEF cleared
  <2> DEFINE r == Compile(cleared, k, va)
  <2>4. /\ CacheOK(r)
        /\ r.slot[k].code # None => Suits(r.arena[r.slot[k].code], va, r.flushed)
        /\ NoneOld(cleared.arena) => NoneOld(r.arena)
        /\ ~r.flushed => Extends(r.arena, cleared.arena)
    BY <1>1, <2>3, CompileOk
  <2> HIDE DEF r
  <2>5. r \in CacheType /\ SlotsOK(r.arena, r.slot)
    BY <2>4 DEF CacheOK
  <2>6. r.slot[k].code \in 0..ArenaBlocks /\ Len(r.arena) \in Nat
    BY <1>1, <2>5, Fields
  <2>7. r.slot[k].code # None => r.slot[k].code \in 1..Len(r.arena)
    BY <1>1, <2>5, <2>6 DEF SlotsOK, None
  <2> HIDE DEF f
  <2>8. f.cache = r /\ Entry(f) = r.slot[k].code
    BY <2>1 DEF Entry, r
  <2>9. QED
    BY <2>2, <2>3, <2>4, <2>6, <2>7, <2>8 DEF f
<1>4. QED
  BY <1>2, <1>3

LEMMA ArenaSet ==
  ASSUME NEW c \in CacheType
  PROVE  \A d : LET e == [c EXCEPT !.arena = d]
                IN /\ e.arena = d /\ e.slot = c.slot /\ e.clock = c.clock
                   /\ d \in Seq(Blocks) => e \in CacheType
BY DEF CacheType

\* An instruction that may move the bus map ages the blocks and nothing else.
LEMMA AgedOk ==
  ASSUME NEW c, CacheOK(c), remapped' \in BOOLEAN
  PROVE  /\ CacheOK(Aged(c))
         /\ NoneOld(c.arena) /\ ~remapped' => NoneOld(Aged(c).arena)
<1> DEFINE a == c.arena
           block(i) == [a[i] EXCEPT !.old = @ \/ remapped']
           d == [i \in DOMAIN a |-> block(i)]
           e == [c EXCEPT !.arena = d]
<1>1. /\ c \in CacheType /\ ArenaOK(a) /\ SlotsOK(a, c.slot)
      /\ a \in Seq(Blocks) /\ Len(a) \in Nat /\ DOMAIN a = 1..Len(a)
  BY DEF CacheOK, CacheType
<1>a. Aged(c) = e
  BY DEF Aged
<1>b. e.arena = d /\ e.slot = c.slot /\ e.clock = c.clock /\ (d \in Seq(Blocks) => e \in CacheType)
  <2> HIDE DEF d
  <2>1. QED
    BY <1>1, ArenaSet
<1> HIDE DEF e
<1>2. Aged(c).arena = d /\ Aged(c).slot = c.slot
  BY <1>a, <1>b
<1>3. ASSUME NEW i \in 1..Len(a)
      PROVE  /\ block(i) \in Blocks /\ block(i).va = a[i].va /\ block(i).filed = a[i].filed
             /\ block(i).word = a[i].word /\ block(i).next = a[i].next
             /\ block(i).again = a[i].again
             /\ (~a[i].old /\ ~remapped' => ~block(i).old)
  <2>1. a[i] \in Blocks
    BY <1>1
  <2>2. (a[i].old \/ remapped') \in BOOLEAN
    OBVIOUS
  <2>3. QED
    BY <2>1, <2>2 DEF Blocks
<1>4. d \in Seq(Blocks) /\ Len(d) = Len(a)
  BY <1>1, <1>3
<1>5. \A i \in 1..Len(a) : d[i] = block(i)
  BY <1>1
<1>6. Aged(c) \in CacheType
  BY <1>4, <1>a, <1>b
<1> HIDE DEF d, block
<1>7. ArenaOK(d)
  <2>1. Len(d) <= ArenaBlocks
    BY <1>1, <1>4 DEF ArenaOK
  <2>2. ASSUME NEW i \in 1..Len(d)
        PROVE  /\ d[i].next # None => d[i].next <= Len(d) /\ d[d[i].next].filed = d[i].word.to
               /\ d[i].again # None => d[i].again <= Len(d) /\ d[d[i].again].filed = d[i].filed
    <3>1. a[i] \in Blocks /\ i \in 1..Len(a)
      BY <1>1, <1>4
    <3>2. a[i].next \in 0..ArenaBlocks /\ a[i].again \in 0..ArenaBlocks
      BY <3>1 DEF Blocks
    <3>3. /\ d[i].next = a[i].next /\ d[i].again = a[i].again
          /\ d[i].word = a[i].word /\ d[i].filed = a[i].filed
      BY <3>1, <1>3, <1>5
    <3>4. a[i].next # None => a[i].next \in 1..Len(a) /\ a[a[i].next].filed = a[i].word.to
      BY <1>1, <3>1, <3>2, Constants DEF ArenaOK, None
    <3>5. a[i].again # None => a[i].again \in 1..Len(a) /\ a[a[i].again].filed = a[i].filed
      BY <1>1, <3>1, <3>2, Constants DEF ArenaOK, None
    <3>6. \A j \in 1..Len(a) : d[j].filed = a[j].filed
      BY <1>3, <1>5
    <3>7. QED
      BY <1>4, <3>3, <3>4, <3>5, <3>6
  <2>3. \A i \in 1..Len(d) : d[i].filed # d[i].va => i = 1 /\ d[i].filed = 0
    BY <1>1, <1>3, <1>4, <1>5 DEF ArenaOK
  <2>4. QED
    BY <2>1, <2>2, <2>3 DEF ArenaOK
<1>8. SlotsOK(d, c.slot)
  <2>1. ASSUME NEW k \in 1..Ways, c.slot[k].code # None
        PROVE  /\ c.slot[k].code <= Len(d) /\ d[c.slot[k].code].filed = c.slot[k].va
               /\ \A l \in 1..Ways : c.slot[l].code = c.slot[k].code => l = k
    <3>1. c.slot[k].code \in 1..Len(a)
      BY <1>1, <2>1, Fields DEF SlotsOK, None
    <3>2. QED
      BY <1>1, <1>3, <1>4, <1>5, <2>1, <3>1 DEF SlotsOK
  <2>2. QED
    BY <2>1 DEF SlotsOK
<1>9. NoneOld(a) /\ ~remapped' => NoneOld(d)
  BY <1>3, <1>4, <1>5 DEF NoneOld
<1>10. QED
  BY <1>2, <1>6, <1>7, <1>8, <1>9 DEF CacheOK

\* A site redirected to a block filed under the address it stands for.
LEMMA RedirectOk ==
  ASSUME NEW c, CacheOK(c), NEW site \in [block : 0..ArenaBlocks, exit : {"next", "again"}],
         site.block \in 1..Len(c.arena), NEW entry \in 1..Len(c.arena),
         site.exit = "next" => c.arena[entry].filed = c.arena[site.block].word.to,
         site.exit = "again" => c.arena[entry].filed = c.arena[site.block].filed
  PROVE  /\ CacheOK(Redirect(c, site, entry))
         /\ NoneOld(c.arena) => NoneOld(Redirect(c, site, entry).arena)
<1> DEFINE a == c.arena  i == site.block
           b == IF site.exit = "next" THEN [a[i] EXCEPT !.next = entry]
                                      ELSE [a[i] EXCEPT !.again = entry]
           d == [a EXCEPT ![i] = b]
           r == Redirect(c, site, entry)  e == [c EXCEPT !.arena = d]
<1>1. /\ c \in CacheType /\ ArenaOK(a) /\ SlotsOK(a, c.slot)
      /\ a \in Seq(Blocks) /\ Len(a) \in Nat /\ Len(a) <= ArenaBlocks
  BY DEF CacheOK, CacheType, ArenaOK
<1>a. r = e
  BY DEF Redirect
<1>b. e.arena = d /\ e.slot = c.slot /\ (d \in Seq(Blocks) => e \in CacheType)
  <2> HIDE DEF d
  <2>1. QED
    BY <1>1, ArenaSet
<1> HIDE DEF e, r
<1>2. r.arena = d /\ r.slot = c.slot
  BY <1>a, <1>b
<1>3. a[i] \in Blocks /\ entry \in 0..ArenaBlocks
  BY <1>1, Constants
<1>4. /\ b \in Blocks /\ b.va = a[i].va /\ b.filed = a[i].filed
      /\ b.word = a[i].word /\ b.old = a[i].old
      /\ b.next = IF site.exit = "next" THEN entry ELSE a[i].next
      /\ b.again = IF site.exit = "next" THEN a[i].again ELSE entry
  BY <1>3 DEF Blocks
<1> HIDE DEF b
<1>5. /\ d \in Seq(Blocks) /\ Len(d) = Len(a) /\ d[i] = b
      /\ \A j \in (1..Len(a)) \ {i} : d[j] = a[j]
  BY <1>1, <1>4
<1>6. r \in CacheType
  BY <1>5, <1>a, <1>b
<1> HIDE DEF d
<1>7. \A j \in 1..Len(a) : /\ d[j].va = a[j].va /\ d[j].filed = a[j].filed
                           /\ d[j].word = a[j].word
  BY <1>4, <1>5
<1>8. ArenaOK(d)
  <2>0. \A j \in 1..Len(d) : d[j].filed # d[j].va => j = 1 /\ d[j].filed = 0
    BY <1>1, <1>5, <1>7 DEF ArenaOK
  <2> SUFFICES ASSUME NEW j \in 1..Len(d)
      PROVE  /\ d[j].next # None => d[j].next <= Len(d) /\ d[d[j].next].filed = d[j].word.to
             /\ d[j].again # None => d[j].again <= Len(d) /\ d[d[j].again].filed = d[j].filed
    BY <1>1, <1>5, <2>0 DEF ArenaOK
  <2>1. a[j] \in Blocks /\ j \in 1..Len(a)
    BY <1>1, <1>5
  <2>2. a[j].next \in 0..ArenaBlocks /\ a[j].again \in 0..ArenaBlocks
    BY <2>1 DEF Blocks
  <2>3. a[j].next # None => a[j].next \in 1..Len(a) /\ a[a[j].next].filed = a[j].word.to
    BY <1>1, <2>1, <2>2, Constants DEF ArenaOK, None
  <2>4. a[j].again # None => a[j].again \in 1..Len(a) /\ a[a[j].again].filed = a[j].filed
    BY <1>1, <2>1, <2>2, Constants DEF ArenaOK, None
  <2>5. CASE j # i
    BY <1>5, <1>7, <2>1, <2>3, <2>4, <2>5
  <2>6. CASE j = i /\ site.exit = "next"
    BY <1>4, <1>5, <1>7, <2>1, <2>4, <2>6
  <2>7. CASE j = i /\ site.exit = "again"
    BY <1>4, <1>5, <1>7, <2>1, <2>3, <2>7
  <2>8. QED
    BY <2>5, <2>6, <2>7
<1>9. SlotsOK(d, c.slot)
  <2>1. ASSUME NEW k \in 1..Ways, c.slot[k].code # None
        PROVE  /\ c.slot[k].code <= Len(d) /\ d[c.slot[k].code].filed = c.slot[k].va
               /\ \A l \in 1..Ways : c.slot[l].code = c.slot[k].code => l = k
    <3>1. c.slot[k].code \in 1..Len(a)
      BY <1>1, <2>1, Fields DEF SlotsOK, None
    <3>2. QED
      BY <1>1, <1>5, <1>7, <2>1, <3>1 DEF SlotsOK
  <2>2. QED
    BY <2>1 DEF SlotsOK
<1>10. NoneOld(a) => NoneOld(d)
  BY <1>4, <1>5 DEF NoneOld
<1>11. QED
  BY <1>2, <1>6, <1>8, <1>9, <1>10 DEF CacheOK, r

-----------------------------------------------------------------------------
\* Where the guest is while native code runs or a site waits to be
\* redirected, and which blocks belong to the bus map.
PlacesOK ==
  /\ mode # "loop" => ~remapped
  /\ mode = "native" =>
       /\ at \in 1..Len(arena)
       /\ arena[at].filed = pc \/ (arena[at].va = pc /\ GuardHolds)
  /\ mode = "link" => /\ link.block \in 1..Len(arena)
                      /\ link.exit = "next" => pc = arena[link.block].word.to
                      /\ link.exit = "again" => pc = arena[link.block].filed

MapOK == ~remapped => NoneOld(arena)

IInv == TypeOK /\ CacheOK(Cache) /\ MapOK /\ PlacesOK

\* The parts of the state outside the cache.
RestType ==
  /\ mem \in [Code -> Words] /\ pc \in Addresses
  /\ mode \in {"loop", "native", "link"} /\ at \in 0..ArenaBlocks
  /\ link \in [block : 0..ArenaBlocks, exit : {"next", "again"}]
  /\ stale \in BOOLEAN /\ short \in BOOLEAN /\ remapped \in BOOLEAN /\ idle \in Nat

LEMMA CacheFields ==
  /\ Cache.arena = arena /\ Cache.slot = slot /\ Cache.clock = clock /\ ~Cache.flushed
  /\ Cache'.arena = arena' /\ Cache'.slot = slot'
BY DEF Cache

\* A step is described by the cache it leaves and by the rest.
LEMMA BecomesOk ==
  ASSUME NEW c, CacheOK(c), Becomes(c), RestType'
  PROVE  TypeOK' /\ CacheOK(Cache)'
<1>1. c \in CacheType /\ arena' = c.arena /\ slot' = c.slot /\ clock' = c.clock
  BY DEF CacheOK, Becomes
<1>2. /\ arena' \in Seq(Blocks) /\ clock' \in 0..(Ways - 1)
      /\ slot' \in [1..Ways -> [va : Addresses \cup {0}, code : 0..ArenaBlocks]]
  BY <1>1 DEF CacheType
<1>3. Len(arena') <= ArenaBlocks
  BY <1>1 DEF CacheOK, ArenaOK
<1>4. TypeOK'
  BY <1>2, <1>3 DEF TypeOK, RestType
<1>5. Cache' = [arena |-> arena', slot |-> slot', clock |-> clock', flushed |-> FALSE]
  BY DEF Cache
<1>6. FALSE \in BOOLEAN
  OBVIOUS
<1>7. Cache' \in CacheType
  BY <1>2, <1>5, <1>6 DEF CacheType
<1>8. CacheOK(Cache')
  BY <1>1, <1>7, CacheFields DEF CacheOK
<1>9. QED
  BY <1>4, <1>8 DEF Cache, CacheOK, CacheType, ArenaOK, SlotsOK

LEMMA PreparedOk ==
  ASSUME IInv
  PROVE  CacheOK(Prepared) /\ NoneOld(Prepared.arena)
<1>1. Cache \in CacheType /\ CacheOK(Cache)
  BY DEF IInv, CacheOK
<1>2. CASE ~remapped
  BY <1>1, <1>2, CacheFields DEF Prepared, IInv, MapOK
<1>3. CASE remapped
  <2> DEFINE f == Flush(Cache)  e == [f EXCEPT !.flushed = FALSE]
  <2>1. CacheOK(f) /\ NoneOld(f.arena)
    BY <1>1, FlushOk
  <2>2. Prepared = e
    BY <1>3 DEF Prepared
  <2> HIDE DEF f
  <2>3. f \in CacheType
    BY <2>1 DEF CacheOK
  <2>4. e.arena = f.arena /\ e.slot = f.slot
    BY <2>3 DEF CacheType
  <2>5. e \in CacheType
    BY <2>3 DEF CacheType
  <2> HIDE DEF e
  <2>6. QED
    BY <2>1, <2>2, <2>4, <2>5 DEF CacheOK
<1>4. QED
  BY <1>2, <1>3

LEMMA InitIInv == Init => IInv
<1> SUFFICES ASSUME Init PROVE IInv
  OBVIOUS
<1>1. arena = <<>> /\ slot = [k \in 1..Ways |-> EmptySlot] /\ clock = 0
  BY DEF Init
<1>2. [k \in 1..Ways |-> EmptySlot] \in
        [1..Ways -> [va : Addresses \cup {0}, code : 0..ArenaBlocks]]
  BY Constants DEF EmptySlot, None
<1>3. <<>> \in Seq(Blocks) /\ Len(<<>>) = 0 /\ 0 \in 0..(Ways - 1) /\ FALSE \in BOOLEAN
  BY Constants
<1>4. Cache \in CacheType
  BY <1>1, <1>2, <1>3 DEF Cache, CacheType
<1>5. ArenaOK(Cache.arena) /\ SlotsOK(Cache.arena, Cache.slot) /\ NoneOld(arena)
  BY <1>1, <1>3, CacheFields, Constants DEF ArenaOK, SlotsOK, NoneOld, EmptySlot
<1>6. RestType
  <2>1. NoSite \in [block : 0..ArenaBlocks, exit : {"next", "again"}]
    BY Constants DEF NoSite, None
  <2>2. stale \in BOOLEAN /\ short \in BOOLEAN /\ remapped \in BOOLEAN
    BY DEF Init
  <2>3. QED
    BY <2>1, <2>2, Constants DEF Init, RestType, None
<1>7. TypeOK
  BY <1>1, <1>2, <1>3, <1>6, Constants DEF TypeOK, RestType
<1>8. PlacesOK
  BY DEF Init, PlacesOK
<1>9. QED
  BY <1>4, <1>5, <1>7, <1>8 DEF IInv, CacheOK, MapOK

-----------------------------------------------------------------------------
LEMMA ReferenceType ==
  ASSUME IInv, ReferenceStep
  PROVE  /\ mem' \in [Code -> Words] /\ pc' \in Addresses
         /\ remapped' \in BOOLEAN /\ idle' \in Nat
<1>1. mem \in [Code -> Words] /\ pc \in Addresses
  BY DEF IInv, TypeOK
<1>2. mem' \in [Code -> Words]
  BY <1>1 DEF ReferenceStep, Stores
<1>3. pc' \in Addresses
  <2>1. CASE pc \in Devices
    BY <2>1 DEF ReferenceStep
  <2>2. CASE pc \notin Devices
    <3>1. mem[pc] \in Words
      BY <1>1, <2>2, Constants
    <3>2. Successors(mem[pc]) \subseteq Addresses
      BY <3>1, Constants DEF Successors, Words
    <3>3. QED
      BY <2>2, <3>2 DEF ReferenceStep
  <2>3. QED
    BY <2>1, <2>2
<1>4. remapped' \in BOOLEAN
  BY Zenon DEF ReferenceStep
<1>5. idle' \in Nat
  BY DEF ReferenceStep
<1>6. QED
  BY <1>2, <1>3, <1>4, <1>5

\* What the loop's look-up at pc gives.
LEMMA LoopFound ==
  ASSUME IInv
  PROVE  LET f == Found(Prepared, pc, FALSE)
         IN /\ CacheOK(f.cache) /\ NoneOld(f.cache.arena)
            /\ Entry(f) # None => /\ Entry(f) \in 1..Len(f.cache.arena)
                                  /\ Entry(f) \in 0..ArenaBlocks
                                  /\ Suits(f.cache.arena[Entry(f)], pc, f.cache.flushed)
<1>1. CacheOK(Prepared) /\ NoneOld(Prepared.arena)
  BY PreparedOk
<1>2. mem \in [Code -> Words] /\ pc \in Addresses /\ FALSE \in BOOLEAN
  BY DEF IInv, TypeOK
<1>3. QED
  BY <1>1, <1>2, FoundOk

LEMMA LoopStepsOk == ASSUME IInv, LoopSteps PROVE IInv'
<1> DEFINE f == Found(Prepared, pc, FALSE)  c == Aged(f.cache)
<1>1. CacheOK(f.cache) /\ NoneOld(f.cache.arena)
  BY LoopFound
<1>2. ReferenceStep /\ Becomes(c) /\ short' = FALSE /\ UNCHANGED <<mode, at, link, stale>>
      /\ mode = "loop"
  BY DEF LoopSteps
<1> HIDE DEF f
<1>3. remapped' \in BOOLEAN
  BY <1>2, ReferenceType
<1>4. CacheOK(c) /\ (~remapped' => NoneOld(c.arena))
  BY <1>1, <1>3, AgedOk
<1>5. short' \in BOOLEAN /\ stale' \in BOOLEAN
  BY <1>2, Zenon DEF IInv, TypeOK
<1>6. RestType'
  BY <1>2, <1>3, <1>5, ReferenceType DEF IInv, TypeOK, RestType
<1> HIDE DEF c
<1>7. TypeOK' /\ CacheOK(Cache)'
  BY <1>2, <1>4, <1>6, BecomesOk
<1>8. MapOK' /\ PlacesOK'
  BY <1>2, <1>4 DEF MapOK, PlacesOK, NoneOld, Becomes
<1>9. QED
  BY <1>7, <1>8 DEF IInv

LEMMA LoopInterruptedOk == ASSUME IInv, LoopInterrupted PROVE IInv'
<1> DEFINE f == Found(Prepared, pc, FALSE)  c == f.cache
<1>1. CacheOK(c) /\ NoneOld(c.arena)
  BY LoopFound
<1>2. /\ Becomes(c) /\ mode = "loop" /\ pc' \in Code /\ ~remapped' /\ remapped' \in BOOLEAN
      /\ idle' = 0 /\ UNCHANGED <<mem, mode, at, link, stale, short>>
  BY DEF LoopInterrupted
<1> HIDE DEF c, f
<1>3. short' \in BOOLEAN /\ stale' \in BOOLEAN
  BY <1>2, Zenon DEF IInv, TypeOK
<1>4. RestType'
  BY <1>2, <1>3, Constants DEF IInv, TypeOK, RestType
<1>5. TypeOK' /\ CacheOK(Cache)'
  BY <1>1, <1>2, <1>4, BecomesOk
<1>6. MapOK' /\ PlacesOK'
  BY <1>1, <1>2 DEF MapOK, PlacesOK, NoneOld, Becomes
<1>7. QED
  BY <1>5, <1>6 DEF IInv

LEMMA LoopEntersOk == ASSUME IInv, LoopEnters PROVE IInv'
<1> DEFINE f == Found(Prepared, pc, FALSE)  c == f.cache
<1>1. /\ CacheOK(c) /\ NoneOld(c.arena)
      /\ Entry(f) # None => Entry(f) \in 1..Len(c.arena) /\ Entry(f) \in 0..ArenaBlocks
                            /\ Suits(c.arena[Entry(f)], pc, c.flushed)
  BY LoopFound
<1>2. /\ Becomes(c) /\ Entry(f) # None /\ at' = Entry(f) /\ mode' = "native"
      /\ ~remapped' /\ remapped' \in BOOLEAN
      /\ idle' = idle + 1 /\ UNCHANGED <<mem, pc, link, stale, short>>
  BY DEF LoopEnters
<1> HIDE DEF c, f
<1>3. short' \in BOOLEAN /\ stale' \in BOOLEAN
  BY <1>2, Zenon DEF IInv, TypeOK
<1>4. RestType'
  BY <1>1, <1>2, <1>3 DEF IInv, TypeOK, RestType
<1>5. TypeOK' /\ CacheOK(Cache)'
  BY <1>1, <1>2, <1>4, BecomesOk
<1>a. arena'[at'].filed = pc' \/ (arena'[at'].va = pc' /\ GuardHolds')
  BY <1>1, <1>2 DEF Suits, GuardHolds, Block, Becomes
<1>6. MapOK' /\ PlacesOK'
  BY <1>1, <1>2, <1>a DEF MapOK, PlacesOK, NoneOld, Becomes
<1>7. QED
  BY <1>5, <1>6 DEF IInv

-----------------------------------------------------------------------------
LEMMA SameCache ==
  ASSUME IInv, UNCHANGED <<arena, slot, clock>>, RestType'
  PROVE  TypeOK' /\ CacheOK(Cache)'
<1>1. TypeOK'
  BY DEF IInv, TypeOK, RestType
<1>2. Cache' = Cache
  BY DEF Cache
<1>3. CacheOK(Cache')
  BY <1>2 DEF IInv
<1>4. QED
  BY <1>1, <1>3 DEF Cache, CacheOK, CacheType, ArenaOK, SlotsOK

\* Leaving a block through a site: on to a block of the guest's address, or
\* out with the site to be redirected.
LEMMA ThroughOk ==
  ASSUME IInv, mode = "native", NEW exit \in {"next", "again"}, Through(exit),
         UNCHANGED <<arena, slot, clock, remapped, short>>,
         mem' \in [Code -> Words], pc' \in Addresses, idle' \in Nat,
         exit = "next" => pc' = arena[at].word.to,
         exit = "again" => pc' = arena[at].filed
  PROVE  IInv'
<1> DEFINE b == arena[at]
<1>1. /\ arena \in Seq(Blocks) /\ Len(arena) \in Nat /\ Len(arena) <= ArenaBlocks
      /\ at \in 1..Len(arena) /\ ~remapped /\ ArenaOK(arena)
  BY CacheFields DEF IInv, TypeOK, PlacesOK, CacheOK
<1>2. b \in Blocks /\ b[exit] \in 0..ArenaBlocks /\ at \in 0..ArenaBlocks
  <2>1. b \in Blocks /\ at \in 0..ArenaBlocks
    BY <1>1, Constants
  <2>2. b.next \in 0..ArenaBlocks /\ b.again \in 0..ArenaBlocks
    BY <2>1 DEF Blocks
  <2>3. QED
    BY <2>1, <2>2
<1>3. b[exit] # None => b[exit] \in 1..Len(arena) /\ arena[b[exit]].filed = pc'
  <2>1. CASE exit = "next"
    BY <2>1, <1>1, <1>2 DEF ArenaOK, None
  <2>2. CASE exit = "again"
    BY <2>2, <1>1, <1>2 DEF ArenaOK, None
  <2>3. QED
    BY <2>1, <2>2
<1>4. short' \in BOOLEAN /\ remapped' \in BOOLEAN /\ stale \in BOOLEAN
  BY Zenon DEF IInv, TypeOK
<1>5. CASE b[exit] # None
  <2>1. at' = b[exit] /\ UNCHANGED <<mode, link, stale>>
    BY <1>5 DEF Through, Block
  <2>2. stale' \in BOOLEAN
    BY <2>1, <1>4, Zenon
  <2> HIDE DEF b
  <2>3. RestType'
    BY <1>2, <1>4, <2>1, <2>2 DEF IInv, TypeOK, RestType
  <2>4. TypeOK' /\ CacheOK(Cache)'
    BY <2>3, SameCache
  <2>5. MapOK' /\ PlacesOK'
    BY <1>1, <1>3, <1>5, <2>1 DEF IInv, MapOK, PlacesOK, NoneOld
  <2>6. QED
    BY <2>4, <2>5 DEF IInv
<1>6. CASE b[exit] = None
  <2>1. at' = None /\ mode' = "link" /\ link' = [block |-> at, exit |-> exit]
    BY <1>6 DEF Through, Block
  <2>2. stale' \in BOOLEAN
    BY <1>6 DEF Through, Block
  <2>a. link' \in [block : 0..ArenaBlocks, exit : {"next", "again"}]
    BY <1>2, <2>1
  <2> HIDE DEF b
  <2>3. RestType'
    BY <1>4, <2>1, <2>2, <2>a, Constants DEF RestType, None
  <2>4. TypeOK' /\ CacheOK(Cache)'
    BY <2>3, SameCache
  <2>5. MapOK' /\ PlacesOK'
    BY <1>1, <2>1 DEF IInv, MapOK, PlacesOK, NoneOld
  <2>6. QED
    BY <2>4, <2>5 DEF IInv
<1>7. QED
  BY <1>5, <1>6

LEMMA NativeStaleOk == ASSUME IInv, NativeStale PROVE IInv'
<1>1. mode = "native" /\ Through("again") /\ idle' = idle + 1
      /\ UNCHANGED <<mem, pc, short, arena, slot, clock, remapped>>
  BY DEF NativeStale
<1>0. mode = "native" /\ ~GuardHolds
  BY DEF NativeStale
<1>2. arena[at].filed = pc /\ idle \in Nat /\ mem \in [Code -> Words] /\ pc \in Addresses
  BY <1>0 DEF IInv, TypeOK, PlacesOK
<1>3. QED
  BY <1>1, <1>2, ThroughOk

LEMMA BlockHere ==
  ASSUME IInv, mode = "native"
  PROVE  Block \in Blocks /\ Block.word \in Words
<1>1. Block \in Blocks
  BY DEF IInv, TypeOK, PlacesOK, Block
<1>2. QED
  BY <1>1 DEF Blocks

LEMMA NativeJumpsOk == ASSUME IInv, NativeJumps PROVE IInv'
<1>1. mode = "native" /\ Through("next") /\ idle' = 0 /\ pc' = Block.word.to
      /\ Block.word.op = "jump" /\ mem' \in Stores
      /\ UNCHANGED <<short, arena, slot, clock, remapped>>
  BY DEF NativeJumps
<1>2. Block.word \in Words
  BY <1>1, BlockHere
<1>3. pc' \in Addresses
  BY <1>1, <1>2, Constants DEF Words
<1>4. mem' \in [Code -> Words]
  BY <1>1 DEF Stores, IInv, TypeOK
<1>5. pc' = arena[at].word.to
  BY <1>1 DEF Block
<1>6. QED
  BY <1>1, <1>3, <1>4, <1>5, ThroughOk

LEMMA NativeShortOk == ASSUME IInv, NativeShort PROVE IInv'
<1>1. /\ short' = TRUE /\ mode' = "loop" /\ at' = None /\ UNCHANGED <<link, stale>>
      /\ idle' = idle + 1 /\ UNCHANGED <<mem, pc, arena, slot, clock, remapped>>
  BY DEF NativeShort, Leave
<1>2. short' \in BOOLEAN /\ stale' \in BOOLEAN /\ remapped' \in BOOLEAN
  BY <1>1, Zenon DEF IInv, TypeOK
<1>3. RestType'
  BY <1>1, <1>2, Constants DEF IInv, TypeOK, RestType, None
<1>4. TypeOK' /\ CacheOK(Cache)'
  BY <1>1, <1>3, SameCache
<1>5. MapOK' /\ PlacesOK'
  BY <1>1 DEF IInv, MapOK, PlacesOK, NoneOld
<1>6. QED
  BY <1>4, <1>5 DEF IInv

LEMMA NativeLooksUpOk == ASSUME IInv, NativeLooksUp PROVE IInv'
<1> DEFINE hits == Hits(Cache, pc')  k == First(hits)
<1>1. mode = "native" /\ pc' \in Addresses /\ mem' \in Stores /\ idle' = 0
      /\ UNCHANGED <<short, arena, slot, clock, remapped>>
  BY DEF NativeLooksUp
<1>2. mem' \in [Code -> Words]
  BY <1>1 DEF Stores, IInv, TypeOK
<1>3. /\ short' \in BOOLEAN /\ stale \in BOOLEAN /\ remapped' \in BOOLEAN
  BY <1>1, Zenon DEF IInv, TypeOK
<1>4. /\ Cache \in CacheType /\ SlotsOK(arena, slot) /\ ~remapped
      /\ at \in 0..ArenaBlocks /\ link \in [block : 0..ArenaBlocks, exit : {"next", "again"}]
  BY <1>1, CacheFields DEF IInv, TypeOK, CacheOK, PlacesOK
<1>5. CASE hits = {}
  <2>1. mode' = "loop" /\ at' = None /\ UNCHANGED <<link, stale>>
    BY <1>5 DEF NativeLooksUp, Leave
  <2>2. stale' \in BOOLEAN
    BY <2>1, <1>3, Zenon
  <2>3. RestType'
    BY <1>1, <1>2, <1>3, <1>4, <2>1, <2>2, Constants DEF RestType, None
  <2>4. TypeOK' /\ CacheOK(Cache)'
    BY <1>1, <2>3, SameCache
  <2>5. MapOK' /\ PlacesOK'
    BY <1>1, <2>1 DEF IInv, MapOK, PlacesOK, NoneOld
  <2>6. QED
    BY <2>4, <2>5 DEF IInv
<1>6. CASE hits # {}
  <2>1. at' = slot[k].code /\ UNCHANGED <<mode, link, stale>>
    BY <1>6 DEF NativeLooksUp
  <2>2. hits \in SUBSET (1..Ways)
    BY DEF Hits
  <2>3. k \in hits
    BY <1>6, <2>2, FirstIn
  <2>4. k \in 1..Ways /\ slot[k].va = pc' /\ slot[k].code # None
    BY <2>3, CacheFields DEF Hits
  <2> HIDE DEF hits, k
  <2>5. slot[k].code \in 0..ArenaBlocks /\ Len(arena) \in Nat
    BY <1>4, <2>4, Fields, CacheFields
  <2>6. slot[k].code \in 1..Len(arena) /\ arena[slot[k].code].filed = pc'
    BY <1>1, <1>4, <2>4, <2>5, Constants DEF SlotsOK, None
  <2>7. stale' \in BOOLEAN
    BY <2>1, <1>3, Zenon
  <2>8. RestType'
    BY <1>1, <1>2, <1>3, <1>4, <2>1, <2>5, <2>7 DEF RestType
  <2>9. TypeOK' /\ CacheOK(Cache)'
    BY <1>1, <2>8, SameCache
  <2>10. MapOK' /\ PlacesOK'
    BY <1>1, <1>4, <2>1, <2>6 DEF IInv, MapOK, PlacesOK, NoneOld
  <2>11. QED
    BY <2>9, <2>10 DEF IInv
<1>7. QED
  BY <1>5, <1>6

LEMMA NativeHelperOk == ASSUME IInv, NativeHelper PROVE IInv'
<1> DEFINE c == Aged(Cache)
<1>1. /\ mode = "native" /\ pc' \in Addresses /\ mem' \in Stores /\ remapped' \in BOOLEAN
      /\ Becomes(c) /\ mode' = "loop" /\ at' = None /\ UNCHANGED <<link, stale, short>>
      /\ idle' = 0
  BY Zenon DEF NativeHelper, Leave
<1>2. mem' \in [Code -> Words]
  BY <1>1 DEF Stores, IInv, TypeOK
<1>3. short' \in BOOLEAN /\ stale' \in BOOLEAN
  BY <1>1, Zenon DEF IInv, TypeOK
<1>4. CacheOK(Cache) /\ NoneOld(Cache.arena)
  BY <1>1, CacheFields DEF IInv, MapOK, PlacesOK
<1>5. CacheOK(c) /\ (~remapped' => NoneOld(c.arena))
  BY <1>1, <1>4, AgedOk
<1>6. RestType'
  BY <1>1, <1>2, <1>3, Constants DEF IInv, TypeOK, RestType, None
<1> HIDE DEF c
<1>7. TypeOK' /\ CacheOK(Cache)'
  BY <1>1, <1>5, <1>6, BecomesOk
<1>8. MapOK' /\ PlacesOK'
  BY <1>1, <1>5 DEF MapOK, PlacesOK, NoneOld, Becomes
<1>9. QED
  BY <1>7, <1>8 DEF IInv

\* The flush on the way is what could leave a redirected site in nowhere.
LEMMA ResolveLinkOk == ASSUME IInv, ResolveLink PROVE IInv'
<1> DEFINE f == Found(Cache, pc, stale)  c == Resolved(f)
<1>1. /\ mode = "link" /\ Becomes(c) /\ mode' = "loop" /\ link' = NoSite
      /\ ~stale' /\ stale' \in BOOLEAN
      /\ idle' = idle + 1 /\ UNCHANGED <<mem, pc, at, short, remapped>>
  BY DEF ResolveLink
<1>2. /\ CacheOK(Cache) /\ mem \in [Code -> Words] /\ pc \in Addresses /\ ~remapped
      /\ link \in [block : 0..ArenaBlocks, exit : {"next", "again"}] /\ NoneOld(Cache.arena)
  BY <1>1, CacheFields DEF IInv, TypeOK, MapOK, PlacesOK
<1>3. stale \in BOOLEAN /\ short' \in BOOLEAN /\ remapped' \in BOOLEAN
  BY <1>1, Zenon DEF IInv, TypeOK
<1>4. /\ CacheOK(f.cache) /\ NoneOld(f.cache.arena)
      /\ Entry(f) # None => /\ Entry(f) \in 1..Len(f.cache.arena)
                            /\ Suits(f.cache.arena[Entry(f)], pc, f.cache.flushed)
      /\ ~f.cache.flushed => Extends(f.cache.arena, Cache.arena)
  BY <1>2, <1>3, FoundOk
<1>5. /\ link.block \in 1..Len(arena)
      /\ link.exit = "next" => pc = arena[link.block].word.to
      /\ link.exit = "again" => pc = arena[link.block].filed
  BY <1>1 DEF IInv, PlacesOK
<1> HIDE DEF f
<1>6. CacheOK(c) /\ NoneOld(c.arena)
  <2>1. CASE Entry(f) = None \/ f.cache.flushed
    BY <2>1, <1>4 DEF Resolved
  <2>2. CASE ~(Entry(f) = None \/ f.cache.flushed)
    <3> DEFINE g == f.cache
    <3>1. c = Redirect(g, link, Entry(f))
      BY <2>2 DEF Resolved
    <3>2. link.block \in 1..Len(g.arena) /\ g.arena[link.block] = arena[link.block]
      <4>1. Len(arena) \in Nat /\ Len(g.arena) \in Nat
        BY <1>4 DEF IInv, TypeOK, CacheOK, CacheType
      <4>2. QED
        BY <1>4, <1>5, <2>2, <4>1, CacheFields DEF Extends
    <3>3. Entry(f) \in 1..Len(g.arena) /\ g.arena[Entry(f)].filed = pc
      BY <1>4, <2>2 DEF Suits
    <3> DEFINE entry == Entry(f)
    <3> HIDE DEF g, c, entry
    <3>4. entry \in 1..Len(g.arena)
      BY <3>3 DEF entry
    <3>5. CacheOK(g) /\ NoneOld(g.arena)
      BY <1>4 DEF g
    <3>6. /\ link.exit = "next" => g.arena[entry].filed = g.arena[link.block].word.to
          /\ link.exit = "again" => g.arena[entry].filed = g.arena[link.block].filed
      BY <1>5, <3>2, <3>3 DEF entry
    <3>7. CacheOK(Redirect(g, link, entry)) /\ NoneOld(Redirect(g, link, entry).arena)
      BY <1>2, <3>2, <3>4, <3>5, <3>6, RedirectOk
    <3>8. QED
      BY <3>1, <3>7 DEF entry
  <2>3. QED
    BY <2>1, <2>2
<1> HIDE DEF c
<1>7. RestType'
  <2>1. NoSite \in [block : 0..ArenaBlocks, exit : {"next", "again"}]
    BY Constants DEF NoSite, None
  <2>2. QED
    BY <1>1, <1>3, <2>1 DEF IInv, TypeOK, RestType
<1>8. TypeOK' /\ CacheOK(Cache)'
  BY <1>1, <1>6, <1>7, BecomesOk
<1>9. MapOK' /\ PlacesOK'
  BY <1>1, <1>6 DEF MapOK, PlacesOK, NoneOld, Becomes
<1>10. QED
  BY <1>8, <1>9 DEF IInv

LEMMA NextIInv == IInv /\ [Next]_vars => IInv'
<1> SUFFICES ASSUME IInv, [Next]_vars PROVE IInv'
  OBVIOUS
<1>1. CASE UNCHANGED vars
  <2>1. short' \in BOOLEAN /\ stale' \in BOOLEAN /\ remapped' \in BOOLEAN
    BY <1>1, Zenon DEF IInv, TypeOK, vars
  <2>2. RestType'
    BY <1>1, <2>1 DEF IInv, TypeOK, RestType, vars
  <2>3. TypeOK' /\ CacheOK(Cache)'
    BY <1>1, <2>2, SameCache DEF vars
  <2>4. MapOK' /\ PlacesOK'
    BY <1>1 DEF IInv, MapOK, PlacesOK, NoneOld, GuardHolds, Block, vars
  <2>5. QED
    BY <2>3, <2>4 DEF IInv
<1>2. QED
  BY <1>1, LoopStepsOk, LoopInterruptedOk, LoopEntersOk, NativeStaleOk, NativeShortOk,
     NativeJumpsOk, NativeLooksUpOk, NativeHelperOk, ResolveLinkOk DEF Next

LEMMA AlwaysIInv == Spec => []IInv
BY InitIInv, NextIInv, PTL DEF Spec

-----------------------------------------------------------------------------
\* Native code is where the guest is: whatever mh_jit_find replaced or flushed
\* and whatever mh_jit_resolve_link redirected, the block that runs is one of
\* the address in pc, or the guest is at address 0 and the block is the one the
\* arena begins with (the way flush() blanks inside compile(), cache.c:252).
THEOREM GuestIsRun == Spec => []RunsTheGuest
<1>1. IInv => RunsTheGuest
  BY CacheFields DEF IInv, PlacesOK, CacheOK, ArenaOK, RunsTheGuest, Block
<1>2. QED
  BY <1>1, AlwaysIInv, PTL

\* A guest that has no code at address 0 and never comes there is run by the
\* blocks of its addresses without exception ("Blocks are keyed by virtual start
\* address", cache.c:18).
THEOREM KeyedWithoutZero == 0 \notin Addresses => (Spec => []KeyedByAddress)
<1>1. 0 \notin Addresses => (IInv => KeyedByAddress)
  <2> SUFFICES ASSUME 0 \notin Addresses, IInv PROVE KeyedByAddress
    OBVIOUS
  <2>1. pc # 0
    BY CacheFields DEF IInv, CacheOK, TypeOK
  <2>2. RunsTheGuest
    BY CacheFields DEF IInv, PlacesOK, CacheOK, ArenaOK, RunsTheGuest, Block
  <2>3. QED
    BY <2>1, <2>2 DEF RunsTheGuest, KeyedByAddress
<1>2. CASE 0 \notin Addresses
  <2>1. IInv => KeyedByAddress
    BY <1>1, <1>2
  <2>2. QED
    BY <2>1, AlwaysIInv, PTL
<1>3. QED
  BY <1>2

\* No block runs under a bus map it was not compiled under (mh_jit_prepare).
THEOREM MapsRespected == Spec => []NoCodeAcrossMaps
<1>1. IInv => NoCodeAcrossMaps
  BY DEF IInv, MapOK, PlacesOK, NoneOld, NoCodeAcrossMaps, Block
<1>2. QED
  BY <1>1, AlwaysIInv, PTL

-----------------------------------------------------------------------------
\* That the guest gets on: a chain of stale blocks climbs in the arena, and a
\* block that was found after a recompilation is that of the present word.

Climbs(a) == \A i \in 1..Len(a) : a[i].again # None => a[i].again > i

Fresh(b) == b.word = mem[b.va]

\* The block the table holds for va, if any, passes its guard.
UpToDate(c, va) ==
  Hits(c, va) # {} => Fresh(c.arena[c.slot[First(Hits(c, va))].code])

\* How long the guest may have been kept, by what comes next.
IdleOK ==
  /\ mode # "loop" => ~short
  /\ mode = "loop" /\ ~short =>
       idle <= 1 \/ (idle <= ArenaBlocks + 3 /\ ~remapped /\ UpToDate(Cache, pc))
  /\ mode = "native" => idle <= 1 + at \/ (idle <= ArenaBlocks + 4 /\ GuardHolds)
  /\ mode = "link" => /\ stale <=> link.exit = "again"
                      /\ idle <= ArenaBlocks + 2 /\ (~stale => idle = 0)
  /\ idle <= ArenaBlocks + 5

Progress == IInv /\ Climbs(arena) /\ IdleOK

-----------------------------------------------------------------------------
LEMMA FirstIsLeast ==
  ASSUME NEW S \in SUBSET (1..Ways), S # {}
  PROVE  First(S) \in S /\ \A l \in S : First(S) <= l
<1>1. S \in SUBSET Nat
  BY Constants
<1>2. \E k \in S : \A l \in S : k <= l
  BY <1>1, Least
<1>3. QED
  BY <1>2 DEF First

LEMMA FirstLeast ==
  ASSUME NEW S \in SUBSET (1..Ways), NEW k \in S, \A l \in S : k <= l
  PROVE  First(S) = k
<1> DEFINE m == First(S)
<1>1. m \in S /\ \A l \in S : m <= l
  BY FirstIsLeast
<1> HIDE DEF m
<1>2. m \in 1..Ways /\ k \in 1..Ways
  BY <1>1
<1>3. m \in Nat /\ k \in Nat
  BY <1>2, Constants
<1>4. m <= k /\ k <= m
  BY <1>1
<1>5. m = k
  BY <1>3, <1>4
<1>6. QED
  BY <1>5 DEF m

\* What emitting a block does to the cache.
LEMMA EmittedShape ==
  ASSUME NEW c \in CacheType, NEW k \in 1..Ways, NEW va, Len(c.arena) < ArenaBlocks
  PROVE  LET r == Emitted(c, k, va)
         IN /\ r.arena = Append(c.arena, NewBlock(va, c.slot[k].va))
            /\ r.slot[k].code = Len(c.arena) + 1 /\ r.slot[k].va = c.slot[k].va
            /\ \A l \in (1..Ways) \ {k} : r.slot[l] = c.slot[l]
<1> DEFINE r == Emitted(c, k, va)  n == Len(c.arena) + 1
<1>1. r.arena = Append(c.arena, NewBlock(va, c.slot[k].va)) /\ r.slot = [c.slot EXCEPT ![k].code = n]
  BY DEF Emitted, CacheType
<1>2. n \in 0..ArenaBlocks
  BY Fields, Constants
<1> HIDE DEF n, r
<1>3. \A m \in 0..ArenaBlocks : \A t : t = [c.slot EXCEPT ![k].code = m] =>
        /\ t \in [1..Ways -> [va : Addresses \cup {0}, code : 0..ArenaBlocks]]
        /\ t[k].code = m /\ t[k].va = c.slot[k].va
        /\ \A l \in (1..Ways) \ {k} : t[l] = c.slot[l]
  BY CodeSet, Zenon
<1>4. /\ r.slot[k].code = n /\ r.slot[k].va = c.slot[k].va
      /\ \A l \in (1..Ways) \ {k} : r.slot[l] = c.slot[l]
  BY <1>1, <1>2, <1>3, Zenon
<1>5. QED
  BY <1>1, <1>4 DEF n, r

LEMMA CompileShape ==
  ASSUME NEW va \in Addresses, NEW k \in 1..Ways, NEW c \in CacheType, c.slot[k].code = None
  PROVE  LET r == Compile(c, k, va)
         IN \/ va \in Devices /\ r = c
            \/ /\ va \in Code
               /\ r.arena = Append(c.arena, NewBlock(va, c.slot[k].va))
               /\ r.slot[k].code = Len(c.arena) + 1 /\ r.slot[k].va = c.slot[k].va
               /\ \A l \in (1..Ways) \ {k} : r.slot[l] = c.slot[l]
            \/ /\ va \in Code /\ r.flushed
               /\ r.arena = Append(<<>>, NewBlock(va, 0)) /\ r.slot[k].code = 1
               /\ r.slot[k].va = 0 /\ \A l \in (1..Ways) \ {k} : r.slot[l].code = None
<1> DEFINE r == Compile(c, k, va)
<1>1. CASE va \in Devices
  BY <1>1 DEF Compile
<1>2. CASE va \notin Devices /\ Len(c.arena) < ArenaBlocks
  BY <1>2, EmittedShape, Constants DEF Compile
<1>3. CASE va \notin Devices /\ ~(Len(c.arena) < ArenaBlocks)
  <2> DEFINE f == Flush(c)  e == Emitted(f, k, va)
  <2>1. r = e /\ va \in Code
    BY <1>3, Constants DEF Compile
  <2>2. /\ f \in CacheType /\ f.arena = <<>> /\ f.flushed
        /\ f.slot = [l \in 1..Ways |-> EmptySlot]
    BY FlushOk DEF CacheOK
  <2>3. Len(f.arena) = 0 /\ Len(f.arena) < ArenaBlocks /\ 0 + 1 = 1
    BY <2>2, Constants
  <2>4. e.flushed
    BY <2>2 DEF Emitted, CacheType
  <2> HIDE DEF f
  <2>5. /\ e.arena = Append(f.arena, NewBlock(va, f.slot[k].va))
        /\ e.slot[k].code = Len(f.arena) + 1 /\ e.slot[k].va = f.slot[k].va
        /\ \A l \in (1..Ways) \ {k} : e.slot[l] = f.slot[l]
    <3>1. f \in CacheType /\ Len(f.arena) < ArenaBlocks
      BY <2>2, <2>3
    <3>2. QED
      BY <3>1, EmittedShape
  <2>6. \A l \in 1..Ways : f.slot[l].va = 0 /\ f.slot[l].code = None
    BY <2>2 DEF EmptySlot
  <2> HIDE DEF e, r
  <2>7. e.slot[k].va = 0 /\ \A l \in (1..Ways) \ {k} : e.slot[l].code = None
    BY <2>5, <2>6
  <2>8. /\ va \in Code /\ r.flushed
        /\ r.arena = Append(<<>>, NewBlock(va, 0)) /\ r.slot[k].code = 1
        /\ r.slot[k].va = 0 /\ \A l \in (1..Ways) \ {k} : r.slot[l].code = None
    BY <2>1, <2>2, <2>3, <2>4, <2>5, <2>6, <2>7
  <2>9. QED
    BY <2>8 DEF r
<1>4. QED
  BY <1>1, <1>2, <1>3

\* mh_jit_find keeps the chains climbing; what it compiles is of the present
\* word; and a recompilation leaves the table without an older block of va,
\* its own behind all others unless it flushed the arena.
LEMMA FoundShape ==
  ASSUME mem \in [Code -> Words], NEW c, CacheOK(c), NEW va \in Addresses,
         NEW recompile \in BOOLEAN
  PROVE  LET f == Found(c, va, recompile)
         IN /\ Climbs(c.arena) => Climbs(f.cache.arena)
            /\ Entry(f) # None /\ (recompile \/ Hits(c, va) = {}) =>
                 Fresh(f.cache.arena[Entry(f)])
            /\ Entry(f) # None /\ recompile /\ ~f.cache.flushed =>
                 Entry(f) = Len(c.arena) + 1
            /\ recompile => UpToDate(f.cache, va)
<1> DEFINE k == Victim(c, va, recompile)
           full == \A l \in 1..Ways : c.slot[l].code # None
           turned == IF full /\ ~recompile THEN [c EXCEPT !.clock = (@ + 1) % Ways] ELSE c
           cleared == [turned EXCEPT !.slot[k] = [va |-> va, code |-> None]]
           f == Found(c, va, recompile)
<1>0. c \in CacheType /\ Len(c.arena) \in Nat /\ c.arena \in Seq(Blocks)
  BY DEF CacheOK, CacheType
<1>1. /\ k \in 1..Ways
      /\ Hits(c, va) # {} => k = First(Hits(c, va)) /\ First(Hits(c, va)) \in Hits(c, va)
  BY <1>0, VictimIn
<1>2. CASE Hits(c, va) # {} /\ ~recompile
  <2>1. f.cache = c
    BY <1>2 DEF Found
  <2>2. QED
    BY <1>2, <2>1
<1>3. CASE ~(Hits(c, va) # {} /\ ~recompile)
  <2>1. f = [cache |-> Compile(cleared, k, va), way |-> k]
    BY <1>3 DEF Found
  <2>2. /\ CacheOK(turned) /\ turned.arena = c.arena /\ turned \in CacheType
        /\ turned.slot = c.slot
    BY <1>0, TurnedOk DEF CacheOK, CacheType
  <2> HIDE DEF turned, k
  <2>3. /\ CacheOK(cleared) /\ cleared.arena = c.arena
        /\ cleared.slot[k].va = va /\ cleared.slot[k].code = None
    BY <1>1, <2>2, ClearedOk
  <2>4. \A l \in (1..Ways) \ {k} : cleared.slot[l] = c.slot[l]
    BY <1>1, <2>2 DEF CacheType
  <2>5. cleared \in CacheType /\ SlotsOK(cleared.arena, cleared.slot)
    BY <2>3 DEF CacheOK
  <2> HIDE DEF cleared
  <2> DEFINE r == Compile(cleared, k, va)
             b == NewBlock(va, va)  o == NewBlock(va, 0)
  <2>a. \/ va \in Devices /\ r = cleared
        \/ /\ va \in Code
           /\ r.arena = Append(cleared.arena, b)
           /\ r.slot[k].code = Len(cleared.arena) + 1 /\ r.slot[k].va = cleared.slot[k].va
           /\ \A l \in (1..Ways) \ {k} : r.slot[l] = cleared.slot[l]
        \/ /\ va \in Code /\ r.flushed
           /\ r.arena = Append(<<>>, o) /\ r.slot[k].code = 1
           /\ \A l \in (1..Ways) \ {k} : r.slot[l].code = None
    BY <1>1, <2>3, <2>5, CompileShape
  <2>7. f.cache = r /\ Entry(f) = r.slot[k].code
    BY <2>1 DEF Entry
  <2>8. va \in Code => /\ b \in Blocks /\ b.again = None /\ Fresh(b)
                       /\ o \in Blocks /\ o.again = None /\ Fresh(o)
    BY NewBlockOk DEF Fresh
  <2> HIDE DEF r, b, o, f
  <2>6. \/ va \in Devices /\ r = cleared
        \/ /\ va \in Code
           /\ r.arena = Append(c.arena, b) /\ r.slot[k].code = Len(c.arena) + 1
           /\ r.slot[k].va = va
           /\ \A l \in (1..Ways) \ {k} : r.slot[l] = c.slot[l]
        \/ /\ va \in Code /\ r.flushed
           /\ r.arena = Append(<<>>, o) /\ r.slot[k].code = 1
           /\ \A l \in (1..Ways) \ {k} : r.slot[l].code = None
    BY <2>3, <2>4, <2>a
  <2> SUFFICES /\ Climbs(c.arena) => Climbs(r.arena)
               /\ r.slot[k].code # None => Fresh(r.arena[r.slot[k].code])
               /\ r.slot[k].code # None /\ recompile /\ ~r.flushed =>
                    r.slot[k].code = Len(c.arena) + 1
               /\ recompile => UpToDate(r, va)
    BY <2>7 DEF f
  <2>9. CASE va \in Devices /\ r = cleared
    <3>1. r.arena = c.arena /\ r.slot[k].code = None
      BY <2>3, <2>9
    <3>2. ASSUME recompile, NEW l \in Hits(r, va) PROVE FALSE
      <4>1. l \in 1..Ways /\ l # k /\ c.slot[l].va = va /\ c.slot[l].code # None
        BY <2>4, <2>9, <3>1, <3>2 DEF Hits
      <4>2. l \in Hits(c, va)
        BY <4>1 DEF Hits
      <4>3. k \in Hits(c, va)
        BY <1>1, <4>2
      <4>4. ASSUME NEW m \in Hits(c, va) PROVE c.slot[m].code = 1
        <5>1. m \in 1..Ways /\ c.slot[m].va = va /\ c.slot[m].code # None
          BY DEF Hits
        <5>2. c.slot[m].code \in 1..Len(c.arena) /\ c.arena[c.slot[m].code].filed = va
          BY <1>0, <5>1, Fields, Constants DEF CacheOK, SlotsOK, None
        <5>3. c.arena[c.slot[m].code] \in Blocks
          BY <1>0, <5>2
        <5>4. c.arena[c.slot[m].code].va # va
          BY <2>9, <5>3, Constants DEF Blocks
        <5>5. QED
          BY <5>2, <5>4 DEF CacheOK, ArenaOK
      <4>5. c.slot[k].code = c.slot[l].code
        BY <4>2, <4>3, <4>4
      <4>6. QED
        BY <1>1, <4>1, <4>5 DEF CacheOK, SlotsOK
    <3>3. QED
      BY <3>1, <3>2 DEF UpToDate
  <2>10. CASE /\ va \in Code
              /\ r.arena = Append(c.arena, b) /\ r.slot[k].code = Len(c.arena) + 1
              /\ r.slot[k].va = va
              /\ \A l \in (1..Ways) \ {k} : r.slot[l] = c.slot[l]
    <3> DEFINE n == Len(c.arena) + 1
    <3>1. r.arena[n] = b /\ Len(r.arena) = n /\ \A i \in 1..Len(c.arena) : r.arena[i] = c.arena[i]
      BY <1>0, <2>8, <2>10
    <3>2. Climbs(c.arena) => Climbs(r.arena)
      BY <1>0, <2>8, <2>10, <3>1 DEF Climbs
    <3>3. ASSUME recompile PROVE First(Hits(r, va)) = k
      <4>1. k \in Hits(r, va)
        BY <1>0, <1>1, <2>10 DEF Hits, None
      <4>2. Hits(r, va) \in SUBSET (1..Ways) /\ Hits(c, va) \in SUBSET (1..Ways)
        BY DEF Hits
      <4>3. ASSUME NEW l \in Hits(r, va) PROVE k <= l
        <5>1. CASE l = k
          BY <1>1, <5>1, Constants
        <5>2. CASE l # k
          <6>1. l \in Hits(c, va)
            BY <2>10, <5>2 DEF Hits
          <6>2. k = First(Hits(c, va))
            BY <1>1, <6>1
          <6>3. QED
            BY <4>2, <6>1, <6>2, FirstIsLeast
        <5>3. QED
          BY <5>1, <5>2
      <4>4. QED
        BY <4>1, <4>2, <4>3, FirstLeast
    <3>4. QED
      BY <2>8, <2>10, <3>1, <3>2, <3>3 DEF UpToDate
  <2>11. CASE /\ va \in Code /\ r.flushed
              /\ r.arena = Append(<<>>, o) /\ r.slot[k].code = 1
              /\ \A l \in (1..Ways) \ {k} : r.slot[l].code = None
    <3>1. r.arena = <<o>> /\ Len(r.arena) = 1 /\ r.arena[1] = o
      BY <2>11
    <3>2. Hits(r, va) # {} => First(Hits(r, va)) = k
      <4>1. Hits(r, va) \in SUBSET (1..Ways) /\ Hits(r, va) \subseteq {k}
        BY <2>11 DEF Hits
      <4>2. Hits(r, va) # {} => First(Hits(r, va)) \in Hits(r, va)
        BY <4>1, FirstIn
      <4>3. QED
        BY <4>1, <4>2
    <3>3. Climbs(r.arena)
      BY <2>8, <2>11, <3>1 DEF Climbs
    <3>4. QED
      BY <2>8, <2>11, <3>1, <3>2, <3>3 DEF UpToDate
  <2>12. QED
    BY <2>6, <2>9, <2>10, <2>11
<1>4. QED
  BY <1>2, <1>3

LEMMA AgedClimbs ==
  ASSUME NEW c, CacheOK(c), Climbs(c.arena)
  PROVE  Climbs(Aged(c).arena)
<1> DEFINE a == c.arena
           d == [i \in DOMAIN a |-> [a[i] EXCEPT !.old = @ \/ remapped']]
           e == [c EXCEPT !.arena = d]
<1>1. c \in CacheType /\ a \in Seq(Blocks) /\ Len(a) \in Nat /\ DOMAIN a = 1..Len(a)
  BY DEF CacheOK, CacheType
<1>2. Aged(c) = e
  BY DEF Aged
<1>3. e.arena = d
  <2> HIDE DEF d
  <2>1. QED
    BY <1>1, ArenaSet
<1>4. ASSUME NEW i \in 1..Len(a) PROVE d[i].again = a[i].again
  <2>1. a[i] \in Blocks
    BY <1>1
  <2>2. d[i] = [a[i] EXCEPT !.old = @ \/ remapped']
    BY <1>1
  <2>3. QED
    BY <2>1, <2>2 DEF Blocks
<1>5. DOMAIN d = 1..Len(a) /\ Len(d) = Len(a)
  BY <1>1
<1> HIDE DEF d, e
<1>6. Climbs(d)
  BY <1>4, <1>5 DEF Climbs
<1>7. QED
  BY <1>2, <1>3, <1>6

LEMMA PreparedClimbs ==
  ASSUME IInv, Climbs(arena)
  PROVE  /\ Climbs(Prepared.arena)
         /\ ~remapped => Prepared = Cache
<1>1. Cache \in CacheType
  BY DEF IInv, CacheOK
<1>2. CASE ~remapped
  BY <1>2, CacheFields DEF Prepared
<1>3. CASE remapped
  <2> DEFINE f == Flush(Cache)
  <2>1. f.arena = <<>> /\ f \in CacheType
    BY <1>1, FlushOk DEF CacheOK
  <2>2. Prepared = [f EXCEPT !.flushed = FALSE]
    BY <1>3 DEF Prepared
  <2> HIDE DEF f
  <2>3. Prepared.arena = <<>>
    BY <2>1, <2>2 DEF CacheType
  <2>4. QED
    BY <1>3, <2>3 DEF Climbs
<1>4. QED
  BY <1>2, <1>3

\* What the loop's look-up at pc gives.
LEMMA LoopFinds ==
  ASSUME Progress
  PROVE  LET f == Found(Prepared, pc, FALSE)
         IN /\ CacheOK(f.cache) /\ Climbs(f.cache.arena)
            /\ Entry(f) # None =>
                 /\ Entry(f) \in 1..Len(f.cache.arena)
                 /\ ~remapped /\ UpToDate(Cache, pc) => Fresh(f.cache.arena[Entry(f)])
<1> DEFINE f == Found(Prepared, pc, FALSE)
<1>1. IInv /\ Climbs(arena) /\ mem \in [Code -> Words] /\ pc \in Addresses /\ FALSE \in BOOLEAN
  BY DEF Progress, IInv, TypeOK
<1>2. CacheOK(Prepared) /\ Climbs(Prepared.arena) /\ (~remapped => Prepared = Cache)
  BY <1>1, PreparedOk, PreparedClimbs
<1>3. /\ CacheOK(f.cache)
      /\ Entry(f) # None => Entry(f) \in 1..Len(f.cache.arena)
  BY <1>1, LoopFound
<1>4. /\ Climbs(f.cache.arena)
      /\ Entry(f) # None /\ Hits(Prepared, pc) = {} => Fresh(f.cache.arena[Entry(f)])
  BY <1>1, <1>2, FoundShape
<1>5. ASSUME Hits(Prepared, pc) # {}, ~remapped, UpToDate(Cache, pc)
      PROVE  Fresh(f.cache.arena[Entry(f)])
  <2>1. Prepared = Cache
    BY <1>2, <1>5
  <2>2. f = [cache |-> Cache, way |-> First(Hits(Cache, pc))]
    BY <1>5, <2>1 DEF Found
  <2> HIDE DEF f
  <2>3. f.cache = Cache /\ Entry(f) = Cache.slot[First(Hits(Cache, pc))].code
    BY <2>2 DEF Entry
  <2>4. Fresh(f.cache.arena[Entry(f)])
    BY <1>5, <2>1, <2>3 DEF UpToDate
  <2>5. QED
    BY <2>4 DEF f
<1>6. QED
  BY <1>3, <1>4, <1>5

-----------------------------------------------------------------------------
LEMMA LoopStepsProgress ==
  ASSUME Progress, LoopSteps, IInv' PROVE Climbs(arena)' /\ IdleOK'
<1> DEFINE f == Found(Prepared, pc, FALSE)
<1>1. CacheOK(f.cache) /\ Climbs(f.cache.arena)
  BY LoopFinds
<1>2. Becomes(Aged(f.cache)) /\ mode = "loop" /\ mode' = mode /\ ~short' /\ idle' = 0
  BY DEF LoopSteps, ReferenceStep
<1> HIDE DEF f
<1>3. Climbs(arena')
  BY <1>1, <1>2, AgedClimbs DEF Becomes
<1>4. IdleOK'
  BY <1>2, Constants DEF IdleOK
<1>5. QED
  BY <1>3, <1>4 DEF Climbs

LEMMA LoopInterruptedProgress ==
  ASSUME Progress, LoopInterrupted, IInv' PROVE Climbs(arena)' /\ IdleOK'
<1> DEFINE f == Found(Prepared, pc, FALSE)
<1>1. Climbs(f.cache.arena)
  BY LoopFinds
<1>2. Becomes(f.cache) /\ mode = "loop" /\ mode' = mode /\ idle' = 0
  BY DEF LoopInterrupted
<1> HIDE DEF f
<1>3. Climbs(arena')
  BY <1>1, <1>2 DEF Becomes
<1>4. IdleOK'
  BY <1>2, Constants DEF IdleOK
<1>5. QED
  BY <1>3, <1>4 DEF Climbs

LEMMA LoopEntersProgress ==
  ASSUME Progress, LoopEnters, IInv' PROVE Climbs(arena)' /\ IdleOK'
<1> DEFINE f == Found(Prepared, pc, FALSE)
<1>1. /\ Climbs(f.cache.arena)
      /\ Entry(f) # None =>
           /\ Entry(f) \in 1..Len(f.cache.arena)
           /\ ~remapped /\ UpToDate(Cache, pc) => Fresh(f.cache.arena[Entry(f)])
  BY LoopFinds
<1>2. /\ Becomes(f.cache) /\ Entry(f) # None /\ at' = Entry(f)
      /\ mode = "loop" /\ mode' = "native" /\ ~short /\ idle' = idle + 1
      /\ UNCHANGED <<mem, pc, short>>
  BY DEF LoopEnters
<1> HIDE DEF f
<1>3. Climbs(arena') /\ at' \in Nat /\ 1 <= at'
  BY <1>1, <1>2 DEF Becomes
<1>4. idle \in Nat /\ at' <= ArenaBlocks
  BY DEF Progress, IInv, TypeOK
<1>5. CASE idle <= 1
  <2>1. idle' <= 1 + at' /\ idle' <= ArenaBlocks + 5
    BY <1>2, <1>3, <1>4, <1>5, Constants
  <2>2. QED
    BY <1>2, <1>3, <2>1 DEF IdleOK, Climbs
<1>6. CASE idle <= ArenaBlocks + 3 /\ ~remapped /\ UpToDate(Cache, pc)
  <2>1. Fresh(arena'[at'])
    BY <1>1, <1>2, <1>6 DEF Becomes
  <2>2. GuardHolds'
    BY <1>2, <2>1 DEF GuardHolds, Block, Fresh
  <2>3. idle' <= ArenaBlocks + 4 /\ idle' <= ArenaBlocks + 5
    BY <1>2, <1>4, <1>6, Constants
  <2>4. QED
    BY <1>2, <1>3, <2>2, <2>3 DEF IdleOK, Climbs
<1>7. QED
  BY <1>2, <1>5, <1>6 DEF Progress, IdleOK

-----------------------------------------------------------------------------
\* A failed guard leads up the arena, or out to have the block recompiled.
LEMMA NativeStaleProgress ==
  ASSUME Progress, NativeStale, IInv' PROVE Climbs(arena)' /\ IdleOK'
<1>1. /\ mode = "native" /\ ~GuardHolds /\ Through("again") /\ idle' = idle + 1
      /\ UNCHANGED <<short, arena>>
  BY DEF NativeStale
<1>2. /\ idle \in Nat /\ at \in 1..Len(arena) /\ Climbs(arena)
      /\ Len(arena) \in Nat /\ Len(arena) <= ArenaBlocks
      /\ at' \in 0..ArenaBlocks
  BY <1>1 DEF Progress, IInv, TypeOK, PlacesOK
<1>3. idle <= 1 + at /\ ~short
  BY <1>1 DEF Progress, IdleOK
<1>4. Climbs(arena)'
  BY <1>1, <1>2 DEF Climbs
<1>5. CASE Block["again"] # None
  <2>1. at' = Block["again"] /\ UNCHANGED <<mode, link, stale>>
    BY <1>1, <1>5 DEF Through
  <2>2. at' > at
    BY <1>2, <1>5, <2>1 DEF Climbs, Block
  <2>3. /\ at \in Nat /\ at' \in Nat /\ ArenaBlocks \in Nat
        /\ at <= ArenaBlocks /\ at' <= ArenaBlocks
    BY <1>2, Constants
  <2>4. idle' = idle + 1 /\ idle \in Nat /\ idle <= 1 + at /\ at' > at
    BY <1>1, <1>2, <1>3, <2>2
  <2>5. \A i, m, n, b \in Nat : i <= 1 + m /\ n > m /\ m <= b =>
                                  i + 1 <= 1 + n /\ i + 1 <= b + 5
    OBVIOUS
  <2>6. idle' <= 1 + at' /\ idle' <= ArenaBlocks + 5
    BY <2>3, <2>4, <2>5
  <2>7. QED
    BY <1>1, <1>3, <1>4, <2>1, <2>6 DEF IdleOK
<1>6. CASE Block["again"] = None
  <2>1. mode' = "link" /\ link' = [block |-> at, exit |-> "again"] /\ stale' = TRUE
    BY <1>1, <1>6 DEF Through
  <2>2. idle' <= ArenaBlocks + 2 /\ idle' <= ArenaBlocks + 5
    BY <1>1, <1>2, <1>3, Constants
  <2>3. stale' /\ link'.exit = "again"
    BY <2>1
  <2>4. QED
    BY <1>1, <1>3, <1>4, <2>1, <2>2, <2>3 DEF IdleOK
<1>7. QED
  BY <1>5, <1>6

LEMMA NativeShortProgress ==
  ASSUME Progress, NativeShort, IInv' PROVE Climbs(arena)' /\ IdleOK'
<1>1. /\ mode = "native" /\ mode' = "loop" /\ short' = TRUE /\ idle' = idle + 1
      /\ UNCHANGED arena
  BY DEF NativeShort, Leave
<1>2. idle \in Nat /\ at \in 0..ArenaBlocks /\ Climbs(arena)
  BY DEF Progress, IInv, TypeOK
<1>3. idle <= 1 + at \/ idle <= ArenaBlocks + 4
  BY <1>1 DEF Progress, IdleOK
<1>4. idle' <= ArenaBlocks + 5
  BY <1>1, <1>2, <1>3, Constants
<1>5. QED
  BY <1>1, <1>2, <1>4 DEF IdleOK, Climbs

\* An instruction that ran ends the count, wherever it leads.
LEMMA RanProgress ==
  ASSUME Progress, mode = "native", idle' = 0, IInv', Climbs(arena'),
         UNCHANGED short,
         mode' = "link" => ~stale' /\ link'.exit = "next"
  PROVE  Climbs(arena)' /\ IdleOK'
<1>1. ~short'
  BY DEF Progress, IdleOK
<1>2. idle' <= 1 + at'
  <2>1. at' \in 0..ArenaBlocks
    BY DEF IInv, TypeOK
  <2>2. at' \in Nat
    BY <2>1, Constants
  <2>3. \A n \in Nat : 0 <= 1 + n
    OBVIOUS
  <2>4. QED
    BY <2>2, <2>3
<1>3. idle' <= 1 /\ idle' <= ArenaBlocks + 2 /\ idle' <= ArenaBlocks + 5
  BY Constants
<1>4. IdleOK'
  BY <1>1, <1>2, <1>3 DEF IdleOK
<1>5. QED
  BY <1>4 DEF Climbs

LEMMA NativeJumpsProgress ==
  ASSUME Progress, NativeJumps, IInv' PROVE Climbs(arena)' /\ IdleOK'
<1>1. /\ mode = "native" /\ Through("next") /\ idle' = 0 /\ UNCHANGED <<short, arena>>
  BY DEF NativeJumps
<1>2. Climbs(arena')
  BY <1>1 DEF Progress
<1>3. mode' = "link" => ~stale' /\ link'.exit = "next"
  <2>1. CASE Block["next"] # None
    BY <1>1, <2>1 DEF Through
  <2>2. CASE Block["next"] = None
    <3>1. link' = [block |-> at, exit |-> "next"] /\ stale' = FALSE
      BY <1>1, <2>2 DEF Through
    <3>2. QED
      BY <3>1
  <2>3. QED
    BY <2>1, <2>2
<1>4. QED
  BY <1>1, <1>2, <1>3, RanProgress

LEMMA NativeLooksUpProgress ==
  ASSUME Progress, NativeLooksUp, IInv' PROVE Climbs(arena)' /\ IdleOK'
<1>1. /\ mode = "native" /\ idle' = 0 /\ UNCHANGED <<short, arena>>
      /\ mode' \in {"loop", "native"}
  BY DEF NativeLooksUp, Leave
<1>2. Climbs(arena')
  BY <1>1 DEF Progress
<1>3. QED
  BY <1>1, <1>2, RanProgress

LEMMA NativeHelperProgress ==
  ASSUME Progress, NativeHelper, IInv' PROVE Climbs(arena)' /\ IdleOK'
<1>1. /\ mode = "native" /\ idle' = 0 /\ UNCHANGED short /\ mode' = "loop"
      /\ Becomes(Aged(Cache))
  BY DEF NativeHelper, Leave
<1>2. CacheOK(Cache) /\ Climbs(Cache.arena)
  BY CacheFields DEF Progress, IInv
<1>3. Climbs(arena')
  BY <1>1, <1>2, AgedClimbs DEF Becomes
<1>4. QED
  BY <1>1, <1>3, RanProgress

-----------------------------------------------------------------------------
\* Redirecting a site leaves every word and table entry as it is, and a stale
\* site leads to a block behind it.
LEMMA RedirectShape ==
  ASSUME NEW c, CacheOK(c), NEW site \in [block : 0..ArenaBlocks, exit : {"next", "again"}],
         site.block \in 1..Len(c.arena), NEW entry \in 1..Len(c.arena),
         site.exit = "again" => entry > site.block
  PROVE  LET r == Redirect(c, site, entry)
         IN /\ Climbs(c.arena) => Climbs(r.arena)
            /\ r.slot = c.slot
            /\ \A j \in 1..Len(c.arena) :
                 r.arena[j].word = c.arena[j].word /\ r.arena[j].va = c.arena[j].va
<1> DEFINE a == c.arena  i == site.block
           b == IF site.exit = "next" THEN [a[i] EXCEPT !.next = entry]
                                      ELSE [a[i] EXCEPT !.again = entry]
           d == [a EXCEPT ![i] = b]
           r == Redirect(c, site, entry)  e == [c EXCEPT !.arena = d]
<1>1. c \in CacheType /\ a \in Seq(Blocks) /\ Len(a) \in Nat
  BY DEF CacheOK, CacheType
<1>2. r = e
  BY DEF Redirect
<1>3. e.arena = d /\ e.slot = c.slot
  <2> HIDE DEF d
  <2>1. QED
    BY <1>1, ArenaSet
<1> HIDE DEF e, r
<1>4. a[i] \in Blocks
  BY <1>1
<1>5. /\ b.word = a[i].word /\ b.va = a[i].va
      /\ b.again = IF site.exit = "next" THEN a[i].again ELSE entry
  BY <1>4 DEF Blocks
<1> HIDE DEF b
<1>6. /\ Len(d) = Len(a) /\ d[i] = b /\ \A j \in (1..Len(a)) \ {i} : d[j] = a[j]
  BY <1>1
<1> HIDE DEF d
<1>7. \A j \in 1..Len(a) : d[j].word = a[j].word /\ d[j].va = a[j].va
  BY <1>5, <1>6
<1>8. Climbs(a) => Climbs(d)
  BY <1>5, <1>6 DEF Climbs
<1>9. QED
  BY <1>2, <1>3, <1>7, <1>8 DEF r

LEMMA ResolveLinkProgress ==
  ASSUME Progress, ResolveLink, IInv' PROVE Climbs(arena)' /\ IdleOK'
<1> DEFINE f == Found(Cache, pc, stale)  g == f.cache  c == Resolved(f)
<1>1. /\ mode = "link" /\ Becomes(c) /\ mode' = "loop"
      /\ idle' = idle + 1 /\ UNCHANGED <<mem, pc, short, remapped>>
  BY DEF ResolveLink
<1>2. /\ CacheOK(Cache) /\ mem \in [Code -> Words] /\ pc \in Addresses /\ ~remapped
      /\ link \in [block : 0..ArenaBlocks, exit : {"next", "again"}]
      /\ link.block \in 1..Len(arena) /\ idle \in Nat /\ Climbs(arena)
  BY <1>1 DEF Progress, IInv, TypeOK, PlacesOK
<1>3. stale \in BOOLEAN
  BY Zenon DEF Progress, IInv, TypeOK
<1>4. ~short /\ (stale <=> link.exit = "again") /\ idle <= ArenaBlocks + 2 /\ (~stale => idle = 0)
  BY <1>1 DEF Progress, IdleOK
<1>5. /\ CacheOK(g)
      /\ Entry(f) # None => Entry(f) \in 1..Len(g.arena)
      /\ ~g.flushed => Extends(g.arena, arena)
  BY <1>2, <1>3, FoundOk, CacheFields
<1>6. /\ Climbs(g.arena)
      /\ Entry(f) # None /\ stale /\ ~g.flushed => Entry(f) = Len(arena) + 1
      /\ stale => UpToDate(g, pc)
  BY <1>2, <1>3, FoundShape, CacheFields
<1>7. Len(arena) \in Nat /\ Len(g.arena) \in Nat
  BY <1>5 DEF Progress, IInv, TypeOK, CacheOK, CacheType
<1> HIDE DEF f, g
<1>8. /\ Climbs(c.arena) /\ c.slot = g.slot
      /\ \A j \in 1..Len(g.arena) :
           c.arena[j].word = g.arena[j].word /\ c.arena[j].va = g.arena[j].va
  <2>1. CASE Entry(f) = None \/ g.flushed
    BY <1>6, <2>1 DEF Resolved, g
  <2>2. CASE ~(Entry(f) = None \/ g.flushed)
    <3> DEFINE entry == Entry(f)
    <3>1. c = Redirect(g, link, entry)
      BY <2>2 DEF Resolved, g
    <3>2. link.block \in 1..Len(g.arena) /\ entry \in 1..Len(g.arena)
      BY <1>2, <1>5, <1>7, <2>2 DEF Extends
    <3>3. link.exit = "again" => entry > link.block
      BY <1>2, <1>4, <1>6, <1>7, <2>2
    <3> HIDE DEF entry, c
    <3>4. QED
      BY <1>2, <1>5, <1>6, <3>1, <3>2, <3>3, RedirectShape
  <2>3. QED
    BY <2>1, <2>2
<1> HIDE DEF c
<1>9. Climbs(arena)'
  BY <1>1, <1>8 DEF Becomes, Climbs
<1>10. idle' <= 1 \/ (idle' <= ArenaBlocks + 3 /\ ~remapped' /\ UpToDate(Cache, pc)')
  <2>1. CASE ~stale
    BY <1>1, <1>4, <2>1
  <2>2. CASE stale
    <3>1. idle' <= ArenaBlocks + 3
      BY <1>1, <1>2, <1>4, Constants
    <3>2. Cache'.slot = g.slot /\ Hits(Cache', pc) = Hits(g, pc) /\ Cache'.arena = c.arena
      BY <1>1, <1>8, CacheFields DEF Hits, Becomes
    <3>3. ASSUME Hits(g, pc) # {}
          PROVE  Fresh(c.arena[g.slot[First(Hits(g, pc))].code])
      <4> DEFINE k == First(Hits(g, pc))
      <4>1. Hits(g, pc) \in SUBSET (1..Ways)
        BY DEF Hits
      <4>2. k \in Hits(g, pc)
        BY <3>3, <4>1, FirstIn
      <4> HIDE DEF k
      <4>3. k \in 1..Ways /\ g.slot[k].code # None
        BY <4>2 DEF Hits
      <4>4. g \in CacheType /\ SlotsOK(g.arena, g.slot)
        BY <1>5 DEF CacheOK
      <4>5. g.slot[k].code \in 0..ArenaBlocks
        BY <4>3, <4>4, Fields
      <4>6. g.slot[k].code \in 1..Len(g.arena)
        BY <1>7, <4>3, <4>4, <4>5, Constants DEF SlotsOK, None
      <4>7. Fresh(g.arena[g.slot[k].code])
        BY <1>6, <2>2, <3>3 DEF UpToDate, k
      <4>8. Fresh(c.arena[g.slot[k].code])
        BY <1>8, <4>6, <4>7 DEF Fresh
      <4>9. QED
        BY <4>8 DEF k
    <3>4. UpToDate(Cache, pc)'
      BY <1>1, <3>2, <3>3 DEF UpToDate, Hits, Fresh
    <3>5. QED
      BY <1>1, <1>2, <3>1, <3>4
  <2>3. QED
    BY <2>1, <2>2
<1>11. idle' <= ArenaBlocks + 5
  BY <1>1, <1>2, <1>4, Constants
<1>12. IdleOK'
  BY <1>1, <1>4, <1>10, <1>11 DEF IdleOK
<1>13. QED
  BY <1>9, <1>12

-----------------------------------------------------------------------------
LEMMA InitProgress == Init => Progress
<1> SUFFICES ASSUME Init PROVE Progress
  OBVIOUS
<1>1. IInv
  BY InitIInv
<1>2. Climbs(arena)
  BY DEF Init, Climbs
<1>3. IdleOK
  BY Constants DEF Init, IdleOK
<1>4. QED
  BY <1>1, <1>2, <1>3 DEF Progress

LEMMA NextProgress == Progress /\ [Next]_vars => Progress'
<1> SUFFICES ASSUME Progress, [Next]_vars PROVE Progress'
  OBVIOUS
<1>1. IInv'
  BY NextIInv DEF Progress
<1>2. CASE UNCHANGED vars
  <2>1. Climbs(arena)'
    BY <1>2 DEF Progress, Climbs, vars
  <2>2. UpToDate(Cache, pc)' <=> UpToDate(Cache, pc)
    BY <1>2 DEF UpToDate, Hits, Cache, Fresh, vars
  <2>3. GuardHolds' <=> GuardHolds
    BY <1>2 DEF GuardHolds, Block, vars
  <2>4. IdleOK'
    BY <1>2, <2>2, <2>3 DEF Progress, IdleOK, vars
  <2>5. QED
    BY <1>1, <2>1, <2>4 DEF Progress
<1>3. CASE Next
  <2>1. Climbs(arena)' /\ IdleOK'
    BY <1>1, <1>3, LoopStepsProgress, LoopInterruptedProgress, LoopEntersProgress,
       NativeStaleProgress, NativeShortProgress, NativeJumpsProgress,
       NativeLooksUpProgress, NativeHelperProgress, ResolveLinkProgress DEF Next
  <2>2. QED
    BY <1>1, <2>1 DEF Progress
<1>4. QED
  BY <1>2, <1>3

LEMMA AlwaysProgress == Spec => []Progress
BY InitProgress, NextProgress, PTL DEF Spec

\* The table, the arena and every redirected site stay well formed: no site
\* leads into discarded code, a stale block's site leads up the arena, and the
\* blocks they lead to are of the address they stand for, with the exception
\* of address 0 that GuestIsRun names.
THEOREM LinksLead == Spec => []LinksOK
<1>1. Progress => LinksOK
  <2> SUFFICES ASSUME Progress PROVE LinksOK
    OBVIOUS
  <2>1. TypeOK /\ ArenaOK(arena) /\ Climbs(arena)
    BY CacheFields DEF Progress, IInv, CacheOK
  <2>a. \A i \in 1..Len(arena) : arena[i] \in Blocks
    BY <2>1 DEF TypeOK
  <2>b. Len(arena) \in Nat
    BY <2>1 DEF TypeOK
  <2>c. \A i \in 1..Len(arena) : arena[i].next \in Nat /\ arena[i].again \in Nat
    BY <2>a, Constants DEF Blocks
  <2>2. ASSUME NEW i \in 1..Len(arena), arena[i].next # None
        PROVE  /\ arena[i].next <= Len(arena)
               /\ \/ arena[arena[i].next].va = arena[i].word.to
                  \/ arena[i].word.to = 0 /\ arena[i].next = 1
    <3>1. arena[i].next \in 1..Len(arena)
      BY <2>1, <2>2, <2>b, <2>c DEF ArenaOK, None
    <3>2. QED
      BY <2>1, <2>2, <3>1 DEF ArenaOK
  <2>3. ASSUME NEW i \in 1..Len(arena), arena[i].again # None
        PROVE  /\ arena[i].again \in (i + 1)..Len(arena)
               /\ \/ arena[arena[i].again].va = arena[i].va
                  \/ i = 1 /\ arena[arena[i].again].va = 0
    <3>1. arena[i].again \in (i + 1)..Len(arena)
      BY <2>1, <2>3, <2>b, <2>c DEF ArenaOK, Climbs
    <3>2. arena[arena[i].again].filed = arena[arena[i].again].va
      BY <2>1, <2>b, <3>1 DEF ArenaOK
    <3>3. QED
      BY <2>1, <2>3, <3>1, <3>2 DEF ArenaOK
  <2>4. QED
    BY <2>1, <2>2, <2>3 DEF LinksOK, LinksSound
<1>2. QED
  BY <1>1, AlwaysProgress, PTL

\* Between two instructions the engine looks up, compiles and links for a
\* bounded number of steps only: no stale block is entered for good, and no
\* chain of stale blocks closes on itself (the guard of mh_jit_emit and
\* mh_jit_resolve_link).
THEOREM GuestProceeds == Spec => []GuestGetsOn
<1>1. Progress => GuestGetsOn
  BY DEF Progress, IdleOK, GuestGetsOn
<1>2. QED
  BY <1>1, AlwaysProgress, PTL

=============================================================================
