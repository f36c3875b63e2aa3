-------------------------- MODULE Pic2000Run_proofs --------------------------
(***************************************************************************)
(* The run loop of the 68k communicators keeps time, whatever timers and   *)
(* conversions there are, however long a sound sample, a conversion and a  *)
(* call of the loop take, and whatever the guest enables.                  *)
(***************************************************************************)
EXTENDS Pic2000Run, TLAPS

\* The parts of the inductive invariant that are about dev21 alone: a sound
\* sample is always coming; the level is that of the registers; no timer or
\* conversion is overdue.
Sounding(d) == "audio" \in d.armed /\ d.at["audio"] \in 1..AudioPeriod
SoundDue(d) == "audio" \in d.armed /\ d.at["audio"] \in 0..AudioPeriod
Fresh(d) == ~d.dirty => d.irq = Level(d)
Settled(d) == \A e \in d.armed \cap Signals : d.at[e] > 0

-----------------------------------------------------------------------------
LEMMA Kinds ==
  /\ "audio" \in Events /\ "boot" \in Events
  /\ "audio" \notin Signals /\ "boot" \notin Signals
  /\ Signals \subseteq Events /\ Signals \subseteq Sources /\ Edges \subseteq Sources
  /\ Timers \cap Conversions = {}
  /\ AudioPeriod \in Nat /\ AudioPeriod > 0
BY RunAssumption DEF Events, Signals, Sources

LEMMA LevelType == \A d : Level(d) \in {0, 5, 6}
BY DEF Level

LEMMA LinedOk ==
  ASSUME NEW d \in DevType, Fresh(d)
  PROVE  /\ Lined(d) \in DevType /\ Fresh(Lined(d))
         /\ Lined(d).armed = d.armed /\ Lined(d).at = d.at
BY LevelType DEF Lined, Fresh, Level, DevType

LEMMA RaisedOk ==
  ASSUME NEW d \in DevType, NEW s \in SUBSET Sources
  PROVE  /\ Raised(d, s) \in DevType /\ Fresh(Raised(d, s))
         /\ Raised(d, s).armed = d.armed /\ Raised(d, s).at = d.at
BY DEF Raised, Fresh, DevType

LEMMA ArmedOk ==
  ASSUME NEW d \in DevType, NEW e \in Events, NEW n \in Int
  PROVE  /\ Armed(d, e, n) \in DevType /\ (Fresh(d) => Fresh(Armed(d, e, n)))
         /\ Armed(d, e, n).armed = d.armed \cup {e}
         /\ Armed(d, e, n).at[e] = n
         /\ \A f \in Events \ {e} : Armed(d, e, n).at[f] = d.at[f]
BY DEF Armed, Fresh, Level, DevType

LEMMA PassedOk ==
  ASSUME NEW d \in DevType, NEW n \in Nat
  PROVE  /\ Passed(d, n) \in DevType /\ (Fresh(d) => Fresh(Passed(d, n)))
         /\ Passed(d, n).armed = d.armed
         /\ \A e \in d.armed :
              Passed(d, n).at[e] =
                IF d.at[e] - n < -AudioPeriod THEN -AudioPeriod ELSE d.at[e] - n
         /\ Passed(d, n).dirty = d.dirty
<1> DEFINE at == [e \in Events |-> IF e \notin d.armed THEN 0
                   ELSE IF d.at[e] - n < -AudioPeriod THEN -AudioPeriod ELSE d.at[e] - n]
<1>1. at \in [Events -> Int]
  BY Kinds DEF DevType
<1>2. \A e \in d.armed : e \in Events
  BY DEF DevType
<1>3. Passed(d, n) = [d EXCEPT !.at = at]
  BY DEF Passed
<1>4. QED
  BY <1>1, <1>2, <1>3 DEF Fresh, Level, DevType

LEMMA SampledOk ==
  ASSUME NEW d \in DevType, SoundDue(d)
  PROVE  /\ Sampled(d) \in DevType /\ (Fresh(d) => Fresh(Sampled(d)))
         /\ Sounding(Sampled(d)) /\ Sampled(d).armed = d.armed
         /\ \A e \in Events \ {"audio"} : Sampled(d).at[e] = d.at[e]
         /\ d.at["audio"] > 0 => Sampled(d) = d
BY Kinds DEF Sampled, SoundDue, Sounding, Fresh, Level, DevType

LEMMA FiredOk ==
  ASSUME NEW d \in DevType
  PROVE  /\ Fired(d) \in DevType /\ (Fresh(d) => Fresh(Fired(d)))
         /\ Settled(Fired(d))
         /\ Fired(d).armed \subseteq d.armed
         /\ "audio" \in d.armed => "audio" \in Fired(d).armed
         /\ Fired(d).at["audio"] = d.at["audio"]
<1> DEFINE due == {e \in d.armed \cap Signals : d.at[e] <= 0}
           c == [d EXCEPT !.armed = d.armed \ due,
                          !.at = [e \in Events |-> IF e \in due THEN 0 ELSE d.at[e]]]
<1>1. CASE due = {}
  <2>1. Fired(d) = d
    BY <1>1 DEF Fired
  <2>2. \A e \in d.armed \cap Signals : d.at[e] > 0
    BY <1>1, Kinds DEF DevType
  <2>3. QED
    BY <2>1, <2>2 DEF Settled
<1>2. CASE due # {}
  <2>1. Fired(d) = Raised(c, due)
    BY <1>2 DEF Fired
  <2>2. due \in SUBSET Sources /\ "audio" \notin due
    BY Kinds
  <2>3. [e \in Events |-> IF e \in due THEN 0 ELSE d.at[e]] \in [Events -> Int]
    BY DEF DevType
  <2>4. /\ c \in DevType /\ c.armed = d.armed \ due
        /\ \A e \in Events : c.at[e] = IF e \in due THEN 0 ELSE d.at[e]
    <3> HIDE DEF due
    <3>1. d.armed \ due \in SUBSET Events
      BY DEF DevType
    <3>2. QED
      BY <2>3, <3>1 DEF DevType
  <2>5. \A e \in c.armed \cap Signals : c.at[e] > 0
    <3>1. \A e \in d.armed \cap Signals : e \notin due => e \in Events /\ d.at[e] \in Int /\ d.at[e] > 0
      BY Kinds DEF DevType
    <3> HIDE DEF due
    <3>2. QED
      BY <2>4, <3>1
  <2> HIDE DEF c
  <2>6. /\ Raised(c, due) \in DevType /\ Fresh(Raised(c, due))
        /\ Raised(c, due).armed = c.armed /\ Raised(c, due).at = c.at
    BY <2>2, <2>4, RaisedOk
  <2>7. Settled(Raised(c, due))
    BY <2>5, <2>6 DEF Settled
  <2> HIDE DEF due
  <2>8. QED
    BY <2>1, <2>2, <2>4, <2>6, <2>7, Kinds
<1>3. QED
  BY <1>1, <1>2

\* What post_slot leaves.
LEMMA PostSlotOk ==
  ASSUME NEW d \in DevType, SoundDue(d), Fresh(d)
  PROVE  /\ PostSlot(d) \in DevType /\ Fresh(PostSlot(d))
         /\ Sounding(PostSlot(d)) /\ Settled(PostSlot(d))
<1> DEFINE f == Fired(d)
           s == Sampled(f)
<1>1. /\ f \in DevType /\ Fresh(f) /\ Settled(f) /\ SoundDue(f)
  BY FiredOk DEF SoundDue
<1> HIDE DEF f
<1>2. /\ s \in DevType /\ Fresh(s) /\ Sounding(s) /\ s.armed = f.armed
      /\ \A e \in Events \ {"audio"} : s.at[e] = f.at[e]
  BY <1>1, SampledOk
<1>3. Settled(s)
  BY <1>1, <1>2, Kinds DEF Settled
<1> HIDE DEF s
<1>4. /\ Lined(s) \in DevType /\ Fresh(Lined(s))
      /\ Lined(s).armed = s.armed /\ Lined(s).at = s.at
  BY <1>2, LinedOk
<1>5. Sounding(Lined(s)) /\ Settled(Lined(s))
  BY <1>2, <1>3, <1>4 DEF Sounding, Settled
<1>6. PostSlot(d) = Lined(s)
  BY DEF PostSlot, s, f
<1>7. QED
  BY <1>4, <1>5, <1>6

LEMMA SlotPasses ==
  ASSUME NEW d \in DevType, Sounding(d), Fresh(d)
  PROVE  /\ Passed(d, 1) \in DevType /\ SoundDue(Passed(d, 1)) /\ Fresh(Passed(d, 1))
         /\ Passed(d, 1).armed = d.armed /\ Passed(d, 1).dirty = d.dirty
<1>1. d.at["audio"] \in 1..AudioPeriod /\ d.at["audio"] - 1 \in 0..AudioPeriod
  BY Kinds DEF Sounding
<1>2. \A e \in d.armed :
        Passed(d, 1).at[e] = IF d.at[e] - 1 < -AudioPeriod THEN -AudioPeriod ELSE d.at[e] - 1
  BY PassedOk, 1 \in Nat
<1>3. Passed(d, 1).at["audio"] = d.at["audio"] - 1
  BY <1>1, <1>2, Kinds DEF Sounding
<1>4. /\ Passed(d, 1) \in DevType /\ Fresh(Passed(d, 1))
      /\ Passed(d, 1).armed = d.armed /\ Passed(d, 1).dirty = d.dirty
  BY PassedOk, 1 \in Nat
<1>5. QED
  BY <1>1, <1>3, <1>4 DEF Sounding, SoundDue

\* A slot that MayGoQuietly leaves nothing due.
Ready(d) == \A e \in d.armed : IF e = "boot" THEN d.at[e] > 0 ELSE d.at[e] > 1

LEMMA QuietSlotPasses ==
  ASSUME NEW d \in DevType, Sounding(d), Ready(d)
  PROVE  Sounding(Passed(d, 1)) /\ Settled(Passed(d, 1))
<1>1. \A e \in d.armed \ {"boot"} : d.at[e] \in Int /\ d.at[e] > 1
  BY DEF Ready, DevType
<1>2. \A e \in d.armed \ {"boot"} : Passed(d, 1).at[e] = d.at[e] - 1
  <2>1. \A e \in d.armed :
          Passed(d, 1).at[e] = IF d.at[e] - 1 < -AudioPeriod THEN -AudioPeriod ELSE d.at[e] - 1
    BY PassedOk, 1 \in Nat
  <2>2. QED
    BY <1>1, <2>1, Kinds
<1> DEFINE p == Passed(d, 1)
<1>a. p.armed = d.armed
  BY PassedOk, 1 \in Nat
<1> HIDE DEF p
<1>3. Settled(p)
  <2>1. \A e \in d.armed \cap Signals : e \in d.armed \ {"boot"}
    BY Kinds
  <2>2. \A e \in d.armed \cap Signals : p.at[e] = d.at[e] - 1
    BY <1>2, <2>1 DEF p
  <2>3. QED
    BY <1>1, <1>a, <2>1, <2>2 DEF Settled
<1>4. d.at["audio"] \in 1..AudioPeriod /\ d.at["audio"] > 1
  BY Kinds DEF Sounding, Ready
<1>5. p.at["audio"] \in 1..AudioPeriod
  BY <1>2, <1>4, Kinds DEF Sounding, p
<1>6. QED
  BY <1>3, <1>5, <1>a DEF Sounding, p

LEMMA ClearedType ==
  ASSUME NEW S, NEW f \in [S -> Int], NEW x
  PROVE  [f EXCEPT ![x] = 0] \in [S -> Int]
<1>1. [f EXCEPT ![x] = 0] = [y \in S |-> IF y = x THEN 0 ELSE f[y]]
  OBVIOUS
<1>2. \A y \in S : (IF y = x THEN 0 ELSE f[y]) \in Int
  OBVIOUS
<1>3. QED
  BY <1>1, <1>2, Zenon

LEMMA ArmedSound ==
  ASSUME NEW d \in DevType, SoundDue(d), Fresh(d),
         NEW e \in Events \ {"audio"}, NEW n \in Int
  PROVE  Armed(d, e, n) \in DevType /\ SoundDue(Armed(d, e, n)) /\ Fresh(Armed(d, e, n))
<1>1. "audio" \in Events \ {e}
  BY Kinds
<1>2. Armed(d, e, n).at["audio"] = d.at["audio"]
  BY <1>1, ArmedOk
<1>3. QED
  BY <1>2, ArmedOk DEF SoundDue

LEMMA AccessesOk ==
  ASSUME NEW d \in DevType, SoundDue(d), Fresh(d), NEW a \in Accesses(d)
  PROVE  a \in DevType /\ SoundDue(a) /\ Fresh(a)
<1>0. /\ "timer" \in Timers => "timer" \in Events \ {"audio"}
      /\ "pen" \in Timers => "pen" \in Events \ {"audio"}
      /\ Conversions \subseteq Events \ {"audio"}
      /\ Delays \subseteq Int /\ ConversionSlots \in Int
      /\ Enables \subseteq SUBSET Sources
  BY RunAssumption DEF Events, Signals
<1>1. CASE "timer" \in Timers /\ \E n \in Delays :
             a = [Armed(d, "timer", n) EXCEPT !.pending = @ \ {"timer"}, !.dirty = TRUE]
  <2>1. PICK n \in Delays :
             a = [Armed(d, "timer", n) EXCEPT !.pending = @ \ {"timer"}, !.dirty = TRUE]
    BY <1>1
  <2> DEFINE c == Armed(d, "timer", n)
  <2>2. c \in DevType /\ SoundDue(c)
    <3>1. "timer" \in Events \ {"audio"} /\ n \in Int
      BY <1>0, <1>1
    <3>2. QED
      BY <3>1, ArmedSound
  <2> HIDE DEF c
  <2>3. a = [c EXCEPT !.pending = c.pending \ {"timer"}, !.dirty = TRUE]
    BY <2>1 DEF c
  <2>4. a \in DevType /\ a.armed = c.armed /\ a.at = c.at /\ a.dirty
    BY <2>2, <2>3 DEF DevType
  <2>5. QED
    BY <2>2, <2>4 DEF SoundDue, Fresh
<1>2. CASE "pen" \in Timers /\ \E n \in Delays : a = Armed(d, "pen", n)
  <2>1. PICK n \in Delays : a = Armed(d, "pen", n)
    BY <1>2
  <2>2. QED
    <3>1. "pen" \in Events \ {"audio"} /\ n \in Int
      BY <1>0, <1>2
    <3>2. QED
      BY <2>1, <3>1, ArmedSound
<1>3. CASE a = [d EXCEPT !.armed = @ \ {"pen"}, !.at["pen"] = 0]
  <2>0. d \in DevType /\ d.at \in [Events -> Int] /\ d.armed \ {"pen"} \in SUBSET Events
    BY DEF DevType
  <2>1. /\ a = [d EXCEPT !.armed = d.armed \ {"pen"}, !.at = [d.at EXCEPT !["pen"] = 0]]
        /\ d.armed \ {"pen"} \in SUBSET Events
        /\ [d.at EXCEPT !["pen"] = 0] \in [Events -> Int]
    <3>1. a = [d EXCEPT !.armed = d.armed \ {"pen"}, !.at = [d.at EXCEPT !["pen"] = 0]]
      BY <1>3, Zenon
    <3>2. [d.at EXCEPT !["pen"] = 0] \in [Events -> Int]
      BY <2>0, ClearedType
    <3>3. QED
      BY <2>0, <3>1, <3>2
  <2>2. [d.at EXCEPT !["pen"] = 0]["audio"] = d.at["audio"]
    BY Kinds DEF DevType
  <2>3. /\ a \in DevType /\ a.armed = d.armed \ {"pen"} /\ a.at["audio"] = d.at["audio"]
        /\ a.pending = d.pending /\ a.enabled = d.enabled /\ a.irq = d.irq /\ a.dirty = d.dirty
    BY <2>1, <2>2 DEF DevType
  <2>4. QED
    BY <2>3 DEF SoundDue, Fresh, Level
<1>4. CASE \E c \in Conversions : a = Armed(d, c, ConversionSlots)
  <2>1. PICK c \in Conversions : a = Armed(d, c, ConversionSlots)
    BY <1>4
  <2>2. QED
    BY <1>0, <2>1, ArmedSound
<1>5. CASE \E s \in d.pending : a = [d EXCEPT !.pending = @ \ {s}, !.dirty = TRUE]
  <2>1. PICK s \in d.pending : a = [d EXCEPT !.pending = d.pending \ {s}, !.dirty = TRUE]
    BY <1>5
  <2>2. d.pending \ {s} \in SUBSET Sources
    BY DEF DevType
  <2>3. a \in DevType /\ a.dirty /\ a.armed = d.armed /\ a.at = d.at
    BY <2>1, <2>2 DEF DevType
  <2>4. QED
    BY <2>3 DEF SoundDue, Fresh
<1>6. CASE \E s \in Enables : a = [d EXCEPT !.enabled = s, !.dirty = TRUE]
  <2>1. PICK s \in Enables : a = [d EXCEPT !.enabled = s, !.dirty = TRUE]
    BY <1>6
  <2>2. a \in DevType /\ a.dirty /\ a.armed = d.armed /\ a.at = d.at
    BY <1>0, <2>1 DEF DevType
  <2>3. QED
    BY <2>2 DEF SoundDue, Fresh
<1>7. CASE a = d
  BY <1>7
<1>8. QED
  BY <1>1, <1>2, <1>3, <1>4, <1>5, <1>6, <1>7 DEF Accesses

\* An instruction leaves nothing overdue if the loop looks at the devices
\* after it, and if nothing can have come due.
LEMMA InstructionOk ==
  ASSUME NEW looks \in BOOLEAN, dev \in DevType, Sounding(dev), Fresh(dev),
         mask \in Masks \cup {5, 6}, stopped \in BOOLEAN, powerOff = FALSE,
         stopped = FALSE, looks \/ Ready(dev), Instruction(looks)
  PROVE  /\ dev' \in DevType /\ Sounding(dev') /\ Fresh(dev') /\ Settled(dev')
         /\ mask' \in Masks \cup {5, 6} /\ stopped' \in BOOLEAN
         /\ powerOff' \in BOOLEAN /\ (stopped' => ~powerOff')
<1> DEFINE d == Passed(dev, 1)
           after == IF looks \/ dev.dirty THEN PostSlot(d) ELSE d
           Good(x) == x \in DevType /\ Sounding(x) /\ Fresh(x) /\ Settled(x)
<1>1. d \in DevType /\ SoundDue(d) /\ Fresh(d)
  BY SlotPasses
<1>2. ~looks => Sounding(d) /\ Settled(d)
  BY QuietSlotPasses
<1>3. \A a \in Accesses(d) : Good(PostSlot(a))
  BY <1>1, AccessesOk, PostSlotOk
<1>4. Good(PostSlot(d))
  BY <1>1, PostSlotOk
<1>5. Good(after)
  BY <1>1, <1>2, <1>4
<1>6. \/ dev' = after /\ UNCHANGED <<mask, stopped, powerOff>>
      \/ mask' \in Masks /\ stopped' \in BOOLEAN /\ dev' = after /\ UNCHANGED powerOff
      \/ (\E a \in Accesses(d) : dev' = PostSlot(a)) /\ UNCHANGED <<mask, stopped, powerOff>>
      \/ powerOff' = TRUE /\ dev' = PostSlot(d) /\ UNCHANGED <<mask, stopped>>
  BY DEF Instruction
<1> HIDE DEF d, after
<1>7. Good(dev')
  BY <1>3, <1>4, <1>5, <1>6
<1>8. /\ mask' \in Masks \cup {5, 6} /\ stopped' \in BOOLEAN
      /\ powerOff' \in BOOLEAN /\ (stopped' => ~powerOff')
  BY <1>6
<1>9. QED
  BY <1>7, <1>8

-----------------------------------------------------------------------------
\* The inductive invariant.  A call that goes on has slots left; the quiet
\* loop and the block engine have nothing due in the slot they are in; what an
\* interrupt has waited in a stretch is behind the sample that ends it; and a
\* processor that sleeps does so on a device that is on, with no timer overdue
\* and no conversion overdue for longer than the last sample.
OnTimeAsleep(d) ==
  /\ \A e \in d.armed \cap Timers : d.at[e] > 0
  /\ \A c \in d.armed \cap Conversions : d.at[c] > d.at["audio"] - AudioPeriod

IInv ==
  /\ TypeOK
  /\ Sounding(dev) /\ Fresh(dev)
  /\ phase # "host" => left > 0
  /\ phase \in {"quiet", "stretch"} => ~stopped /\ ~powerOff /\ Ready(dev)
  /\ waited < AudioPeriod
  /\ phase = "stretch" => waited + dev.at["audio"] <= AudioPeriod
  /\ stopped => ~powerOff /\ OnTimeAsleep(dev)

\* What TimersOnTime and ConversionsBounded say of a step.
TimersStep ==
  left' < left /\ ~powerOff' =>
    \A e \in dev'.armed \cap (Timers \cup {"audio"}) : dev'.at[e] > 0
ConversionsStep ==
  left' < left /\ ~powerOff' =>
    \A c \in dev'.armed \cap Conversions :
      /\ dev'.at[c] > -AudioPeriod
      /\ ~stopped /\ ~powerOff => dev'.at[c] > 0
Kept == IInv' /\ TimersStep /\ ConversionsStep

LEMMA MayGoReady ==
  \A d, n, s, o : MayGoQuietly(d, n, s, o) <=> ~s /\ ~o /\ n > 0 /\ Ready(d)
BY DEF MayGoQuietly, Ready

LEMMA SettledOk ==
  ASSUME NEW d \in DevType, Sounding(d), Settled(d)
  PROVE  /\ OnTimeAsleep(d)
         /\ \A e \in d.armed \cap (Timers \cup {"audio"}) : d.at[e] > 0
         /\ \A c \in d.armed \cap Conversions : d.at[c] > -AudioPeriod /\ d.at[c] > 0
<1>1. \A e \in d.armed \cap Signals : d.at[e] \in Int /\ d.at[e] > 0
  BY DEF Settled, DevType
<1>2. d.at["audio"] \in Int /\ d.at["audio"] > 0 /\ d.at["audio"] <= AudioPeriod
  BY Kinds DEF Sounding
<1>3. Timers \subseteq Signals /\ Conversions \subseteq Signals
  BY DEF Signals
<1>4. QED
  BY <1>1, <1>2, <1>3, Kinds DEF OnTimeAsleep

\* A slot that ends with nothing due, or on a device that is off.
LEMMA SlotEnds ==
  ASSUME IInv, left > 0, left' = left - 1,
         dev' \in DevType, Sounding(dev'), Fresh(dev'), powerOff' \/ Settled(dev'),
         mask' \in Masks \cup {5, 6}, stopped' \in BOOLEAN, powerOff' \in BOOLEAN,
         stopped' => ~powerOff',
         waited' \in Nat, waited' < AudioPeriod,
         phase' \in {"host", "top", "quiet", "slow"},
         phase' # "host" => left' > 0,
         phase' = "quiet" => ~stopped' /\ ~powerOff' /\ Ready(dev'),
         UNCHANGED <<powerDown, touchDown>>
  PROVE  Kept
<1>1. left' \in 0..RunSlots
  BY RunAssumption DEF IInv, TypeOK
<1>2. TypeOK'
  BY <1>1 DEF IInv, TypeOK
<1>3. ~powerOff' => /\ OnTimeAsleep(dev')
                    /\ \A e \in dev'.armed \cap (Timers \cup {"audio"}) : dev'.at[e] > 0
                    /\ \A c \in dev'.armed \cap Conversions :
                         dev'.at[c] > -AudioPeriod /\ dev'.at[c] > 0
  BY SettledOk
<1>4. IInv'
  BY <1>2, <1>3 DEF IInv
<1>5. QED
  BY <1>3, <1>4 DEF Kept, TimersStep, ConversionsStep

\* A step in which no slot passes.
LEMMA NoSlot ==
  ASSUME IInv', ~(left' < left)
  PROVE  Kept
BY DEF Kept, TimersStep, ConversionsStep

LEMMA QuietPassed ==
  ASSUME NEW b \in BOOLEAN, dev \in DevType, Sounding(dev), Fresh(dev), Ready(dev),
         dev' = IF b THEN PostSlot(Passed(dev, 1)) ELSE Passed(dev, 1)
  PROVE  dev' \in DevType /\ Sounding(dev') /\ Fresh(dev') /\ Settled(dev')
<1> DEFINE d == Passed(dev, 1)
<1>1. d \in DevType /\ SoundDue(d) /\ Fresh(d) /\ Sounding(d) /\ Settled(d)
  BY SlotPasses, QuietSlotPasses
<1>2. /\ PostSlot(d) \in DevType /\ Fresh(PostSlot(d))
      /\ Sounding(PostSlot(d)) /\ Settled(PostSlot(d))
  BY <1>1, PostSlotOk
<1>3. QED
  BY <1>1, <1>2

LEMMA OnwardOk ==
  ASSUME Onward
  PROVE  /\ phase' \in {"host", "quiet", "slow"}
         /\ phase' # "host" => left' # 0
         /\ phase' = "quiet" => ~stopped' /\ ~powerOff' /\ Ready(dev')
BY MayGoReady DEF Onward

LEMMA InQuietOk ==
  ASSUME IInv, InQuiet
  PROVE  /\ left > 0 /\ stopped = FALSE /\ powerOff = FALSE /\ Ready(dev)
         /\ phase \in {"quiet", "top"}
BY MayGoReady DEF IInv, InQuiet, TypeOK

LEMMA WaitingOk ==
  ASSUME IInv, Waiting, TakeInterrupt
  PROVE  mask' \in Masks \cup {5, 6} /\ stopped' = FALSE
BY DEF IInv, TypeOK, Waiting, TakeInterrupt, DevType, Masks

-----------------------------------------------------------------------------
LEMMA QuietStepKeeps == IInv /\ QuietStep => Kept
<1> SUFFICES ASSUME IInv, QuietStep PROVE Kept
  OBVIOUS
<1>0. /\ dev \in DevType /\ Sounding(dev) /\ Fresh(dev) /\ left \in Nat
      /\ mask \in Masks \cup {5, 6} /\ stopped \in BOOLEAN /\ AudioPeriod > 0
      /\ dev.dirty \in BOOLEAN
  BY Kinds, RunAssumption DEF IInv, TypeOK, DevType
<1>1. /\ left > 0 /\ stopped = FALSE /\ powerOff = FALSE /\ Ready(dev)
  BY InQuietOk DEF QuietStep
<1>2. /\ left' = left - 1 /\ waited' = 0 /\ Onward
      /\ UNCHANGED <<powerDown, touchDown>>
  BY DEF QuietStep
<1>3. /\ dev' \in DevType /\ Sounding(dev') /\ Fresh(dev') /\ Settled(dev')
      /\ mask' \in Masks \cup {5, 6} /\ stopped' \in BOOLEAN
      /\ powerOff' \in BOOLEAN /\ (stopped' => ~powerOff')
  <2>1. CASE Waiting
    <3>1. /\ TakeInterrupt /\ powerOff' = powerOff
          /\ dev' = IF dev.dirty THEN PostSlot(Passed(dev, 1)) ELSE Passed(dev, 1)
      BY <2>1 DEF QuietStep
    <3>2. QED
      BY <1>0, <1>1, <2>1, <3>1, QuietPassed, WaitingOk
  <2>2. CASE ~Waiting
    <3>1. Instruction(FALSE)
      BY <2>2 DEF QuietStep
    <3>2. QED
      BY <1>0, <1>1, <3>1, InstructionOk
  <2>3. QED
    BY <2>1, <2>2
<1>4. QED
  BY <1>0, <1>1, <1>2, <1>3, OnwardOk, SlotEnds

LEMMA EnterStretchKeeps == IInv /\ EnterStretch => Kept
<1> SUFFICES ASSUME IInv, EnterStretch PROVE Kept
  OBVIOUS
<1>1. /\ left > 0 /\ stopped = FALSE /\ powerOff = FALSE /\ Ready(dev)
  BY InQuietOk DEF EnterStretch
<1>2. /\ phase' = "stretch" /\ waited' = 0
      /\ UNCHANGED <<dev, powerOff, powerDown, touchDown, left>>
  BY DEF EnterStretch
<1>3. mask' \in Masks \cup {5, 6} /\ stopped' = FALSE
  BY <1>1, WaitingOk DEF EnterStretch, IInv, TypeOK
<1>4. dev.at["audio"] \in 1..AudioPeriod
  BY DEF IInv, Sounding
<1>5. TypeOK'
  BY <1>2, <1>3 DEF IInv, TypeOK
<1>6. waited' < AudioPeriod /\ waited' + dev'.at["audio"] <= AudioPeriod
  BY <1>2, <1>4, Kinds
<1>7. IInv'
  <2>1. /\ Sounding(dev') /\ Fresh(dev') /\ Ready(dev') /\ left' > 0
        /\ stopped' = FALSE /\ powerOff' = FALSE
    BY <1>1, <1>2, <1>3 DEF IInv
  <2>2. QED
    BY <1>2, <1>5, <1>6, <2>1 DEF IInv
<1>8. QED
  BY <1>2, <1>7, NoSlot DEF IInv, TypeOK

\* The guard leaves the next slot quiet too, and the sample one slot nearer.
LEMMA StretchStepKeeps == IInv /\ StretchStep => Kept
<1> SUFFICES ASSUME IInv, StretchStep PROVE Kept
  OBVIOUS
<1>1. /\ dev \in DevType /\ Sounding(dev) /\ Fresh(dev) /\ Ready(dev)
      /\ left \in Nat /\ left > 0 /\ waited \in Nat
      /\ waited + dev.at["audio"] <= AudioPeriod
      /\ stopped = FALSE /\ powerOff = FALSE
  BY RunAssumption DEF IInv, TypeOK, StretchStep
<1>2. /\ left' = left - 1 /\ dev' = Passed(dev, 1) /\ phase' = "stretch"
      /\ left - 1 > 0 /\ Ready(dev')
      /\ mask' \in Masks \cup {5, 6}
      /\ waited' \in Nat /\ waited' <= waited + 1
      /\ UNCHANGED <<stopped, powerOff, powerDown, touchDown>>
  <2>1. Ready(dev') /\ left - 1 > 0
    BY MayGoReady DEF StretchStep
  <2>2. waited' \in Nat /\ waited' <= waited + 1
    BY <1>1 DEF StretchStep, Overlooked
  <2>3. mask' \in Masks \cup {5, 6}
    BY DEF StretchStep, IInv, TypeOK
  <2>4. QED
    BY <2>1, <2>2, <2>3 DEF StretchStep
<1>3. dev' \in DevType /\ Sounding(dev') /\ Fresh(dev') /\ Settled(dev')
  BY <1>1, <1>2, SlotPasses, QuietSlotPasses
<1>4. dev'.at["audio"] = dev.at["audio"] - 1 /\ dev'.at["audio"] > 0
  <2>1. /\ dev.at["audio"] \in 1..AudioPeriod /\ "audio" \in dev.armed
        /\ dev'.at["audio"] \in 1..AudioPeriod
    BY <1>1, <1>3 DEF Sounding
  <2>2. Passed(dev, 1).at["audio"] =
          IF dev.at["audio"] - 1 < -AudioPeriod THEN -AudioPeriod ELSE dev.at["audio"] - 1
    BY <1>1, <2>1, PassedOk, 1 \in Nat
  <2>3. QED
    BY <1>2, <2>1, <2>2, Kinds
<1>5. waited' < AudioPeriod /\ waited' + dev'.at["audio"] <= AudioPeriod
  <2>1. dev.at["audio"] \in Int
    BY <1>1 DEF Sounding
  <2>2. QED
    BY <1>1, <1>2, <1>4, <2>1, Kinds
<1>6. IInv'
  <2>1. TypeOK'
    BY <1>1, <1>2, <1>3, RunAssumption DEF IInv, TypeOK
  <2>2. QED
    BY <1>1, <1>2, <1>3, <1>5, <2>1 DEF IInv
<1>7. QED
  BY <1>1, <1>2, <1>3, <1>6, SettledOk DEF Kept, TimersStep, ConversionsStep

\* In the slot that ends a stretch the sample is still ahead.
LEMMA StretchWait ==
  ASSUME IInv, phase = "stretch", Overlooked
  PROVE  waited' \in Nat /\ waited' < AudioPeriod
<1>1. dev.at["audio"] \in Int /\ dev.at["audio"] > 1 /\ waited \in Nat
  BY Kinds DEF IInv, Sounding, Ready, TypeOK
<1>2. QED
  BY <1>1, Kinds DEF IInv, Overlooked

LEMMA EndStretchKeeps == IInv /\ EndStretch => Kept
<1> SUFFICES ASSUME IInv, EndStretch PROVE Kept
  OBVIOUS
<1>1. /\ dev \in DevType /\ Sounding(dev) /\ Fresh(dev) /\ Ready(dev)
      /\ left \in Nat /\ left > 0 /\ stopped = FALSE /\ powerOff = FALSE
      /\ dev.dirty \in BOOLEAN
  BY RunAssumption DEF IInv, TypeOK, EndStretch, DevType
<1>2. /\ left' = left - 1 /\ Onward /\ UNCHANGED <<powerOff, powerDown, touchDown>>
      /\ dev' = IF dev.dirty THEN PostSlot(Passed(dev, 1)) ELSE Passed(dev, 1)
      /\ phase = "stretch" /\ Overlooked
  BY DEF EndStretch
<1>3. dev' \in DevType /\ Sounding(dev') /\ Fresh(dev') /\ Settled(dev')
  BY <1>1, <1>2, QuietPassed
<1>4. mask' \in Masks \cup {5, 6} /\ stopped' \in BOOLEAN
  <2>1. PICK m \in {mask} \cup Masks, stop \in BOOLEAN :
          IF dev.irq > m THEN mask' = dev.irq /\ stopped' = FALSE
                         ELSE mask' = m /\ stopped' = stop
    BY DEF EndStretch
  <2>2. m \in Masks \cup {5, 6} /\ dev.irq \in {0, 5, 6}
    BY DEF IInv, TypeOK, DevType
  <2>3. QED
    BY <2>1, <2>2 DEF Masks
<1>5. waited' \in Nat /\ waited' < AudioPeriod
  BY <1>2, StretchWait
<1>6. /\ phase' \in {"host", "top", "quiet", "slow"}
      /\ phase' # "host" => left' > 0
      /\ phase' = "quiet" => ~stopped' /\ ~powerOff' /\ Ready(dev')
  BY <1>1, <1>2, OnwardOk
<1>7. UNCHANGED <<powerDown, touchDown>> /\ left' = left - 1 /\ powerOff' = FALSE
  BY <1>1, <1>2
<1>8. QED
  BY <1>1, <1>3, <1>4, <1>5, <1>6, <1>7, SlotEnds

LEMMA LeaveStretchKeeps == IInv /\ LeaveStretch => Kept
<1> SUFFICES ASSUME IInv, LeaveStretch PROVE Kept
  OBVIOUS
<1>1. /\ dev \in DevType /\ Sounding(dev) /\ Fresh(dev) /\ Ready(dev)
      /\ left \in Nat /\ left > 0 /\ stopped = FALSE /\ powerOff = FALSE
      /\ mask \in Masks \cup {5, 6} /\ stopped \in BOOLEAN
  BY RunAssumption DEF IInv, TypeOK, LeaveStretch
<1>2. /\ left' = left - 1 /\ Onward /\ UNCHANGED <<powerDown, touchDown>>
      /\ Instruction(FALSE) /\ phase = "stretch" /\ Overlooked
  BY DEF LeaveStretch
<1>3. /\ dev' \in DevType /\ Sounding(dev') /\ Fresh(dev') /\ Settled(dev')
      /\ mask' \in Masks \cup {5, 6} /\ stopped' \in BOOLEAN
      /\ powerOff' \in BOOLEAN /\ (stopped' => ~powerOff')
  BY <1>1, <1>2, InstructionOk
<1>4. waited' \in Nat /\ waited' < AudioPeriod
  BY <1>2, StretchWait
<1>5. /\ phase' \in {"host", "top", "quiet", "slow"}
      /\ phase' # "host" => left' > 0
      /\ phase' = "quiet" => ~stopped' /\ ~powerOff' /\ Ready(dev')
  BY <1>1, <1>2, OnwardOk
<1>6. UNCHANGED <<powerDown, touchDown>> /\ left' = left - 1
  BY <1>2
<1>7. QED
  BY <1>1, <1>3, <1>4, <1>5, <1>6, SlotEnds

-----------------------------------------------------------------------------
\* The skip: it stays short of the compare, the pen's countdown and the sample,
\* and passes a conversion by less than the sample is away.
LEMMA IdleSkipKeeps == ASSUME NEW n \in 1..RunSlots PROVE IInv /\ IdleSkip(n) => Kept
<1> SUFFICES ASSUME IInv, IdleSkip(n) PROVE Kept
  OBVIOUS
<1> DEFINE ahead(e) == dev.at[e] - n
<1>1. /\ dev \in DevType /\ Sounding(dev) /\ Fresh(dev) /\ left \in Nat
      /\ stopped = TRUE /\ powerOff = FALSE /\ OnTimeAsleep(dev)
      /\ n \in Nat /\ n > 0 /\ n < left
      /\ \A e \in dev.armed \ Unseen : dev.at[e] > 0 => n < dev.at[e]
  BY RunAssumption DEF IInv, TypeOK, IdleSkip, MaySkip
<1>2. /\ left' = left - n /\ dev' = Passed(dev, n) /\ phase = "top"
      /\ UNCHANGED <<mask, stopped, powerOff, powerDown, touchDown, phase, waited>>
  BY DEF IdleSkip
<1>3. /\ dev' \in DevType /\ Fresh(dev') /\ dev'.armed = dev.armed
      /\ \A e \in dev.armed :
           dev'.at[e] = IF ahead(e) < -AudioPeriod THEN -AudioPeriod ELSE ahead(e)
  BY <1>1, <1>2, PassedOk
<1>4. /\ \A e \in dev.armed : dev.at[e] \in Int
      /\ dev.at["audio"] \in 1..AudioPeriod /\ "audio" \in dev.armed
      /\ (Timers \cup {"audio"}) \cap Unseen = {}
  BY <1>1, Kinds, RunAssumption DEF DevType, Sounding, Signals
<1>5. /\ n < dev.at["audio"] /\ dev'.at["audio"] = dev.at["audio"] - n
      /\ dev'.at["audio"] \in 1..AudioPeriod
  <2>1. n < dev.at["audio"]
    BY <1>1, <1>4
  <2>2. QED
    BY <1>1, <1>3, <1>4, <2>1, Kinds
<1>6. \A e \in dev.armed \cap Timers : dev'.at[e] > 0
  <2>1. \A e \in dev.armed \cap Timers : dev.at[e] > 0 /\ n < dev.at[e]
    BY <1>1, <1>4 DEF OnTimeAsleep
  <2>2. QED
    BY <1>1, <1>3, <1>4, <2>1, Kinds
<1>7. \A c \in dev.armed \cap Conversions :
        dev'.at[c] > dev'.at["audio"] - AudioPeriod /\ dev'.at[c] > -AudioPeriod
  <2>1. \A c \in dev.armed \cap Conversions : dev.at[c] > dev.at["audio"] - AudioPeriod
    BY <1>1 DEF OnTimeAsleep
  <2>2. QED
    BY <1>1, <1>3, <1>4, <1>5, <2>1, Kinds
<1>8. Sounding(dev') /\ OnTimeAsleep(dev')
  BY <1>3, <1>4, <1>5, <1>6, <1>7 DEF Sounding, OnTimeAsleep
<1>9. left' \in 0..RunSlots /\ left' > 0
  BY <1>1, <1>2, RunAssumption DEF IInv, TypeOK
<1>10. TypeOK'
  BY <1>2, <1>3, <1>9 DEF IInv, TypeOK
<1>11. IInv'
  BY <1>1, <1>2, <1>3, <1>8, <1>9, <1>10 DEF IInv
<1>12. \A e \in dev'.armed \cap (Timers \cup {"audio"}) : dev'.at[e] > 0
  BY <1>3, <1>5, <1>6
<1>13. QED
  BY <1>1, <1>3, <1>7, <1>11, <1>12 DEF Kept, TimersStep, ConversionsStep

LEMMA BootReleaseKeeps == IInv /\ BootRelease => Kept
<1> SUFFICES ASSUME IInv, BootRelease PROVE Kept
  OBVIOUS
<1> DEFINE d == [dev EXCEPT !.armed = dev.armed \ {"boot"},
                            !.at = [dev.at EXCEPT !["boot"] = 0]]
<1>1. /\ dev \in DevType /\ Sounding(dev) /\ Fresh(dev)
      /\ dev.at \in [Events -> Int] /\ dev.armed \subseteq Events
  BY DEF IInv, TypeOK, DevType
<1>2. /\ [dev.at EXCEPT !["boot"] = 0] \in [Events -> Int]
      /\ \A e \in Events \ {"boot"} : [dev.at EXCEPT !["boot"] = 0][e] = dev.at[e]
  BY <1>1, ClearedType
<1>3. /\ d \in DevType /\ d.armed = dev.armed \ {"boot"}
      /\ d.pending = dev.pending /\ d.enabled = dev.enabled
      /\ d.irq = dev.irq /\ d.dirty = dev.dirty
      /\ \A e \in Events \ {"boot"} : d.at[e] = dev.at[e]
  BY <1>1, <1>2 DEF DevType
<1>4. dev' = IF powerDown THEN Lined(Raised(d, {"up"})) ELSE d
  BY DEF BootRelease
<1> HIDE DEF d
<1>5. Sounding(d) /\ Fresh(d) /\ (OnTimeAsleep(dev) => OnTimeAsleep(d))
  <2>1. /\ Timers \subseteq Events \ {"boot"} /\ Conversions \subseteq Events \ {"boot"}
        /\ "audio" \in Events \ {"boot"}
    BY Kinds DEF Signals
  <2>2. Sounding(d) /\ Fresh(d)
    BY <1>1, <1>3, <2>1 DEF Sounding, Fresh, Level
  <2>3. OnTimeAsleep(dev) => OnTimeAsleep(d)
    BY <1>3, <2>1 DEF OnTimeAsleep
  <2>4. QED
    BY <2>2, <2>3
<1>6. /\ dev' \in DevType /\ Fresh(dev') /\ dev'.armed = d.armed /\ dev'.at = d.at
  <2>1. {"up"} \in SUBSET Sources
    BY DEF Sources, Edges
  <2>2. /\ Raised(d, {"up"}) \in DevType /\ Fresh(Raised(d, {"up"}))
        /\ Raised(d, {"up"}).armed = d.armed /\ Raised(d, {"up"}).at = d.at
    BY <1>3, <2>1, RaisedOk
  <2>3. QED
    BY <1>3, <1>4, <1>5, <2>2, LinedOk
<1>7. Sounding(dev') /\ (OnTimeAsleep(dev) => OnTimeAsleep(dev'))
  BY <1>5, <1>6 DEF Sounding, OnTimeAsleep
<1>8. /\ left > 0 /\ phase' = "slow" /\ powerDown' = FALSE
      /\ UNCHANGED <<mask, stopped, powerOff, touchDown, left, waited>>
  BY DEF BootRelease, IInv
<1>9. TypeOK'
  BY <1>6, <1>8 DEF IInv, TypeOK
<1>10. IInv'
  BY <1>6, <1>7, <1>8, <1>9 DEF IInv
<1>11. QED
  BY <1>8, <1>10, NoSlot DEF IInv, TypeOK

LEMMA SlowSlotKeeps == IInv /\ SlowSlot => Kept
<1> SUFFICES ASSUME IInv, SlowSlot PROVE Kept
  OBVIOUS
<1>1. /\ dev \in DevType /\ Sounding(dev) /\ Fresh(dev)
      /\ left \in Nat /\ left > 0 /\ AudioPeriod > 0
      /\ mask \in Masks \cup {5, 6} /\ stopped \in BOOLEAN /\ powerOff \in BOOLEAN
      /\ (stopped => ~powerOff)
  BY Kinds, RunAssumption DEF IInv, TypeOK, SlowSlot
<1>2. /\ left' = left - 1 /\ waited' = 0
      /\ phase' = IF left' = 0 THEN "host" ELSE "top"
      /\ UNCHANGED <<powerDown, touchDown>>
  BY DEF SlowSlot
<1> DEFINE d == Passed(dev, 1)
<1>3. d \in DevType /\ SoundDue(d) /\ Fresh(d)
  BY <1>1, SlotPasses
<1>4. /\ PostSlot(d) \in DevType /\ Fresh(PostSlot(d))
      /\ Sounding(PostSlot(d)) /\ Settled(PostSlot(d))
  BY <1>3, PostSlotOk
<1>5. Sampled(d) \in DevType /\ Fresh(Sampled(d)) /\ Sounding(Sampled(d))
  BY <1>3, SampledOk
<1> HIDE DEF d
<1>6. /\ dev' \in DevType /\ Sounding(dev') /\ Fresh(dev') /\ (powerOff' \/ Settled(dev'))
      /\ mask' \in Masks \cup {5, 6} /\ stopped' \in BOOLEAN
      /\ powerOff' \in BOOLEAN /\ (stopped' => ~powerOff')
  <2>1. CASE powerOff
    BY <1>1, <1>5, <2>1 DEF SlowSlot, d
  <2>2. CASE ~powerOff /\ Waiting
    <3>1. TakeInterrupt /\ dev' = PostSlot(d) /\ powerOff' = powerOff
      BY <2>2 DEF SlowSlot, d
    <3>2. QED
      BY <1>1, <1>4, <2>2, <3>1, WaitingOk
  <2>3. CASE ~powerOff /\ ~Waiting /\ stopped
    BY <1>1, <1>4, <2>3 DEF SlowSlot, d
  <2>4. CASE ~powerOff /\ ~Waiting /\ ~stopped
    <3>1. Instruction(TRUE) /\ powerOff = FALSE /\ stopped = FALSE
      BY <1>1, <2>4 DEF SlowSlot
    <3>2. QED
      BY <1>1, <3>1, InstructionOk
  <2>5. QED
    BY <2>1, <2>2, <2>3, <2>4
<1>7. QED
  BY <1>1, <1>2, <1>6, SlotEnds

-----------------------------------------------------------------------------
LEMMA HostPowerKeeps == ASSUME NEW down \in BOOLEAN PROVE IInv /\ HostPower(down) => Kept
<1> SUFFICES ASSUME IInv, HostPower(down) PROVE Kept
  OBVIOUS
<1> DEFINE off == [dev EXCEPT !.pending = dev.pending \ Edges, !.irq = 0]
           edge == IF down THEN "down" ELSE "up"
<1>1. /\ dev \in DevType /\ Sounding(dev) /\ powerOff \in BOOLEAN /\ stopped \in BOOLEAN
      /\ dev.pending \ Edges \in SUBSET Sources /\ {"down"} \in SUBSET Sources
      /\ {edge} \in SUBSET Sources /\ AudioPeriod > 0
  BY Kinds DEF IInv, TypeOK, DevType, Sources, Edges
<1>2. off \in DevType /\ off.armed = dev.armed /\ off.at = dev.at
  BY <1>1 DEF DevType
<1> HIDE DEF off, edge
<1>3. /\ Lined(Raised(off, {"down"})) \in DevType /\ Fresh(Lined(Raised(off, {"down"})))
      /\ Lined(Raised(off, {"down"})).armed = dev.armed
      /\ Lined(Raised(off, {"down"})).at = dev.at
  BY <1>1, <1>2, RaisedOk, LinedOk
<1>4. /\ Lined(Raised(dev, {edge})) \in DevType /\ Fresh(Lined(Raised(dev, {edge})))
      /\ Lined(Raised(dev, {edge})).armed = dev.armed
      /\ Lined(Raised(dev, {edge})).at = dev.at
  BY <1>1, RaisedOk, LinedOk
<1>5. /\ dev' \in DevType /\ Fresh(dev') /\ dev'.armed = dev.armed /\ dev'.at = dev.at
      /\ mask' \in Masks \cup {5, 6} /\ stopped' = stopped
      /\ powerOff' \in BOOLEAN /\ (stopped' => ~powerOff' /\ OnTimeAsleep(dev))
  <2>1. CASE down /\ powerOff
    <3>1. /\ dev' = Lined(Raised(off, {"down"})) /\ powerOff' = FALSE /\ mask' = 7
          /\ stopped' = stopped
      BY <2>1 DEF HostPower, PowerButton, off
    <3>2. QED
      BY <1>3, <2>1, <3>1 DEF IInv, Masks
  <2>2. CASE ~(down /\ powerOff)
    <3>1. /\ dev' = Lined(Raised(dev, {edge}))
          /\ UNCHANGED <<powerOff, mask, stopped>>
      BY <2>2 DEF HostPower, PowerButton, edge
    <3>2. QED
      BY <1>1, <1>4, <3>1 DEF IInv, TypeOK
  <2>3. QED
    BY <2>1, <2>2
<1>6. /\ phase' = "host" /\ waited' = 0 /\ powerDown' = down
      /\ UNCHANGED <<touchDown, left>>
  BY DEF HostPower, PowerButton
<1>7. Sounding(dev') /\ (OnTimeAsleep(dev) => OnTimeAsleep(dev'))
  BY <1>1, <1>5 DEF Sounding, OnTimeAsleep
<1>8. TypeOK'
  BY <1>1, <1>5, <1>6 DEF IInv, TypeOK
<1>9. IInv'
  BY <1>1, <1>5, <1>6, <1>7, <1>8 DEF IInv
<1>10. QED
  BY <1>6, <1>9, NoSlot DEF IInv, TypeOK

LEMMA HostPenKeeps == ASSUME NEW down \in BOOLEAN PROVE IInv /\ HostPen(down) => Kept
<1> SUFFICES ASSUME IInv, HostPen(down) PROVE Kept
  OBVIOUS
<1>1. dev \in DevType /\ {"touch"} \in SUBSET Sources
  BY DEF IInv, TypeOK, Sources
<1>2. /\ dev' \in DevType /\ Fresh(dev') /\ dev'.armed = dev.armed /\ dev'.at = dev.at
  BY <1>1, RaisedOk DEF HostPen
<1>3. /\ phase = "host" /\ touchDown' = down
      /\ UNCHANGED <<mask, stopped, powerOff, powerDown, left, phase, waited>>
  BY DEF HostPen
<1>4. TypeOK'
  BY <1>2, <1>3 DEF IInv, TypeOK
<1>5. (Sounding(dev) => Sounding(dev')) /\ (OnTimeAsleep(dev) => OnTimeAsleep(dev'))
  BY <1>2 DEF Sounding, OnTimeAsleep
<1>6. IInv'
  BY <1>2, <1>3, <1>4, <1>5 DEF IInv
<1>7. QED
  BY <1>3, <1>6, NoSlot DEF IInv, TypeOK

LEMMA HostRunKeeps == IInv /\ HostRun => Kept
<1> SUFFICES ASSUME IInv, HostRun PROVE Kept
  OBVIOUS
<1>1. /\ phase' = "top" /\ left' = RunSlots /\ RunSlots \in Nat /\ RunSlots > 0
      /\ UNCHANGED <<dev, mask, stopped, powerOff, powerDown, touchDown, waited>>
  BY RunAssumption DEF HostRun
<1>2. TypeOK'
  BY <1>1 DEF IInv, TypeOK
<1>3. IInv'
  BY <1>1, <1>2 DEF IInv
<1>4. ~(left' < left)
  BY <1>1 DEF IInv, TypeOK
<1>5. QED
  BY <1>3, <1>4, NoSlot

LEMMA InitHolds == Init => IInv
<1> SUFFICES ASSUME Init PROVE IInv
  OBVIOUS
<1> DEFINE d0 == [armed |-> {}, at |-> [e \in Events |-> 0], pending |-> {"down"},
                  enabled |-> {}, irq |-> 0, dirty |-> FALSE]
           d1 == Armed(d0, "audio", AudioPeriod)
<1>1. d0 \in DevType /\ Fresh(d0)
  <2>1. {"down"} \in SUBSET Sources /\ [e \in Events |-> 0] \in [Events -> Int]
    BY DEF Sources, Edges
  <2>2. d0 \in DevType
    BY <2>1 DEF DevType
  <2>3. d0.pending \cap d0.enabled = {} /\ d0.irq = 0
    OBVIOUS
  <2>4. QED
    BY <2>2, <2>3 DEF Fresh, Level
<1> HIDE DEF d0
<1>2. /\ AudioPeriod \in Int /\ AudioPeriod > 0 /\ BootHold \in Int
      /\ "audio" \in Events /\ "boot" \in Events /\ "audio" \in Events \ {"boot"}
  BY Kinds, RunAssumption
<1>3. d1 \in DevType /\ Fresh(d1) /\ "audio" \in d1.armed /\ d1.at["audio"] = AudioPeriod
  BY <1>1, <1>2, ArmedOk
<1> HIDE DEF d1
<1>4. dev = Armed(d1, "boot", BootHold)
  BY DEF Init, d1, d0
<1>5. dev \in DevType /\ Fresh(dev) /\ "audio" \in dev.armed
  <2>1. Armed(d1, "boot", BootHold) \in DevType /\ Fresh(Armed(d1, "boot", BootHold))
    BY <1>2, <1>3, ArmedOk
  <2>2. Armed(d1, "boot", BootHold).armed = d1.armed \cup {"boot"}
    BY <1>2, <1>3, ArmedOk
  <2>3. QED
    BY <1>3, <1>4, <2>1, <2>2
<1>6. dev.at["audio"] = AudioPeriod
  BY <1>2, <1>3, <1>4, ArmedOk
<1>7. Sounding(dev)
  BY <1>2, <1>5, <1>6, Kinds DEF Sounding
<1>8. TypeOK
  <2>1. 0 \in 0..RunSlots /\ 0 \in Nat /\ 7 \in Masks \cup {5, 6}
    BY RunAssumption DEF Masks
  <2>2. /\ mask = 7 /\ stopped = FALSE /\ powerOff = FALSE /\ powerDown = TRUE
        /\ touchDown = FALSE /\ left = 0 /\ phase = "host" /\ waited = 0
    BY DEF Init
  <2>3. QED
    BY <1>5, <2>1, <2>2 DEF TypeOK
<1>9. QED
  BY <1>2, <1>5, <1>7, <1>8 DEF Init, IInv

LEMMA NextKeeps == IInv /\ Next => Kept
<1> SUFFICES ASSUME IInv, Next PROVE Kept
  OBVIOUS
<1>1. CASE \E n \in 1..RunSlots : IdleSkip(n)
  BY <1>1, IdleSkipKeeps
<1>2. CASE QuietStep \/ EnterStretch \/ StretchStep \/ EndStretch \/ LeaveStretch
  BY <1>2, QuietStepKeeps, EnterStretchKeeps, StretchStepKeeps, EndStretchKeeps,
     LeaveStretchKeeps
<1>3. CASE BootRelease \/ SlowSlot
  BY <1>3, BootReleaseKeeps, SlowSlotKeeps
<1>4. CASE \E down \in BOOLEAN : HostPower(down) \/ HostPen(down)
  BY <1>4, HostPowerKeeps, HostPenKeeps
<1>5. CASE HostRun
  BY <1>5, HostRunKeeps
<1>6. QED
  BY <1>1, <1>2, <1>3, <1>4, <1>5 DEF Next, Loop, Host

LEMMA StutterKeeps == IInv /\ UNCHANGED vars => Kept
<1> SUFFICES ASSUME IInv, UNCHANGED vars PROVE Kept
  OBVIOUS
<1>1. IInv'
  BY DEF vars, IInv, TypeOK
<1>2. QED
  BY <1>1, NoSlot DEF vars, IInv, TypeOK

LEMMA Invariant == Spec => []IInv
<1>1. IInv /\ [Next]_vars => IInv'
  BY NextKeeps, StutterKeeps DEF Kept
<1>2. QED
  BY <1>1, InitHolds, PTL DEF Spec

-----------------------------------------------------------------------------
\* Wherever the loop stands, its state is one it can be in.
THEOREM TypeCorrect == Spec => []TypeOK
<1>1. IInv => TypeOK
  BY DEF IInv
<1>2. QED
  BY <1>1, Invariant, PTL

\* The level the processor sees is never an old one that nobody will look at
\* again (irq_dirty).
THEOREM LineIsAlwaysFresh == Spec => []LineIsFresh
<1>1. IInv => LineIsFresh
  BY DEF IInv, Fresh, LineIsFresh
<1>2. QED
  BY <1>1, Invariant, PTL

\* However long a stretch of blocks is allowed to get, an interrupt waits for
\* less than a sound sample.
THEOREM InterruptsAlwaysBounded == Spec => []InterruptsBounded
<1>1. IInv => InterruptsBounded
  BY DEF IInv, InterruptsBounded
<1>2. QED
  BY <1>1, Invariant, PTL

\* No way through the loop passes a timer or a sound sample.
THEOREM TimersAlwaysOnTime == Spec => TimersOnTime
<1>1. IInv /\ [Next]_vars => [TimersStep]_vars
  BY NextKeeps DEF Kept
<1>2. Spec => [][TimersStep]_vars
  BY <1>1, Invariant, PTL DEF Spec
<1>3. QED
  BY <1>2 DEF TimersOnTime, TimersStep

\* A conversion is on time on a running processor, and not a whole sample late
\* on a sleeping one.
THEOREM ConversionsAlwaysBounded == Spec => ConversionsBounded
<1>1. IInv /\ [Next]_vars => [ConversionsStep]_vars
  BY NextKeeps DEF Kept
<1>2. Spec => [][ConversionsStep]_vars
  BY <1>1, Invariant, PTL DEF Spec
<1>3. QED
  BY <1>2 DEF ConversionsBounded, ConversionsStep
=============================================================================
