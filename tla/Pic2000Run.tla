----------------------------- MODULE Pic2000Run -----------------------------
(***************************************************************************)
(* The run loop of the 68k communicators: mh_m68k_run and the device work  *)
(* it does after an instruction (machines/pic2000/machine68k.cpp).  Time   *)
(* is counted in instruction slots.  The loop has three fast ways through  *)
(* a slot: a stopped processor is skipped to the next event, a running one *)
(* goes quietly, instruction by instruction or in stretches of the block   *)
(* engine, up to the slot before the next event.  The slow way does        *)
(* everything in every slot, and is what the others have to agree with.    *)
(* Register contents, serial port, network card, accessory bus, scripted   *)
(* taps and presses and the diagnostics are left out.                      *)
(***************************************************************************)
EXTENDS Integers

CONSTANTS Timers,           \* "timer": the compare; "pen": the pen's countdown
          Conversions,      \* "adc" and "tx": done a fixed time after the start
          Unseen,           \* conversions the skip over idle time ignores
          AudioPeriod,      \* slots from one sound sample to the next
          ConversionSlots,  \* slots a conversion takes
          Delays,           \* delays the guest asks of its timers
          BootHold,         \* slots the power button is held to start with
          RunSlots,         \* slots the front end asks for at a time
          Enables           \* sets of sources the guest enables

Signals == Timers \cup Conversions
Events == Signals \cup {"audio", "boot"}
Edges == {"down", "up"}
Sources == Signals \cup Edges \cup {"touch"}
Masks == {0, 7}

\* A sample takes about 760 slots, a conversion 64; the accessory bus makes
\* the skip look at the transmitter, never at the converter.
ASSUME RunAssumption ==
  /\ Timers \subseteq {"timer", "pen"} /\ Conversions \subseteq {"adc", "tx"}
  /\ Unseen \subseteq Conversions
  /\ AudioPeriod \in Nat \ {0} /\ ConversionSlots \in 1..(AudioPeriod - 1)
  /\ Delays \subseteq Nat /\ BootHold \in Nat \ {0}
  /\ RunSlots \in Nat \ {0}
  /\ Enables \subseteq SUBSET Sources

VARIABLES dev,        \* dev21: armed events, slots left to each, pending and
                      \* enabled sources, the interrupt level and whether a
                      \* register it depends on was written since
          mask,       \* interrupt level in the status register
          stopped,    \* the processor waits in LPSTOP
          powerOff, powerDown, touchDown,
          left,       \* slots left in this call of mh_m68k_run
          phase,      \* where its loop stands
          waited      \* slots an interrupt the processor admits has waited

vars == <<dev, mask, stopped, powerOff, powerDown, touchDown, left, phase, waited>>

DevType == [armed : SUBSET Events, at : [Events -> Int],
            pending : SUBSET Sources, enabled : SUBSET Sources,
            irq : {0, 5, 6}, dirty : BOOLEAN]

TypeOK ==
  /\ dev \in DevType
  /\ mask \in Masks \cup {5, 6}
  /\ stopped \in BOOLEAN /\ powerOff \in BOOLEAN
  /\ powerDown \in BOOLEAN /\ touchDown \in BOOLEAN
  /\ left \in 0..RunSlots
  /\ phase \in {"host", "top", "quiet", "stretch", "slow"}
  /\ waited \in Nat

-----------------------------------------------------------------------------
\* The device work.
\* dev21_irq: power and card events at level 6, the rest at 5, looked at only
\* when a register was written.
Level(d) ==
  LET live == d.pending \cap d.enabled
  IN IF live \cap Edges # {} THEN 6 ELSE IF live # {} THEN 5 ELSE 0

Lined(d) == IF d.dirty THEN [d EXCEPT !.irq = Level(d), !.dirty = FALSE] ELSE d

Raised(d, s) == [d EXCEPT !.pending = @ \cup s, !.dirty = TRUE]

Armed(d, e, slots) == [d EXCEPT !.armed = @ \cup {e}, !.at[e] = slots]

\* n slots pass.  What is overdue by a sound sample counts no further.
Passed(d, n) ==
  [d EXCEPT !.at = [e \in Events |->
     IF e \notin d.armed THEN 0
     ELSE IF @[e] - n < -AudioPeriod THEN -AudioPeriod ELSE @[e] - n]]

\* audio_tick_if_due: the next sample is due one period after this one.
Sampled(d) ==
  IF d.at["audio"] <= 0 THEN [d EXCEPT !.at["audio"] = @ + AudioPeriod] ELSE d

\* Wrong on purpose: an event due in this slot waits for the next.
FiredLate(d) ==
  LET due == {e \in d.armed \cap Signals : d.at[e] < 0}
  IN IF due = {} THEN d
     ELSE Raised([d EXCEPT !.armed = @ \ due,
                           !.at = [e \in Events |-> IF e \in due THEN 0 ELSE @[e]]],
                 due)

\* Wrong on purpose: a completion does not have the line looked at again.
FiredQuietly(d) ==
  LET due == {e \in d.armed \cap Signals : d.at[e] <= 0}
  IN [d EXCEPT !.armed = @ \ due, !.pending = @ \cup due,
               !.at = [e \in Events |-> IF e \in due THEN 0 ELSE @[e]]]

Fired(d) ==
  LET due == {e \in d.armed \cap Signals : d.at[e] <= 0}
  IN IF due = {} THEN d
     ELSE Raised([d EXCEPT !.armed = @ \ due,
                           !.at = [e \in Events |-> IF e \in due THEN 0 ELSE @[e]]],
                 due)

\* post_slot, after what the instruction asked for (Accesses) has been set up.
PostSlot(d) == Lined(Sampled(Fired(d)))

\* What one instruction may do to dev21, its request taken up by post_slot:
\* program the compare, which also acknowledges its interrupt; start or stop
\* the pen's countdown; start a conversion; acknowledge or enable sources;
\* write a register of the sound channel.
Accesses(d) ==
  LET compare(slots) ==
        [Armed(d, "timer", slots) EXCEPT !.pending = @ \ {"timer"}, !.dirty = TRUE]
      countdown(slots) == Armed(d, "pen", slots)
      halt == [d EXCEPT !.armed = @ \ {"pen"}, !.at["pen"] = 0]
  IN {compare(slots) : slots \in IF "timer" \in Timers THEN Delays ELSE {}}
     \cup {countdown(slots) : slots \in IF "pen" \in Timers THEN Delays \ {0} ELSE {}}
     \cup (IF "pen" \in Timers THEN {halt} ELSE {})
     \cup {Armed(d, c, ConversionSlots) : c \in Conversions}
     \cup {[d EXCEPT !.pending = @ \ {s}, !.dirty = TRUE] : s \in d.pending}
     \cup {[d EXCEPT !.enabled = s, !.dirty = TRUE] : s \in Enables}
     \cup {d}

-----------------------------------------------------------------------------
\* mh_m68k_power_button; pressing it on a device that is off resets the
\* processor, whose memory and dev21 registers are kept.
PowerButton(down) ==
  /\ ~(powerDown = down /\ ~(down /\ powerOff))
  /\ powerDown' = down
  /\ IF down /\ powerOff
     THEN /\ powerOff' = FALSE /\ mask' = 7 /\ UNCHANGED stopped
          /\ dev' = Lined(Raised([dev EXCEPT !.pending = @ \ Edges, !.irq = 0],
                                 {"down"}))
     ELSE /\ dev' = Lined(Raised(dev, {IF down THEN "down" ELSE "up"}))
          /\ UNCHANGED <<powerOff, mask, stopped>>

HostPower(down) ==
  /\ phase = "host"
  /\ PowerButton(down)
  /\ waited' = 0
  /\ UNCHANGED <<touchDown, left, phase>>

\* mh_m68k_set_pen: the line is not looked at before the machine runs.
HostPen(down) ==
  /\ phase = "host"
  /\ touchDown # down /\ touchDown' = down
  /\ dev' = Raised(dev, {"touch"})
  /\ UNCHANGED <<mask, stopped, powerOff, powerDown, left, phase, waited>>

HostRun ==
  /\ phase = "host"
  /\ phase' = "top" /\ left' = RunSlots
  /\ UNCHANGED <<dev, mask, stopped, powerOff, powerDown, touchDown, waited>>

-----------------------------------------------------------------------------
\* interrupt_waiting.
Waiting == dev.irq > mask

\* Wrong on purpose: the handler runs on a processor that is still stopped.
TakeInterruptAsleep == mask' = dev.irq /\ UNCHANGED stopped

TakeInterrupt == mask' = dev.irq /\ stopped' = FALSE

\* The instruction ran in front of an interrupt that was due, or it did not.
Overlooked == waited' = IF Waiting THEN waited + 1 ELSE 0

\* Wrong on purpose: the skip does not look at the pen's countdown or the
\* compare.
MaySkipPastTimers(n) ==
  /\ stopped /\ ~Waiting
  /\ n < left
  /\ \A e \in dev.armed \ (Unseen \cup Timers) : dev.at[e] > 0 => n < dev.at[e]

\* idle_fast_path_allowed, and n slots end before next_idle_deadline.
MaySkip(n) ==
  /\ stopped /\ ~Waiting
  /\ n < left
  /\ \A e \in dev.armed \ Unseen : dev.at[e] > 0 => n < dev.at[e]

\* The slot before the next event or the end of the call.
IdleSkip(n) ==
  /\ phase = "top"
  /\ MaySkip(n) /\ ~MaySkip(n + 1)
  /\ dev' = Passed(dev, n) /\ left' = left - n
  /\ UNCHANGED <<mask, stopped, powerOff, powerDown, touchDown, phase, waited>>

\* Wrong on purpose: a stretch is limited by the call alone.
MayGoFar(d, slots, isStopped, isOff) == ~isStopped /\ ~isOff /\ slots > 0

\* quiet_path_allowed, and next_run_limit leaves room for a slot: what is due
\* after an instruction has to be left to the slow way.
MayGoQuietly(d, slots, isStopped, isOff) ==
  /\ ~isStopped /\ ~isOff
  /\ slots > 0
  /\ \A e \in d.armed : IF e = "boot" THEN d.at[e] > 0 ELSE d.at[e] > 1

InQuiet ==
  \/ phase = "quiet"
  \/ /\ phase = "top" /\ ~MaySkip(1)
     /\ MayGoQuietly(dev, left, stopped, powerOff)

\* Where a quiet slot leaves the loop.
Onward ==
  phase' = IF left' = 0 THEN "host"
           ELSE IF MayGoQuietly(dev', left', stopped', powerOff')
           THEN "quiet" ELSE "slow"

\* What one instruction does: it computes, sets the mask, stops, accesses a
\* device or turns the device off.  looks: post_slot runs whatever it does.
Instruction(looks) ==
  LET d == Passed(dev, 1)
      after == IF looks \/ dev.dirty THEN PostSlot(d) ELSE d
  IN \/ /\ dev' = after
        /\ UNCHANGED <<mask, stopped, powerOff>>
     \/ /\ mask' \in Masks /\ stopped' \in BOOLEAN
        /\ dev' = after
        /\ UNCHANGED powerOff
     \/ /\ \E a \in Accesses(d) : dev' = PostSlot(a)
        /\ UNCHANGED <<mask, stopped, powerOff>>
     \/ /\ powerOff' = TRUE
        /\ dev' = PostSlot(d)
        /\ UNCHANGED <<mask, stopped>>

\* One slot of the quiet loop on the interpreter.
QuietStep ==
  /\ InQuiet
  /\ left' = left - 1
  /\ IF Waiting
     THEN /\ TakeInterrupt
          /\ dev' = (IF dev.dirty THEN PostSlot(Passed(dev, 1)) ELSE Passed(dev, 1))
          /\ UNCHANGED powerOff /\ waited' = 0
     ELSE Instruction(FALSE) /\ waited' = 0
  /\ Onward
  /\ UNCHANGED <<powerDown, touchDown>>

-----------------------------------------------------------------------------
\* run_on_core.  An interrupt is taken before the stretch, in no slot.
EnterStretch ==
  /\ InQuiet
  /\ IF Waiting THEN TakeInterrupt ELSE UNCHANGED <<mask, stopped>>
  /\ phase' = "stretch" /\ waited' = 0
  /\ UNCHANGED <<dev, powerOff, powerDown, touchDown, left>>

\* An instruction the blocks run without coming back, a new mask included.
StretchStep ==
  /\ phase = "stretch"
  /\ MayGoQuietly(Passed(dev, 1), left - 1, FALSE, FALSE)
  /\ left' = left - 1 /\ dev' = Passed(dev, 1)
  /\ mask' \in {mask} \cup Masks
  /\ Overlooked
  /\ UNCHANGED <<stopped, powerOff, powerDown, touchDown, phase>>

\* The last one the budget allows, after which an interrupt is looked for
\* once more.
EndStretch ==
  /\ phase = "stretch"
  /\ ~MayGoQuietly(Passed(dev, 1), left - 1, FALSE, FALSE)
  /\ left' = left - 1
  /\ dev' = (IF dev.dirty THEN PostSlot(Passed(dev, 1)) ELSE Passed(dev, 1))
  /\ \E m \in {mask} \cup Masks, stop \in BOOLEAN :
       IF dev.irq > m THEN mask' = dev.irq /\ stopped' = FALSE
                      ELSE mask' = m /\ stopped' = stop
  /\ Overlooked
  /\ UNCHANGED <<powerOff, powerDown, touchDown>>
  /\ Onward

\* One that ends it before: an exception, a stop, or a device that wants
\* attention.
LeaveStretch ==
  /\ phase = "stretch"
  /\ left' = left - 1
  /\ Instruction(FALSE) /\ Overlooked
  /\ Onward
  /\ UNCHANGED <<powerDown, touchDown>>

-----------------------------------------------------------------------------
\* The button that started the device comes up.
BootReleaseDue == "boot" \in dev.armed /\ dev.at["boot"] <= 0

BootRelease ==
  LET d == [dev EXCEPT !.armed = @ \ {"boot"}, !.at["boot"] = 0]
  IN /\ phase \in {"top", "slow"} /\ BootReleaseDue
     /\ phase = "top" => ~MaySkip(1) /\ ~InQuiet
     /\ phase' = "slow"
     /\ powerDown' = FALSE
     /\ dev' = IF powerDown THEN Lined(Raised(d, {"up"})) ELSE d
     /\ UNCHANGED <<mask, stopped, powerOff, touchDown, left, waited>>

\* The full body of the loop.
SlowSlot ==
  /\ phase \in {"top", "slow"} /\ ~BootReleaseDue
  /\ phase = "top" => ~MaySkip(1) /\ ~InQuiet
  /\ left' = left - 1
  /\ waited' = 0
  /\ IF powerOff
     THEN dev' = Sampled(Passed(dev, 1)) /\ UNCHANGED <<mask, stopped, powerOff>>
     ELSE IF Waiting
     THEN TakeInterrupt /\ dev' = PostSlot(Passed(dev, 1)) /\ UNCHANGED powerOff
     ELSE IF stopped
     THEN dev' = PostSlot(Passed(dev, 1)) /\ UNCHANGED <<mask, stopped, powerOff>>
     ELSE Instruction(TRUE)
  /\ phase' = IF left' = 0 THEN "host" ELSE "top"
  /\ UNCHANGED <<powerDown, touchDown>>

\* mh_m68k_start on a machine whose registers are clear.
Init ==
  /\ dev = Armed(Armed([armed |-> {}, at |-> [e \in Events |-> 0],
                        pending |-> {"down"}, enabled |-> {},
                        irq |-> 0, dirty |-> FALSE],
                       "audio", AudioPeriod), "boot", BootHold)
  /\ mask = 7 /\ stopped = FALSE
  /\ powerOff = FALSE /\ powerDown = TRUE /\ touchDown = FALSE
  /\ left = 0 /\ phase = "host" /\ waited = 0

Loop ==
  \/ \E n \in 1..RunSlots : IdleSkip(n)
  \/ QuietStep \/ EnterStretch \/ StretchStep \/ EndStretch \/ LeaveStretch
  \/ BootRelease \/ SlowSlot

Host ==
  \/ \E down \in BOOLEAN : HostPower(down) \/ HostPen(down)
  \/ HostRun

Next == Host \/ Loop

Spec == Init /\ [][Next]_vars

\* The front end goes on calling mh_m68k_run, and the loop runs when called.
FairSpec == Spec /\ WF_vars(HostRun \/ Loop)

-----------------------------------------------------------------------------
\* No way through the loop runs past a timer or a sound sample: after a slot
\* on a device that is on, none is overdue, whether the slots before it were
\* skipped, quiet, in blocks or slow, and whatever was overdue while the
\* device was off.
TimersOnTime ==
  [][left' < left /\ ~powerOff' =>
       \A e \in dev'.armed \cap (Timers \cup {"audio"}) : dev'.at[e] > 0]_vars

\* A conversion the guest waits for on a running processor is on time, and
\* one it sleeps over ends with the next sound sample at the latest.
ConversionsBounded ==
  [][left' < left /\ ~powerOff' =>
       \A c \in dev'.armed \cap Conversions :
         /\ dev'.at[c] > -AudioPeriod
         /\ ~stopped /\ ~powerOff => dev'.at[c] > 0]_vars

\* The interrupt level the processor sees is that of the registers, except
\* between a change of theirs and the next look (irq_dirty).
LineIsFresh == ~dev.dirty => dev.irq = Level(dev)

\* An interrupt the processor admits waits for the end of a stretch of blocks,
\* which the next sound sample bounds.
InterruptsBounded == waited < AudioPeriod

\* An idle device wakes: a processor that sleeps with a timer running that it
\* has enabled is woken, however its time is skipped.
SleeperWakes ==
  (/\ stopped /\ mask = 0
   /\ \E e \in dev.armed \cap Signals : e \in dev.enabled) ~> ~stopped

=============================================================================
