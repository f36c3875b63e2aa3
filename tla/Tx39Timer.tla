----------------------------- MODULE Tx39Timer -----------------------------
(***************************************************************************)
(* The clock of the TX39: the real-time counter derived from the CPU's     *)
(* cycle count, the alarm, the periodic timer and the stop timer of the    *)
(* power controller, which all read it (soc/tx39/tx39_timer.c and the      *)
(* stop timer of soc/tx39/tx39_power.c).  The guest reprograms them        *)
(* between any two cycles; the machine loop looks at them once per chunk   *)
(* of at most TickInterval cycles.                                         *)
(***************************************************************************)
EXTENDS Integers

CONSTANTS CyclesPerTick,  \* cpu_hz / 32768: 1125 on the DataRover
          TickInterval,   \* the loop's longest chunk: 1024 cycles
          Alarms,         \* the values the guest writes to ALARMHI:ALARMLO
          Reloads,        \* the values it writes to PERVAL
          StopVals,       \* the values it writes to STPTIMERVAL
          MaxCycles       \* bound on the run

ASSUME ClockAssumption ==
  /\ CyclesPerTick \in Nat \ {0}
  /\ TickInterval \in 1..CyclesPerTick
ASSUME GuestAssumption ==
  Alarms \subseteq Nat /\ Reloads \subseteq Nat /\ StopVals \subseteq Nat

\* Their sources in bank 5 of the interrupt controller.
TimerIrqs == {"ALARM", "PER", "STPTIMER"}

Flags == {"FREEZERTC", "ENPERTIMER"}

VARIABLES cycle,        \* cpu.cycle_count
          sinceTick,    \* cycles run in the current chunk
          rtc, ref,     \* the counter at its last synchronisation, and when
          control,      \* the flags of TIMERCONTROL
          alarm, reload, lastPeriod,
          stop,         \* the power controller's stop timer
          status,       \* the latched sources
          \* What the properties remember and no code keeps.
          clearedAt,    \* the cycle of the last RTCCLR
          armedAt,      \* when the armed stop timer was armed, for how long
          steady        \* no timer register written since the last look

clock == <<cycle, sinceTick, rtc, ref>>
timer == <<control, alarm, reload, lastPeriod>>
ghosts == <<clearedAt, armedAt, steady>>
timerVars == <<clock, timer, stop, status, ghosts>>

NotArmed == [cycle |-> 0, ticks |-> 0]

TimerTypeOK ==
  /\ cycle \in Nat /\ sinceTick \in 0..TickInterval
  /\ rtc \in Nat /\ ref \in 0..cycle
  /\ control \in SUBSET Flags
  /\ alarm \in Nat /\ reload \in Nat /\ lastPeriod \in Nat
  /\ stop \in [enabled : BOOLEAN, armed : BOOLEAN, deadline : Nat]
  /\ status \in SUBSET TimerIrqs
  /\ clearedAt \in 0..cycle
  /\ armedAt \in [cycle : 0..cycle, ticks : Nat]
  /\ steady \in BOOLEAN

TimerInit ==
  /\ cycle = 0 /\ sinceTick = 0 /\ rtc = 0 /\ ref = 0
  /\ control = {} /\ alarm = 0 /\ reload = 0 /\ lastPeriod = 0
  /\ stop = [enabled |-> FALSE, armed |-> FALSE, deadline |-> 0]
  /\ status = {}
  /\ clearedAt = 0 /\ armedAt = NotArmed
  /\ steady = TRUE

RtcNow == rtc + (cycle - ref) \div CyclesPerTick

-----------------------------------------------------------------------------
\* The CPU executes, or burns, one slot.
Run ==
  /\ cycle < MaxCycles
  /\ sinceTick < TickInterval
  /\ cycle' = cycle + 1
  /\ sinceTick' = sinceTick + 1
  /\ UNCHANGED <<rtc, ref, timer, stop, status, ghosts>>

\* Wrong on purpose: the reference moves before the counter is read.
WriteControlSwapped(flags, clear) ==
  /\ rtc' = IF clear THEN 0 ELSE rtc
  /\ ref' = cycle
  /\ control' = flags
  /\ clearedAt' = IF clear THEN cycle ELSE clearedAt
  /\ steady' = FALSE
  /\ UNCHANGED <<cycle, sinceTick, alarm, reload, lastPeriod, stop, status,
                 armedAt>>

\* Wrong on purpose: the counter is rounded up to the next tick.
WriteControlRoundsUp(flags, clear) ==
  /\ rtc' = IF clear THEN 0 ELSE RtcNow + 1
  /\ ref' = cycle
  /\ control' = flags
  /\ clearedAt' = IF clear THEN cycle ELSE clearedAt
  /\ steady' = FALSE
  /\ UNCHANGED <<cycle, sinceTick, alarm, reload, lastPeriod, stop, status,
                 armedAt>>

\* A write to TIMERCONTROL rebases the counter, whatever it writes.
WriteControl(flags, clear) ==
  /\ rtc' = IF clear THEN 0 ELSE RtcNow
  /\ ref' = cycle
  /\ control' = flags
  /\ clearedAt' = IF clear THEN cycle ELSE clearedAt
  /\ steady' = FALSE
  /\ UNCHANGED <<cycle, sinceTick, alarm, reload, lastPeriod, stop, status,
                 armedAt>>

WriteAlarm(a) ==
  /\ alarm' = a
  /\ UNCHANGED <<clock, control, reload, lastPeriod, stop, status,
                 clearedAt, armedAt, steady>>

WritePeriodic(r) ==
  /\ reload' = r
  /\ steady' = FALSE
  /\ UNCHANGED <<clock, control, alarm, lastPeriod, stop, status,
                 clearedAt, armedAt>>

\* Wrong on purpose: the delay is STPTIMERVAL ticks.
WriteStopTimerShort(enable, v) ==
  LET arms == enable /\ ~stop.enabled
  IN /\ stop' = [enabled  |-> enable,
                 armed    |-> enable /\ (stop.armed \/ arms),
                 deadline |-> IF arms THEN RtcNow + v ELSE stop.deadline]
     /\ armedAt' = IF arms THEN [cycle |-> cycle, ticks |-> v + 1]
                   ELSE IF enable THEN armedAt ELSE NotArmed
     /\ UNCHANGED <<clock, timer, status, clearedAt, steady>>

\* The ENSTPTIMER part of a write to POWERCTRL: a rising enable arms the
\* timer with STPTIMERVAL + 1 ticks, a low one disarms it.
WriteStopTimer(enable, v) ==
  LET arms == enable /\ ~stop.enabled
  IN /\ stop' = [enabled  |-> enable,
                 armed    |-> enable /\ (stop.armed \/ arms),
                 deadline |-> IF arms THEN RtcNow + v + 1 ELSE stop.deadline]
     /\ armedAt' = IF arms THEN [cycle |-> cycle, ticks |-> v + 1]
                   ELSE IF enable THEN armedAt ELSE NotArmed
     /\ UNCHANGED <<clock, timer, status, clearedAt, steady>>

ClearInterrupts(irqs) ==
  /\ irqs \cap status # {}
  /\ status' = status \ irqs
  /\ UNCHANGED <<clock, timer, stop, ghosts>>

-----------------------------------------------------------------------------
\* The loop looks at the timers: mh_timer_tick, then mh_power_tick.
Frozen == "FREEZERTC" \in control
PeriodNow == IF reload = 0 THEN 0 ELSE RtcNow \div reload
AlarmDue == ~Frozen /\ alarm # 0 /\ RtcNow >= alarm
PeriodicOn == "ENPERTIMER" \in control /\ reload # 0
PeriodDue == ~Frozen /\ PeriodicOn /\ PeriodNow # lastPeriod
StopDue == stop.armed /\ RtcNow >= stop.deadline
Due == {i \in TimerIrqs : \/ i = "ALARM" /\ AlarmDue
                          \/ i = "PER" /\ PeriodDue
                          \/ i = "STPTIMER" /\ StopDue}

\* Wrong on purpose: a period that ends while the interrupt is still pending is
\* not counted.
TickHoldsPeriod ==
  /\ status' = status \cup Due
  /\ lastPeriod' = IF Frozen \/ ("PER" \in status /\ PeriodNow > lastPeriod)
                   THEN lastPeriod ELSE PeriodNow
  /\ stop' = [stop EXCEPT !.armed = @ /\ ~StopDue]
  /\ sinceTick' = 0
  /\ steady' = TRUE
  /\ armedAt' = IF StopDue THEN NotArmed ELSE armedAt
  /\ UNCHANGED <<cycle, rtc, ref, control, alarm, reload, clearedAt>>

Tick ==
  /\ sinceTick > 0
  /\ status' = status \cup Due
  /\ lastPeriod' = IF Frozen THEN lastPeriod ELSE PeriodNow
  /\ stop' = [stop EXCEPT !.armed = @ /\ ~StopDue]
  /\ sinceTick' = 0
  /\ steady' = TRUE
  /\ armedAt' = IF StopDue THEN NotArmed ELSE armedAt
  /\ UNCHANGED <<cycle, rtc, ref, control, alarm, reload, clearedAt>>

GuestWrites ==
  \/ \E flags \in SUBSET Flags, clear \in BOOLEAN : WriteControl(flags, clear)
  \/ \E a \in Alarms : WriteAlarm(a)
  \/ \E r \in Reloads : WritePeriodic(r)
  \/ \E enable \in BOOLEAN, v \in StopVals : WriteStopTimer(enable, v)
  \/ \E irqs \in SUBSET TimerIrqs : ClearInterrupts(irqs)

TimerNext == Run \/ Tick \/ GuestWrites

TimerSpec == TimerInit /\ [][TimerNext]_timerVars

-----------------------------------------------------------------------------
\* The counter never goes back, except to zero on RTCCLR: rebasing it on a
\* control write loses the fraction of a tick and nothing more.
RtcMonotone ==
  [][RtcNow' >= RtcNow \/ (clearedAt' = cycle /\ rtc' = 0)]_timerVars

\* The counter never runs ahead of the crystal.
RtcNeverFast == RtcNow <= (cycle - clearedAt) \div CyclesPerTick

\* The clock's registers keep their types, and the counter its pace.
RtcOK == TimerTypeOK /\ RtcNeverFast

\* The stop timer never fires before STPTIMERVAL full ticks have gone by, in
\* whatever order the guest rewrites the clock's registers meanwhile.
StopTimerNeverEarly ==
  [][stop.armed /\ ~stop'.armed /\ stop'.enabled
       => cycle - armedAt.cycle > (armedAt.ticks - 1) * CyclesPerTick]_timerVars

\* While nobody touches its registers, the periodic timer counts every period:
\* no look at it finds that two have gone by.
NoPeriodSkipped ==
  (steady /\ ~Frozen /\ PeriodicOn) => PeriodNow - lastPeriod \in 0..1

=============================================================================
