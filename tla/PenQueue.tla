------------------------------ MODULE PenQueue ------------------------------
(***************************************************************************)
(* The pen of a 68k machine: mouse events of the host on their way to the  *)
(* guest's digitizer (frontend/sdl/pen_queue.h and the loop that uses it,  *)
(* gui68k_sdl.c).  The loop collects the host's events, then runs the      *)
(* guest up to each deadline of the queue and hands over what is due.      *)
(*                                                                         *)
(* Times are guest slots counted from now, each as far into the past as it *)
(* can matter: `in` is at - now, since is now - delivered_at.  A slot is   *)
(* 1/120 of a guest second.  The host's clock is known by the gap between  *)
(* the stamps of two events only, which may be anything the guest's lag    *)
(* makes of it.  Points are on one axis.                                   *)
(***************************************************************************)
EXTENDS Integers, Sequences, SequencesExt

CONSTANTS
  Points,       \* where the host may hold the mouse
  Step,         \* 16 pixels: the furthest the pen goes at once
  Sample,       \* hz / 60
  MinHold,      \* PEN_HOLD_INSNS
  Gaps,         \* guest slots between the stamps of two events
  MaxPending    \* bound on the queue when the host presses

Interval == 1   \* hz / 120

ASSUME PenAssumption ==
  /\ Points \subseteq Nat /\ Points # {}
  /\ Gaps \subseteq Nat /\ \E top \in Gaps : \A gap \in Gaps : gap <= top
  /\ {Step, Sample, MinHold, MaxPending} \subseteq Nat \ {0}

VARIABLES
  queue,      \* head to tail: [in, x, down, press]; a release also remembers
              \* in x where the host let go, which the code does not
  hold,       \* press_slot + min_hold - now, not below 0
  lastSlot,   \* last_slot - now
  started,    \* clock_started
  contact,    \* contact, delivered_x, contact_at + min_hold - now, now - delivered_at
  pen,        \* touch_down of the machine and the point its converter shows
  mouse,      \* mouse_down and the last point given to the queue
  background, \* display->backgrounded
  running,    \* the loop is at the guest, not at the host's events
  seen        \* history: for how long the queue has left the pen up or down,
              \* and at its point

vars == <<queue, hold, lastSlot, started, contact, pen, mouse, background,
          running, seen>>

Event == [in : Int, x : Nat, down : BOOLEAN, press : BOOLEAN]

TypeOK ==
  /\ queue \in Seq(Event)
  /\ hold \in Nat /\ lastSlot \in Int /\ started \in BOOLEAN
  /\ contact \in [down : BOOLEAN, x : Nat, left : 0..MinHold, since : 0..Sample]
  /\ pen \in [down : BOOLEAN, x : Nat]
  /\ mouse \in [down : BOOLEAN, x : Points]
  /\ background \in BOOLEAN /\ running \in BOOLEAN
  /\ seen \in [edge : 0..MinHold, point : 0..Sample]

Init ==
  /\ queue = <<>> /\ hold = 0 /\ lastSlot = 0 /\ started = FALSE
  /\ contact = [down |-> FALSE, x |-> 0, left |-> 0, since |-> Sample]
  /\ pen = [down |-> FALSE, x |-> 0]
  /\ mouse = [down |-> FALSE, x |-> CHOOSE p \in Points : TRUE]
  /\ background = FALSE /\ running = FALSE
  /\ seen = [edge |-> MinHold, point |-> Sample]

-----------------------------------------------------------------------------
\* mh_pen_enqueue

Motion(e) == e.down /\ ~e.press

\* What the stamp alone makes of the deadline: after the last one by the gap,
\* and neither before now nor more than a sample ahead.
Stamped(press, gap) ==
  IF ~started \/ (press /\ queue = <<>>)
  THEN 0
  ELSE Min({Max({lastSlot + gap, 0}), Sample})

\* Not before the tail, and a sample after the point the guest is to see first;
\* a release not before the press has lasted, either.
Deadline(press, down, gap) ==
  LET tails == {queue[i] : i \in {Len(queue)} \ {0}}
      seeFirst == {t \in tails : IF down THEN ~press /\ t.press ELSE Motion(t)}
  IN Max({Stamped(press, gap)}
             \cup {t.in : t \in tails}
             \cup {t.in + Sample : t \in seeFirst}
             \cup (IF down THEN {} ELSE {hold}))

\* Wrong on purpose: a motion that follows a motion is a new event.
EnqueueEach(press, down, x, gap) ==
  LET at == Deadline(press, down, gap)
  IN /\ queue' = Append(queue, [in |-> at, x |-> x, down |-> down, press |-> press])
     /\ lastSlot' = at
     /\ hold' = IF press THEN at + MinHold ELSE hold
     /\ started' = TRUE

\* A motion behind a motion replaces its point and keeps its deadline.
Enqueue(press, down, x, gap) ==
  LET at == Deadline(press, down, gap)
      merges == /\ queue # <<>>
                /\ down /\ ~press /\ Motion(Last(queue))
      event == [in |-> IF merges THEN Max({Last(queue).in, 0}) ELSE at,
                x |-> x, down |-> down, press |-> press]
  IN /\ queue' = Append(IF merges THEN Front(queue) ELSE queue, event)
     /\ lastSlot' = event.in
     /\ hold' = IF press THEN at + MinHold ELSE hold
     /\ started' = TRUE

-----------------------------------------------------------------------------
\* The host's events.

HostPresses ==
  /\ ~running /\ ~mouse.down
  /\ Len(queue) < MaxPending
  /\ \E x \in Points, gap \in Gaps :
       /\ Enqueue(TRUE, TRUE, x, gap)
       /\ mouse' = [down |-> TRUE, x |-> x]
  /\ UNCHANGED <<contact, pen, background, running, seen>>

HostMoves ==
  /\ ~running /\ mouse.down
  /\ \E x \in Points, gap \in Gaps :
       /\ Enqueue(FALSE, TRUE, x, gap)
       /\ mouse' = [down |-> TRUE, x |-> x]
  /\ UNCHANGED <<contact, pen, background, running, seen>>

\* The button comes up, or the mouse leaves the window, or the focus goes.
HostLifts ==
  /\ ~running /\ mouse.down
  /\ \E gap \in Gaps : Enqueue(FALSE, FALSE, mouse.x, gap)
  /\ mouse' = [mouse EXCEPT !.down = FALSE]
  /\ UNCHANGED <<contact, pen, background, running, seen>>

\* The application is sent to the background: what was queued is forgotten,
\* and the pen is lifted at once, which is no edge of the queue's.
HostHides ==
  /\ ~running /\ ~background
  /\ background' = TRUE
  /\ queue' = <<>>
  /\ pen' = [pen EXCEPT !.down = FALSE]
  /\ mouse' = [mouse EXCEPT !.down = FALSE]
  /\ seen' = [edge |-> MinHold, point |-> Sample]
  /\ UNCHANGED <<hold, lastSlot, started, contact, running>>

HostShows ==
  /\ ~running /\ background
  /\ background' = FALSE
  /\ UNCHANGED <<queue, hold, lastSlot, started, contact, pen, mouse, running, seen>>

-----------------------------------------------------------------------------
\* mh_pen_deliver

\* Wrong on purpose: a release waits as a motion does.
WaitShort(e) ==
  IF ~e.down \/ (Motion(e) /\ contact.down)
  THEN Max({Interval - contact.since, 0})
  ELSE 0

\* Wrong on purpose: a release waits from now, not from what was delivered.
WaitFromNow(e) ==
  IF e.press THEN 0
  ELSE IF ~e.down THEN Max({contact.left, Sample})
  ELSE IF contact.down THEN Max({Interval - contact.since, 0})
  ELSE 0

\* How long the head must still wait for what the guest has yet to see.
Wait(e) ==
  IF e.press THEN 0
  ELSE IF ~e.down THEN Max({contact.left, Sample - contact.since})
  ELSE IF contact.down THEN Max({Interval - contact.since, 0})
  ELSE 0

\* A motion takes the pen one step towards its point.
Toward(e) ==
  LET d == e.x - contact.x
  IN IF ~(Motion(e) /\ contact.down) THEN e.x
     ELSE IF d > Step THEN contact.x + Step
     ELSE IF d < -Step THEN contact.x - Step
     ELSE e.x

Due == queue # <<>> /\ Head(queue).in <= 0

\* The head is due but the guest has not seen enough: it gets a new deadline.
Defer ==
  /\ running /\ Due /\ Wait(Head(queue)) > 0
  /\ queue' = [queue EXCEPT ![1].in = Wait(Head(queue))]
  /\ UNCHANGED <<hold, lastSlot, started, contact, pen, mouse, background,
                 running, seen>>

\* touch_press_now and touch_release_now: a press of a pen that is down only
\* moves it, a release of one that is up does nothing.
PenTakes(e, x) ==
  /\ pen' = IF e.down THEN [down |-> TRUE, x |-> x] ELSE [pen EXCEPT !.down = FALSE]
  /\ seen' = [edge |-> IF pen.down = e.down THEN seen.edge ELSE 0,
              point |-> IF pen.down = e.down /\ pen.x = x THEN seen.point ELSE 0]

Deliver ==
  /\ running /\ Due /\ Wait(Head(queue)) = 0
  /\ LET e == Head(queue)
         x == Toward(e)
     IN /\ contact' = [down |-> e.down,
                       x |-> IF e.down THEN x ELSE contact.x,
                       left |-> IF e.press THEN MinHold ELSE contact.left,
                       since |-> 0]
        /\ queue' = IF x = e.x THEN Tail(queue)
                    ELSE [queue EXCEPT ![1].in = Interval]
        /\ PenTakes(e, x)
  /\ UNCHANGED <<hold, lastSlot, started, mouse, background, running>>

-----------------------------------------------------------------------------
\* The loop of gui68k_sdl.c.

\* The host's events are taken; nothing runs in the background.
StartFrame ==
  /\ ~running /\ ~background
  /\ running' = TRUE
  /\ UNCHANGED <<queue, hold, lastSlot, started, contact, pen, mouse, background, seen>>

\* The guest runs a slot: never past the deadline at the head.
Minus1(n) == Max({n - 1, 0})
Plus1(n, top) == Min({n + 1, top})

Elapse ==
  /\ running /\ ~Due
  /\ queue' = [i \in DOMAIN queue |-> [queue[i] EXCEPT !.in = Max({@ - 1, -Sample})]]
  /\ hold' = Minus1(hold)
  /\ lastSlot' = Max({lastSlot - 1, -Max(Gaps)})
  /\ contact' = [contact EXCEPT !.left = Minus1(@), !.since = Plus1(@, Sample)]
  /\ seen' = [edge |-> Plus1(seen.edge, MinHold), point |-> Plus1(seen.point, Sample)]
  /\ UNCHANGED <<started, pen, mouse, background, running>>

\* The frame's share of slots is used up.
EndFrame ==
  /\ running /\ ~Due
  /\ running' = FALSE
  /\ UNCHANGED <<queue, hold, lastSlot, started, contact, pen, mouse, background, seen>>

Host == HostPresses \/ HostMoves \/ HostLifts \/ HostHides \/ HostShows

Next == Host \/ StartFrame \/ Defer \/ Deliver \/ Elapse \/ EndFrame

Spec == Init /\ [][Next]_vars

\* The loop goes round, and wall time earns the guest slots again and again.
FairSpec == /\ Spec
            /\ WF_vars(StartFrame) /\ WF_vars(Defer \/ Deliver)
            /\ SF_vars(Elapse) /\ WF_vars(EndFrame)

-----------------------------------------------------------------------------
\* However the host moves and however late it is polled, the queue holds no
\* more than the edges and one motion of each contact, deadlines after each
\* other's but for the head's, and contacts one after the other: a press
\* follows a release only (pen_queue.h:7-9, test_pen_queue.c:18-24).
PenOK ==
  /\ TypeOK
  /\ \A i \in 2..Len(queue) :
       /\ i > 2 => queue[i - 1].in <= queue[i].in
       /\ ~(Motion(queue[i - 1]) /\ Motion(queue[i]))
       /\ queue[i].press = ~queue[i - 1].down
  /\ queue # <<>> => mouse.down = Last(queue).down
  /\ queue # <<>> => pen.down = ~Head(queue).press

\* A contact is whole: the pen is lifted when it has been down for the
\* promised time and at its point for a sample, which is the point where the
\* host let go; and while down it goes no further than a step at a time, with
\* an interval in between (pen_queue.h:104-137).
ContactIsWhole ==
  /\ pen.down /\ ~pen'.down =>
       /\ seen.edge = MinHold
       /\ seen.point = Sample
       /\ pen.x = Head(queue).x
  /\ pen.down /\ pen'.down /\ pen'.x # pen.x =>
       /\ pen'.x - pen.x \in -Step..Step
       /\ seen.point >= Interval

ContactsAreWhole == [][~HostHides => ContactIsWhole]_vars

\* When the host is done with the mouse, the guest gets to the end of it: the
\* last contact is over and nothing waits, however late the guest was.
RestsTogether ==
  <>[](~mouse.down /\ ~background) => <>[](queue = <<>> /\ ~pen.down)

\* "The live queue now keeps press/release edges" and "splits execution at
\* queued pen deadlines" (docs/HIX300.md:173-175): the guest runs between two
\* edges of the pen, so that it can see both.
EdgesKept == [][Deliver /\ pen'.down # pen.down => seen.edge > 0]_vars
=============================================================================
