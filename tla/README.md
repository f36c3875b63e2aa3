# MagicHat: a verification project

TLA+ models of MagicHat, an emulator of two families of Magic Cap
communicators: the General Magic DataRover 840 (a MIPS R3900 with a TX39
companion chip) and the 68349 machines (Sony PIC-2000, Motorola Envoy).  Line
numbers are those of the files under `src/src/`.

The models are about the places where several actors share a piece of state:
the guest's program, which may do any register access at any time; the machine
loop, which looks at the devices once per chunk of at most 1024 instructions;
the host, which inserts cards, types and installs packages between two runs of
the loop; and the program at the other end of a serial line.  What a single
instruction computes, and what a window looks like, is not modelled.

## 1. Inventory

### The machines and how they run

`mh_machine_run` (machine.c:326) is a loop on one thread.  Each turn runs the
CPU for a chunk, by the interpreter, the decode cache or the native engine;
then `mh_tx39_tick` looks at the timers, the UARTs, the sound and the codec;
then the loop serves the keyboard, the power button, the cards, the scripted
inputs, the serial lines and the console.  Guest accesses reach the devices
synchronously, through the bus.  The front ends call the loop for one frame at
a time and act on the machine between two calls.  So there are three sources
of interleaving: where in a chunk the guest accesses a register; what the
guest does between two looks at a device; and what the host does between two
calls.

`mh_m68k_run` (machine68k.cpp:1929) is the loop of the 68k machines.  Its
slow way does the device work after every instruction; three fast ways skip
it as long as nothing can be due: a stopped processor is carried to the next
event, a running one goes quietly, one instruction at a time or in stretches
of the block engine.  Their hard question is the same everywhere: does the
fast way see what the slow way would have seen.

| component | state it keeps | operations | who else touches it | what makes it correct |
|---|---|---|---|---|
| card sockets (machine.c) | card kind, detect lines, shared interrupt line | insert, eject, loop, guest windows | Glacier, ICU, cards, suspend | no card interrupt is lost; every card request is served; the guest learns of every card that comes and goes |
| Glacier (glacier.c) | pins, edge latches, enables | drive pins, guest reads and writes | sockets | edges are latched whether enabled or not |
| ICU (tx39_icu.c) | status, enables, two CPU lines | raise, clear, enable | every TX39 device | the CPU's lines are what the registers say |
| timers (tx39_timer.c, stop timer of tx39_power.c) | counter base, alarm, reload, last period, deadline | register writes, tick | ICU, cycle count | the counter follows the crystal; no period skipped; no timer early |
| power (tx39_power.c, machine.c:298) | power outputs, button, stopped flag | guest write, button, power off | loop, front end | the button's edges are latched once each |
| UART (tx39_uart.c) | shift and hold registers, receiver, timing | register accesses, tick, delivery | ICU, link, console, keys | no byte lost without an overrun, none overwritten, no event lost |
| SIB and codec (tx39_sib.c, ucb1100.c) | ring offset, owed samples, codec registers, pen | tick, register accesses | ICU, front end | one interrupt per half ring; touch edges are seen |
| MagicBus (tx39_mbus.c, keyboard.c) | DMA progress, scan queue, held keys | packets, service, host keys | ICU, front end | no release lost, no scan code sent twice |
| NE2000 (ne2000.c) | receive ring, registers, remote DMA, transmit timing | ports, receive, tick | sockets, network, guest's driver | unread packets are not overwritten; a frame leaves once, as requested |
| modem card (modem_card.c) | command state, receive queue | ports, tick | sockets, PPP | no result is cut |
| native engine (jit/) | block table, arena, links in the code | find, compile, flush, link, run | CPU, bus | native code is where the guest is |
| bus (bus.c) | regions, generation | map, read, write | everything | the generation moves with the map |
| package link (pclink.c) | queues, window, conversation | from guest, to guest, polls | UART or DUART, PPP | the package arrives once and whole, and DONE says so |
| PPP endpoint (ppp.c) | command or data mode, negotiation, the one request kept, transmit ring | bytes, frames, packets | DUART or modem, network | both layers open at both ends, with the same values |
| suspend, snapshot | files | save, load | all device state | what is loaded is a state the machine can be in |
| 68k run loop (machine68k.cpp) | dev21 registers, timers in slots, interrupt level, sleep and power | run, post_slot, power button, pen | 68k core, front end | no fast way through a slot runs past an event or an interrupt |
| DUART, SIM, 68k MagicBus (duart.cpp, sim.cpp, magicbus.cpp) | registers, packets | loop, accesses | pclink, PPP | as for the DataRover's |
| pen queue (pen_queue.h, gui68k_sdl.c) | queued edges and motion, contact | host's events, delivery | run loop, front end | edges of the pen and the contact's length survive |
| front ends | panels, registry | events | the runtime table | |

`PROJECT.json` lists every component with its files, and the hazards of the
code line by line with the properties that cover them.

### Which behaviours are hard

* **Edges behind edges.**  A card's request passes five stages, each of which
  remembers transitions only, and which are refreshed by one function called
  from many places (machine.c:17).  A refresh missing on one path loses the
  request in an order of events no test was written for.
* **Lazy devices.**  Timers and UARTs have no events of their own; their state
  is a function of the cycle count that is brought up to date when somebody
  looks.  The properties relate what is seen at two looks with anything in
  between.
* **Windows that wrap, memory that runs out.**  The package link numbers
  messages modulo 65536, keeps a window of one or three, and can fail to
  allocate at every step.
* **Rings and re-entry.**  The Ethernet chip's ring is shared with a driver
  that moves the boundary when it likes, and a frame may come in while one is
  being sent.
* **Negotiation over a thin line.**  The PPP endpoint keeps one request for
  two layers, never asks twice, and drops what its ring has no room for.
* **Two clocks.**  Mouse events are stamped by the host's clock and delivered
  by the guest's; a guest that lags must still see every contact.
* **Code as a cache.**  The native engine throws its whole arena away in the
  middle of a look-up, patches code it may just have thrown away, and relies
  on guards in place of write notification.

## 2. Modules

| module | models | composed of |
|---|---|---|
| `Glacier` | one controller, as operations on a record | |
| `Tx39Icu` | the interrupt controller, as operations on a record | |
| `CardIrq` | sockets, cards' requests, shared line, ICU, with an arbitrary guest | `Glacier`, `Tx39Icu` (INSTANCE) |
| `CardDriver` | the same board with the guest's interrupt handler | `CardIrq` |
| `Tx39Timer` | counter, alarm, periodic timer, stop timer | |
| `Tx39Uart` | one UART, the loop and the host's three feeders | |
| `Tx39Uart_proofs` | the theorems about `Tx39Uart` | `Tx39Uart`, `TLAPS` |
| `PackageTransfer` | abstract: what installing a package promises | |
| `GmtpLink` | the package link to a 68k guest | implements `PackageTransfer` |
| `GmtpLink_proofs` | the theorems about `GmtpLink` | `GmtpLink`, `TLAPS` |
| `MagicBusKeyboard` | the DataRover's keyboard, its bus controller, the guest's driver and the host's keys | |
| `DataRover_proofs` | the theorems about `CardIrq`, `Tx39Timer` and `MagicBusKeyboard` | these three, `TLAPS` |
| `JitCache` | block table, arena, links, guards and the run loop | |
| `JitCache_proofs` | the theorems about `JitCache` | `JitCache`, `TLAPS` |
| `Pic2000Run` | the 68k run loop with its fast ways, timers, conversions, interrupt line, power and pen | |
| `Pic2000Run_proofs` | the theorems about `Pic2000Run` | `Pic2000Run`, `TLAPS` |
| `Ne2000` | the Ethernet chip, as operations on a record | |
| `Ne2000Driver` | the chip between the loop, the network and the guest's driver | `Ne2000` |
| `Ne2000Driver_proofs` | the theorems about `Ne2000Driver` | `Ne2000Driver`, `TLAPS` |
| `DialUp` | the modem and PPP endpoint, and a guest that dials | |
| `DialUp_proofs` | the theorems about `DialUp` | `DialUp`, `TLAPS` |
| `PenQueue` | the pen queue between the mouse and the guest | |
| `PenQueue_proofs` | the theorems about `PenQueue` | `PenQueue`, `TLAPS` |
| `MC...` | the instances | |

### `CardIrq`, `Glacier`, `Tx39Icu`

`kind[s]` and `cardIn[s]` are `card[s].kind` and `card_in[s]`; `nic[s]` is the
NE2000's isr and imr, with one interrupt of the kind the loop sets ("rx") and
one of the kind a guest access sets ("rdc"); `glacier[s]` is the controller;
`line` is bit 1 of `io_datain`; `icu` holds bank 3 bit 2 and the stored CPU
lines.  `CardIrqUpdate` is `card_irq_update`: pins, line, and the ICU on the
line's rising edge.  Every guest access to a controller or to a card's window
ends in it, as in the code; `MachineTick` is the card part of one turn of the
loop (machine.c:375-407); `EjectCard` is `mh_machine_eject_card`, which does
not call it; `ResumeWithOtherCard` is `mh_suspend_load` in a session that has
another card in the slot.

Two variables stand for no code: `ackedLow` and `ackedHigh` remember that the
guest acknowledged an edge while its level still stood.  They are what makes
"lost" precise: an edge the guest has not acknowledged must be latched.

`Tx39Icu` keeps the early return of `mh_icu_raise` and the stored lines, so
that `CpuLineFollowsIcu` says something about the code: the lines are right
although the raise does not always recompute them.  It is proved, and its
consequence, that every request is served, is what the run checks.

`CardDriver` replaces the arbitrary guest by the order of accesses that
docs/NETWORKING.md and the comments in glacier.c report of Magic Cap's handler
and network driver.  The guest is not under `src/`; its definitions are
external in the map.  One thing about it is assumed: the handler scans until
neither controller has an enabled edge pending.  The host inserts, ejects and
resumes with another card between any two of its accesses.

### `Tx39Timer`

`RtcNow` is `mh_timer_rtc_now`; `rtc` and `ref` are the base it is derived
from.  `Run` is one cycle, `Tick` the loop's look (`mh_timer_tick` and
`mh_power_tick`), the rest are register writes.  `clearedAt`, `armedAt` and
`steady` remember what the properties are about.  Left out: the 40-bit width
(at 32768 Hz it wraps after more than a year), FREEZEPRE and FREEZETIMER (the
code ignores them); the power button is planned.

### `Tx39Uart`

`shift`, `hold` and `left` are the transmitter and the cycles the byte on the
wire has left; `Updated` is `mh_uart_update`, applied by every operation that
calls it.  `Loop` is the tick and the turn of the serial link or the console,
`HostTypes` the key of runtime.c:20.  Bytes are numbered so that order and
loss can be told apart.  Left out: DMA (its registers are stored only), the
pty on the host's side, the second UART (the same code).

### `MagicBusKeyboard`

`kb` is `mh_dr_keyboard` with its scan queue, the line of its port and the
three MBUS sources of the ICU that matter.  The functions of the code are
operators on it: `RequestLine`, `ReleaseKeys` (one `ReleaseLowest` for each
break that waits), `Transmit`, one operator per command, and `Served` and
`Unserved`, the two ends of `mh_dr_keyboard_service`.  The service works on a copy of the queue; the model
says so by leaving the queue alone in `Unserved`.  The driver is the guest's
(external): discovery, identity, information, then poll, request and scan
packets, writes and rediscovery in the order of docs/KEYBOARD.md and of
test_datarover_keyboard.c.  It may listen with a buffer that is too short or
not mapped, and may give up before the loop has served it.  Two things are
assumed of it: it asks again after a failed packet, and it asks for a request
packet only when a poll leaves the line high.  Without either the code can end
with `notified` set, codes in the queue and the line low, because nothing but
a scan read, or a write that leaves the queue empty, ends a request that was
told (keyboard.c:20, 68, 166-169).  `unseen` remembers the keys that were down
when the driver reset the keyboard, which empties the queue and makes the
driver take every key to be up.  Left out: the line's sample after command 21
(a key pressed just then makes it look like another device), LEDs and the
repeat rate, half-buffer interrupts, saving and restoring.

### `PackageTransfer` and `GmtpLink`

`host` is the part of `struct mh_pclink` that decides anything; `out` and
`pending` are its two queues; `guest` is the other end as pclink.c expects it
(external).  A message is a command and a number modulo `Wrap`.
`EmitAll` is `emit_ppp` with `ppp_queue_wire`, `Acked` is `ppp_acked`,
`Handle` is `handle`.  Each operation takes a fault: the message at which an
allocation fails, noticed (the link fails) or not (`emit_ppp` reports to
nobody).  A frame to the guest arrives when its last byte leaves the queue,
because the UART asks for bytes; a frame to the host can be damaged and is
then dropped.  Left out: bytes, escapes and checksums; the split of a datagram
over allocations inside one queue operation; the MIPS transport.

### `JitCache`

The arena is the sequence of emitted blocks, a table way is an address and an
index into it, and a block holds its address, the word it was compiled from
and where its two link sites lead, and as history the address its way was left
with (`filed`: a flush inside `compile` blanks the way that is being filled,
which then answers for address 0).  `Found` is `mh_jit_find` with the code's
choice of a victim; `Compile` flushes a full arena and the table with it;
`Resolved` redirects a site unless a flush came between.  A block is one word
of code: a jump, an indirect jump that looks the table up from native code, or
a helper's instruction, after which the bus map may have moved.  Any
instruction may rewrite a word.  `old` remembers that the map changed after a
block was compiled, `idle` counts the steps since the last instruction.  Left
out: what instructions compute; blocks of several words (the documented limit
on code that rewrites itself inside a block is not visible); sets other than
that of address 0, to which what a blanked way does is confined; the two mappings of the arena.

### `Pic2000Run`

Time is counted in slots, the unit of `m->slots`.  `dev` is the part of dev21
that decides when something happens: which events are armed and how many slots
each has left, the pending and enabled sources, the level and `irq_dirty`.
`Fired`, `Sampled` and `Lined` are the three parts of `post_slot` that matter,
in its order.  `IdleSkip`, `QuietStep`, the stretch actions and `SlowSlot` are
the ways through a slot, `MaySkip` and `MayGoQuietly` the conditions under
which the code takes the first three.  `Unseen` is the set of conversions
`next_idle_deadline` does not look at, which depends on the machine: a fact of
the code, kept as a constant.  An instruction accesses a device, sets the mask,
sleeps or turns the device off, or does none of this.  `waited` counts the
slots in which an admitted interrupt was overlooked.  Left out: register
contents, the serial port, the network card and the accessory bus that
`post_slot` serves too, scripted input, diagnostics, the HIX-300's switch.

### `Ne2000` and `Ne2000Driver`

The ring is its pages; a page holds the frame, the part of it, and the header
of the frame.  `Receive`, `Transmit`, `Command`, `Advance` follow
`mh_ne2000_receive`, `transmit`, the command register and `advance`; what the
tick does is `Sent` and `Completed`, with the network or the loop-back in
between, which may call `Receive`.  The driver is the guest's (external), in
the order of accesses docs/NETWORKING.md reports.  It may write the boundary
past the end of the ring when a frame ends there, may ask to transmit while a
frame is under way or with a bad length, and may stop, restart or reset the
chip.  `queue` and `flight` are what the chip promised: frames stored and not
read, frames requested and not sent.  Left out: PROM, address filters, byte
accesses, checksums.

### `DialUp`

`host` is the part of `struct mh_ppp` that decides anything, `out` its
transmit ring in frames.  Operators named after what the endpoint is given
(`TakeRequest`, `TakeAck`, `TakeNak`, `TakeTerminate`, `TakeLine`,
`TakeStray`) are the functions of ppp.c on the pair of both; `Push` drops what
does not fit, as `send_frame` does.  The guest (external) is the peer of
RFC 1661, with its restart timer and counter; no guest program is known to do
this.  A frame may be lost in either direction, because a guest that resets
its receiver or transmitter loses it (duart.cpp:111).  One loss is left out,
that of CONNECT: see section 5.

### `PenQueue`

Every time is relative to now and kept no further into the past than it can
matter, which keeps the state space finite without a bound on the run.
`Enqueue` and `Deliver` are `mh_pen_enqueue` and `mh_pen_deliver`; `Defer` is
the latter finding that the guest has not yet seen enough.  The host's actions
are the events of gui68k_sdl.c and of display.c, `StartFrame`, `Elapse` and
`EndFrame` its loop.  The gap between the stamps of two events is any, because
the host's clock and the guest's drift apart by any lag.  `seen` is history.
Left out: the second axis, failed allocation, which ends the program.

## 3. Runs

Twelve runs, one question each.

| run | bounds | shows |
|---|---|---|
| `card_driver` | two slots with network cards, two frames, three host actions | no card interrupt is lost and the line lags on removal only; under fairness every request is served whatever the other slot does with the line, every insertion is noticed |
| `card_removal` (violation) | one slot | the removal of the last card is not reported |
| `timers` | 3 cycles per tick, looks every 1-2 cycles, 10 cycles, periods of 1 and 2 ticks | the counter neither goes back nor runs fast; no period is skipped; the stop timer is never early |
| `uart` | frames of 2-3 cycles, looks every 1-2, 3 bytes out, 2 in | no silent loss, no overwrite, no lost event; under fairness the transmitter drains |
| `keyboard` | a plain and an extended key, a queue of 4 bytes read 2 at a time, 2 makes, one bad or late packet, one write, poll or rediscovery | what the driver takes to be down is what the host holds; no wake-up edge is lost; under fairness all of it arrives |
| `gmtp` | windows 1 and 3, numbers modulo 4, 3 parts, one failed allocation anywhere, a damaged frame, a repeated message, a guest that chatters | window kept, nothing counted as acknowledged that was not taken, `PackageTransfer` implemented; under fairness, without a failure the package is installed |
| `jit` | 2 addresses with code, 0 and 1, and 1 without, 2 ways, an arena of 2 | native code is where the guest is and links lead where they should, address 0 excepted; no block outlives its bus map, the guest gets on |
| `pic_run` | a sample of 3 slots, conversions of 2, delays 0 and 2, calls of 4 slots, a button held for 2 | timers and samples on time, conversions at most a sample late, the level is that of the registers, an interrupt waits at most a sample; under fairness a sleeper wakes |
| `ne2000` | a ring of 4 pages, frames of 1 and 2, 3 arrivals, 2 sends, one stop or reset | the ring holds what was not read, whole and linked; only a boundary outside it lets the chip run over it; frames leave once; under fairness all is read |
| `dialup` | identifiers modulo 4, a ring of 3 frames, one lost frame, one repeat, one refusal, 2 packets | both ends hold the same values, the request kept is the one awaited, up at one end means up at the other; under fairness the network is reached again and again, unless CONNECT or both Terminate-Requests are lost |
| `pen` | three points in steps of 1, a hold of 3 slots, a sample of 2, gaps 0, 1 and 3, presses up to 3 events queued | queue bounded and in order, contacts whole; under fairness queue and pen come to rest with the host |
| `pen_edges` (violation) | the same | two edges of the pen are handed over without a run of the guest in between |

### Why these bounds are enough to be interesting

* Cards: three host actions give insert, eject, insert, which is where a
  latch of the first card meets the second; two slots are what makes the
  shared line matter.  An arbitrary guest in place of the driver is covered
  by the proofs, for any number of slots.
* Timers: 3 cycles per tick and looks of 1 or 2 make every alignment of a look
  and a write with a tick happen; 10 cycles are three ticks and a fraction,
  which is what a rebase and a re-arming need, and, with a period of one tick,
  a period that comes after two others.  The code's ratio,
  1125 to 1024, is the same case: a chunk is shorter than a tick.
* UART: a frame is at least a chunk long, as the fastest the register can
  program is (1440 cycles to 1024); three bytes fill the shift register, the
  hold register, and one more.
* Link: numbers modulo 4 wrap twice in a transfer of two greetings, an offer,
  three parts and the pongs, with a window of 3, the largest the modulus
  allows; the window of 1 is the other the code uses.
* Keyboard: an extended key's make leaves no room for its break, so a break
  waits in a queue of 4, and a packet of 2 bytes ends inside a break; two makes
  are a key pressed again while its break waits.
* Engine: two ways and three addresses force replacement; an arena of two
  blocks is flushed while a site of either is being redirected; address 0 is
  among the code, so that a blanked way can be found, and jumps lead to the
  address without a block too, where nothing is redirected.
* 68k loop: calls of 4 slots end before, with and after a sample of 3; delays
  of 0 and 2 put a timer in the past and, as the phase of the sample varies,
  before, with and after the next one; a conversion is shorter than a sample,
  as in the code.
* Ethernet: three arrivals of up to two pages go once around a ring of four
  pages and meet its end in every alignment; two sends are one under way and
  one asked for too early.
* Dial-up: four identifiers tell apart the requests one call can have under
  way; a ring of three frames is full when both layers answer at once, and
  drops a request then.
* Pen: a hold longer than a sample and a gesture across three steps; queues of
  three events hold the end of one contact and the start of the next.  The
  ratio of the code, a hold of 7 intervals and presses up to 4 events queued,
  was checked once with the same result.

The bounds proper are `MaxChanges`, `MaxArrivals`, `MaxCycles`, `MaxWritten`,
`MaxDelivered`, `MaxFailures`, `MaxLost`, `MaxRepeats`, `MaxPings`,
`MaxChatter`, `MaxTyped`, `MaxWhims`, `MaxFaults`, `MaxSends`, `MaxNaks`,
`MaxIp` and `MaxPending`: they alone stop an action of a model; everything
else is a size of the configuration.  Runs whose model ends when a bound is
used up say `CHECK_DEADLOCK FALSE`; the others check deadlock.

### Fairness

* `DriverSpec`: weak fairness of the guest's next step and of the loop.  Both
  are the one thread of `mh_machine_run`, which alternates them as long as the
  host calls it.  Host actions are not fair.
* `Tx39Uart!FairSpec`: weak fairness of a cycle and of a look, for the same
  reason.  No guest access is fair.
* `MagicBusKeyboard!KeyboardFairSpec`: weak fairness of the service, which the
  loop calls after every chunk, and of the driver's next step.  The host's keys are
  not fair, nor are writes and rediscovery begun.
* `GmtpLink!FairSpec`: the host side takes what is on the wire, pings and
  sends, which the loop does whenever the guest's receiver has room; the guest
  acknowledges and sends what it has to say.  The last is an assumption about
  the guest: it waits for its package.  Failures, damage and chatter are not
  fair.
* `Pic2000Run!FairSpec`: weak fairness of the loop as a whole and of the front
  end's next call.  Which way a slot takes is the code's, what an instruction
  does is not fair.
* `Ne2000Driver!FairSpec`: the loop ticks the chip after every chunk; the
  guest's handler goes on.  Arrivals, sends, stops and resets are not fair.
* `DialUp!FairSpec`: the machine drains the line whenever the guest runs, the
  stack answers; the guest reads its line, dials, and its restart timer runs
  out when nothing is on the way.  The last three are assumptions about the
  guest.  Losses, refusals and repeats are not fair.
* `PenQueue!FairSpec`: weak fairness of the loop's steps, strong fairness of
  `Elapse`: a frame may end without a slot run when little wall time has gone
  by, but wall time keeps earning the guest slots, so a guest that can run
  again and again does.

That the guest gets on in `JitCache` is stated with a bound on the steps in
between and needs no fairness.

## 4. Proofs

TLC shows a property for the configuration of a run; the theorems show it for
every value of the constants that satisfies the module's `ASSUME`, which is all
they assume.  Each follows the same argument: an inductive invariant `IInv`,
`Init => IInv`, `IInv /\ [Next]_vars => IInv'` with one lemma per action, and
the property from `IInv`.  Properties named `...OK` are the type invariant
joined with one safety property.  `DataRover_proofs` extends three independent
models, two of which therefore carry their name in their definitions
(`TimerSpec`, `KeyboardSpec`).

Two models compute over sequences: the pages of the frames in the Ethernet
ring, and what a driver makes of a row of scan codes.  Both operators are
recursive functions over the places of the sequence, and what they give is
shown without an induction principle: `Least` gives the least element of a set
of numbers, `UpTo` concludes that a set that holds 0, and with each number up
to n the next one, holds them all, and the set is that of the places where the
claim holds.

**`DataRover_proofs`, sockets** (any number of slots, any masks, an arbitrary
guest): `TypeOK`, `PinFollowsCard`, `NoLostCardIrq`, `LineLagsOnRemovalOnly`,
`CpuLineFollowsIcu`.  A card's request travels through request, pin, latch,
line, ICU and CPU, and the code forwards transitions only.  The invariant has
one conjunct per link of this chain, `PinFollowsCard`, `FallLatched`,
`LineLagsOnRemovalOnly`, `RiseLatched` and `CpuLineFollowsIcu`, each saying
that what stands before the link is visible behind it or was acknowledged, and
two that keep absent cards out of it, `NoEmptyDetect` and `NoGhostCard`.  The
lemma `UpdateKeepsIInv` is the reason the comment at machine.c:12-16 gives:
whatever has become of the cards, `card_irq_update` restores every link.
Ejection and resumption do not call it, and that is where the line may lag.

**`Tx39Uart_proofs`** (any frame and chunk lengths, any bytes): `TypeOK`,
`NoSilentTxLoss`, `RxNeverOverwritten`, `NoLostUartEvent`.  `GoodWire` is the
heart of it: what was sent, then the shift register, then the hold register
are in increasing order and without a gap unless an overrun was signalled.

**`DataRover_proofs`, clock** (any number of cycles per tick, any reload and
stop values): `RtcOK`, `RtcMonotone`, `StopTimerNeverEarly`, `NoPeriodSkipped`.
The counter is a whole number of ticks, so the argument is about positions:
`NotAhead` says that the base and what was cleared, in cycles, lie at or before
the reference, `DeadlineFar` that the deadline is as far from the arming as it
was set, `PeriodCounted` that the last period handed out is the one the counter
was in at the last look.

**`DataRover_proofs`, keyboard** (any keys and any of them extended, any
capacity of the scan queue, any size of packet, any number of keys typed, of
packets that fail and of writes and rediscoveries): `KeysMatch` and `WakeOK`,
hence `KeyboardTypeOK`.  `KeysMatch` compares what the driver *will* believe,
once it has read what is on its way, with what the host holds.  `DecodeConcat`
is what makes that bearable: hearing one packet and then another is hearing
both in a row, so a scan code that moves from the queue into the driver's
buffer (`ServedKeeps`, by `SplitQueue`), and from there into what it believes
(`FinishesStep`), changes nothing.  Only a make or a break that enters the
queue does, and `CodesAre` says what: the key, and no prefix left over.  Hence
the invariant has the prefix as well (`Matches`), and that no key is both held
and waiting for its break, without which a break that goes in late would lift a
key that is down again.  The wake-up needs to know where the exchange stands
(`Exchange`, `Selected`): the line is right from the moment the identity packet was served
(`Fresh` in `Attention`), `notified` is set exactly between a request that was
served and its scan packet, and the driver is in `request` only while there are
codes, so that the packet it gets there is never empty and the request it was
told of is always followed by a read.

**`Pic2000Run_proofs`** (any sample length, delays, conversion lengths and
lengths of a call): `TypeOK`, `LineIsFresh`, `InterruptsBounded`,
`TimersOnTime`, `ConversionsBounded`.  The invariant says what holds within a
call: slots are left; a quiet or stretched slot means a running processor with
nothing to serve and no more than a sample waited; within a stretch, what was
waited and what is left to the sample never exceed one; and a stopped processor
has no timer in its past.  This is what the fast ways have to see to.

**`JitCache_proofs`** (any code, ways and arena): `RunsTheGuest`, `LinksOK`,
`NoCodeAcrossMaps`.  The invariant says that the cache is sound (`CacheOK`:
redirected sites lead to the address they stand for, a way names a block that
was filed under its address, and no other way names that block), that no block
of an older map is left while the map is unchanged (`MapOK`), and where the
guest and a waiting site are (`PlacesOK`).  The lemma that carries it is `FoundOk`, about `mh_jit_find`:
what it returns is a block of the address asked for, or for address 0 the first
of the arena, and unless it flushed, every block is where it was, so that the
waiting site is still there.  A block is filed under another address than its
own only if a flush came before it, so it is the arena's first and its way says
0 (`SlotsOK`): hence the exception in both properties, and that a guest which
keeps away from address 0 needs none (`KeyedWithoutZero`).
`GuestGetsOn` is proved on top of it: links that stale sites were given climb
in the arena (`Climbs`), because a recompiled block lies behind all others, so
a chain of stale blocks is at most as long as the arena; and the block the loop
finds after a recompilation is that of the present word (`UpToDate`), so it is
not stale again.  The bound is five steps more than the
arena holds blocks, whatever the guest writes over its own code.

**`GmtpLink_proofs`** (any length of package, any modulus larger than the
window, any number of damaged frames, repeats, pings and unasked commands):
`WindowOK`, `AckedWasTaken` and the refinement `Implements`.  A frame shows its
number modulo `Wrap`; what the proof is about is the whole number behind it.
So the invariant puts a sequence of places next to each channel: `Sound` for
what the guest still has to hear, `Heard` for what the host has.  Messages are
placed one after the other within a window of the last acknowledged one, hence
what a frame shows names one place (`ShownDiffer`), and an acknowledgement
advances by its distance (`ShownDistance`).  A second numbering, `Parcel`,
counts the numbers that were spent as well: a message lost without a word in
`emit_ppp` makes the numbers on the wire run ahead of what is sent.  With it
the parts of the package are the messages `base` .. `base + count - 1` and
nothing else (`Cut`), and the guest, which wants the next number, has as many
parts as it has taken messages from there (`Delivered`).  `Offer` ties that to
`packageEnd`, so that a package acknowledged to its end was delivered
(`AllDelivered`), which is what DONE needs.

The first two theorems assume nothing but `LinkAssumption`.  `LinkImplements`
has a hypothesis, `FewFailures`: the failed allocations and the window together
do not exceed the modulus (65536 in the code, so at most 65533 failures in a
session with a direct link).  It is needed: with one failure more TLC finds a
guest that takes the message of the next turn of the numbers for the one it
waits for, because nobody sent that one.

**`PenQueue_proofs`** (any points, step, sample and hold, any lag of the guest
and any length of the queue): `PenOK` and the action property
`ContactsAreWhole`.  Neither is inductive.  The invariant adds what the code
never writes down: a release stands where the event before it sent the pen
(`Behind`), the head starts where the pen is and the tail ends where the mouse
is (`Ends`, with the queue empty: they agree), and while the pen is down the
queue believes the contact to be no older than the guest has seen it
(`Knows`).  Then a release that waits for nothing has no hold left and a sample
behind it, so the guest has seen both; and the release's point, which the code
drops, is where the pen is.  `DeadlineIsLast` is the lemma the order rests on: a
new deadline is the largest of at most four, the tail's among them.

**`DialUp_proofs`** (any modulus of the identifiers above 1, any size of the
ring, any number of lost, repeated and refused frames): `Agreement`,
`RequestOK` and `UpAtBothEnds`.  The endpoint tells an acknowledgement from
another by comparing it with the one request it keeps, so the argument is that
there is nothing to mistake it for.  A request of the endpoint's is one thing
that is passed on: it is in the ring, or the guest's answer to it is on the
line, or it is gone (`OneRequest`), and whatever of it is under way bears the
identifier and the value the endpoint now awaits (`OutAllowed`, `LineAllowed`).
A refusal makes a new request only when the old one's answer was taken, and the
second layer is asked for only when the first is acknowledged (`HostOK`), which
is why one buffer is enough for two layers and why the modulus may be as small
as 2.  A guest that dials finds nothing of an earlier call on its way
(`DialOK`), because it waits until all is quiet.  `UpAtBothEnds` needs two
facts more: the guest comes to a layer only after the endpoint has accepted its
request (`Layers`), and what the guest gave has come to the endpoint or is on
the line, until something is lost (`Comes`).

**`Ne2000Driver_proofs`** (any ring of at least three pages, frames of any
sizes that fit it, any modes, and any value the driver writes to the boundary
register for a frame that ends with the ring): `TransmitterOK`,
`RingHoldsUnread`, `InRingBoundaryProtects` and `ReadsWholeFrames`.  Places are
counted from the page the driver reads next, so that the wrap of the ring is
met in one lemma and nowhere else; the frames the driver has not read then take
the pages from 0 to `PagesOf(queue)`, the chip's page comes behind them, and a
frame that is stored begins there.  The invariant: `RingOK` (until a frame was
lost to a bad boundary, the ring holds the unread frames, one behind the other,
and the boundary register, if it is in the ring, is the page before them),
`ReadingOK` (which part of the oldest frame the handler has in hand and where
the remote DMA stands, at each of its steps), `FillOK` (a frame to send is
written to the transmit page, which is not in the ring), `OffOK` and `OnOK`
(what the driver may rely on before and after it has set the chip up),
`SentOnceAsRequested` (what is under way is one frame, the one requested),
`StoppedSaysSo` (a chip that stopped has RST set) and `Kinds`.  `FitsBehind` is
the reason the chip's one comparison suffices: the distance from its page to
the boundary, around the ring, is what the unread frames leave free.

Only model-checked are the liveness properties: `RequestServed`,
`InsertionNoticed`, `TransmitterDrains`, `Settles`, `Completes`, `SleeperWakes`,
`AllRead`, `Connects` and `RestsTogether`.  They need fairness and `ENABLED`,
which are out of the prover's reach.  Every safety property of the runs that
pass is a theorem, `Implements` with the hypothesis named above.

## 5. Where the code and what is said of it differ

Two runs end in a violation.

1. `card_removal`: `mh_machine_eject_card` latches the detect edge but does
   not update the board, and the loop updates it only while some socket holds
   a card, so after the last card is out the guest is not interrupted
   (machine.c:729, 406), although the comment at 722 says the guest stops
   believing what it cached.
2. `pen_edges`: a press polled in the same batch as the release before it is
   queued for the same slot (pen_queue.h:47) and waits for nothing when it is
   delivered (92-98): the guest finds the pen still down and never sees it up,
   although docs/HIX300.md:173 says the queue keeps press and release edges.
   If the second tap is elsewhere, it sees a stroke between the two.

Seen while modelling, and not run:

* `rtc_sync` drops the fraction of a tick at every write to TIMERCONTROL
  (tx39_timer.c:50), although the counter is described as free running and
  correct however coarsely it is ticked.
* A package cut short by a failed allocation that nobody reports can end as
  DONE (pclink.c:511), which pclink.h:64 explains as "the guest took it".
  `GmtpLink` lets the allocation fail; `Implements` maps a link that once ran
  out of memory to a failed one, so that it says what is promised otherwise.
* When `compile` finds the arena full it flushes everything, the way that is
  being filled included, and then gives that way its code but not its address
  (cache.c:252): it answers for address 0, although blocks are keyed by virtual
  start address (cache.c:18) and the engine must do what the interpreter does
  (docs/MIPS_JIT.md:7-9).  The next look-up of the right address misses and
  compiles again, which is harmless; a guest that reaches address 0 meanwhile
  is run with the other block.  Main memory begins at address 0 (machine.h:27)
  and the machine has no MMU (machine.c:140), so the code allows such a guest.
  `RunsTheGuest` and `LinksOK` name this exception and are checked with address
  0 among the code; `KeyedByAddress` is `RunsTheGuest` without it, and put in
  its place in `MCJitCache.cfg` it ends in a counterexample: a flush in the
  look-up for address 1, an interrupt that takes the guest to address 0, and
  the loop entering the block of address 1.  It is proved for guests that keep
  away from address 0 (`KeyedWithoutZero`).
* `next_idle_deadline` (machine68k.cpp:1367-1388) leaves out the end of an
  analog conversion and, without an accessory bus, of a transmission: a guest
  that sleeps over one is told with the next sound sample, not on time.
  `ConversionsBounded` is what remains true.
* An interrupt that is raised in a stretch of the block engine by the passing
  of time waits for the end of the stretch (1734-1755), at most a sample:
  `InterruptsBounded`.
* A boundary register outside the ring protects nothing, because the chip
  looks for equality (ne2000.c:86; NETWORKING.md:349 and 459-465 tell why the
  guest writes one).  `InRingBoundaryProtects` is stated with that exception.
* The PPP endpoint leaves data mode on a Terminate-Request only: a guest that
  missed CONNECT, or both of whose Terminate-Requests were lost, cannot dial
  again.  It never repeats a request of its own, ignores a Configure-Reject
  of its options, hands packets to the line in command mode (`NetworkSends`),
  and takes stray bytes of a frame for the beginning of a command line, which
  spoils the next one.
* `mh_machine_power_off` (machine.c:298) takes a held power button for a
  request to switch off.  When the held press is the one that woke the
  machine, nothing asks it to stop, and the call waits its 30 seconds.
* A new installer is opened after the old one was closed; when that fails the
  guest's serial link still names the old one (runtime.c:37-41).
* HARDWARE.md:119-121 calls transmit-ready a level that re-asserts after
  software clears it, where tx39_uart.c:67-91 and test_uart.c have edges;
  HARDWARE.md:110 gives the CPU's interrupt inputs as IP2 and IP4 where
  tx39.h:47-48 has IP4 and IP6.
* RTCCLR while the stop timer is armed leaves its deadline in the old
  counter's terms; an alarm that was acknowledged is latched again at every
  look while the counter is at or past it.

## 6. Plan

What is left, in order of what matters most to somebody who uses the emulator.

1. `DataRoverPower`: button, power outputs, suspend and resume, composed with
   the stop timer.  (`mh_machine_power_off` and `mh_machine_wake` are called by
   the tests only and are left out.)
2. `Installer`: the link's life across installs (runtime.c:30-45), over
   `PackageTransfer`.
3. `SibAudio` and the touch panel: ring offsets, halves, owed samples,
   interrupt edges between ticks.
4. `Duart` of the 68349, and the 68k MagicBus.
5. `Suspend`: which fields survive a save and a load.
6. The DataRover's own pacing of the pen.

A run is added for each; where the number of runs becomes a burden, the small
violation runs give way first, their findings staying in section 5.

## 7. Not modelled

Instruction semantics (interpreters and generated code of both CPUs), sound
samples and display pixels (data); windows, panels, choosers, the command line
and Android's entry (layout, option parsing); card images, saved state, host
battery and wave output (file and device I/O); the user-mode network stack
(a library); generated assets.  The reasons are next to each component in
`PROJECT.json`.
