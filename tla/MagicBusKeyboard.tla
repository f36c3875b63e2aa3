-------------------------- MODULE MagicBusKeyboard --------------------------
(***************************************************************************)
(* The DataRover's keyboard (machines/datarover840/keyboard.c) between the *)
(* host, which presses and lets go of keys, and the guest's driver, which  *)
(* fetches scan codes over the MagicBus controller (soc/tx39/tx39_mbus.c). *)
(* The keyboard asks for attention by raising a line; the driver reads a   *)
(* request packet and then a scan packet.  A packet is served by the       *)
(* machine loop, some time after the driver began to listen.               *)
(*                                                                         *)
(* The driver is code of the guest's ROM and not in the repository.  It is *)
(* modelled from the exchanges of docs/KEYBOARD.md and of                  *)
(* tests/dev/test_datarover_keyboard.c; one that fails to read a packet    *)
(* tries again.                                                            *)
(***************************************************************************)
EXTENDS Integers, Sequences, FiniteSetsExt

CONSTANTS Keys,       \* the host's keys, by usage number
          Extended,   \* those whose scan codes start with E0
          Capacity,   \* MH_MBKEY_CAPACITY
          ReadMax,    \* scan codes in the largest packet
          MaxTyped,   \* bound on the makes the host types
          MaxWhims,   \* bound on the driver's writes, polls and discoveries
          MaxFaults   \* bound on the driver's bad buffers and lost patience

\* E0 and F0 are no usage numbers here: a key's usage stands for its code.
E0 == 224
F0 == 240

ASSUME KeysAssumption ==
  /\ Keys \subseteq Nat \ {E0, F0} /\ IsFiniteSet(Keys) /\ Extended \subseteq Keys
  /\ Capacity \in Nat /\ ReadMax \in Nat \ {0}
ASSUME TypingAssumption == {MaxTyped, MaxWhims, MaxFaults} \subseteq Nat

Selections == {0, 5, 12, 13}
Packets == {"reset", "other"}   \* by their first word
Edges == {"pos", "neg", "det"}
Places == {"reset", "assign", "chain", "id", "info", "idle", "write",
           "request", "scan"}

\* How the driver understands scan codes; a prefix may end a packet.
NoKeys == [down |-> {}, break |-> FALSE]

Hear(g, b) ==
  CASE b = E0 -> g
    [] b = F0 -> [g EXCEPT !.break = TRUE]
    [] OTHER  -> [down |-> IF g.break THEN g.down \ {b} ELSE g.down \cup {b},
                  break |-> FALSE]

Decode(g, bytes) ==
  LET heard[n \in 0..Len(bytes)] ==
        IF n = 0 THEN g ELSE Hear(heard[n - 1], bytes[n])
  IN  heard[Len(bytes)]

VARIABLES kb,      \* mh_dr_keyboard with its port and its interrupt sources
          phase,   \* of an exchange; in "slave" MBUSCTRL's SLAVE is set
          fits,    \* the receive buffer is mapped and large enough
          inbox,   \* what the last complete packet left in it
          pc,      \* the driver's place in its protocol
          guest,   \* the keys the driver takes to be down, and its prefix
          unseen,  \* keys down when the driver last reset the keyboard
          typed, whims, faults

driver == <<phase, fits, inbox, pc>>
keyboardVars == <<kb, driver, guest, unseen, typed, whims, faults>>

KeyboardType ==
  [queue : Seq(Keys \cup {E0, F0}), line : BOOLEAN, irq : SUBSET Edges,
   assigned : BOOLEAN, notified : BOOLEAN, selection : Selections,
   pendingRead : 0..2, writeSize : {0, 4, 8}, packet : Packets,
   held : SUBSET Keys, release : SUBSET Keys]

KeyboardTypeOK ==
  /\ kb \in KeyboardType /\ Len(kb.queue) <= Capacity
  /\ phase \in {"master", "asked", "slave"} /\ fits \in BOOLEAN
  /\ inbox \in Seq(Keys \cup {E0, F0}) /\ Len(inbox) <= ReadMax
  /\ pc \in Places
  /\ guest \in [down : SUBSET Keys, break : BOOLEAN]
  /\ unseen \in SUBSET Keys
  /\ typed \in 0..MaxTyped /\ whims \in 0..MaxWhims /\ faults \in 0..MaxFaults

\* Connecting the keyboard to the empty bus pulls the line down.
KeyboardInit ==
  /\ kb = [queue |-> <<>>, line |-> FALSE, irq |-> {"neg"},
           assigned |-> FALSE, notified |-> FALSE, selection |-> 0,
           pendingRead |-> 0, writeSize |-> 0, packet |-> "other",
           held |-> {}, release |-> {}]
  /\ phase = "master" /\ fits = TRUE /\ inbox = <<>> /\ pc = "reset"
  /\ guest = NoKeys /\ unseen = {}
  /\ typed = 0 /\ whims = 0 /\ faults = 0
-----------------------------------------------------------------------------
(* The keyboard's own functions. *)

Input(k, high) ==
  IF k.line = high THEN k
  ELSE [k EXCEPT !.line = high,
                 !.irq = @ \cup {IF high THEN "pos" ELSE "neg"}]

RequestLine(k) ==
  IF k.assigned THEN Input(k, k.queue # <<>> /\ ~k.notified) ELSE k

\* The bytes of a make or of a break; an event enters the queue whole.
Codes(key, down) ==
  (IF key \in Extended THEN <<E0>> ELSE <<>>)
    \o (IF down THEN <<>> ELSE <<F0>>) \o <<key>>

Fits(k, codes) == Len(k.queue) + Len(codes) <= Capacity

Enqueue(k, codes) == RequestLine([k EXCEPT !.queue = @ \o codes])

\* The pending breaks go in by usage, up to the first that does not fit.
ReleaseLowest(k) ==
  LET key == Min(k.release)
  IN  IF k.release # {} /\ Fits(k, Codes(key, FALSE))
      THEN Enqueue([k EXCEPT !.release = @ \ {key}], Codes(key, FALSE))
      ELSE k

ReleaseKeys(k) ==
  LET after[n \in 0..Cardinality(k.release)] ==
        IF n = 0 THEN k ELSE ReleaseLowest(after[n - 1])
  IN  after[Cardinality(k.release)]

\* The commands, by their number in the driver's table.
Broadcast(k) ==                                    \* 31 to address 7
  Input([k EXCEPT !.assigned = FALSE, !.notified = FALSE, !.selection = 0,
                  !.pendingRead = 0, !.writeSize = 0], TRUE)
Assign(k) == [k EXCEPT !.assigned = TRUE]          \* 24
EndOfChain(k) ==                                   \* 21
  IF k.assigned THEN Input(k, FALSE) ELSE k
PendingRead(k, op) ==                              \* 1 and 2
  IF k.assigned THEN [k EXCEPT !.pendingRead = op] ELSE k
Select(k, op) ==                                   \* 5, 12 and 13
  IF ~k.assigned THEN k
  ELSE [k EXCEPT !.selection = op, !.writeSize = IF op = 5 THEN 0 ELSE @]

\* One long word of a packet; the second of them completes it.
Transmit(k, packet) ==
  IF k.selection # 5 \/ k.writeSize > 4 THEN k
  ELSE IF k.writeSize = 0
       THEN [k EXCEPT !.writeSize = 4, !.packet = packet]
       ELSE LET q == IF k.packet = "reset" THEN <<>> ELSE k.queue
            IN  RequestLine([k EXCEPT !.writeSize = 8, !.selection = 0,
                                      !.queue = q,
                                      !.notified = @ /\ q # <<>>])
-----------------------------------------------------------------------------
(* The machine loop serves a packet from a copy of the queue, which replaces *)
(* it only when the controller has taken every word and the end command.     *)

ScanRead(k) == k.pendingRead = 2 /\ k.selection = 0
Taken(k) == SubSeq(k.queue, 1, Min({ReadMax, Len(k.queue)}))
Remaining(k) == SubSeq(k.queue, Len(Taken(k)) + 1, Len(k.queue))

\* Wrong on purpose: the codes leave the queue before the buffer has them.
UnservedConsumed(k) ==
  [k EXCEPT !.pendingRead = 0,
            !.queue = IF ScanRead(k) THEN Remaining(k) ELSE @]

\* A packet without a place, or cut by a bus fault, changes nothing else.
Unserved(k) == [k EXCEPT !.pendingRead = 0]

\* The end command wakes the driver.
Ended(k) == [k EXCEPT !.pendingRead = 0, !.irq = @ \cup {"det"}]

\* Wrong on purpose: a scan packet does not end the request.
ServedHalf(k) ==
  RequestLine([Ended(k) EXCEPT
    !.notified = @ \/ k.pendingRead = 1,
    !.selection = IF k.pendingRead = 1 THEN @ ELSE 0,
    !.queue = IF ScanRead(k) THEN Remaining(k) ELSE @])

\* A request has now been told; any other packet ends what was selected.
Served(k) ==
  RequestLine(
    IF k.pendingRead = 1 THEN [Ended(k) EXCEPT !.notified = TRUE]
    ELSE IF ScanRead(k)
         THEN [Ended(k) EXCEPT !.queue = Remaining(k), !.notified = FALSE]
         ELSE [Ended(k) EXCEPT !.selection = 0])

\* What lands in the buffer.  A request names its kind when there are codes.
Data(k) == IF k.pendingRead = 1 THEN IF k.queue = <<>> THEN <<>> ELSE <<F0>>
           ELSE IF ScanRead(k) THEN Taken(k) ELSE <<>>

Service ==
  LET k == ReleaseKeys(kb)
      due == k.pendingRead # 0 /\ phase = "slave"
      refused == ~fits \/ (k.pendingRead = 2 /\ k.selection = 5)
  IN  /\ due \/ k # kb
      /\ kb' = IF ~due THEN k ELSE IF refused THEN Unserved(k) ELSE Served(k)
      /\ inbox' = IF due /\ ~refused THEN Data(k) ELSE inbox
      /\ UNCHANGED <<phase, fits, pc, guest, unseen, typed, whims, faults>>
-----------------------------------------------------------------------------
(* The host.  A key whose break still waits cannot be pressed again, and a  *)
(* make that does not fit is dropped.                                       *)

Make(key) ==
  /\ Fits(kb, Codes(key, TRUE))
  /\ typed < MaxTyped /\ typed' = typed + 1
  /\ kb' = [Enqueue(kb, Codes(key, TRUE)) EXCEPT !.held = @ \cup {key}]
  /\ unseen' = unseen \ {key}
  /\ UNCHANGED <<driver, guest, whims, faults>>

\* Wrong on purpose: a press does not look for a waiting break.
HostPressesAhead(key) == Make(key)

HostPresses(key) == key \notin kb.release /\ Make(key)

HostLetsGo(key) ==
  /\ key \in kb.held
  /\ kb' = ReleaseKeys([kb EXCEPT !.held = @ \ {key},
                                  !.release = @ \cup {key}])
  /\ UNCHANGED <<driver, guest, unseen, typed, whims, faults>>

\* The window lost the focus; the breaks wait for the next service.
HostLosesFocus ==
  /\ kb.held # {}
  /\ kb' = [kb EXCEPT !.release = @ \cup kb.held, !.held = {}]
  /\ UNCHANGED <<driver, guest, unseen, typed, whims, faults>>

HostKeys == \/ \E key \in Keys : HostPresses(key) \/ HostLetsGo(key)
            \/ HostLosesFocus
-----------------------------------------------------------------------------
(* The guest's driver.  It discovers the keyboard, asks for its identity and *)
(* information, and then waits for the line to rise.                         *)

Goes(place, k) ==
  /\ pc' = place /\ kb' = k
  /\ UNCHANGED <<fits, inbox, typed, faults>>
Same == UNCHANGED <<phase, guest, unseen>>

Discovers ==
  /\ Same /\ UNCHANGED whims
  /\ \/ pc = "reset"  /\ Goes("assign", Broadcast(kb))
     \/ pc = "assign" /\ Goes("chain", Assign(kb))
     \/ pc = "chain"  /\ Goes("id", EndOfChain(kb))

\* It acknowledges the edge, then polls: command 28 refreshes the line.
Polls ==
  LET k == RequestLine([kb EXCEPT !.irq = @ \ {"pos"}])
  IN  /\ pc = "idle" /\ Same
      /\ \/ "pos" \in kb.irq /\ UNCHANGED whims
         \/ whims < MaxWhims /\ whims' = whims + 1
      /\ Goes(IF k.line THEN "request" ELSE "idle", k)

\* Command 1 for a request; 2 for a read, after 12 or 13 of something else.
Asks ==
  /\ phase = "master" /\ phase' = "asked" /\ UNCHANGED <<guest, unseen, whims>>
  /\ \/ pc = "request" /\ Goes(pc, PendingRead(kb, 1))
     \/ pc = "scan"    /\ Goes(pc, PendingRead(kb, 2))
     \/ pc = "id"      /\ Goes(pc, PendingRead(Select(kb, 12), 2))
     \/ pc = "info"    /\ Goes(pc, PendingRead(Select(kb, 13), 2))

\* It turns the bus around, with a buffer that may be short or not mapped.
Listens ==
  /\ phase = "asked" /\ phase' = "slave"
  /\ fits' \in BOOLEAN
  /\ faults' = (IF fits' THEN faults ELSE faults + 1) /\ faults' <= MaxFaults
  /\ UNCHANGED <<kb, inbox, pc, guest, unseen, typed, whims>>

\* The packet's end command wakes it.
Finishes ==
  /\ phase = "slave" /\ phase' = "master" /\ "det" \in kb.irq
  /\ guest' = IF pc = "scan" THEN Decode(guest, inbox) ELSE guest
  /\ UNCHANGED <<unseen, whims>>
  /\ Goes(CASE pc = "id" -> "info"
            [] pc = "request" /\ inbox # <<>> -> "scan"
            [] OTHER -> "idle",
          [kb EXCEPT !.irq = @ \ {"det"}])

\* Nothing came, or not yet: it asks again.
LosesPatience ==
  /\ phase = "slave" /\ phase' = "master" /\ "det" \notin kb.irq
  /\ faults' = IF kb.pendingRead = 0 THEN faults ELSE faults + 1
  /\ faults' <= MaxFaults
  /\ UNCHANGED <<kb, fits, inbox, pc, guest, unseen, typed, whims>>

\* It writes an eight-byte packet, long word by long word; after a reset it
\* takes every key to be up.
StartsWriting ==
  /\ pc = "idle" /\ whims < MaxWhims /\ whims' = whims + 1 /\ Same
  /\ Goes("write", Select(kb, 5))

Writes ==
  \E packet \in IF kb.writeSize = 0 THEN Packets ELSE {kb.packet} :
    LET k == Transmit(kb, packet)
        reset == k.selection = 0 /\ packet = "reset"
    IN  /\ pc = "write" /\ UNCHANGED <<phase, whims>>
        /\ Goes(IF k.selection = 0 THEN "idle" ELSE pc, k)
        /\ guest' = IF reset THEN NoKeys ELSE guest
        /\ unseen' = IF reset THEN kb.held \cup kb.release ELSE unseen

\* A low line makes it look for devices again.
Rediscovers ==
  /\ pc = "idle" /\ ~kb.line /\ whims < MaxWhims /\ whims' = whims + 1 /\ Same
  /\ Goes("reset", kb)

Driver == \/ Discovers \/ Polls \/ Asks \/ Listens \/ Finishes \/ LosesPatience
          \/ StartsWriting \/ Writes \/ Rediscovers

KeyboardNext == HostKeys \/ Service \/ Driver
KeyboardSpec == KeyboardInit /\ [][KeyboardNext]_keyboardVars
\* The loop serves after every chunk of guest code, and the guest runs on.
KeyboardFairSpec ==
  /\ KeyboardSpec
  /\ WF_keyboardVars(Service)
  /\ WF_keyboardVars(\/ Discovers \/ Polls \/ Asks \/ Listens \/ Finishes
                     \/ LosesPatience \/ Writes)
-----------------------------------------------------------------------------
(* Properties. *)

\* The codes of a packet the driver has not looked at yet.
InFlight == IF pc = "scan" /\ phase = "slave" /\ "det" \in kb.irq
            THEN inbox ELSE <<>>

\* Once the driver has read what is on its way, it takes exactly those keys
\* to be down that the host holds or whose break still waits: no code is lost
\* to a full queue or a failed packet, none is sent twice, and no make
\* overtakes the break of its key (keyboard.c 117-213).
KeysMatch ==
  Decode(guest, InFlight \o kb.queue).down = (kb.held \cup kb.release) \ unseen

\* The keyboard's attention is an edge, and no edge is lost: when the driver
\* waits and there are scan codes, the line is high and its interrupt latched
\* (keyboard.c 17-21 and its callers, tx39_mbus.c 48-55).
WakeStands ==
  pc = "idle" /\ kb.queue # <<>> => kb.line /\ "pos" \in kb.irq

\* Keyboard, controller and driver keep their types, and the wake-up stands.
WakeOK == KeyboardTypeOK /\ WakeStands

\* When host and guest come to rest, the driver knows of every key: a break
\* that waited for room has been sent, a failed packet read again, and no
\* unread code is left behind (keyboard.c 117-172 and 201-213).
Settles ==
  <>[](/\ kb.queue = <<>> /\ kb.release = {}
       /\ guest.down = kb.held \ unseen)
=============================================================================
