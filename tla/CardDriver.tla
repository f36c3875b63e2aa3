----------------------------- MODULE CardDriver -----------------------------
(***************************************************************************)
(* CardIrq with the guest's interrupt handling in place of an arbitrary    *)
(* guest, to ask what the board's edges are for: is every card request     *)
(* served?  The guest is Magic Cap's shared card handler and the Ne2000    *)
(* package, as docs/NETWORKING.md and the comments in glacier.c report     *)
(* their accesses: acknowledge ICU bank 3 bit 2, dispatch the enabled      *)
(* pending bits of both controllers, and for a network card acknowledge    *)
(* falling bit 2 (+1C=4) before enabling it (+14|=4).  That the handler    *)
(* scans until neither controller has anything pending is assumed.         *)
(***************************************************************************)
EXTENDS CardIrq

CONSTANT MaxArrivals    \* bound on the loop iterations that deliver a frame

VARIABLES pc,         \* where the guest is
          at,         \* the slot it is busy with
          seen,       \* the ISR value the network driver read
          arrivals

driver == <<pc, at, seen>>
dvars == <<vars, driver, arrivals>>

Goto(label) == pc' = label

\* The OS opens the ICU and watches both card-detect edges of every slot.
BootIcu ==
  /\ pc = "boot" /\ Goto("bootRise") /\ UNCHANGED <<at, seen>>
  /\ GuestEnablesIcu(CardIrqs)

BootRise ==
  /\ pc = "bootRise" /\ Goto("bootFall") /\ UNCHANGED seen
  /\ \E s \in Slots : /\ glacier[s].riseEn = {} /\ at' = s
                      /\ GuestEnablesRise(s, {"cd"})

BootFall ==
  /\ pc = "bootFall" /\ UNCHANGED <<at, seen>>
  /\ GuestEnablesFall(at, {"cd"})
  /\ Goto(IF \A s \in Slots : glacier[s].riseEn # {} THEN "run" ELSE "bootRise")

TakeInterrupt ==
  /\ pc = "run" /\ icu.normal /\ Goto("ack")
  /\ UNCHANGED <<vars, at, seen>>

AckIcu ==
  /\ pc = "ack" /\ Goto("scan") /\ UNCHANGED <<at, seen>>
  /\ GuestClearsIcu

ReturnFromInterrupt ==
  /\ pc = "scan" /\ ~Asserted(glacier) /\ Goto("run")
  /\ UNCHANGED <<vars, at, seen>>

\* A card-detect edge: acknowledge both directions, then look at the pins.
FindDetect(s) ==
  /\ pc = "scan" /\ "cd" \in glacier[s].rise \cup glacier[s].fall
  /\ Goto("ackFall") /\ at' = s /\ UNCHANGED seen
  /\ GuestWritesGlacier(s, AckRise(glacier[s], {"cd"}), {})

AckDetectFall ==
  /\ pc = "ackFall" /\ Goto("detect") /\ UNCHANGED <<at, seen>>
  /\ GuestWritesGlacier(at, AckFall(glacier[at], {"cd"}), {})

ReadDetect ==
  /\ pc = "detect" /\ UNCHANGED <<vars, at, seen>>
  /\ Goto(IF glacier[at].present THEN "reset" ELSE "disable")

\* The driver configures the card from reset: COR 80, then 00, then 60.
ResetNic ==
  /\ pc = "reset" /\ Goto("clear") /\ UNCHANGED <<at, seen>>
  /\ GuestResetsNic(at)

ClearRequest ==
  /\ pc = "clear" /\ Goto("enable") /\ UNCHANGED <<at, seen>>
  /\ GuestWritesGlacier(at, AckFall(glacier[at], {"irq"}), {at})

EnableRequest ==
  /\ pc = "enable" /\ Goto("unmask") /\ UNCHANGED <<at, seen>>
  /\ GuestEnablesFall(at, {"cd", "irq"})

UnmaskNic ==
  /\ pc = "unmask" /\ Goto("scan") /\ UNCHANGED <<at, seen>>
  /\ GuestMasksNic(at, NicEvents)

DisableRequest ==
  /\ pc = "disable" /\ Goto("scan") /\ UNCHANGED <<at, seen>>
  /\ GuestEnablesFall(at, {"cd"})

\* A card request: acknowledge the edge, then serve the card until it is quiet.
FindRequest(s) ==
  /\ pc = "scan" /\ "irq" \in glacier[s].fall \cap glacier[s].fallEn
  /\ Goto("read") /\ at' = s /\ UNCHANGED seen
  /\ GuestWritesGlacier(s, AckFall(glacier[s], {"irq"}), {s})

ReadIsr ==
  /\ pc = "read" /\ UNCHANGED at
  /\ seen' = IF cardIn[at] THEN nic[at].isr \cap nic[at].imr ELSE {}
  /\ Goto(IF seen' = {} THEN "scan" ELSE "ackNic")
  /\ GuestAccessesCard(at, nic[at])

AckNic ==
  /\ pc = "ackNic" /\ UNCHANGED <<at, seen>>
  /\ GuestAcksNic(at, seen)
  /\ Goto(IF "rx" \in seen THEN "dma" ELSE "read")

CopyFrame ==
  /\ pc = "dma" /\ Goto("read") /\ UNCHANGED <<at, seen>>
  /\ GuestFinishesDma(at)

Driver ==
  \/ BootIcu \/ BootRise \/ BootFall
  \/ TakeInterrupt \/ AckIcu \/ ReturnFromInterrupt
  \/ \E s \in Slots : FindDetect(s) \/ FindRequest(s)
  \/ AckDetectFall \/ ReadDetect
  \/ ResetNic \/ ClearRequest \/ EnableRequest \/ UnmaskNic \/ DisableRequest
  \/ ReadIsr \/ AckNic \/ CopyFrame

DriverStep == Driver /\ UNCHANGED arrivals

LoopStep ==
  \E arrives, receives \in SUBSET Slots :
    /\ receives # {} => arrivals < MaxArrivals
    /\ arrivals' = arrivals + (IF receives = {} THEN 0 ELSE 1)
    /\ MachineTick(arrives, receives)
    /\ UNCHANGED driver

\* Cards come and go while the guest runs, and while it is suspended.
HostStep ==
  /\ \E s \in Slots :
       \/ EjectCard(s)
       \/ \E k \in Kinds : InsertCard(s, k)
       \/ \E k \in Kinds \cup {NoCard} : ResumeWithOtherCard(s, k)
  /\ UNCHANGED <<driver, arrivals>>

DriverInit ==
  /\ Init
  /\ pc = "boot"
  /\ at = CHOOSE s \in Slots : TRUE
  /\ seen = {}
  /\ arrivals = 0

DriverNext == DriverStep \/ LoopStep \/ HostStep

DriverSpec == /\ DriverInit /\ [][DriverNext]_dvars
              /\ WF_dvars(DriverStep) /\ WF_dvars(LoopStep)

-----------------------------------------------------------------------------
\* Every request of a network card is served or goes away with the card,
\* whatever the other slot does with the shared line meanwhile.
RequestServed ==
  \A s \in Slots :
    (cardIn[s] /\ NicIrq(nic[s])) ~> (~cardIn[s] \/ ~NicIrq(nic[s]))

\* A card that is in gets its interrupt mask opened by the guest, that is, the
\* insertion is noticed, even when it follows a removal that was not reported.
InsertionNoticed ==
  \A s \in Slots :
    (cardIn[s] /\ kind[s] = IoKind)
      ~> (~cardIn[s] \/ kind[s] # IoKind \/ nic[s].imr = NicEvents)

\* "The controller raises a card-detect edge and the guest stops believing
\* whatever it had cached about the card" (machine.c:721-723): the guest
\* takes its enable away from a slot whose card has gone.
RemovalNoticed ==
  \A s \in Slots :
    (kind[s] = NoCard /\ "irq" \in glacier[s].fallEn)
      ~> (kind[s] # NoCard \/ "irq" \notin glacier[s].fallEn)
=============================================================================
