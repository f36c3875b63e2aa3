------------------------------ MODULE Glacier ------------------------------
(***************************************************************************)
(* One Glacier PC Card controller (devices/glacier/glacier.c) as           *)
(* operations on a record: the card's input pins, the edge latches they    *)
(* set, and the enables the guest programs.  The two card-detect bits move *)
(* together and are one event here.                                        *)
(***************************************************************************)

\* Status bits 1, 2 and 3: battery, ready/IRQ (active low for an I/O card),
\* write-protect/ready.
Pins == {"bvd", "irq", "wp"}

Events == Pins \cup {"cd"}

GlacierType == [present : BOOLEAN,
                pins    : SUBSET Pins,
                rise    : SUBSET Events,   \* +18, write one to clear
                fall    : SUBSET Events,   \* +1C, write one to clear
                riseEn  : SUBSET Events,   \* +10
                fallEn  : SUBSET Events]   \* +14

GlacierInit == [present |-> FALSE, pins |-> {}, rise |-> {}, fall |-> {},
                riseEn |-> {}, fallEn |-> {}]

\* Every pin that changes latches an edge, enabled or not.
DrivePins(g, high) ==
  [g EXCEPT !.pins = high,
            !.rise = @ \cup (high \ g.pins),
            !.fall = @ \cup (g.pins \ high)]

SetMemoryInputs(g, high) == DrivePins(g, high)

SetReadyIrq(g, high) ==
  DrivePins(g, IF high THEN g.pins \cup {"wp"} ELSE g.pins \ {"wp"})

\* The I/O card's request pulls the pin low.
SetCardIrq(g, asserted) ==
  DrivePins(g, IF asserted THEN g.pins \ {"irq"} ELSE g.pins \cup {"irq"})

\* Card detect is active low: arrival is a falling edge, departure a rising.
\* Wrong on purpose: the pin moves and no edge is latched.
SetPresentNoEdge(g, present) == [g EXCEPT !.present = present]

SetPresent(g, present) ==
  IF g.present = present
  THEN g
  ELSE IF present
       THEN [g EXCEPT !.present = TRUE,  !.fall = @ \cup {"cd"}]
       ELSE [g EXCEPT !.present = FALSE, !.rise = @ \cup {"cd"}]

\* The guest's register writes: an enable word, or ones to a pending word.
\* The status word keeps its input pins whatever is written to it.
WriteRiseEnable(g, evs) == [g EXCEPT !.riseEn = evs]
WriteFallEnable(g, evs) == [g EXCEPT !.fallEn = evs]
AckRise(g, evs) == [g EXCEPT !.rise = @ \ evs]
AckFall(g, evs) == [g EXCEPT !.fall = @ \ evs]

GlacierIrq(g) == \/ g.rise \cap g.riseEn # {}
                 \/ g.fall \cap g.fallEn # {}
=============================================================================
