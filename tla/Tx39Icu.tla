------------------------------ MODULE Tx39Icu ------------------------------
(***************************************************************************)
(* The TX39 interrupt controller (soc/tx39/tx39_icu.c) as operations on a  *)
(* record.  The devices that raise interrupts use these operations, so     *)
(* each of them carries the two CPU lines along exactly as the code does:  *)
(* the lines are stored, and only mh_icu_update recomputes them.           *)
(***************************************************************************)
CONSTANTS Irqs,       \* the interrupt sources in use, one per status bit
          HighIrqs    \* those of bank 6, which drive the high-priority line

\* status and enable hold the latched and the enabled sources of all banks,
\* normal and high the CPU's two interrupt inputs as mh_cpu_set_irq left them.
IcuType == [status : SUBSET Irqs, enable : SUBSET Irqs,
            normal : BOOLEAN, high : BOOLEAN]

IcuInit == [status |-> {}, enable |-> {}, normal |-> FALSE, high |-> FALSE]

IcuPending(icu) == icu.status \cap icu.enable

IcuUpdate(icu) ==
  [icu EXCEPT !.normal = IcuPending(icu) \ HighIrqs # {},
              !.high   = IcuPending(icu) \cap HighIrqs # {}]

\* mh_icu_raise returns early, without an update, when the bits are latched.
IcuRaise(icu, irqs) ==
  IF irqs \subseteq icu.status
  THEN icu
  ELSE IcuUpdate([icu EXCEPT !.status = @ \cup irqs])

\* A write to INTRCLEAR1..5; bank 6 is a read-only summary.
IcuClear(icu, irqs) ==
  IcuUpdate([icu EXCEPT !.status = @ \ (irqs \ HighIrqs)])

\* A write to one bank's INTRENABLE replaces that bank.
IcuEnable(icu, bank, irqs) ==
  IcuUpdate([icu EXCEPT !.enable = (@ \ bank) \cup irqs])

\* The lines are what the status and enable registers say they are.
LinesFollow(icu) ==
  /\ icu.normal = (IcuPending(icu) \ HighIrqs # {})
  /\ icu.high = (IcuPending(icu) \cap HighIrqs # {})
=============================================================================
