--------------------------- MODULE MCNe2000Driver ---------------------------
(***************************************************************************)
(* Ne2000Driver for TLC: a ring of four pages, which four frames of one   *)
(* or two pages fill and go around, and a transmit page before it.         *)
(***************************************************************************)
EXTENDS Ne2000Driver

MCModes == {[monitor |-> FALSE, loop |-> "none"], [monitor |-> FALSE, loop |-> "internal"],
            [monitor |-> TRUE, loop |-> "external"]}

=============================================================================
