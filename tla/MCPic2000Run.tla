---------------------------- MODULE MCPic2000Run ----------------------------
(***************************************************************************)
(* Pic2000Run for TLC: a sample every three slots, conversions of two,     *)
(* timers due at once and, as the sample's phase varies, before, with and  *)
(* after the next sample, calls longer than a sample.                      *)
(***************************************************************************)
EXTENDS Pic2000Run

MCEnables == {{"timer", "down", "adc"}}

=============================================================================
