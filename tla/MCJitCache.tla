----------------------------- MODULE MCJitCache -----------------------------
(***************************************************************************)
(* Instances of JitCache: more addresses than ways, and an arena smaller   *)
(* than the guest's code.                                                  *)
(***************************************************************************)
EXTENDS JitCache
=============================================================================
