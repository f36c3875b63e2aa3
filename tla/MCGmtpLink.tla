----------------------------- MODULE MCGmtpLink -----------------------------
(***************************************************************************)
(* Instances of GmtpLink: numbers modulo 4 or 5 wrap several times in a    *)
(* transfer.                                                               *)
(***************************************************************************)
EXTENDS GmtpLink

Talk == {"Ping", "Cnct", "Send", "GBye"}
=============================================================================
