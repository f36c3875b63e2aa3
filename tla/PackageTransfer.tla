-------------------------- MODULE PackageTransfer --------------------------
(***************************************************************************)
(* What installing a package promises, whatever carries it (host/pclink.h, *)
(* mh_pclink_state): the parts of the package reach the guest in order and *)
(* once each, the link says DONE only when all of them have, and a link    *)
(* that failed stays failed.                                               *)
(***************************************************************************)
EXTENDS Naturals, Sequences

CONSTANT PackageParts   \* how many messages the package is cut into, at least 1

VARIABLES state,      \* what mh_pclink_state_of says
          delivered   \* the parts the guest has, in the order it got them

States == {"WAITING", "CONNECTED", "SENDING", "DONE", "FAILED"}

Init == state = "WAITING" /\ delivered = <<>>

\* The guest links; the offer is on its way or could not be built.
Link == /\ state = "WAITING"
        /\ state' \in {"CONNECTED", "SENDING"}
        /\ UNCHANGED delivered

Deliver == /\ state # "WAITING"
           /\ Len(delivered) < PackageParts
           /\ delivered' = Append(delivered, Len(delivered) + 1)
           /\ UNCHANGED state

Finish == /\ state = "SENDING"
          /\ Len(delivered) = PackageParts
          /\ state' = "DONE"
          /\ UNCHANGED delivered

Fail == /\ state # "FAILED"
        /\ state' = "FAILED"
        /\ UNCHANGED delivered

Next == Link \/ Deliver \/ Finish \/ Fail

Spec == Init /\ [][Next]_<<state, delivered>>

=============================================================================
