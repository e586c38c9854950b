-------------------------- MODULE MCChangeRequests --------------------------
(***************************************************************************)
(* Small instances of ChangeRequests.                                      *)
(***************************************************************************)
EXTENDS ChangeRequests

CONSTANTS p1, p2, fr1, fr2

OneProc == {p1}
TwoProcs == {p1, p2}

OneFr == {fr1}
TwoFrs == {fr1, fr2}

OneTicket == 0..1
TwoTickets == 0..2

Fresh == [t \in Tickets |-> "none"]
AllVerified == [t \in Tickets |-> "VERIFIED"]
=============================================================================
