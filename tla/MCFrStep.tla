------------------------------ MODULE MCFrStep ------------------------------
(***************************************************************************)
(* Small instances of FrStep.                                              *)
(***************************************************************************)
EXTENDS FrStep

CONSTANTS say

OneText == {say}
RedUntilEdited == [v \in Versions |-> IF v = 0 THEN "RED" ELSE "GREEN"]
=============================================================================
