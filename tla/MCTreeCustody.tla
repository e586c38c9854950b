--------------------------- MODULE MCTreeCustody ---------------------------
(***************************************************************************)
(* Small instances of TreeCustody.                                         *)
(***************************************************************************)
EXTENDS TreeCustody

CONSTANTS gate, push

OneHarness == {gate}
TwoHarnesses == {gate, push}
=============================================================================
