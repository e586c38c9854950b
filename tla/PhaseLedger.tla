----------------------------- MODULE PhaseLedger -----------------------------
(***************************************************************************)
(* What the pipeline promises to whoever only sees commits (CI, a fresh    *)
(* clone): the phase in state.json moves forward one phase at a time, and  *)
(* a phase gets its completion record once it is over - except phases 1    *)
(* and 2, which push-checkpoint records while they are under review.  A    *)
(* record whose own commit failed rides along in a later commit, the one   *)
(* that finishes the next phase included.                                  *)
(***************************************************************************)
EXTENDS Integers

CONSTANTS First, Last

VARIABLES phase, recorded

ledger == <<phase, recorded>>

LedgerInit == phase = First /\ recorded = 1..(First - 1)

Finish ==
    /\ phase < Last
    /\ phase' = phase + 1
    /\ \E K \in SUBSET (1..(phase - 1)) : recorded' = recorded \cup K

Record ==
    /\ \E K \in SUBSET (1..(phase - 1) \cup {1, 2}) : recorded' = recorded \cup K
    /\ UNCHANGED phase

LedgerNext == Finish \/ Record

LedgerSpec == LedgerInit /\ [][LedgerNext]_ledger
=============================================================================
