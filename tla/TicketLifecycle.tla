--------------------------- MODULE TicketLifecycle ---------------------------
(***************************************************************************)
(* What change requests promise to whoever reads the tickets and the       *)
(* maintenance log: a ticket moves forward one status at a time or is      *)
(* rejected, a closed or rejected ticket stays so, and a ticket is closed  *)
(* only once its row is in the log.                                        *)
(***************************************************************************)
EXTENDS Integers

CONSTANTS Tickets, Begun, Listed

VARIABLES status, logged

lifecycle == <<status, logged>>

Order == [OPEN |-> "ANALYZED", ANALYZED |-> "APPROVED", APPROVED |-> "IN_PROGRESS",
          IN_PROGRESS |-> "VERIFIED"]

LifecycleInit == status = Begun /\ logged = Listed

Open(t) ==
    /\ status[t] = "none"
    /\ status' = [status EXCEPT ![t] = "OPEN"]
    /\ UNCHANGED logged

Forward(t) ==
    /\ status[t] \in DOMAIN Order
    /\ status' = [status EXCEPT ![t] = Order[@]]
    /\ UNCHANGED logged

Reject(t) ==
    /\ status[t] \notin {"none", "CLOSED", "REJECTED"}
    /\ status' = [status EXCEPT ![t] = "REJECTED"]
    /\ UNCHANGED logged

List(t) ==
    /\ status[t] = "VERIFIED"
    /\ logged' = logged \cup {t}
    /\ UNCHANGED status

Close(t) ==
    /\ status[t] = "VERIFIED"
    /\ t \in logged
    /\ status' = [status EXCEPT ![t] = "CLOSED"]
    /\ UNCHANGED logged

LifecycleNext ==
    \E t \in Tickets : Open(t) \/ Forward(t) \/ Reject(t) \/ List(t) \/ Close(t)

LifecycleSpec == LifecycleInit /\ [][LifecycleNext]_lifecycle
=============================================================================
