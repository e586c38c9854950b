---------------------------- MODULE MCKillSwitch ----------------------------
(***************************************************************************)
(* Small instances of KillSwitch.                                          *)
(***************************************************************************)
EXTENDS KillSwitch, TLC

CONSTANTS session, monitor, hooks, operator

OneSession == {session}
SessionThreads == {monitor, hooks, operator}
InSession == [t \in SessionThreads |-> session]
SessionCalls == (monitor :> {"tick"}) @@ (hooks :> {"dev", "look"}) @@ (operator :> {"trigger", "reset"})
=============================================================================
