--------------------------- MODULE CircuitBreaker ---------------------------
(***************************************************************************)
(* kill_switch/circuit_breaker.py.  The circuit of one agent is a value;   *)
(* each method of CircuitBreaker, which runs as a whole under the lock of  *)
(* the breaker, is an operator from a circuit to the next one.             *)
(*                                                                         *)
(* Time is kept as what the code asks of it: whether cooldown_end is unset, *)
(* still to come ("running") or past ("over").                             *)
(***************************************************************************)
EXTENDS Naturals

CONSTANT Threshold \* failure_threshold of the breaker and of the MonitorConfig

ASSUME ThresholdAssumption == Threshold \in Nat \ {0}

States == {"CLOSED", "OPEN", "HALF_OPEN"}
Cooldowns == {"none", "running", "over"}
Circuit == [known : BOOLEAN, state : States, count : Nat, cooldown : Cooldowns]

\* An agent the breaker has never heard of: get_state says CLOSED, the count is 0.
NoCircuit == [known |-> FALSE, state |-> "CLOSED", count |-> 0, cooldown |-> "none"]

InitializeCircuit == [NoCircuit EXCEPT !.known = TRUE]

RecordSuccess(c) ==
    IF c.known /\ c.state # "OPEN" THEN [c EXCEPT !.state = "CLOSED", !.count = 0] ELSE c

\* Mutant: the comparison with the threshold is strict.
RecordFailureOffByOne(c) ==
    LET n == c.count + 1 IN
    IF ~c.known THEN c
    ELSE IF n > Threshold
    THEN [c EXCEPT !.state = "OPEN", !.count = n, !.cooldown = "running"]
    ELSE [c EXCEPT !.state = IF @ = "HALF_OPEN" THEN "OPEN" ELSE @, !.count = n]

\* Mutant: an agent that was never registered is counted too.
RecordFailureUnregistered(c) ==
    LET n == c.count + 1 IN
    IF n >= Threshold
    THEN [c EXCEPT !.state = "OPEN", !.count = n, !.cooldown = "running"]
    ELSE [c EXCEPT !.state = IF @ = "HALF_OPEN" THEN "OPEN" ELSE @, !.count = n]

\* Only the branch of the threshold starts a cooldown.  A failure on trial
\* falls back to OPEN with whatever cooldown was there.
RecordFailure(c) ==
    LET n == c.count + 1 IN
    IF ~c.known THEN c
    ELSE IF n >= Threshold
    THEN [c EXCEPT !.state = "OPEN", !.count = n, !.cooldown = "running"]
    ELSE [c EXCEPT !.state = IF @ = "HALF_OPEN" THEN "OPEN" ELSE @, !.count = n]

\* is_open answers, and may move the circuit on trial while it does.
IsOpen(c) == c.state = "OPEN" /\ c.cooldown # "over"
AfterIsOpen(c) ==
    IF c.state = "OPEN" /\ c.cooldown = "over" THEN [c EXCEPT !.state = "HALF_OPEN"] ELSE c

OpenCircuit(c) == [c EXCEPT !.known = TRUE, !.state = "OPEN", !.cooldown = "running"]
=============================================================================
