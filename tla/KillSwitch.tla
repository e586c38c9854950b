----------------------------- MODULE KillSwitch -----------------------------
(***************************************************************************)
(* kill_switch/: the facade KillSwitch with its health monitor, circuit    *)
(* breaker, interrupt engine and state manager, seen for one agent (every  *)
(* structure is keyed by the agent).  A process has its own KillSwitch in  *)
(* memory, with threads that call it; processes share the state file of    *)
(* the agent.  Each method of a part runs under that part's lock and is    *)
(* one step, the methods of the facade are sequences of them.              *)
(*                                                                         *)
(* save_state truncates the file and fills it on close, two steps under a  *)
(* lock that excludes the threads of its own process only.  A descriptor   *)
(* stays with the file it opened when the file is moved or unlinked:       *)
(* "writing" are the threads whose descriptor is the present file.         *)
(***************************************************************************)
EXTENDS CircuitBreaker, FiniteSets

CONSTANTS
    Procs,      \* processes with a KillSwitch
    Threads,    \* threads that call it
    Home,       \* the process of a thread
    May,        \* the operations a thread calls
    NoThread,   \* nobody holds the interrupt lock
    MaxOps,     \* bound: operations started
    MaxFaults,  \* bound: I/O errors on the state file
    MaxCrashes  \* bound: processes killed

Operations == {"tick", "trigger", "reset", "dev", "look"}

ASSUME KillSwitchAssumption ==
    /\ Home \in [Threads -> Procs]
    /\ May \in [Threads -> SUBSET Operations]
    /\ NoThread \notin Threads
    /\ MaxOps \in Nat /\ MaxFaults \in Nat /\ MaxCrashes \in Nat

Interrupting == {"save", "write", "note"}
Steps == Interrupting \cup
    {"idle", "open", "record", "count", "force", "lock", "reload", "reopen", "clear", "init",
     "stop", "load", "ask", "begin", "circuit", "running"}

VARIABLES
    circuit,   \* the breaker of each process
    health,    \* its health monitor: is the agent monitored, its latest metrics
    cached,    \* its state manager has OPEN in its cache (nothing else is ever saved)
    holder,    \* who holds its interrupt lock
    file,      \* the state file of the agent
    writing,   \* see above
    at,        \* where a thread is, in which operation, on which metrics
    trips,     \* times a circuit went OPEN since its process started
    struck,    \* interrupts for the threshold noted in its history
    saved,     \* the last word on the state file: OPEN was saved, with no error, and
               \* no unlink by re_enable, failed save or kill inside a save came after
    spent      \* operations, faults, kills

memory == <<circuit, health, cached, holder, trips, struck>>
disk == <<file, writing>>
vars == <<memory, disk, at, saved, spent>>

Idle == [pc |-> "idle", op |-> "none", breach |-> FALSE]
NoHealth == [monitored |-> FALSE, latest |-> "none"]
Init ==
    /\ circuit = [p \in Procs |-> NoCircuit]
    /\ health = [p \in Procs |-> NoHealth]
    /\ cached = [p \in Procs |-> FALSE]
    /\ holder = [p \in Procs |-> NoThread]
    /\ file = "absent"
    /\ writing = {}
    /\ at = [t \in Threads |-> Idle]
    /\ trips = [p \in Procs |-> 0]
    /\ struck = [p \in Procs |-> 0]
    /\ saved = FALSE
    /\ spent = [ops |-> 0, faults |-> 0, crashes |-> 0]

Goto(t, step) ==
    at' = [at EXCEPT ![t] = IF step = "idle" THEN Idle ELSE [@ EXCEPT !.pc = step]]
Fault == spent.faults < MaxFaults /\ spent' = [spent EXCEPT !.faults = @ + 1]

\* The lock of the state manager: no thread of the process is inside save_state.
StateFree(t) == \A u \in Threads : Home[u] = Home[t] => at[u].pc # "write"

\* A circuit changes; going OPEN from another state counts as a trip.
SetCircuit(p, c) ==
    /\ circuit' = [circuit EXCEPT ![p] = c]
    /\ trips' = IF c.state = "OPEN" /\ circuit[p].state # "OPEN"
                THEN [trips EXCEPT ![p] = @ + 1] ELSE trips

Start(t, what, step, bad) ==
    /\ at[t].pc = "idle"
    /\ what \in May[t]
    /\ spent.ops < MaxOps
    /\ spent' = [spent EXCEPT !.ops = @ + 1]
    /\ at' = [at EXCEPT ![t] = [pc |-> step, op |-> what, breach |-> bad]]

(***************************************************************************)
(* Health monitor.                                                         *)
(***************************************************************************)
RecordMetrics(p) ==
    /\ \E m \in {"healthy", "breach"} : health' = [health EXCEPT ![p].latest = m]
    /\ UNCHANGED <<circuit, cached, holder, trips, struck, disk, at, saved, spent>>

(***************************************************************************)
(* evaluate_and_trigger, up to its interrupt.                              *)
(***************************************************************************)
Tick(t) ==
    LET h == health[Home[t]] IN
    /\ h.monitored /\ h.latest # "none"
    /\ Start(t, "tick", "open", h.latest = "breach")
    /\ UNCHANGED <<memory, disk, saved>>

\* Mutant: no short-circuit on an open breaker.
TickAlwaysRecords(t) ==
    LET p == Home[t] IN
    /\ at[t].pc = "open"
    /\ SetCircuit(p, AfterIsOpen(circuit[p]))
    /\ Goto(t, "record")
    /\ UNCHANGED <<health, cached, holder, struck, disk, saved, spent>>

TickOpen(t) ==
    LET p == Home[t] IN
    /\ at[t].pc = "open"
    /\ SetCircuit(p, AfterIsOpen(circuit[p]))
    /\ Goto(t, IF IsOpen(circuit[p]) THEN "idle" ELSE "record")
    /\ UNCHANGED <<health, cached, holder, struck, disk, saved, spent>>

TickRecord(t) ==
    LET p == Home[t] IN
    /\ at[t].pc = "record"
    /\ \/ /\ at[t].breach
          /\ SetCircuit(p, RecordFailure(circuit[p]))
          /\ Goto(t, "count")
       \/ /\ ~at[t].breach
          /\ SetCircuit(p, RecordSuccess(circuit[p]))
          /\ Goto(t, "idle")
    /\ UNCHANGED <<health, cached, holder, struck, disk, saved, spent>>

TickCount(t) ==
    /\ at[t].pc = "count"
    /\ Goto(t, IF circuit[Home[t]].count >= Threshold THEN "force" ELSE "idle")
    /\ UNCHANGED <<memory, disk, saved, spent>>

TickForce(t) ==
    LET p == Home[t] IN
    /\ at[t].pc = "force"
    /\ SetCircuit(p, OpenCircuit(circuit[p]))
    /\ Goto(t, "lock")
    /\ UNCHANGED <<health, cached, holder, struck, disk, saved, spent>>

(***************************************************************************)
(* trigger_interrupt, for a tick or for manual_trigger.                    *)
(***************************************************************************)
Trigger(t) ==
    /\ Start(t, "trigger", "lock", FALSE)
    /\ UNCHANGED <<memory, disk, saved>>

\* _acquire_lock does not wait: a second interrupt is refused.
InterruptLock(t) ==
    LET p == Home[t] IN
    /\ at[t].pc = "lock"
    /\ \/ /\ holder[p] = NoThread
          /\ holder' = [holder EXCEPT ![p] = t]
          /\ Goto(t, "save")
       \/ /\ holder[p] # NoThread
          /\ Goto(t, "idle")
          /\ UNCHANGED holder
    /\ UNCHANGED <<circuit, health, cached, trips, struck, disk, saved, spent>>

\* Mutant: an interrupt that could not be saved keeps its lock.
SaveFailedKeepsLock(t) ==
    /\ Fault
    /\ saved' = FALSE
    /\ Goto(t, "idle")
    /\ UNCHANGED holder

\* StatePersistenceError goes to the caller, the lock is released on the way.
SaveFailed(t) ==
    /\ Fault
    /\ saved' = FALSE
    /\ Goto(t, "idle")
    /\ holder' = [holder EXCEPT ![Home[t]] = NoThread]

\* open(state_file, "w"); the cache is set before it.
SaveOpen(t) ==
    /\ at[t].pc = "save"
    /\ StateFree(t)
    /\ cached' = [cached EXCEPT ![Home[t]] = TRUE]
    /\ \/ /\ file' = "torn"
          /\ writing' = writing \cup {t}
          /\ Goto(t, "write")
          /\ UNCHANGED <<holder, saved, spent>>
       \/ SaveFailed(t) /\ UNCHANGED disk
    /\ UNCHANGED <<circuit, health, trips, struck>>

\* Mutant: the file is not closed before the caller is told.
SaveWriteUnflushed(t) ==
    /\ at[t].pc = "write"
    /\ writing' = writing \ {t}
    /\ saved' = TRUE
    /\ Goto(t, "note")
    /\ UNCHANGED <<file, holder, spent, circuit, health, cached, trips, struck>>

\* Mutant: save_state takes its own lock again to look at the state it replaces.
SaveWriteNested(t) ==
    /\ at[t].pc = "write"
    /\ StateFree(t)
    /\ writing' = writing \ {t}
    /\ file' = IF t \in writing THEN "open" ELSE file
    /\ saved' = TRUE
    /\ Goto(t, "note")
    /\ UNCHANGED <<holder, spent, circuit, health, cached, trips, struck>>

SaveWrite(t) ==
    /\ at[t].pc = "write"
    /\ writing' = writing \ {t}
    /\ \/ /\ file' = IF t \in writing THEN "open" ELSE file
          /\ saved' = TRUE
          /\ Goto(t, "note")
          /\ UNCHANGED <<holder, spent>>
       \/ SaveFailed(t) /\ UNCHANGED file
    /\ UNCHANGED <<circuit, health, cached, trips, struck>>

\* The event enters the history, the lock is released, the caller is told.
InterruptNote(t) ==
    LET p == Home[t] IN
    /\ at[t].pc = "note"
    /\ struck' = IF at[t].op = "tick" THEN [struck EXCEPT ![p] = @ + 1] ELSE struck
    /\ holder' = [holder EXCEPT ![p] = NoThread]
    /\ Goto(t, "idle")
    /\ UNCHANGED <<circuit, health, cached, trips, disk, saved, spent>>

(***************************************************************************)
(* is_agent_circuit_open: is_agent_killed, which loads the state, then     *)
(* is_open of the breaker.  A state file that is not JSON is moved away    *)
(* and the error is raised.                                                *)
(***************************************************************************)
\* Mutant: a kill that was saved is over when the breaker allows a trial.
LoadTrial(t, dead, alive) ==
    LET p == Home[t] IN
    /\ StateFree(t)
    /\ cached' = [cached EXCEPT ![p] = @ \/ file = "open"]
    /\ Goto(t, IF cached'[p] /\ circuit[p].state # "HALF_OPEN" THEN dead ELSE alive)
    /\ UNCHANGED <<disk, spent>>

Load(t, dead, alive) ==
    LET p == Home[t] IN
    /\ StateFree(t)
    /\ \/ /\ cached[p] \/ file = "open"
          /\ cached' = [cached EXCEPT ![p] = TRUE]
          /\ Goto(t, dead)
          /\ UNCHANGED <<disk, spent>>
       \/ /\ ~cached[p] /\ file = "absent"
          /\ Goto(t, alive)
          /\ UNCHANGED <<cached, disk, spent>>
       \/ /\ ~cached[p] /\ file = "torn"
          /\ file' = "absent" /\ writing' = {}
          /\ Goto(t, "idle")
          /\ UNCHANGED <<cached, spent>>
       \/ /\ ~cached[p] /\ file # "absent"
          /\ Fault
          /\ Goto(t, "idle")
          /\ UNCHANGED <<cached, disk>>

Ask(t, open, closed) ==
    LET p == Home[t] IN
    /\ SetCircuit(p, AfterIsOpen(circuit[p]))
    /\ Goto(t, IF IsOpen(circuit[p]) THEN open ELSE closed)
    /\ UNCHANGED <<health, cached, holder, struck, disk, saved, spent>>

(***************************************************************************)
(* re_enable.                                                              *)
(***************************************************************************)
Reset(t) ==
    /\ Start(t, "reset", "reload", FALSE)
    /\ UNCHANGED <<memory, disk, saved>>

ResetLoad(t) ==
    /\ at[t].pc = "reload"
    /\ Load(t, "clear", "reopen")
    /\ UNCHANGED <<circuit, health, holder, trips, struck, saved>>

ResetAsk(t) == at[t].pc = "reopen" /\ Ask(t, "clear", "idle")

\* An unlink that fails is logged and the command goes on; the kill stays on file.
ResetClear(t) ==
    /\ at[t].pc = "clear"
    /\ StateFree(t)
    /\ cached' = [cached EXCEPT ![Home[t]] = FALSE]
    /\ \/ file' = "absent" /\ writing' = {} /\ saved' = FALSE /\ UNCHANGED spent
       \/ Fault /\ UNCHANGED <<disk, saved>>
    /\ Goto(t, "init")
    /\ UNCHANGED <<circuit, health, holder, trips, struck>>

ResetInit(t) ==
    /\ at[t].pc = "init"
    /\ SetCircuit(Home[t], InitializeCircuit)
    /\ Goto(t, "stop")
    /\ UNCHANGED <<health, cached, holder, struck, disk, saved, spent>>

\* stop_monitoring, at the end of re_enable and of monitoring_after_dev.
StopMonitoring(t) ==
    /\ at[t].pc = "stop"
    /\ health' = [health EXCEPT ![Home[t]].monitored = FALSE]
    /\ Goto(t, "idle")
    /\ UNCHANGED <<circuit, cached, holder, trips, struck, disk, saved, spent>>

(***************************************************************************)
(* monitoring_before_dev, the agent at work, monitoring_after_dev; and     *)
(* preflight_kill_switch or `kill-switch status`, which only ask.          *)
(***************************************************************************)
Dev(t) ==
    /\ \E what \in {"dev", "look"} : Start(t, what, "load", FALSE)
    /\ UNCHANGED <<memory, disk, saved>>

DevLoad(t) ==
    /\ at[t].pc = "load"
    /\ Load(t, "idle", "ask")
    /\ UNCHANGED <<circuit, health, holder, trips, struck, saved>>

DevAsk(t) ==
    /\ at[t].pc = "ask"
    /\ Ask(t, "idle", IF at[t].op = "dev" THEN "begin" ELSE "idle")

DevMonitor(t) ==
    /\ at[t].pc = "begin"
    /\ health' = [health EXCEPT ![Home[t]].monitored = TRUE]
    /\ Goto(t, "circuit")
    /\ UNCHANGED <<circuit, cached, holder, trips, struck, disk, saved, spent>>

DevCircuit(t) ==
    /\ at[t].pc = "circuit"
    /\ SetCircuit(Home[t], InitializeCircuit)
    /\ Goto(t, "running")
    /\ UNCHANGED <<health, cached, holder, struck, disk, saved, spent>>

DevEnd(t) ==
    /\ at[t].pc = "running"
    /\ Goto(t, "stop")
    /\ UNCHANGED <<memory, disk, saved, spent>>

(***************************************************************************)
(* Time, and the end of a process: its memory is lost.  An orderly end     *)
(* waits for its threads, a kill does not.                                 *)
(***************************************************************************)
CooldownEnds(p) ==
    /\ circuit[p].cooldown = "running"
    /\ circuit' = [circuit EXCEPT ![p].cooldown = "over"]
    /\ UNCHANGED <<health, cached, holder, trips, struck, disk, at, saved, spent>>

Forget(p) ==
    /\ circuit' = [circuit EXCEPT ![p] = NoCircuit]
    /\ health' = [health EXCEPT ![p] = NoHealth]
    /\ cached' = [cached EXCEPT ![p] = FALSE]
    /\ holder' = [holder EXCEPT ![p] = NoThread]
    /\ trips' = [trips EXCEPT ![p] = 0]
    /\ struck' = [struck EXCEPT ![p] = 0]
    /\ UNCHANGED file

Exit(p) ==
    /\ \A t \in Threads : Home[t] = p => at[t].pc = "idle"
    /\ Forget(p)
    /\ UNCHANGED <<writing, at, saved, spent>>

Killed(p) ==
    LET mine == {t \in Threads : Home[t] = p} IN
    /\ spent.crashes < MaxCrashes
    /\ \E t \in mine : at[t].pc # "idle"
    /\ spent' = [spent EXCEPT !.crashes = @ + 1]
    /\ Forget(p)
    /\ writing' = writing \ mine
    /\ saved' = (saved /\ \A t \in mine : at[t].pc # "write")
    /\ at' = [t \in Threads |-> IF t \in mine THEN Idle ELSE at[t]]

Call(t) == Tick(t) \/ Trigger(t) \/ Reset(t) \/ Dev(t)
Continue(t) ==
    \/ TickOpen(t) \/ TickRecord(t) \/ TickCount(t) \/ TickForce(t)
    \/ InterruptLock(t) \/ SaveOpen(t) \/ SaveWrite(t) \/ InterruptNote(t)
    \/ ResetLoad(t) \/ ResetAsk(t) \/ ResetClear(t) \/ ResetInit(t)
    \/ DevLoad(t) \/ DevAsk(t) \/ DevMonitor(t) \/ DevCircuit(t) \/ StopMonitoring(t)

Next ==
    \/ \E t \in Threads : Call(t) \/ Continue(t) \/ DevEnd(t)
    \/ \E p \in Procs : RecordMetrics(p) \/ CooldownEnds(p) \/ Exit(p) \/ Killed(p)

Spec == Init /\ [][Next]_vars

\* A thread inside the kill switch is scheduled, and no lock in it is held for long.
Fairness == \A t \in Threads : WF_vars(Continue(t))
FairSpec == Spec /\ Fairness
-----------------------------------------------------------------------------
\* Types.  An agent the breaker does not know has no failures and no cooldown.
KsTypeOK ==
    /\ circuit \in [Procs -> Circuit]
    /\ \A p \in Procs : circuit[p].known \/ circuit[p] = NoCircuit
    /\ health \in [Procs -> [monitored : BOOLEAN, latest : {"none", "healthy", "breach"}]]
    /\ cached \in [Procs -> BOOLEAN]
    /\ holder \in [Procs -> Threads \cup {NoThread}]
    /\ file \in {"absent", "torn", "open"}
    /\ writing \subseteq Threads
    /\ at \in [Threads -> [pc : Steps, op : Operations \cup {"none"}, breach : BOOLEAN]]
    /\ trips \in [Procs -> Nat] /\ struck \in [Procs -> Nat]
    /\ saved \in BOOLEAN
    /\ spent \in [ops : 0..MaxOps, faults : 0..MaxFaults, crashes : 0..MaxCrashes]

(***************************************************************************)
(* InterruptEngine: one interrupt of an agent at a time in a process, and  *)
(* every way out of it, the errors of the disk included, gives the lock    *)
(* back: a lock that leaks refuses every later interrupt as "already in    *)
(* progress".                                                              *)
(***************************************************************************)
InterruptExclusive ==
    \A t \in Threads : at[t].pc \in Interrupting <=> holder[Home[t]] = t

(***************************************************************************)
(* CircuitBreaker: whatever the ticks, resets and starts of an agent that  *)
(* overlap, a circuit that lets the agent work has seen fewer failures in  *)
(* a row than the threshold.                                               *)
(***************************************************************************)
ClosedBelowThreshold ==
    \A p \in Procs : circuit[p].state = "CLOSED" => circuit[p].count < Threshold

(***************************************************************************)
(* evaluate_and_trigger, "Open + interrupt exactly once": an interrupt for *)
(* the threshold answers a circuit that opened, none is repeated while it  *)
(* stays open.                                                             *)
(***************************************************************************)
OneInterruptPerTrip == \A p \in Procs : struck[p] <= trips[p]

(***************************************************************************)
(* StateManager, "Persists Kill-Switch state across agent restarts": a     *)
(* kill that was saved is known to every process, from its cache or from   *)
(* the file, until it is re-enabled.                                       *)
(***************************************************************************)
KillSurvives == saved => \A p \in Procs : cached[p] \/ file = "open"

\* phase_hooks._check_kill_switch lets no agent through while a kill is in force,
\* whatever the breaker says of its cooldown.
KilledNotLetThrough ==
    [][\A t \in Threads : at[t].pc = "load" /\ at'[t].pc = "ask" => ~saved]_vars

\* Every call into the kill switch returns.
CallsEnd ==
    \A t \in Threads : (at[t].pc \notin {"idle", "running"}) ~> (at[t].pc \in {"idle", "running"})
=============================================================================
