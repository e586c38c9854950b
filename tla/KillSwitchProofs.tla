-------------------------- MODULE KillSwitchProofs --------------------------
(***************************************************************************)
(* Proofs about KillSwitch, for any processes, threads and bounds.         *)
(***************************************************************************)
EXTENDS KillSwitch, TLAPS

\* What the methods of the breaker return for a circuit it keeps, it can keep.
Kept(c) == c \in Circuit /\ (c.known \/ c = NoCircuit)

LEMMA CountedFailure == ASSUME NEW c \in Circuit PROVE RecordFailure(c) \in Circuit
<1> DEFINE n == c.count + 1
<1>1. n \in Nat
      BY DEF Circuit
<1> HIDE DEF n
<1>2. [c EXCEPT !.state = "OPEN", !.count = n, !.cooldown = "running"] \in Circuit
      BY <1>1 DEF Circuit, States, Cooldowns
<1>3. [c EXCEPT !.state = IF @ = "HALF_OPEN" THEN "OPEN" ELSE @, !.count = n] \in Circuit
      BY <1>1 DEF Circuit, States
<1> QED BY <1>2, <1>3 DEF RecordFailure, n

LEMMA MethodsReturnCircuits ==
    ASSUME NEW c \in Circuit
    PROVE  /\ RecordSuccess(c) \in Circuit
           /\ RecordFailure(c) \in Circuit
           /\ AfterIsOpen(c) \in Circuit
           /\ OpenCircuit(c) \in Circuit /\ OpenCircuit(c).known
           /\ InitializeCircuit \in Circuit /\ InitializeCircuit.known
<1>1. RecordSuccess(c) \in Circuit
      BY DEF RecordSuccess, Circuit, States
<1>2. AfterIsOpen(c) \in Circuit
      BY DEF AfterIsOpen, Circuit, States
<1>3. OpenCircuit(c) \in Circuit /\ OpenCircuit(c).known
      BY DEF OpenCircuit, Circuit, States, Cooldowns
<1>4. InitializeCircuit \in Circuit /\ InitializeCircuit.known
      BY DEF InitializeCircuit, NoCircuit, Circuit, States, Cooldowns
<1> QED BY <1>1, <1>2, <1>3, <1>4, CountedFailure

LEMMA MethodsKeep ==
    ASSUME NEW c, Kept(c)
    PROVE  /\ Kept(RecordSuccess(c)) /\ Kept(RecordFailure(c)) /\ Kept(AfterIsOpen(c))
           /\ Kept(OpenCircuit(c)) /\ Kept(InitializeCircuit)
<1>1. CASE c.known
  <2>1. c \in Circuit
        BY DEF Kept
  <2>2. RecordSuccess(c).known /\ RecordFailure(c).known /\ AfterIsOpen(c).known
        BY <1>1, <2>1 DEF RecordSuccess, RecordFailure, AfterIsOpen, Circuit
  <2> QED BY <2>1, <2>2, MethodsReturnCircuits DEF Kept
<1>2. CASE c = NoCircuit
  <2>1. RecordSuccess(c) = c /\ RecordFailure(c) = c /\ AfterIsOpen(c) = c
        BY <1>2 DEF RecordSuccess, RecordFailure, AfterIsOpen, NoCircuit
  <2> QED BY <2>1, MethodsReturnCircuits DEF Kept
<1> QED BY <1>1, <1>2 DEF Kept

\* The types of a part of the state, and of the rest.
CircuitTypes ==
    /\ circuit \in [Procs -> Circuit]
    /\ \A p \in Procs : circuit[p].known \/ circuit[p] = NoCircuit
    /\ trips \in [Procs -> Nat]
HealthTypes == health \in [Procs -> [monitored : BOOLEAN, latest : {"none", "healthy", "breach"}]]
LockTypes ==
    /\ cached \in [Procs -> BOOLEAN]
    /\ holder \in [Procs -> Threads \cup {NoThread}]
    /\ struck \in [Procs -> Nat]
DiskTypes == file \in {"absent", "torn", "open"} /\ writing \subseteq Threads
ThreadTypes == at \in [Threads -> [pc : Steps, op : Operations \cup {"none"}, breach : BOOLEAN]]
BookTypes ==
    /\ saved \in BOOLEAN
    /\ spent \in [ops : 0..MaxOps, faults : 0..MaxFaults, crashes : 0..MaxCrashes]

LEMMA TypeParts ==
    KsTypeOK <=> /\ CircuitTypes /\ HealthTypes /\ LockTypes /\ DiskTypes /\ ThreadTypes
                 /\ BookTypes
BY DEF KsTypeOK, CircuitTypes, HealthTypes, LockTypes, DiskTypes, ThreadTypes, BookTypes

LEMMA TypePartsAfter ==
    ASSUME CircuitTypes', HealthTypes', LockTypes', DiskTypes', ThreadTypes', BookTypes'
    PROVE  KsTypeOK'
BY DEF KsTypeOK, CircuitTypes, HealthTypes, LockTypes, DiskTypes, ThreadTypes, BookTypes

LEMMA SetCircuitTypes ==
    ASSUME CircuitTypes, NEW p \in Procs, NEW c, Kept(c), SetCircuit(p, c)
    PROVE  CircuitTypes'
BY DEF CircuitTypes, SetCircuit, Kept

LEMMA GotoTypes ==
    ASSUME ThreadTypes, NEW t \in Threads, NEW step \in Steps, Goto(t, step)
    PROVE  ThreadTypes'
BY DEF ThreadTypes, Goto, Idle, Steps

LEMMA StartTypes ==
    ASSUME ThreadTypes, BookTypes, NEW t \in Threads, NEW what, NEW step \in Steps,
           NEW bad \in BOOLEAN, Start(t, what, step, bad), saved' = saved
    PROVE  ThreadTypes' /\ BookTypes'
<1>1. what \in Operations
      BY KillSwitchAssumption DEF Start
<1>2. [pc |-> step, op |-> what, breach |-> bad]
          \in [pc : Steps, op : Operations \cup {"none"}, breach : BOOLEAN]
      BY <1>1
<1>3. ThreadTypes'
      BY <1>2 DEF ThreadTypes, Start
<1>4. spent.ops + 1 \in 0..MaxOps
      BY KillSwitchAssumption DEF BookTypes, Start
<1>5. BookTypes'
      BY <1>4 DEF BookTypes, Start
<1> QED BY <1>3, <1>5

LEMMA FaultTypes ==
    ASSUME BookTypes, Fault, saved' \in BOOLEAN
    PROVE  BookTypes'
<1>1. spent.faults + 1 \in 0..MaxFaults
      BY KillSwitchAssumption DEF BookTypes, Fault
<1> QED BY <1>1 DEF BookTypes, Fault

LEMMA TypeInit == Init => KsTypeOK
<1> SUFFICES ASSUME Init PROVE KsTypeOK
    OBVIOUS
<1> USE KillSwitchAssumption DEF Init
<1>1. NoCircuit \in Circuit
      BY DEF NoCircuit, Circuit, States, Cooldowns
<1>2. CircuitTypes
      BY <1>1 DEF CircuitTypes
<1>3. HealthTypes
      BY DEF HealthTypes, NoHealth
<1>4. ThreadTypes
      BY DEF ThreadTypes, Idle, Steps
<1>5. LockTypes
      BY DEF LockTypes
<1>6. DiskTypes
      BY DEF DiskTypes
<1>7. BookTypes
  <2>1. 0 \in 0..MaxOps /\ 0 \in 0..MaxFaults /\ 0 \in 0..MaxCrashes
        OBVIOUS
  <2> QED BY <2>1 DEF BookTypes
<1> QED BY <1>2, <1>3, <1>4, <1>5, <1>6, <1>7, TypeParts

\* Load, which every question about the agent starts with.
LEMMA LoadTypes ==
    ASSUME KsTypeOK, NEW t \in Threads, NEW dead \in Steps, NEW alive \in Steps,
           Load(t, dead, alive), UNCHANGED <<holder, struck, saved>>
    PROVE  LockTypes' /\ DiskTypes' /\ ThreadTypes' /\ BookTypes'
<1> USE KillSwitchAssumption, TypeParts
<1>1. "idle" \in Steps
      BY DEF Steps
<1>2. \E step \in Steps : Goto(t, step)
      BY <1>1 DEF Load
<1>3. ThreadTypes'
      BY <1>2, GotoTypes
<1>4. LockTypes' /\ DiskTypes'
  <2>1. cached' \in [Procs -> BOOLEAN]
        BY DEF LockTypes, Load
  <2>2. DiskTypes'
        BY DEF DiskTypes, Load, disk
  <2> QED BY <2>1, <2>2 DEF LockTypes
<1>5. BookTypes'
  <2>1. CASE UNCHANGED spent
        BY <2>1 DEF BookTypes
  <2>2. CASE Fault
        BY <2>2, FaultTypes DEF BookTypes
  <2> QED BY <2>1, <2>2 DEF Load
<1> QED BY <1>3, <1>4, <1>5

\* A failed save touches the lock, the thread and the books.
LEMMA SaveFailedTypes ==
    ASSUME KsTypeOK, NEW t \in Threads, SaveFailed(t), UNCHANGED struck,
           cached' \in [Procs -> BOOLEAN]
    PROVE  LockTypes' /\ ThreadTypes' /\ BookTypes'
<1>1. "idle" \in Steps
      BY DEF Steps
<1>2. ThreadTypes' /\ BookTypes'
      BY <1>1, GotoTypes, FaultTypes, TypeParts DEF SaveFailed
<1>3. LockTypes'
      BY KillSwitchAssumption, TypeParts DEF LockTypes, SaveFailed
<1> QED BY <1>2, <1>3

LEMMA CallTypes == ASSUME KsTypeOK, NEW t \in Threads, Call(t) PROVE KsTypeOK'
<1> USE TypeParts
<1>1. UNCHANGED <<memory, disk, saved>>
      BY DEF Call, Tick, Trigger, Reset, Dev
<1>2. PICK what \in Operations, step \in Steps, bad \in BOOLEAN : Start(t, what, step, bad)
      BY DEF Call, Tick, Trigger, Reset, Dev, Steps, Operations
<1>3. ThreadTypes' /\ BookTypes'
      BY <1>1, <1>2, StartTypes
<1>4. CircuitTypes' /\ HealthTypes' /\ LockTypes' /\ DiskTypes'
      BY <1>1 DEF memory, disk, CircuitTypes, HealthTypes, LockTypes, DiskTypes
<1> QED BY <1>3, <1>4, TypePartsAfter

\* A step of a thread that changes the breaker, the health or nothing but its place.
LEMMA QuietTypes ==
    ASSUME KsTypeOK, NEW t \in Threads, NEW step \in Steps, Goto(t, step),
           UNCHANGED <<cached, holder, struck, disk, saved, spent>>
    PROVE  LockTypes' /\ DiskTypes' /\ ThreadTypes' /\ BookTypes'
<1> USE TypeParts
<1>1. ThreadTypes'
      BY GotoTypes
<1>2. LockTypes' /\ DiskTypes' /\ BookTypes'
      BY DEF LockTypes, DiskTypes, BookTypes, disk
<1> QED BY <1>1, <1>2

LEMMA BreakerStepTypes ==
    ASSUME KsTypeOK, NEW t \in Threads, NEW step \in Steps, Goto(t, step),
           NEW c, Kept(c), SetCircuit(Home[t], c),
           UNCHANGED <<health, cached, holder, struck, disk, saved, spent>>
    PROVE  KsTypeOK'
<1>1. CircuitTypes'
      BY SetCircuitTypes, KillSwitchAssumption, TypeParts
<1>2. HealthTypes'
      BY TypeParts DEF HealthTypes
<1> QED BY <1>1, <1>2, QuietTypes, TypePartsAfter

LEMMA BreakerSteps ==
    ASSUME KsTypeOK, NEW t \in Threads,
           \/ TickOpen(t) \/ TickRecord(t) \/ TickForce(t) \/ ResetAsk(t) \/ ResetInit(t)
           \/ DevAsk(t) \/ DevCircuit(t)
    PROVE  KsTypeOK'
<1> DEFINE c == circuit[Home[t]]
<1>1. Kept(c)
      BY KillSwitchAssumption, TypeParts DEF Kept, CircuitTypes
<1> HIDE DEF c
<1>2. \E d : /\ d \in {AfterIsOpen(c), RecordFailure(c), RecordSuccess(c), OpenCircuit(c),
                        InitializeCircuit}
             /\ SetCircuit(Home[t], d)
      BY DEF TickOpen, TickRecord, TickForce, ResetAsk, ResetInit, DevAsk, DevCircuit, Ask, c
<1>3. PICK d : Kept(d) /\ SetCircuit(Home[t], d)
      BY <1>1, <1>2, MethodsKeep
<1>4. PICK step \in Steps : Goto(t, step)
      BY DEF TickOpen, TickRecord, TickForce, ResetAsk, ResetInit, DevAsk, DevCircuit, Ask, Steps
<1>5. UNCHANGED <<health, cached, holder, struck, disk, saved, spent>>
      BY DEF TickOpen, TickRecord, TickForce, ResetAsk, ResetInit, DevAsk, DevCircuit, Ask
<1> QED BY <1>3, <1>4, <1>5, BreakerStepTypes

LEMMA LoadSteps ==
    ASSUME KsTypeOK, NEW t \in Threads, ResetLoad(t) \/ DevLoad(t)
    PROVE  KsTypeOK'
<1>1. \E dead \in Steps, alive \in Steps : Load(t, dead, alive)
      BY DEF ResetLoad, DevLoad, Steps
<1>2. UNCHANGED <<circuit, health, holder, trips, struck, saved>>
      BY DEF ResetLoad, DevLoad
<1>3. CircuitTypes' /\ HealthTypes'
      BY <1>2, TypeParts DEF CircuitTypes, HealthTypes
<1> QED BY <1>1, <1>2, <1>3, LoadTypes, TypePartsAfter

LEMMA HealthSteps ==
    ASSUME KsTypeOK, NEW t \in Threads,
           DevMonitor(t) \/ StopMonitoring(t) \/ TickCount(t) \/ DevEnd(t)
    PROVE  KsTypeOK'
<1> USE KillSwitchAssumption, TypeParts
<1>1. PICK step \in Steps : Goto(t, step)
      BY DEF DevMonitor, StopMonitoring, TickCount, DevEnd, Steps
<1>2. UNCHANGED <<circuit, cached, holder, trips, struck, disk, saved, spent>>
      BY DEF DevMonitor, StopMonitoring, TickCount, DevEnd, memory
<1>3. HealthTypes'
  <2>1. ASSUME NEW b \in BOOLEAN, health' = [health EXCEPT ![Home[t]].monitored = b]
        PROVE  HealthTypes'
        BY <2>1 DEF HealthTypes
  <2>2. CASE UNCHANGED health
        BY <2>2 DEF HealthTypes
  <2> QED BY <2>1, <2>2 DEF DevMonitor, StopMonitoring, TickCount, DevEnd, memory
<1>4. CircuitTypes'
      BY <1>2 DEF CircuitTypes
<1> QED BY <1>1, <1>2, <1>3, <1>4, QuietTypes, TypePartsAfter

LEMMA InterruptSteps ==
    ASSUME KsTypeOK, NEW t \in Threads,
           InterruptLock(t) \/ SaveOpen(t) \/ SaveWrite(t) \/ InterruptNote(t)
    PROVE  KsTypeOK'
<1> USE KillSwitchAssumption, TypeParts
<1>1. CircuitTypes' /\ HealthTypes'
      BY DEF InterruptLock, SaveOpen, SaveWrite, InterruptNote, CircuitTypes, HealthTypes
<1>2. DiskTypes'
      BY DEF InterruptLock, SaveOpen, SaveWrite, InterruptNote, DiskTypes, disk
<1>3. cached' \in [Procs -> BOOLEAN]
      BY DEF InterruptLock, SaveOpen, SaveWrite, InterruptNote, LockTypes
<1>4. CASE SaveFailed(t) /\ UNCHANGED struck
      BY <1>1, <1>2, <1>3, <1>4, SaveFailedTypes, TypePartsAfter
<1>5. CASE ~(SaveFailed(t) /\ UNCHANGED struck)
  <2>1. \E step \in Steps : Goto(t, step)
        BY <1>5 DEF InterruptLock, SaveOpen, SaveWrite, InterruptNote, Steps, Interrupting
  <2>2. ThreadTypes'
        BY <2>1, GotoTypes
  <2>3. UNCHANGED spent /\ saved' \in BOOLEAN
        BY <1>5 DEF InterruptLock, SaveOpen, SaveWrite, InterruptNote, BookTypes
  <2>4. holder' \in [Procs -> Threads \cup {NoThread}]
        BY <1>5 DEF InterruptLock, SaveOpen, SaveWrite, InterruptNote, LockTypes
  <2>5. struck' \in [Procs -> Nat]
        BY DEF InterruptLock, SaveOpen, SaveWrite, InterruptNote, LockTypes
  <2>6. LockTypes' /\ BookTypes'
        BY <1>3, <2>3, <2>4, <2>5 DEF LockTypes, BookTypes
  <2> QED BY <1>1, <1>2, <2>2, <2>6, TypePartsAfter
<1> QED BY <1>4, <1>5

LEMMA ClearStep == ASSUME KsTypeOK, NEW t \in Threads, ResetClear(t) PROVE KsTypeOK'
<1> USE TypeParts DEF ResetClear
<1>1. CircuitTypes' /\ HealthTypes'
      BY DEF CircuitTypes, HealthTypes
<1>2. LockTypes' /\ DiskTypes'
      BY DEF LockTypes, DiskTypes, disk
<1>3. ThreadTypes'
      BY GotoTypes DEF Steps
<1>4. BookTypes'
  <2>1. CASE saved' = FALSE /\ UNCHANGED spent
        BY <2>1 DEF BookTypes
  <2>2. CASE Fault /\ UNCHANGED saved
        BY <2>2, FaultTypes DEF BookTypes
  <2> QED BY <2>1, <2>2
<1> QED BY <1>1, <1>2, <1>3, <1>4, TypePartsAfter

LEMMA ForgetTypes ==
    ASSUME KsTypeOK, NEW p \in Procs, Forget(p)
    PROVE  CircuitTypes' /\ HealthTypes' /\ LockTypes'
<1> USE TypeParts DEF Forget
<1>1. NoCircuit \in Circuit
      BY DEF NoCircuit, Circuit, States, Cooldowns
<1>2. CircuitTypes'
      BY <1>1 DEF CircuitTypes
<1>3. HealthTypes'
      BY DEF HealthTypes, NoHealth
<1>4. LockTypes'
      BY DEF LockTypes
<1> QED BY <1>2, <1>3, <1>4

LEMMA ProcessSteps ==
    ASSUME KsTypeOK, NEW p \in Procs,
           RecordMetrics(p) \/ CooldownEnds(p) \/ Exit(p) \/ Killed(p)
    PROVE  KsTypeOK'
<1> USE KillSwitchAssumption, TypeParts
<1>1. CASE RecordMetrics(p)
  <2>1. HealthTypes'
        BY <1>1 DEF RecordMetrics, HealthTypes
  <2> QED BY <1>1, <2>1, TypePartsAfter
          DEF RecordMetrics, CircuitTypes, LockTypes, DiskTypes, ThreadTypes, BookTypes, disk
<1>2. CASE CooldownEnds(p)
  <2>1. circuit[p] \in Circuit /\ circuit[p].known
        BY <1>2 DEF CooldownEnds, CircuitTypes, NoCircuit
  <2>2. /\ [circuit[p] EXCEPT !.cooldown = "over"] \in Circuit
        /\ [circuit[p] EXCEPT !.cooldown = "over"].known
        BY <2>1 DEF Circuit, Cooldowns
  <2>3. CircuitTypes'
        BY <1>2, <2>2 DEF CooldownEnds, CircuitTypes
  <2> QED BY <1>2, <2>3, TypePartsAfter
          DEF CooldownEnds, HealthTypes, LockTypes, DiskTypes, ThreadTypes, BookTypes, disk
<1>3. CASE Exit(p)
  <2>1. DiskTypes' /\ ThreadTypes' /\ BookTypes'
        BY <1>3 DEF Exit, Forget, DiskTypes, ThreadTypes, BookTypes
  <2> QED BY <1>3, <2>1, ForgetTypes, TypePartsAfter DEF Exit
<1>4. CASE Killed(p)
  <2>1. CircuitTypes' /\ HealthTypes' /\ LockTypes'
        BY <1>4, ForgetTypes DEF Killed
  <2>2. DiskTypes'
        BY <1>4 DEF Killed, Forget, DiskTypes
  <2>3. ThreadTypes'
        BY <1>4 DEF Killed, ThreadTypes, Idle, Steps
  <2>4. spent.crashes + 1 \in 0..MaxCrashes
        BY <1>4 DEF Killed, BookTypes
  <2>5. BookTypes'
        BY <1>4, <2>4 DEF Killed, BookTypes
  <2> QED BY <2>1, <2>2, <2>3, <2>5, TypePartsAfter
<1> QED BY <1>1, <1>2, <1>3, <1>4

LEMMA TypeStep == KsTypeOK /\ [Next]_vars => KsTypeOK'
<1> SUFFICES ASSUME KsTypeOK, [Next]_vars PROVE KsTypeOK'
    OBVIOUS
<1>1. CASE \E t \in Threads : Call(t)
      BY <1>1, CallTypes
<1>2. CASE \E t \in Threads : Continue(t) \/ DevEnd(t)
      BY <1>2, BreakerSteps, LoadSteps, HealthSteps, InterruptSteps, ClearStep DEF Continue
<1>3. CASE \E p \in Procs : RecordMetrics(p) \/ CooldownEnds(p) \/ Exit(p) \/ Killed(p)
      BY <1>3, ProcessSteps
<1>4. CASE UNCHANGED vars
      BY <1>4 DEF vars, memory, disk, KsTypeOK
<1> QED BY <1>1, <1>2, <1>3, <1>4 DEF Next

\* Types are kept by every step of the kill switch.
THEOREM KsTypeCorrect == Spec => []KsTypeOK
BY TypeInit, TypeStep, PTL DEF Spec

-----------------------------------------------------------------------------
(***************************************************************************)
(* The interrupt lock.                                                     *)
(***************************************************************************)
\* A thread moves: the lock is right if it is right for this thread, and nobody
\* else was touched.
LEMMA ExclusiveMove ==
    ASSUME KsTypeOK, InterruptExclusive, NEW t \in Threads, NEW entry,
           at' = [at EXCEPT ![t] = entry],
           \/ /\ UNCHANGED holder
              /\ entry.pc \in Interrupting <=> at[t].pc \in Interrupting
           \/ /\ holder' = [holder EXCEPT ![Home[t]] = t]
              /\ holder[Home[t]] = NoThread /\ entry.pc \in Interrupting
           \/ /\ holder' = [holder EXCEPT ![Home[t]] = NoThread]
              /\ holder[Home[t]] = t /\ entry.pc \notin Interrupting
    PROVE  InterruptExclusive'
<1> SUFFICES ASSUME NEW u \in Threads
             PROVE  at'[u].pc \in Interrupting <=> holder'[Home[u]] = u
    BY DEF InterruptExclusive
<1>1. at[u].pc \in Interrupting <=> holder[Home[u]] = u
      BY DEF InterruptExclusive
<1>2. holder \in [Procs -> Threads \cup {NoThread}] /\ Home[t] \in Procs /\ Home[u] \in Procs
      BY KillSwitchAssumption DEF KsTypeOK
<1>3. DOMAIN at = Threads
      BY DEF KsTypeOK
<1>4. CASE u = t
      BY <1>1, <1>2, <1>3, <1>4, KillSwitchAssumption DEF InterruptExclusive
<1>5. CASE u # t
  <2>1. at'[u] = at[u]
        BY <1>3, <1>5
  <2>2. holder'[Home[u]] = u <=> holder[Home[u]] = u
        BY <1>2, <1>5, KillSwitchAssumption
  <2> QED BY <1>1, <2>1, <2>2
<1> QED BY <1>4, <1>5

LEMMA ExclusiveQuiet ==
    ASSUME KsTypeOK, InterruptExclusive, NEW t \in Threads, NEW step, Goto(t, step),
           UNCHANGED holder, at[t].pc \notin Interrupting, step \notin Interrupting
    PROVE  InterruptExclusive'
<1> DEFINE entry == IF step = "idle" THEN Idle ELSE [at[t] EXCEPT !.pc = step]
<1>1. at' = [at EXCEPT ![t] = entry]
      BY DEF Goto
<1>2. entry.pc \notin Interrupting
      BY DEF Idle, Interrupting, KsTypeOK
<1> QED BY <1>1, <1>2, ExclusiveMove

\* The steps of an interrupt: entry, advance and the two ways out.
LEMMA ExclusiveInterrupt ==
    ASSUME KsTypeOK, InterruptExclusive, NEW t \in Threads,
           InterruptLock(t) \/ SaveOpen(t) \/ SaveWrite(t) \/ InterruptNote(t)
    PROVE  InterruptExclusive'
<1>1. PICK step \in {"idle", "save", "write", "note"} : Goto(t, step)
      BY DEF InterruptLock, SaveOpen, SaveWrite, InterruptNote, SaveFailed
<1> DEFINE entry == IF step = "idle" THEN Idle ELSE [at[t] EXCEPT !.pc = step]
<1>2. at' = [at EXCEPT ![t] = entry]
      BY <1>1 DEF Goto
<1>3. entry.pc = step
      BY DEF Idle, KsTypeOK
<1>4. at[t].pc \in Interrupting <=> holder[Home[t]] = t
      BY DEF InterruptExclusive
<1> HIDE DEF entry
<1>5. CASE InterruptLock(t)
  <2>1. CASE holder[Home[t]] = NoThread
    <3>1. holder' = [holder EXCEPT ![Home[t]] = t] /\ Goto(t, "save")
          BY <1>5, <2>1 DEF InterruptLock
    <3>2. at'[t].pc = "save"
          BY <3>1 DEF Goto, KsTypeOK
    <3> QED BY <1>2, <2>1, <3>1, <3>2, ExclusiveMove DEF Interrupting, KsTypeOK
  <2>2. CASE holder[Home[t]] # NoThread
    <3>1. UNCHANGED holder /\ Goto(t, "idle") /\ at[t].pc = "lock"
          BY <1>5, <2>2 DEF InterruptLock
    <3> QED BY <3>1, ExclusiveQuiet DEF Interrupting
  <2> QED BY <2>1, <2>2
<1>6. CASE SaveFailed(t) /\ at[t].pc \in Interrupting
  <2>1. holder' = [holder EXCEPT ![Home[t]] = NoThread] /\ at'[t].pc = "idle"
        BY <1>6 DEF SaveFailed, Goto, Idle, KsTypeOK
  <2> QED BY <1>2, <1>4, <1>6, <2>1, ExclusiveMove DEF Interrupting, KsTypeOK
<1>7. CASE ~SaveFailed(t) /\ (SaveOpen(t) \/ SaveWrite(t))
  <2>1. UNCHANGED holder /\ at[t].pc \in Interrupting /\ at'[t].pc \in Interrupting
        BY <1>7 DEF SaveOpen, SaveWrite, Goto, KsTypeOK, Interrupting
  <2> QED BY <1>2, <2>1, ExclusiveMove DEF KsTypeOK
<1>8. CASE InterruptNote(t)
  <2>1. /\ holder' = [holder EXCEPT ![Home[t]] = NoThread] /\ at'[t].pc = "idle"
        /\ at[t].pc \in Interrupting
        BY <1>8 DEF InterruptNote, Goto, Idle, KsTypeOK, Interrupting
  <2> QED BY <1>2, <1>4, <2>1, ExclusiveMove DEF Interrupting, KsTypeOK
<1> QED BY <1>5, <1>6, <1>7, <1>8 DEF SaveOpen, SaveWrite, Interrupting

\* Every other step of a thread starts and ends outside an interrupt.
LEMMA ExclusiveElsewhere ==
    ASSUME KsTypeOK, InterruptExclusive, NEW t \in Threads,
           \/ TickOpen(t) \/ TickRecord(t) \/ TickCount(t) \/ TickForce(t)
           \/ ResetLoad(t) \/ ResetAsk(t) \/ ResetClear(t) \/ ResetInit(t) \/ StopMonitoring(t)
           \/ DevLoad(t) \/ DevAsk(t) \/ DevMonitor(t) \/ DevCircuit(t) \/ DevEnd(t)
    PROVE  InterruptExclusive'
<1>1. UNCHANGED holder
      BY DEF TickOpen, TickRecord, TickCount, TickForce, ResetLoad, ResetAsk, ResetClear, ResetInit,
             StopMonitoring, DevLoad, DevAsk, DevMonitor, DevCircuit, DevEnd, Ask, memory
<1>2. at[t].pc \notin Interrupting
      BY DEF TickOpen, TickRecord, TickCount, TickForce, ResetLoad, ResetAsk, ResetClear, ResetInit,
             StopMonitoring, DevLoad, DevAsk, DevMonitor, DevCircuit, DevEnd, Interrupting
<1>3. \E step : step \notin Interrupting /\ Goto(t, step)
      BY DEF TickOpen, TickRecord, TickCount, TickForce, ResetLoad, ResetAsk, ResetClear, ResetInit,
             StopMonitoring, DevLoad, DevAsk, DevMonitor, DevCircuit, DevEnd, Ask, Load, Interrupting
<1> QED BY <1>1, <1>2, <1>3, ExclusiveQuiet

LEMMA ExclusiveForget ==
    ASSUME InterruptExclusive, KsTypeOK, NEW p \in Procs, Forget(p),
           at' = [t \in Threads |-> IF Home[t] = p THEN Idle ELSE at[t]]
    PROVE  InterruptExclusive'
<1> SUFFICES ASSUME NEW t \in Threads
             PROVE  at'[t].pc \in Interrupting <=> holder'[Home[t]] = t
    BY DEF InterruptExclusive
<1>1. holder' = [holder EXCEPT ![p] = NoThread] /\ Home[t] \in Procs /\ DOMAIN holder = Procs
      BY KillSwitchAssumption DEF Forget, KsTypeOK
<1>2. CASE Home[t] = p
      BY <1>1, <1>2, KillSwitchAssumption DEF Idle, Interrupting
<1>3. CASE Home[t] # p
      BY <1>1, <1>3 DEF InterruptExclusive
<1> QED BY <1>2, <1>3

LEMMA ExclusiveStep ==
    KsTypeOK /\ InterruptExclusive /\ [Next]_vars => InterruptExclusive'
<1> SUFFICES ASSUME KsTypeOK, InterruptExclusive, [Next]_vars PROVE InterruptExclusive'
    OBVIOUS
<1>1. ASSUME NEW t \in Threads, Call(t) PROVE InterruptExclusive'
  <2>1. UNCHANGED holder
        BY <1>1 DEF Call, Tick, Trigger, Reset, Dev, memory
  <2>2. PICK what \in Operations, bad \in BOOLEAN, step \in {"open", "lock", "reload", "load"} :
              Start(t, what, step, bad)
        BY <1>1 DEF Call, Tick, Trigger, Reset, Dev, Operations
  <2>3. /\ at[t].pc = "idle"
        /\ at' = [at EXCEPT ![t] = [pc |-> step, op |-> what, breach |-> bad]]
        BY <2>2 DEF Start
  <2> QED BY <2>1, <2>3, ExclusiveMove DEF Interrupting
<1>2. CASE \E t \in Threads : Continue(t) \/ DevEnd(t)
      BY <1>2, ExclusiveInterrupt, ExclusiveElsewhere DEF Continue
<1>3. ASSUME NEW p \in Procs, Exit(p) PROVE InterruptExclusive'
  <2>1. at' = [t \in Threads |-> IF Home[t] = p THEN at[t] ELSE at[t]]
        BY <1>3 DEF Exit, KsTypeOK
  <2>2. ASSUME NEW t \in Threads, Home[t] = p PROVE holder[p] # t
        BY <1>3, <2>2 DEF Exit, InterruptExclusive, Interrupting
  <2>3. ASSUME NEW t \in Threads
        PROVE  at'[t].pc \in Interrupting <=> holder'[Home[t]] = t
        BY <1>3, <2>2, KillSwitchAssumption DEF Exit, Forget, KsTypeOK, InterruptExclusive
  <2> QED BY <2>3 DEF InterruptExclusive
<1>4. ASSUME NEW p \in Procs, Killed(p) PROVE InterruptExclusive'
  <2>1. at' = [t \in Threads |-> IF Home[t] = p THEN Idle ELSE at[t]]
        BY <1>4 DEF Killed
  <2> QED BY <1>4, <2>1, ExclusiveForget DEF Killed
<1>5. CASE \E p \in Procs : RecordMetrics(p) \/ CooldownEnds(p)
      BY <1>5 DEF RecordMetrics, CooldownEnds, InterruptExclusive
<1>6. CASE UNCHANGED vars
      BY <1>6 DEF vars, memory, InterruptExclusive
<1> QED BY <1>1, <1>2, <1>3, <1>4, <1>5, <1>6 DEF Next

(***************************************************************************)
(* InterruptEngine._acquire_lock and the finally of trigger_interrupt: in  *)
(* each process one thread at a time is inside an interrupt, and the lock  *)
(* is held by nobody else, on every path out of it.                        *)
(***************************************************************************)
THEOREM InterruptExclusiveAlways == Spec => []InterruptExclusive
<1>1. Init => InterruptExclusive
      BY KillSwitchAssumption DEF Init, InterruptExclusive, Idle, Interrupting
<1> QED BY <1>1, TypeInit, TypeStep, ExclusiveStep, PTL DEF Spec

-----------------------------------------------------------------------------
(***************************************************************************)
(* The breaker.                                                            *)
(***************************************************************************)
Below(c) == c.state = "CLOSED" => c.count < Threshold

LEMMA MethodsStayBelow ==
    ASSUME NEW c \in Circuit, Below(c)
    PROVE  /\ Below(RecordSuccess(c)) /\ Below(RecordFailure(c)) /\ Below(AfterIsOpen(c))
           /\ Below(OpenCircuit(c)) /\ Below(InitializeCircuit) /\ Below(NoCircuit)
<1> USE ThresholdAssumption DEF Below, Circuit
<1>1. Below(RecordSuccess(c))
      BY DEF RecordSuccess
<1>2. Below(RecordFailure(c))
      BY DEF RecordFailure
<1>3. Below(AfterIsOpen(c)) /\ Below(OpenCircuit(c))
      BY DEF AfterIsOpen, OpenCircuit
<1>4. Below(NoCircuit) /\ Below(InitializeCircuit)
      BY DEF NoCircuit, InitializeCircuit
<1> QED BY <1>1, <1>2, <1>3, <1>4

\* A circuit is left alone or replaced by what a method returns.
LEMMA CircuitMoves ==
    ASSUME KsTypeOK, NEW t \in Threads, Call(t) \/ Continue(t) \/ DevEnd(t)
    PROVE  \/ UNCHANGED circuit
           \/ \E d : /\ d \in {AfterIsOpen(circuit[Home[t]]), RecordFailure(circuit[Home[t]]),
                              RecordSuccess(circuit[Home[t]]), OpenCircuit(circuit[Home[t]]),
                              InitializeCircuit}
                    /\ circuit' = [circuit EXCEPT ![Home[t]] = d]
<1>1. CASE Call(t)
      BY <1>1 DEF Call, Tick, Trigger, Reset, Dev, memory
<1>2. CASE \/ TickOpen(t) \/ TickRecord(t) \/ TickForce(t) \/ ResetAsk(t) \/ ResetInit(t)
           \/ DevAsk(t) \/ DevCircuit(t)
      BY <1>2 DEF TickOpen, TickRecord, TickForce, ResetAsk, ResetInit, DevAsk, DevCircuit, Ask,
                  SetCircuit
<1>3. CASE \/ TickCount(t) \/ InterruptLock(t) \/ SaveOpen(t) \/ SaveWrite(t) \/ InterruptNote(t)
           \/ ResetLoad(t) \/ ResetClear(t) \/ DevLoad(t) \/ DevMonitor(t) \/ StopMonitoring(t)
           \/ DevEnd(t)
      BY <1>3 DEF TickCount, InterruptLock, SaveOpen, SaveWrite, InterruptNote, ResetLoad,
                  ResetClear, DevLoad, DevMonitor, StopMonitoring, DevEnd, memory
<1> QED BY <1>1, <1>2, <1>3 DEF Continue

LEMMA BelowStep == KsTypeOK /\ ClosedBelowThreshold /\ [Next]_vars => ClosedBelowThreshold'
<1> SUFFICES ASSUME KsTypeOK, ClosedBelowThreshold, [Next]_vars PROVE ClosedBelowThreshold'
    OBVIOUS
<1>1. \A p \in Procs : circuit[p] \in Circuit /\ Below(circuit[p])
      BY DEF KsTypeOK, ClosedBelowThreshold, Below
<1>2. ASSUME \A p \in Procs : Below(circuit'[p]) PROVE ClosedBelowThreshold'
      BY <1>2 DEF ClosedBelowThreshold, Below
<1>3. ASSUME NEW q \in Procs, NEW d, Below(d), circuit' = [circuit EXCEPT ![q] = d]
      PROVE  ClosedBelowThreshold'
      BY <1>1, <1>2, <1>3 DEF KsTypeOK
<1>4. CASE UNCHANGED circuit
      BY <1>1, <1>2, <1>4
<1>5. ASSUME NEW t \in Threads, Call(t) \/ Continue(t) \/ DevEnd(t)
      PROVE  ClosedBelowThreshold'
  <2>1. Home[t] \in Procs
        BY KillSwitchAssumption
  <2>2. CASE ~UNCHANGED circuit
    <3>1. PICK d : /\ d \in {AfterIsOpen(circuit[Home[t]]), RecordFailure(circuit[Home[t]]),
                             RecordSuccess(circuit[Home[t]]), OpenCircuit(circuit[Home[t]]),
                             InitializeCircuit}
                   /\ circuit' = [circuit EXCEPT ![Home[t]] = d]
          BY <1>5, <2>2, CircuitMoves
    <3>2. Below(d)
          BY <1>1, <2>1, <3>1, MethodsStayBelow
    <3> QED BY <1>3, <2>1, <3>1, <3>2
  <2> QED BY <1>4, <2>2
<1>6. ASSUME NEW p \in Procs, RecordMetrics(p) \/ CooldownEnds(p) \/ Exit(p) \/ Killed(p)
      PROVE  ClosedBelowThreshold'
  <2>1. CASE RecordMetrics(p)
        BY <1>4, <2>1 DEF RecordMetrics
  <2>2. CASE CooldownEnds(p)
    <3>1. Below([circuit[p] EXCEPT !.cooldown = "over"])
          BY <1>1 DEF Below, Circuit
    <3> QED BY <1>3, <2>2, <3>1 DEF CooldownEnds
  <2>3. CASE Forget(p)
        BY <1>1, <1>3, <2>3, MethodsStayBelow DEF Forget
  <2> QED BY <1>6, <2>1, <2>2, <2>3 DEF Exit, Killed
<1>7. CASE UNCHANGED vars
      BY <1>4, <1>7 DEF vars, memory
<1> QED BY <1>5, <1>6, <1>7 DEF Next

(***************************************************************************)
(* CircuitBreaker.record_failure against its threshold: no interleaving of *)
(* ticks, resets, starts, kills and the end of cooldowns leaves a circuit  *)
(* CLOSED with as many failures as should have opened it.                  *)
(***************************************************************************)
THEOREM ClosedBelowThresholdAlways == Spec => []ClosedBelowThreshold
<1>1. Init => ClosedBelowThreshold
      BY ThresholdAssumption DEF Init, ClosedBelowThreshold, NoCircuit
<1> QED BY <1>1, TypeInit, TypeStep, BelowStep, PTL DEF Spec

-----------------------------------------------------------------------------
(***************************************************************************)
(* A saved kill, when one process keeps the state directory.  While a      *)
(* thread fills the file it holds the lock that any other access of the    *)
(* process needs, so its descriptor is the present file and its cache is   *)
(* set; outside of that, what was saved is in the file.                    *)
(***************************************************************************)
OneProcess == \A p, q \in Procs : p = q

WriterOwnsFile ==
    \A t \in Threads : at[t].pc = "write" => t \in writing /\ cached[Home[t]]
SavedIsWritten == saved => file = "open" \/ \E t \in Threads : at[t].pc = "write"
KeptInv == WriterOwnsFile /\ SavedIsWritten

LEMMA KeptMeansSurvives ==
    ASSUME OneProcess, KsTypeOK, KeptInv
    PROVE  KillSurvives
BY KillSwitchAssumption DEF OneProcess, KeptInv, WriterOwnsFile, SavedIsWritten, KillSurvives

\* A thread that neither enters nor leaves the writing of the file.
LEMMA KeptAside ==
    ASSUME KsTypeOK, KeptInv, NEW t \in Threads, NEW entry, at' = [at EXCEPT ![t] = entry],
           at[t].pc # "write", entry.pc # "write",
           \A p \in Procs : cached[p] => cached'[p],
           UNCHANGED <<disk, saved>>
    PROVE  KeptInv'
<1>1. \A u \in Threads : at'[u].pc = "write" <=> at[u].pc = "write"
      BY DEF KsTypeOK
<1>2. WriterOwnsFile'
      BY <1>1, KillSwitchAssumption DEF KeptInv, WriterOwnsFile, disk
<1>3. SavedIsWritten'
      BY <1>1 DEF KeptInv, SavedIsWritten, disk
<1> QED BY <1>2, <1>3 DEF KeptInv

LEMMA GotoEntry ==
    ASSUME KsTypeOK, NEW t \in Threads, NEW step, Goto(t, step)
    PROVE  \E entry : at' = [at EXCEPT ![t] = entry] /\ entry.pc = step
<1> DEFINE entry == IF step = "idle" THEN Idle ELSE [at[t] EXCEPT !.pc = step]
<1>1. at' = [at EXCEPT ![t] = entry]
      BY DEF Goto
<1>2. entry.pc = step
      BY DEF Idle, KsTypeOK
<1> QED BY <1>1, <1>2

\* Nobody of the only process writes, a fact the lock of the state manager gives.
LEMMA NobodyWrites ==
    ASSUME OneProcess, KsTypeOK, NEW t \in Threads, StateFree(t)
    PROVE  \A u \in Threads : at[u].pc # "write"
BY KillSwitchAssumption DEF OneProcess, StateFree

LEMMA KeptNobodyWrites ==
    ASSUME \A u \in Threads : at'[u].pc # "write", saved' => file' = "open"
    PROVE  KeptInv'
BY DEF KeptInv, WriterOwnsFile, SavedIsWritten

LEMMA KeptLoad ==
    ASSUME OneProcess, KsTypeOK, KeptInv, NEW t \in Threads, ResetLoad(t) \/ DevLoad(t)
    PROVE  KeptInv'
<1>1. PICK dead \in {"clear", "idle"}, alive \in {"reopen", "ask"} : Load(t, dead, alive)
      BY DEF ResetLoad, DevLoad
<1>2. \A u \in Threads : at[u].pc # "write"
      BY <1>1, NobodyWrites DEF Load
<1>3. saved => file = "open"
      BY <1>2 DEF KeptInv, SavedIsWritten
<1>4. PICK step \in {"clear", "idle", "reopen", "ask"} : Goto(t, step)
      BY <1>1 DEF Load
<1>5. \A u \in Threads : at'[u].pc # "write"
      BY <1>2, <1>4, GotoEntry DEF KsTypeOK
<1>6. saved' => file' = "open"
      BY <1>1, <1>3 DEF Load, ResetLoad, DevLoad, disk
<1> QED BY <1>5, <1>6, KeptNobodyWrites

LEMMA KeptSave ==
    ASSUME OneProcess, KsTypeOK, KeptInv, NEW t \in Threads, SaveOpen(t) \/ SaveWrite(t)
    PROVE  KeptInv'
<1>1. PICK step \in {"idle", "write", "note"} : Goto(t, step)
      BY DEF SaveOpen, SaveWrite, SaveFailed
<1>2. PICK entry : at' = [at EXCEPT ![t] = entry] /\ entry.pc = step
      BY <1>1, GotoEntry
<1>3. CASE SaveOpen(t)
  <2>1. \A u \in Threads : at[u].pc # "write"
        BY <1>3, NobodyWrites DEF SaveOpen
  <2>2. CASE SaveFailed(t)
    <3>1. \A u \in Threads : at'[u].pc # "write"
          BY <2>1, <2>2, GotoEntry DEF SaveFailed, KsTypeOK
    <3> QED BY <2>2, <3>1, KeptNobodyWrites DEF SaveFailed
  <2>3. CASE ~SaveFailed(t)
    <3>1. Goto(t, "write") /\ writing' = writing \cup {t} /\ cached' = [cached EXCEPT ![Home[t]] = TRUE]
          BY <1>3, <2>3 DEF SaveOpen
    <3>2. at'[t].pc = "write" /\ \A u \in Threads : at'[u].pc = "write" => u = t
          BY <2>1, <3>1, GotoEntry DEF KsTypeOK
    <3> QED BY <3>1, <3>2, KillSwitchAssumption
            DEF KeptInv, WriterOwnsFile, SavedIsWritten, KsTypeOK
  <2> QED BY <2>2, <2>3
<1>4. CASE SaveWrite(t)
  <2>1. t \in writing /\ cached[Home[t]] /\ at'[t].pc # "write"
        BY <1>4, GotoEntry DEF SaveWrite, SaveFailed, KeptInv, WriterOwnsFile, KsTypeOK
  <2>2. WriterOwnsFile'
    <3> SUFFICES ASSUME NEW u \in Threads, at'[u].pc = "write"
                 PROVE  u \in writing' /\ cached'[Home[u]]
        BY DEF WriterOwnsFile
    <3>1. u # t /\ at[u].pc = "write"
          BY <1>2, <2>1 DEF KsTypeOK
    <3> QED BY <1>4, <3>1 DEF SaveWrite, KeptInv, WriterOwnsFile
  <2>3. saved' => file' = "open"
        BY <1>4, <2>1 DEF SaveWrite, SaveFailed
  <2> QED BY <2>2, <2>3 DEF KeptInv, SavedIsWritten
<1> QED BY <1>3, <1>4

LEMMA KeptClear ==
    ASSUME OneProcess, KsTypeOK, KeptInv, NEW t \in Threads, ResetClear(t)
    PROVE  KeptInv'
<1>1. \A u \in Threads : at[u].pc # "write"
      BY NobodyWrites DEF ResetClear
<1>2. \A u \in Threads : at'[u].pc # "write"
      BY <1>1, GotoEntry DEF ResetClear, KsTypeOK
<1>3. saved => file = "open"
      BY <1>1 DEF KeptInv, SavedIsWritten
<1>4. saved' => file' = "open"
      BY <1>3 DEF ResetClear, disk
<1> QED BY <1>2, <1>4, KeptNobodyWrites

LEMMA KeptElsewhere ==
    ASSUME KsTypeOK, KeptInv, NEW t \in Threads,
           \/ TickOpen(t) \/ TickRecord(t) \/ TickCount(t) \/ TickForce(t) \/ InterruptLock(t)
           \/ InterruptNote(t) \/ ResetAsk(t) \/ ResetInit(t) \/ StopMonitoring(t)
           \/ DevAsk(t) \/ DevMonitor(t) \/ DevCircuit(t) \/ DevEnd(t)
    PROVE  KeptInv'
<1>1. UNCHANGED <<cached, disk, saved>> /\ at[t].pc # "write"
      BY DEF TickOpen, TickRecord, TickCount, TickForce, InterruptLock, InterruptNote, ResetAsk,
             ResetInit, StopMonitoring, DevAsk, DevMonitor, DevCircuit, DevEnd, Ask, memory
<1>2. \E step : step # "write" /\ Goto(t, step)
      BY DEF TickOpen, TickRecord, TickCount, TickForce, InterruptLock, InterruptNote, ResetAsk,
             ResetInit, StopMonitoring, DevAsk, DevMonitor, DevCircuit, DevEnd, Ask
<1> QED BY <1>1, <1>2, GotoEntry, KeptAside

LEMMA KeptStep == OneProcess /\ KsTypeOK /\ KeptInv /\ [Next]_vars => KeptInv'
<1> SUFFICES ASSUME OneProcess, KsTypeOK, KeptInv, [Next]_vars PROVE KeptInv'
    OBVIOUS
<1>1. ASSUME NEW t \in Threads, Call(t) PROVE KeptInv'
  <2>1. UNCHANGED <<memory, disk, saved>>
        BY <1>1 DEF Call, Tick, Trigger, Reset, Dev
  <2>2. PICK what \in Operations, bad \in BOOLEAN, step \in {"open", "lock", "reload", "load"} :
              Start(t, what, step, bad)
        BY <1>1 DEF Call, Tick, Trigger, Reset, Dev, Operations
  <2>3. /\ at[t].pc = "idle"
        /\ at' = [at EXCEPT ![t] = [pc |-> step, op |-> what, breach |-> bad]]
        BY <2>2 DEF Start
  <2>4. [pc |-> step, op |-> what, breach |-> bad].pc # "write" /\ UNCHANGED cached
        BY <2>1 DEF memory
  <2> QED BY <2>1, <2>3, <2>4, KeptAside
<1>2. CASE \E t \in Threads : Continue(t) \/ DevEnd(t)
      BY <1>2, KeptLoad, KeptSave, KeptClear, KeptElsewhere DEF Continue
<1>3. CASE \E p \in Procs : RecordMetrics(p) \/ CooldownEnds(p)
      BY <1>3 DEF RecordMetrics, CooldownEnds, KeptInv, WriterOwnsFile, SavedIsWritten, disk
<1>4. ASSUME NEW p \in Procs, Exit(p) PROVE KeptInv'
  <2>1. \A u \in Threads : at[u].pc # "write"
        BY <1>4, KillSwitchAssumption DEF Exit, OneProcess
  <2> QED BY <1>4, <2>1, KeptNobodyWrites DEF Exit, Forget, KeptInv, SavedIsWritten
<1>5. ASSUME NEW p \in Procs, Killed(p) PROVE KeptInv'
  <2>1. \A u \in Threads : Home[u] = p
        BY KillSwitchAssumption DEF OneProcess
  <2>2. \A u \in Threads : at'[u].pc # "write"
        BY <1>5, <2>1 DEF Killed, Idle
  <2>3. saved' => saved /\ \A u \in Threads : at[u].pc # "write"
        BY <1>5, <2>1 DEF Killed
  <2> QED BY <1>5, <2>2, <2>3, KeptNobodyWrites DEF Killed, Forget, KeptInv, SavedIsWritten
<1>6. CASE UNCHANGED vars
      BY <1>6 DEF vars, memory, disk, KeptInv, WriterOwnsFile, SavedIsWritten
<1> QED BY <1>1, <1>2, <1>3, <1>4, <1>5, <1>6 DEF Next

(***************************************************************************)
(* StateManager, "Persists Kill-Switch state across agent restarts": true  *)
(* for any number of threads of one process, its errors and its kills      *)
(* included.  With a second process it does not hold: a half-written file  *)
(* is taken for corrupt and moved away.                                    *)
(***************************************************************************)
THEOREM KillSurvivesInOneProcess == ASSUME OneProcess PROVE Spec => []KillSurvives
<1>1. Init => KeptInv
      BY DEF Init, KeptInv, WriterOwnsFile, SavedIsWritten, Idle
<1>2. KsTypeOK /\ KeptInv /\ [Next]_vars => KeptInv'
      BY KeptStep
<1>3. KsTypeOK /\ KeptInv => KillSurvives
      BY KeptMeansSurvives
<1> QED BY <1>1, <1>2, <1>3, TypeInit, TypeStep, PTL DEF Spec

LEMMA ThreadStep ==
    ASSUME NEW u \in Threads, Call(u) \/ Continue(u) \/ DevEnd(u)
    PROVE  \E entry : at' = [at EXCEPT ![u] = entry]
<1>1. CASE Call(u)
      BY <1>1 DEF Call, Tick, Trigger, Reset, Dev, Start
<1>2. CASE \E step : Goto(u, step)
      BY <1>2 DEF Goto
<1>3. Continue(u) \/ DevEnd(u) => \E step : Goto(u, step)
      BY DEF Continue, TickOpen, TickRecord, TickCount, TickForce, InterruptLock, SaveOpen, SaveWrite,
             SaveFailed, InterruptNote, ResetLoad, ResetAsk, ResetClear, ResetInit, StopMonitoring,
             DevLoad, DevAsk, DevMonitor, DevCircuit, DevEnd, Ask, Load
<1> QED BY <1>1, <1>2, <1>3

(***************************************************************************)
(* _check_kill_switch, the reader of that state: under the same assumption *)
(* no step lets an agent through while a saved kill is in force.           *)
(***************************************************************************)
THEOREM KilledNotLetThroughInOneProcess == ASSUME OneProcess PROVE Spec => KilledNotLetThrough
<1> DEFINE Through == \A t \in Threads : at[t].pc = "load" /\ at'[t].pc = "ask" => ~saved
<1>1. Init => KeptInv
      BY DEF Init, KeptInv, WriterOwnsFile, SavedIsWritten, Idle
<1>2. KsTypeOK /\ KeptInv /\ [Next]_vars => KeptInv'
      BY KeptStep
<1>3. KsTypeOK /\ KeptInv /\ [Next]_vars => [Through]_vars
  <2> SUFFICES ASSUME KsTypeOK, KeptInv, Next,
                      NEW t \in Threads, at[t].pc = "load", at'[t].pc = "ask"
               PROVE  ~saved
      OBVIOUS
  <2>1. \E u \in Threads : Call(u) \/ Continue(u) \/ DevEnd(u)
        BY DEF Next, RecordMetrics, CooldownEnds, Exit, Killed, Idle
  <2>2. Call(t) \/ Continue(t) \/ DevEnd(t)
        BY <2>1, ThreadStep DEF KsTypeOK
  <2>3. DevLoad(t)
        BY <2>2 DEF Call, Tick, Trigger, Reset, Dev, Start, Continue, TickOpen, TickRecord, TickCount,
                    TickForce, InterruptLock, SaveOpen, SaveWrite, InterruptNote, ResetLoad,
                    ResetAsk, ResetClear, ResetInit, StopMonitoring, DevAsk, DevMonitor, DevCircuit,
                    DevEnd
  <2>4. StateFree(t) /\ (file = "absent" \/ Goto(t, "idle"))
        BY <2>3 DEF DevLoad, Load
  <2>5. ~Goto(t, "idle")
        BY DEF Goto, Idle, KsTypeOK
  <2> QED BY <2>4, <2>5, NobodyWrites DEF KeptInv, SavedIsWritten
<1>4. [][Through]_vars => KilledNotLetThrough
      BY PTL DEF KilledNotLetThrough
<1> QED BY <1>1, <1>2, <1>3, <1>4, TypeInit, TypeStep, PTL DEF Spec
-----------------------------------------------------------------------------
(***************************************************************************)
(* Interrupts for the threshold, when one thread of each process ticks.    *)
(* Between the ticks nobody opens a circuit or counts a failure, so a tick *)
(* that reaches its interrupt has opened the circuit itself and that trip  *)
(* is still to be answered (Due); a threshold it reads in "count" is one   *)
(* it has just reached.                                                    *)
(***************************************************************************)
OneTicker ==
    \A t, u \in Threads :
        Home[t] = Home[u] /\ "tick" \in May[t] /\ "tick" \in May[u] => t = u

TickOnly == {"open", "record", "count", "force"}
Due == {"force", "lock", "save", "write", "note"}

TickInv(t) ==
    LET p == Home[t] IN
    /\ at[t].pc \in TickOnly => at[t].op = "tick"
    /\ at[t].op = "tick" => "tick" \in May[t]
    /\ at[t].pc = "record" => circuit[p].state # "OPEN"
    /\ at[t].pc = "count" /\ circuit[p].count >= Threshold => struck[p] < trips[p]
    /\ at[t].pc \in Due /\ at[t].op = "tick" => struck[p] < trips[p]

TripInv == OneInterruptPerTrip /\ \A t \in Threads : TickInv(t)

\* A step takes nothing from a tick of p, and does nothing at all to p.
Calm(p) ==
    /\ circuit'[p].state = "OPEN" => circuit[p].state = "OPEN"
    /\ circuit'[p].count <= circuit[p].count
    /\ trips'[p] = trips[p] /\ struck'[p] = struck[p]
Untouched(p) == circuit'[p] = circuit[p] /\ trips'[p] = trips[p] /\ struck'[p] = struck[p]

\* What the step of a thread comes to.
Taken(t) ==
    /\ TickInv(t)'
    /\ struck'[Home[t]] <= trips'[Home[t]]
    /\ at[t].op = "tick" \/ Calm(Home[t])
    /\ \A q \in Procs \ {Home[t]} : Untouched(q)

LEMMA TripTypes ==
    ASSUME KsTypeOK, NEW p \in Procs
    PROVE  /\ circuit[p] \in Circuit /\ circuit[p].count \in Nat
           /\ trips[p] \in Nat /\ struck[p] \in Nat
BY DEF KsTypeOK, Circuit

LEMMA UntouchedIsCalm == ASSUME KsTypeOK, NEW p \in Procs, Untouched(p) PROVE Calm(p)
BY TripTypes DEF Untouched, Calm

LEMMA CalmKeeps ==
    ASSUME KsTypeOK, KsTypeOK', NEW t \in Threads, TickInv(t), at'[t] = at[t], Calm(Home[t])
    PROVE  TickInv(t)'
<1> DEFINE p == Home[t]
<1>1. /\ p \in Procs /\ circuit[p].count \in Nat /\ circuit'[p].count \in Nat
      BY KillSwitchAssumption, TripTypes DEF KsTypeOK, Circuit
<1>2. circuit'[p].count >= Threshold => circuit[p].count >= Threshold
      BY <1>1, ThresholdAssumption DEF Calm
<1> QED BY <1>2 DEF TickInv, Calm

\* Where a step of a thread leads.
LEMMA GotoGives ==
    ASSUME KsTypeOK, NEW t \in Threads, NEW step, Goto(t, step)
    PROVE  IF step = "idle" THEN at'[t] = Idle
           ELSE at'[t].pc = step /\ at'[t].op = at[t].op
BY DEF Goto, KsTypeOK

\* A thread that goes where no tick is, or into its interrupt.
LEMMA AsideTaken ==
    ASSUME KsTypeOK, TripInv, NEW t \in Threads, NEW step, Goto(t, step),
           step \notin TickOnly, step \in Due => at[t].pc \in Due,
           Calm(Home[t]), \A q \in Procs \ {Home[t]} : Untouched(q)
    PROVE  Taken(t)
<1>1. TickInv(t) /\ struck[Home[t]] <= trips[Home[t]]
      BY KillSwitchAssumption DEF TripInv, OneInterruptPerTrip
<1>2. TickInv(t)'
      BY <1>1, GotoGives DEF TickInv, TickOnly, Due, Calm, Idle
<1> QED BY <1>1, <1>2 DEF Taken, Calm

LEMMA BreakerCalm ==
    ASSUME KsTypeOK, NEW p \in Procs, NEW c, SetCircuit(p, c), UNCHANGED struck,
           c.state = "OPEN" => circuit[p].state = "OPEN", c.count <= circuit[p].count
    PROVE  Calm(p) /\ \A q \in Procs \ {p} : Untouched(q)
BY DEF KsTypeOK, SetCircuit, Calm, Untouched

LEMMA CallTaken ==
    ASSUME KsTypeOK, TripInv, NEW t \in Threads, Call(t)
    PROVE  Taken(t)
<1>1. /\ at'[t].pc \in {"open", "lock", "reload", "load"} /\ at'[t].op \in May[t]
      /\ at'[t].pc = "open" <=> at'[t].op = "tick"
      BY DEF Call, Tick, Trigger, Reset, Dev, Start, KsTypeOK
<1>2. UNCHANGED <<circuit, trips, struck>>
      BY DEF Call, Tick, Trigger, Reset, Dev, memory
<1>3. \A q \in Procs : Untouched(q)
      BY <1>2 DEF Untouched
<1>4. Calm(Home[t])
      BY <1>3, UntouchedIsCalm, KillSwitchAssumption
<1>5. TickInv(t)'
      BY <1>1 DEF TickInv, TickOnly, Due
<1> QED BY <1>2, <1>3, <1>4, <1>5, KillSwitchAssumption DEF Taken, TripInv, OneInterruptPerTrip

LEMMA OtherTaken ==
    ASSUME KsTypeOK, TripInv, NEW t \in Threads,
           \/ ResetLoad(t) \/ ResetAsk(t) \/ ResetClear(t) \/ ResetInit(t)
           \/ DevLoad(t) \/ DevAsk(t) \/ DevMonitor(t) \/ DevCircuit(t) \/ StopMonitoring(t)
           \/ DevEnd(t) \/ InterruptLock(t) \/ SaveOpen(t) \/ SaveWrite(t)
           \/ InterruptNote(t) /\ at[t].op # "tick"
    PROVE  Taken(t)
<1> DEFINE p == Home[t]
<1>1. p \in Procs /\ circuit[p] \in Circuit
      BY KillSwitchAssumption, TripTypes
<1>2. PICK step : /\ Goto(t, step) /\ step \notin TickOnly
                  /\ step \in Due => at[t].pc \in Due
      BY DEF ResetLoad, ResetAsk, ResetClear, ResetInit, DevLoad, DevAsk, DevMonitor, DevCircuit,
             StopMonitoring, DevEnd, InterruptLock, SaveOpen, SaveWrite, SaveFailed, InterruptNote,
             Load, Ask, TickOnly, Due
<1>3. CASE UNCHANGED <<circuit, trips, struck>>
      BY <1>1, <1>2, <1>3, AsideTaken, UntouchedIsCalm DEF Untouched
<1>4. ASSUME NEW c \in {AfterIsOpen(circuit[p]), InitializeCircuit}, SetCircuit(p, c),
             UNCHANGED struck
      PROVE  Taken(t)
  <2>1. (c.state = "OPEN" => circuit[p].state = "OPEN") /\ c.count <= circuit[p].count
        BY <1>1 DEF AfterIsOpen, InitializeCircuit, NoCircuit, Circuit
  <2> QED BY <1>1, <1>2, <1>4, <2>1, BreakerCalm, AsideTaken
<1>5. CASE ResetAsk(t) \/ ResetInit(t) \/ DevAsk(t) \/ DevCircuit(t)
      BY <1>4, <1>5 DEF ResetAsk, ResetInit, DevAsk, DevCircuit, Ask
<1>6. CASE \/ ResetLoad(t) \/ ResetClear(t) \/ DevLoad(t) \/ DevMonitor(t) \/ StopMonitoring(t)
           \/ DevEnd(t) \/ InterruptLock(t) \/ SaveOpen(t) \/ SaveWrite(t)
           \/ InterruptNote(t) /\ at[t].op # "tick"
      BY <1>3, <1>6 DEF ResetLoad, ResetClear, DevLoad, DevMonitor, StopMonitoring, DevEnd,
         InterruptLock, SaveOpen, SaveWrite, InterruptNote, memory
<1> QED BY <1>5, <1>6

LEMMA TickTaken ==
    ASSUME KsTypeOK, TripInv, NEW t \in Threads,
           \/ TickOpen(t) \/ TickRecord(t) \/ TickCount(t) \/ TickForce(t)
           \/ InterruptNote(t) /\ at[t].op = "tick"
    PROVE  Taken(t)
<1> DEFINE p == Home[t]
           c == circuit[p]
<1>1. /\ p \in Procs /\ c \in Circuit /\ c.count \in Nat /\ trips[p] \in Nat /\ struck[p] \in Nat
      /\ trips \in [Procs -> Nat] /\ struck \in [Procs -> Nat] /\ circuit \in [Procs -> Circuit]
      BY KillSwitchAssumption, TripTypes DEF KsTypeOK
<1>2. TickInv(t) /\ struck[p] <= trips[p]
      BY <1>1 DEF TripInv, OneInterruptPerTrip
<1>3. at[t].op = "tick" /\ "tick" \in May[t]
      BY <1>2 DEF TickInv, TickOnly, TickOpen, TickRecord, TickCount, TickForce
<1>4. ASSUME UNCHANGED struck, NEW d, SetCircuit(p, d)
      PROVE  /\ circuit'[p] = d /\ struck'[p] = struck[p]
             /\ trips'[p] = IF d.state = "OPEN" /\ c.state # "OPEN" THEN trips[p] + 1 ELSE trips[p]
             /\ \A q \in Procs \ {p} : Untouched(q)
      BY <1>1, <1>4 DEF SetCircuit, Untouched
<1> HIDE DEF c
<1>5. CASE TickOpen(t)
  <2>1. PICK d : d = AfterIsOpen(c) /\ SetCircuit(p, d) /\ UNCHANGED struck
        BY <1>5 DEF TickOpen, c
  <2>2. d.state = "OPEN" => c.state = "OPEN" /\ IsOpen(c)
        BY <1>1, <2>1 DEF AfterIsOpen, IsOpen, Circuit
  <2>3. at'[t] = Idle \/ (at'[t].pc = "record" /\ at'[t].op = "tick" /\ ~IsOpen(c))
        BY <1>3, <1>5, GotoGives DEF TickOpen, c
  <2>4. TickInv(t)'
        BY <1>3, <1>4, <2>1, <2>2, <2>3 DEF TickInv, TickOnly, Due, Idle
  <2> QED BY <1>2, <1>3, <1>4, <2>1, <2>2, <2>4 DEF Taken
<1>6. CASE TickRecord(t)
  <2>1. c.state # "OPEN"
        BY <1>2, <1>6 DEF TickRecord, TickInv, c
  <2>2. CASE ~at[t].breach
    <3>1. at'[t] = Idle /\ SetCircuit(p, RecordSuccess(c)) /\ UNCHANGED struck
          BY <1>6, <2>2, GotoGives DEF TickRecord, c
    <3>2. TickInv(t)'
          BY <3>1 DEF TickInv, TickOnly, Due, Idle
    <3> QED BY <1>1, <1>2, <1>3, <1>4, <3>1, <3>2 DEF Taken
  <2>3. CASE at[t].breach
    <3>1. PICK d : d = RecordFailure(c) /\ SetCircuit(p, d) /\ UNCHANGED struck
          BY <1>6, <2>3 DEF TickRecord, c
    <3>2. at'[t].pc = "count" /\ at'[t].op = "tick"
          BY <1>3, <1>6, <2>3, GotoGives DEF TickRecord
    <3>3. d.count >= Threshold => d.state = "OPEN"
      <4>1. CASE ~c.known
        <5>1. c = NoCircuit
              BY <4>1, <1>1 DEF KsTypeOK, c
        <5> QED BY <3>1, <4>1, <5>1, ThresholdAssumption DEF RecordFailure, NoCircuit
      <4>2. CASE c.known
            BY <1>1, <3>1, <4>2, ThresholdAssumption DEF RecordFailure, Circuit
      <4> QED BY <4>1, <4>2
    <3>4. /\ circuit'[p] = d /\ struck'[p] = struck[p]
          /\ trips'[p] = IF d.state = "OPEN" /\ c.state # "OPEN" THEN trips[p] + 1 ELSE trips[p]
          /\ \A q \in Procs \ {p} : Untouched(q)
          BY <1>4, <3>1
    <3>5. struck'[p] <= trips'[p] /\ (d.state = "OPEN" => struck'[p] < trips'[p])
          BY <1>1, <1>2, <2>1, <3>4
    <3>6. TickInv(t)'
          BY <1>3, <3>2, <3>3, <3>4, <3>5 DEF TickInv, TickOnly, Due
    <3> QED BY <1>3, <3>4, <3>5, <3>6 DEF Taken
  <2> QED BY <2>2, <2>3
<1>7. CASE TickCount(t)
  <2>1. UNCHANGED <<circuit, trips, struck>> /\ at[t].pc = "count"
        BY <1>7 DEF TickCount, memory
  <2>2. \/ at'[t] = Idle
        \/ at'[t].pc = "force" /\ at'[t].op = "tick" /\ c.count >= Threshold
        BY <1>3, <1>7, GotoGives DEF TickCount, c
  <2>3. TickInv(t)'
        BY <1>2, <1>3, <2>1, <2>2 DEF TickInv, TickOnly, Due, Idle, c
  <2> QED BY <1>2, <1>3, <2>1, <2>3 DEF Taken, Untouched
<1>8. CASE TickForce(t)
  <2>1. SetCircuit(p, OpenCircuit(c)) /\ UNCHANGED struck
        BY <1>8 DEF TickForce, c
  <2>2. at'[t].pc = "lock" /\ at'[t].op = "tick"
        BY <1>3, <1>8, GotoGives DEF TickForce
  <2>3. struck[p] < trips[p]
        BY <1>2, <1>3, <1>8 DEF TickForce, TickInv, Due
  <2>4. /\ struck'[p] = struck[p] /\ \A q \in Procs \ {p} : Untouched(q)
        /\ trips'[p] \in {trips[p], trips[p] + 1}
        BY <1>4, <2>1
  <2>5. struck'[p] < trips'[p] /\ struck'[p] <= trips'[p]
        BY <1>1, <2>3, <2>4
  <2>6. TickInv(t)'
        BY <1>3, <2>2, <2>5 DEF TickInv, TickOnly
  <2> QED BY <1>3, <2>4, <2>5, <2>6 DEF Taken
<1>9. CASE InterruptNote(t) /\ at[t].op = "tick"
  <2>1. /\ at'[t] = Idle /\ struck' = [struck EXCEPT ![p] = @ + 1] /\ UNCHANGED <<circuit, trips>>
        BY <1>9, GotoGives DEF InterruptNote
  <2>2. struck[p] < trips[p]
        BY <1>2, <1>9 DEF InterruptNote, TickInv, Due
  <2>3. struck'[p] <= trips'[p] /\ \A q \in Procs \ {p} : Untouched(q)
        BY <1>1, <2>1, <2>2 DEF Untouched
  <2>4. TickInv(t)'
        BY <2>1 DEF TickInv, TickOnly, Due, Idle
  <2> QED BY <1>3, <2>3, <2>4 DEF Taken
<1> QED BY <1>5, <1>6, <1>7, <1>8, <1>9

LEMMA ForgetTrips ==
    ASSUME KsTypeOK, KsTypeOK', TripInv, NEW p \in Procs, Exit(p) \/ Killed(p)
    PROVE  TripInv'
<1>1. /\ \A t \in Threads : IF Home[t] = p THEN at'[t].pc = "idle" ELSE at'[t] = at[t]
      /\ \A t \in Threads : at'[t].op = "tick" => "tick" \in May[t]
      BY DEF Exit, Killed, Idle, TripInv, TickInv
<1>2. Forget(p)
      BY DEF Exit, Killed
<1>3. trips'[p] = 0 /\ struck'[p] = 0 /\ \A q \in Procs \ {p} : Untouched(q)
      BY <1>2 DEF Forget, KsTypeOK, Untouched
<1>4. OneInterruptPerTrip'
      BY <1>3 DEF TripInv, OneInterruptPerTrip, Untouched
<1>5. ASSUME NEW t \in Threads PROVE TickInv(t)'
  <2>1. CASE Home[t] = p
        BY <1>1, <2>1 DEF TickInv, TickOnly, Due
  <2>2. CASE Home[t] # p
        BY <1>1, <1>3, <2>2, UntouchedIsCalm, CalmKeeps, KillSwitchAssumption DEF TripInv
  <2> QED BY <2>1, <2>2
<1> QED BY <1>4, <1>5 DEF TripInv

LEMMA TripStep ==
    ASSUME OneTicker, KsTypeOK, KsTypeOK', TripInv, [Next]_vars
    PROVE  TripInv'
<1>1. ASSUME UNCHANGED at, \A p \in Procs : Calm(p) PROVE TripInv'
  <2>1. \A t \in Threads : TickInv(t)'
        BY <1>1, CalmKeeps, KillSwitchAssumption DEF TripInv
  <2> QED BY <1>1, <2>1 DEF TripInv, OneInterruptPerTrip, Calm
<1>2. ASSUME NEW t \in Threads, Call(t) \/ Continue(t) \/ DevEnd(t) PROVE TripInv'
  <2>1. Taken(t)
    <3>1. CASE \/ TickOpen(t) \/ TickRecord(t) \/ TickCount(t) \/ TickForce(t)
               \/ InterruptNote(t) /\ at[t].op = "tick"
          BY <3>1, TickTaken
    <3>2. CASE \/ ResetLoad(t) \/ ResetAsk(t) \/ ResetClear(t) \/ ResetInit(t)
               \/ DevLoad(t) \/ DevAsk(t) \/ DevMonitor(t) \/ DevCircuit(t) \/ StopMonitoring(t)
               \/ DevEnd(t) \/ InterruptLock(t) \/ SaveOpen(t) \/ SaveWrite(t)
               \/ InterruptNote(t) /\ at[t].op # "tick"
          BY <3>2, OtherTaken
    <3> QED BY <1>2, <3>1, <3>2, CallTaken DEF Continue
  <2>2. \A p \in Procs : struck'[p] <= trips'[p]
        BY <2>1 DEF Taken, Untouched, TripInv, OneInterruptPerTrip
  <2>3. ASSUME NEW u \in Threads, u # t PROVE TickInv(u)'
    <3>1. at'[u] = at[u]
          BY <1>2, <2>3, ThreadStep DEF KsTypeOK
    <3>2. TickInv(u) /\ TickInv(t)
          BY DEF TripInv
    <3>3. CASE Home[u] # Home[t]
          BY <2>1, <3>1, <3>2, <3>3, UntouchedIsCalm, CalmKeeps, KillSwitchAssumption DEF Taken
    <3>4. CASE Home[u] = Home[t] /\ Calm(Home[t])
          BY <3>1, <3>2, <3>4, CalmKeeps
    <3>5. CASE Home[u] = Home[t] /\ at[t].op = "tick"
      <4>1. at[u].op # "tick"
            BY <2>3, <3>2, <3>5 DEF OneTicker, TickInv
      <4> QED BY <3>1, <3>2, <4>1 DEF TickInv, TickOnly
    <3> QED BY <2>1, <3>3, <3>4, <3>5 DEF Taken
  <2> QED BY <2>1, <2>2, <2>3 DEF TripInv, OneInterruptPerTrip, Taken
<1>3. ASSUME NEW p \in Procs, RecordMetrics(p) PROVE TripInv'
      BY <1>1, <1>3, UntouchedIsCalm DEF RecordMetrics, Untouched
<1>4. ASSUME NEW p \in Procs, CooldownEnds(p) PROVE TripInv'
  <2>1. \A q \in Procs : Calm(q)
        BY <1>4, TripTypes DEF CooldownEnds, Calm, KsTypeOK, Circuit
  <2> QED BY <1>1, <1>4, <2>1 DEF CooldownEnds
<1>5. CASE UNCHANGED vars
      BY <1>1, <1>5, UntouchedIsCalm DEF vars, memory, Untouched
<1> QED BY <1>2, <1>3, <1>4, <1>5, ForgetTrips DEF Next

(***************************************************************************)
(* evaluate_and_trigger, "Open + interrupt exactly once": whatever resets, *)
(* starts, manual triggers, cooldowns, I/O errors and kills fall between   *)
(* the steps of a tick, the interrupts noted for the threshold are no more *)
(* than the times a circuit opened, if one thread of each process ticks.   *)
(***************************************************************************)
THEOREM OneInterruptPerTripOfOneTicker == ASSUME OneTicker PROVE Spec => []OneInterruptPerTrip
<1>1. Init => TripInv
      BY DEF Init, TripInv, OneInterruptPerTrip, TickInv, TickOnly, Due, Idle
<1>2. KsTypeOK /\ KsTypeOK' /\ TripInv /\ [Next]_vars => TripInv'
      BY TripStep
<1>3. TripInv => OneInterruptPerTrip
      BY DEF TripInv
<1> QED BY <1>1, <1>2, <1>3, TypeInit, TypeStep, PTL DEF Spec
=============================================================================
