-------------------------- MODULE PhaseOrderProofs --------------------------
(***************************************************************************)
(* The order of the phases, and what the commits, the records, HANDOVER.md *)
(* and the manifest say of it, for commands that do not get in each        *)
(* other's way.                                                            *)
(*                                                                         *)
(* PhaseMovesByOne and EntryGateHonoured are about one step, the one that  *)
(* publishes the FSM, but what makes that step right was decided steps     *)
(* before: CV-2 compared the phase, the entry gate looked at the manifest, *)
(* the capture kept the bytes for the rollback.  OnCourse and GateSeen     *)
(* carry these decisions from the step that takes them to the step that    *)
(* uses them.  CV-2, the entry gate and the capture hold no lock, so a     *)
(* second advance-phase (for the gate: a second command) makes them stale  *)
(* on the way: hence OneAdvancer and OneProcess, each where it is needed.  *)
(***************************************************************************)
EXTENDS HealProofs

\* Only one process runs advance-phase, others may push and finalize gates.
OneAdvancer == \A p, q \in Procs : "advance" \in May[p] \cap May[q] => p = q

\* The commands run one after the other.
OneProcess == \A p, q \in Procs : p = q

Decided == {"capture", "fsm_stage", "fsm_publish"}
Advanced == {"fsm_progress", "manifest", "header", "add", "commit", "restore"}

OnCourse(p) ==
    /\ pc[p] \in AdvanceLabels => "advance" \in May[p]
    /\ pc[p] = "check" => loc[p].seen.phase = st.phase
    /\ pc[p] \in {"entry", "heal"} =>
          st.phase >= loc[p].n /\ (loc[p].again <=> st.phase > loc[p].n)
    /\ pc[p] = "heal" => loc[p].n <= 2
    /\ pc[p] \in Decided => st.phase = loc[p].n
    /\ pc[p] \in {"fsm_stage", "fsm_publish"} => loc[p].snap.phase = loc[p].n
    /\ pc[p] \in Advanced => st.phase = loc[p].n + 1 /\ loc[p].snap.phase = loc[p].n

OrderInv == \A p \in Procs : OnCourse(p)

GateSeen(p) ==
    pc[p] \in Decided /\ loc[p].n >= 3 => ENTRY_GATE_MAP[loc[p].n + 1] \in gates

GateInv == \A p \in Procs : GateSeen(p)

-----------------------------------------------------------------------------
LEMMA PhaseIsNat ==
    ASSUME TypeOK
    PROVE  st.phase \in Nat
<1>1. st \in StateFile
  BY DEF TypeOK
<1>2. st.phase \in Phases
  BY <1>1 DEF StateFile
<1> QED BY <1>2 DEF Phases

(***************************************************************************)
(* A step that leaves p outside the labels OnCourse speaks of.             *)
(***************************************************************************)
Speaking == {"check", "entry", "heal"} \cup Decided \cup Advanced

LEMMA OffCourse ==
    ASSUME NEW p \in Procs, pc'[p] \notin Speaking,
           pc'[p] \in AdvanceLabels => "advance" \in May[p]
    PROVE  OnCourse(p)'
BY DEF OnCourse, Speaking, Decided, Advanced

\* A step that moves p on and leaves the files and p's memory alone.
LEMMA SameCourse ==
    ASSUME NEW p \in Procs, OnCourse(p), pc[p] \in Advanced, pc'[p] \in Advanced,
           st' = st, loc' = loc
    PROVE  OnCourse(p)'
BY DEF OnCourse, Decided, Advanced, AdvanceLabels

(***************************************************************************)
(* advance-phase: one step per action.                                     *)
(***************************************************************************)
LEMMA AdvanceCourse ==
    ASSUME IInv, NEW p \in Procs, OnCourse(p), Advance(p)
    PROVE  OnCourse(p)'
<1> USE DEF Speaking, Decided, Advanced
<1>t. TypeOK /\ loc[p] \in LocRec /\ st \in StateFile /\ loc[p].seen \in StateFile
  BY LocType DEF IInv, TypeOK
<1>n. pc[p] \in AdvanceLabels => loc[p].n \in 1..8
  BY DEF IInv, ControlOK
<1>m. "advance" \in May[p]
  BY <1>t, AdvanceAlone DEF OnCourse
<1> USE <1>m
<1>1. ASSUME NEW n \in 1..8, AdvanceStart(p, n) PROVE OnCourse(p)'
  <2>1. pc'[p] = "read"
    BY <1>1, <1>t, GotoPlain DEF AdvanceStart
  <2> QED BY <2>1, OffCourse
<1>2. CASE AdvanceRead(p)
  <2>1. pc'[p] = "check" /\ loc'[p].seen = st /\ st' = st
    BY <1>2, <1>t, GotoPlain DEF AdvanceRead, TypeOK, LocRec
  <2> QED BY <2>1 DEF OnCourse
<1>3. CASE AdvanceCheck(p)
  <2>1. CASE pc'[p] = "idle"
    BY <2>1, OffCourse
  <2>2. CASE pc'[p] # "idle"
    <3>1. /\ pc'[p] = "entry" /\ st' = st /\ loc[p].seen.phase >= loc[p].n
          /\ loc'[p].n = loc[p].n
          /\ loc'[p].again = (loc[p].seen.phase > loc[p].n)
      BY <1>3, <1>t, <2>2, ExitPlain, GotoPlain DEF AdvanceCheck, TypeOK, LocRec
    <3>2. loc[p].seen.phase = st.phase
      BY <1>3 DEF AdvanceCheck, OnCourse
    <3> QED BY <3>1, <3>2 DEF OnCourse
  <2> QED BY <2>1, <2>2
<1>4. CASE AdvancePrecheckFails(p)
  <2>1. pc'[p] = "idle"
    BY <1>4, <1>t, ExitPlain DEF AdvancePrecheckFails
  <2> QED BY <2>1, OffCourse
<1>5. CASE AdvanceEntryGate(p)
  <2>1. CASE pc'[p] = "idle"
    BY <2>1, OffCourse
  <2>2. CASE pc'[p] = "heal"
    <3>1. /\ st' = st /\ loc[p].n <= 2
          /\ loc'[p].n = loc[p].n /\ loc'[p].again = loc[p].again
      BY <1>5, <1>t, <2>2, ExitPlain, GotoPlain
      DEF AdvanceEntryGate, EntryPassed, Dangling, TypeOK, LocRec
    <3>2. pc[p] = "entry"
      BY <1>5 DEF AdvanceEntryGate
    <3> QED BY <2>2, <3>1, <3>2 DEF OnCourse
  <2>3. CASE pc'[p] \notin {"idle", "heal"}
    <3>1. pc[p] = "entry" /\ st' = st
      BY <1>5 DEF AdvanceEntryGate
    <3>2. EntryPassed(p)
      BY <1>5, <1>t, <2>3, ExitPlain, GotoPlain DEF AdvanceEntryGate
    <3>3. pc'[p] = "capture" /\ loc' = loc /\ ~loc[p].again
      BY <1>t, <2>3, <3>2, ExitPlain, GotoPlain DEF EntryPassed
    <3>4. st.phase = loc[p].n
      BY <1>t, <1>n, <3>1, <3>3 DEF OnCourse, StateFile, Phases, AdvanceLabels
    <3> QED BY <3>1, <3>3, <3>4 DEF OnCourse
  <2> QED BY <2>1, <2>2, <2>3
<1>6. CASE AdvanceHeal(p)
  <2>1. CASE pc'[p] = "idle"
    BY <2>1, OffCourse
  <2>2. CASE pc'[p] # "idle"
    <3>1. pc[p] = "heal" /\ st'.phase = st.phase
      BY <1>6, <1>t DEF AdvanceHeal, StateFile
    <3>2. pc'[p] = "capture" /\ loc' = loc /\ ~loc[p].again
      BY <1>6, <1>t, <2>2, ExitPlain, GotoPlain DEF AdvanceHeal, EntryPassed
    <3>3. st.phase = loc[p].n /\ loc[p].n <= 2
      BY <1>t, <1>n, <3>1, <3>2 DEF OnCourse, StateFile, Phases, AdvanceLabels
    <3> QED BY <3>1, <3>2, <3>3 DEF OnCourse
  <2> QED BY <2>1, <2>2
<1>7. CASE AdvanceCapture(p)
  <2>1. /\ pc[p] = "capture" /\ pc'[p] = "fsm_stage" /\ st' = st
        /\ loc'[p].n = loc[p].n /\ loc'[p].snap = st
    BY <1>7, <1>t, GotoPlain DEF AdvanceCapture, TypeOK, LocRec
  <2> QED BY <2>1 DEF OnCourse
<1>8. CASE AdvanceFsmStage(p)
  <2>1. /\ pc[p] = "fsm_stage" /\ pc'[p] = "fsm_publish" /\ st' = st
        /\ loc'[p].n = loc[p].n /\ loc'[p].snap = loc[p].snap
    BY <1>8, <1>t, GotoPlain DEF AdvanceFsmStage, TypeOK, LocRec
  <2> QED BY <2>1 DEF OnCourse
<1>9. CASE AdvanceFsmPublish(p)
  <2>1. pc[p] = "fsm_publish" /\ pc'[p] = "fsm_progress" /\ st' = loc[p].seen /\ loc' = loc
    BY <1>9, <1>t, GotoPlain DEF AdvanceFsmPublish
  <2>2. loc[p].seen = Merged(st, loc[p].n, loc[p].top)
    BY <2>1 DEF IInv, PublishIsFresh
  <2>3. Merged(st, loc[p].n, loc[p].top).phase = loc[p].n + 1
    BY <1>t DEF Merged, StateFile
  <2> QED BY <2>1, <2>2, <2>3 DEF OnCourse
<1>10. CASE AdvanceFsmProgress(p)
  <2>1. pc[p] \in Advanced /\ pc'[p] \in Advanced /\ st' = st /\ loc' = loc
    BY <1>10, <1>t, GotoPlain DEF AdvanceFsmProgress
  <2> QED BY <2>1, SameCourse
<1>11. CASE AdvanceManifest(p)
  <2>1. CASE pc'[p] = "idle"
    BY <2>1, OffCourse
  <2>2. CASE pc'[p] # "idle"
    <3>1. pc[p] \in Advanced /\ pc'[p] \in Advanced /\ st' = st /\ loc' = loc
      BY <1>11, <1>t, <2>2, ExitPlain, GotoPlain DEF AdvanceManifest
    <3> QED BY <3>1, SameCourse
  <2> QED BY <2>1, <2>2
<1>12. CASE AdvanceHeader(p)
  <2>1. pc[p] \in Advanced /\ pc'[p] \in Advanced /\ st' = st /\ loc' = loc
    BY <1>12, <1>t, GotoPlain DEF AdvanceHeader
  <2> QED BY <2>1, SameCourse
<1>13. CASE AdvanceAdd(p)
  <2>1. pc[p] \in Advanced /\ pc'[p] \in Advanced /\ st' = st /\ loc' = loc
    BY <1>13, <1>t, GotoPlain DEF AdvanceAdd
  <2> QED BY <2>1, SameCourse
<1>14. CASE AdvanceCommit(p)
  <2>1. pc'[p] \in {"parse", "restore"} /\ pc[p] \in Advanced /\ st' = st /\ loc' = loc
    BY <1>14, <1>t, GotoPlain DEF AdvanceCommit
  <2> QED BY <2>1, OffCourse, SameCourse
<1>15. CASE AdvanceRestore(p) \/ AdvanceRestoreRest(p) \/ AdvanceParse(p) \/ AdvanceRecord(p)
            \/ AdvanceRecordAdd(p) \/ AdvanceRecordCommit(p) \/ AdvancePublish(p) \/ AdvanceReadBack(p)
  <2>1. pc'[p] \notin Speaking
    BY <1>15, <1>t, ExitPlain, GotoPlain
    DEF AdvanceRestore, AdvanceRestoreRest, AdvanceParse, AdvanceRecord, AdvanceRecordAdd,
        AdvanceRecordCommit, AdvancePublish, AdvanceReadBack
  <2> QED BY <2>1, OffCourse
<1> QED
  BY <1>1, <1>2, <1>3, <1>4, <1>5, <1>6, <1>7, <1>8, <1>9, <1>10, <1>11, <1>12, <1>13, <1>14, <1>15
  DEF Advance

-----------------------------------------------------------------------------
(***************************************************************************)
(* The steps that change the phase in state.json.                          *)
(***************************************************************************)
LEMMA AuditPhase ==
    ASSUME TypeOK, NEW l \in LocRec
    PROVE  Audited(l).phase = st.phase \/ l.cmd \notin {"checkpoint", "milestone", "finalize"}
BY DEF Audited, TypeOK, StateFile

LEMMA PushKeepsPhase ==
    ASSUME TypeOK, ControlOK, NEW p \in Procs, Push(p)
    PROVE  st'.phase = st.phase
<1> USE DEF TypeOK, StateFile
<1>1. ASSUME NEW k \in {1, 2}, CheckpointStart(p, k) PROVE st'.phase = st.phase
  BY <1>1 DEF CheckpointStart
<1>2. ASSUME NEW m \in Milestones, MilestoneStart(p, m) PROVE st'.phase = st.phase
  BY <1>2 DEF MilestoneStart
<1>3. ASSUME NEW g \in Gates, GateStart(p, g) PROVE st'.phase = st.phase
  BY <1>3 DEF GateStart
<1>4. CASE MilestoneEvidence(p) \/ GateVerdict(p) \/ GateState(p)
  BY <1>4 DEF MilestoneEvidence, GateVerdict, GateState
<1>5. CASE PushAudit(p)
  <2>1. loc[p].cmd \in {"checkpoint", "milestone", "finalize"}
    BY <1>5 DEF PushAudit, ControlOK, PushLabels
  <2> QED BY <1>5, <2>1, AuditPhase, LocType DEF PushAudit
<1>6. CASE MilestoneValidate(p) \/ PushStage(p) \/ PushCommit(p) \/ GitPush(p) \/ PushAbandon(p)
  BY <1>6 DEF MilestoneValidate, PushStage, PushCommit, GitPush, PushAbandon
<1>7. CASE GateUnverdict(p) \/ PushRevert(p) \/ MilestoneParse(p) \/ MilestoneHead(p)
  BY <1>7 DEF GateUnverdict, PushRevert, Unaudited, MilestoneParse, MilestoneHead
<1> QED BY <1>1, <1>2, <1>3, <1>4, <1>5, <1>6, <1>7 DEF Push

LEMMA AdvanceKeepsPhase ==
    ASSUME TypeOK, NEW p \in Procs, Advance(p), ~AdvanceFsmPublish(p), ~AdvanceRestore(p)
    PROVE  st'.phase = st.phase
<1> USE DEF TypeOK, StateFile
<1>1. ASSUME NEW n \in 1..8, AdvanceStart(p, n) PROVE st'.phase = st.phase
  BY <1>1 DEF AdvanceStart
<1>2. CASE AdvanceRead(p) \/ AdvanceCheck(p) \/ AdvancePrecheckFails(p) \/ AdvanceEntryGate(p)
  BY <1>2 DEF AdvanceRead, AdvanceCheck, AdvancePrecheckFails, AdvanceEntryGate
<1>3. CASE AdvanceHeal(p) \/ AdvanceRecord(p)
  BY <1>3 DEF AdvanceHeal, AdvanceRecord
<1>4. CASE AdvanceCapture(p) \/ AdvanceFsmStage(p) \/ AdvanceFsmProgress(p) \/ AdvanceManifest(p)
  BY <1>4 DEF AdvanceCapture, AdvanceFsmStage, AdvanceFsmProgress, AdvanceManifest
<1>5. CASE AdvanceHeader(p) \/ AdvanceAdd(p) \/ AdvanceCommit(p) \/ AdvanceRestoreRest(p)
  BY <1>5 DEF AdvanceHeader, AdvanceAdd, AdvanceCommit, AdvanceRestoreRest
<1>6. CASE AdvanceParse(p) \/ AdvanceRecordAdd(p) \/ AdvanceRecordCommit(p)
  BY <1>6 DEF AdvanceParse, AdvanceRecordAdd, AdvanceRecordCommit
<1>7. CASE AdvancePublish(p) \/ AdvanceReadBack(p)
  BY <1>7 DEF AdvancePublish, AdvanceReadBack
<1> QED BY <1>1, <1>2, <1>3, <1>4, <1>5, <1>6, <1>7 DEF Advance

(***************************************************************************)
(* Beside an advance-phase under way there is no other, and nobody moves   *)
(* the phase.                                                              *)
(***************************************************************************)
LEMMA OneAdvances ==
    ASSUME OneAdvancer, TypeOK, OrderInv, NEW p \in Procs, pc[p] \in AdvanceLabels,
           NEW q \in Procs, Advance(q)
    PROVE  q = p
<1>1. "advance" \in May[p] /\ "advance" \in May[q]
  BY AdvanceAlone DEF OrderInv, OnCourse
<1> QED BY <1>1 DEF OneAdvancer

LEMMA PhaseAside ==
    ASSUME OneAdvancer, TypeOK, ControlOK, OrderInv, NEW p \in Procs, pc[p] \in AdvanceLabels,
           NEW q \in Procs \ {p}, Step(q) \/ Crash(q)
    PROVE  st'.phase = st.phase
<1>1. CASE Crash(q)
  BY <1>1 DEF Crash
<1>2. CASE Push(q)
  BY <1>2, PushKeepsPhase
<1>3. CASE Advance(q)
  BY <1>3, OneAdvances
<1> QED BY <1>1, <1>2, <1>3 DEF Step

LEMMA OrderStep ==
    ASSUME OneAdvancer, IInv, OrderInv, [Next]_vars
    PROVE  OrderInv'
<1> SUFFICES ASSUME NEW p \in Procs PROVE OnCourse(p)'
  BY DEF OrderInv
<1>1. OnCourse(p) /\ TypeOK /\ ControlOK
  BY DEF OrderInv, IInv
<1> USE DEF Speaking, Decided, Advanced
<1>2. CASE UNCHANGED vars
  BY <1>1, <1>2 DEF vars, OnCourse
<1>3. CASE OperatorRewrite
  BY <1>1, <1>3 DEF OperatorRewrite, OnCourse
<1>4. CASE Crash(p)
  BY <1>1, <1>4, ExitPlain, OffCourse DEF Crash, AdvanceLabels
<1>5. CASE Advance(p)
  BY <1>1, <1>5, AdvanceCourse
<1>6. CASE Push(p)
  BY <1>1, <1>6, PushAlone, OffCourse DEF PushLabels, GateLabels, AdvanceLabels
<1>7. ASSUME NEW q \in Procs \ {p}, Step(q) \/ Crash(q) PROVE OnCourse(p)'
  <2>1. pc'[p] = pc[p] /\ loc'[p] = loc[p]
    BY <1>1, <1>7, AdvanceAlone, PushAlone, ExitPlain DEF Step, Crash
  <2>2. CASE pc[p] \notin AdvanceLabels
    BY <2>1, <2>2, OffCourse DEF AdvanceLabels
  <2>3. CASE pc[p] \in AdvanceLabels
    <3>1. st'.phase = st.phase
      BY <1>1, <1>7, <2>3, PhaseAside
    <3> QED BY <1>1, <2>1, <3>1 DEF OnCourse
  <2> QED BY <2>2, <2>3
<1> QED BY <1>2, <1>3, <1>4, <1>5, <1>6, <1>7 DEF Next, Step, Finished

LEMMA OrderInit == Init => OrderInv
BY DEF Init, StoreInit, OrderInv, OnCourse, Decided, Advanced, AdvanceLabels

LEMMA PhaseStep ==
    ASSUME IInv, OrderInv, Next, st'.phase # st.phase
    PROVE  \E p \in Procs :
             \/ pc[p] = "fsm_publish" /\ loc[p].n = st.phase /\ st'.phase = st.phase + 1
             \/ pc[p] = "restore" /\ loc[p].n = st'.phase /\ st'.phase = st.phase - 1
<1>1. TypeOK /\ ControlOK /\ st.phase \in Nat
  BY PhaseIsNat DEF IInv
<1>2. ~UNCHANGED vars /\ ~OperatorRewrite /\ \A p \in Procs : ~Crash(p)
  BY DEF vars, OperatorRewrite, Crash
<1>3. PICK p \in Procs : AdvanceFsmPublish(p) \/ AdvanceRestore(p)
  BY <1>1, <1>2, PushKeepsPhase, AdvanceKeepsPhase DEF Next, Step, Finished
<1>4. OnCourse(p)
  BY DEF OrderInv
<1>5. CASE AdvanceFsmPublish(p)
  <2>1. pc[p] = "fsm_publish" /\ st' = Merged(st, loc[p].n, loc[p].top)
    BY <1>5 DEF AdvanceFsmPublish, IInv, PublishIsFresh
  <2>2. st'.phase = loc[p].n + 1
    BY <1>1, <2>1 DEF Merged, TypeOK, StateFile
  <2> QED BY <1>4, <2>1, <2>2 DEF OnCourse, Decided
<1>6. CASE AdvanceRestore(p)
  <2>1. pc[p] = "restore" /\ st' = loc[p].snap
    BY <1>6 DEF AdvanceRestore
  <2>2. st.phase = loc[p].n + 1 /\ st'.phase = loc[p].n /\ loc[p].n \in 0..8
    BY <1>1, <1>4, <2>1, LocType DEF OnCourse, Advanced
  <2>3. st'.phase = st.phase - 1
    BY <2>2
  <2> QED BY <2>1, <2>2, <2>3
<1> QED BY <1>3, <1>5, <1>6

LEMMA OrderAlways == ASSUME OneAdvancer PROVE Spec => [](IInv /\ OrderInv)
<1>1. Init => OrderInv
  BY OrderInit
<1>2. IInv /\ OrderInv /\ [Next]_vars => OrderInv'
  BY OrderStep
<1> QED BY <1>1, <1>2, Inductive, PTL DEF Spec

(***************************************************************************)
(* CV-2 and the rollback, for one process that runs advance-phase beside   *)
(* any number that push and finalize gates, with any faults, kills and     *)
(* rewrites of the branch: the phase of state.json only moves to the next  *)
(* one, when advance-phase publishes the phase it was asked to complete,   *)
(* or back, when that command rolls back.                                  *)
(***************************************************************************)
THEOREM PhaseMovesByOneForOneAdvancer == ASSUME OneAdvancer PROVE Spec => PhaseMovesByOne
<1> DEFINE Moves ==
      st'.phase # st.phase =>
          \E p \in Procs :
             \/ pc[p] = "fsm_publish" /\ loc[p].n = st.phase /\ st'.phase = st.phase + 1
             \/ pc[p] = "restore" /\ loc[p].n = st'.phase /\ st'.phase = st.phase - 1
<1>1. IInv /\ OrderInv /\ [Next]_vars => [Moves]_vars
  BY PhaseStep
<1>2. [][Moves]_vars => PhaseMovesByOne
  BY PTL DEF PhaseMovesByOne
<1> QED BY <1>1, <1>2, OrderAlways, PTL DEF Spec

-----------------------------------------------------------------------------
(***************************************************************************)
(* The gate the entry check saw is still passed when the FSM moves.        *)
(***************************************************************************)
LEMMA Alone ==
    ASSUME OneProcess
    PROVE  OneAdvancer /\ \A p \in Procs : Next <=> \/ Step(p) \/ Crash(p)
                                                    \/ OperatorRewrite \/ Finished
BY DEF OneProcess, OneAdvancer, Next

LEMMA AdvanceGateSeen ==
    ASSUME IInv, OrderInv, GateInv, NEW p \in Procs, Advance(p)
    PROVE  GateSeen(p)'
<1>t. TypeOK /\ loc[p] \in LocRec /\ OnCourse(p) /\ GateSeen(p)
  BY LocType DEF IInv, OrderInv, GateInv
<1>n. pc[p] \in AdvanceLabels => loc[p].n \in 1..8
  BY DEF IInv, ControlOK
<1> SUFFICES ASSUME pc'[p] \in Decided, loc'[p].n >= 3
             PROVE  ENTRY_GATE_MAP[loc'[p].n + 1] \in gates'
  BY DEF GateSeen
<1>1. CASE AdvanceEntryGate(p)
  <2>1. RecordAccepted(loc[p].n, loc[p].again) /\ EntryPassed(p)
    BY <1>1, <1>t, ExitPlain, GotoPlain DEF AdvanceEntryGate, Decided
  <2>2. loc' = loc /\ gates' = gates /\ loc[p].n \in 1..8
    BY <1>1, <1>t, <1>n, <2>1, ExitPlain DEF AdvanceEntryGate, EntryPassed, Decided, AdvanceLabels
  <2> QED BY <2>1, <2>2 DEF RecordAccepted
<1>2. CASE AdvanceHeal(p)
  <2>1. loc' = loc
    BY <1>2, <1>t, ExitPlain DEF AdvanceHeal, EntryPassed, Decided
  <2>2. loc[p].n <= 2 /\ loc[p].n \in 1..8
    BY <1>2, <1>t, <1>n DEF AdvanceHeal, OnCourse, AdvanceLabels
  <2> QED BY <2>1, <2>2
<1>3. CASE AdvanceCapture(p)
  BY <1>3, <1>t DEF AdvanceCapture, GateSeen, Decided, TypeOK, LocRec
<1>4. CASE AdvanceFsmStage(p)
  BY <1>4, <1>t DEF AdvanceFsmStage, GateSeen, Decided, TypeOK, LocRec
<1> QED BY <1>t, <1>1, <1>2, <1>3, <1>4, AdvanceReaches DEF Decided

LEMMA GateStep ==
    ASSUME OneProcess, IInv, OrderInv, GateInv, [Next]_vars
    PROVE  GateInv'
<1> SUFFICES ASSUME NEW p \in Procs PROVE GateSeen(p)'
  BY DEF GateInv
<1>1. GateSeen(p) /\ TypeOK
  BY DEF GateInv, IInv
<1>2. CASE UNCHANGED vars \/ OperatorRewrite
  BY <1>1, <1>2 DEF vars, OperatorRewrite, GateSeen
<1>3. CASE Crash(p)
  BY <1>1, <1>3, ExitPlain DEF Crash, GateSeen, Decided
<1>4. CASE Advance(p)
  BY <1>4, AdvanceGateSeen
<1>5. CASE Push(p)
  BY <1>1, <1>5, PushAlone DEF PushLabels, GateLabels, GateSeen, Decided
<1> QED BY <1>2, <1>3, <1>4, <1>5, Alone DEF Step, Finished

(***************************************************************************)
(* _verify_entry_gate, for commands that run one after the other: phase 4  *)
(* and every later one is entered only while the manifest shows its entry  *)
(* gate passed, although the gate was looked at several steps before the   *)
(* FSM moves.                                                              *)
(***************************************************************************)
THEOREM EntryGateHonouredInOneProcess == ASSUME OneProcess PROVE Spec => EntryGateHonoured
<1> DEFINE Honoured ==
      st'.phase > st.phase /\ st'.phase >= 4 => ENTRY_GATE_MAP[st'.phase] \in gates
<1>1. IInv /\ OrderInv /\ GateInv /\ [Next]_vars => [Honoured]_vars
  <2> SUFFICES ASSUME IInv, OrderInv, GateInv, Next, st'.phase > st.phase, st'.phase >= 4
               PROVE  ENTRY_GATE_MAP[st'.phase] \in gates
    OBVIOUS
  <2>1. st.phase \in Nat
    BY PhaseIsNat DEF IInv
  <2>2. st'.phase # st.phase
    BY <2>1
  <2>3. PICK p \in Procs :
          \/ pc[p] = "fsm_publish" /\ loc[p].n = st.phase /\ st'.phase = st.phase + 1
          \/ pc[p] = "restore" /\ loc[p].n = st'.phase /\ st'.phase = st.phase - 1
    BY <2>2, PhaseStep
  <2>4. pc[p] = "fsm_publish" /\ loc[p].n = st.phase /\ st'.phase = loc[p].n + 1 /\ loc[p].n >= 3
    BY <2>1, <2>3
  <2> QED BY <2>4 DEF GateInv, GateSeen, Decided
<1>2. Init => GateInv
  BY DEF Init, StoreInit, GateInv, GateSeen, Decided
<1>3. IInv /\ OrderInv /\ GateInv /\ [Next]_vars => GateInv'
  BY GateStep
<1>4. [][Honoured]_vars => EntryGateHonoured
  BY PTL DEF EntryGateHonoured
<1>5. OneAdvancer
  BY Alone
<1> QED BY <1>1, <1>2, <1>3, <1>4, <1>5, OrderAlways, PTL DEF Spec

-----------------------------------------------------------------------------
(***************************************************************************)
(* HANDOVER.md.  The rollback needs what the capture saw: the phase it     *)
(* kept was not ahead of the HANDOVER.md it kept.  The push commands write *)
(* HANDOVER.md for the phase they are about, hence OnlyAdvance.            *)
(***************************************************************************)
OnlyAdvance == \A p \in Procs : May[p] \subseteq {"advance"}

Captured == {"fsm_stage", "fsm_publish"} \cup Advanced

HandMemory(p) ==
    /\ pc[p] \in {"idle"} \cup AdvanceLabels
    /\ pc[p] \in Captured => loc[p].snap.phase <= loc[p].snapHand
    /\ pc[p] = "fsm_publish" => hand = loc[p].n + 1
    /\ pc[p] = "restore_rest" => st.phase <= loc[p].snapHand

HandInv == HandoverNotBehind /\ \A p \in Procs : HandMemory(p)

\* A command that has captured the files did so in one of its own steps.
LEMMA StaysCaptured ==
    ASSUME TypeOK, NEW p \in Procs, Advance(p), pc'[p] \in Captured
    PROVE  /\ pc[p] \in Captured \/ AdvanceCapture(p)
           /\ loc'[p].n = loc[p].n
<1> USE DEF Captured, Advanced
<1>t. loc[p] \in LocRec /\ loc \in [Procs -> LocRec]
  BY LocType DEF TypeOK
<1>1. AdvanceCapture(p) \/ AdvanceFsmStage(p) \/ AdvanceFsmPublish(p) \/ AdvanceFsmProgress(p)
        \/ AdvanceManifest(p) \/ AdvanceHeader(p) \/ AdvanceAdd(p) \/ AdvanceCommit(p)
  BY AdvanceReaches
<1> USE <1>t, ExitPlain DEF LocRec
<1>2. CASE AdvanceCapture(p)
  BY <1>2 DEF AdvanceCapture
<1>3. CASE AdvanceFsmStage(p) \/ AdvanceFsmPublish(p) \/ AdvanceFsmProgress(p)
  BY <1>3 DEF AdvanceFsmStage, AdvanceFsmPublish, AdvanceFsmProgress
<1>4. CASE AdvanceManifest(p) \/ AdvanceHeader(p) \/ AdvanceAdd(p) \/ AdvanceCommit(p)
  BY <1>4 DEF AdvanceManifest, AdvanceHeader, AdvanceAdd, AdvanceCommit
<1> QED BY <1>1, <1>2, <1>3, <1>4

LEMMA AdvanceHand ==
    ASSUME IInv, OrderInv, HandInv, NEW p \in Procs, Advance(p)
    PROVE  HandoverNotBehind' /\ HandMemory(p)'
<1>t. /\ TypeOK /\ loc[p] \in LocRec /\ OnCourse(p) /\ HandMemory(p) /\ HandoverNotBehind
      /\ loc \in [Procs -> LocRec]
  BY LocType DEF IInv, OrderInv, HandInv, TypeOK
<1>i. st.phase \in Nat /\ hand \in Nat /\ loc[p].n \in Nat /\ loc[p].snapHand \in Nat
  <2>1. hand \in Phases /\ loc[p].snapHand \in Phases /\ loc[p].n \in 0..8
    BY <1>t, LocType DEF TypeOK
  <2> QED BY <1>t, <2>1, PhaseIsNat DEF Phases
<1>1. HandoverNotBehind'
  <2>1. CASE AdvanceFsmPublish(p)
    <3>1. st' = Merged(st, loc[p].n, loc[p].top) /\ hand' = hand /\ hand = loc[p].n + 1
      BY <1>t, <2>1 DEF AdvanceFsmPublish, IInv, PublishIsFresh, HandMemory
    <3>2. st'.phase = loc[p].n + 1
      BY <1>t, <3>1 DEF Merged, TypeOK, StateFile
    <3> QED BY <1>i, <3>1, <3>2 DEF HandoverNotBehind
  <2>2. CASE AdvanceRestore(p)
    <3>1. st'.phase = loc[p].n /\ st.phase = loc[p].n + 1 /\ hand' = hand
      BY <1>t, <2>2 DEF AdvanceRestore, OnCourse, Advanced
    <3> QED BY <1>t, <1>i, <3>1 DEF HandoverNotBehind
  <2>3. CASE AdvanceFsmStage(p)
    <3>1. hand' = loc[p].n + 1 /\ st' = st /\ st.phase = loc[p].n
      BY <1>t, <2>3 DEF AdvanceFsmStage, OnCourse, Decided
    <3> QED BY <1>i, <3>1 DEF HandoverNotBehind
  <2>4. CASE AdvanceHeader(p)
    <3>1. hand' = loc[p].n + 1 /\ st' = st /\ st.phase = loc[p].n + 1
      BY <1>t, <2>4 DEF AdvanceHeader, OnCourse, Advanced
    <3> QED BY <1>i, <3>1 DEF HandoverNotBehind
  <2>5. CASE AdvanceRestoreRest(p)
    BY <1>t, <2>5 DEF AdvanceRestoreRest, HandMemory, HandoverNotBehind
  <2>6. CASE ~AdvanceFsmPublish(p) /\ ~AdvanceRestore(p) /\ hand' = hand
    <3>1. st'.phase = st.phase
      BY <1>t, <2>6, AdvanceKeepsPhase
    <3> QED BY <1>t, <2>6, <3>1 DEF HandoverNotBehind
  <2> QED BY <2>1, <2>2, <2>3, <2>4, <2>5, <2>6, AdvanceLeaves
<1>2. pc'[p] \in {"idle"} \cup AdvanceLabels
  BY <1>t, AdvanceAlone
<1>3. pc'[p] \in Captured => loc'[p].snap.phase <= loc'[p].snapHand
  <2> SUFFICES ASSUME pc'[p] \in Captured PROVE loc'[p].snap.phase <= loc'[p].snapHand
    OBVIOUS
  <2>1. CASE AdvanceCapture(p)
    <3>1. loc'[p].snap = st /\ loc'[p].snapHand = hand
      BY <1>t, <2>1 DEF AdvanceCapture, LocRec
    <3> QED BY <1>t, <3>1 DEF HandoverNotBehind
  <2>2. CASE ~AdvanceCapture(p)
    <3>1. pc[p] \in Captured
      BY <1>t, <2>2, StaysCaptured
    <3>2. loc'[p].snap = loc[p].snap /\ loc'[p].snapHand = loc[p].snapHand
      BY <1>t, <2>2, AdvanceMemory DEF Captured, Advanced
    <3> QED BY <1>t, <3>1, <3>2 DEF HandMemory
  <2> QED BY <2>1, <2>2
<1>4. pc'[p] = "fsm_publish" => hand' = loc'[p].n + 1
  <2>1. AdvanceFsmStage(p) => hand' = loc'[p].n + 1
    BY <1>t DEF AdvanceFsmStage, LocRec
  <2> QED BY <1>t, <2>1, AdvanceReaches
<1>5. pc'[p] = "restore_rest" => st'.phase <= loc'[p].snapHand
  <2>1. AdvanceRestore(p) => st'.phase <= loc'[p].snapHand
    BY <1>t DEF AdvanceRestore, HandMemory, Captured, Advanced
  <2> QED BY <1>t, <2>1, AdvanceReaches
<1> QED BY <1>1, <1>2, <1>3, <1>4, <1>5 DEF HandMemory

LEMMA HandStep ==
    ASSUME OneProcess, OnlyAdvance, IInv, OrderInv, HandInv, [Next]_vars
    PROVE  HandInv'
<1>t. TypeOK /\ HandoverNotBehind /\ \A p \in Procs : HandMemory(p)
  BY DEF IInv, HandInv
<1>1. CASE UNCHANGED vars \/ OperatorRewrite
  BY <1>t, <1>1 DEF vars, OperatorRewrite, HandInv, HandMemory, HandoverNotBehind
<1>2. ASSUME NEW p \in Procs, Step(p) \/ Crash(p) PROVE HandInv'
  <2>1. CASE Crash(p)
    <3>1. st' = st /\ hand' = hand /\ pc'[p] = "idle"
      BY <1>t, <2>1, ExitPlain DEF Crash
    <3> QED BY <1>t, <3>1 DEF HandInv, HandMemory, HandoverNotBehind, OneProcess, Captured, Advanced
  <2>2. CASE Advance(p)
    BY <2>2, AdvanceHand DEF HandInv, OneProcess
  <2>3. CASE Push(p)
    <3>1. pc[p] \in {"idle"} \cup AdvanceLabels /\ May[p] \subseteq {"advance"}
      BY <1>t DEF HandMemory, OnlyAdvance
    <3> QED BY <1>t, <2>3, <3>1, PushAlone DEF AdvanceLabels, PushLabels, GateLabels
  <2> QED BY <1>2, <2>1, <2>2, <2>3 DEF Step
<1> QED BY <1>1, <1>2 DEF Next, Finished

LEMMA HandInit == Init => HandInv
<1> SUFFICES ASSUME Init PROVE HandInv
  OBVIOUS
<1>1. st = StartTree /\ hand = StartPhase /\ \A p \in Procs : pc[p] = "idle"
  BY DEF Init, StoreInit
<1>2. StartTree.phase = StartPhase
  BY StartAssumption DEF StartTree, TreeAt, StartId
<1>3. StartPhase <= StartPhase
  BY StartAssumption
<1> QED BY <1>1, <1>2, <1>3 DEF HandInv, HandMemory, HandoverNotBehind, Captured, Advanced

(***************************************************************************)
(* HANDOVER.md, for a project that only runs advance-phase, one command    *)
(* after the other, with any faults, kills and rewrites: at no instant     *)
(* does it send a new session to an earlier phase than state.json is in -  *)
(* it is published before state.json, and put back after it.               *)
(***************************************************************************)
THEOREM HandoverNeverBehind ==
    ASSUME OneProcess, OnlyAdvance PROVE Spec => []HandoverNotBehind
<1>1. IInv /\ OrderInv /\ HandInv /\ [Next]_vars => HandInv'
  BY HandStep
<1>2. HandInv => HandoverNotBehind
  BY DEF HandInv
<1>3. OneAdvancer
  BY Alone
<1> QED BY <1>1, <1>2, <1>3, HandInit, OrderAlways, PTL DEF Spec

-----------------------------------------------------------------------------
(***************************************************************************)
(* The completion records.  What a record of phase k names is found in the *)
(* history at or after a commit that has left phase k, and the history     *)
(* only grows: NoRewrite.                                                  *)
(***************************************************************************)
NoRewrite == MaxRewrites = 0

Left(h, k) == \E i \in 1..Len(h) : h[i].tree.phase > k
AtOrAfter(h, k, sha) ==
    \E i, j \in 1..Len(h) : i <= j /\ h[i].tree.phase > k /\ h[j].id = sha
RecordsNamed(h, s) == \A k \in 3..8 : s.completed[k] # 0 => AtOrAfter(h, k, s.completed[k])

NamedMemory(p) ==
    /\ RecordsNamed(hist, loc[p].snap)
    /\ pc[p] = "commit" => index.phase > loc[p].n
    /\ pc[p] = "parse" => Left(hist, loc[p].n)
    /\ pc[p] = "record" => AtOrAfter(hist, loc[p].n, loc[p].sha)

NamedInv ==
    /\ RecordsNamed(hist, StartTree) /\ RecordsNamed(hist, st)
    /\ \A p \in Procs : NamedMemory(p)

Grown(h, g) == Len(h) \in Nat /\ Len(g) \in Nat /\ Len(h) <= Len(g) /\ \A i \in 1..Len(h) : g[i] = h[i]

LEMMA GrownNames ==
    ASSUME NEW h, NEW g, Grown(h, g)
    PROVE  /\ \A k : Left(h, k) => Left(g, k)
           /\ \A k, sha : AtOrAfter(h, k, sha) => AtOrAfter(g, k, sha)
           /\ \A s : RecordsNamed(h, s) => RecordsNamed(g, s)
<1>1. \A i \in 1..Len(h) : i \in 1..Len(g) /\ g[i] = h[i]
  BY DEF Grown
<1>2. \A k : Left(h, k) => Left(g, k)
  BY <1>1 DEF Left
<1>3. \A k, sha : AtOrAfter(h, k, sha) => AtOrAfter(g, k, sha)
  BY <1>1 DEF AtOrAfter
<1> QED BY <1>2, <1>3 DEF RecordsNamed

LEMMA NoRewriteGrows ==
    ASSUME NoRewrite, TypeOK, TypeOK', [Next]_vars
    PROVE  Grown(hist, hist')
<1>1. ~OperatorRewrite
  BY BoundAssumption DEF OperatorRewrite, NoRewrite, TypeOK
<1>2. Len(hist) \in Nat /\ Len(hist') \in Nat
  BY DEF TypeOK
<1> QED BY <1>1, <1>2, HistoryGrows DEF Grown

\* A record of phase 1 or 2, or a new record of phase n that is well named.
LEMMA NamedWrite ==
    ASSUME NEW h, NEW s \in StateFile, RecordsNamed(h, s), NEW n, NEW sha,
           n \in 3..8 => AtOrAfter(h, n, sha)
    PROVE  /\ RecordsNamed(h, [s EXCEPT !.completed[n] = sha])
           /\ RecordsNamed(h, [s EXCEPT !.completed[n] = sha, !.heals = @ + 1])
<1>1. s.completed \in [1..8 -> Nat]
  BY DEF StateFile
<1>2. ASSUME NEW k \in 3..8
      PROVE  [s.completed EXCEPT ![n] = sha][k] = IF k = n THEN sha ELSE s.completed[k]
  BY <1>1
<1>3. /\ [s EXCEPT !.completed[n] = sha].completed = [s.completed EXCEPT ![n] = sha]
      /\ [s EXCEPT !.completed[n] = sha, !.heals = @ + 1].completed = [s.completed EXCEPT ![n] = sha]
  BY DEF StateFile
<1> QED BY <1>2, <1>3 DEF RecordsNamed

LEMMA TipIn == ASSUME TypeOK PROVE Len(hist) \in 1..Len(hist) /\ Tip = hist[Len(hist)]
BY DEF TypeOK, Tip

LEMMA AdvanceNamed ==
    ASSUME IInv, OrderInv, NamedInv, Grown(hist, hist'), NEW p \in Procs, Advance(p)
    PROVE  RecordsNamed(hist', st') /\ NamedMemory(p)'
<1>t. /\ TypeOK /\ st \in StateFile /\ loc[p] \in LocRec /\ loc \in [Procs -> LocRec]
      /\ OnCourse(p) /\ NamedMemory(p)
  BY LocType DEF IInv, TypeOK, OrderInv, NamedInv
<1>n. loc[p].n \in 0..8
  BY <1>t, LocType
<1>g. RecordsNamed(hist', st) /\ RecordsNamed(hist', StartTree) /\ RecordsNamed(hist', loc[p].snap)
  BY <1>t, GrownNames DEF NamedInv, NamedMemory
<1>1. RecordsNamed(hist', st')
  <2>1. CASE AdvanceHeal(p)
    <3>1. loc[p].n <= 2 /\ ~(loc[p].n \in 3..8)
      BY <1>t, <1>n, <2>1 DEF AdvanceHeal, OnCourse
    <3>2. RecordsNamed(hist', [st EXCEPT !.completed[loc[p].n] = loc[p].sha, !.heals = @ + 1])
      BY <1>t, <1>g, <3>1, NamedWrite
    <3> QED BY <1>g, <2>1, <3>2 DEF AdvanceHeal
  <2>2. CASE AdvanceFsmPublish(p)
    <3>1. st' = Merged(st, loc[p].n, loc[p].top)
      BY <2>2 DEF AdvanceFsmPublish, IInv, PublishIsFresh
    <3>2. st'.completed = st.completed
      BY <1>t, <3>1 DEF Merged, StateFile
    <3> QED BY <1>g, <3>2 DEF RecordsNamed
  <2>3. CASE AdvanceRestore(p)
    BY <1>g, <2>3 DEF AdvanceRestore
  <2>4. CASE AdvanceRecord(p)
    <3>1. AtOrAfter(hist', loc[p].n, loc[p].sha)
      BY <1>t, <2>4, GrownNames DEF AdvanceRecord, NamedMemory
    <3>2. RecordsNamed(hist', [st EXCEPT !.completed[loc[p].n] = loc[p].sha])
      BY <1>t, <1>g, <3>1, NamedWrite
    <3> QED BY <1>g, <2>4, <3>2 DEF AdvanceRecord
  <2> QED BY <1>g, <2>1, <2>2, <2>3, <2>4, AdvanceLeaves
<1>2. RecordsNamed(hist', loc'[p].snap)
  <2>1. IdleLoc.snap = StartTree
    BY DEF IdleLoc
  <2>2. AdvanceCapture(p) => loc'[p].snap = st
    BY <1>t DEF AdvanceCapture, LocRec
  <2> QED BY <1>t, <1>g, <2>1, <2>2, AdvanceMemory
<1>3. pc'[p] = "commit" => index'.phase > loc'[p].n
  <2> SUFFICES ASSUME AdvanceAdd(p), pc'[p] = "commit" PROVE index'.phase > loc'[p].n
    BY <1>t, AdvanceReaches
  <2>1. index' = st /\ loc' = loc /\ st.phase = loc[p].n + 1
    BY <1>t, GotoPlain DEF AdvanceAdd, OnCourse, Advanced
  <2> QED BY <1>n, <2>1
<1>4. pc'[p] = "parse" => Left(hist', loc'[p].n)
  <2> SUFFICES ASSUME AdvanceCommit(p), pc'[p] = "parse" PROVE Left(hist', loc'[p].n)
    BY <1>t, AdvanceReaches
  <2>1. loc' = loc /\ index.phase > loc[p].n
    BY <1>t DEF AdvanceCommit, NamedMemory
  <2>2. CASE GitCommit("handover", loc[p].n)
    <3>1. "handover" \in Subjects /\ loc[p].n \in 0..9
      BY <1>n DEF Subjects
    <3>2. /\ Len(hist') = Len(hist) + 1
          /\ hist'[Len(hist) + 1] =
                [id |-> newest + 1, subject |-> "handover", n |-> loc[p].n, tree |-> index]
      <4>1. TypeOK
        BY <1>t
      <4> QED BY <2>2, <3>1, <4>1, CommitAppends
    <3>3. Len(hist) + 1 \in 1..Len(hist')
      BY <3>2 DEF Grown
    <3>4. hist'[Len(hist) + 1].tree = index
      BY <3>2
    <3> QED BY <2>1, <3>3, <3>4 DEF Left
  <2>3. CASE index = Tip.tree
    <3>1. Left(hist, loc[p].n)
      BY <1>t, <2>1, <2>3, TipIn DEF Left
    <3> QED BY <2>1, <3>1, GrownNames
  <2> QED BY <1>t, <2>2, <2>3, GotoPlain DEF AdvanceCommit
<1>5. pc'[p] = "record" => AtOrAfter(hist', loc'[p].n, loc'[p].sha)
  <2> SUFFICES ASSUME AdvanceParse(p) PROVE AtOrAfter(hist', loc'[p].n, loc'[p].sha)
    BY <1>t, AdvanceReaches
  <2>1. loc'[p].n = loc[p].n /\ loc'[p].sha = Tip.id /\ Left(hist, loc[p].n)
    BY <1>t DEF AdvanceParse, LocRec, NamedMemory
  <2>2. AtOrAfter(hist, loc[p].n, Tip.id)
    BY <1>t, <2>1, TipIn DEF Left, AtOrAfter
  <2> QED BY <2>1, <2>2, GrownNames
<1> QED BY <1>1, <1>2, <1>3, <1>4, <1>5 DEF NamedMemory

LEMMA PushNamed ==
    ASSUME IInv, OrderInv, NamedInv, Grown(hist, hist'), NEW p \in Procs, Push(p)
    PROVE  RecordsNamed(hist', st') /\ NamedMemory(p)'
<1>t. /\ TypeOK /\ st \in StateFile /\ loc[p] \in LocRec /\ NamedMemory(p) /\ ControlOK
  BY LocType DEF IInv, TypeOK, NamedInv
<1>g. RecordsNamed(hist', st) /\ RecordsNamed(hist', StartTree) /\ RecordsNamed(hist', loc[p].snap)
  BY <1>t, GrownNames DEF NamedInv, NamedMemory
<1>1. RecordsNamed(hist', st')
  <2>1. ASSUME st'.completed = st.completed PROVE RecordsNamed(hist', st')
    BY <1>g, <2>1 DEF RecordsNamed
  <2>2. CASE GateState(p) \/ MilestoneHead(p)
    <3>1. st'.completed = st.completed
      BY <1>t, <2>2 DEF GateState, MilestoneHead, StateFile
    <3> QED BY <2>1, <3>1
  <2>3. ASSUME loc[p].cmd = "checkpoint", NEW sha
        PROVE  RecordsNamed(hist', [st EXCEPT !.completed[loc[p].n] = sha])
    <3>1. ~(loc[p].n \in 3..8)
      BY <1>t, <2>3 DEF ControlOK
    <3> QED BY <1>t, <1>g, <3>1, NamedWrite
  <2>4. CASE PushAudit(p) /\ st' # st
    <3>1. st' = Audited(loc[p]) /\ loc[p].cmd \in {"checkpoint", "milestone", "finalize"}
      BY <1>t, <2>4 DEF PushAudit, ControlOK, PushLabels
    <3>2. loc[p].cmd # "checkpoint" => st'.completed = st.completed
      BY <1>t, <3>1 DEF Audited, StateFile
    <3> QED BY <2>1, <2>3, <3>1, <3>2 DEF Audited
  <2>5. CASE PushRevert(p) /\ st' # st
    <3>1. st' = Unaudited(loc[p]) /\ loc[p].wrote
      BY <2>5 DEF PushRevert, Unaudited
    <3>2. loc[p].cmd # "checkpoint" => st'.completed = st.completed
      BY <1>t, <3>1 DEF Unaudited, StateFile
    <3> QED BY <2>1, <2>3, <3>1, <3>2 DEF Unaudited
  <2> QED BY <1>g, <2>2, <2>4, <2>5, PushLeaves
<1>2. RecordsNamed(hist', loc'[p].snap)
  <2>1. IdleLoc.snap = StartTree
    BY DEF IdleLoc
  <2> QED BY <1>t, <1>g, <2>1, PushMemory
<1>3. pc'[p] \notin {"commit", "parse", "record"}
  BY <1>t, PushAlone DEF PushLabels, GateLabels
<1> QED BY <1>1, <1>2, <1>3 DEF NamedMemory

LEMMA NamedAside ==
    ASSUME OneAdvancer, IInv, OrderInv, NamedInv, Grown(hist, hist'), NEW p \in Procs,
           NEW q \in Procs \ {p}, Step(q) \/ Crash(q)
    PROVE  NamedMemory(p)'
<1>t. TypeOK /\ NamedMemory(p) /\ OnCourse(p)
  BY DEF IInv, NamedInv, OrderInv
<1>1. pc'[p] = pc[p] /\ loc'[p] = loc[p]
  BY <1>t, AdvanceAlone, PushAlone, ExitPlain DEF Step, Crash
<1>2. pc[p] = "commit" => index' = index \/ index' = st
  <2>1. CASE Crash(q)
    BY <2>1 DEF Crash, repo
  <2>2. CASE Push(q)
    BY <2>2, PushLeaves DEF PushStage
  <2>3. CASE Advance(q)
    BY <1>t, <2>3, OneAdvances DEF AdvanceLabels
  <2> QED BY <2>1, <2>2, <2>3 DEF Step
<1>3. pc[p] = "commit" => st.phase > loc[p].n
  <2>1. loc[p].n \in 0..8
    BY <1>t, LocType
  <2> QED BY <1>t, <2>1 DEF OnCourse, Advanced
<1>4. pc'[p] = "commit" => index'.phase > loc'[p].n
  BY <1>t, <1>1, <1>2, <1>3 DEF NamedMemory
<1> QED BY <1>t, <1>1, <1>4, GrownNames DEF NamedMemory

LEMMA NamedStep ==
    ASSUME NoRewrite, OneAdvancer, IInv, IInv', OrderInv, NamedInv, [Next]_vars
    PROVE  NamedInv'
<1>t. TypeOK /\ TypeOK' /\ RecordsNamed(hist, StartTree) /\ RecordsNamed(hist, st)
  BY DEF IInv, NamedInv
<1>g. Grown(hist, hist')
  BY <1>t, NoRewriteGrows
<1>s. RecordsNamed(hist', StartTree) /\ RecordsNamed(hist', st)
  BY <1>t, <1>g, GrownNames
<1>1. CASE UNCHANGED vars
  BY <1>1 DEF vars, NamedInv, NamedMemory
<1>2. ~OperatorRewrite
  BY <1>t, BoundAssumption DEF OperatorRewrite, NoRewrite, TypeOK
<1>3. ASSUME NEW p \in Procs, Step(p) \/ Crash(p) PROVE NamedInv'
  <2>1. RecordsNamed(hist', st') /\ NamedMemory(p)'
    <3>1. CASE Crash(p)
      <4>1. st' = st /\ pc'[p] = "idle" /\ loc'[p] = IdleLoc /\ IdleLoc.snap = StartTree
        BY <1>t, <3>1 DEF Crash, Exit, TypeOK, IdleLoc
      <4> QED BY <1>s, <4>1 DEF NamedMemory
    <3> QED BY <1>3, <1>g, <3>1, AdvanceNamed, PushNamed DEF Step
  <2>2. \A q \in Procs \ {p} : NamedMemory(q)'
    BY <1>3, <1>g, NamedAside
  <2> QED BY <1>s, <2>1, <2>2 DEF NamedInv
<1> QED BY <1>1, <1>2, <1>3 DEF Next, Finished

LEMMA StartNamed == RecordsNamed(StartHistory, StartTree)
<1> SUFFICES ASSUME NEW k \in 3..8, StartTree.completed[k] # 0
             PROVE  AtOrAfter(StartHistory, k, StartTree.completed[k])
  BY DEF RecordsNamed
<1>1. StartTree.completed[k] = 3 * k /\ 3 * k \in 1..StartId
  <2>1. StartTree.completed[k] = IF StartId >= 3 * k + 1 THEN 3 * k ELSE 0
    BY StartTreeType DEF StartTree, TreeAt, RecordId, HandoverId
  <2> QED BY <2>1, StartTreeType
<1>2. Len(StartHistory) = StartId
  BY StartTreeType DEF StartHistory
<1>3. StartHistory[3 * k].id = 3 * k /\ StartHistory[3 * k].tree.phase = 1 + ((3 * k) \div 3)
  BY <1>1 DEF StartHistory, TreeAt
<1>4. 1 + ((3 * k) \div 3) > k
  OBVIOUS
<1> QED BY <1>1, <1>2, <1>3, <1>4 DEF AtOrAfter

LEMMA NamedInit == Init => NamedInv
BY StartNamed DEF Init, StoreInit, NamedInv, NamedMemory, IdleLoc

(***************************************************************************)
(* The record of a phase that advance-phase closed, for one process that   *)
(* runs advance-phase beside any number that push and finalize gates, with *)
(* any faults and kills, on a branch nobody rewrites: the sha in           *)
(* phase_completed[k] names a commit at or after the one that left phase   *)
(* k, although it is resolved, and written, in steps of their own.         *)
(***************************************************************************)
THEOREM RecordsNameHandovers ==
    ASSUME NoRewrite, OneAdvancer PROVE Spec => []RecordNamesHandover
<1>1. IInv /\ IInv' /\ OrderInv /\ NamedInv /\ [Next]_vars => NamedInv'
  BY NamedStep
<1>2. NamedInv => RecordNamesHandover
  BY DEF NamedInv, RecordsNamed, AtOrAfter, RecordNamesHandover
<1> QED BY <1>1, <1>2, NamedInit, OrderAlways, PTL DEF Spec

-----------------------------------------------------------------------------
(***************************************************************************)
(* The rollback.  Between the capture and the restore a lone advance-phase *)
(* changes no entry of phase_completed, so putting the captured state.json *)
(* back takes none of them away.  (last_milestone_head is another matter:  *)
(* beside a push-milestone the rollback does take it back.)                *)
(***************************************************************************)
CaptureFresh(p) == pc[p] \in Captured => loc[p].snap.completed = st.completed

FreshInv == \A p \in Procs : CaptureFresh(p)

\* What changes while a command is between its capture and its commit.
LEMMA CapturedState ==
    ASSUME IInv, NEW p \in Procs, Advance(p), pc'[p] \in Captured
    PROVE  st'.completed = st.completed
<1>t. TypeOK /\ st \in StateFile
  BY DEF IInv, TypeOK
<1>1. CASE st' = st
  BY <1>1
<1>2. CASE AdvanceFsmPublish(p)
  <2>1. st' = Merged(st, loc[p].n, loc[p].top)
    BY <1>2 DEF AdvanceFsmPublish, IInv, PublishIsFresh
  <2> QED BY <1>t, <2>1 DEF Merged, StateFile
<1>3. CASE AdvanceRestore(p) \/ AdvanceRecord(p)
  BY <1>t, <1>3, GotoPlain DEF AdvanceRestore, AdvanceRecord, Captured, Advanced
<1>4. CASE AdvanceHeal(p)
  BY <1>t, <1>4, ExitPlain, GotoPlain DEF AdvanceHeal, EntryPassed, Captured, Advanced
<1> QED BY <1>1, <1>2, <1>3, <1>4, AdvanceLeaves

LEMMA FreshStep ==
    ASSUME OneProcess, IInv, FreshInv, [Next]_vars
    PROVE  FreshInv'
<1> SUFFICES ASSUME NEW p \in Procs, pc'[p] \in Captured
             PROVE  loc'[p].snap.completed = st'.completed
  BY DEF FreshInv, CaptureFresh
<1>t. TypeOK /\ loc \in [Procs -> LocRec] /\ CaptureFresh(p)
  BY DEF IInv, TypeOK, FreshInv
<1>1. CASE UNCHANGED vars \/ OperatorRewrite
  BY <1>t, <1>1 DEF vars, OperatorRewrite, CaptureFresh
<1>2. CASE Crash(p)
  BY <1>t, <1>2, ExitPlain DEF Crash, Captured, Advanced
<1>3. CASE Push(p)
  BY <1>t, <1>3, PushAlone DEF PushLabels, GateLabels, Captured, Advanced
<1>4. CASE Advance(p)
  <2>1. CASE AdvanceCapture(p)
    BY <1>t, <2>1 DEF AdvanceCapture, LocRec
  <2>2. CASE ~AdvanceCapture(p)
    <3>1. pc[p] \in Captured
      BY <1>t, <1>4, <2>2, StaysCaptured
    <3>2. loc'[p].snap = loc[p].snap
      BY <1>t, <1>4, <2>2, AdvanceMemory DEF Captured, Advanced
    <3>3. st'.completed = st.completed
      BY <1>4, CapturedState
    <3> QED BY <1>t, <3>1, <3>2, <3>3 DEF CaptureFresh
  <2> QED BY <2>1, <2>2
<1> QED BY <1>1, <1>2, <1>3, <1>4, Alone DEF Step, Finished

LEMMA FreshInit == Init => FreshInv
BY DEF Init, StoreInit, FreshInv, CaptureFresh, Captured, Advanced

-----------------------------------------------------------------------------
(***************************************************************************)
(* The commits, for commands that run one after the other and are not      *)
(* killed, on a branch nobody rewrites.  What is committed is state.json   *)
(* as it is at that moment (StagedInv), and the tip is one phase behind    *)
(* exactly while an advance is under way (TipInv).  Leaving phase 2 can    *)
(* fail with the FSM already advanced (no FR ids, exit 2) and nothing      *)
(* committed: hence the phase the project starts in, or no faults.         *)
(***************************************************************************)
NoCrash == MaxCrashes = 0
PastReviews == StartPhase >= 3

Committing == {"commit", "record_commit", "push_commit"}
StagedInv == \A p \in Procs : pc[p] \in Committing => index = st

LEMMA StagedStep ==
    ASSUME OneProcess, NoRewrite, IInv, StagedInv, [Next]_vars
    PROVE  StagedInv'
<1> SUFFICES ASSUME NEW p \in Procs, pc'[p] \in Committing PROVE index' = st'
  BY DEF StagedInv
<1>t. TypeOK /\ (pc[p] \in Committing => index = st)
  BY DEF IInv, StagedInv
<1>1. CASE UNCHANGED vars
  BY <1>t, <1>1 DEF vars
<1>2. ~OperatorRewrite
  BY <1>t, BoundAssumption DEF OperatorRewrite, NoRewrite, TypeOK
<1>3. CASE Crash(p)
  BY <1>t, <1>3, ExitPlain DEF Crash, Committing
<1>4. CASE Advance(p)
  <2>1. AdvanceAdd(p) \/ AdvanceRecordAdd(p)
    BY <1>t, <1>4, AdvanceReaches, AdvanceAlone DEF Committing, AdvanceLabels
  <2> QED BY <1>t, <2>1, GotoPlain DEF AdvanceAdd, AdvanceRecordAdd, Committing
<1>5. CASE Push(p)
  <2>1. PushStage(p)
    BY <1>t, <1>5, PushReaches, PushAlone DEF Committing, PushLabels, GateLabels
  <2> QED BY <1>t, <2>1, GotoPlain DEF PushStage, Committing
<1> QED BY <1>1, <1>2, <1>3, <1>4, <1>5, Alone DEF Step, Finished

LEMMA StagedInit == Init => StagedInv
BY DEF Init, StoreInit, StagedInv, Committing

(***************************************************************************)
(* The commit at the tip after a step.                                     *)
(***************************************************************************)
LEMMA TipStep ==
    ASSUME TypeOK, StagedInv, NEW p \in Procs, Step(p)
    PROVE  /\ \/ hist' = hist /\ Tip' = Tip
              \/ pc[p] \in Committing /\ Tip'.tree = st
           /\ AdvanceCommit(p) /\ pc'[p] = "parse" => Tip'.tree = st
<1>1. hist' = hist => Tip' = Tip
  BY DEF Tip
<1>2. ASSUME NEW s, NEW n, GitCommit(s, n) PROVE Tip'.tree = index
  <2>1. hist' = Append(hist, [id |-> newest + 1, subject |-> s, n |-> n, tree |-> index])
    BY <1>2 DEF GitCommit
  <2>2. Tip' = [id |-> newest + 1, subject |-> s, n |-> n, tree |-> index]
    BY <2>1 DEF Tip, TypeOK
  <2> QED BY <2>2
<1>3. CASE hist' = hist
  <2>1. AdvanceCommit(p) /\ pc'[p] = "parse" => Tip'.tree = st
    <3> SUFFICES ASSUME AdvanceCommit(p), pc'[p] = "parse" PROVE Tip'.tree = st
      OBVIOUS
    <3>1. pc[p] = "commit" /\ index = st
      BY DEF AdvanceCommit, StagedInv, Committing
    <3>2. GitCommit("handover", loc[p].n) \/ index = Tip.tree
      BY GotoPlain DEF AdvanceCommit
    <3> QED BY <1>1, <1>2, <1>3, <3>1, <3>2
  <2> QED BY <1>1, <1>3, <2>1
<1>4. CASE hist' # hist
  <2>1. /\ GitCommit("handover", loc[p].n) \/ GitCommit("record", loc[p].n)
           \/ GitCommit(CommitSubject(loc[p]), loc[p].n)
        /\ pc[p] \in Committing
    <3>1. AdvanceCommit(p) \/ AdvanceRecordCommit(p) \/ PushCommit(p)
      BY <1>4, AdvanceLeaves, PushLeaves DEF Step
    <3> QED BY <1>4, <3>1 DEF AdvanceCommit, AdvanceRecordCommit, PushCommit, Committing
  <2>2. index = st
    BY <2>1 DEF StagedInv
  <2> QED BY <1>2, <2>1, <2>2
<1> QED BY <1>3, <1>4

TipInv ==
    /\ PastReviews => /\ st.phase >= 3
                      /\ \A p \in Procs : pc[p] \in Advanced => loc[p].n >= 3 /\ pc[p] # "manifest"
    /\ \A p \in Procs : pc[p] \in Advanced => Tip.tree.phase = loc[p].n
    /\ (\A p \in Procs : pc[p] \notin Advanced) => Tip.tree.phase = st.phase

LEMMA AdvanceTip ==
    ASSUME OneProcess, PastReviews \/ MaxFaults = 0, IInv, OrderInv, StagedInv, TipInv,
           NEW p \in Procs, Advance(p)
    PROVE  TipInv'
<1>t. TypeOK /\ OnCourse(p) /\ Step(p) /\ \A q \in Procs : q = p
  BY DEF IInv, OrderInv, Step, OneProcess
<1>i. loc[p].n \in Nat /\ st.phase \in Nat
  BY <1>t, LocType, PhaseIsNat
<1>1. CASE pc'[p] \in Advanced
  <2>c. pc'[p] \in Captured
    BY <1>1 DEF Captured
  <2>1. loc'[p].n = loc[p].n
    BY <1>t, <2>c, StaysCaptured
  <2>2. hist' = hist
    BY <1>t, <1>1, AdvanceLeaves, GotoPlain DEF AdvanceCommit, AdvanceRecordCommit, Advanced
  <2>3. CASE AdvanceFsmPublish(p)
    <3>1. pc[p] = "fsm_publish" /\ st.phase = loc[p].n /\ pc'[p] = "fsm_progress"
      BY <1>t, <2>3, GotoPlain DEF AdvanceFsmPublish, OnCourse, Decided
    <3>2. Tip.tree.phase = loc[p].n /\ (PastReviews => loc[p].n >= 3)
      BY <1>t, <3>1 DEF TipInv, Advanced
    <3>3. st' = Merged(st, loc[p].n, loc[p].top)
      BY <2>3 DEF AdvanceFsmPublish, IInv, PublishIsFresh
    <3>4. st'.phase = loc[p].n + 1
      BY <1>t, <3>3 DEF Merged, TypeOK, StateFile
    <3>5. PastReviews => st'.phase >= 3
      BY <1>i, <3>2, <3>4
    <3> QED BY <1>t, <1>1, <2>1, <2>2, <3>1, <3>2, <3>5 DEF TipInv, Tip
  <2>4. CASE ~AdvanceFsmPublish(p)
    <3>1. pc[p] \in Advanced
      BY <1>t, <1>1, <2>4, AdvanceReaches
      DEF Advanced, AdvanceFsmProgress, AdvanceManifest, AdvanceHeader, AdvanceAdd, AdvanceCommit
    <3>2. ~AdvanceRestore(p)
      BY <1>t, <1>1, GotoPlain DEF AdvanceRestore, Advanced
    <3>3. st'.phase = st.phase
      BY <1>t, <2>4, <3>2, AdvanceKeepsPhase
    <3>4. Tip.tree.phase = loc[p].n /\ (PastReviews => loc[p].n >= 3 /\ st.phase >= 3)
      BY <3>1 DEF TipInv
    <3>5. pc'[p] = "manifest" => ~PastReviews
      <4> SUFFICES ASSUME AdvanceFsmProgress(p), pc'[p] = "manifest" PROVE ~PastReviews
        BY <1>t, AdvanceReaches
      <4>1. loc[p].n = 2
        BY <1>t, GotoPlain DEF AdvanceFsmProgress
      <4> QED BY <3>4, <4>1
    <3> QED BY <1>t, <1>1, <2>1, <2>2, <3>3, <3>4, <3>5 DEF TipInv, Tip
  <2> QED BY <2>3, <2>4
<1>2. CASE pc'[p] \notin Advanced
  <2> SUFFICES Tip'.tree.phase = st'.phase /\ (PastReviews => st'.phase >= 3)
    BY <1>t, <1>2 DEF TipInv
  <2>1. ~AdvanceFsmPublish(p)
    BY <1>t, <1>2, GotoPlain DEF AdvanceFsmPublish, Advanced
  <2>2. CASE pc[p] \notin Advanced
    <3>1. ~AdvanceRestore(p)
      BY <2>2 DEF AdvanceRestore, Advanced
    <3>2. st'.phase = st.phase /\ Tip.tree.phase = st.phase /\ (PastReviews => st.phase >= 3)
      BY <1>t, <2>1, <2>2, <3>1, AdvanceKeepsPhase DEF TipInv
    <3> QED BY <1>t, <3>2, TipStep
  <2>3. CASE pc[p] \in Advanced
    <3>1. Tip.tree.phase = loc[p].n /\ (PastReviews => loc[p].n >= 3 /\ pc[p] # "manifest" /\ st.phase >= 3)
      BY <2>3 DEF TipInv
    <3>2. CASE AdvanceRestore(p)
      <4>1. st'.phase = loc[p].n /\ hist' = hist
        BY <1>t, <3>2 DEF AdvanceRestore, OnCourse, Advanced, repo
      <4> QED BY <3>1, <4>1 DEF Tip
    <3>3. CASE ~AdvanceRestore(p)
      <4>1. AdvanceManifest(p) \/ AdvanceCommit(p)
        BY <1>t, <1>2, <2>3, <3>3, AdvanceReaches, GotoPlain
        DEF Advance, Advanced, AdvanceStart, Start, AdvanceRead, AdvanceCheck, AdvancePrecheckFails,
            AdvanceEntryGate, AdvanceHeal, AdvanceCapture, AdvanceFsmStage, AdvanceFsmPublish,
            AdvanceFsmProgress, AdvanceHeader, AdvanceAdd, AdvanceRestoreRest, AdvanceParse,
            AdvanceRecord, AdvanceRecordAdd, AdvanceRecordCommit, AdvancePublish, AdvanceReadBack
      <4>2. ~AdvanceManifest(p)
        <5> SUFFICES ASSUME AdvanceManifest(p) PROVE FALSE
          OBVIOUS
        <5>1. pc[p] = "manifest" /\ Fault
          BY <1>t, <1>2, GotoPlain DEF AdvanceManifest, Advanced
        <5>2. MaxFaults = 0
          BY <3>1, <5>1
        <5> QED BY <1>t, <5>1, <5>2 DEF Fault, TypeOK
      <4>3. pc'[p] = "parse" /\ st' = st
        BY <1>t, <1>2, <4>1, <4>2, GotoPlain DEF AdvanceCommit, Advanced
      <4>4. Tip'.tree = st
        BY <1>t, <4>1, <4>2, <4>3, TipStep
      <4> QED BY <3>1, <4>3, <4>4
    <3> QED BY <3>2, <3>3
  <2> QED BY <2>2, <2>3
<1> QED BY <1>1, <1>2

LEMMA TipInvStep ==
    ASSUME OneProcess, NoCrash, NoRewrite, PastReviews \/ MaxFaults = 0,
           IInv, OrderInv, StagedInv, TipInv, [Next]_vars
    PROVE  TipInv'
<1>t. TypeOK /\ ControlOK
  BY DEF IInv
<1>1. CASE UNCHANGED vars
  BY <1>1 DEF vars, TipInv, Tip
<1>2. ~OperatorRewrite /\ \A p \in Procs : ~Crash(p)
  BY <1>t, BoundAssumption DEF OperatorRewrite, Crash, NoRewrite, NoCrash, TypeOK
<1>3. ASSUME NEW p \in Procs, Push(p) PROVE TipInv'
  <2>1. pc[p] \notin Advanced /\ pc'[p] \notin Advanced /\ \A q \in Procs : q = p
    BY <1>t, <1>3, PushAlone DEF PushLabels, GateLabels, Advanced, OneProcess
  <2>2. st'.phase = st.phase /\ Tip.tree.phase = st.phase
    BY <1>t, <1>3, <2>1, PushKeepsPhase DEF TipInv
  <2>3. Tip'.tree.phase = st'.phase
    BY <1>t, <1>3, <2>2, TipStep DEF Step
  <2> QED BY <2>1, <2>2, <2>3 DEF TipInv
<1> QED BY <1>1, <1>2, <1>3, AdvanceTip DEF Next, Step, Finished

LEMMA StartTip ==
    ASSUME Init
    PROVE  Tip.tree = StartTree /\ st = StartTree /\ StartTree.phase = StartPhase
<1>1. hist = StartHistory /\ st = StartTree
  BY DEF Init, StoreInit
<1>2. Len(StartHistory) = StartId
  BY StartTreeType DEF StartHistory
<1>3. StartHistory[StartId].tree = StartTree
  BY StartTreeType DEF StartHistory, StartTree
<1>4. StartTree.phase = StartPhase
  BY StartAssumption DEF StartTree, TreeAt, StartId
<1> QED BY <1>1, <1>2, <1>3, <1>4 DEF Tip

LEMMA TipInit == Init => TipInv
<1> SUFFICES ASSUME Init PROVE TipInv
  OBVIOUS
<1>1. \A p \in Procs : pc[p] \notin Advanced
  BY DEF Init, StoreInit, Advanced
<1> QED BY <1>1, StartTip DEF TipInv, PastReviews

LEMMA TipAlways ==
    ASSUME OneProcess, NoCrash, NoRewrite, PastReviews \/ MaxFaults = 0
    PROVE  Spec => [](IInv /\ OrderInv /\ StagedInv /\ TipInv)
<1>1. IInv /\ StagedInv /\ [Next]_vars => StagedInv'
  BY StagedStep
<1>2. IInv /\ OrderInv /\ StagedInv /\ TipInv /\ [Next]_vars => TipInv'
  BY TipInvStep
<1>3. OneAdvancer
  BY Alone
<1> QED BY <1>1, <1>2, <1>3, StagedInit, TipInit, OrderAlways, PTL DEF Spec

(***************************************************************************)
(* The ghost phase, for commands that run one after the other and are not  *)
(* killed, on a branch nobody rewrites, with any number of failures past   *)
(* phase 2 (or none): whenever no command runs, state.json and the commit  *)
(* at HEAD agree on the phase - the rollback of an advance that cannot     *)
(* commit is complete.                                                     *)
(***************************************************************************)
THEOREM NoGhostPhaseLater ==
    ASSUME OneProcess, NoCrash, NoRewrite, PastReviews \/ MaxFaults = 0
    PROVE  Spec => []NoGhostPhase
<1>1. TipInv => NoGhostPhase
  BY DEF TipInv, NoGhostPhase, Quiet, Advanced
<1> QED BY <1>1, TipAlways, PTL

-----------------------------------------------------------------------------
(***************************************************************************)
(* The refinement of PhaseLedger.  A commit carries the records that       *)
(* state.json holds at that moment; records are only added, and never the  *)
(* one of a phase that is not over (RecordInv).                            *)
(***************************************************************************)
Recorded(s, k) == s.completed[k] # 0

RecordInv ==
    \A k \in 1..8 :
        /\ Recorded(Tip.tree, k) => Recorded(st, k)
        /\ Recorded(st, k) => k < st.phase
        /\ \A p \in Procs : pc[p] \in Advanced /\ Recorded(st, k) => k < loc[p].n

LEMMA RecordWritten ==
    ASSUME NEW s \in StateFile, NEW n, NEW sha, sha # 0, NEW k \in 1..8
    PROVE  /\ Recorded(s, k) => Recorded([s EXCEPT !.completed[n] = sha], k)
           /\ Recorded(s, k) => Recorded([s EXCEPT !.completed[n] = sha, !.heals = @ + 1], k)
           /\ Recorded([s EXCEPT !.completed[n] = sha], k) => Recorded(s, k) \/ k = n
           /\ Recorded([s EXCEPT !.completed[n] = sha, !.heals = @ + 1], k) => Recorded(s, k) \/ k = n
<1>1. s.completed \in [1..8 -> Nat]
  BY DEF StateFile
<1>2. [s.completed EXCEPT ![n] = sha][k] = IF k = n THEN sha ELSE s.completed[k]
  BY <1>1
<1>3. /\ [s EXCEPT !.completed[n] = sha].completed = [s.completed EXCEPT ![n] = sha]
      /\ [s EXCEPT !.completed[n] = sha, !.heals = @ + 1].completed = [s.completed EXCEPT ![n] = sha]
  BY DEF StateFile
<1> QED BY <1>2, <1>3 DEF Recorded

\* What a step does to the records: it adds at most one.
RecordsAdded(n) ==
    \A k \in 1..8 :
        /\ Recorded(st, k) => Recorded(st', k)
        /\ Recorded(st', k) => Recorded(st, k) \/ k = n

LEMMA SameRecords ==
    ASSUME st'.completed = st.completed, NEW n
    PROVE  RecordsAdded(n)
BY DEF RecordsAdded, Recorded

LEMMA AdvanceRecords ==
    ASSUME IInv, OrderInv, FreshInv, ReviewInv, NEW p \in Procs, Advance(p)
    PROVE  /\ RecordsAdded(loc[p].n)
           /\ AdvanceRecord(p) \/ loc[p].n <= 2 \/ st'.completed = st.completed
<1>t. TypeOK /\ st \in StateFile /\ OnCourse(p) /\ ReviewMemory(p)
  BY DEF IInv, TypeOK, OrderInv, ReviewInv
<1>1. CASE AdvanceHeal(p)
  <2>1. loc[p].sha # 0 /\ loc[p].n <= 2
    BY <1>t, <1>1 DEF AdvanceHeal, ReviewMemory
  <2>2. CASE st' = st
    BY <2>2, SameRecords
  <2>3. CASE st' = [st EXCEPT !.completed[loc[p].n] = loc[p].sha, !.heals = @ + 1]
    BY <1>t, <2>1, <2>3, RecordWritten DEF RecordsAdded
  <2> QED BY <1>1, <2>1, <2>2, <2>3 DEF AdvanceHeal
<1>2. CASE AdvanceRecord(p)
  <2>1. loc[p].sha # 0
    BY <1>t, <1>2 DEF AdvanceRecord, ReviewMemory
  <2>2. CASE st' = st
    BY <1>2, <2>2, SameRecords
  <2>3. CASE st' = [st EXCEPT !.completed[loc[p].n] = loc[p].sha]
    BY <1>t, <1>2, <2>1, <2>3, RecordWritten DEF RecordsAdded
  <2> QED BY <1>2, <2>2, <2>3 DEF AdvanceRecord
<1>3. CASE AdvanceFsmPublish(p)
  <2>1. st' = Merged(st, loc[p].n, loc[p].top)
    BY <1>3 DEF AdvanceFsmPublish, IInv, PublishIsFresh
  <2>2. st'.completed = st.completed
    BY <1>t, <2>1 DEF Merged, StateFile
  <2> QED BY <2>2, SameRecords
<1>4. CASE AdvanceRestore(p)
  <2>1. st'.completed = st.completed
    BY <1>4 DEF AdvanceRestore, FreshInv, CaptureFresh, Captured, Advanced
  <2> QED BY <2>1, SameRecords
<1>5. CASE st' = st
  BY <1>5, SameRecords
<1> QED BY <1>1, <1>2, <1>3, <1>4, <1>5, AdvanceLeaves

LEMMA PushRecords ==
    ASSUME IInv, ReviewInv, NEW p \in Procs, Push(p)
    PROVE  RecordsAdded(loc[p].n) /\ (loc[p].n <= 2 \/ st'.completed = st.completed)
<1>t. TypeOK /\ ControlOK /\ st \in StateFile /\ ReviewMemory(p)
  BY DEF IInv, TypeOK, ReviewInv
<1>1. CASE GateState(p) \/ MilestoneHead(p)
  <2>1. st'.completed = st.completed
    BY <1>t, <1>1 DEF GateState, MilestoneHead, StateFile
  <2> QED BY <2>1, SameRecords
<1>2. CASE PushAudit(p) /\ st' # st
  <2>1. st' = Audited(loc[p]) /\ loc[p].cmd \in {"checkpoint", "milestone", "finalize"}
    BY <1>t, <1>2 DEF PushAudit, ControlOK, PushLabels
  <2>2. CASE loc[p].cmd # "checkpoint"
    <3>1. st'.completed = st.completed
      BY <1>t, <2>1, <2>2 DEF Audited, StateFile
    <3> QED BY <3>1, SameRecords
  <2>3. CASE loc[p].cmd = "checkpoint"
    <3>1. loc[p].sha # 0 /\ loc[p].n <= 2
      BY <1>t, <1>2, <2>3 DEF PushAudit, ReviewMemory, PushLabels, ControlOK
    <3>2. st' = [st EXCEPT !.completed[loc[p].n] = loc[p].sha]
      BY <2>1, <2>3 DEF Audited
    <3> QED BY <1>t, <3>1, <3>2, RecordWritten DEF RecordsAdded
  <2> QED BY <2>2, <2>3
<1>3. CASE PushRevert(p) /\ st' # st
  <2>1. st' = Unaudited(loc[p]) /\ loc[p].wrote
    BY <1>3 DEF PushRevert, Unaudited
  <2>2. CASE loc[p].cmd # "checkpoint"
    <3>1. st'.completed = st.completed
      BY <1>t, <2>1, <2>2 DEF Unaudited, StateFile
    <3> QED BY <3>1, SameRecords
  <2>3. CASE loc[p].cmd = "checkpoint"
    <3>1. loc[p].old # 0 /\ loc[p].n <= 2
      BY <1>t, <1>3, <2>1, <2>3 DEF PushRevert, ReviewMemory, PushLabels, ControlOK
    <3>2. st' = [st EXCEPT !.completed[loc[p].n] = loc[p].old]
      BY <2>1, <2>3 DEF Unaudited
    <3> QED BY <1>t, <3>1, <3>2, RecordWritten DEF RecordsAdded
  <2> QED BY <2>2, <2>3
<1>4. CASE st' = st
  BY <1>4, SameRecords
<1> QED BY <1>1, <1>2, <1>3, <1>4, PushLeaves

\* At "record" the phase is the one after the phase that is being closed.
ClosingInv == \A p \in Procs : pc[p] \in {"parse", "record"} => st.phase = loc[p].n + 1

LEMMA ClosingStep ==
    ASSUME OneProcess, IInv, OrderInv, ClosingInv, [Next]_vars
    PROVE  ClosingInv'
<1> SUFFICES ASSUME NEW p \in Procs, pc'[p] \in {"parse", "record"} PROVE st'.phase = loc'[p].n + 1
  BY DEF ClosingInv
<1>t. TypeOK /\ loc \in [Procs -> LocRec] /\ OnCourse(p)
      /\ (pc[p] \in {"parse", "record"} => st.phase = loc[p].n + 1)
  BY DEF IInv, TypeOK, OrderInv, ClosingInv
<1>1. CASE UNCHANGED vars \/ OperatorRewrite
  BY <1>t, <1>1 DEF vars, OperatorRewrite
<1>2. CASE Crash(p) \/ Push(p)
  BY <1>t, <1>2, PushAlone, ExitPlain DEF Crash, PushLabels, GateLabels
<1>3. CASE Advance(p)
  <2>1. AdvanceCommit(p) \/ AdvanceParse(p)
    BY <1>t, <1>3, AdvanceReaches
  <2>2. CASE AdvanceCommit(p)
    BY <1>t, <2>2 DEF AdvanceCommit, OnCourse, Advanced
  <2>3. CASE AdvanceParse(p)
    BY <1>t, <2>3 DEF AdvanceParse, LocRec
  <2> QED BY <2>1, <2>2, <2>3
<1> QED BY <1>1, <1>2, <1>3, Alone DEF Step, Finished

LEMMA LedgerRecords ==
    ASSUME OneProcess, PastReviews, IInv, OrderInv, FreshInv, ReviewInv, ClosingInv, StagedInv,
           TipInv, RecordInv, NEW p \in Procs, Step(p)
    PROVE  RecordInv'
<1>t. /\ TypeOK /\ ControlOK /\ OnCourse(p) /\ \A q \in Procs : q = p
      /\ st.phase \in Nat /\ loc[p].n \in 0..8 /\ st.phase >= 3
  BY LocType, PhaseIsNat DEF IInv, OrderInv, OneProcess, TipInv
<1> SUFFICES ASSUME NEW k \in 1..8
             PROVE  /\ Recorded(Tip'.tree, k) => Recorded(st', k)
                    /\ Recorded(st', k) => k < st'.phase
                    /\ pc'[p] \in Advanced /\ Recorded(st', k) => k < loc'[p].n
  BY <1>t DEF RecordInv
<1>a. /\ Recorded(st, k) => Recorded(st', k)
      /\ Recorded(st', k) => Recorded(st, k) \/ k = loc[p].n
      /\ Recorded(st', k) /\ ~Recorded(st, k) => AdvanceRecord(p) \/ loc[p].n <= 2
  BY AdvanceRecords, PushRecords DEF Step, RecordsAdded, Recorded
<1>r. /\ Recorded(Tip.tree, k) => Recorded(st, k)
      /\ Recorded(st, k) => k < st.phase
      /\ pc[p] \in Advanced /\ Recorded(st, k) => k < loc[p].n
  BY DEF RecordInv
<1>1. Recorded(Tip'.tree, k) => Recorded(st', k)
  BY <1>t, <1>a, <1>r, TipStep
<1>2. Recorded(st', k) => k < st.phase
  <2>1. AdvanceRecord(p) => loc[p].n < st.phase
    BY <1>t DEF AdvanceRecord, ClosingInv
  <2>2. loc[p].n <= 2 => loc[p].n < st.phase
    BY <1>t
  <2> QED BY <1>a, <1>r, <2>1, <2>2
<1>3. CASE AdvanceFsmPublish(p)
  <2>1. /\ pc[p] = "fsm_publish" /\ st.phase = loc[p].n /\ loc' = loc
        /\ st' = Merged(st, loc[p].n, loc[p].top)
    BY <1>t, <1>3 DEF AdvanceFsmPublish, OnCourse, Decided, IInv, PublishIsFresh
  <2>2. st'.phase = loc[p].n + 1
    BY <1>t, <2>1 DEF Merged, TypeOK, StateFile
  <2>3. k < st.phase => k < st'.phase
    BY <1>t, <2>1, <2>2
  <2> QED BY <1>1, <1>2, <2>1, <2>3
<1>4. CASE AdvanceRestore(p)
  <2>1. /\ pc[p] \in Advanced /\ st'.phase = loc[p].n /\ pc'[p] \notin Advanced
        /\ st'.completed = st.completed
    BY <1>t, <1>4, GotoPlain DEF AdvanceRestore, OnCourse, Advanced, FreshInv, CaptureFresh, Captured
  <2> QED BY <1>1, <1>r, <2>1 DEF Recorded
<1>5. CASE ~AdvanceFsmPublish(p) /\ ~AdvanceRestore(p)
  <2>1. st'.phase = st.phase
    BY <1>t, <1>5, AdvanceKeepsPhase, PushKeepsPhase DEF Step
  <2>2. pc'[p] \in Advanced /\ Recorded(st', k) => k < loc'[p].n
    <3> SUFFICES ASSUME pc'[p] \in Advanced, Recorded(st', k) PROVE k < loc'[p].n
      OBVIOUS
    <3>1. Advance(p)
      BY <1>t, PushAlone DEF Step, PushLabels, GateLabels, Advanced
    <3>2. loc'[p].n = loc[p].n
      BY <1>t, <3>1, StaysCaptured DEF Captured
    <3>3. pc[p] \in Advanced
      BY <1>t, <1>5, <3>1, AdvanceReaches
      DEF Advanced, AdvanceFsmProgress, AdvanceManifest, AdvanceHeader, AdvanceAdd, AdvanceCommit
    <3>4. st'.completed = st.completed
      BY <3>1, CapturedState DEF Captured
    <3> QED BY <1>r, <3>2, <3>3, <3>4 DEF Recorded
  <2> QED BY <1>1, <1>2, <2>1, <2>2
<1> QED BY <1>3, <1>4, <1>5

LEMMA RecordStep ==
    ASSUME OneProcess, NoCrash, NoRewrite, PastReviews, IInv, OrderInv, FreshInv, ReviewInv,
           ClosingInv, StagedInv, TipInv, RecordInv, [Next]_vars
    PROVE  RecordInv'
<1>1. CASE UNCHANGED vars
  BY <1>1 DEF vars, RecordInv, Tip
<1>2. ~OperatorRewrite /\ \A p \in Procs : ~Crash(p)
  BY BoundAssumption DEF OperatorRewrite, Crash, NoRewrite, NoCrash, IInv, TypeOK
<1> QED BY <1>1, <1>2, LedgerRecords DEF Next, Finished

LEMMA RecordInit == Init => RecordInv
<1> SUFFICES ASSUME Init, NEW k \in 1..8
             PROVE  /\ Recorded(Tip.tree, k) => Recorded(st, k)
                    /\ Recorded(st, k) => k < st.phase
                    /\ \A p \in Procs : pc[p] \notin Advanced
  BY DEF RecordInv
<1>1. StartTree.completed[k] # 0 => k < StartPhase
  <2>1. StartTree.completed[k] =
            IF StartId >= RecordId(k) THEN HandoverId(k)
            ELSE IF k <= 2 /\ StartId >= CheckpointId(k) THEN CheckpointId(k) - 1 ELSE 0
    BY DEF StartTree, TreeAt
  <2>2. StartTree.completed[k] # 0 => 3 * StartPhase - 2 >= 3 * k - 1
    BY <2>1, StartAssumption DEF StartId, RecordId, CheckpointId, HandoverId
  <2> QED BY <2>2, StartAssumption
<1>2. \A p \in Procs : pc[p] \notin Advanced
  BY DEF Init, StoreInit, Advanced
<1> QED BY <1>1, <1>2, StartTip DEF Recorded

(***************************************************************************)
(* One step of the pipeline is one step of the ledger, or none.            *)
(***************************************************************************)
RecordsIn(s) == {k \in 1..8 : s.completed[k] # 0}

LEMMA LedgerStep ==
    ASSUME OneProcess, NoCrash, NoRewrite, PastReviews, IInv, OrderInv, StagedInv,
           TipInv, RecordInv, [Next]_vars
    PROVE  [Ledger!LedgerNext]_(Ledger!ledger)
<1>t. TypeOK /\ ControlOK /\ st.phase \in Nat
  BY PhaseIsNat DEF IInv
<1>1. ASSUME Tip' = Tip PROVE UNCHANGED Ledger!ledger
  BY <1>1 DEF Ledger!ledger
<1>2. CASE UNCHANGED vars
  BY <1>1, <1>2 DEF vars, Tip
<1>3. ~OperatorRewrite /\ \A p \in Procs : ~Crash(p)
  BY <1>t, BoundAssumption DEF OperatorRewrite, Crash, NoRewrite, NoCrash, TypeOK
<1>4. ASSUME NEW p \in Procs, Step(p), pc[p] \in Committing, Tip'.tree = st
      PROVE  Ledger!LedgerNext
  <2> DEFINE K == RecordsIn(st)
  <2>1. Tip'.tree.phase = st.phase /\ RecordsIn(Tip'.tree) = K
    BY <1>4
  <2>2. RecordsIn(Tip.tree) \subseteq K
    BY DEF RecordInv, Recorded, RecordsIn
  <2>3. RecordsIn(Tip'.tree) = RecordsIn(Tip.tree) \cup K
    BY <2>1, <2>2
  <2>4. CASE pc[p] = "commit"
    <3>1. /\ Tip.tree.phase = loc[p].n /\ st.phase = loc[p].n + 1 /\ loc[p].n \in 1..8
          /\ \A k \in K : k \in 1..8 /\ k < loc[p].n
      BY <1>t, <2>4 DEF TipInv, RecordInv, Recorded, RecordsIn, OrderInv, OnCourse, Advanced,
                        ControlOK, AdvanceLabels
    <3>2. K \in SUBSET (1..(Tip.tree.phase - 1))
      BY <3>1
    <3>3. Tip.tree.phase < 9 /\ Tip'.tree.phase = Tip.tree.phase + 1
      BY <2>1, <3>1
    <3> HIDE DEF K
    <3>4. Ledger!Finish
      BY <2>3, <3>2, <3>3 DEF Ledger!Finish, RecordsIn
    <3> QED BY <3>4 DEF Ledger!LedgerNext
  <2>5. CASE pc[p] # "commit"
    <3>1. \A q \in Procs : q = p
      BY DEF OneProcess
    <3>2. pc[p] \notin Advanced
      BY <1>4, <2>5 DEF Committing, Advanced
    <3>3. Tip.tree.phase = st.phase
      BY <3>1, <3>2 DEF TipInv
    <3>4. \A k \in K : k \in 1..8 /\ k < st.phase
      BY DEF RecordInv, Recorded, RecordsIn
    <3>5. K \in SUBSET (1..(Tip.tree.phase - 1) \cup {1, 2})
      BY <1>t, <3>3, <3>4
    <3> HIDE DEF K
    <3>6. Ledger!Record
      BY <2>1, <2>3, <3>3, <3>5 DEF Ledger!Record, RecordsIn
    <3> QED BY <3>6 DEF Ledger!LedgerNext
  <2> QED BY <2>4, <2>5
<1>5. ASSUME NEW p \in Procs, Step(p) PROVE [Ledger!LedgerNext]_(Ledger!ledger)
  BY <1>t, <1>1, <1>4, <1>5, TipStep
<1> QED BY <1>2, <1>3, <1>5 DEF Next, Finished

LEMMA LedgerInit == Init => Ledger!LedgerInit
<1> SUFFICES ASSUME Init PROVE Ledger!LedgerInit
  OBVIOUS
<1>1. ASSUME NEW k \in 1..8 PROVE StartTree.completed[k] # 0 <=> k <= StartPhase - 1
  <2>1. StartTree.completed[k] =
            IF StartId >= RecordId(k) THEN HandoverId(k)
            ELSE IF k <= 2 /\ StartId >= CheckpointId(k) THEN CheckpointId(k) - 1 ELSE 0
    BY DEF StartTree, TreeAt
  <2>2. StartTree.completed[k] # 0 => 3 * StartPhase - 2 >= 3 * k - 1
    BY <2>1, StartAssumption DEF StartId, RecordId, CheckpointId, HandoverId
  <2>3. 3 * StartPhase - 2 >= 3 * k + 1 => StartTree.completed[k] # 0
    BY <2>1, StartAssumption DEF StartId, RecordId, HandoverId
  <2> QED BY <2>2, <2>3, StartAssumption
<1>2. {k \in 1..8 : StartTree.completed[k] # 0} = 1..(StartPhase - 1)
  BY <1>1, StartAssumption
<1> QED BY <1>2, StartTip DEF Ledger!LedgerInit

(***************************************************************************)
(* What CI sees of a project past its reviewed phases, when the commands   *)
(* run one after the other and are not killed, on a branch nobody          *)
(* rewrites, whatever fails: the state.json of the commits at HEAD is a    *)
(* phase ledger - the phase goes up by one at a time, and only the records *)
(* of phases that are over (or of the reviewed ones) are added.            *)
(***************************************************************************)
THEOREM CommitsRefineLedger ==
    ASSUME OneProcess, NoCrash, NoRewrite, PastReviews PROVE Spec => CommitsFormLedger
<1>1. IInv /\ FreshInv /\ [Next]_vars => FreshInv'
  BY FreshStep
<1>2. IInv /\ IInv' /\ HealInv /\ [Next]_vars => HealInv'
  BY HealStep
<1>3. IInv /\ HealInv /\ ReviewInv /\ [Next]_vars => ReviewInv'
  BY ReviewStep DEF PastReviews
<1>4. IInv /\ OrderInv /\ ClosingInv /\ [Next]_vars => ClosingInv'
  BY ClosingStep
<1>5. Init => ReviewInv
  BY ReviewInit DEF PastReviews
<1>6. Init => ClosingInv
  BY DEF Init, StoreInit, ClosingInv
<1>7. IInv /\ OrderInv /\ FreshInv /\ ReviewInv /\ ClosingInv /\ StagedInv /\ TipInv /\ RecordInv
        /\ [Next]_vars => RecordInv'
  BY RecordStep
<1>8. IInv /\ OrderInv /\ StagedInv /\ TipInv /\ RecordInv /\ [Next]_vars
        => [Ledger!LedgerNext]_(Ledger!ledger)
  BY LedgerStep
<1>9. Spec => [](IInv /\ OrderInv /\ StagedInv /\ TipInv)
  BY TipAlways
<1> QED
  BY <1>1, <1>2, <1>3, <1>4, <1>5, <1>6, <1>7, <1>8, <1>9, FreshInit, HealInit, RecordInit, LedgerInit,
     PTL DEF Spec, CommitsFormLedger, Ledger!LedgerSpec

-----------------------------------------------------------------------------
(***************************************************************************)
(* The verdicts of the gates.  On a branch nobody rewrites the ids number  *)
(* the commits and the upstream is always an ancestor of HEAD (Numbered),  *)
(* so that a way out of finalize-gate or of a push begins with a failure;  *)
(* and of one failure nothing is left to break the way out itself          *)
(* (FaultsSpent): a second one would be swallowed, with the verdict, or    *)
(* the optimistic write, left in place.                                    *)
(***************************************************************************)
Numbered ==
    /\ newest = Len(hist)
    /\ remote \in 0..Len(hist)
    /\ \A i \in 1..Len(hist) : hist[i].id = i

WayOut == {"gate_refused", "abandon", "unverdict", "unaudit"}
FaultsSpent == \A p \in Procs : pc[p] \in WayOut => ~(used.faults < MaxFaults)

LEMMA NumberStep ==
    ASSUME NoRewrite, TypeOK, Numbered, [Next]_vars
    PROVE  Numbered' /\ remote <= remote'
<1>l. Len(hist) \in Nat /\ Len(hist) > 0 /\ remote \in Nat
  BY DEF TypeOK
<1>1. CASE hist' = hist /\ newest' = newest /\ remote' = remote
  BY <1>l, <1>1 DEF Numbered
<1>2. ~OperatorRewrite
  BY BoundAssumption DEF OperatorRewrite, NoRewrite, TypeOK
<1>3. ASSUME NEW p \in Procs, Step(p) PROVE Numbered' /\ remote <= remote'
  <2>1. ASSUME NEW s, NEW n, GitCommit(s, n), remote' = remote PROVE Numbered' /\ remote <= remote'
    <3>1. /\ newest' = newest + 1 /\ Len(hist') = Len(hist) + 1
          /\ \A i \in 1..Len(hist) : hist'[i] = hist[i]
          /\ hist'[Len(hist) + 1].id = newest + 1
      BY <2>1 DEF GitCommit, TypeOK
    <3> QED BY <1>l, <2>1, <3>1 DEF Numbered
  <2>2. CASE AdvanceCommit(p) \/ AdvanceRecordCommit(p) \/ PushCommit(p)
    <3>1. remote' = remote
      BY <2>2 DEF AdvanceCommit, AdvanceRecordCommit, PushCommit
    <3>2. \/ hist' = hist /\ newest' = newest
          \/ GitCommit("handover", loc[p].n) \/ GitCommit("record", loc[p].n)
          \/ GitCommit(CommitSubject(loc[p]), loc[p].n)
      BY <2>2 DEF AdvanceCommit, AdvanceRecordCommit, PushCommit
    <3> QED BY <1>1, <2>1, <3>1, <3>2
  <2>3. CASE AdvancePublish(p) \/ GitPush(p)
    <3>1. hist' = hist /\ newest' = newest /\ (remote' = remote \/ remote' = Tip.id)
      BY <2>3 DEF AdvancePublish, GitPush
    <3>2. Tip.id = Len(hist)
      BY <1>l DEF Tip, Numbered
    <3> QED BY <1>l, <3>1, <3>2 DEF Numbered
  <2> QED BY <1>1, <1>3, <2>2, <2>3, AdvanceLeaves, PushLeaves DEF Step
<1> QED BY <1>1, <1>2, <1>3 DEF Next, Crash, Finished, vars, repo

LEMMA NumberInit == Init => Numbered
<1> SUFFICES ASSUME Init PROVE Numbered
  OBVIOUS
<1>1. Len(StartHistory) = StartId /\ \A i \in 1..StartId : StartHistory[i].id = i
  BY StartTreeType DEF StartHistory
<1> QED BY <1>1, StartTreeType DEF Init, StoreInit, Numbered

LEMMA AlwaysForward == ASSUME TypeOK, Numbered PROVE FastForward /\ Tip.id = Len(hist)
<1>1. Len(hist) \in Nat /\ Len(hist) > 0
  BY DEF TypeOK
<1> QED BY <1>1 DEF Numbered, FastForward, Reachable, Tip

LEMMA SpentStep ==
    ASSUME OneProcess, MaxFaults <= 1, IInv, Numbered, FaultsSpent, [Next]_vars
    PROVE  FaultsSpent'
<1>t. TypeOK /\ used.faults \in Nat /\ MaxFaults \in Nat /\ FastForward
  BY BoundAssumption, AlwaysForward DEF IInv, TypeOK
<1>f. Fault => used'.faults = used.faults + 1
  BY <1>t DEF Fault, TypeOK
<1> SUFFICES ASSUME NEW p \in Procs, pc'[p] \in WayOut PROVE ~(used'.faults < MaxFaults)
  BY DEF FaultsSpent
<1>1. CASE Fault
  BY <1>t, <1>f, <1>1
<1>2. CASE UNCHANGED vars \/ OperatorRewrite
  BY <1>2, <1>t DEF vars, OperatorRewrite, FaultsSpent, TypeOK
<1>3. CASE Advance(p) \/ Crash(p)
  BY <1>t, <1>3, AdvanceAlone, ExitPlain DEF Crash, WayOut, AdvanceLabels
<1>4. CASE Push(p)
  <2>1. \/ GateState(p) \/ PushStage(p) \/ PushCommit(p) \/ GitPush(p) \/ MilestoneValidate(p)
        \/ PushAbandon(p) \/ GateUnverdict(p)
    BY <1>t, <1>4, PushReaches DEF WayOut
  <2>2. CASE GateState(p) \/ PushStage(p) \/ PushCommit(p) \/ GitPush(p) \/ MilestoneValidate(p)
    <3>1. Fault
      BY <1>t, <2>2, GotoPlain, ExitPlain
      DEF GateState, PushStage, PushCommit, GitPush, MilestoneValidate, WayOut
    <3> QED BY <1>1, <3>1
  <2>3. CASE PushAbandon(p) \/ GateUnverdict(p)
    <3>1. pc[p] \in WayOut /\ (used' = used \/ Fault)
      BY <2>3 DEF PushAbandon, GateUnverdict, WayOut
    <3> QED BY <1>1, <3>1 DEF FaultsSpent
  <2> QED BY <2>1, <2>2, <2>3
<1> QED BY <1>2, <1>3, <1>4, Alone DEF Step, Finished

LEMMA SpentInit == Init => FaultsSpent
BY DEF Init, StoreInit, FaultsSpent, WayOut

(***************************************************************************)
(* A gate the manifest shows passed was passed before the model starts, or *)
(* was committed, or is being judged by a finalize-gate that has the       *)
(* commit, or the retraction, before it.                                   *)
(***************************************************************************)
Judging == {"gate_state", "audit", "stage", "push_commit", "gate_refused", "abandon", "unverdict"}
Judged(p, g) == pc[p] \in Judging /\ loc[p].cmd = "finalize" /\ loc[p].n = g

Committed(h, g) == \E i \in 1..Len(h) : h[i].subject = "gate" /\ h[i].n = g
Evident(h, g) == g \in PassedAt(StartPhase) \/ Committed(h, g)

VerdictInv ==
    /\ \A g \in gates : (\A p \in Procs : ~Judged(p, g)) => Evident(hist, g)
    /\ \A p \in Procs : \A g \in loc[p].snapGates : Evident(hist, g)

LEMMA GrownEvidence ==
    ASSUME NEW h, NEW k, Grown(h, k)
    PROVE  \A g : Evident(h, g) => Evident(k, g)
<1>1. \A i \in 1..Len(h) : i \in 1..Len(k) /\ k[i] = h[i]
  BY DEF Grown
<1> QED BY <1>1 DEF Evident, Committed

\* A judged gate stays judged until it is committed or taken back.
LEMMA JudgedStep ==
    ASSUME IInv, Numbered, FaultsSpent, NEW p \in Procs, Push(p),
           NEW g \in gates, g \in gates', Judged(p, g)
    PROVE  Judged(p, g)' \/ Committed(hist', g)
<1>t. TypeOK /\ FastForward /\ loc \in [Procs -> LocRec] /\ pc \in [Procs -> Labels]
  BY AlwaysForward DEF IInv, TypeOK
<1>j. pc[p] \in Judging /\ loc[p].cmd = "finalize" /\ loc[p].n = g
  BY DEF Judged
<1> USE GotoPlain, ExitPlain
<1>1. CASE GateState(p)
  BY <1>t, <1>j, <1>1 DEF GateState, Judged, Judging
<1>2. CASE PushAudit(p)
  BY <1>t, <1>j, <1>2 DEF PushAudit, Judged, Judging, LocRec
<1>3. CASE PushStage(p)
  BY <1>t, <1>j, <1>3 DEF PushStage, Judged, Judging, LocRec
<1>4. CASE PushCommit(p)
  <2>1. CASE GitCommit(CommitSubject(loc[p]), loc[p].n)
    <3>1. hist' = Append(hist, [id |-> newest + 1, subject |-> "gate", n |-> g, tree |-> index])
      BY <1>j, <2>1 DEF GitCommit, CommitSubject
    <3>2. hist \in Seq(CommitRec)
      BY <1>t DEF TypeOK
    <3>3. Len(hist) \in Nat /\ Len(hist') = Len(hist) + 1
          /\ hist'[Len(hist) + 1].subject = "gate" /\ hist'[Len(hist) + 1].n = g
      BY <3>1, <3>2
    <3> QED BY <3>3 DEF Committed
  <2>2. CASE ~GitCommit(CommitSubject(loc[p]), loc[p].n)
    BY <1>t, <1>j, <1>4, <2>2 DEF PushCommit, Judged, Judging
  <2> QED BY <2>1, <2>2
<1>5. CASE PushAbandon(p)
  BY <1>t, <1>j, <1>5 DEF PushAbandon, Judged, Judging
<1>6. CASE GateUnverdict(p)
  <2>1. ~Fault
    BY <1>6 DEF GateUnverdict, FaultsSpent, WayOut, Fault
  <2>2. g \notin gates'
    BY <1>j, <1>6, <2>1 DEF GateUnverdict
  <2> QED BY <2>2
<1>7. \/ GateState(p) \/ PushAudit(p) \/ PushStage(p) \/ PushCommit(p) \/ PushAbandon(p)
      \/ GateUnverdict(p)
  BY <1>j DEF Push, Judging, CheckpointStart, MilestoneStart, GateStart, Start, MilestoneEvidence,
     GateVerdict, MilestoneValidate, GitPush, PushRevert, MilestoneParse, MilestoneHead
<1> QED BY <1>1, <1>2, <1>3, <1>4, <1>5, <1>6, <1>7

LEMMA VerdictStep ==
    ASSUME OneProcess, NoCrash, NoRewrite, IInv, IInv', Numbered, FaultsSpent, VerdictInv, [Next]_vars
    PROVE  VerdictInv'
<1>t. TypeOK /\ TypeOK' /\ ControlOK /\ loc \in [Procs -> LocRec] /\ pc \in [Procs -> Labels]
  BY DEF IInv, TypeOK
<1>g. \A g : Evident(hist, g) => Evident(hist', g)
  BY <1>t, NoRewriteGrows, GrownEvidence
<1>1. CASE UNCHANGED vars
  BY <1>1 DEF vars, VerdictInv, Judged
<1>2. ~OperatorRewrite /\ \A p \in Procs : ~Crash(p)
  BY <1>t, BoundAssumption DEF OperatorRewrite, Crash, NoRewrite, NoCrash, TypeOK
<1>3. ASSUME NEW p \in Procs, Advance(p) PROVE VerdictInv'
  <2>1. \A g : ~Judged(p, g)
    BY <1>t, <1>3, AdvanceAlone DEF Judged, Judging, AdvanceLabels
  <2>2. \A g \in gates : Evident(hist, g)
    BY <2>1 DEF VerdictInv, OneProcess
  <2>3. \A g \in gates' : g \in gates \/ g \in loc[p].snapGates
    BY <1>3, AdvanceLeaves DEF AdvanceManifest, AdvanceRestoreRest
  <2>4. loc'[p].snapGates \in {loc[p].snapGates, gates, {}}
    <3>1. AdvanceCapture(p) => loc'[p].snapGates = gates
      BY <1>t DEF AdvanceCapture, LocRec
    <3> QED BY <1>t, <1>3, <3>1, AdvanceMemory DEF IdleLoc
  <2>5. \A g \in gates' : Evident(hist', g)
    BY <1>g, <2>2, <2>3 DEF VerdictInv
  <2>6. \A g \in loc'[p].snapGates : Evident(hist', g)
    BY <1>g, <2>2, <2>4 DEF VerdictInv
  <2> QED BY <2>5, <2>6 DEF VerdictInv, OneProcess
<1>4. ASSUME NEW p \in Procs, Push(p) PROVE VerdictInv'
  <2>1. ASSUME NEW g \in gates', ~Judged(p, g)' PROVE Evident(hist', g)
    <3>1. CASE GateVerdict(p) /\ g \notin gates
      <4>1. g = loc[p].n /\ pc'[p] = "gate_state" /\ loc' = loc /\ loc[p].cmd = "finalize"
        BY <1>t, <3>1, GotoPlain DEF GateVerdict, ControlOK, GateLabels
      <4> QED BY <2>1, <4>1 DEF Judged, Judging
    <3>2. CASE g \in gates
      <4>1. CASE Judged(p, g)
        BY <1>4, <2>1, <3>2, <4>1, JudgedStep DEF Evident
      <4>2. CASE ~Judged(p, g)
        BY <1>g, <3>2, <4>2 DEF VerdictInv, OneProcess
      <4> QED BY <4>1, <4>2
    <3>3. g \in gates \/ GateVerdict(p)
      BY <1>4, PushLeaves DEF GateUnverdict
    <3> QED BY <3>1, <3>2, <3>3
  <2>2. loc'[p].snapGates \in {loc[p].snapGates, {}}
    BY <1>t, <1>4, PushMemory DEF IdleLoc
  <2>3. \A g \in loc'[p].snapGates : Evident(hist', g)
    BY <1>g, <2>2 DEF VerdictInv
  <2> QED BY <2>1, <2>3 DEF VerdictInv, OneProcess
<1> QED BY <1>1, <1>2, <1>3, <1>4 DEF Next, Step, Finished

LEMMA VerdictInit == Init => VerdictInv
BY DEF Init, StoreInit, VerdictInv, Evident, IdleLoc

LEMMA NumberAlways ==
    ASSUME OneProcess, NoRewrite, MaxFaults <= 1
    PROVE  Spec => [](IInv /\ Numbered /\ FaultsSpent)
<1>1. IInv /\ Numbered /\ [Next]_vars => Numbered'
  BY NumberStep DEF IInv
<1>2. IInv /\ Numbered /\ FaultsSpent /\ [Next]_vars => FaultsSpent'
  BY SpentStep
<1> QED BY <1>1, <1>2, NumberInit, SpentInit, Inductive, PTL DEF Spec

(***************************************************************************)
(* finalize-gate and _mark_gate_commit_failed, for commands that run one   *)
(* after the other and are not killed, on a branch nobody rewrites, with   *)
(* one failure anywhere: whenever no command runs, a gate that the         *)
(* manifest shows passed was committed.  The verdict is written first and  *)
(* its commit tried three to five steps later; the rollback of an          *)
(* advance-phase in between puts back no verdict that was retracted.       *)
(***************************************************************************)
THEOREM GatesAreCommitted ==
    ASSUME OneProcess, NoCrash, NoRewrite, MaxFaults <= 1
    PROVE  Spec => []GateMeansCommitted
<1>1. IInv /\ IInv' /\ Numbered /\ FaultsSpent /\ VerdictInv /\ [Next]_vars => VerdictInv'
  BY VerdictStep
<1>2. VerdictInv => GateMeansCommitted
  BY DEF VerdictInv, Judged, Judging, Evident, Committed, GateMeansCommitted, Quiet
<1> QED BY <1>1, <1>2, VerdictInit, NumberAlways, PTL DEF Spec

-----------------------------------------------------------------------------
(***************************************************************************)
(* last_milestone_command.  A name that stands for a push (a milestone, or *)
(* gate4) is written first; Upheld says that a commit of such a push which *)
(* carries the name is at the upstream, Carried that the commit is there.  *)
(* state.json's name is upheld unless the push that wrote it is under way  *)
(* (Claiming), and what that push put aside, or an advance captured, is    *)
(* upheld throughout.                                                      *)
(***************************************************************************)
Marks == Milestones \cup {"gate4"}
Carries(c, name) == c.subject \in {"milestone", "gate"} /\ c.tree.command = name

Carried(h, name) == name \in Marks => \E i \in 1..Len(h) : Carries(h[i], name)
Upheld(h, r, name) ==
    name \in Marks => \E i \in 1..Len(h) : Carries(h[i], name) /\ h[i].id <= r

Pending == {"validate", "stage", "push_commit", "push", "abandon", "unverdict", "unaudit"}
Claiming(p) ==
    /\ pc[p] \in Pending
    /\ loc[p].wrote
    /\ loc[p].cmd = "milestone" \/ (loc[p].cmd = "finalize" /\ loc[p].n = 4)

ClaimInv ==
    /\ (\A p \in Procs : ~Claiming(p)) => Upheld(hist, remote, st.command)
    /\ \A i \in 1..Len(hist) : Carried(hist, hist[i].tree.command)
    /\ \A p \in Procs :
          /\ Upheld(hist, remote, loc[p].snap.command)
          /\ Upheld(hist, remote, loc[p].cmd0)
          /\ pc[p] = "push" => Carried(hist, st.command)
          /\ pc[p] = "evidence" => loc[p].cmd = "milestone"
          /\ pc[p] = "audit" /\ loc[p].cmd = "finalize" => loc[p].n = 4

LEMMA GrownClaims ==
    ASSUME NEW h \in Seq(CommitRec), NEW k \in Seq(CommitRec), Grown(h, k),
           NEW r \in Nat, NEW s \in Nat, r <= s
    PROVE  /\ \A name : Upheld(h, r, name) => Upheld(k, s, name) /\ Carried(h, name)
           /\ \A name : Carried(h, name) => Carried(k, name)
<1>1. \A i \in 1..Len(h) : i \in 1..Len(k) /\ k[i] = h[i]
  BY DEF Grown
<1>2. \A i \in 1..Len(h) : h[i].id <= r => k[i].id <= s
  BY <1>1, CommitIds
<1>3. ASSUME NEW name, Upheld(h, r, name) PROVE Upheld(k, s, name) /\ Carried(h, name)
  BY <1>1, <1>2, <1>3 DEF Upheld, Carried
<1>4. ASSUME NEW name, Carried(h, name) PROVE Carried(k, name)
  BY <1>1, <1>4 DEF Carried
<1> QED BY <1>3, <1>4

\* With the upstream at HEAD, what is carried is upheld.
LEMMA PushedClaims ==
    ASSUME TypeOK, Numbered
    PROVE  \A name : Carried(hist, name) => Upheld(hist, Tip.id, name)
<1>1. Tip.id = Len(hist)
  BY AlwaysForward
<1>2. \A i \in 1..Len(hist) : hist[i].id = i /\ i <= Len(hist)
  BY DEF Numbered
<1> QED BY <1>1, <1>2 DEF Carried, Upheld

LEMMA AdvanceCommand ==
    ASSUME IInv, NEW p \in Procs, Advance(p)
    PROVE  st'.command \in {st.command, "advance", loc[p].snap.command}
<1>t. st \in StateFile
  BY DEF IInv, TypeOK
<1>1. CASE AdvanceHeal(p) \/ AdvanceRecord(p)
  BY <1>t, <1>1 DEF AdvanceHeal, AdvanceRecord, StateFile
<1>2. CASE AdvanceFsmPublish(p)
  <2>1. st' = Merged(st, loc[p].n, loc[p].top)
    BY <1>2 DEF AdvanceFsmPublish, IInv, PublishIsFresh
  <2> QED BY <1>t, <2>1 DEF Merged, StateFile
<1>3. CASE AdvanceRestore(p)
  BY <1>3 DEF AdvanceRestore
<1> QED BY <1>1, <1>2, <1>3, AdvanceLeaves

LEMMA PushCommand ==
    ASSUME TypeOK, NEW p \in Procs, Push(p)
    PROVE  st'.command = st.command \/ PushAudit(p) \/ PushRevert(p)
<1>t. st \in StateFile
  BY DEF TypeOK
<1>1. CASE GateState(p) \/ MilestoneHead(p)
  BY <1>t, <1>1 DEF GateState, MilestoneHead, StateFile
<1> QED BY <1>1, PushLeaves

\* A new commit carries the name that state.json has at that moment.
LEMMA CommitsCarry ==
    ASSUME TypeOK, TypeOK', StagedInv, NEW p \in Procs, Step(p), Grown(hist, hist'),
           \A i \in 1..Len(hist) : Carried(hist, hist[i].tree.command),
           Carried(hist, st.command) \/ (PushCommit(p) /\ loc[p].cmd \in {"milestone", "finalize"})
    PROVE  /\ \A i \in 1..Len(hist') : Carried(hist', hist'[i].tree.command)
           /\ hist' # hist => Carried(hist', st.command)
<1>t. hist \in Seq(CommitRec) /\ hist' \in Seq(CommitRec) /\ Len(hist) \in Nat
  BY DEF TypeOK
<1>g. \A name : Carried(hist, name) => Carried(hist', name)
  BY <1>t, GrownClaims
<1>1. CASE hist' = hist
  BY <1>1
<1>2. CASE hist' # hist
  <2>1. PICK s, n : /\ GitCommit(s, n) /\ index = st
                    /\ s = CommitSubject(loc[p]) \/ ~PushCommit(p)
    <3>1. AdvanceCommit(p) \/ AdvanceRecordCommit(p) \/ PushCommit(p)
      BY <1>2, AdvanceLeaves, PushLeaves DEF Step
    <3>2. index = st
      BY <3>1 DEF StagedInv, Committing, AdvanceCommit, AdvanceRecordCommit, PushCommit
    <3>3. CASE PushCommit(p)
      <4>1. GitCommit(CommitSubject(loc[p]), loc[p].n)
        BY <1>2, <3>3 DEF PushCommit
      <4> QED BY <3>2, <4>1
    <3>4. CASE ~PushCommit(p)
      <4>1. GitCommit("handover", loc[p].n) \/ GitCommit("record", loc[p].n)
        BY <1>2, <3>1, <3>4 DEF AdvanceCommit, AdvanceRecordCommit
      <4> QED BY <3>2, <3>4, <4>1
    <3> QED BY <3>3, <3>4
  <2>2. /\ Len(hist') = Len(hist) + 1
        /\ \A i \in 1..Len(hist) : hist'[i] = hist[i]
        /\ hist'[Len(hist) + 1].subject = s /\ hist'[Len(hist) + 1].tree = st
    BY <1>t, <2>1 DEF GitCommit
  <2>3. Carried(hist', st.command)
    <3>1. CASE Carried(hist, st.command)
      BY <1>g, <3>1
    <3>2. CASE PushCommit(p) /\ loc[p].cmd \in {"milestone", "finalize"}
      <4>1. s \in {"milestone", "gate"}
        BY <2>1, <3>2 DEF CommitSubject
      <4>2. Carries(hist'[Len(hist) + 1], st.command) /\ Len(hist) + 1 \in 1..Len(hist')
        BY <1>t, <2>2, <4>1 DEF Carries
      <4> QED BY <4>2 DEF Carried
    <3> QED BY <3>1, <3>2
  <2>4. ASSUME NEW i \in 1..Len(hist') PROVE Carried(hist', hist'[i].tree.command)
    <3>1. CASE i \in 1..Len(hist)
      BY <1>g, <2>2, <3>1
    <3>2. CASE i = Len(hist) + 1
      BY <2>2, <2>3, <3>2
    <3> QED BY <1>t, <2>2, <3>1, <3>2
  <2> QED BY <2>3, <2>4
<1> QED BY <1>1, <1>2

\* Two of the names are no claim.
LEMMA PlainNames ==
    \A h, r, name : name \in {"none", "advance"} => Upheld(h, r, name) /\ Carried(h, name)
<1>1. "none" \notin Marks /\ "advance" \notin Marks
  BY MilestoneAssumption DEF Marks
<1> QED BY <1>1 DEF Upheld, Carried

LEMMA IdleClaims ==
    \A h, r : Upheld(h, r, IdleLoc.snap.command) /\ Upheld(h, r, IdleLoc.cmd0)
<1>1. IdleLoc.snap.command \in {"none", "advance"} /\ IdleLoc.cmd0 = "none"
  BY DEF IdleLoc, StartTree, TreeAt
<1> QED BY <1>1, PlainNames

LEMMA AdvanceClaims ==
    ASSUME OneProcess, NoRewrite, IInv, IInv', Numbered, StagedInv, ClaimInv, remote <= remote',
           NEW p \in Procs, Advance(p)
    PROVE  ClaimInv'
<1>t. /\ TypeOK /\ TypeOK' /\ Step(p) /\ loc \in [Procs -> LocRec] /\ \A q \in Procs : q = p
      /\ hist \in Seq(CommitRec) /\ hist' \in Seq(CommitRec) /\ remote \in Nat /\ remote' \in Nat
  BY DEF IInv, TypeOK, Step, OneProcess
<1>g. Grown(hist, hist')
  BY <1>t, NoRewriteGrows DEF Next
<1>u. /\ \A name : Upheld(hist, remote, name) => Upheld(hist', remote', name) /\ Carried(hist, name)
      /\ \A name : Carried(hist, name) => Carried(hist', name)
  BY <1>t, <1>g, GrownClaims
<1>1. Upheld(hist, remote, st.command)
  <2>1. \A q \in Procs : ~Claiming(q)
    BY <1>t, AdvanceAlone DEF Claiming, Pending, AdvanceLabels
  <2> QED BY <2>1 DEF ClaimInv
<1>2. Upheld(hist', remote', st'.command)
  BY <1>t, <1>u, <1>1, AdvanceCommand, PlainNames DEF ClaimInv
<1>3. \A i \in 1..Len(hist') : Carried(hist', hist'[i].tree.command)
  <2>1. Carried(hist, st.command)
    BY <1>u, <1>1
  <2>2. \A i \in 1..Len(hist) : Carried(hist, hist[i].tree.command)
    BY DEF ClaimInv
  <2> QED BY <1>t, <1>g, <2>1, <2>2, CommitsCarry
<1>4. Upheld(hist', remote', loc'[p].snap.command) /\ Upheld(hist', remote', loc'[p].cmd0)
  <2>1. CASE AdvanceCapture(p)
    <3>1. loc'[p].snap = st /\ loc'[p].cmd0 = loc[p].cmd0
      BY <1>t, <2>1 DEF AdvanceCapture, LocRec
    <3> QED BY <1>u, <1>1, <3>1 DEF ClaimInv
  <2>2. CASE ~AdvanceCapture(p)
    BY <1>t, <1>u, <2>2, AdvanceMemory, IdleClaims DEF ClaimInv
  <2> QED BY <2>1, <2>2
<1>5. pc'[p] \notin {"push", "evidence", "audit"}
  BY <1>t, AdvanceAlone DEF AdvanceLabels
<1> QED BY <1>t, <1>2, <1>3, <1>4, <1>5 DEF ClaimInv

\* state.json names a push that is not at the upstream only while it is under way.
LEMMA PushUpheld ==
    ASSUME OneProcess, NoRewrite, IInv, IInv', Numbered, FaultsSpent, StagedInv, ClaimInv,
           NEW p \in Procs, Push(p), ~Claiming(p)',
           \A name : Upheld(hist, remote, name) => Upheld(hist', remote', name)
    PROVE  Upheld(hist', remote', st'.command)
<1>t. /\ TypeOK /\ ControlOK /\ FastForward /\ st \in StateFile /\ loc \in [Procs -> LocRec]
      /\ pc \in [Procs -> Labels] /\ \A q \in Procs : q = p
  BY AlwaysForward DEF IInv, TypeOK, OneProcess
<1>u. ~Claiming(p) => Upheld(hist, remote, st.command)
  BY <1>t DEF ClaimInv
<1> USE GotoPlain, ExitPlain
<1>1. CASE PushAudit(p)
  <2>1. ~Claiming(p) /\ loc[p].cmd \in {"checkpoint", "milestone", "finalize"}
        /\ (loc[p].cmd = "finalize" => loc[p].n = 4)
    BY <1>t, <1>1 DEF PushAudit, Claiming, Pending, ClaimInv, ControlOK, PushLabels
  <2>2. CASE st' = st
    BY <1>u, <2>1, <2>2
  <2>3. CASE st' = Audited(loc[p]) /\ loc'[p].wrote
    <3>1. loc'[p].cmd = loc[p].cmd /\ loc'[p].n = loc[p].n /\ pc'[p] \in Pending
      BY <1>t, <1>1 DEF PushAudit, Pending, LocRec
    <3>2. loc[p].cmd = "checkpoint"
      BY <2>1, <2>3, <3>1 DEF Claiming
    <3>3. st'.command = st.command
      BY <1>t, <2>3, <3>2 DEF Audited, StateFile
    <3> QED BY <1>u, <2>1, <3>3
  <2> QED BY <1>t, <1>1, <2>2, <2>3 DEF PushAudit, LocRec
<1>2. CASE PushRevert(p)
  <2>1. st' = Unaudited(loc[p])
    BY <1>2 DEF PushRevert, FaultsSpent, WayOut, Fault
  <2>2. CASE loc[p].wrote /\ loc[p].cmd # "checkpoint"
    <3>1. st'.command = loc[p].cmd0
      BY <1>t, <2>1, <2>2 DEF Unaudited, StateFile
    <3> QED BY <3>1 DEF ClaimInv
  <2>3. CASE ~(loc[p].wrote /\ loc[p].cmd # "checkpoint")
    <3>1. st'.command = st.command /\ ~Claiming(p)
      BY <1>t, <2>1, <2>3 DEF Unaudited, StateFile, Claiming
    <3> QED BY <1>u, <3>1
  <2> QED BY <2>2, <2>3
<1>3. ASSUME ~PushAudit(p), ~PushRevert(p) PROVE Upheld(hist', remote', st'.command)
  <2>1. st'.command = st.command
    BY <1>t, <1>3, PushCommand
  <2>2. CASE ~Claiming(p)
    BY <1>u, <2>1, <2>2
  <2>3. CASE Claiming(p)
    <3>1. pc[p] \in Pending /\ (loc[p].cmd = "milestone" \/ (loc[p].cmd = "finalize" /\ loc[p].n = 4))
      BY <2>3 DEF Claiming
    <3>2. CASE GitPush(p)
      <4>1. CASE pc'[p] = "abandon"
        <5>1. loc'[p] = loc[p]
          BY <1>t, <3>2, <4>1 DEF GitPush
        <5> QED BY <2>3, <4>1, <5>1 DEF Claiming, Pending
      <4>2. CASE pc'[p] # "abandon"
        <5>1. remote' = Tip.id /\ hist' = hist /\ Carried(hist, st.command)
          BY <1>t, <3>2, <4>2 DEF GitPush, ClaimInv
        <5> QED BY <1>t, <2>1, <5>1, PushedClaims
      <4> QED BY <4>1, <4>2
    <3>3. CASE MilestoneValidate(p) \/ PushStage(p) \/ PushCommit(p) \/ PushAbandon(p) \/ GateUnverdict(p)
      <4>1. pc'[p] \in Pending
        BY <1>t, <3>1, <3>3
        DEF MilestoneValidate, PushStage, PushCommit, PushAbandon, GateUnverdict, Publishes, Pending
      <4>2. loc'[p].wrote = loc[p].wrote /\ loc'[p].cmd = loc[p].cmd /\ loc'[p].n = loc[p].n
        BY <1>t, <3>1, <3>3
        DEF MilestoneValidate, PushStage, PushCommit, PushAbandon, GateUnverdict, Publishes, Pending, LocRec
      <4> QED BY <2>3, <4>1, <4>2 DEF Claiming
    <3>4. \/ GitPush(p) \/ MilestoneValidate(p) \/ PushStage(p)
          \/ PushCommit(p) \/ PushAbandon(p) \/ GateUnverdict(p)
      BY <1>3, <3>1 DEF Pending, Push, CheckpointStart, MilestoneStart, GateStart, Start,
         MilestoneEvidence, GateVerdict, GateState, MilestoneParse, MilestoneHead
    <3> QED BY <3>2, <3>3, <3>4
  <2> QED BY <2>2, <2>3
<1> QED BY <1>1, <1>2, <1>3

LEMMA PushClaims ==
    ASSUME OneProcess, NoRewrite, IInv, IInv', Numbered, FaultsSpent, StagedInv, ClaimInv, remote <= remote',
           NEW p \in Procs, Push(p)
    PROVE  ClaimInv'
<1>t. /\ TypeOK /\ TypeOK' /\ ControlOK /\ Step(p) /\ loc \in [Procs -> LocRec] /\ \A q \in Procs : q = p
      /\ hist \in Seq(CommitRec) /\ hist' \in Seq(CommitRec) /\ remote \in Nat /\ remote' \in Nat
  BY DEF IInv, TypeOK, Step, OneProcess
<1>g. Grown(hist, hist')
  BY <1>t, NoRewriteGrows DEF Next
<1>u. /\ \A name : Upheld(hist, remote, name) => Upheld(hist', remote', name) /\ Carried(hist, name)
      /\ \A name : Carried(hist, name) => Carried(hist', name)
  BY <1>t, <1>g, GrownClaims
<1>n. ~Claiming(p) => Upheld(hist, remote, st.command)
  BY <1>t DEF ClaimInv
<1>1. ~Claiming(p)' => Upheld(hist', remote', st'.command)
  BY <1>u, PushUpheld
<1>2. PushCommit(p) => /\ loc[p].cmd \in {"milestone", "finalize"} \/ Carried(hist, st.command)
                       /\ st' = st /\ index = st
  BY <1>t, <1>n, <1>u DEF PushCommit, Claiming, StagedInv, Committing
<1>c. \A i \in 1..Len(hist) : Carried(hist, hist[i].tree.command)
  BY DEF ClaimInv
<1>3. \A i \in 1..Len(hist') : Carried(hist', hist'[i].tree.command)
  <2>1. CASE PushCommit(p)
    <3>1. Carried(hist, st.command) \/ (PushCommit(p) /\ loc[p].cmd \in {"milestone", "finalize"})
      BY <1>2, <2>1
    <3> QED BY <1>t, <1>g, <1>c, <3>1, CommitsCarry
  <2>2. CASE ~PushCommit(p)
    BY <2>2, PushLeaves DEF ClaimInv
  <2> QED BY <2>1, <2>2
<1>4. pc'[p] = "push" => Carried(hist', st'.command)
  <2> SUFFICES ASSUME pc'[p] = "push" PROVE Carried(hist', st'.command)
    OBVIOUS
  <2>1. PushCommit(p)
    BY <1>t, PushReaches
  <2>2. CASE hist' # hist
    <3>1. Carried(hist, st.command) \/ (PushCommit(p) /\ loc[p].cmd \in {"milestone", "finalize"})
      BY <1>2, <2>1
    <3>2. Carried(hist', st.command)
      BY <1>t, <1>g, <1>c, <2>2, <3>1, CommitsCarry
    <3> QED BY <1>2, <2>1, <3>2
  <2>3. CASE hist' = hist
    <3>1. \A s, n : ~GitCommit(s, n)
      BY <1>t, <2>3 DEF GitCommit, TypeOK
    <3>2. index = Tip.tree
      BY <1>t, <2>1, <3>1, GotoPlain DEF PushCommit
    <3> QED BY <1>t, <1>2, <2>1, <2>3, <3>2, TipIn DEF ClaimInv
  <2> QED BY <2>2, <2>3
<1>5. Upheld(hist', remote', loc'[p].snap.command) /\ Upheld(hist', remote', loc'[p].cmd0)
  <2>1. CASE PushAudit(p)
    <3>1. loc'[p].snap = loc[p].snap /\ (loc'[p].cmd0 = st.command \/ loc'[p].cmd0 = loc[p].cmd0)
      BY <1>t, <2>1 DEF PushAudit, LocRec
    <3>2. ~Claiming(p)
      BY <2>1 DEF PushAudit, Claiming, Pending
    <3> QED BY <1>n, <1>u, <3>1, <3>2 DEF ClaimInv
  <2>2. CASE ~PushAudit(p)
    BY <1>t, <1>u, <2>2, PushMemory, IdleClaims DEF ClaimInv
  <2> QED BY <2>1, <2>2
<1>6. pc'[p] = "evidence" => loc'[p].cmd = "milestone"
  <2>1. ASSUME NEW m \in Milestones, MilestoneStart(p, m) PROVE loc'[p].cmd = "milestone"
    BY <1>t, <2>1 DEF MilestoneStart, LocRec
  <2> QED BY <1>t, <2>1, PushReaches
<1>7. pc'[p] = "audit" /\ loc'[p].cmd = "finalize" => loc'[p].n = 4
  <2> SUFFICES ASSUME pc'[p] = "audit", loc'[p].cmd = "finalize" PROVE loc'[p].n = 4
    OBVIOUS
  <2>1. ~(\E k \in {1, 2} : CheckpointStart(p, k))
    BY <1>t DEF CheckpointStart, LocRec
  <2>2. ~MilestoneEvidence(p)
    BY <1>t, ExitPlain DEF MilestoneEvidence, ClaimInv
  <2>3. GateState(p)
    BY <1>t, <2>1, <2>2, PushReaches
  <2> QED BY <1>t, <2>3, GotoPlain DEF GateState
<1> QED BY <1>t, <1>1, <1>3, <1>4, <1>5, <1>6, <1>7 DEF ClaimInv

LEMMA ClaimStep ==
    ASSUME OneProcess, NoCrash, NoRewrite, IInv, IInv', Numbered, FaultsSpent, StagedInv, ClaimInv,
           [Next]_vars
    PROVE  ClaimInv'
<1>t. TypeOK
  BY DEF IInv
<1>1. CASE UNCHANGED vars
  BY <1>1 DEF vars, ClaimInv, Claiming
<1>2. ~OperatorRewrite /\ \A p \in Procs : ~Crash(p)
  BY <1>t, BoundAssumption DEF OperatorRewrite, Crash, NoRewrite, NoCrash, TypeOK
<1>3. remote <= remote'
  BY <1>t, NumberStep
<1> QED BY <1>1, <1>2, <1>3, AdvanceClaims, PushClaims DEF Next, Step, Finished

LEMMA ClaimInit == Init => ClaimInv
<1> SUFFICES ASSUME Init PROVE ClaimInv
  OBVIOUS
<1>1. st = StartTree /\ hist = StartHistory /\ \A p \in Procs : pc[p] = "idle" /\ loc[p] = IdleLoc
  BY DEF Init, StoreInit
<1>2. \A i : TreeAt(i).command \in {"none", "advance"}
  BY DEF TreeAt
<1>3. Len(StartHistory) = StartId /\ \A i \in 1..StartId : StartHistory[i].tree = TreeAt(i)
  BY StartTreeType DEF StartHistory
<1>4. Upheld(hist, remote, st.command)
  BY <1>1, <1>2, PlainNames DEF StartTree
<1>5. \A i \in 1..Len(hist) : Carried(hist, hist[i].tree.command)
  BY <1>1, <1>2, <1>3, PlainNames
<1> QED BY <1>1, <1>4, <1>5, IdleClaims DEF ClaimInv

(***************************************************************************)
(* push-milestone and finalize-gate, for commands that run one after the   *)
(* other and are not killed, on a branch nobody rewrites, with one failure *)
(* anywhere: whenever no command runs, a milestone (or gate 4) that        *)
(* last_milestone_command names is at the upstream, in a commit of such a  *)
(* push - whatever the optimistic writes, the reverts and the rollback of  *)
(* an advance-phase did to the field in between.                           *)
(***************************************************************************)
THEOREM MilestonesArePushed ==
    ASSUME OneProcess, NoCrash, NoRewrite, MaxFaults <= 1
    PROVE  Spec => []MilestoneMeansPushed
<1>1. IInv /\ StagedInv /\ [Next]_vars => StagedInv'
  BY StagedStep
<1>2. IInv /\ IInv' /\ Numbered /\ FaultsSpent /\ StagedInv /\ ClaimInv /\ [Next]_vars => ClaimInv'
  BY ClaimStep
<1>3. ClaimInv => MilestoneMeansPushed
  BY DEF ClaimInv, Claiming, Pending, Upheld, Carries, Marks, MilestoneMeansPushed, Quiet
<1> QED BY <1>1, <1>2, <1>3, StagedInit, ClaimInit, NumberAlways, PTL DEF Spec
=============================================================================
