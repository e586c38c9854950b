------------------------ MODULE PhasePipelineProofs ------------------------
(***************************************************************************)
(* Proofs about the phase pipeline, for any number of processes and any    *)
(* bound.  The inductive invariant is IInv: PublishIsFresh is inductive    *)
(* only together with LockDiscipline (a document under construction is     *)
(* fresh because its author holds the lock), and typing the optimistic     *)
(* writes needs to know which command a control point belongs to           *)
(* (ControlOK).                                                            *)
(***************************************************************************)
EXTENDS PhasePipeline, TLAPS

IInv == TypeOK /\ ControlOK /\ LockDiscipline /\ PublishIsFresh

-----------------------------------------------------------------------------
(***************************************************************************)
(* The values of the initial state and of the records.                     *)
(***************************************************************************)
LEMMA HighestGateType ==
    ASSUME NEW G \in SUBSET Gates
    PROVE  HighestGate(G) \in 0..4
<1>1. CASE G = {}
  BY <1>1 DEF HighestGate
<1>2. CASE G # {}
  <2>1. \A g \in G : g \in {1, 2, 3, 4}
    BY DEF Gates
  <2>2. \E g \in G : \A h \in G : h <= g
    <3>1. CASE 4 \in G
      BY <2>1, <3>1
    <3>2. CASE 4 \notin G /\ 3 \in G
      BY <2>1, <3>2
    <3>3. CASE 4 \notin G /\ 3 \notin G /\ 2 \in G
      BY <2>1, <3>3
    <3>4. CASE 4 \notin G /\ 3 \notin G /\ 2 \notin G
      BY <1>2, <2>1, <3>4
    <3> QED BY <3>1, <3>2, <3>3, <3>4
  <2>3. HighestGate(G) \in G
    BY <1>2, <2>2 DEF HighestGate
  <2> QED BY <2>1, <2>3
<1> QED BY <1>1, <1>2

LEMMA EntryGateType ==
    ASSUME NEW s \in 4..9
    PROVE  ENTRY_GATE_MAP[s] \in Gates
BY DEF ENTRY_GATE_MAP, Gates

LEMMA PassedType ==
    ASSUME NEW s \in Phases
    PROVE  PassedAt(s) \in SUBSET Gates
BY EntryGateType DEF PassedAt, Phases, Gates

LEMMA TreeType ==
    ASSUME NEW i \in 1..22
    PROVE  TreeAt(i) \in StateFile
<1> DEFINE s == 1 + (i \div 3)
<1>1. s \in Phases
  BY DEF Phases
<1>2. HighestGate(PassedAt(s)) \in 0..4
  BY <1>1, PassedType, HighestGateType
<1>3. \A k \in 1..8 : HandoverId(k) \in Nat /\ CheckpointId(k) - 1 \in Nat
  BY DEF HandoverId, CheckpointId
<1>4. (s > 1) \in BOOLEAN
  OBVIOUS
<1>5. [k \in 1..8 |->
        IF i >= RecordId(k) THEN HandoverId(k)
        ELSE IF k <= 2 /\ i >= CheckpointId(k) THEN CheckpointId(k) - 1 ELSE 0]
            \in [1..8 -> Nat]
  BY <1>3
<1>6. [m \in Milestones |-> 0] \in [Milestones -> Nat]
  OBVIOUS
<1> HIDE DEF s
<1> QED BY <1>1, <1>2, <1>4, <1>5, <1>6 DEF TreeAt, StateFile, LastCommands, s

LEMMA StartTreeType == StartTree \in StateFile /\ StartId \in 1..22
<1>1. StartId \in 1..22
  BY StartAssumption DEF StartId
<1> QED BY <1>1, TreeType DEF StartTree

LEMMA IdleLocType == IdleLoc \in LocRec
<1>1. StartPhase \in Phases
  BY StartAssumption DEF Phases
<1>2. "none" \in LastCommands
  BY DEF LastCommands
<1> QED BY <1>1, <1>2, StartTreeType DEF IdleLoc, LocRec

LEMMA StartHistoryType == StartHistory \in Seq(CommitRec) /\ Len(StartHistory) > 0
<1>1. ASSUME NEW i \in 1..StartId
      PROVE  [id |-> i, subject |-> StartSubject(i), n |-> (i + 1) \div 3,
              tree |-> TreeAt(i)] \in CommitRec
  <2>1. i \in 1..22
    BY StartTreeType
  <2>2. StartSubject(i) \in Subjects
    BY <2>1 DEF StartSubject, Subjects
  <2>3. (i + 1) \div 3 \in 0..9
    BY <2>1
  <2> QED BY <2>1, <2>2, <2>3, TreeType DEF CommitRec
<1> QED BY <1>1, StartTreeType DEF StartHistory

LEMMA InitType == Init => TypeOK
<1> SUFFICES ASSUME Init PROVE TypeOK
  OBVIOUS
<1>1. st \in StateFile /\ index \in StateFile
  BY StartTreeType DEF Init, StoreInit
<1>2. hand \in Phases /\ gates \subseteq Gates
  BY StartAssumption, PassedType DEF Init, StoreInit, Phases
<1>3. hist \in Seq(CommitRec) /\ Len(hist) > 0
  BY StartHistoryType DEF Init, StoreInit
<1>4. newest \in Nat /\ remote \in Nat /\ lock \in Procs \cup {NoProc}
  BY StartTreeType DEF Init, StoreInit
<1>5. pc \in [Procs -> Labels] /\ loc \in [Procs -> LocRec] /\ rc \in [Procs -> ExitCodes]
  BY IdleLocType DEF Init, StoreInit, Labels, ExitCodes
<1>6. used \in [runs : Nat, faults : Nat, crashes : Nat, rewrites : Nat]
  BY DEF Init, StoreInit
<1> QED BY <1>1, <1>2, <1>3, <1>4, <1>5, <1>6 DEF TypeOK

-----------------------------------------------------------------------------
(***************************************************************************)
(* What the building blocks of the actions preserve: git's commit, the     *)
(* control operators, and a write to one or several fields of a process's  *)
(* memory or of state.json.                                                *)
(***************************************************************************)
LEMMA TipType ==
    ASSUME TypeOK
    PROVE  Tip \in CommitRec /\ Tip.id \in Nat /\ Tip.tree \in StateFile
<1>1. Tip \in CommitRec
  BY DEF TypeOK, Tip
<1> QED BY <1>1 DEF CommitRec

LEMMA GitCommitType ==
    ASSUME TypeOK, NEW subject \in Subjects, NEW n \in 0..9, GitCommit(subject, n)
    PROVE  newest' \in Nat /\ hist' \in Seq(CommitRec) /\ Len(hist') > 0
<1>1. [id |-> newest + 1, subject |-> subject, n |-> n, tree |-> index] \in CommitRec
  BY DEF TypeOK, CommitRec
<1> QED BY <1>1 DEF TypeOK, GitCommit

LEMMA ExitType ==
    ASSUME TypeOK, NEW p \in Procs, NEW code \in ExitCodes, Exit(p, code)
    PROVE  pc' \in [Procs -> Labels] /\ loc' \in [Procs -> LocRec] /\ rc' \in [Procs -> ExitCodes]
BY IdleLocType DEF TypeOK, Exit, Labels

LEMMA GotoType ==
    ASSUME TypeOK, NEW p \in Procs, NEW label \in Labels, Goto(p, label)
    PROVE  pc' \in [Procs -> Labels]
BY DEF TypeOK, Goto

LEMMA FaultType ==
    ASSUME TypeOK, Fault
    PROVE  used' \in [runs : Nat, faults : Nat, crashes : Nat, rewrites : Nat]
BY DEF TypeOK, Fault

LEMMA StartType ==
    ASSUME TypeOK, NEW p \in Procs, NEW cmd, Start(p, cmd)
    PROVE  /\ used' \in [runs : Nat, faults : Nat, crashes : Nat, rewrites : Nat]
           /\ rc' \in [Procs -> ExitCodes]
BY DEF TypeOK, Start, ExitCodes

LEMMA LocType ==
    ASSUME TypeOK, NEW p \in Procs
    PROVE  /\ loc[p] \in LocRec
           /\ loc[p].n \in 0..8
           /\ loc[p].seen \in StateFile
           /\ loc[p].snap \in StateFile
           /\ loc[p].snapHand \in Phases
           /\ loc[p].snapGates \subseteq Gates
           /\ loc[p].top \in 0..4
           /\ loc[p].sha \in Nat
           /\ loc[p].old \in Nat
           /\ loc[p].cmd0 \in LastCommands
           /\ loc[p].m \in LastCommands
<1>1. loc[p] \in LocRec
  BY DEF TypeOK
<1> QED BY <1>1 DEF LocRec

LEMMA NextPhaseType ==
    ASSUME TypeOK, NEW p \in Procs
    PROVE  loc[p].n + 1 \in Phases
BY LocType DEF Phases

LEMMA CompletedType ==
    ASSUME NEW s \in StateFile, NEW n, NEW sha \in Nat
    PROVE  /\ [s EXCEPT !.completed[n] = sha] \in StateFile
           /\ [s EXCEPT !.completed[n] = sha, !.heals = @ + 1] \in StateFile
           /\ n \in 1..8 => s.completed[n] \in Nat
<1>1. s.completed \in [1..8 -> Nat] /\ s.heals + 1 \in Nat
  BY DEF StateFile
<1>2. [s.completed EXCEPT ![n] = sha] \in [1..8 -> Nat]
  BY <1>1
<1>3. ASSUME NEW f \in [1..8 -> Nat], NEW h \in Nat
      PROVE  /\ [s EXCEPT !.completed = f] \in StateFile
             /\ [s EXCEPT !.completed = f, !.heals = h] \in StateFile
  BY DEF StateFile
<1> QED BY <1>1, <1>2, <1>3

LEMMA LocWrite ==
    ASSUME TypeOK, NEW p \in Procs, NEW r \in LocRec
    PROVE  [loc EXCEPT ![p] = r] \in [Procs -> LocRec]
BY DEF TypeOK

LEMMA LocPhase ==
    ASSUME NEW l \in LocRec, NEW cmd \in Commands, NEW n \in 0..8
    PROVE  [l EXCEPT !.cmd = cmd, !.n = n] \in LocRec
BY DEF LocRec

LEMMA LocMilestone ==
    ASSUME NEW l \in LocRec, NEW cmd \in Commands, NEW m \in LastCommands
    PROVE  [l EXCEPT !.cmd = cmd, !.m = m] \in LocRec
BY DEF LocRec

LEMMA LocCheckpoint ==
    ASSUME NEW l \in LocRec, NEW cmd \in Commands, NEW n \in 0..8, NEW sha \in Nat
    PROVE  [l EXCEPT !.cmd = cmd, !.n = n, !.sha = sha] \in LocRec
BY DEF LocRec

LEMMA LocSeen ==
    ASSUME NEW l \in LocRec, NEW s \in StateFile
    PROVE  [l EXCEPT !.seen = s] \in LocRec
BY DEF LocRec

LEMMA LocSha ==
    ASSUME NEW l \in LocRec, NEW sha \in Nat, NEW old \in Nat
    PROVE  /\ [l EXCEPT !.sha = sha] \in LocRec
           /\ [l EXCEPT !.old = old, !.sha = sha] \in LocRec
BY DEF LocRec

LEMMA LocDecision ==
    ASSUME NEW l \in LocRec, NEW again \in BOOLEAN, NEW top \in 0..4
    PROVE  [l EXCEPT !.again = again, !.top = top] \in LocRec
BY DEF LocRec

LEMMA LocCapture ==
    ASSUME NEW l \in LocRec, NEW s \in StateFile, NEW h \in Phases, NEW G \in SUBSET Gates
    PROVE  [l EXCEPT !.snap = s, !.snapHand = h, !.snapGates = G] \in LocRec
BY DEF LocRec

LEMMA LocHandover ==
    ASSUME NEW l \in LocRec, NEW h \in Phases
    PROVE  [l EXCEPT !.snapHand = h] \in LocRec
BY DEF LocRec

LEMMA LocAudit ==
    ASSUME NEW l \in LocRec, NEW c \in LastCommands, NEW old \in Nat
    PROVE  [l EXCEPT !.wrote = TRUE, !.cmd0 = c, !.old = old] \in LocRec
BY DEF LocRec

-----------------------------------------------------------------------------
(***************************************************************************)
(* Every step of advance-phase keeps the types; a leaf per action, and a   *)
(* step of its own for each value the action computes.                     *)
(***************************************************************************)
LEMMA AdvanceStepType ==
    ASSUME TypeOK, ControlOK, NEW p \in Procs, Advance(p)
    PROVE  TypeOK'
<1> USE DEF repo
<1>1. ASSUME NEW n \in 1..8, AdvanceStart(p, n) PROVE TypeOK'
  <2>1. loc' \in [Procs -> LocRec]
    <3>1. [loc[p] EXCEPT !.cmd = "advance", !.n = n] \in LocRec
      <4>1. n \in 0..8 /\ "advance" \in Commands
        BY <1>1 DEF Commands
      <4> QED BY <4>1, LocType, LocPhase
    <3> QED BY <1>1, <3>1, LocWrite DEF AdvanceStart, TypeOK
  <2> QED BY <1>1, <2>1, StartType, GotoType DEF AdvanceStart, TypeOK, Labels, AdvanceLabels
<1>2. CASE AdvanceRead(p)
  <2>1. loc' \in [Procs -> LocRec]
    BY <1>2, LocType, LocSeen, LocWrite DEF AdvanceRead, TypeOK
  <2> QED BY <1>2, <2>1, GotoType DEF AdvanceRead, TypeOK, Labels, AdvanceLabels
<1>3. CASE AdvanceCheck(p)
  <2>1. CASE Exit(p, EX_SKIP_ATTEMPT) \/ Exit(p, EX_TRUTH_MISSING)
    BY <1>3, <2>1, ExitType DEF AdvanceCheck, TypeOK, ExitCodes
  <2>2. CASE /\ Goto(p, "entry")
             /\ loc' = [loc EXCEPT ![p].again = loc[p].seen.phase > loc[p].n,
                                   ![p].top = HighestGate(gates \ {1})]
             /\ UNCHANGED rc
    <3>1. HighestGate(gates \ {1}) \in 0..4
      BY gates \ {1} \in SUBSET Gates, HighestGateType DEF TypeOK
    <3>2. (loc[p].seen.phase > loc[p].n) \in BOOLEAN
      OBVIOUS
    <3>3. loc' \in [Procs -> LocRec]
      BY <2>2, <3>1, <3>2, LocType, LocDecision, LocWrite
    <3> QED BY <1>3, <2>2, <3>3, GotoType DEF AdvanceCheck, TypeOK, Labels, AdvanceLabels
  <2> QED BY <1>3, <2>1, <2>2 DEF AdvanceCheck
<1>5. CASE AdvanceEntryGate(p)
  <2>0. used' \in [runs : Nat, faults : Nat, crashes : Nat, rewrites : Nat]
    BY <1>5, FaultType DEF AdvanceEntryGate, TypeOK
  <2>1. CASE Exit(p, EX_OK) \/ Exit(p, EX_ENTRY_GATE)
    BY <1>5, <2>0, <2>1, ExitType DEF AdvanceEntryGate, TypeOK, ExitCodes
  <2>2. CASE Goto(p, "capture") /\ UNCHANGED <<loc, rc>>
    BY <1>5, <2>0, <2>2, GotoType DEF AdvanceEntryGate, TypeOK, Labels, AdvanceLabels
  <2>3. ASSUME NEW i \in Marked(loc[p].n), Dangling(loc[p].n),
               Goto(p, "heal"), UNCHANGED rc,
               loc' = [loc EXCEPT ![p].old = st.completed[loc[p].n], ![p].sha = hist[i].id]
        PROVE  TypeOK'
    <3>1. hist[i].id \in Nat
      <4>1. hist[i] \in CommitRec
        BY <2>3 DEF TypeOK, Marked
      <4> QED BY <4>1 DEF CommitRec
    <3>2. st.completed[loc[p].n] \in Nat
      <4>1. loc[p].n \in 1..8
        BY <1>5 DEF ControlOK, AdvanceEntryGate, AdvanceLabels
      <4> QED BY <4>1 DEF TypeOK, StateFile
    <3>3. loc' \in [Procs -> LocRec]
      BY <2>3, <3>1, <3>2, LocType, LocSha, LocWrite
    <3> QED BY <1>5, <2>0, <2>3, <3>3, GotoType DEF AdvanceEntryGate, TypeOK, Labels, AdvanceLabels
  <2>4. CASE RecordAccepted(loc[p].n, loc[p].again) /\ EntryPassed(p)
    BY <2>1, <2>2, <2>4 DEF EntryPassed
  <2> QED BY <1>5, <2>1, <2>3, <2>4 DEF AdvanceEntryGate
<1>6. CASE AdvanceHeal(p)
  <2>1. st' \in StateFile
    <3>1. CASE UNCHANGED st
      BY <3>1 DEF TypeOK
    <3>2. CASE st' = [st EXCEPT !.completed[loc[p].n] = loc[p].sha, !.heals = @ + 1]
      BY <3>2, CompletedType, LocType DEF TypeOK
    <3> QED BY <1>6, <3>1, <3>2 DEF AdvanceHeal
  <2>0. used' \in [runs : Nat, faults : Nat, crashes : Nat, rewrites : Nat]
    BY <1>6, FaultType DEF AdvanceHeal, TypeOK
  <2>2. CASE Exit(p, EX_OK) \/ Exit(p, EX_ENTRY_GATE)
    BY <1>6, <2>0, <2>1, <2>2, ExitType DEF AdvanceHeal, TypeOK, ExitCodes
  <2>3. CASE Goto(p, "capture") /\ UNCHANGED <<loc, rc>>
    BY <1>6, <2>0, <2>1, <2>3, GotoType DEF AdvanceHeal, TypeOK, Labels, AdvanceLabels
  <2> QED BY <1>6, <2>2, <2>3 DEF AdvanceHeal, EntryPassed
<1>7. CASE AdvanceCapture(p)
  <2>1. loc' \in [Procs -> LocRec]
    BY <1>7, LocType, LocCapture, LocWrite DEF AdvanceCapture, TypeOK
  <2> QED BY <1>7, <2>1, GotoType DEF AdvanceCapture, TypeOK, Labels, AdvanceLabels
<1>8. CASE AdvanceFsmStage(p)
  <2>1. Merged(st, loc[p].n, loc[p].top) \in StateFile
    BY LocType, NextPhaseType DEF TypeOK, Merged, StateFile, LastCommands
  <2>2. loc' \in [Procs -> LocRec]
    BY <1>8, <2>1, LocType, LocSeen, LocWrite DEF AdvanceFsmStage
  <2> QED BY <1>8, <2>2, NextPhaseType, GotoType DEF AdvanceFsmStage, TypeOK, Labels, AdvanceLabels
<1>12. CASE AdvanceHeader(p)
  BY <1>12, NextPhaseType, GotoType DEF AdvanceHeader, TypeOK, Labels, AdvanceLabels
<1>14. CASE AdvanceCommit(p)
  <2>1. loc[p].n \in 0..9 /\ "handover" \in Subjects
    BY LocType DEF Subjects
  <2>2. newest' \in Nat /\ hist' \in Seq(CommitRec) /\ Len(hist') > 0
    BY <1>14, <2>1, GitCommitType DEF AdvanceCommit, TypeOK
  <2> QED BY <1>14, <2>2, GotoType, FaultType DEF AdvanceCommit, TypeOK, Labels, AdvanceLabels
<1>17. CASE AdvanceParse(p)
  <2>1. loc' \in [Procs -> LocRec]
    BY <1>17, LocType, TipType, LocSha, LocWrite DEF AdvanceParse
  <2> QED BY <1>17, <2>1, GotoType DEF AdvanceParse, TypeOK, Labels, AdvanceLabels
<1>18. CASE AdvanceRecord(p)
  <2>1. st' \in StateFile
    <3>1. CASE UNCHANGED st
      BY <3>1 DEF TypeOK
    <3>2. CASE st' = [st EXCEPT !.completed[loc[p].n] = loc[p].sha]
      BY <3>2, CompletedType, LocType DEF TypeOK
    <3> QED BY <1>18, <3>1, <3>2 DEF AdvanceRecord
  <2> QED BY <1>18, <2>1, GotoType, FaultType DEF AdvanceRecord, TypeOK, Labels, AdvanceLabels
<1>20. CASE AdvanceRecordCommit(p)
  <2>1. loc[p].n \in 0..9 /\ "record" \in Subjects
    BY LocType DEF Subjects
  <2>2. newest' \in Nat /\ hist' \in Seq(CommitRec) /\ Len(hist') > 0
    BY <1>20, <2>1, GitCommitType DEF AdvanceRecordCommit, TypeOK
  <2> QED BY <1>20, <2>2, GotoType, FaultType DEF AdvanceRecordCommit, TypeOK, Labels, AdvanceLabels
<1>4. CASE AdvancePrecheckFails(p)
  BY <1>4, LocType, TipType, ExitType, GotoType, FaultType
  DEF AdvancePrecheckFails, TypeOK, Labels, AdvanceLabels, ExitCodes
<1>9. CASE AdvanceFsmPublish(p)
  BY <1>9, LocType, TipType, ExitType, GotoType, FaultType
  DEF AdvanceFsmPublish, TypeOK, Labels, AdvanceLabels, ExitCodes
<1>10. CASE AdvanceFsmProgress(p)
  BY <1>10, LocType, TipType, ExitType, GotoType, FaultType
  DEF AdvanceFsmProgress, TypeOK, Labels, AdvanceLabels, ExitCodes
<1>11. CASE AdvanceManifest(p)
  BY <1>11, LocType, TipType, ExitType, GotoType, FaultType
  DEF AdvanceManifest, TypeOK, Labels, AdvanceLabels, ExitCodes
<1>13. CASE AdvanceAdd(p)
  BY <1>13, LocType, TipType, ExitType, GotoType, FaultType
  DEF AdvanceAdd, TypeOK, Labels, AdvanceLabels, ExitCodes
<1>15. CASE AdvanceRestore(p)
  BY <1>15, LocType, TipType, ExitType, GotoType, FaultType
  DEF AdvanceRestore, TypeOK, Labels, AdvanceLabels, ExitCodes
<1>16. CASE AdvanceRestoreRest(p)
  BY <1>16, LocType, TipType, ExitType, GotoType, FaultType
  DEF AdvanceRestoreRest, TypeOK, Labels, AdvanceLabels, ExitCodes
<1>19. CASE AdvanceRecordAdd(p)
  BY <1>19, LocType, TipType, ExitType, GotoType, FaultType
  DEF AdvanceRecordAdd, TypeOK, Labels, AdvanceLabels, ExitCodes
<1>21. CASE AdvancePublish(p)
  BY <1>21, LocType, TipType, ExitType, GotoType, FaultType
  DEF AdvancePublish, TypeOK, Labels, AdvanceLabels, ExitCodes
<1>22. CASE AdvanceReadBack(p)
  BY <1>22, LocType, TipType, ExitType, GotoType, FaultType
  DEF AdvanceReadBack, TypeOK, Labels, AdvanceLabels, ExitCodes
<1> QED
  BY <1>1, <1>2, <1>3, <1>4, <1>5, <1>6, <1>7, <1>8, <1>9, <1>10, <1>11, <1>12, <1>13, <1>14, <1>15, <1>16, <1>17, <1>18, <1>19, <1>20, <1>21, <1>22 DEF Advance

-----------------------------------------------------------------------------
(***************************************************************************)
(* The same for push-checkpoint, push-milestone and finalize-gate, and for *)
(* the environment.                                                        *)
(***************************************************************************)
LEMMA CommandType ==
    ASSUME NEW s \in StateFile, NEW c \in LastCommands
    PROVE  [s EXCEPT !.command = c] \in StateFile
BY DEF StateFile

LEMMA HeadType ==
    ASSUME NEW s \in StateFile, NEW m, NEW sha \in Nat
    PROVE  [s EXCEPT !.head[m] = sha] \in StateFile
<1>1. s.head \in [Milestones -> Nat]
  BY DEF StateFile
<1>2. [s.head EXCEPT ![m] = sha] \in [Milestones -> Nat]
  BY <1>1
<1>3. ASSUME NEW f \in [Milestones -> Nat]
      PROVE  [s EXCEPT !.head = f] \in StateFile
  BY DEF StateFile
<1> QED BY <1>2, <1>3

LEMMA GateStateType ==
    ASSUME NEW s \in StateFile, NEW g \in 0..4, NEW b \in BOOLEAN
    PROVE  [s EXCEPT !.last_gate = g, !.truth = b] \in StateFile
BY DEF StateFile

LEMMA CommandKnown ==
    ASSUME TypeOK, ControlOK, NEW p \in Procs, pc[p] \in PushLabels
    PROVE  /\ loc[p].cmd \in {"checkpoint", "milestone", "finalize"}
           /\ loc[p].cmd = "milestone" => loc[p].m \in Milestones
           /\ loc[p].cmd = "checkpoint" => loc[p].n \in 1..8
           /\ loc[p].cmd = "finalize" => loc[p].n \in Gates
BY DEF ControlOK

LEMMA AuditedType ==
    ASSUME TypeOK, ControlOK, NEW p \in Procs, pc[p] \in PushLabels
    PROVE  Audited(loc[p]) \in StateFile
<1>1. CASE loc[p].cmd = "checkpoint"
  BY <1>1, LocType, CompletedType DEF Audited, TypeOK
<1>2. CASE loc[p].cmd = "milestone"
  BY <1>2, LocType, CommandType DEF Audited, TypeOK
<1>3. CASE loc[p].cmd = "finalize"
  BY <1>3, CommandType DEF Audited, TypeOK, LastCommands
<1> QED BY <1>1, <1>2, <1>3, CommandKnown

LEMMA UnauditedType ==
    ASSUME TypeOK, NEW p \in Procs
    PROVE  Unaudited(loc[p]) \in StateFile
BY LocType, CompletedType, CommandType DEF Unaudited, TypeOK

LEMMA HandoverType ==
    ASSUME TypeOK, ControlOK, NEW p \in Procs, pc[p] \in PushLabels
    PROVE  HandoverPhase(loc[p]) \in Phases
<1>1. CASE loc[p].cmd = "checkpoint"
  BY <1>1, CommandKnown DEF HandoverPhase, Phases
<1>2. CASE loc[p].cmd = "milestone"
  BY <1>2, CommandKnown, MilestoneAssumption DEF HandoverPhase
<1>3. CASE loc[p].cmd = "finalize"
  BY <1>3, CommandKnown DEF HandoverPhase, Phases, Gates
<1> QED BY <1>1, <1>2, <1>3, CommandKnown

LEMMA PushStepType ==
    ASSUME TypeOK, ControlOK, NEW p \in Procs, Push(p)
    PROVE  TypeOK'
<1> USE DEF repo
<1>1. ASSUME NEW k \in {1, 2}, CheckpointStart(p, k) PROVE TypeOK'
  <2>1. [loc[p] EXCEPT !.cmd = "checkpoint", !.n = k, !.sha = Tip.id] \in LocRec
    <3>1. k \in 0..8 /\ "checkpoint" \in Commands
      BY <1>1 DEF Commands
    <3> QED BY <3>1, TipType, LocType, LocCheckpoint
  <2>2. loc' \in [Procs -> LocRec]
    BY <1>1, <2>1, LocWrite DEF CheckpointStart, TypeOK
  <2> QED BY <1>1, <2>2, StartType, GotoType DEF CheckpointStart, TypeOK, Labels, PushLabels
<1>2. ASSUME NEW m \in Milestones, MilestoneStart(p, m) PROVE TypeOK'
  <2>1. [loc[p] EXCEPT !.cmd = "milestone", !.m = m] \in LocRec
    BY <1>2, LocType, LocMilestone DEF Commands, LastCommands
  <2>2. loc' \in [Procs -> LocRec]
    BY <1>2, <2>1, LocWrite DEF MilestoneStart, TypeOK
  <2> QED BY <1>2, <2>2, StartType, GotoType DEF MilestoneStart, TypeOK, Labels, PushLabels
<1>3. ASSUME NEW g \in Gates, GateStart(p, g) PROVE TypeOK'
  <2>1. [loc[p] EXCEPT !.cmd = "finalize", !.n = g] \in LocRec
    <3>1. g \in 0..8 /\ "finalize" \in Commands
      BY <1>3 DEF Commands, Gates
    <3> QED BY <3>1, LocType, LocPhase
  <2>2. loc' \in [Procs -> LocRec]
    BY <1>3, <2>1, LocWrite DEF GateStart, TypeOK
  <2> QED BY <1>3, <2>2, StartType, GotoType DEF GateStart, TypeOK, Labels, GateLabels
<1>4. CASE MilestoneEvidence(p)
  BY <1>4, ExitType, GotoType DEF MilestoneEvidence, TypeOK, Labels, PushLabels, ExitCodes
<1>5. CASE GateVerdict(p)
  <2>1. loc[p].n \in Gates
    BY <1>5 DEF GateVerdict, ControlOK, GateLabels
  <2>2. gates' \subseteq Gates
    BY <1>5, <2>1 DEF GateVerdict, TypeOK
  <2> QED BY <1>5, <2>2, ExitType, GotoType DEF GateVerdict, TypeOK, Labels, GateLabels, ExitCodes
<1>6. CASE GateState(p)
  <2>1. loc[p].n \in Gates
    BY <1>6 DEF GateState, ControlOK, GateLabels
  <2>2. CASE Fault /\ Goto(p, "gate_refused") /\ UNCHANGED st
    BY <1>6, <2>2, FaultType, GotoType DEF GateState, TypeOK, Labels, GateLabels
  <2>3. CASE /\ st' = [st EXCEPT !.last_gate = loc[p].n,
                          !.truth = @ \/ (st.phase \in ExitGatePhases
                                          /\ EXIT_GATE_MAP[st.phase] = loc[p].n)]
             /\ Goto(p, IF loc[p].n = 4 THEN "audit" ELSE "stage")
             /\ UNCHANGED used
    <3> DEFINE b == st.truth \/ (st.phase \in ExitGatePhases
                                 /\ EXIT_GATE_MAP[st.phase] = loc[p].n)
    <3>1. b \in BOOLEAN
      OBVIOUS
    <3>2. loc[p].n \in 0..4
      BY <2>1 DEF Gates
    <3>3. st' \in StateFile
      <4> HIDE DEF b
      <4> QED BY <2>3, <3>1, <3>2, GateStateType DEF TypeOK, b
    <3>4. pc' \in [Procs -> Labels]
      BY <2>3, GotoType DEF Labels, PushLabels
    <3> QED BY <1>6, <2>3, <3>3, <3>4 DEF GateState, TypeOK
  <2> QED BY <1>6, <2>2, <2>3 DEF GateState
<1>7. CASE PushAudit(p)
  <2>1. pc[p] \in PushLabels
    BY <1>7 DEF PushAudit, PushLabels
  <2>2. pc' \in [Procs -> Labels]
    BY <1>7, GotoType DEF PushAudit, Labels, PushLabels
  <2>3. CASE Fault /\ UNCHANGED <<st, loc>>
    BY <1>7, <2>2, <2>3, FaultType DEF PushAudit, TypeOK
  <2>4. CASE /\ st' = Audited(loc[p])
             /\ loc' = [loc EXCEPT ![p].wrote = TRUE, ![p].cmd0 = st.command,
                   ![p].old = IF loc[p].cmd = "checkpoint" THEN st.completed[loc[p].n] ELSE 0]
             /\ UNCHANGED used
    <3> DEFINE old == IF loc[p].cmd = "checkpoint" THEN st.completed[loc[p].n] ELSE 0
    <3>1. old \in Nat
      BY <2>1, CommandKnown, CompletedType DEF TypeOK
    <3>2. st.command \in LastCommands
      BY DEF TypeOK, StateFile
    <3> HIDE DEF old
    <3>3. [loc[p] EXCEPT !.wrote = TRUE, !.cmd0 = st.command, !.old = old] \in LocRec
      BY <3>1, <3>2, LocType, LocAudit
    <3>4. loc' \in [Procs -> LocRec]
      BY <2>4, <3>3, LocWrite DEF TypeOK, old
    <3> QED BY <1>7, <2>1, <2>2, <2>4, <3>4, AuditedType DEF PushAudit, TypeOK
  <2> QED BY <1>7, <2>3, <2>4 DEF PushAudit
<1>8. CASE MilestoneValidate(p)
  BY <1>8, FaultType, GotoType DEF MilestoneValidate, TypeOK, Labels, PushLabels
<1>9. CASE PushStage(p)
  <2>1. pc[p] \in PushLabels
    BY <1>9 DEF PushStage, PushLabels
  <2>2. loc' \in [Procs -> LocRec]
    BY <1>9, LocType, LocHandover, LocWrite DEF PushStage, TypeOK
  <2>3. hand' \in Phases
    BY <1>9, <2>1, HandoverType DEF PushStage, TypeOK
  <2>4. pc' \in [Procs -> Labels]
    BY <1>9, GotoType DEF PushStage, Labels, PushLabels
  <2> QED BY <1>9, <2>2, <2>3, <2>4 DEF PushStage, TypeOK
<1>10. CASE PushCommit(p)
  <2>1. pc[p] \in PushLabels
    BY <1>10 DEF PushCommit, PushLabels
  <2>2. CommitSubject(loc[p]) \in Subjects
    BY <2>1, CommandKnown DEF CommitSubject, Subjects
  <2>3. CASE /\ GitCommit(CommitSubject(loc[p]), loc[p].n)
             /\ IF Publishes(loc[p])
                THEN Goto(p, "push") /\ UNCHANGED <<loc, rc>>
                ELSE Exit(p, EX_OK)
             /\ UNCHANGED used
    <3>1. newest' \in Nat /\ hist' \in Seq(CommitRec) /\ Len(hist') > 0
      BY <2>2, <2>3, LocType, GitCommitType
    <3>2. CASE Goto(p, "push") /\ UNCHANGED <<loc, rc>>
      BY <1>10, <2>3, <3>1, <3>2, GotoType DEF PushCommit, TypeOK, Labels, PushLabels
    <3>3. CASE Exit(p, EX_OK)
      BY <1>10, <2>3, <3>1, <3>3, ExitType DEF PushCommit, TypeOK, ExitCodes
    <3> QED BY <2>3, <3>2, <3>3
  <2>4. CASE /\ Fault
             /\ Goto(p, IF Publishes(loc[p]) THEN "abandon" ELSE "unverdict")
             /\ UNCHANGED <<hist, newest, loc, rc>>
    BY <1>10, <2>4, FaultType, GotoType DEF PushCommit, TypeOK, Labels, PushLabels, GateLabels
  <2>5. CASE index = Tip.tree /\ UNCHANGED <<hist, newest, loc, rc, used>>
                /\ Goto(p, "push")
    BY <1>10, <2>5, GotoType DEF PushCommit, TypeOK, Labels, PushLabels
  <2> QED BY <1>10, <2>3, <2>4, <2>5 DEF PushCommit
<1>11. CASE GitPush(p)
  BY <1>11, TipType, FaultType, ExitType, GotoType DEF GitPush, TypeOK, Labels, PushLabels, ExitCodes
<1>12. CASE PushAbandon(p)
  BY <1>12, LocType, GotoType, FaultType DEF PushAbandon, TypeOK, Labels, PushLabels, GateLabels
<1>13. CASE PushRevert(p)
  BY <1>13, UnauditedType, ExitType, FaultType DEF PushRevert, TypeOK, ExitCodes
<1>14. CASE MilestoneParse(p)
  <2>1. loc' \in [Procs -> LocRec]
    BY <1>14, LocType, TipType, LocSha, LocWrite DEF MilestoneParse, TypeOK
  <2> QED BY <1>14, <2>1, GotoType DEF MilestoneParse, TypeOK, Labels, PushLabels
<1>15. CASE MilestoneHead(p)
  <2>1. [st EXCEPT !.head[loc[p].m] = loc[p].sha] \in StateFile
    BY LocType, HeadType DEF TypeOK
  <2>2. st' \in StateFile
    BY <1>15, <2>1 DEF MilestoneHead, TypeOK
  <2> QED BY <1>15, <2>2, ExitType, FaultType DEF MilestoneHead, TypeOK, ExitCodes
<1>16. CASE GateUnverdict(p)
  BY <1>16, FaultType, ExitType, GotoType DEF GateUnverdict, TypeOK, Labels, PushLabels, ExitCodes
<1> QED
  BY <1>1, <1>2, <1>3, <1>4, <1>5, <1>6, <1>7, <1>8, <1>9, <1>10, <1>11, <1>12, <1>13,
     <1>14, <1>15, <1>16 DEF Push

LEMMA RewriteType ==
    ASSUME TypeOK, OperatorRewrite
    PROVE  TypeOK'
<1>1. PICK back \in {1, 2} :
         LET kept == Len(hist) - back IN
         /\ kept > 0
         /\ \/ /\ hist' = SubSeq(hist, 1, kept)
               /\ index' = hist[kept].tree
               /\ UNCHANGED newest
            \/ /\ hist' = [i \in 1..Len(hist) |->
                    IF i <= kept THEN hist[i]
                    ELSE [hist[i] EXCEPT !.id = newest + i - kept]]
               /\ newest' = newest + back
               /\ UNCHANGED index
  BY DEF OperatorRewrite
<1> DEFINE kept == Len(hist) - back
<1>2. kept \in 1..Len(hist) /\ Len(hist) \in Nat /\ newest \in Nat
  BY <1>1 DEF TypeOK
<1>3. \A i \in 1..Len(hist) : hist[i] \in CommitRec
  BY DEF TypeOK
<1>4. used' \in [runs : Nat, faults : Nat, crashes : Nat, rewrites : Nat]
  BY DEF OperatorRewrite, TypeOK
<1>5. CASE hist' = SubSeq(hist, 1, kept) /\ index' = hist[kept].tree /\ UNCHANGED newest
  <2>1. hist' \in Seq(CommitRec) /\ Len(hist') > 0
    BY <1>2, <1>5 DEF TypeOK
  <2>2. hist[kept].tree \in StateFile
    BY <1>2, <1>3 DEF CommitRec
  <2> QED BY <1>4, <1>5, <2>1, <2>2 DEF OperatorRewrite, TypeOK
<1>6. CASE /\ hist' = [i \in 1..Len(hist) |->
                IF i <= kept THEN hist[i]
                ELSE [hist[i] EXCEPT !.id = newest + i - kept]]
           /\ newest' = newest + back
           /\ UNCHANGED index
  <2>1. ASSUME NEW i \in 1..Len(hist), i > kept
        PROVE  [hist[i] EXCEPT !.id = newest + i - kept] \in CommitRec
    <3>1. newest + i - kept \in Nat
      BY <1>2, <2>1
    <3> HIDE DEF kept
    <3> QED BY <1>3, <3>1 DEF CommitRec
  <2>2. \A i \in 1..Len(hist) :
           (IF i <= kept THEN hist[i]
            ELSE [hist[i] EXCEPT !.id = newest + i - kept]) \in CommitRec
    BY <1>2, <1>3, <2>1
  <2>3. hist' \in Seq(CommitRec) /\ Len(hist') > 0
    BY <1>2, <1>6, <2>2
  <2>4. newest' \in Nat
    BY <1>1, <1>2, <1>6
  <2> QED BY <1>4, <1>6, <2>3, <2>4 DEF OperatorRewrite, TypeOK
<1> QED BY <1>1, <1>5, <1>6

LEMMA CrashType ==
    ASSUME TypeOK, NEW p \in Procs, Crash(p)
    PROVE  TypeOK'
<1>1. used' \in [runs : Nat, faults : Nat, crashes : Nat, rewrites : Nat]
  <2>1. used' = [used EXCEPT !.crashes = @ + 1]
    BY DEF Crash
  <2> QED BY <2>1 DEF TypeOK
<1>2. lock' \in Procs \cup {NoProc}
  BY DEF Crash, TypeOK
<1> QED BY <1>1, <1>2, ExitType DEF Crash, TypeOK, ExitCodes, repo

-----------------------------------------------------------------------------
(***************************************************************************)
(* Which command a control point belongs to.                               *)
(***************************************************************************)
LEMMA ControlInit == Init => ControlOK
BY DEF Init, StoreInit, ControlOK, IdleLoc, AdvanceLabels, PushLabels, GateLabels

LEMMA ExitControl ==
    ASSUME TypeOK, ControlOK, NEW p \in Procs, NEW code, Exit(p, code)
    PROVE  ControlOK'
BY DEF Exit, IdleLoc, TypeOK, ControlOK, AdvanceLabels, PushLabels, GateLabels

LEMMA GotoControl ==
    ASSUME TypeOK, ControlOK, NEW p \in Procs, NEW label, Goto(p, label),
           label \in AdvanceLabels => loc[p].cmd = "advance",
           label \in PushLabels => loc[p].cmd \in {"checkpoint", "milestone", "finalize"},
           label \notin GateLabels,
           \A q \in Procs : /\ loc'[q].cmd = loc[q].cmd
                            /\ loc'[q].n = loc[q].n
                            /\ loc'[q].m = loc[q].m
    PROVE  ControlOK'
BY DEF Goto, TypeOK, ControlOK

LEMMA AdvanceControl ==
    ASSUME TypeOK, ControlOK, NEW p \in Procs, Advance(p)
    PROVE  ControlOK'
<1> USE DEF ControlOK, AdvanceLabels, PushLabels, GateLabels, Goto
<1>1. ASSUME NEW n \in 1..8, AdvanceStart(p, n) PROVE ControlOK'
  BY <1>1 DEF AdvanceStart, Start, TypeOK
<1>2. CASE AdvanceRead(p)
  BY <1>2 DEF AdvanceRead, TypeOK
<1>3. CASE AdvanceCheck(p)
  <2>1. CASE Exit(p, EX_SKIP_ATTEMPT) \/ Exit(p, EX_TRUTH_MISSING)
    BY <2>1, ExitControl
  <2>2. CASE /\ Goto(p, "entry")
             /\ loc' = [loc EXCEPT ![p].again = loc[p].seen.phase > loc[p].n,
                                   ![p].top = HighestGate(gates \ {1})]
    <3>1. \A q \in Procs : /\ loc'[q].cmd = loc[q].cmd
                           /\ loc'[q].n = loc[q].n
                           /\ loc'[q].m = loc[q].m
      BY <2>2, LocType DEF TypeOK, LocRec
    <3>2. loc[p].cmd = "advance"
      BY <1>3 DEF AdvanceCheck
    <3> DEFINE label == "entry"
    <3>3. label \in AdvanceLabels /\ label \notin PushLabels /\ label \notin GateLabels
      OBVIOUS
    <3>4. Goto(p, label)
      BY <2>2
    <3> HIDE DEF label, ControlOK, AdvanceLabels, PushLabels, GateLabels, Goto
    <3> QED BY <3>1, <3>2, <3>3, <3>4, GotoControl
  <2> QED BY <1>3, <2>1, <2>2 DEF AdvanceCheck
<1>4. CASE AdvancePrecheckFails(p)
  BY <1>4, ExitControl DEF AdvancePrecheckFails, TypeOK
<1>5. CASE AdvanceEntryGate(p)
  <2>1. CASE Exit(p, EX_OK) \/ Exit(p, EX_ENTRY_GATE)
    BY <2>1, ExitControl
  <2>2. CASE Goto(p, "capture") /\ UNCHANGED <<loc, rc>>
    BY <1>5, <2>2 DEF AdvanceEntryGate, TypeOK
  <2>3. ASSUME NEW i \in Marked(loc[p].n), Goto(p, "heal"),
               loc' = [loc EXCEPT ![p].old = st.completed[loc[p].n], ![p].sha = hist[i].id]
        PROVE  ControlOK'
    <3>1. \A q \in Procs : /\ loc'[q].cmd = loc[q].cmd
                           /\ loc'[q].n = loc[q].n
                           /\ loc'[q].m = loc[q].m
      BY <2>3, LocType DEF TypeOK, LocRec
    <3>2. loc[p].cmd = "advance"
      BY <1>5 DEF AdvanceEntryGate
    <3> DEFINE label == "heal"
    <3>3. label \in AdvanceLabels /\ label \notin PushLabels /\ label \notin GateLabels
      OBVIOUS
    <3>4. Goto(p, label)
      BY <2>3
    <3> HIDE DEF label, ControlOK, AdvanceLabels, PushLabels, GateLabels, Goto
    <3> QED BY <3>1, <3>2, <3>3, <3>4, GotoControl
  <2> QED BY <1>5, <2>1, <2>2, <2>3 DEF AdvanceEntryGate, EntryPassed
<1>6. CASE AdvanceHeal(p)
  BY <1>6, ExitControl DEF AdvanceHeal, TypeOK, EntryPassed
<1>7. CASE AdvanceCapture(p)
  BY <1>7 DEF AdvanceCapture, TypeOK
<1>8. CASE AdvanceFsmStage(p)
  BY <1>8 DEF AdvanceFsmStage, TypeOK
<1>9. CASE AdvanceFsmPublish(p)
  BY <1>9 DEF AdvanceFsmPublish, TypeOK
<1>10. CASE AdvanceFsmProgress(p)
  BY <1>10 DEF AdvanceFsmProgress, TypeOK
<1>11. CASE AdvanceManifest(p)
  BY <1>11, ExitControl DEF AdvanceManifest, TypeOK
<1>12. CASE AdvanceHeader(p)
  BY <1>12 DEF AdvanceHeader, TypeOK
<1>13. CASE AdvanceAdd(p)
  BY <1>13 DEF AdvanceAdd, TypeOK
<1>14. CASE AdvanceCommit(p)
  BY <1>14 DEF AdvanceCommit, TypeOK
<1>15. CASE AdvanceRestore(p)
  BY <1>15 DEF AdvanceRestore, TypeOK
<1>16. CASE AdvanceRestoreRest(p)
  BY <1>16, ExitControl DEF AdvanceRestoreRest, TypeOK
<1>17. CASE AdvanceParse(p)
  BY <1>17 DEF AdvanceParse, TypeOK
<1>18. CASE AdvanceRecord(p)
  BY <1>18 DEF AdvanceRecord, TypeOK
<1>19. CASE AdvanceRecordAdd(p)
  BY <1>19 DEF AdvanceRecordAdd, TypeOK
<1>20. CASE AdvanceRecordCommit(p)
  BY <1>20 DEF AdvanceRecordCommit, TypeOK
<1>21. CASE AdvancePublish(p)
  BY <1>21, ExitControl DEF AdvancePublish, TypeOK
<1>22. CASE AdvanceReadBack(p)
  BY <1>22, ExitControl DEF AdvanceReadBack, TypeOK
<1> QED
  BY <1>1, <1>2, <1>3, <1>4, <1>5, <1>6, <1>7, <1>8, <1>9, <1>10, <1>11, <1>12, <1>13, <1>14, <1>15, <1>16, <1>17, <1>18, <1>19, <1>20, <1>21, <1>22 DEF Advance

LEMMA PushControl ==
    ASSUME TypeOK, ControlOK, NEW p \in Procs, Push(p)
    PROVE  ControlOK'
<1> USE DEF ControlOK, AdvanceLabels, PushLabels, GateLabels, Goto
<1>1. ASSUME NEW k \in {1, 2}, CheckpointStart(p, k) PROVE ControlOK'
  BY <1>1 DEF CheckpointStart, Start, TypeOK
<1>2. ASSUME NEW m \in Milestones, MilestoneStart(p, m) PROVE ControlOK'
  BY <1>2 DEF MilestoneStart, Start, TypeOK
<1>3. ASSUME NEW g \in Gates, GateStart(p, g) PROVE ControlOK'
  BY <1>3 DEF GateStart, Start, TypeOK
<1>4. CASE MilestoneEvidence(p)
  BY <1>4, ExitControl DEF MilestoneEvidence, TypeOK
<1>5. CASE GateVerdict(p)
  BY <1>5, ExitControl DEF GateVerdict, TypeOK
<1>6. CASE GateState(p)
  BY <1>6, ExitControl DEF GateState, TypeOK
<1>7. CASE PushAudit(p)
  <2>1. \A q \in Procs : /\ loc'[q].cmd = loc[q].cmd
                         /\ loc'[q].n = loc[q].n
                         /\ loc'[q].m = loc[q].m
    <3>1. CASE loc' = loc
      BY <3>1
    <3>2. CASE loc' = [loc EXCEPT ![p].wrote = TRUE, ![p].cmd0 = st.command,
                ![p].old = IF loc[p].cmd = "checkpoint" THEN st.completed[loc[p].n] ELSE 0]
      BY <3>2, LocType DEF TypeOK, LocRec
    <3> QED BY <1>7, <3>1, <3>2 DEF PushAudit
  <2> QED BY <1>7, <2>1 DEF PushAudit, TypeOK
<1>8. CASE MilestoneValidate(p)
  BY <1>8 DEF MilestoneValidate, TypeOK
<1>9. CASE PushStage(p)
  BY <1>9 DEF PushStage, TypeOK
<1>10. CASE PushCommit(p)
  BY <1>10, ExitControl DEF PushCommit, Publishes, TypeOK
<1>11. CASE GitPush(p)
  BY <1>11, ExitControl DEF GitPush, TypeOK
<1>12. CASE PushAbandon(p)
  BY <1>12 DEF PushAbandon, TypeOK
<1>13. CASE PushRevert(p)
  BY <1>13, ExitControl DEF PushRevert, TypeOK
<1>14. CASE MilestoneParse(p)
  BY <1>14 DEF MilestoneParse, TypeOK
<1>15. CASE MilestoneHead(p)
  BY <1>15, ExitControl DEF MilestoneHead, TypeOK
<1>16. CASE GateUnverdict(p)
  BY <1>16, ExitControl DEF GateUnverdict, TypeOK
<1> QED
  BY <1>1, <1>2, <1>3, <1>4, <1>5, <1>6, <1>7, <1>8, <1>9, <1>10, <1>11, <1>12, <1>13,
     <1>14, <1>15, <1>16 DEF Push

LEMMA TypeStep ==
    ASSUME TypeOK, ControlOK, [Next]_vars
    PROVE  TypeOK' /\ ControlOK'
<1>1. CASE UNCHANGED vars
  BY <1>1 DEF vars, TypeOK, ControlOK
<1>2. CASE OperatorRewrite
  BY <1>2, RewriteType DEF OperatorRewrite, ControlOK
<1>3. ASSUME NEW p \in Procs, Crash(p) PROVE TypeOK' /\ ControlOK'
  BY <1>3, CrashType, ExitControl DEF Crash
<1>4. ASSUME NEW p \in Procs, Advance(p) PROVE TypeOK' /\ ControlOK'
  BY <1>4, AdvanceStepType, AdvanceControl
<1>5. ASSUME NEW p \in Procs, Push(p) PROVE TypeOK' /\ ControlOK'
  BY <1>5, PushStepType, PushControl
<1> QED BY <1>1, <1>2, <1>3, <1>4, <1>5 DEF Next, Step, Finished

-----------------------------------------------------------------------------
(***************************************************************************)
(* A step of p that does not touch the lock, does not enter or leave a     *)
(* locked section, and writes state.json only while nobody holds the lock. *)
(***************************************************************************)
LockedLabels == {"fsm_publish", "fsm_progress", "restore_rest"}

Plain(p) ==
    /\ pc[p] \notin LockedLabels
    /\ pc'[p] \notin LockedLabels
    /\ \A q \in Procs \ {p} : pc'[q] = pc[q] /\ loc'[q] = loc[q]
    /\ lock' = lock
    /\ st' = st \/ LockFree

LEMMA PlainStep ==
    ASSUME TypeOK, LockDiscipline, PublishIsFresh, NEW p \in Procs, Plain(p)
    PROVE  LockDiscipline' /\ PublishIsFresh'
<1>1. LockDiscipline'
  BY DEF LockDiscipline, Locked, Plain, LockedLabels
<1>2. ASSUME NEW q \in Procs, pc'[q] = "fsm_publish"
      PROVE  loc'[q].seen = Merged(st', loc'[q].n, loc'[q].top)
  <2>1. q # p /\ pc[q] = "fsm_publish" /\ loc'[q] = loc[q]
    BY <1>2 DEF Plain, LockedLabels
  <2>2. lock = q
    BY <2>1 DEF LockDiscipline, Locked
  <2>3. st' = st
    BY <2>2, ProcsAssumption DEF Plain, LockFree
  <2> QED BY <2>1, <2>3 DEF PublishIsFresh
<1> QED BY <1>1, <1>2 DEF PublishIsFresh

LEMMA ExitPlain ==
    ASSUME TypeOK, NEW p \in Procs, NEW code, Exit(p, code)
    PROVE  pc'[p] = "idle" /\ \A q \in Procs \ {p} : pc'[q] = pc[q] /\ loc'[q] = loc[q]
BY DEF TypeOK, Exit

LEMMA GotoPlain ==
    ASSUME TypeOK, NEW p \in Procs, NEW label, Goto(p, label)
    PROVE  pc'[p] = label /\ \A q \in Procs \ {p} : pc'[q] = pc[q]
BY DEF TypeOK, Goto

LEMMA AdvanceLock ==
    ASSUME TypeOK, LockDiscipline, PublishIsFresh, NEW p \in Procs, Advance(p)
    PROVE  LockDiscipline' /\ PublishIsFresh'
<1> USE DEF LockedLabels
<1>1. ASSUME NEW n \in 1..8, AdvanceStart(p, n) PROVE LockDiscipline' /\ PublishIsFresh'
  <2>1. Plain(p)
    BY <1>1, GotoPlain DEF AdvanceStart, Start, Plain, TypeOK
  <2> QED BY <2>1, PlainStep
<1>2. CASE AdvanceRead(p)
  <2>1. Plain(p)
    BY <1>2, ExitPlain, GotoPlain DEF AdvanceRead, Plain, TypeOK
  <2> QED BY <2>1, PlainStep
<1>3. CASE AdvanceCheck(p)
  <2>1. Plain(p)
    BY <1>3, ExitPlain, GotoPlain DEF AdvanceCheck, Plain, TypeOK
  <2> QED BY <2>1, PlainStep
<1>4. CASE AdvancePrecheckFails(p)
  <2>1. Plain(p)
    BY <1>4, ExitPlain, GotoPlain DEF AdvancePrecheckFails, Plain, TypeOK
  <2> QED BY <2>1, PlainStep
<1>5. CASE AdvanceEntryGate(p)
  <2>1. Plain(p)
    BY <1>5, ExitPlain, GotoPlain DEF AdvanceEntryGate, Plain, TypeOK, EntryPassed
  <2> QED BY <2>1, PlainStep
<1>6. CASE AdvanceHeal(p)
  <2>1. Plain(p)
    BY <1>6, ExitPlain, GotoPlain DEF AdvanceHeal, Plain, TypeOK, EntryPassed
  <2> QED BY <2>1, PlainStep
<1>7. CASE AdvanceCapture(p)
  <2>1. Plain(p)
    BY <1>7, ExitPlain, GotoPlain DEF AdvanceCapture, Plain, TypeOK
  <2> QED BY <2>1, PlainStep
<1>8. CASE AdvanceManifest(p)
  <2>1. Plain(p)
    BY <1>8, ExitPlain, GotoPlain DEF AdvanceManifest, Plain, TypeOK
  <2> QED BY <2>1, PlainStep
<1>9. CASE AdvanceHeader(p)
  <2>1. Plain(p)
    BY <1>9, ExitPlain, GotoPlain DEF AdvanceHeader, Plain, TypeOK
  <2> QED BY <2>1, PlainStep
<1>10. CASE AdvanceAdd(p)
  <2>1. Plain(p)
    BY <1>10, ExitPlain, GotoPlain DEF AdvanceAdd, Plain, TypeOK
  <2> QED BY <2>1, PlainStep
<1>11. CASE AdvanceCommit(p)
  <2>1. Plain(p)
    BY <1>11, ExitPlain, GotoPlain DEF AdvanceCommit, Plain, TypeOK
  <2> QED BY <2>1, PlainStep
<1>12. CASE AdvanceParse(p)
  <2>1. Plain(p)
    BY <1>12, ExitPlain, GotoPlain DEF AdvanceParse, Plain, TypeOK
  <2> QED BY <2>1, PlainStep
<1>13. CASE AdvanceRecord(p)
  <2>1. Plain(p)
    BY <1>13, ExitPlain, GotoPlain DEF AdvanceRecord, Plain, TypeOK
  <2> QED BY <2>1, PlainStep
<1>14. CASE AdvanceRecordAdd(p)
  <2>1. Plain(p)
    BY <1>14, ExitPlain, GotoPlain DEF AdvanceRecordAdd, Plain, TypeOK
  <2> QED BY <2>1, PlainStep
<1>15. CASE AdvanceRecordCommit(p)
  <2>1. Plain(p)
    BY <1>15, ExitPlain, GotoPlain DEF AdvanceRecordCommit, Plain, TypeOK
  <2> QED BY <2>1, PlainStep
<1>16. CASE AdvancePublish(p)
  <2>1. Plain(p)
    BY <1>16, ExitPlain, GotoPlain DEF AdvancePublish, Plain, TypeOK
  <2> QED BY <2>1, PlainStep
<1>17. CASE AdvanceReadBack(p)
  <2>1. Plain(p)
    BY <1>17, ExitPlain, GotoPlain DEF AdvanceReadBack, Plain, TypeOK
  <2> QED BY <2>1, PlainStep
<1>18. CASE AdvanceFsmStage(p)
  <2>1. lock = NoProc /\ lock' = p /\ pc'[p] = "fsm_publish" /\ st' = st
    BY <1>18, GotoPlain DEF AdvanceFsmStage, LockFree
  <2>2. \A q \in Procs \ {p} : pc'[q] = pc[q] /\ loc'[q] = loc[q] /\ pc[q] \notin LockedLabels
    BY <1>18, <2>1, GotoPlain, ProcsAssumption DEF AdvanceFsmStage, LockDiscipline, Locked, TypeOK
  <2>3. /\ loc'[p].seen = Merged(st, loc[p].n, loc[p].top)
        /\ loc'[p].n = loc[p].n
        /\ loc'[p].top = loc[p].top
    BY <1>18, LocType DEF AdvanceFsmStage, TypeOK, LocRec
  <2> QED BY <2>1, <2>2, <2>3 DEF LockDiscipline, Locked, PublishIsFresh
<1>19. CASE AdvanceFsmPublish(p)
  <2>1. lock = p /\ lock' = p /\ pc'[p] = "fsm_progress" /\ loc' = loc
    BY <1>19, GotoPlain DEF AdvanceFsmPublish, LockDiscipline, Locked
  <2>2. \A q \in Procs \ {p} : pc'[q] = pc[q] /\ pc[q] \notin LockedLabels
    BY <1>19, <2>1, GotoPlain DEF AdvanceFsmPublish, LockDiscipline, Locked
  <2> QED BY <2>1, <2>2 DEF LockDiscipline, Locked, PublishIsFresh
<1>20. CASE AdvanceFsmProgress(p)
  <2>1. lock = p /\ lock' = NoProc /\ pc'[p] \notin LockedLabels
    BY <1>20, GotoPlain DEF AdvanceFsmProgress, LockDiscipline, Locked
  <2>2. \A q \in Procs \ {p} : pc'[q] = pc[q] /\ pc[q] \notin LockedLabels
    BY <1>20, <2>1, GotoPlain DEF AdvanceFsmProgress, LockDiscipline, Locked
  <2> QED BY <2>1, <2>2, ProcsAssumption DEF LockDiscipline, Locked, PublishIsFresh
<1>21. CASE AdvanceRestore(p)
  <2>1. lock = NoProc /\ lock' = p /\ pc'[p] = "restore_rest"
    BY <1>21, GotoPlain DEF AdvanceRestore, LockFree
  <2>2. \A q \in Procs \ {p} : pc'[q] = pc[q] /\ pc[q] \notin LockedLabels
    BY <1>21, <2>1, GotoPlain, ProcsAssumption DEF AdvanceRestore, LockDiscipline, Locked
  <2> QED BY <2>1, <2>2 DEF LockDiscipline, Locked, PublishIsFresh
<1>22. CASE AdvanceRestoreRest(p)
  <2>1. lock = p /\ lock' = NoProc /\ pc'[p] = "idle"
    BY <1>22, ExitPlain DEF AdvanceRestoreRest, LockDiscipline, Locked
  <2>2. \A q \in Procs \ {p} : pc'[q] = pc[q] /\ pc[q] \notin LockedLabels
    BY <1>22, <2>1, ExitPlain DEF AdvanceRestoreRest, LockDiscipline, Locked
  <2> QED BY <2>1, <2>2, ProcsAssumption DEF LockDiscipline, Locked, PublishIsFresh
<1> QED
  BY <1>1, <1>2, <1>3, <1>4, <1>5, <1>6, <1>7, <1>8, <1>9, <1>10, <1>11, <1>12, <1>13, <1>14, <1>15, <1>16, <1>17, <1>18, <1>19, <1>20, <1>21, <1>22 DEF Advance

LEMMA PushLock ==
    ASSUME TypeOK, LockDiscipline, PublishIsFresh, NEW p \in Procs, Push(p)
    PROVE  LockDiscipline' /\ PublishIsFresh'
<1> USE DEF LockedLabels
<1>1. ASSUME NEW k \in {1, 2}, CheckpointStart(p, k) PROVE LockDiscipline' /\ PublishIsFresh'
  <2>1. Plain(p)
    BY <1>1, GotoPlain DEF CheckpointStart, Start, Plain, TypeOK
  <2> QED BY <2>1, PlainStep
<1>2. ASSUME NEW m \in Milestones, MilestoneStart(p, m) PROVE LockDiscipline' /\ PublishIsFresh'
  <2>1. Plain(p)
    BY <1>2, GotoPlain DEF MilestoneStart, Start, Plain, TypeOK
  <2> QED BY <2>1, PlainStep
<1>3. ASSUME NEW g \in Gates, GateStart(p, g) PROVE LockDiscipline' /\ PublishIsFresh'
  <2>1. Plain(p)
    BY <1>3, GotoPlain DEF GateStart, Start, Plain, TypeOK
  <2> QED BY <2>1, PlainStep
<1>4. CASE MilestoneEvidence(p)
  <2>1. Plain(p)
    BY <1>4, ExitPlain, GotoPlain DEF MilestoneEvidence, Plain, TypeOK
  <2> QED BY <2>1, PlainStep
<1>5. CASE GateVerdict(p)
  <2>1. Plain(p)
    BY <1>5, ExitPlain, GotoPlain DEF GateVerdict, Plain, TypeOK
  <2> QED BY <2>1, PlainStep
<1>6. CASE GateState(p)
  <2>1. Plain(p)
    BY <1>6, ExitPlain, GotoPlain DEF GateState, Plain, TypeOK
  <2> QED BY <2>1, PlainStep
<1>7. CASE PushAudit(p)
  <2>1. Plain(p)
    BY <1>7, ExitPlain, GotoPlain DEF PushAudit, Plain, TypeOK
  <2> QED BY <2>1, PlainStep
<1>8. CASE MilestoneValidate(p)
  <2>1. Plain(p)
    BY <1>8, ExitPlain, GotoPlain DEF MilestoneValidate, Plain, TypeOK
  <2> QED BY <2>1, PlainStep
<1>9. CASE PushStage(p)
  <2>1. Plain(p)
    BY <1>9, ExitPlain, GotoPlain DEF PushStage, Plain, TypeOK
  <2> QED BY <2>1, PlainStep
<1>10. CASE PushCommit(p)
  <2>1. Plain(p)
    BY <1>10, ExitPlain, GotoPlain DEF PushCommit, Plain, TypeOK
  <2> QED BY <2>1, PlainStep
<1>11. CASE GitPush(p)
  <2>1. Plain(p)
    BY <1>11, ExitPlain, GotoPlain DEF GitPush, Plain, TypeOK
  <2> QED BY <2>1, PlainStep
<1>12. CASE PushAbandon(p)
  <2>1. Plain(p)
    BY <1>12, ExitPlain, GotoPlain DEF PushAbandon, Plain, TypeOK
  <2> QED BY <2>1, PlainStep
<1>13. CASE PushRevert(p)
  <2>1. Plain(p)
    BY <1>13, ExitPlain, GotoPlain DEF PushRevert, Plain, TypeOK
  <2> QED BY <2>1, PlainStep
<1>14. CASE MilestoneParse(p)
  <2>1. Plain(p)
    BY <1>14, ExitPlain, GotoPlain DEF MilestoneParse, Plain, TypeOK
  <2> QED BY <2>1, PlainStep
<1>15. CASE MilestoneHead(p)
  <2>1. Plain(p)
    BY <1>15, ExitPlain, GotoPlain DEF MilestoneHead, Plain, TypeOK
  <2> QED BY <2>1, PlainStep
<1>16. CASE GateUnverdict(p)
  <2>1. Plain(p)
    BY <1>16, ExitPlain, GotoPlain DEF GateUnverdict, Plain, TypeOK
  <2> QED BY <2>1, PlainStep
<1> QED
  BY <1>1, <1>2, <1>3, <1>4, <1>5, <1>6, <1>7, <1>8, <1>9, <1>10, <1>11, <1>12, <1>13,
     <1>14, <1>15, <1>16 DEF Push

LEMMA LockStep ==
    ASSUME TypeOK, LockDiscipline, PublishIsFresh, [Next]_vars
    PROVE  LockDiscipline' /\ PublishIsFresh'
<1>1. CASE UNCHANGED vars
  BY <1>1 DEF vars, LockDiscipline, Locked, PublishIsFresh
<1>2. CASE OperatorRewrite
  BY <1>2 DEF OperatorRewrite, LockDiscipline, Locked, PublishIsFresh
<1>3. ASSUME NEW p \in Procs, Crash(p) PROVE LockDiscipline' /\ PublishIsFresh'
  <2>1. /\ pc'[p] = "idle"
        /\ \A q \in Procs \ {p} : pc'[q] = pc[q] /\ loc'[q] = loc[q]
        /\ st' = st
        /\ lock' = IF lock = p THEN NoProc ELSE lock
    BY <1>3, ExitPlain DEF Crash
  <2>2. LockDiscipline'
    BY <2>1, ProcsAssumption DEF LockDiscipline, Locked
  <2> QED BY <2>1, <2>2 DEF PublishIsFresh
<1>4. ASSUME NEW p \in Procs, Step(p) PROVE LockDiscipline' /\ PublishIsFresh'
  BY <1>4, AdvanceLock, PushLock DEF Step
<1> QED BY <1>1, <1>2, <1>3, <1>4 DEF Next, Finished

LEMMA LockInit == Init => LockDiscipline /\ PublishIsFresh
BY ProcsAssumption DEF Init, StoreInit, LockDiscipline, Locked, PublishIsFresh

-----------------------------------------------------------------------------
LEMMA Inductive == Spec => []IInv
<1>1. Init => IInv
  BY InitType, ControlInit, LockInit DEF IInv
<1>2. IInv /\ [Next]_vars => IInv'
  BY TypeStep, LockStep DEF IInv
<1> QED BY <1>1, <1>2, PTL DEF Spec

(***************************************************************************)
(* For every set of processes and milestones and every bound: state.json,  *)
(* HANDOVER.md, the manifest, the repository and the memory of each        *)
(* process stay within their types (no command publishes a phase outside   *)
(* 1..9 or a gate outside 0..4).                                           *)
(***************************************************************************)
THEOREM TypeCorrect == Spec => []TypeOK
<1>1. IInv => TypeOK
  BY DEF IInv
<1> QED BY <1>1, Inductive, PTL

(***************************************************************************)
(* For any number of processes, commands, faults, crashes and rewrites:    *)
(* the lock of state.json is held by one process at a time, exactly in the *)
(* critical sections of several steps (_advance_fsm and the rollback).     *)
(***************************************************************************)
THEOREM LockCorrect == Spec => []LockDiscipline
<1>1. IInv => LockDiscipline
  BY DEF IInv
<1> QED BY <1>1, Inductive, PTL

(***************************************************************************)
(* For any number of processes, commands, faults, crashes and rewrites:    *)
(* the document _advance_fsm is about to publish is the one on disk at     *)
(* that moment with its own fields changed, so the advance itself loses no *)
(* other writer's update.                                                  *)
(***************************************************************************)
THEOREM PublishCorrect == Spec => []PublishIsFresh
<1>1. IInv => PublishIsFresh
  BY DEF IInv
<1> QED BY <1>1, Inductive, PTL

-----------------------------------------------------------------------------
(***************************************************************************)
(* What the steps of a command leave alone, for the invariants of the      *)
(* other proof modules: every step but a few keeps state.json, the history *)
(* and the captured bytes, and every step keeps the other processes.       *)
(***************************************************************************)
LEMMA AdvanceAlone ==
    ASSUME TypeOK, NEW p \in Procs, Advance(p)
    PROVE  /\ pc[p] \in AdvanceLabels \/ (pc[p] = "idle" /\ "advance" \in May[p])
           /\ pc'[p] \in AdvanceLabels \cup {"idle"}
           /\ pc'[p] = "idle" => loc'[p] = IdleLoc
           /\ \A q \in Procs \ {p} : pc'[q] = pc[q] /\ loc'[q] = loc[q]
<1>e. ASSUME NEW code, Exit(p, code) PROVE loc'[p] = IdleLoc
  BY <1>e DEF Exit, TypeOK
<1> USE <1>e, ExitPlain, GotoPlain DEF AdvanceLabels, TypeOK
<1>1. ASSUME NEW n \in 1..8, AdvanceStart(p, n)
      PROVE  /\ pc[p] = "idle" /\ "advance" \in May[p] /\ pc'[p] = "read"
             /\ \A q \in Procs \ {p} : pc'[q] = pc[q] /\ loc'[q] = loc[q]
  BY <1>1 DEF AdvanceStart, Start
<1>2. CASE AdvanceRead(p)
  BY <1>2 DEF AdvanceRead
<1>3. CASE AdvanceCheck(p)
  BY <1>3 DEF AdvanceCheck
<1>4. CASE AdvancePrecheckFails(p)
  BY <1>4 DEF AdvancePrecheckFails
<1>5. CASE AdvanceEntryGate(p)
  BY <1>5 DEF AdvanceEntryGate, EntryPassed
<1>6. CASE AdvanceHeal(p)
  BY <1>6 DEF AdvanceHeal, EntryPassed
<1>7. CASE AdvanceCapture(p) \/ AdvanceFsmStage(p) \/ AdvanceFsmPublish(p) \/ AdvanceFsmProgress(p)
  BY <1>7 DEF AdvanceCapture, AdvanceFsmStage, AdvanceFsmPublish, AdvanceFsmProgress
<1>8. CASE AdvanceManifest(p) \/ AdvanceHeader(p) \/ AdvanceAdd(p) \/ AdvanceCommit(p)
  BY <1>8 DEF AdvanceManifest, AdvanceHeader, AdvanceAdd, AdvanceCommit
<1>9. CASE AdvanceRestore(p) \/ AdvanceRestoreRest(p) \/ AdvanceParse(p) \/ AdvanceRecord(p)
  BY <1>9 DEF AdvanceRestore, AdvanceRestoreRest, AdvanceParse, AdvanceRecord
<1>10. CASE AdvanceRecordAdd(p) \/ AdvanceRecordCommit(p) \/ AdvancePublish(p) \/ AdvanceReadBack(p)
  BY <1>10 DEF AdvanceRecordAdd, AdvanceRecordCommit, AdvancePublish, AdvanceReadBack
<1> QED
  BY <1>1, <1>2, <1>3, <1>4, <1>5, <1>6, <1>7, <1>8, <1>9, <1>10 DEF Advance

LEMMA PushAlone ==
    ASSUME TypeOK, NEW p \in Procs, Push(p)
    PROVE  /\ \/ pc[p] \in PushLabels \cup GateLabels
              \/ pc[p] = "idle" /\ \E cmd \in May[p] : cmd # "advance"
           /\ pc'[p] \in PushLabels \cup GateLabels \cup {"idle"}
           /\ pc'[p] = "idle" => loc'[p] = IdleLoc
           /\ \A q \in Procs \ {p} : pc'[q] = pc[q] /\ loc'[q] = loc[q]
<1>e. ASSUME NEW code, Exit(p, code) PROVE loc'[p] = IdleLoc
  BY <1>e DEF Exit, TypeOK
<1> USE <1>e, ExitPlain, GotoPlain DEF PushLabels, GateLabels, TypeOK
<1>1. ASSUME NEW k \in {1, 2}, CheckpointStart(p, k)
      PROVE  /\ pc[p] = "idle" /\ "checkpoint" \in May[p] /\ pc'[p] = "audit"
             /\ \A q \in Procs \ {p} : pc'[q] = pc[q] /\ loc'[q] = loc[q]
  BY <1>1 DEF CheckpointStart, Start
<1>2. ASSUME NEW m \in Milestones, MilestoneStart(p, m)
      PROVE  /\ pc[p] = "idle" /\ "milestone" \in May[p] /\ pc'[p] = "evidence"
             /\ \A q \in Procs \ {p} : pc'[q] = pc[q] /\ loc'[q] = loc[q]
  BY <1>2 DEF MilestoneStart, Start
<1>3. ASSUME NEW g \in Gates, GateStart(p, g)
      PROVE  /\ pc[p] = "idle" /\ "finalize" \in May[p] /\ pc'[p] = "gate_checks"
             /\ \A q \in Procs \ {p} : pc'[q] = pc[q] /\ loc'[q] = loc[q]
  BY <1>3 DEF GateStart, Start
<1>4. CASE MilestoneEvidence(p) \/ GateVerdict(p) \/ GateState(p) \/ PushAudit(p)
  BY <1>4 DEF MilestoneEvidence, GateVerdict, GateState, PushAudit
<1>5. CASE MilestoneValidate(p) \/ PushStage(p) \/ PushCommit(p) \/ GitPush(p)
  BY <1>5 DEF MilestoneValidate, PushStage, PushCommit, GitPush
<1>6. CASE PushAbandon(p) \/ GateUnverdict(p) \/ PushRevert(p) \/ MilestoneParse(p) \/ MilestoneHead(p)
  BY <1>6 DEF PushAbandon, GateUnverdict, PushRevert, MilestoneParse, MilestoneHead
<1> QED BY <1>1, <1>2, <1>3, <1>4, <1>5, <1>6 DEF Push

LEMMA AdvanceLeaves ==
    ASSUME NEW p \in Procs, Advance(p)
    PROVE  /\ \/ st' = st
              \/ AdvanceHeal(p) \/ AdvanceFsmPublish(p) \/ AdvanceRestore(p) \/ AdvanceRecord(p)
           /\ \/ hist' = hist /\ newest' = newest
              \/ AdvanceCommit(p) \/ AdvanceRecordCommit(p)
           /\ index' = index \/ AdvanceAdd(p) \/ AdvanceRestoreRest(p) \/ AdvanceRecordAdd(p)
           /\ remote' = remote \/ AdvancePublish(p)
           /\ hand' = hand \/ AdvanceFsmStage(p) \/ AdvanceHeader(p) \/ AdvanceRestoreRest(p)
           /\ gates' = gates \/ AdvanceManifest(p) \/ AdvanceRestoreRest(p)
<1> USE DEF repo
<1>1. ASSUME NEW n \in 1..8, AdvanceStart(p, n)
      PROVE  /\ st' = st /\ hist' = hist /\ newest' = newest /\ index' = index /\ remote' = remote
             /\ hand' = hand /\ gates' = gates
  BY <1>1 DEF AdvanceStart
<1>2. CASE AdvanceRead(p) \/ AdvanceCheck(p) \/ AdvancePrecheckFails(p) \/ AdvanceEntryGate(p)
  BY <1>2 DEF AdvanceRead, AdvanceCheck, AdvancePrecheckFails, AdvanceEntryGate
<1>3. CASE AdvanceHeal(p) \/ AdvanceRecord(p) \/ AdvanceFsmPublish(p) \/ AdvanceRestore(p)
  BY <1>3 DEF AdvanceHeal, AdvanceRecord, AdvanceFsmPublish, AdvanceRestore
<1>4. CASE AdvanceCapture(p) \/ AdvanceFsmStage(p) \/ AdvanceFsmProgress(p) \/ AdvanceManifest(p)
  BY <1>4 DEF AdvanceCapture, AdvanceFsmStage, AdvanceFsmProgress, AdvanceManifest
<1>5. CASE AdvanceHeader(p) \/ AdvanceAdd(p) \/ AdvanceCommit(p) \/ AdvanceRestoreRest(p)
  BY <1>5 DEF AdvanceHeader, AdvanceAdd, AdvanceCommit, AdvanceRestoreRest
<1>6. CASE AdvanceParse(p) \/ AdvanceRecordAdd(p) \/ AdvanceRecordCommit(p)
  BY <1>6 DEF AdvanceParse, AdvanceRecordAdd, AdvanceRecordCommit
<1>7. CASE AdvancePublish(p) \/ AdvanceReadBack(p)
  BY <1>7 DEF AdvancePublish, AdvanceReadBack
<1> QED BY <1>1, <1>2, <1>3, <1>4, <1>5, <1>6, <1>7 DEF Advance

LEMMA PushLeaves ==
    ASSUME NEW p \in Procs, Push(p)
    PROVE  /\ st' = st \/ GateState(p) \/ PushAudit(p) \/ PushRevert(p) \/ MilestoneHead(p)
           /\ (hist' = hist /\ newest' = newest) \/ PushCommit(p)
           /\ index' = index \/ PushStage(p)
           /\ remote' = remote \/ GitPush(p)
           /\ hand' = hand \/ PushStage(p) \/ PushAbandon(p)
           /\ gates' = gates \/ GateVerdict(p) \/ GateUnverdict(p)
<1> USE DEF repo
<1>1. ASSUME NEW k \in {1, 2}, CheckpointStart(p, k)
      PROVE  /\ st' = st /\ hist' = hist /\ newest' = newest /\ index' = index /\ remote' = remote
             /\ hand' = hand /\ gates' = gates
  BY <1>1 DEF CheckpointStart
<1>2. ASSUME NEW m \in Milestones, MilestoneStart(p, m)
      PROVE  /\ st' = st /\ hist' = hist /\ newest' = newest /\ index' = index /\ remote' = remote
             /\ hand' = hand /\ gates' = gates
  BY <1>2 DEF MilestoneStart
<1>3. ASSUME NEW g \in Gates, GateStart(p, g)
      PROVE  /\ st' = st /\ hist' = hist /\ newest' = newest /\ index' = index /\ remote' = remote
             /\ hand' = hand /\ gates' = gates
  BY <1>3 DEF GateStart
<1>4. CASE MilestoneEvidence(p) \/ GateVerdict(p) \/ GateState(p) \/ PushAudit(p)
  BY <1>4 DEF MilestoneEvidence, GateVerdict, GateState, PushAudit
<1>5. CASE MilestoneValidate(p) \/ PushStage(p) \/ PushCommit(p) \/ GitPush(p)
  BY <1>5 DEF MilestoneValidate, PushStage, PushCommit, GitPush
<1>6. CASE PushAbandon(p) \/ GateUnverdict(p) \/ PushRevert(p) \/ MilestoneParse(p) \/ MilestoneHead(p)
  BY <1>6 DEF PushAbandon, GateUnverdict, PushRevert, MilestoneParse, MilestoneHead
<1> QED BY <1>1, <1>2, <1>3, <1>4, <1>5, <1>6 DEF Push

\* The captured bytes: what they were, what is on disk now, or forgotten.
LEMMA AdvanceMemory ==
    ASSUME TypeOK, NEW p \in Procs, Advance(p)
    PROVE  \/ /\ loc'[p].snap = loc[p].snap
              /\ loc'[p].snapHand = loc[p].snapHand
              /\ loc'[p].snapGates = loc[p].snapGates
              /\ loc'[p].cmd0 = loc[p].cmd0
           \/ loc'[p] = IdleLoc /\ pc'[p] = "idle"
           \/ AdvanceCapture(p)
<1>t. loc \in [Procs -> LocRec] /\ pc \in [Procs -> Labels]
  BY DEF TypeOK
<1>e. ASSUME NEW code, Exit(p, code) PROVE loc'[p] = IdleLoc /\ pc'[p] = "idle"
  BY <1>t, <1>e DEF Exit
<1> USE <1>t, <1>e DEF LocRec
<1>1. ASSUME NEW n \in 1..8, AdvanceStart(p, n)
      PROVE  loc'[p] = [loc[p] EXCEPT !.cmd = "advance", !.n = n]
  BY <1>1 DEF AdvanceStart
<1>2. CASE AdvanceRead(p) \/ AdvanceCheck(p) \/ AdvancePrecheckFails(p)
  BY <1>2 DEF AdvanceRead, AdvanceCheck, AdvancePrecheckFails
<1>3. CASE AdvanceEntryGate(p) \/ AdvanceHeal(p)
  BY <1>3 DEF AdvanceEntryGate, AdvanceHeal, EntryPassed
<1>4. CASE AdvanceFsmStage(p) \/ AdvanceFsmPublish(p) \/ AdvanceFsmProgress(p) \/ AdvanceManifest(p)
  BY <1>4 DEF AdvanceFsmStage, AdvanceFsmPublish, AdvanceFsmProgress, AdvanceManifest
<1>5. CASE AdvanceHeader(p) \/ AdvanceAdd(p) \/ AdvanceCommit(p) \/ AdvanceRestore(p) \/ AdvanceRestoreRest(p)
  BY <1>5 DEF AdvanceHeader, AdvanceAdd, AdvanceCommit, AdvanceRestore, AdvanceRestoreRest
<1>6. CASE AdvanceParse(p) \/ AdvanceRecord(p) \/ AdvanceRecordAdd(p)
  BY <1>6 DEF AdvanceParse, AdvanceRecord, AdvanceRecordAdd
<1>7. CASE AdvanceRecordCommit(p) \/ AdvancePublish(p) \/ AdvanceReadBack(p)
  BY <1>7 DEF AdvanceRecordCommit, AdvancePublish, AdvanceReadBack
<1> QED BY <1>1, <1>2, <1>3, <1>4, <1>5, <1>6, <1>7 DEF Advance

LEMMA PushMemory ==
    ASSUME TypeOK, NEW p \in Procs, Push(p)
    PROVE  \/ /\ loc'[p].snap = loc[p].snap
              /\ loc'[p].snapGates = loc[p].snapGates
              /\ loc'[p].cmd0 = loc[p].cmd0 \/ PushAudit(p)
           \/ loc'[p] = IdleLoc /\ pc'[p] = "idle"
<1>t. loc \in [Procs -> LocRec] /\ pc \in [Procs -> Labels]
  BY DEF TypeOK
<1>e. ASSUME NEW code, Exit(p, code) PROVE loc'[p] = IdleLoc /\ pc'[p] = "idle"
  BY <1>t, <1>e DEF Exit
<1> USE <1>t, <1>e DEF LocRec
<1>1. ASSUME NEW k \in {1, 2}, CheckpointStart(p, k)
      PROVE  loc'[p] = [loc[p] EXCEPT !.cmd = "checkpoint", !.n = k, !.sha = Tip.id]
  BY <1>1 DEF CheckpointStart
<1>2. ASSUME NEW m \in Milestones, MilestoneStart(p, m)
      PROVE  loc'[p] = [loc[p] EXCEPT !.cmd = "milestone", !.m = m]
  BY <1>2 DEF MilestoneStart
<1>3. ASSUME NEW g \in Gates, GateStart(p, g)
      PROVE  loc'[p] = [loc[p] EXCEPT !.cmd = "finalize", !.n = g]
  BY <1>3 DEF GateStart
<1>4. CASE MilestoneEvidence(p) \/ GateVerdict(p) \/ GateState(p)
  BY <1>4 DEF MilestoneEvidence, GateVerdict, GateState
<1>5. CASE PushAudit(p)
  BY <1>5 DEF PushAudit
<1>6. CASE MilestoneValidate(p) \/ PushStage(p) \/ PushCommit(p) \/ GitPush(p)
  BY <1>6 DEF MilestoneValidate, PushStage, PushCommit, GitPush
<1>7. CASE PushAbandon(p) \/ GateUnverdict(p) \/ PushRevert(p) \/ MilestoneParse(p) \/ MilestoneHead(p)
  BY <1>7 DEF PushAbandon, GateUnverdict, PushRevert, MilestoneParse, MilestoneHead
<1> QED BY <1>1, <1>2, <1>3, <1>4, <1>5, <1>6, <1>7 DEF Push

\* A new commit: one more at the end, the others where they were.
LEMMA CommitAppends ==
    ASSUME TypeOK, NEW subject \in Subjects, NEW n \in 0..9, GitCommit(subject, n)
    PROVE  /\ Len(hist') = Len(hist) + 1 /\ newest' = newest + 1
           /\ \A i \in 1..Len(hist) : hist'[i] = hist[i]
           /\ hist'[Len(hist) + 1] = [id |-> newest + 1, subject |-> subject, n |-> n, tree |-> index]
BY DEF TypeOK, GitCommit

\* Whatever happens to the branch but a rewrite, the history only grows.
LEMMA HistoryGrows ==
    ASSUME TypeOK, [Next]_vars, ~OperatorRewrite
    PROVE  /\ Len(hist) <= Len(hist')
           /\ \A i \in 1..Len(hist) : hist'[i] = hist[i]
<1>l. Len(hist) \in Nat
  BY DEF TypeOK
<1>1. CASE hist' = hist
  BY <1>l, <1>1
<1>2. CASE hist' # hist
  <2>1. PICK p \in Procs : AdvanceCommit(p) \/ AdvanceRecordCommit(p) \/ PushCommit(p)
    BY <1>2, AdvanceLeaves, PushLeaves DEF Next, Step, Crash, Finished, vars, repo
  <2>2. GitCommit("handover", loc[p].n) \/ GitCommit("record", loc[p].n)
           \/ GitCommit(CommitSubject(loc[p]), loc[p].n)
    BY <1>2, <2>1 DEF AdvanceCommit, AdvanceRecordCommit, PushCommit
  <2>3. ASSUME NEW s, NEW n, GitCommit(s, n)
        PROVE  Len(hist') = Len(hist) + 1 /\ \A i \in 1..Len(hist) : hist'[i] = hist[i]
    BY <2>3 DEF TypeOK, GitCommit
  <2> QED BY <1>l, <2>2, <2>3
<1> QED BY <1>1, <1>2

(***************************************************************************)
(* The actions that lead to a control point: an invariant about a point is *)
(* then a matter of these actions and of the steps of the others.          *)
(***************************************************************************)
LEMMA AdvanceReaches ==
    ASSUME TypeOK, NEW p \in Procs, Advance(p)
    PROVE  /\ pc'[p] = "read" => (\E n \in 1..8 : AdvanceStart(p, n))
           /\ pc'[p] = "check" => AdvanceRead(p)
           /\ pc'[p] = "entry" => AdvanceCheck(p)
           /\ pc'[p] = "heal" => AdvanceEntryGate(p)
           /\ pc'[p] = "capture" => AdvanceEntryGate(p) \/ AdvanceHeal(p)
           /\ pc'[p] = "fsm_stage" => AdvanceCapture(p)
           /\ pc'[p] = "fsm_publish" => AdvanceFsmStage(p)
           /\ pc'[p] = "fsm_progress" => AdvanceFsmPublish(p)
           /\ pc'[p] = "manifest" => AdvanceFsmProgress(p)
           /\ pc'[p] = "header" => AdvanceFsmProgress(p) \/ AdvanceManifest(p)
           /\ pc'[p] = "add" => AdvanceHeader(p)
           /\ pc'[p] = "commit" => AdvanceAdd(p)
           /\ pc'[p] = "restore" => AdvanceAdd(p) \/ AdvanceCommit(p)
           /\ pc'[p] = "restore_rest" => AdvanceRestore(p)
           /\ pc'[p] = "parse" => AdvanceCommit(p)
           /\ pc'[p] = "record" => AdvanceParse(p)
           /\ pc'[p] = "record_add" => AdvanceRecord(p)
           /\ pc'[p] = "record_commit" => AdvanceRecordAdd(p)
           /\ pc'[p] = "publish" => AdvanceRecordAdd(p) \/ AdvanceRecordCommit(p)
           /\ pc'[p] = "readback" => AdvancePublish(p)
<1> USE ExitPlain, GotoPlain
<1>1. ASSUME NEW n \in 1..8, AdvanceStart(p, n) PROVE pc'[p] = "read"
  BY <1>1 DEF AdvanceStart
<1>2. AdvanceRead(p) => pc'[p] \in {"check"}
  BY DEF AdvanceRead
<1>3. AdvanceCheck(p) => pc'[p] \in {"entry", "idle"}
  BY DEF AdvanceCheck
<1>4. AdvancePrecheckFails(p) => pc'[p] \in {"idle"}
  BY DEF AdvancePrecheckFails
<1>5. AdvanceEntryGate(p) => pc'[p] \in {"heal", "capture", "idle"}
  BY DEF AdvanceEntryGate, EntryPassed
<1>6. AdvanceHeal(p) => pc'[p] \in {"capture", "idle"}
  BY DEF AdvanceHeal, EntryPassed
<1>7. AdvanceCapture(p) => pc'[p] \in {"fsm_stage"}
  BY DEF AdvanceCapture
<1>8. AdvanceFsmStage(p) => pc'[p] \in {"fsm_publish"}
  BY DEF AdvanceFsmStage
<1>9. AdvanceFsmPublish(p) => pc'[p] \in {"fsm_progress"}
  BY DEF AdvanceFsmPublish
<1>10. AdvanceFsmProgress(p) => pc'[p] \in {"manifest", "header"}
  BY DEF AdvanceFsmProgress
<1>11. AdvanceManifest(p) => pc'[p] \in {"header", "idle"}
  BY DEF AdvanceManifest
<1>12. AdvanceHeader(p) => pc'[p] \in {"add"}
  BY DEF AdvanceHeader
<1>13. AdvanceAdd(p) => pc'[p] \in {"commit", "restore"}
  BY DEF AdvanceAdd
<1>14. AdvanceCommit(p) => pc'[p] \in {"restore", "parse"}
  BY DEF AdvanceCommit
<1>15. AdvanceRestore(p) => pc'[p] \in {"restore_rest"}
  BY DEF AdvanceRestore
<1>16. AdvanceRestoreRest(p) => pc'[p] \in {"idle"}
  BY DEF AdvanceRestoreRest
<1>17. AdvanceParse(p) => pc'[p] \in {"record"}
  BY DEF AdvanceParse
<1>18. AdvanceRecord(p) => pc'[p] \in {"record_add"}
  BY DEF AdvanceRecord
<1>19. AdvanceRecordAdd(p) => pc'[p] \in {"record_commit", "publish"}
  BY DEF AdvanceRecordAdd
<1>20. AdvanceRecordCommit(p) => pc'[p] \in {"publish"}
  BY DEF AdvanceRecordCommit
<1>21. AdvancePublish(p) => pc'[p] \in {"readback", "idle"}
  BY DEF AdvancePublish
<1>22. AdvanceReadBack(p) => pc'[p] \in {"idle"}
  BY DEF AdvanceReadBack
<1> HIDE ExitPlain, GotoPlain
<1> QED
  BY <1>1, <1>2, <1>3, <1>4, <1>5, <1>6, <1>7, <1>8, <1>9, <1>10, <1>11,
     <1>12, <1>13, <1>14, <1>15, <1>16, <1>17, <1>18, <1>19, <1>20, <1>21,
     <1>22 DEF Advance

LEMMA PushReaches ==
    ASSUME TypeOK, NEW p \in Procs, Push(p)
    PROVE  /\ pc'[p] = "evidence" => (\E m \in Milestones : MilestoneStart(p, m))
           /\ pc'[p] = "audit" =>
                 (\E k \in {1, 2} : CheckpointStart(p, k)) \/ MilestoneEvidence(p) \/ GateState(p)
           /\ pc'[p] = "validate" => PushAudit(p)
           /\ pc'[p] = "stage" => PushAudit(p) \/ MilestoneValidate(p) \/ GateState(p)
           /\ pc'[p] = "push_commit" => PushStage(p)
           /\ pc'[p] = "push" => PushCommit(p)
           /\ pc'[p] = "abandon" => PushStage(p) \/ PushCommit(p) \/ GitPush(p)
           /\ pc'[p] = "unaudit" => MilestoneValidate(p) \/ PushAbandon(p) \/ GateUnverdict(p)
           /\ pc'[p] = "push_parse" => GitPush(p)
           /\ pc'[p] = "push_head" => MilestoneParse(p)
           /\ pc'[p] = "gate_checks" => (\E g \in Gates : GateStart(p, g))
           /\ pc'[p] = "gate_state" => GateVerdict(p)
           /\ pc'[p] = "gate_refused" => GateState(p)
           /\ pc'[p] = "unverdict" => PushCommit(p) \/ PushAbandon(p)
<1> USE ExitPlain, GotoPlain
<1>1. ASSUME NEW k \in {1, 2}, CheckpointStart(p, k) PROVE pc'[p] = "audit"
  BY <1>1 DEF CheckpointStart
<1>2. ASSUME NEW m \in Milestones, MilestoneStart(p, m) PROVE pc'[p] = "evidence"
  BY <1>2 DEF MilestoneStart
<1>3. ASSUME NEW g \in Gates, GateStart(p, g) PROVE pc'[p] = "gate_checks"
  BY <1>3 DEF GateStart
<1>4. MilestoneEvidence(p) => pc'[p] \in {"audit", "idle"}
  BY DEF MilestoneEvidence
<1>5. GateVerdict(p) => pc'[p] \in {"gate_state", "idle"}
  BY DEF GateVerdict
<1>6. GateState(p) => pc'[p] \in {"audit", "stage", "gate_refused"}
  BY DEF GateState
<1>7. PushAudit(p) => pc'[p] \in {"validate", "stage"}
  BY DEF PushAudit
<1>8. MilestoneValidate(p) => pc'[p] \in {"stage", "unaudit"}
  BY DEF MilestoneValidate
<1>9. PushStage(p) => pc'[p] \in {"push_commit", "abandon"}
  BY DEF PushStage
<1>10. PushCommit(p) => pc'[p] \in {"push", "abandon", "unverdict", "idle"}
  BY DEF PushCommit
<1>11. GitPush(p) => pc'[p] \in {"abandon", "push_parse", "idle"}
  BY DEF GitPush
<1>12. PushAbandon(p) => pc'[p] \in {"unaudit", "unverdict"}
  BY DEF PushAbandon
<1>13. GateUnverdict(p) => pc'[p] \in {"unaudit", "idle"}
  BY DEF GateUnverdict
<1>14. PushRevert(p) => pc'[p] \in {"idle"}
  BY DEF PushRevert
<1>15. MilestoneParse(p) => pc'[p] \in {"push_head"}
  BY DEF MilestoneParse
<1>16. MilestoneHead(p) => pc'[p] \in {"idle"}
  BY DEF MilestoneHead
<1> HIDE ExitPlain, GotoPlain
<1> QED
  BY <1>1, <1>2, <1>3, <1>4, <1>5, <1>6, <1>7, <1>8, <1>9, <1>10, <1>11,
     <1>12, <1>13, <1>14, <1>15, <1>16 DEF Push
=============================================================================
