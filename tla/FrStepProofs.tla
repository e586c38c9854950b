---------------------------- MODULE FrStepProofs ----------------------------
(***************************************************************************)
(* What TLAPS proves about FrStep: the type of its state, that a gate step *)
(* which succeeds has left its evidence, and that the memory of failed     *)
(* dispatches bounds the repetitions of one failure.                       *)
(***************************************************************************)
EXTENDS FrStep, TLAPS

-----------------------------------------------------------------------------
(* The type of the running invocation.                                      *)

Diffs == {<<>>} \cup (Versions \X Versions)
Snapshots == {<<>>} \cup (Diffs \X (SUBSET Files) \X {"RED", "GREEN", "UNKNOWN"})

RunRecords ==
    [pc : Places, step : Steps \cup {NoStep}, tree : Trees, start : Versions,
     attempt : 0..Limit, round : 0..MaxRounds, passed : BOOLEAN,
     said : {"nothing", "infra", "verdict"}, seen : Snapshots, still : 0..MaxStill - 1,
     fix : FixSteps \cup {NoStep}]

\* A running invocation has a step, a fix round a fix agent.
RunOK ==
    /\ run \in RunRecords
    /\ run.pc # "idle" => run.step \in Steps
    /\ run.pc \in {"rounds", "fix", "regate", "over"} => run.step \in GateSteps
    /\ run.pc = "fix" => run.fix \in FixSteps
    /\ run.pc = "agent" => run.attempt >= 1

StateOK ==
    /\ code \in [work : Versions, committed : Versions] /\ head \in 0..MaxHeads
    /\ dirty \subseteq Files /\ landed \subseteq TddSteps
    /\ gate \in [sentinel : BOOLEAN, complete : BOOLEAN, evidence : BOOLEAN, at : Versions]
    /\ last \in [exit : Exits, step : Steps \cup {NoStep}, work : Versions]
    /\ spent \in [versions : 0..MaxVersions, runs : 0..MaxRuns, kills : 0..MaxKills]

LedgerOK == IsABag(ledger) /\ BagToSet(ledger) \subseteq Rows

TypeInv == RunOK /\ StateOK /\ LedgerOK

-----------------------------------------------------------------------------
(* The memory of failed dispatches.                                         *)

\* Every change of the tree goes on from here: a new commit, or, between two commits, more
\* that is edited or dirty.
Behind(a, b) ==
    \/ a.head < b.head
    \/ a.head = b.head /\ (a.edited => b.edited) /\ a.dirty \subseteq b.dirty

Blocked == <<"GATE1_BLOCKED", Canonical>>

\* One copy more, at most, of each row of a step under a tree with one of the signatures.
RowsGrew(step, sigs, tree) ==
    \A row \in DOMAIN ledger' :
        \/ row \in DOMAIN ledger /\ ledger'[row] = ledger[row]
        \/ /\ row \in DOMAIN ledger /\ ledger'[row] = ledger[row] + 1
           /\ row.step = step /\ row.tree = tree /\ row.sig \in sigs
        \/ /\ row \notin DOMAIN ledger /\ ledger'[row] = 1
           /\ row.step = step /\ row.tree = tree /\ row.sig \in sigs

\* Rows are filed under trees of the past, by earlier invocations or under this one's own.
RowsBehind ==
    /\ \A row \in DOMAIN ledger : Behind(row.tree, TreeFingerprint)
    /\ run.pc # "idle" =>
          /\ Behind(run.tree, TreeFingerprint)
          /\ \A row \in DOMAIN ledger : Behind(row.tree, run.tree)

\* What the running invocation may still add to a row under its own tree.
RowsOpen ==
    /\ run.pc = "agent" =>
          \A row \in DOMAIN ledger : row.step = run.step /\ row.tree = run.tree =>
              ledger[row] <= Limit + run.attempt - 2
    /\ run.pc # "idle" =>
          \A row \in DOMAIN ledger :
              row.step = run.step /\ row.tree = run.tree /\ row.sig = Blocked =>
                  ledger[row] < Limit
    /\ run.pc = "fix" =>
          \A row \in DOMAIN ledger : row.step = run.fix /\ row.tree = run.tree =>
              ledger[row] < Limit

\* The next edit makes a version that was not there before.
VersionsNumbered == code.work <= spent.versions /\ code.committed <= spent.versions

MemoryInv == RowsBehind /\ RowsOpen /\ RepetitionBounded /\ VersionsNumbered

\* Nobody but finalize-gate writes the sentinel, and it writes the timestamp row with it.
EvidenceInv == SuccessIsEvidenced /\ (gate.sentinel => gate.evidence)

-----------------------------------------------------------------------------
(* Facts about the constants and the operators.                             *)

LEMMA Bounds ==
    /\ Limit \in Nat /\ Limit >= 1 /\ MaxRounds \in Nat /\ MaxStill \in Nat /\ MaxStill >= 1
    /\ MaxVersions \in Nat /\ MaxHeads \in Nat /\ MaxRuns \in Nat /\ MaxKills \in Nat
BY FrStepAssumption

LEMMA VerdictKnown ==
    ASSUME NEW v \in Versions
    PROVE  Verdict[v] \in {"RED", "GREEN", "UNKNOWN"}
BY FrStepAssumption

\* Adding one copy of each element of S.
LEMMA OneCopyOfEach ==
    ASSUME NEW B, IsABag(B), NEW S
    PROVE  /\ IsABag(B (+) SetToBag(S))
           /\ DOMAIN (B (+) SetToBag(S)) = DOMAIN B \cup S
           /\ \A r \in DOMAIN B \cup S :
                 (B (+) SetToBag(S))[r] = (IF r \in DOMAIN B THEN B[r] ELSE 0)
                                          + (IF r \in S THEN 1 ELSE 0)
BY DEF IsABag, SetToBag, (+)

\* record_step_failure leaves the other rows alone and adds one copy of those it writes.
LEMMA RowsRecorded ==
    ASSUME LedgerOK, NEW step \in Steps \cup FixSteps, NEW sigs \in SUBSET Signatures,
           NEW tree \in Trees, RecordStepFailures(step, sigs, tree)
    PROVE  /\ LedgerOK'
           /\ RowsGrew(step, sigs, tree)
<1> DEFINE new == {[step |-> step, sig |-> s, tree |-> tree] : s \in sigs}
<1>1. new \subseteq Rows
  BY DEF Rows
<1>2. \A row \in new : row.step = step /\ row.tree = tree /\ row.sig \in sigs
  OBVIOUS
<1>3. ledger' = ledger (+) SetToBag(new)
  BY DEF RecordStepFailures
<1>4. IsABag(ledger)
  BY DEF LedgerOK
<1> HIDE DEF new
<1>5. /\ IsABag(ledger')
      /\ DOMAIN ledger' = DOMAIN ledger \cup new
      /\ \A r \in DOMAIN ledger \cup new :
            ledger'[r] = (IF r \in DOMAIN ledger THEN ledger[r] ELSE 0) + (IF r \in new THEN 1 ELSE 0)
  BY <1>3, <1>4, OneCopyOfEach
<1>6. LedgerOK'
  BY <1>1, <1>5 DEF LedgerOK, BagToSet
<1>7. \A r \in DOMAIN ledger : ledger[r] \in Nat
  BY <1>4 DEF IsABag
<1>8. QED
  BY <1>2, <1>5, <1>6, <1>7 DEF RowsGrew

LEMMA FailureRowsTyped ==
    ASSUME NEW kind, NEW text \in Texts
    PROVE  /\ FailureRows(kind, text) \subseteq Signatures
           /\ Blocked \notin FailureRows(kind, text)
<1>1. \A sig \in FailureRows(kind, text) : sig \in Failures \X (Texts \cup {Canonical})
  BY DEF FailureRows, BudgetKills, Failures
<1>2. Blocked \notin Failures \X (Texts \cup {Canonical})
  BY DEF Blocked, Failures
<1>3. QED
  BY <1>1, <1>2 DEF Signatures

LEMMA OtherRowsTyped ==
    /\ {Blocked} \subseteq Signatures
    /\ \A kind : {<<k, Canonical>> : k \in {kind} \cap {"turns"}} \subseteq Signatures
    /\ \A kind : Blocked \notin {<<k, Canonical>> : k \in {kind} \cap {"turns"}}
BY DEF Blocked, Signatures, Failures

LEMMA StepsApart == Steps \cap FixSteps = {} /\ NoStep \notin Steps \cup FixSteps
BY DEF Steps, TddSteps, GateSteps, FixSteps, NoStep

LEMMA IdleTyped == Idle \in RunRecords /\ Idle.pc = "idle"
BY Bounds DEF Idle, RunRecords, Places, Trees, Files, Versions, Snapshots, NoStep

LEMMA NoExitTyped == NoExit \in [exit : Exits, step : Steps \cup {NoStep}, work : Versions]
BY Bounds DEF NoExit, Exits, Versions

LEMMA FingerprintTyped == StateOK => TreeFingerprint \in Trees
BY DEF StateOK, TreeFingerprint, Trees

LEMMA ExitTyped ==
    ASSUME StateOK, NEW how \in Exits, NEW step \in Steps, Exit(how, step)
    PROVE  RunOK' /\ last' \in [exit : Exits, step : Steps \cup {NoStep}, work : Versions]
BY IdleTyped, Bounds DEF Exit, RunOK, StateOK, Versions

-----------------------------------------------------------------------------
(* The type is invariant.                                                   *)

LEMMA InitTypeInv == Init => TypeInv
<1> SUFFICES ASSUME Init PROVE TypeInv
  OBVIOUS
<1>1. RunOK
  BY IdleTyped DEF Init, RunOK, Idle
<1>2. StateOK
  BY NoExitTyped, Bounds DEF Init, StateOK, Versions, Files
<1>3. LedgerOK
  BY DEF Init, LedgerOK, IsABag, BagToSet, EmptyBag, SetToBag
<1>4. QED
  BY <1>1, <1>2, <1>3 DEF TypeInv

LEMMA InvokeTyped == ASSUME TypeInv, NEW step \in Asked, Invoke(step) PROVE TypeInv'
<1>1. step \in Steps
  BY FrStepAssumption
<1>2. LedgerOK'
  BY DEF TypeInv, LedgerOK, Invoke
<1>3. /\ spent' \in [versions : 0..MaxVersions, runs : 0..MaxRuns, kills : 0..MaxKills]
      /\ code' = code /\ head' = head /\ landed' = landed
  BY Bounds DEF TypeInv, StateOK, Invoke
<1>4. CASE SkipIfAlreadyDone(step)
  <2>1. "ok" \in Exits
    BY DEF Exits
  <2>2. RunOK' /\ last' \in [exit : Exits, step : Steps \cup {NoStep}, work : Versions]
    BY <1>1, <1>4, <2>1, ExitTyped DEF SkipIfAlreadyDone, TypeInv
  <2>3. QED
    BY <1>2, <1>3, <1>4, <2>2 DEF SkipIfAlreadyDone, TypeInv, StateOK, Files
<1>5. CASE PreflightFails(step)
  <2>1. "error" \in Exits
    BY DEF Exits
  <2>2. RunOK' /\ last' \in [exit : Exits, step : Steps \cup {NoStep}, work : Versions]
    BY <1>1, <1>5, <2>1, ExitTyped DEF PreflightFails, TypeInv
  <2>3. QED
    BY <1>2, <1>3, <1>5, <2>2 DEF PreflightFails, TypeInv, StateOK
<1>6. CASE RefuseRepeated(step)
  <2>1. "refused" \in Exits
    BY DEF Exits
  <2>2. RunOK' /\ last' \in [exit : Exits, step : Steps \cup {NoStep}, work : Versions]
    BY <1>1, <1>6, <2>1, ExitTyped DEF RefuseRepeated, AbortRepeatedFailure, TypeInv
  <2>3. QED
    BY <1>2, <1>3, <1>6, <2>2 DEF RefuseRepeated, AbortRepeatedFailure, TypeInv, StateOK, Files
<1>7. CASE Dispatch(step)
  <2>1. TreeFingerprint \in Trees /\ code.committed \in Versions /\ 0 \in Versions
    BY FingerprintTyped, Bounds DEF TypeInv, StateOK, Versions
  <2>2. run' = [Idle EXCEPT !.pc = "agent", !.step = step, !.tree = TreeFingerprint,
                            !.start = IF step \in TddSteps THEN code.committed ELSE 0, !.attempt = 1]
    BY <1>7 DEF Dispatch
  <2> DEFINE from == IF step \in TddSteps THEN code.committed ELSE 0
  <2>6. from \in Versions /\ "agent" \in Places /\ 1 \in 0..Limit
    BY <2>1, Bounds DEF Places
  <2> HIDE DEF from
  <2>7. run' = [Idle EXCEPT !.pc = "agent", !.step = step, !.tree = TreeFingerprint,
                            !.start = from, !.attempt = 1]
    BY <2>2 DEF from
  <2>3. run' \in RunRecords /\ run'.pc = "agent" /\ run'.step = step /\ run'.attempt = 1
    BY <1>1, <2>1, <2>6, <2>7, IdleTyped DEF RunRecords
  <2>4. RunOK'
    BY <1>1, <2>3 DEF RunOK
  <2>5. QED
    BY <1>2, <1>3, <1>7, <2>4, NoExitTyped DEF Dispatch, TypeInv, StateOK
<1>8. QED
  BY <1>4, <1>5, <1>6, <1>7 DEF Invoke

LEMMA FinalizeTyped ==
    ASSUME StateOK, FinalizePass \/ FinalizeFail
    PROVE  /\ code' \in [work : Versions, committed : Versions] /\ head' \in 0..MaxHeads
           /\ dirty' \subseteq Files
           /\ gate' \in [sentinel : BOOLEAN, complete : BOOLEAN, evidence : BOOLEAN, at : Versions]
<1>1. CASE FinalizePass
  BY <1>1, Bounds DEF FinalizePass, MayCommit, Committed, StateOK, Files
<1>2. CASE FinalizeFail
  BY <1>2 DEF FinalizeFail, StateOK, Files
<1>3. QED
  BY <1>1, <1>2

LEMMA AgentTyped ==
    ASSUME TypeInv, AgentEdits \/ AgentCommits \/ AgentFinalizes \/ OperatorEdits \/ OperatorCommits
    PROVE  TypeInv'
<1>1. RunOK' /\ LedgerOK'
  BY DEF TypeInv, RunOK, LedgerOK, AgentEdits, AgentCommits, AgentFinalizes, OperatorEdits, OperatorCommits
<1>2. CASE AgentEdits \/ OperatorEdits
  BY <1>1, <1>2, Bounds DEF AgentEdits, OperatorEdits, NewSources, TypeInv, StateOK, Versions
<1>3. CASE AgentCommits
  BY <1>1, <1>3, Bounds DEF AgentCommits, MayCommit, Committed, TypeInv, StateOK
<1>4. CASE OperatorCommits
  BY <1>1, <1>4, Bounds DEF OperatorCommits, MayCommit, Committed, TypeInv, StateOK
<1>5. CASE AgentFinalizes
  BY <1>1, <1>5, FinalizeTyped DEF AgentFinalizes, TypeInv, StateOK
<1>6. QED
  BY <1>2, <1>3, <1>4, <1>5

LEMMA ReplyTyped ==
    ASSUME TypeInv, NEW kind \in Replies, NEW text \in Texts, Reply(kind, text)
    PROVE  TypeInv'
<1> DEFINE sigs == FailureRows(kind, text)
<1>1. run.pc = "agent" /\ run.step \in Steps /\ run \in RunRecords /\ run.tree \in Trees
  BY DEF Reply, TypeInv, RunOK, RunRecords
<1>2. sigs \in SUBSET Signatures
  BY FailureRowsTyped
<1>3. LedgerOK'
  BY <1>1, <1>2, RowsRecorded DEF Reply, TypeInv
<1>4. landed' = landed /\ spent' = spent
  BY DEF Reply
<1>5. Dirtied(sigs) => dirty' \subseteq Files
  BY DEF Dirtied, TypeInv, StateOK, Files
<1> HIDE DEF sigs
<1>6. CASE RetryStep(kind) /\ Dirtied(sigs)
  <2>1. run' = [run EXCEPT !.attempt = @ + 1] /\ run.attempt < Limit /\ run.attempt \in 0..Limit
    BY <1>1, <1>6 DEF RetryStep, RunRecords
  <2>2. run' \in RunRecords /\ run'.pc = "agent" /\ run'.step = run.step /\ run'.attempt >= 1
    BY <1>1, <2>1, Bounds DEF RunRecords
  <2>3. QED
    BY <1>1, <1>3, <1>4, <1>5, <1>6, <2>2 DEF RetryStep, TypeInv, RunOK, StateOK
<1>7. CASE RouteDispatchError(kind) /\ Dirtied(sigs)
  <2>1. PICK how \in Exits : Exit(how, run.step)
    BY <1>7 DEF RouteDispatchError, Exits
  <2>2. RunOK' /\ last' \in [exit : Exits, step : Steps \cup {NoStep}, work : Versions]
    BY <1>1, <2>1, ExitTyped DEF TypeInv
  <2>3. QED
    BY <1>3, <1>4, <1>5, <1>7, <2>2 DEF RouteDispatchError, TypeInv, StateOK
<1>8. CASE StepAnswered(kind) /\ Dirtied(sigs)
  <2>1. run' \in RunRecords /\ run'.pc = "finish" /\ run'.step = run.step
    BY <1>1, <1>8 DEF StepAnswered, RunRecords, Places
  <2>2. QED
    BY <1>1, <1>3, <1>4, <1>5, <1>8, <2>1 DEF StepAnswered, TypeInv, RunOK, StateOK
<1>9. CASE \E step \in {run.step}, pragma \in BOOLEAN : JudgeGate(step, kind, text, pragma)
  <2>1. PICK pragma \in BOOLEAN : JudgeGate(run.step, kind, text, pragma)
    BY <1>9
  <2>2. /\ code' \in [work : Versions, committed : Versions] /\ head' \in 0..MaxHeads
        /\ dirty' \subseteq Files
        /\ gate' \in [sentinel : BOOLEAN, complete : BOOLEAN, evidence : BOOLEAN, at : Versions]
    BY <1>5, <2>1, FinalizeTyped DEF JudgeGate, TypeInv, StateOK, sigs
  <2>3. /\ run' = [run EXCEPT !.pc = "rounds", !.attempt = 0, !.said = Said(kind),
                              !.passed = (kind = "pass" \/ AlreadyDone(run.step)') /\ ~pragma]
        /\ run.step \in GateSteps /\ last' = last
    BY <2>1 DEF JudgeGate
  <2> DEFINE verdict == (kind = "pass" \/ AlreadyDone(run.step)') /\ ~pragma
  <2>4. verdict \in BOOLEAN /\ Said(kind) \in {"nothing", "infra", "verdict"} /\ 0 \in 0..Limit
        /\ "rounds" \in Places
    BY Bounds DEF Said, Places
  <2> HIDE DEF verdict
  <2>5. run' = [run EXCEPT !.pc = "rounds", !.attempt = 0, !.said = Said(kind), !.passed = verdict]
    BY <2>3 DEF verdict
  <2>6. run' \in RunRecords /\ run'.pc = "rounds" /\ run'.step = run.step
    BY <1>1, <2>4, <2>5 DEF RunRecords
  <2>7. QED
    BY <1>1, <1>3, <1>4, <2>2, <2>3, <2>6 DEF TypeInv, RunOK, StateOK
<1>10. QED
  BY <1>6, <1>7, <1>8, <1>9 DEF Reply, sigs

\* Out of the loop, or in it with one more agent dispatched.
LEMMA OverTyped ==
    ASSUME TypeInv, NEW pc \in {"over", "finish"}, run.pc \in {"rounds", "over"}, run' = Over(pc)
    PROVE  RunOK' /\ run'.step = run.step /\ run'.tree = run.tree
<1>1. run \in RunRecords /\ run.step \in GateSteps
  BY DEF TypeInv, RunOK
<1>2. pc \in Places /\ 0 \in 0..MaxRounds /\ 0 \in 0..MaxStill - 1 /\ <<>> \in Snapshots
  BY Bounds DEF Places, Snapshots
<1>3. /\ run' \in RunRecords /\ run'.pc = pc /\ run'.step = run.step /\ run'.tree = run.tree
  BY <1>1, <1>2 DEF Over, RunRecords
<1>4. QED
  BY <1>1, <1>3 DEF RunOK, Steps

LEMMA SnapshotTyped == StateOK => Snapshot \in Snapshots
<1> SUFFICES ASSUME StateOK PROVE Snapshot \in Snapshots
  OBVIOUS
<1>1. code.work \in Versions /\ code.committed \in Versions /\ dirty \in SUBSET Files
  BY DEF StateOK
<1>2. Verdict[code.work] \in {"RED", "GREEN", "UNKNOWN"}
  BY <1>1, VerdictKnown
<1> DEFINE diff == IF code.work = code.committed THEN <<>> ELSE <<code.work, code.committed>>
<1>3. diff \in Diffs
  BY <1>1 DEF Diffs
<1> HIDE DEF diff
<1>4. <<diff, dirty, Verdict[code.work]>> \in Diffs \X (SUBSET Files) \X {"RED", "GREEN", "UNKNOWN"}
  BY <1>1, <1>2, <1>3
<1>5. QED
  BY <1>4 DEF Snapshot, Snapshots, diff

LEMMA RoundsTyped ==
    ASSUME TypeInv,
           \/ AbortInfra \/ AskAgain \/ AbortNoProgress \/ StopOnEnvironment
           \/ \E fix \in Fixers : RefuseFix(fix) \/ \E same \in BOOLEAN : DispatchFix(fix, same)
    PROVE  TypeInv'
<1>1. /\ run.pc = "rounds" /\ run.round < MaxRounds /\ run.round \in 0..MaxRounds
      /\ run \in RunRecords /\ run.step \in GateSteps /\ run.step \in Steps
  BY DEF AbortInfra, AskAgain, AbortNoProgress, StopOnEnvironment, RefuseFix, DispatchFix, NextRound,
         TypeInv, RunOK, RunRecords, Steps
<1>2. CASE AbortInfra
  <2>1. "environment" \in Exits
    BY DEF Exits
  <2>2. RunOK' /\ last' \in [exit : Exits, step : Steps \cup {NoStep}, work : Versions]
    BY <1>1, <1>2, <2>1, ExitTyped DEF AbortInfra, TypeInv
  <2>3. QED
    BY <1>2, <2>2 DEF AbortInfra, project, TypeInv, StateOK, LedgerOK
<1>3. CASE AskAgain
  <2>1. run' = [run EXCEPT !.pc = "regate", !.round = @ + 1]
    BY <1>3 DEF AskAgain
  <2> DEFINE next == run.round + 1
  <2>4. next \in 0..MaxRounds /\ "regate" \in Places
    BY <1>1, Bounds DEF Places
  <2>5. run' = [run EXCEPT !.pc = "regate", !.round = next]
    BY <2>1
  <2> HIDE DEF next
  <2>2. run' \in RunRecords /\ run'.pc = "regate" /\ run'.step = run.step
    BY <1>1, <2>4, <2>5 DEF RunRecords
  <2>3. QED
    BY <1>1, <1>3, <2>2 DEF AskAgain, project, TypeInv, StateOK, LedgerOK, RunOK
<1>4. CASE AbortNoProgress
  <2>1. "no_progress" \in Exits /\ {Blocked} \in SUBSET Signatures
    BY OtherRowsTyped DEF Exits
  <2>2. RunOK' /\ last' \in [exit : Exits, step : Steps \cup {NoStep}, work : Versions]
    BY <1>1, <1>4, <2>1, ExitTyped DEF AbortNoProgress, TypeInv
  <2>3. StateOK'
    BY <1>4, <2>2 DEF AbortNoProgress, TypeInv, StateOK, Files
  <2>4. (TreeFingerprint)' \in Trees
    BY <2>3 DEF StateOK, TreeFingerprint, Trees
  <2>5. RecordStepFailures(run.step, {Blocked}, TreeFingerprint')
    BY <1>4 DEF AbortNoProgress, Blocked
  <2>6. LedgerOK'
    BY <1>1, <2>1, <2>4, <2>5, RowsRecorded DEF TypeInv
  <2>7. QED
    BY <2>2, <2>3, <2>6 DEF TypeInv
<1>5. CASE StopOnEnvironment
  BY <1>1, <1>5, OverTyped DEF StopOnEnvironment, project, TypeInv, StateOK, LedgerOK
<1>6. CASE \E fix \in Fixers : RefuseFix(fix)
  <2>1. PICK fix \in Fixers : RefuseFix(fix)
    BY <1>6
  <2>2. "refused" \in Exits
    BY DEF Exits
  <2>3. RunOK' /\ last' \in [exit : Exits, step : Steps \cup {NoStep}, work : Versions]
    BY <1>1, <2>1, <2>2, ExitTyped DEF RefuseFix, AbortRepeatedFailure, TypeInv
  <2>4. QED
    BY <2>1, <2>3 DEF RefuseFix, AbortRepeatedFailure, TypeInv, StateOK, LedgerOK, Files
<1>7. CASE \E fix \in Fixers, same \in BOOLEAN : DispatchFix(fix, same)
  <2>1. PICK fix \in Fixers, same \in BOOLEAN : DispatchFix(fix, same)
    BY <1>7
  <2>2. fix \in FixSteps
    BY FrStepAssumption
  <2>3. Snapshot \in Snapshots
    BY SnapshotTyped DEF TypeInv
  <2>4. Still(same) < MaxStill /\ run.still \in 0..MaxStill - 1
    BY <1>1, <2>1 DEF DispatchFix, RunRecords
  <2>5. Still(same) \in 0..MaxStill - 1
    BY <2>4, Bounds DEF Still
  <2> DEFINE next == run.round + 1
  <2>9. next \in 0..MaxRounds /\ "fix" \in Places
    BY <1>1, Bounds DEF Places
  <2>6. run' = [run EXCEPT !.pc = "fix", !.fix = fix, !.round = next, !.seen = Snapshot,
                           !.still = Still(same)]
    BY <2>1 DEF DispatchFix
  <2> HIDE DEF next
  <2>7. run' \in RunRecords /\ run'.pc = "fix" /\ run'.step = run.step /\ run'.fix = fix
    BY <1>1, <2>2, <2>3, <2>5, <2>6, <2>9 DEF RunRecords
  <2>8. QED
    BY <1>1, <2>1, <2>2, <2>7 DEF DispatchFix, project, TypeInv, StateOK, LedgerOK, RunOK
<1>8. QED
  BY <1>2, <1>3, <1>4, <1>5, <1>6, <1>7

LEMMA FixReplyTyped == ASSUME TypeInv, NEW kind \in FixReplies, FixReply(kind) PROVE TypeInv'
<1>1. /\ run.pc = "fix" /\ run \in RunRecords /\ run.step \in GateSteps /\ run.step \in Steps
      /\ run.fix \in FixSteps /\ run.tree \in Trees
  BY DEF FixReply, TypeInv, RunOK, RunRecords, Steps
<1>2. LedgerOK'
  BY <1>1, OtherRowsTyped, RowsRecorded DEF FixReply, TypeInv
<1>3. dirty' \subseteq Files /\ code' = code /\ head' = head /\ landed' = landed /\ spent' = spent
  BY DEF FixReply, TypeInv, StateOK, Files
<1>4. CASE run' = [run EXCEPT !.pc = "regate", !.fix = NoStep] /\ UNCHANGED <<gate, last>>
  <2>1. run' \in RunRecords /\ run'.pc = "regate" /\ run'.step = run.step
    BY <1>1, <1>4 DEF RunRecords, Places
  <2>2. QED
    BY <1>1, <1>2, <1>3, <1>4, <2>1 DEF TypeInv, RunOK, StateOK
<1>5. CASE Exit("environment", run.step) /\ UNCHANGED gate
  <2>1. "environment" \in Exits
    BY DEF Exits
  <2>2. RunOK' /\ last' \in [exit : Exits, step : Steps \cup {NoStep}, work : Versions]
    BY <1>1, <1>5, <2>1, ExitTyped DEF TypeInv
  <2>3. QED
    BY <1>2, <1>3, <1>5, <2>2 DEF TypeInv, StateOK
<1>6. CASE FixInline /\ UNCHANGED last
  <2>1. run' \in RunRecords /\ run'.pc = "rounds" /\ run'.step = run.step
    BY <1>1, <1>6 DEF FixInline, RunRecords, Places
  <2>2. gate' \in [sentinel : BOOLEAN, complete : BOOLEAN, evidence : BOOLEAN, at : Versions]
    BY <1>6 DEF FixInline, TypeInv, StateOK
  <2>3. QED
    BY <1>1, <1>2, <1>3, <1>6, <2>1, <2>2 DEF TypeInv, RunOK, StateOK
<1>7. CASE run' = Over("over") /\ UNCHANGED <<gate, last>>
  <2>1. /\ "over" \in Places /\ 0 \in 0..MaxRounds /\ 0 \in 0..MaxStill - 1 /\ <<>> \in Snapshots
    BY Bounds DEF Places, Snapshots
  <2>2. run' \in RunRecords /\ run'.pc = "over" /\ run'.step = run.step
    BY <1>1, <1>7, <2>1 DEF Over, RunRecords
  <2>3. QED
    BY <1>1, <1>2, <1>3, <1>7, <2>2 DEF TypeInv, RunOK, StateOK
<1>8. QED
  BY <1>4, <1>5, <1>6, <1>7 DEF FixReply

LEMMA RegateReplyTyped == ASSUME TypeInv, NEW kind \in FixReplies, RegateReply(kind) PROVE TypeInv'
<1>1. /\ run.pc = "regate" /\ run \in RunRecords /\ run.step \in GateSteps /\ run.step \in Steps
  BY DEF RegateReply, TypeInv, RunOK, RunRecords, Steps
<1>2. CASE kind = "disconnected" /\ Exit("environment", run.step)
  <2>1. "environment" \in Exits
    BY DEF Exits
  <2>2. RunOK' /\ last' \in [exit : Exits, step : Steps \cup {NoStep}, work : Versions]
    BY <1>1, <1>2, <2>1, ExitTyped DEF TypeInv
  <2>3. QED
    BY <1>2, <2>2 DEF RegateReply, project, TypeInv, StateOK, LedgerOK
<1>3. CASE kind # "disconnected"
  <2> DEFINE verdict == (kind = "pass" \/ AlreadyDone(run.step))
  <2>1. /\ verdict \in BOOLEAN /\ Said(kind) \in {"nothing", "infra", "verdict"} /\ "rounds" \in Places
    BY DEF Said, Places
  <2>2. run' = [run EXCEPT !.pc = "rounds", !.said = Said(kind), !.passed = verdict]
    BY <1>3 DEF RegateReply
  <2> HIDE DEF verdict
  <2>3. run' \in RunRecords /\ run'.pc = "rounds" /\ run'.step = run.step
    BY <1>1, <2>1, <2>2 DEF RunRecords
  <2>4. QED
    BY <1>1, <1>3, <2>3 DEF RegateReply, project, TypeInv, RunOK, StateOK, LedgerOK
<1>4. QED
  BY <1>2, <1>3 DEF RegateReply

LEMMA RoundsEndTyped == ASSUME TypeInv, RoundsEnd PROVE TypeInv'
<1>1. /\ run.pc \in {"rounds", "over"} /\ run \in RunRecords /\ run.step \in Steps
      /\ run.tree \in Trees
  BY DEF RoundsEnd, TypeInv, RunOK, RunRecords, Steps
<1>2. CASE Passed
  BY <1>1, <1>2, OverTyped DEF RoundsEnd, TypeInv, StateOK, LedgerOK
<1>3. CASE ~Passed
  <2>1. "blocked" \in Exits /\ {Blocked} \in SUBSET Signatures
    BY OtherRowsTyped DEF Exits
  <2>2. RunOK' /\ last' \in [exit : Exits, step : Steps \cup {NoStep}, work : Versions]
    BY <1>1, <1>3, <2>1, ExitTyped DEF RoundsEnd, TypeInv
  <2>3. LedgerOK'
    BY <1>1, <1>3, <2>1, RowsRecorded DEF RoundsEnd, TypeInv, Blocked
  <2>4. QED
    BY <1>3, <2>2, <2>3 DEF RoundsEnd, TypeInv, StateOK, Files
<1>4. QED
  BY <1>2, <1>3

LEMMA FinishTyped == ASSUME TypeInv, NEW lands \in BOOLEAN, Finish(lands) PROVE TypeInv'
<1>1. /\ run.pc = "finish" /\ run.step \in Steps
  BY DEF Finish, TypeInv, RunOK
<1>2. PICK how \in Exits : Exit(how, run.step)
  BY DEF Finish, Exits
<1>3. RunOK' /\ last' \in [exit : Exits, step : Steps \cup {NoStep}, work : Versions]
  BY <1>1, <1>2, ExitTyped DEF TypeInv
<1>4. /\ head' \in 0..MaxHeads /\ dirty' \subseteq Files
      /\ gate' \in [sentinel : BOOLEAN, complete : BOOLEAN, evidence : BOOLEAN, at : Versions]
  <2> DEFINE record == run.step \in GateSteps /\ ~AlreadyDone(run.step)
  <2>1. PaperTrail(record, lands) /\ (lands => MayCommit)
    BY DEF Finish
  <2> HIDE DEF record
  <2>2. head' \in 0..MaxHeads
    BY <2>1, Bounds DEF PaperTrail, MayCommit, TypeInv, StateOK
  <2>3. dirty' \subseteq Files
    BY <2>1 DEF PaperTrail, TypeInv, StateOK, Files
  <2>4. gate' \in [sentinel : BOOLEAN, complete : BOOLEAN, evidence : BOOLEAN, at : Versions]
    BY <2>1 DEF PaperTrail, TypeInv, StateOK
  <2>5. QED
    BY <2>2, <2>3, <2>4
<1>5. QED
  BY <1>3, <1>4 DEF Finish, TypeInv, StateOK, LedgerOK

LEMMA KillTyped == ASSUME TypeInv, Kill PROVE TypeInv'
BY IdleTyped, NoExitTyped, Bounds DEF Kill, project, TypeInv, RunOK, StateOK, LedgerOK

LEMMA TypeStep == TypeInv /\ [Next]_vars => TypeInv'
<1> SUFFICES ASSUME TypeInv, [Next]_vars PROVE TypeInv'
  OBVIOUS
<1>1. CASE UNCHANGED vars
  BY <1>1 DEF vars, TypeInv, RunOK, StateOK, LedgerOK
<1>2. CASE Next
  BY <1>2, InvokeTyped, AgentTyped, ReplyTyped, RoundsTyped, FixReplyTyped, RegateReplyTyped,
     RoundsEndTyped, FinishTyped, KillTyped DEF Next, Step
<1>3. QED
  BY <1>1, <1>2

LEMMA TypeInvAlways == Spec => []TypeInv
BY InitTypeInv, TypeStep, PTL DEF Spec

\* The state stays typed: known rows in the ledger, at most Limit attempts of a dispatch and
\* MaxRounds fix rounds, fewer than MaxStill of them in a row without progress.
THEOREM FrTypeSafety == Spec => []FrTypeOK
<1>1. TypeInv => FrTypeOK
  BY Bounds DEF TypeInv, RunOK, StateOK, LedgerOK, RunRecords, FrTypeOK
<1>2. QED
  BY <1>1, TypeInvAlways, PTL

-----------------------------------------------------------------------------
(* A gate step that succeeds has left its evidence.                         *)

LEMMA EvidenceKept ==
    ASSUME TypeInv, Next
    PROVE  (gate.evidence => gate'.evidence)
           /\ (gate'.sentinel => gate.sentinel \/ gate'.evidence)
<1>1. gate \in [sentinel : BOOLEAN, complete : BOOLEAN, evidence : BOOLEAN, at : Versions]
  BY DEF TypeInv, StateOK
<1>2. CASE gate' = gate
  BY <1>2
<1>3. CASE FinalizePass \/ FinalizeFail
  BY <1>1, <1>3 DEF FinalizePass, FinalizeFail
<1>4. CASE gate' = [gate EXCEPT !.evidence = TRUE]
  BY <1>1, <1>4
<1>5. CASE FixInline
  BY <1>1, <1>5 DEF FixInline
<1>6. \/ gate' = gate \/ FinalizePass \/ FinalizeFail \/ gate' = [gate EXCEPT !.evidence = TRUE]
      \/ FixInline
  <2>1. CASE \E step \in Asked : Invoke(step)
    BY <2>1 DEF Invoke, SkipIfAlreadyDone, PreflightFails, RefuseRepeated, Dispatch
  <2>2. CASE \E kind \in Replies, text \in Texts : Reply(kind, text)
    BY <2>2 DEF Reply, RetryStep, RouteDispatchError, StepAnswered, JudgeGate
  <2>3. CASE AbortInfra \/ AskAgain \/ AbortNoProgress \/ StopOnEnvironment \/ Kill
    BY <2>3 DEF AbortInfra, AskAgain, AbortNoProgress, StopOnEnvironment, Kill, project
  <2>4. CASE \E fix \in Fixers : RefuseFix(fix) \/ \E same \in BOOLEAN : DispatchFix(fix, same)
    BY <2>4 DEF RefuseFix, DispatchFix, project
  <2>5. CASE \E kind \in FixReplies : FixReply(kind) \/ RegateReply(kind)
    BY <2>5 DEF FixReply, RegateReply, project
  <2>6. CASE RoundsEnd \/ (\E lands \in BOOLEAN : Finish(lands))
    BY <2>6 DEF RoundsEnd, Finish, PaperTrail
  <2>7. CASE AgentEdits \/ AgentCommits \/ AgentFinalizes \/ OperatorEdits \/ OperatorCommits
    BY <2>7 DEF AgentEdits, AgentCommits, AgentFinalizes, OperatorEdits, OperatorCommits
  <2>8. QED
    BY <2>1, <2>2, <2>3, <2>4, <2>5, <2>6, <2>7 DEF Next, Step
<1>7. QED
  BY <1>2, <1>3, <1>4, <1>5, <1>6

\* Exit 0 is reached by skipping a step that is done and by the end of one that was not.
LEMMA OkExits ==
    ASSUME TypeInv, Next, last'.exit = "ok"
    PROVE  \/ UNCHANGED last
           \/ \E step \in Asked : SkipIfAlreadyDone(step) /\ last'.step = step
           \/ \E lands \in BOOLEAN : Finish(lands) /\ last'.step = run.step
<1>1. CASE \E step \in Asked : Invoke(step)
  BY <1>1 DEF Invoke, SkipIfAlreadyDone, PreflightFails, RefuseRepeated, AbortRepeatedFailure,
              Dispatch, Exit, NoExit
<1>2. CASE \E kind \in Replies, text \in Texts : Reply(kind, text)
  <2>1. PICK kind \in Replies, text \in Texts : Reply(kind, text)
    BY <1>2
  <2>2. CASE RouteDispatchError(kind)
    <3>1. Exit("environment", run.step) \/ Exit("error", run.step)
      BY <2>2 DEF RouteDispatchError
    <3>2. QED
      BY <3>1 DEF Exit
  <2>3. CASE RetryStep(kind) \/ StepAnswered(kind)
             \/ \E step \in {run.step}, pragma \in BOOLEAN : JudgeGate(step, kind, text, pragma)
    BY <2>3 DEF RetryStep, StepAnswered, JudgeGate
  <2>4. QED
    BY <2>1, <2>2, <2>3 DEF Reply
<1>3. CASE AbortInfra \/ AskAgain \/ AbortNoProgress \/ StopOnEnvironment \/ Kill
  BY <1>3 DEF AbortInfra, AskAgain, AbortNoProgress, StopOnEnvironment, Kill, Exit, NoExit
<1>4. CASE \E fix \in Fixers : RefuseFix(fix) \/ \E same \in BOOLEAN : DispatchFix(fix, same)
  <2>1. ASSUME NEW fix \in Fixers, RefuseFix(fix) PROVE Exit("refused", run.step)
    BY <2>1 DEF RefuseFix, AbortRepeatedFailure
  <2>2. ASSUME NEW fix \in Fixers, NEW same \in BOOLEAN, DispatchFix(fix, same) PROVE UNCHANGED last
    BY <2>2 DEF DispatchFix
  <2>3. QED
    BY <1>4, <2>1, <2>2 DEF Exit
<1>5. CASE \E kind \in FixReplies : FixReply(kind) \/ RegateReply(kind)
  BY <1>5 DEF FixReply, RegateReply, Exit
<1>6. CASE RoundsEnd
  BY <1>6 DEF RoundsEnd, Exit
<1>7. CASE \E lands \in BOOLEAN : Finish(lands)
  BY <1>7 DEF Finish, Exit
<1>8. CASE AgentEdits \/ AgentCommits \/ AgentFinalizes \/ OperatorEdits \/ OperatorCommits
  BY <1>8 DEF AgentEdits, AgentCommits, AgentFinalizes, OperatorEdits, OperatorCommits
<1>9. QED
  BY <1>1, <1>2, <1>3, <1>4, <1>5, <1>6, <1>7, <1>8 DEF Next, Step

LEMMA EvidenceStep == TypeInv /\ EvidenceInv /\ [Next]_vars => EvidenceInv'
<1> SUFFICES ASSUME TypeInv, EvidenceInv, [Next]_vars PROVE EvidenceInv'
  OBVIOUS
<1>1. CASE UNCHANGED vars
  BY <1>1 DEF vars, EvidenceInv, SuccessIsEvidenced
<1>2. CASE Next
  <2>1. gate'.sentinel => gate'.evidence
    BY <1>2, EvidenceKept DEF EvidenceInv
  <2>2. ASSUME last'.exit = "ok", last'.step \in GateSteps PROVE gate'.evidence
    <3>1. CASE UNCHANGED last
      BY <1>2, <2>2, <3>1, EvidenceKept DEF EvidenceInv, SuccessIsEvidenced
    <3>2. CASE \E step \in Asked : SkipIfAlreadyDone(step) /\ last'.step = step
      <4>1. PICK step \in Asked : SkipIfAlreadyDone(step) /\ last'.step = step
        BY <3>2
      <4>2. CASE step = "GATE1-DELTA"
        BY <4>1, <4>2 DEF SkipIfAlreadyDone, TypeInv, StateOK
      <4>3. CASE step = "GATE1"
        BY <4>1, <4>3 DEF SkipIfAlreadyDone, AlreadyDone, EvidenceInv
      <4>4. QED
        BY <2>2, <4>1, <4>2, <4>3 DEF GateSteps
    <3>3. CASE \E lands \in BOOLEAN : Finish(lands) /\ last'.step = run.step
      <4>1. PICK lands \in BOOLEAN :
                /\ run.step \in GateSteps
                /\ PaperTrail(run.step \in GateSteps /\ ~AlreadyDone(run.step), lands)
        BY <2>2, <3>3 DEF Finish
      <4>2. CASE AlreadyDone(run.step)
        <5>1. gate' = gate
          BY <4>1, <4>2 DEF PaperTrail
        <5>2. gate.sentinel
          BY <4>1, <4>2 DEF AlreadyDone, GateSteps
        <5>3. QED
          BY <5>1, <5>2 DEF EvidenceInv
      <4>3. CASE ~AlreadyDone(run.step)
        BY <4>1, <4>3 DEF PaperTrail, TypeInv, StateOK
      <4>4. QED
        BY <4>2, <4>3
    <3>4. QED
      BY <1>2, <2>2, <3>1, <3>2, <3>3, OkExits
  <2>3. QED
    BY <2>1, <2>2 DEF EvidenceInv, SuccessIsEvidenced
<1>3. QED
  BY <1>1, <1>2

\* Whatever the agents and the operator do in between, a gate step that returned 0 has a
\* timestamp row: skipped, passed by finalize-gate, or passed on the agent's word.
THEOREM GateSuccessEvidenced == Spec => []SuccessIsEvidenced
<1>1. Init => EvidenceInv
  BY DEF Init, NoExit, EvidenceInv, SuccessIsEvidenced
<1>2. EvidenceInv => SuccessIsEvidenced
  BY DEF EvidenceInv
<1>3. QED
  BY <1>1, <1>2, EvidenceStep, TypeInvAlways, PTL DEF Spec

-----------------------------------------------------------------------------
(* One failure is recorded a bounded number of times.                       *)

\* Behind is an order on the trees.
LEMMA BehindItself == \A a \in Trees : Behind(a, a)
BY DEF Behind, Trees

LEMMA BehindTransitive ==
    ASSUME NEW a \in Trees, NEW b \in Trees, NEW c \in Trees, Behind(a, b), Behind(b, c)
    PROVE  Behind(a, c)
<1>1. a.head \in Int /\ b.head \in Int /\ c.head \in Int
  BY DEF Trees
<1>2. QED
  BY <1>1 DEF Behind

LEMMA BehindBothWays ==
    ASSUME NEW a \in Trees, NEW b \in Trees, Behind(a, b), Behind(b, a)
    PROVE  a = b
<1>1. a.head \in Int /\ b.head \in Int
  BY DEF Trees
<1>2. a.head = b.head /\ a.edited = b.edited /\ a.dirty = b.dirty
  BY <1>1 DEF Behind, Trees
<1>3. QED
  BY <1>2 DEF Trees

\* git only ever goes forward: a commit, or more changes on top of the last one.
LEMMA TreeAdvances ==
    ASSUME TypeInv, VersionsNumbered, Next
    PROVE  Behind(TreeFingerprint, TreeFingerprint') /\ VersionsNumbered'
<1>1. /\ code \in [work : Versions, committed : Versions] /\ head \in Int /\ spent.versions \in Int
      /\ gate \in [sentinel : BOOLEAN, complete : BOOLEAN, evidence : BOOLEAN, at : Versions]
  BY Bounds DEF TypeInv, StateOK
<1>2. code.work \in Int /\ code.committed \in Int /\ spent \in [versions : 0..MaxVersions, runs : 0..MaxRuns, kills : 0..MaxKills]
  BY <1>1, Bounds DEF Versions, TypeInv, StateOK
<1>3. CASE code' = code /\ spent'.versions = spent.versions
           /\ \/ head' = head /\ dirty \subseteq dirty'
              \/ head' = head + 1
  BY <1>1, <1>3 DEF Behind, TreeFingerprint, VersionsNumbered
<1>4. CASE Committed /\ head' = head + 1 /\ spent' = spent
  BY <1>1, <1>2, <1>4 DEF Behind, TreeFingerprint, VersionsNumbered, Committed
<1>5. CASE NewSources /\ spent' = [spent EXCEPT !.versions = @ + 1] /\ UNCHANGED <<head, dirty>>
  BY <1>1, <1>2, <1>5 DEF Behind, TreeFingerprint, VersionsNumbered, NewSources
<1>6. CASE \E step \in Asked : Invoke(step)
  <2>1. spent'.versions = spent.versions
    BY <1>2, <1>6 DEF Invoke
  <2>2. QED
    BY <1>3, <1>6, <2>1
    DEF Invoke, SkipIfAlreadyDone, PreflightFails, RefuseRepeated, AbortRepeatedFailure, Dispatch
<1>7. CASE \E kind \in Replies, text \in Texts : Reply(kind, text)
  <2>1. PICK kind \in Replies, text \in Texts : Reply(kind, text)
    BY <1>7
  <2>2. CASE UNCHANGED <<code, head>> /\ Dirtied(FailureRows(kind, text))
    BY <1>3, <2>1, <2>2 DEF Reply, Dirtied
  <2>3. CASE FinalizePass
    BY <1>4, <2>1, <2>3 DEF Reply, FinalizePass
  <2>4. CASE FinalizeFail
    BY <1>3, <2>1, <2>4 DEF Reply, FinalizeFail
  <2>5. QED
    BY <2>1, <2>2, <2>3, <2>4 DEF Reply, RetryStep, RouteDispatchError, StepAnswered, JudgeGate
<1>8. CASE AbortInfra \/ AskAgain \/ AbortNoProgress \/ StopOnEnvironment
  BY <1>3, <1>8 DEF AbortInfra, AskAgain, AbortNoProgress, StopOnEnvironment, project
<1>9. CASE Kill
  BY <1>2, <1>3, <1>9 DEF Kill, project
<1>10. CASE \E fix \in Fixers : RefuseFix(fix) \/ \E same \in BOOLEAN : DispatchFix(fix, same)
  BY <1>3, <1>10 DEF RefuseFix, DispatchFix, AbortRepeatedFailure, project
<1>11. CASE \E kind \in FixReplies : FixReply(kind) \/ RegateReply(kind)
  BY <1>3, <1>11 DEF FixReply, RegateReply, project
<1>12. CASE RoundsEnd
  BY <1>3, <1>12 DEF RoundsEnd
<1>13. CASE \E lands \in BOOLEAN : Finish(lands)
  BY <1>3, <1>13 DEF Finish, PaperTrail
<1>14. CASE AgentEdits \/ OperatorEdits
  BY <1>5, <1>14 DEF AgentEdits, OperatorEdits
<1>15. CASE AgentCommits \/ OperatorCommits
  BY <1>4, <1>15 DEF AgentCommits, OperatorCommits
<1>16. CASE AgentFinalizes
  BY <1>3, <1>4, <1>16 DEF AgentFinalizes, FinalizePass, FinalizeFail
<1>17. QED
  BY <1>6, <1>7, <1>8, <1>9, <1>10, <1>11, <1>12, <1>13, <1>14, <1>15, <1>16 DEF Next, Step

\* New rows are filed under the tree of the invocation that writes them, or, when it ends
\* there, under the tree as it is now.
LEMMA RowsStayBehind ==
    ASSUME TypeInv, TypeInv', RowsBehind, Behind(TreeFingerprint, TreeFingerprint'),
           \/ run.pc # "idle" /\ run'.pc # "idle" /\ run'.tree = run.tree
              /\ \A row \in DOMAIN ledger' : row \in DOMAIN ledger \/ row.tree = run.tree
           \/ run.pc = "idle" /\ run'.pc # "idle" /\ run'.tree = TreeFingerprint /\ ledger' = ledger
           \/ run'.pc = "idle" /\ run.pc # "idle"
              /\ \A row \in DOMAIN ledger' :
                    row \in DOMAIN ledger \/ row.tree \in {run.tree, TreeFingerprint'}
           \/ run'.pc = "idle" /\ ledger' = ledger
    PROVE  RowsBehind'
<1>1. /\ TreeFingerprint \in Trees /\ TreeFingerprint' \in Trees
      /\ run.tree \in Trees /\ run'.tree \in Trees
  BY DEF TypeInv, RunOK, RunRecords, StateOK, TreeFingerprint, Trees
<1>2. /\ \A row \in DOMAIN ledger : row.tree \in Trees
      /\ \A row \in DOMAIN ledger' : row.tree \in Trees
  BY DEF TypeInv, LedgerOK, BagToSet, Rows
<1>3. \A row \in DOMAIN ledger : Behind(row.tree, TreeFingerprint')
  BY <1>1, <1>2, BehindTransitive DEF RowsBehind
<1>4. run.pc # "idle" => Behind(run.tree, TreeFingerprint')
  BY <1>1, BehindTransitive DEF RowsBehind
<1>5. Behind(run.tree, run.tree) /\ Behind(TreeFingerprint', TreeFingerprint')
  BY <1>1, BehindItself
<1>6. \A row \in DOMAIN ledger' : Behind(row.tree, TreeFingerprint')
  BY <1>3, <1>4, <1>5
<1>7. ASSUME run'.pc # "idle"
      PROVE  /\ Behind(run'.tree, TreeFingerprint')
             /\ \A row \in DOMAIN ledger' : Behind(row.tree, run'.tree)
  BY <1>4, <1>5, <1>7 DEF RowsBehind
<1>8. QED
  BY <1>6, <1>7 DEF RowsBehind

\* A step that writes no row and opens none.
LEMMA NoRowWritten ==
    ASSUME RowsOpen, RepetitionBounded, ledger' = ledger,
           \/ run'.pc = "idle"
           \/ /\ run.pc # "idle" /\ run'.step = run.step /\ run'.tree = run.tree
              /\ run'.pc = "agent" => run.pc = "agent" /\ run'.attempt = run.attempt
              /\ run'.pc = "fix" => run.pc = "fix" /\ run'.fix = run.fix
    PROVE  RowsOpen' /\ RepetitionBounded'
BY DEF RowsOpen, RepetitionBounded, BagToSet

\* What no row of (step, tree) exceeds when RepeatedFailure lets a dispatch through.
LEMMA BelowLimit ==
    ASSUME LedgerOK, NEW step, NEW tree, ~RepeatedFailure(step, tree),
           NEW row \in DOMAIN ledger, row.step = step, row.tree = tree
    PROVE  ledger[row] < Limit
<1>1. ledger[row] \in Nat
  BY DEF LedgerOK, IsABag
<1>2. QED
  BY <1>1, Bounds DEF RepeatedFailure, BagToSet

LEMMA InvokeBounded ==
    ASSUME TypeInv, MemoryInv, NEW step \in Asked, Invoke(step)
    PROVE  RowsOpen' /\ RepetitionBounded'
<1>1. ledger' = ledger
  BY DEF Invoke
<1>2. CASE run'.pc = "idle"
  BY <1>1, <1>2, NoRowWritten DEF MemoryInv
<1>3. CASE Dispatch(step)
  <2>1. step \in Steps
    BY FrStepAssumption
  <2>2. run'.pc = "agent" /\ run'.step = step /\ run'.tree = TreeFingerprint /\ run'.attempt = 1
    BY <1>3 DEF Dispatch, Idle
  <2>3. \A row \in DOMAIN ledger : row.step = step /\ row.tree = TreeFingerprint => ledger[row] < Limit
    BY <1>3, BelowLimit DEF Dispatch, TypeInv
  <2>4. \A row \in DOMAIN ledger : ledger[row] \in Nat
    BY DEF TypeInv, LedgerOK, IsABag
  <2>5. RowsOpen'
    BY <1>1, <2>2, <2>3, <2>4, Bounds DEF RowsOpen
  <2>6. QED
    BY <1>1, <2>5 DEF MemoryInv, RepetitionBounded, BagToSet
<1>4. SkipIfAlreadyDone(step) \/ PreflightFails(step) \/ RefuseRepeated(step) => run'.pc = "idle"
  BY IdleTyped DEF SkipIfAlreadyDone, PreflightFails, RefuseRepeated, AbortRepeatedFailure, Exit
<1>5. QED
  BY <1>2, <1>3, <1>4 DEF Invoke

\* One attempt more adds one copy at most to each row of the step.
LEMMA ReplyBounded ==
    ASSUME TypeInv, MemoryInv, NEW kind \in Replies, NEW text \in Texts, Reply(kind, text)
    PROVE  RowsOpen' /\ RepetitionBounded'
<1> DEFINE sigs == FailureRows(kind, text)
<1>1. /\ run.pc = "agent" /\ run \in RunRecords /\ run.step \in Steps /\ run.tree \in Trees
      /\ run.attempt \in 1..Limit
  BY Bounds DEF Reply, TypeInv, RunOK, RunRecords
<1>2. sigs \in SUBSET Signatures /\ Blocked \notin sigs
  BY FailureRowsTyped
<1> HIDE DEF sigs
<1>3. RowsGrew(run.step, sigs, run.tree)
  BY <1>1, <1>2, RowsRecorded DEF Reply, TypeInv, sigs
<1>4. \A row \in DOMAIN ledger :
         /\ ledger[row] \in Nat /\ ledger[row] <= 2 * Limit - 1
         /\ row.step = run.step /\ row.tree = run.tree => ledger[row] <= Limit + run.attempt - 2
         /\ row.step = run.step /\ row.tree = run.tree /\ row.sig = Blocked => ledger[row] < Limit
  BY <1>1 DEF TypeInv, LedgerOK, IsABag, MemoryInv, RowsOpen, RepetitionBounded, BagToSet
<1>5. \A row \in DOMAIN ledger' :
         row.step = run.step /\ row.tree = run.tree => ledger'[row] <= Limit + run.attempt - 1
  BY <1>1, <1>3, <1>4, Bounds DEF RowsGrew
<1>6. \A row \in DOMAIN ledger' :
         row.step = run.step /\ row.tree = run.tree /\ row.sig = Blocked => ledger'[row] < Limit
  BY <1>2, <1>3, <1>4 DEF RowsGrew
<1>7. \A row \in DOMAIN ledger' : ledger'[row] <= 2 * Limit - 1
  BY <1>1, <1>3, <1>4, <1>5, Bounds DEF RowsGrew
<1>8. RepetitionBounded'
  BY <1>7 DEF RepetitionBounded, BagToSet
<1>9. CASE run'.pc = "idle"
  BY <1>8, <1>9 DEF RowsOpen
<1>10. CASE run'.pc \notin {"idle", "agent", "fix"} /\ run'.step = run.step /\ run'.tree = run.tree
  BY <1>6, <1>8, <1>10 DEF RowsOpen
<1>11. CASE RetryStep(kind)
  <2>1. /\ run'.pc = "agent" /\ run'.step = run.step /\ run'.tree = run.tree
        /\ run'.attempt = run.attempt + 1
    BY <1>1, <1>11 DEF RetryStep, RunRecords
  <2>2. Limit + run'.attempt - 2 = Limit + run.attempt - 1
    BY <1>1, <2>1, Bounds
  <2>3. QED
    BY <1>5, <1>6, <1>8, <2>1, <2>2 DEF RowsOpen
<1>12. RouteDispatchError(kind) => run'.pc = "idle"
  BY IdleTyped DEF RouteDispatchError, Exit
<1>13. StepAnswered(kind) \/ (\E step \in {run.step}, pragma \in BOOLEAN : JudgeGate(step, kind, text, pragma))
          => run'.pc \notin {"idle", "agent", "fix"} /\ run'.step = run.step /\ run'.tree = run.tree
  BY <1>1 DEF StepAnswered, JudgeGate, RunRecords
<1>14. QED
  BY <1>8, <1>9, <1>10, <1>11, <1>12, <1>13 DEF Reply

LEMMA AbortBounded == ASSUME TypeInv, TypeInv', MemoryInv, Next, AbortNoProgress PROVE RepetitionBounded'
<1>1. /\ run.pc = "rounds" /\ run \in RunRecords /\ run.step \in Steps /\ run.tree \in Trees
  BY DEF AbortNoProgress, NextRound, TypeInv, RunOK, RunRecords, Steps
<1> DEFINE now == TreeFingerprint'
<1>2. now \in Trees /\ TreeFingerprint \in Trees
  BY DEF TypeInv, StateOK, TreeFingerprint, Trees
<1>3. RecordStepFailures(run.step, {Blocked}, now)
  BY DEF AbortNoProgress, Blocked
<1>4. Behind(run.tree, now)
  BY <1>1, <1>2, TreeAdvances, BehindTransitive DEF MemoryInv, RowsBehind
<1>5. \A row \in DOMAIN ledger : row.tree \in Trees /\ Behind(row.tree, run.tree)
  BY <1>1 DEF TypeInv, LedgerOK, BagToSet, Rows, MemoryInv, RowsBehind
<1> HIDE DEF now
<1>6. RowsGrew(run.step, {Blocked}, now)
  BY <1>1, <1>2, <1>3, OtherRowsTyped, RowsRecorded DEF TypeInv
<1>7. \A row \in DOMAIN ledger : row.tree = now => row.tree = run.tree
  BY <1>1, <1>2, <1>4, <1>5, BehindBothWays
<1>8. \A row \in DOMAIN ledger :
         /\ ledger[row] \in Nat /\ ledger[row] <= 2 * Limit - 1
         /\ row.step = run.step /\ row.tree = run.tree /\ row.sig = Blocked => ledger[row] < Limit
  BY <1>1 DEF TypeInv, LedgerOK, IsABag, MemoryInv, RowsOpen, RepetitionBounded, BagToSet
<1>9. \A row \in DOMAIN ledger' : ledger'[row] <= 2 * Limit - 1
  BY <1>6, <1>7, <1>8, Bounds DEF RowsGrew
<1>10. QED
  BY <1>9 DEF RepetitionBounded, BagToSet

\* A fix agent is dispatched once in a round, when its rows are below the limit.
LEMMA DispatchFixBounded ==
    ASSUME TypeInv, MemoryInv, NEW fix \in Fixers, NEW same \in BOOLEAN, DispatchFix(fix, same)
    PROVE  RowsOpen' /\ RepetitionBounded'
<1>1. /\ run.pc = "rounds" /\ ledger' = ledger /\ run \in RunRecords
  BY DEF DispatchFix, NextRound, TypeInv, RunOK
<1>2. run'.pc = "fix" /\ run'.fix = fix /\ run'.step = run.step /\ run'.tree = run.tree
  BY <1>1 DEF DispatchFix, RunRecords
<1>3. \A row \in DOMAIN ledger : row.step = fix /\ row.tree = run.tree => ledger[row] < Limit
  BY BelowLimit DEF DispatchFix, TypeInv
<1>4. QED
  BY <1>1, <1>2, <1>3 DEF MemoryInv, RowsOpen, RepetitionBounded, BagToSet

LEMMA FixReplyBounded ==
    ASSUME TypeInv, MemoryInv, NEW kind \in FixReplies, FixReply(kind)
    PROVE  RowsOpen' /\ RepetitionBounded'
<1> DEFINE sigs == {<<k, Canonical>> : k \in {kind} \cap {"turns"}}
<1>1. /\ run.pc = "fix" /\ run \in RunRecords /\ run.fix \in FixSteps /\ run.tree \in Trees
      /\ run.step \in Steps
  BY DEF FixReply, TypeInv, RunOK, RunRecords
<1>2. sigs \in SUBSET Signatures /\ RecordStepFailures(run.fix, sigs, run.tree)
  BY OtherRowsTyped DEF FixReply
<1> HIDE DEF sigs
<1>3. RowsGrew(run.fix, sigs, run.tree)
  BY <1>1, <1>2, RowsRecorded DEF TypeInv
<1>4. run.fix # run.step
  BY <1>1, StepsApart
<1>5. \A row \in DOMAIN ledger :
         /\ ledger[row] \in Nat /\ ledger[row] <= 2 * Limit - 1
         /\ row.step = run.fix /\ row.tree = run.tree => ledger[row] < Limit
         /\ row.step = run.step /\ row.tree = run.tree /\ row.sig = Blocked => ledger[row] < Limit
  BY <1>1 DEF TypeInv, LedgerOK, IsABag, MemoryInv, RowsOpen, RepetitionBounded, BagToSet
<1>6. \A row \in DOMAIN ledger' : ledger'[row] <= 2 * Limit - 1
  BY <1>3, <1>5, Bounds DEF RowsGrew
<1>7. \A row \in DOMAIN ledger' :
         row.step = run.step /\ row.tree = run.tree /\ row.sig = Blocked => ledger'[row] < Limit
  BY <1>3, <1>4, <1>5 DEF RowsGrew
<1>8. \/ run'.pc = "idle"
      \/ run'.pc \in {"regate", "rounds", "over"} /\ run'.step = run.step /\ run'.tree = run.tree
  <2>1. CASE Exit("environment", run.step)
    BY <2>1, IdleTyped DEF Exit
  <2>2. CASE FixInline \/ run' = [run EXCEPT !.pc = "regate", !.fix = NoStep]
    BY <1>1, <2>2 DEF FixInline, RunRecords
  <2>3. CASE run' = Over("over")
    BY <1>1, <2>3 DEF Over, RunRecords
  <2>4. QED
    BY <2>1, <2>2, <2>3 DEF FixReply
<1>9. QED
  BY <1>6, <1>7, <1>8 DEF RowsOpen, RepetitionBounded, BagToSet

LEMMA RoundsEndBounded ==
    ASSUME TypeInv, MemoryInv, RoundsEnd
    PROVE  RowsOpen' /\ RepetitionBounded'
<1>1. /\ run.pc \in {"rounds", "over"} /\ run \in RunRecords /\ run.step \in Steps /\ run.tree \in Trees
  BY DEF RoundsEnd, TypeInv, RunOK, RunRecords, Steps
<1>2. CASE Passed
  <2>1. run'.pc = "finish" /\ run'.step = run.step /\ run'.tree = run.tree /\ ledger' = ledger
    BY <1>1, <1>2 DEF RoundsEnd, Over, RunRecords
  <2>2. QED
    BY <1>1, <2>1, NoRowWritten DEF MemoryInv
<1>3. CASE ~Passed
  <2>1. RecordStepFailures(run.step, {Blocked}, run.tree) /\ run'.pc = "idle"
    BY <1>3, IdleTyped DEF RoundsEnd, Blocked, Exit
  <2>2. RowsGrew(run.step, {Blocked}, run.tree)
    BY <1>1, <2>1, OtherRowsTyped, RowsRecorded DEF TypeInv
  <2>3. \A row \in DOMAIN ledger :
           /\ ledger[row] \in Nat /\ ledger[row] <= 2 * Limit - 1
           /\ row.step = run.step /\ row.tree = run.tree /\ row.sig = Blocked => ledger[row] < Limit
    BY <1>1 DEF TypeInv, LedgerOK, IsABag, MemoryInv, RowsOpen, RepetitionBounded, BagToSet
  <2>4. \A row \in DOMAIN ledger' : ledger'[row] <= 2 * Limit - 1
    BY <2>2, <2>3, Bounds DEF RowsGrew
  <2>5. QED
    BY <2>1, <2>4 DEF RowsOpen, RepetitionBounded, BagToSet
<1>4. QED
  BY <1>2, <1>3

\* Which of the four ways of RowsStayBehind a step is.
LEMMA RowsFiled ==
    ASSUME TypeInv, TypeInv', Next
    PROVE  \/ run.pc # "idle" /\ run'.pc # "idle" /\ run'.tree = run.tree
              /\ \A row \in DOMAIN ledger' : row \in DOMAIN ledger \/ row.tree = run.tree
           \/ run.pc = "idle" /\ run'.pc # "idle" /\ run'.tree = TreeFingerprint /\ ledger' = ledger
           \/ run'.pc = "idle" /\ run.pc # "idle"
              /\ \A row \in DOMAIN ledger' :
                    row \in DOMAIN ledger \/ row.tree \in {run.tree, TreeFingerprint'}
           \/ run'.pc = "idle" /\ ledger' = ledger
<1>1. run \in RunRecords /\ IsABag(ledger)
  BY DEF TypeInv, RunOK, LedgerOK
<1>2. \A step, sigs, tree : RecordStepFailures(step, sigs, tree) =>
         \A row \in DOMAIN ledger' : row \in DOMAIN ledger \/ row.tree = tree
  <2>1. SUFFICES ASSUME NEW step, NEW sigs, NEW tree, RecordStepFailures(step, sigs, tree),
                        NEW row \in DOMAIN ledger', row \notin DOMAIN ledger
                 PROVE  row.tree = tree
    OBVIOUS
  <2> DEFINE new == {[step |-> step, sig |-> s, tree |-> tree] : s \in sigs}
  <2>2. DOMAIN ledger' = DOMAIN ledger \cup new
    BY <1>1, <2>1, OneCopyOfEach DEF RecordStepFailures
  <2>3. QED
    BY <2>1, <2>2
<1>3. CASE \E step \in Asked : Invoke(step)
  BY <1>3, IdleTyped DEF Invoke, SkipIfAlreadyDone, PreflightFails, RefuseRepeated,
     AbortRepeatedFailure, Dispatch, Exit, Idle
<1>4. CASE \E kind \in Replies, text \in Texts : Reply(kind, text)
  <2>1. PICK kind \in Replies, text \in Texts : Reply(kind, text)
    BY <1>4
  <2>2. /\ run.pc # "idle"
        /\ \A row \in DOMAIN ledger' : row \in DOMAIN ledger \/ row.tree = run.tree
    BY <1>2, <2>1 DEF Reply
  <2>3. run'.pc = "idle" \/ (run'.pc # "idle" /\ run'.tree = run.tree)
    <3>1. CASE RetryStep(kind) \/ StepAnswered(kind)
               \/ \E step \in {run.step}, pragma \in BOOLEAN : JudgeGate(step, kind, text, pragma)
      BY <1>1, <2>1, <3>1 DEF Reply, RetryStep, StepAnswered, JudgeGate, RunRecords
    <3>2. CASE RouteDispatchError(kind)
      BY <3>2, IdleTyped DEF RouteDispatchError, Exit
    <3>3. QED
      BY <2>1, <3>1, <3>2 DEF Reply
  <2>4. QED
    BY <2>2, <2>3
<1>5. CASE AbortInfra \/ AskAgain \/ StopOnEnvironment
  BY <1>1, <1>5, IdleTyped
  DEF AbortInfra, AskAgain, StopOnEnvironment, NextRound, Exit, Over, RunRecords
<1>6. CASE AbortNoProgress
  BY <1>2, <1>6, IdleTyped DEF AbortNoProgress, NextRound, Exit
<1>7. CASE \E fix \in Fixers : RefuseFix(fix) \/ \E same \in BOOLEAN : DispatchFix(fix, same)
  BY <1>1, <1>7, IdleTyped DEF RefuseFix, DispatchFix, NextRound, AbortRepeatedFailure, Exit, RunRecords
<1>8. CASE \E kind \in FixReplies : FixReply(kind)
  <2>1. PICK kind \in FixReplies : FixReply(kind)
    BY <1>8
  <2>2. /\ run.pc # "idle"
        /\ \A row \in DOMAIN ledger' : row \in DOMAIN ledger \/ row.tree = run.tree
    BY <1>2, <2>1 DEF FixReply
  <2>3. run'.pc = "idle" \/ (run'.pc # "idle" /\ run'.tree = run.tree)
    <3>1. CASE Exit("environment", run.step)
      BY <3>1, IdleTyped DEF Exit
    <3>2. CASE FixInline \/ run' = [run EXCEPT !.pc = "regate", !.fix = NoStep]
      BY <1>1, <2>1, <3>2 DEF FixReply, FixInline, RunRecords
    <3>3. CASE run' = Over("over")
      BY <1>1, <3>3 DEF Over, RunRecords
    <3>4. QED
      BY <2>1, <3>1, <3>2, <3>3 DEF FixReply
  <2>4. QED
    BY <2>2, <2>3
<1>9. CASE \E kind \in FixReplies : RegateReply(kind)
  BY <1>1, <1>9, IdleTyped DEF RegateReply, Exit, RunRecords
<1>10. CASE RoundsEnd
  <2>1. run.pc # "idle"
    BY <1>10 DEF RoundsEnd
  <2>2. CASE Passed
    BY <1>1, <1>10, <2>1, <2>2 DEF RoundsEnd, Over, RunRecords
  <2>3. CASE ~Passed
    <3>1. run'.pc = "idle" /\ RecordStepFailures(run.step, {Blocked}, run.tree)
      BY <1>10, <2>3, IdleTyped DEF RoundsEnd, Exit, Blocked
    <3>2. QED
      BY <1>2, <2>1, <3>1
  <2>4. QED
    BY <2>2, <2>3
<1>11. CASE Kill \/ (\E lands \in BOOLEAN : Finish(lands))
  BY <1>11, IdleTyped DEF Kill, Finish, Exit
<1>12. CASE AgentEdits \/ AgentCommits \/ AgentFinalizes \/ OperatorEdits \/ OperatorCommits
  BY <1>12 DEF AgentEdits, AgentCommits, AgentFinalizes, OperatorEdits, OperatorCommits
<1>13. QED
  BY <1>3, <1>4, <1>5, <1>6, <1>7, <1>8, <1>9, <1>10, <1>11, <1>12 DEF Next, Step

LEMMA RowsStep ==
    ASSUME TypeInv, TypeInv', MemoryInv, Next
    PROVE  RowsOpen' /\ RepetitionBounded'
<1>1. run \in RunRecords
  BY DEF TypeInv, RunOK
<1>2. CASE AbortNoProgress
  <2>1. run'.pc = "idle"
    BY <1>2, IdleTyped DEF AbortNoProgress, Exit
  <2>2. QED
    BY <1>2, <2>1, AbortBounded DEF RowsOpen
<1>3. CASE AbortInfra \/ AskAgain \/ StopOnEnvironment \/ Kill
  BY <1>1, <1>3, IdleTyped, NoRowWritten
  DEF AbortInfra, AskAgain, StopOnEnvironment, Kill, NextRound, Exit, Over, RunRecords, MemoryInv
<1>4. CASE \E fix \in Fixers : RefuseFix(fix)
  BY <1>4, IdleTyped, NoRowWritten DEF RefuseFix, AbortRepeatedFailure, Exit, MemoryInv
<1>5. CASE \E kind \in FixReplies : RegateReply(kind)
  BY <1>1, <1>5, IdleTyped, NoRowWritten DEF RegateReply, Exit, RunRecords, MemoryInv
<1>6. CASE \E lands \in BOOLEAN : Finish(lands)
  BY <1>6, IdleTyped, NoRowWritten DEF Finish, Exit, MemoryInv
<1>7. CASE AgentEdits \/ AgentCommits \/ AgentFinalizes \/ OperatorEdits \/ OperatorCommits
  BY <1>7, NoRowWritten
  DEF AgentEdits, AgentCommits, AgentFinalizes, OperatorEdits, OperatorCommits, MemoryInv
<1>8. QED
  BY <1>2, <1>3, <1>4, <1>5, <1>6, <1>7, InvokeBounded, ReplyBounded, DispatchFixBounded,
     FixReplyBounded, RoundsEndBounded DEF Next, Step

LEMMA MemoryStep == TypeInv /\ TypeInv' /\ MemoryInv /\ [Next]_vars => MemoryInv'
<1> SUFFICES ASSUME TypeInv, TypeInv', MemoryInv, [Next]_vars PROVE MemoryInv'
  OBVIOUS
<1>1. CASE UNCHANGED vars
  BY <1>1 DEF vars, MemoryInv, RowsBehind, RowsOpen, RepetitionBounded, VersionsNumbered, TreeFingerprint, BagToSet
<1>2. CASE Next
  <2>1. Behind(TreeFingerprint, TreeFingerprint') /\ VersionsNumbered'
    BY <1>2, TreeAdvances DEF MemoryInv
  <2>2. RowsBehind'
    BY <1>2, <2>1, RowsFiled, RowsStayBehind DEF MemoryInv
  <2>3. QED
    BY <1>2, <2>1, <2>2, RowsStep DEF MemoryInv
<1>3. QED
  BY <1>1, <1>2

LEMMA InitMemoryInv == Init => MemoryInv
<1> SUFFICES ASSUME Init PROVE MemoryInv
  OBVIOUS
<1>1. DOMAIN ledger = {} /\ run.pc = "idle"
  BY IdleTyped DEF Init, EmptyBag, SetToBag
<1>2. QED
  BY <1>1 DEF Init, MemoryInv, RowsBehind, RowsOpen, RepetitionBounded, VersionsNumbered, BagToSet

\* The memory of failed dispatches bounds what is spent on one failure across processes, kills
\* and restarts included: at one tree one failure of one step is recorded at most Limit - 1
\* times before a dispatch that is still allowed and Limit times by its attempts.
THEOREM RepetitionIsBounded == Spec => []RepetitionBounded
<1>1. MemoryInv => RepetitionBounded
  BY DEF MemoryInv
<1>2. QED
  BY <1>1, InitMemoryInv, MemoryStep, TypeInvAlways, PTL DEF Spec

=============================================================================
