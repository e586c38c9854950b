------------------------------- MODULE FrStep -------------------------------
(***************************************************************************)
(* run-fr-step: one step of one FR (write the failing test, make it pass,  *)
(* refactor, Gate 1) dispatched to a sub-agent, with the retries, the fix  *)
(* rounds of Gate 1 and the memory of failed dispatches that outlives the  *)
(* process.  One process runs at a time; it may be killed.                 *)
(*                                                                         *)
(* The sub-agent, the operator and git are the environment: while it runs  *)
(* the sub-agent may edit, commit and call finalize-gate as it likes.      *)
(* The sources are version numbers, a new one for every edit.  Prompts,    *)
(* budgets and their doubling are left out; of an output only what the     *)
(* code looks for in it is kept, and one of Texts for the rest.            *)
(***************************************************************************)
EXTENDS Integers, FiniteSets, Bags

CONSTANTS
    Texts,         \* what an output may say besides the words the code looks for
    Asked,         \* the steps run-fr-step is asked for
    Fixers,        \* the fix agents the failures of this project are routed to
    Replies,       \* how the dispatches of a step come back
    FixReplies,    \* how those of its fix rounds come back
    Verdict,       \* what this FR's own tests say of each version of the sources
    Limit,         \* _STEP_RETRY_ATTEMPTS: identical dispatches that are enough
    MaxRounds,     \* max_fix_rounds of the project
    MaxStill,      \* fix rounds in a row without progress that are enough (2)
    MaxVersions,   \* bound: edits of the sources
    MaxHeads,      \* bound: commits
    MaxRuns,       \* bound: invocations of run-fr-step
    MaxKills       \* bound: invocations killed

TddSteps == {"TDD-RED", "TDD-GREEN", "TDD-IMPROVE"}
GateSteps == {"GATE1", "GATE1-DELTA"}
Steps == TddSteps \cup GateSteps
FixSteps == {"TEST-FIX", "INFRA-FIX", "LINT-FIX", "COVERAGE-FIX", "CODE-FIX"}
NoStep == "none"

\* How a dispatch comes back: "done" and "pass" are answers, the rest error statuses.
\* "blocked" reports an unmet precondition, "disconnected" a broken login, "rejected"
\* is the regression guard, "failed" a status other than ERROR and TIMEOUT.
Answers == {"done", "pass"}
Failures == {"error", "turns", "timeout", "infra", "blocked", "disconnected", "rejected", "failed"}
BudgetKills == {"turns", "timeout"}

Canonical == "canonical"
Signatures == (Failures \X (Texts \cup {Canonical})) \cup {<<"GATE1_BLOCKED", Canonical>>}

Versions == 0..MaxVersions
Files == {"ledger", "evidence", "manifest"}
Trees == [head : 0..MaxHeads, edited : BOOLEAN, dirty : SUBSET Files]
Rows == [step : Steps \cup FixSteps, sig : Signatures, tree : Trees]
Places == {"idle", "agent", "rounds", "fix", "regate", "over", "finish"}
Exits == {"none", "ok", "error", "refused", "blocked", "dirty", "ghost", "environment", "no_progress"}

ASSUME FrStepAssumption ==
    /\ Canonical \notin Texts
    /\ Asked \subseteq Steps /\ Fixers \subseteq FixSteps
    /\ Replies \cup FixReplies \subseteq Answers \cup Failures
    /\ Verdict \in [Versions -> {"RED", "GREEN", "UNKNOWN"}]
    /\ Limit \in Nat \ {0} /\ MaxRounds \in Nat /\ MaxStill \in Nat \ {0}
    /\ MaxVersions \in Nat /\ MaxHeads \in Nat /\ MaxRuns \in Nat /\ MaxKills \in Nat

VARIABLES
    code,    \* the version in the working tree and the committed one
    head,    \* commits so far
    dirty,   \* Files of the framework that git reports changed
    landed,  \* steps whose commit is in the lineage
    gate,    \* finalize sentinel, quality_complete, timestamp row, version Gate 1 passed
    ledger,  \* the step failures of degradations.jsonl, a bag of Rows
    run,     \* the running invocation
    last,    \* how the last invocation ended, on which step, at which version
    met,     \* which step was dispatched against which version of the sources (fix agents left out)
    spent    \* versions, invocations, kills

vars == <<code, head, dirty, landed, gate, ledger, run, last, met, spent>>
project == <<code, head, dirty, landed, gate>>

Idle == [pc |-> "idle", step |-> NoStep, tree |-> [head |-> 0, edited |-> FALSE, dirty |-> {}],
         start |-> 0, attempt |-> 0, round |-> 0, passed |-> FALSE, said |-> "nothing",
         seen |-> <<>>, still |-> 0, fix |-> NoStep]
NoExit == [exit |-> "none", step |-> NoStep, work |-> 0]

\* The ledger already holds lines that the next advance will commit.
Init ==
    /\ code = [work |-> 0, committed |-> 0] /\ head = 0
    /\ dirty = {"ledger"}
    /\ landed = {}
    /\ gate = [sentinel |-> FALSE, complete |-> FALSE, evidence |-> FALSE, at |-> 0]
    /\ ledger = EmptyBag /\ met = {}
    /\ run = Idle /\ last = NoExit
    /\ spent = [versions |-> 0, runs |-> 0, kills |-> 0]

-----------------------------------------------------------------------------
(* What the code asks of the project.                                      *)

\* git rev-parse HEAD and git status --porcelain: which files are dirty, not what is in them.
TreeFingerprint == [head |-> head, edited |-> code.work # code.committed, dirty |-> dirty]

TestsSay(expected) == Verdict[code.work] \in {expected, "UNKNOWN"}

CodeChangedSinceGate1 == ~gate.sentinel \/ gate.at # code.committed

\* GREEN's artefact is a tagged source file, and a commit of GREEN brings one.
GreenDone == "TDD-GREEN" \in landed /\ TestsSay("GREEN")

AlreadyDone(step) ==
    \/ step # "GATE1-DELTA" /\ gate.sentinel /\ gate.complete
    \/ step = "GATE1-DELTA" /\ gate.sentinel /\ gate.complete /\ ~CodeChangedSinceGate1
    \/ step = "TDD-RED" /\ "TDD-RED" \in landed /\ (GreenDone \/ TestsSay("RED"))
    \/ step = "TDD-GREEN" /\ GreenDone
    \/ step = "TDD-IMPROVE" /\ "TDD-IMPROVE" \in landed

\* Mutant: one identical failure more before the step is refused.
RepeatedFailureLater(step, tree) ==
    \E row \in BagToSet(ledger) :
        row.step = step /\ row.tree = tree /\ ledger[row] > Limit

RepeatedFailure(step, tree) ==
    \E row \in BagToSet(ledger) :
        row.step = step /\ row.tree = tree /\ ledger[row] >= Limit

\* record_step_failure: rows under one tree, and the ledger is a tracked file.
RecordStepFailures(step, sigs, tree) ==
    ledger' = ledger (+) SetToBag({[step |-> step, sig |-> s, tree |-> tree] : s \in sigs})
Dirtied(sigs) == dirty' = IF sigs = {} THEN dirty ELSE dirty \cup {"ledger"}

Exit(how, step) ==
    /\ run' = Idle
    /\ last' = [exit |-> how, step |-> step, work |-> IF how = "refused" THEN code.work ELSE 0]

\* _abort_repeated_failure leaves a line of its own in the ledger.
AbortRepeatedFailure(step) == Exit("refused", step) /\ dirty' = dirty \cup {"ledger"}

Dispatched(step) == met' = met \cup {[step |-> step, work |-> code.work]}

-----------------------------------------------------------------------------
(* The sub-agent, while a dispatch runs, and the operator between commands. *)

MayCommit == head < MaxHeads

NewSources == code' = [code EXCEPT !.work = spent.versions + 1]
Committed == code' = [code EXCEPT !.committed = code.work]

\* A Gate 1 evaluator measures; it is not asked to change or commit sources.
Changes == run.pc = "fix" \/ (run.pc = "agent" /\ run.step \in TddSteps)

AgentEdits ==
    /\ Changes /\ spent.versions < MaxVersions
    /\ spent' = [spent EXCEPT !.versions = @ + 1]
    /\ NewSources
    /\ UNCHANGED <<head, dirty, landed, gate, ledger, run, last, met>>

\* With the step's commit message, and with or without the framework's files.
AgentCommits ==
    /\ Changes /\ MayCommit
    /\ Committed
    /\ head' = head + 1
    /\ dirty' \in {dirty, {}}
    /\ landed' = IF run.pc = "agent" /\ run.step \in TddSteps THEN landed \cup {run.step} ELSE landed
    /\ UNCHANGED <<gate, ledger, run, last, met, spent>>

\* What finalize-gate leaves: a verdict, and on a pass the timestamp row, the sentinel and a
\* commit of all there is in the working tree.
FinalizePass ==
    /\ MayCommit
    /\ gate' = [sentinel |-> TRUE, complete |-> TRUE, evidence |-> TRUE, at |-> code.work]
    /\ Committed /\ head' = head + 1 /\ dirty' = {}
FinalizeFail ==
    /\ gate' = [gate EXCEPT !.complete = FALSE]
    /\ dirty' = dirty \cup {"manifest"} /\ UNCHANGED <<code, head>>

AgentFinalizes ==
    /\ run.pc \in {"agent", "regate"} /\ run.step \in GateSteps
    /\ FinalizePass \/ FinalizeFail
    /\ UNCHANGED <<landed, ledger, run, last, met, spent>>

\* Somebody repairs what is in the working tree, or commits all of it.
OperatorEdits ==
    /\ run.pc = "idle" /\ spent.versions < MaxVersions
    /\ NewSources
    /\ spent' = [spent EXCEPT !.versions = @ + 1]
    /\ UNCHANGED <<head, dirty, landed, gate, ledger, run, last, met>>

OperatorCommits ==
    /\ run.pc = "idle" /\ MayCommit /\ (code.work # code.committed \/ dirty # {})
    /\ Committed
    /\ head' = head + 1 /\ dirty' = {}
    /\ UNCHANGED <<landed, gate, ledger, run, last, met, spent>>

-----------------------------------------------------------------------------
(* cmd_run_fr_step up to the first dispatch.                                *)

SkipIfAlreadyDone(step) ==
    /\ AlreadyDone(step)
    /\ Exit("ok", step)
    /\ IF step = "GATE1-DELTA"
       THEN gate' = [gate EXCEPT !.evidence = TRUE] /\ dirty' = dirty \cup {"evidence"}
       ELSE UNCHANGED <<gate, dirty>>
    /\ UNCHANGED met

PreflightFails(step) ==
    /\ ~AlreadyDone(step)
    /\ Exit("error", step)
    /\ UNCHANGED <<gate, dirty, met>>

RefuseRepeated(step) ==
    /\ ~AlreadyDone(step) /\ RepeatedFailure(step, TreeFingerprint)
    /\ AbortRepeatedFailure(step)
    /\ UNCHANGED <<gate, met>>

Dispatch(step) ==
    /\ ~AlreadyDone(step) /\ ~RepeatedFailure(step, TreeFingerprint)
    /\ run' = [Idle EXCEPT !.pc = "agent", !.step = step, !.tree = TreeFingerprint,
                           !.start = IF step \in TddSteps THEN code.committed ELSE 0, !.attempt = 1]
    /\ Dispatched(step)
    /\ last' = NoExit
    /\ UNCHANGED <<gate, dirty>>

Invoke(step) ==
    /\ run.pc = "idle" /\ spent.runs < MaxRuns
    /\ spent' = [spent EXCEPT !.runs = @ + 1]
    /\ SkipIfAlreadyDone(step) \/ PreflightFails(step) \/ RefuseRepeated(step) \/ Dispatch(step)
    /\ UNCHANGED <<code, head, landed, ledger>>

-----------------------------------------------------------------------------
(* The reply to the step's own dispatch.                                    *)

\* A budget kill is recorded a second time, with a signature that does not quote the output.
FailureRows(kind, text) ==
    {<<k, text>> : k \in {kind} \cap Failures} \cup {<<k, Canonical>> : k \in {kind} \cap BudgetKills}

Retryable(kind) ==
    /\ kind \in BudgetKills \/ run.step \in TddSteps
    /\ kind \in Failures \ {"rejected", "disconnected", "infra", "blocked"}

\* ERROR and TIMEOUT of a gate dispatch are taken for a failed gate.
Routed(kind) == kind \in Failures /\ (run.step \in TddSteps \/ kind \in {"rejected", "failed"})

RetryStep(kind) ==
    /\ Retryable(kind) /\ run.attempt < Limit
    /\ run' = [run EXCEPT !.attempt = @ + 1]
    /\ Dispatched(run.step)
    /\ UNCHANGED <<code, gate, head, last>>

RouteDispatchError(kind) ==
    /\ ~(Retryable(kind) /\ run.attempt < Limit) /\ Routed(kind)
    /\ Exit(IF kind = "disconnected" \/ (kind = "blocked" /\ TestsSay("RED")) THEN "environment" ELSE "error",
            run.step)
    /\ UNCHANGED <<code, gate, head, met>>

StepAnswered(kind) ==
    /\ kind \in Answers /\ run.step \in TddSteps
    /\ run' = [run EXCEPT !.pc = "finish"]
    /\ UNCHANGED <<code, gate, head, last, met>>

\* What the rounds look for in the output: a crash or blocked precondition, or a verdict,
\* which may be one that finalize-gate turned down for its made-up evidence.
Said(kind) == IF kind = "infra" THEN "infra" ELSE IF kind = "done" THEN "verdict" ELSE "nothing"

\* A claimed pass the manifest does not know of is finalized here; it may not go through.
JudgeGate(step, kind, text, pragma) ==
    /\ ~(Retryable(kind) /\ run.attempt < Limit) /\ ~Routed(kind) /\ step \in GateSteps
    /\ \/ kind = "pass" /\ ~gate.complete /\ (FinalizePass \/ FinalizeFail)
       \/ Dirtied(FailureRows(kind, text)) /\ UNCHANGED <<code, gate, head>>
    /\ run' = [run EXCEPT !.pc = "rounds", !.attempt = 0, !.said = Said(kind),
                          !.passed = (kind = "pass" \/ AlreadyDone(step)') /\ ~pragma]
    /\ UNCHANGED <<last, met>>

Reply(kind, text) ==
    /\ run.pc = "agent"
    /\ RecordStepFailures(run.step, FailureRows(kind, text), run.tree)
    /\ \/ /\ RetryStep(kind) \/ RouteDispatchError(kind) \/ StepAnswered(kind)
          /\ Dirtied(FailureRows(kind, text))
       \/ \E step \in {run.step}, pragma \in BOOLEAN : JudgeGate(step, kind, text, pragma)
    /\ UNCHANGED <<landed, spent>>

-----------------------------------------------------------------------------
(* The fix rounds of Gate 1.                                                *)

Passed == run.passed \/ AlreadyDone(run.step)
\* Mutant: one round too many.
NextRoundOffByOne == run.pc = "rounds" /\ ~Passed /\ run.round <= MaxRounds
NextRound == run.pc = "rounds" /\ ~Passed /\ run.round < MaxRounds

\* What a round compares with the round before: git diff HEAD, git status, the tools' output,
\* and the kind and number of the blocking items, which the evaluator may count the same or not.
Snapshot ==
    <<IF code.work = code.committed THEN <<>> ELSE <<code.work, code.committed>>, dirty, Verdict[code.work]>>
Still(same) == IF same /\ Snapshot = run.seen THEN run.still + 1 ELSE 0

\* Out of the loop: nothing of what its rounds remembered is looked at again.
Over(pc) == [run EXCEPT !.pc = pc, !.fix = NoStep, !.round = 0, !.said = "nothing",
                        !.seen = <<>>, !.still = 0]

\* A crash of the framework or a blocked precondition is in the output: no fix can help.
AbortInfra ==
    /\ NextRound /\ run.said = "infra"
    /\ Exit("environment", run.step)
    /\ UNCHANGED <<project, ledger, met, spent>>

\* Mutant: asking again is not counted as a round.
AskAgainUncounted ==
    /\ NextRound /\ run.said = "verdict"
    /\ run' = [run EXCEPT !.pc = "regate"]
    /\ Dispatched(run.step)
    /\ UNCHANGED <<project, ledger, last, spent>>

\* Evidence the evaluator made up: ask it again, there is nothing to fix.
AskAgain ==
    /\ NextRound /\ run.said = "verdict"
    /\ run' = [run EXCEPT !.pc = "regate", !.round = @ + 1]
    /\ Dispatched(run.step)
    /\ UNCHANGED <<project, ledger, last, spent>>

\* The second round in a row that moved nothing; filed under the tree as it is now.
AbortNoProgress ==
    /\ NextRound /\ run.said # "infra" /\ \E same \in BOOLEAN : Still(same) >= MaxStill
    /\ Exit("no_progress", run.step)
    /\ dirty' = dirty \cup {"ledger"}
    /\ UNCHANGED <<code, head, landed, gate, met, spent>>
    /\ RecordStepFailures(run.step, {<<"GATE1_BLOCKED", Canonical>>}, TreeFingerprint')

\* The tools of the environment are broken: out of the loop.
StopOnEnvironment ==
    /\ NextRound /\ run.said # "infra" /\ \E same \in BOOLEAN : Still(same) < MaxStill
    /\ run' = Over("over")
    /\ UNCHANGED <<project, ledger, last, met, spent>>

\* Compared with failures filed under the tree this process started from.
RefuseFix(fix) ==
    /\ NextRound /\ run.said # "infra" /\ \E same \in BOOLEAN : Still(same) < MaxStill
    /\ RepeatedFailure(fix, run.tree)
    /\ AbortRepeatedFailure(run.step)
    /\ UNCHANGED <<code, head, landed, gate, ledger, met, spent>>

DispatchFix(fix, same) ==
    /\ NextRound /\ run.said # "infra" /\ Still(same) < MaxStill
    /\ ~RepeatedFailure(fix, run.tree)
    /\ run' = [run EXCEPT !.pc = "fix", !.fix = fix, !.round = @ + 1, !.seen = Snapshot,
                          !.still = Still(same)]
    /\ UNCHANGED <<project, ledger, last, met, spent>>

\* ruff in place of the LINT-FIX agent, or a measured coverage that meets the floor and is
\* stamped in the manifest (or not, when that fails): the next round, with the last verdict.
FixInline ==
    /\ run.fix \in {"LINT-FIX", "COVERAGE-FIX"}
    /\ gate' \in {gate, [gate EXCEPT !.complete = @ \/ run.fix = "COVERAGE-FIX"]}
    /\ run' = [run EXCEPT !.pc = "rounds", !.fix = NoStep]

FixReply(kind) ==
    /\ run.pc = "fix"
    /\ \/ /\ kind \in Answers
          /\ run' = [run EXCEPT !.pc = "regate", !.fix = NoStep]
          /\ Dispatched(run.step)
          /\ UNCHANGED <<gate, last>>
       \/ kind = "disconnected" /\ Exit("environment", run.step) /\ UNCHANGED <<gate, met>>
       \/ /\ kind \in Failures \ {"disconnected"}
          /\ FixInline \/ (run' = Over("over") /\ UNCHANGED gate)
          /\ UNCHANGED <<last, met>>
    /\ RecordStepFailures(run.fix, {<<k, Canonical>> : k \in {kind} \cap {"turns"}}, run.tree)
    /\ dirty' = dirty \cup {f \in {"ledger"} : kind = "turns"} \cup {f \in {"manifest"} : gate' # gate}
    /\ UNCHANGED <<code, head, landed, spent>>

\* Gate 1 asked again: no row, no retry, whatever the status.
RegateReply(kind) ==
    /\ run.pc = "regate"
    /\ \/ kind = "disconnected" /\ Exit("environment", run.step)
       \/ /\ kind # "disconnected"
          /\ run' = [run EXCEPT !.pc = "rounds", !.said = Said(kind),
                                !.passed = (kind = "pass" \/ AlreadyDone(run.step))]
          /\ UNCHANGED last
    /\ UNCHANGED <<project, ledger, met, spent>>

RoundsEnd ==
    /\ run.pc = "over" \/ (run.pc = "rounds" /\ (Passed \/ run.round >= MaxRounds))
    /\ IF Passed
       THEN run' = Over("finish") /\ UNCHANGED <<dirty, ledger, last>>
       ELSE /\ RecordStepFailures(run.step, {<<"GATE1_BLOCKED", Canonical>>}, run.tree)
            /\ dirty' = dirty \cup {"ledger"}
            /\ Exit("blocked", run.step)
    /\ UNCHANGED <<code, head, landed, gate, met, spent>>

-----------------------------------------------------------------------------
(* The end of a step that did not fail.                                     *)

\* Mutant: the evaluator is trusted to have left its own row.
PaperTrailTrusting(record, lands) ==
    UNCHANGED gate /\ dirty' = dirty /\ head' = IF record /\ lands THEN head + 1 ELSE head

\* The timestamp row of a pass that finalize-gate did not write, and a commit of that file alone.
PaperTrail(record, lands) ==
    /\ gate' = IF record THEN [gate EXCEPT !.evidence = TRUE] ELSE gate
    /\ dirty' = IF ~record THEN dirty ELSE IF lands THEN dirty \ {"evidence"} ELSE dirty \cup {"evidence"}
    /\ head' = IF record /\ lands THEN head + 1 ELSE head

GhostChange == run.step \in TddSteps /\ code.committed = run.start

\* The last command is the push, and it may be refused.
Finish(lands) ==
    /\ run.pc = "finish" /\ (lands => MayCommit)
    /\ UNCHANGED <<code, landed, ledger, met, spent>>
    /\ PaperTrail(run.step \in GateSteps /\ ~AlreadyDone(run.step), lands)
    /\ \E before \in {run.tree} :
          LET new == dirty' \ before.dirty # {} \/ (code.work # code.committed /\ ~before.edited)
          IN  \/ new /\ Exit("dirty", run.step)
              \/ ~new /\ GhostChange /\ Exit("ghost", run.step)
              \/ ~new /\ ~GhostChange /\ \E e \in {"ok", "error"} : Exit(e, run.step)

Kill ==
    /\ run.pc # "idle" /\ spent.kills < MaxKills
    /\ run' = Idle /\ last' = NoExit
    /\ spent' = [spent EXCEPT !.kills = @ + 1]
    /\ UNCHANGED <<project, ledger, met>>

-----------------------------------------------------------------------------
(* One step of the invocation in progress.                                  *)
Step ==
    \/ \E kind \in Replies, text \in Texts : Reply(kind, text)
    \/ AbortInfra \/ AskAgain \/ AbortNoProgress \/ StopOnEnvironment
    \/ \E fix \in Fixers : RefuseFix(fix) \/ \E same \in BOOLEAN : DispatchFix(fix, same)
    \/ \E kind \in FixReplies : FixReply(kind) \/ RegateReply(kind)
    \/ RoundsEnd
    \/ \E lands \in BOOLEAN : Finish(lands)

Next ==
    \/ \E step \in Asked : Invoke(step)
    \/ Step
    \/ AgentEdits \/ AgentCommits \/ AgentFinalizes
    \/ OperatorEdits \/ OperatorCommits
    \/ Kill

Spec == Init /\ [][Next]_vars

\* A dispatch has a wall-clock limit, so it comes back; the rest is the process's own code.
FairSpec == Spec /\ WF_vars(Step)

-----------------------------------------------------------------------------
(* Properties.                                                              *)

\* Type of the state: bags of known rows, a round never past the project's maximum.
FrTypeOK ==
    /\ code \in [work : Versions, committed : Versions] /\ head \in 0..MaxHeads
    /\ dirty \subseteq Files /\ landed \subseteq TddSteps
    /\ gate \in [sentinel : BOOLEAN, complete : BOOLEAN, evidence : BOOLEAN, at : Versions]
    /\ IsABag(ledger) /\ BagToSet(ledger) \subseteq Rows
    /\ run.pc \in Places /\ run.step \in Steps \cup {NoStep} /\ run.tree \in Trees
    /\ run.attempt \in 0..Limit /\ run.round \in 0..MaxRounds /\ run.still < MaxStill
    /\ last.exit \in Exits /\ last.work \in Versions
    /\ spent.versions <= MaxVersions /\ spent.runs <= MaxRuns /\ spent.kills <= MaxKills

\* step_failure_memory bounds what is spent on one failure across processes: at one tree, one
\* failure of one step is recorded Limit - 1 times at most before a dispatch that is still
\* allowed, and Limit times by the attempts of that one.
RepetitionBounded == \A row \in BagToSet(ledger) : ledger[row] <= 2 * Limit - 1

\* _abort_repeated_failure: "any change to the tree re-opens this step".  A refused step has
\* been tried against the sources it is refused on.
RepairReopens ==
    last.exit = "refused" => [step |-> last.step, work |-> last.work] \in met

\* advance-phase reads the timestamp rows: a gate step that returns 0 has left one, whether it
\* was skipped, passed by finalize-gate, or passed on the agent's word.
SuccessIsEvidenced == last.exit = "ok" /\ last.step \in GateSteps => gate.evidence

\* Every invocation ends: retries, fix rounds and Gate 1 asked again are all bounded.
InvocationEnds == (run.pc # "idle") ~> (run.pc = "idle")
=============================================================================
