----------------------------- MODULE PushAndGate -----------------------------
(***************************************************************************)
(* The commands that write state.json or the manifest first and try to     *)
(* commit and push afterwards, undoing their write when git refuses:       *)
(* push-checkpoint (phases 1 and 2), push-milestone, finalize-gate, and    *)
(* GitStrategy._commit_and_push which all of them end in.                  *)
(***************************************************************************)
EXTENDS ProjectStore

\* push-checkpoint names the commit before its own: HEAD is resolved first.
CheckpointStart(p, k) ==
    /\ Start(p, "checkpoint")
    /\ k \in {1, 2}
    /\ loc' = [loc EXCEPT ![p].cmd = "checkpoint", ![p].n = k, ![p].sha = Tip.id]
    /\ Goto(p, "audit")
    /\ UNCHANGED <<st, hand, gates, repo, lock>>

MilestoneStart(p, m) ==
    /\ Start(p, "milestone")
    /\ loc' = [loc EXCEPT ![p].cmd = "milestone", ![p].m = m]
    /\ Goto(p, "evidence")
    /\ UNCHANGED <<st, hand, gates, repo, lock>>

\* Gate evidence, and the same milestone twice at the same HEAD.
MilestoneEvidence(p) ==
    LET m == loc[p].m IN
    /\ pc[p] = "evidence"
    /\ \/ MilestoneGate[m] \notin gates \cup {0} /\ Exit(p, EX_SKIP_ATTEMPT)
       \/ /\ MilestoneGate[m] \in gates \cup {0}
          /\ st.head[m] = Tip.id
          /\ Exit(p, EX_OK)
       \/ /\ MilestoneGate[m] \in gates \cup {0}
          /\ st.head[m] # Tip.id
          /\ Goto(p, "audit")
          /\ UNCHANGED <<loc, rc>>
    /\ UNCHANGED <<st, hand, gates, repo, lock, used>>

GateStart(p, g) ==
    /\ Start(p, "finalize")
    /\ g \in GatesForPhase(st.phase)
    /\ loc' = [loc EXCEPT ![p].cmd = "finalize", ![p].n = g]
    /\ Goto(p, "gate_checks")
    /\ UNCHANGED <<st, hand, gates, repo, lock>>

\* The evaluated verdict goes to the manifest before anything else.
GateVerdict(p) ==
    /\ pc[p] = "gate_checks"
    /\ \/ gates' = gates \cup {loc[p].n} /\ Goto(p, "gate_state") /\ UNCHANGED <<loc, rc>>
       \/ gates' = gates \ {loc[p].n} /\ Exit(p, EX_FAILED)
    /\ UNCHANGED <<st, hand, repo, lock, used>>

\* Post-flight may still refuse; then _update_state_checkpoint, under the lock.
\* An exception nobody catches here ends the command like a kill does (Crash).
GateState(p) ==
    LET g == loc[p].n IN
    /\ pc[p] = "gate_state"
    /\ \/ Fault /\ Goto(p, "gate_refused") /\ UNCHANGED st
       \/ /\ LockFree
          /\ st' = [st EXCEPT !.last_gate = g,
                              !.truth = @ \/ (st.phase \in ExitGatePhases
                                              /\ EXIT_GATE_MAP[st.phase] = g)]
          /\ Goto(p, IF g = 4 THEN "audit" ELSE "stage")
          /\ UNCHANGED used
    /\ UNCHANGED <<hand, gates, repo, lock, loc, rc>>

(***************************************************************************)
(* The optimistic write, so that the pushed commit carries it; what it     *)
(* replaced is kept for the revert.  A write that fails is only warned of. *)
(***************************************************************************)
Audited(l) ==
    CASE l.cmd = "checkpoint" -> [st EXCEPT !.completed[l.n] = l.sha]
      [] l.cmd = "milestone"  -> [st EXCEPT !.command = l.m]
      [] l.cmd = "finalize"   -> [st EXCEPT !.command = "gate4"]

PushAudit(p) ==
    /\ pc[p] = "audit"
    /\ LockFree
    /\ \/ /\ st' = Audited(loc[p])
          /\ loc' = [loc EXCEPT ![p].wrote = TRUE, ![p].cmd0 = st.command,
                ![p].old = IF loc[p].cmd = "checkpoint" THEN st.completed[loc[p].n] ELSE 0]
          /\ UNCHANGED used
       \/ Fault /\ UNCHANGED <<st, loc>>
    /\ Goto(p, IF loc[p].cmd = "milestone" THEN "validate" ELSE "stage")
    /\ UNCHANGED <<hand, gates, repo, lock, rc>>

\* The milestone's own preconditions; failing one reverts the write.
MilestoneValidate(p) ==
    /\ pc[p] = "validate"
    /\ \/ Goto(p, "stage") /\ UNCHANGED used
       \/ Fault /\ Goto(p, "unaudit")
    /\ UNCHANGED <<st, hand, gates, repo, lock, loc, rc>>

(***************************************************************************)
(* commit_and_push_*: write HANDOVER.md, compare with the upstream, then   *)
(* add -A, commit, push.  Gate 1 only commits.                             *)
(***************************************************************************)
Publishes(l) == ~(l.cmd = "finalize" /\ l.n = 1)

HandoverPhase(l) ==
    CASE l.cmd = "checkpoint" -> l.n
      [] l.cmd = "milestone"  -> MilestonePhase[l.m]
      [] l.cmd = "finalize"   -> IF l.n = 4 THEN 6 ELSE l.n + 1

\* An upstream that HEAD does not contain is refused before the commit.
PushStage(p) ==
    /\ pc[p] = "stage"
    /\ loc' = [loc EXCEPT ![p].snapHand = hand]
    /\ hand' = IF Publishes(loc[p]) THEN HandoverPhase(loc[p]) ELSE hand
    /\ IF Publishes(loc[p]) /\ ~FastForward
       THEN Goto(p, "abandon") /\ UNCHANGED index
       ELSE Goto(p, "push_commit") /\ index' = st
    /\ UNCHANGED <<st, gates, hist, newest, remote, lock, rc, used>>

CommitSubject(l) ==
    CASE l.cmd = "checkpoint" -> "checkpoint"
      [] l.cmd = "milestone"  -> "milestone"
      [] l.cmd = "finalize"   -> "gate"

\* A clean tree needs no commit and is pushed as it is; a gate always has its
\* verdict to commit.
PushCommit(p) ==
    /\ pc[p] = "push_commit"
    /\ \/ /\ GitCommit(CommitSubject(loc[p]), loc[p].n)
          /\ IF Publishes(loc[p])
             THEN Goto(p, "push") /\ UNCHANGED <<loc, rc>>
             ELSE Exit(p, EX_OK)
          /\ UNCHANGED used
       \/ /\ loc[p].cmd # "finalize"
          /\ index = Tip.tree
          /\ Goto(p, "push")
          /\ UNCHANGED <<hist, newest, loc, rc, used>>
       \/ /\ Fault
          /\ Goto(p, IF Publishes(loc[p]) THEN "abandon" ELSE "unverdict")
          /\ UNCHANGED <<hist, newest, loc, rc>>
    /\ UNCHANGED <<st, hand, gates, index, remote, lock>>

\* git push; a push that lands may still find the build red.
GitPush(p) ==
    /\ pc[p] = "push"
    /\ \/ /\ FastForward
          /\ remote' = Tip.id
          /\ \/ /\ loc[p].cmd = "milestone"
                /\ Goto(p, "push_parse")
                /\ UNCHANGED <<loc, rc, used>>
             \/ loc[p].cmd # "milestone" /\ Exit(p, EX_OK) /\ UNCHANGED used
             \/ loc[p].cmd # "finalize" /\ Fault /\ Exit(p, EX_OTHER)
       \/ /\ ~FastForward
          /\ Goto(p, "abandon")
          /\ UNCHANGED <<remote, loc, rc, used>>
       \/ Fault /\ Goto(p, "abandon") /\ UNCHANGED <<remote, loc, rc>>
    /\ UNCHANGED <<st, hand, gates, hist, index, newest, lock>>

\* HANDOVER.md is put back without the lock ...
PushAbandon(p) ==
    /\ pc[p] = "abandon"
    /\ \/ hand' = loc[p].snapHand /\ UNCHANGED used
       \/ Fault /\ UNCHANGED hand
    /\ Goto(p, IF loc[p].cmd = "finalize" THEN "unverdict" ELSE "unaudit")
    /\ UNCHANGED <<st, gates, repo, lock, loc, rc>>

\* Mutant: a gate that was not committed keeps its verdict.
GateUnverdictNot(p) ==
    /\ pc[p] \in {"gate_refused", "unverdict"}
    /\ IF pc[p] = "gate_refused"
       THEN Exit(p, EX_OTHER)
       ELSE Goto(p, "unaudit") /\ UNCHANGED <<loc, rc>>
    /\ UNCHANGED <<st, hand, gates, repo, lock, used>>

\* ... a gate takes its verdict back (_mark_gate_commit_failed) ...
GateUnverdict(p) ==
    /\ pc[p] \in {"gate_refused", "unverdict"}
    /\ \/ gates' = gates \ {loc[p].n} /\ UNCHANGED used
       \/ Fault /\ UNCHANGED gates
    /\ IF pc[p] = "gate_refused"
       THEN Exit(p, EX_OTHER)
       ELSE Goto(p, "unaudit") /\ UNCHANGED <<loc, rc>>
    /\ UNCHANGED <<st, hand, repo, lock>>

\* Mutant: nothing is put back in state.json.
UnauditedNot(l) == st

(***************************************************************************)
(* ... and the one field this command wrote is put back, under the lock.   *)
(* A write that fails on this way out is only warned of.                   *)
(***************************************************************************)
Unaudited(l) ==
    IF ~l.wrote THEN st
    ELSE IF l.cmd = "checkpoint" THEN [st EXCEPT !.completed[l.n] = l.old]
    ELSE [st EXCEPT !.command = l.cmd0]

\* Mutant: the lock is not taken.
PushRevertUnlocked(p) ==
    /\ pc[p] = "unaudit"
    /\ \/ st' = Unaudited(loc[p]) /\ UNCHANGED used
       \/ Fault /\ UNCHANGED st
    /\ Exit(p, IF loc[p].cmd = "finalize" THEN EX_ROLLED_BACK ELSE EX_FAILED)
    /\ UNCHANGED <<hand, gates, repo, lock>>

PushRevert(p) ==
    /\ pc[p] = "unaudit"
    /\ LockFree
    /\ \/ st' = Unaudited(loc[p]) /\ UNCHANGED used
       \/ Fault /\ UNCHANGED st
    /\ Exit(p, IF loc[p].cmd = "finalize" THEN EX_ROLLED_BACK ELSE EX_FAILED)
    /\ UNCHANGED <<hand, gates, repo, lock>>

\* _record_milestone_head: HEAD is resolved before the lock is taken.
MilestoneParse(p) ==
    /\ pc[p] = "push_parse"
    /\ loc' = [loc EXCEPT ![p].sha = Tip.id]
    /\ Goto(p, "push_head")
    /\ UNCHANGED <<st, hand, gates, repo, lock, rc, used>>

\* Best effort: the push has succeeded either way.
MilestoneHead(p) ==
    /\ pc[p] = "push_head"
    /\ LockFree
    /\ \/ st' = [st EXCEPT !.head[loc[p].m] = loc[p].sha] /\ UNCHANGED used
       \/ Fault /\ UNCHANGED st
    /\ Exit(p, EX_OK)
    /\ UNCHANGED <<hand, gates, repo, lock>>

Push(p) ==
    \/ \E k \in {1, 2} : CheckpointStart(p, k)
    \/ \E m \in Milestones : MilestoneStart(p, m)
    \/ \E g \in Gates : GateStart(p, g)
    \/ MilestoneEvidence(p) \/ GateVerdict(p) \/ GateState(p) \/ PushAudit(p)
    \/ MilestoneValidate(p) \/ PushStage(p) \/ PushCommit(p) \/ GitPush(p)
    \/ PushAbandon(p) \/ GateUnverdict(p) \/ PushRevert(p) \/ MilestoneParse(p) \/ MilestoneHead(p)
=============================================================================
