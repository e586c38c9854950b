---------------------------- MODULE AdvancePhase ----------------------------
(***************************************************************************)
(* advance-phase --completed N (cli/phase_cmds.py::cmd_advance_phase) with *)
(* the functions it calls: _verify_entry_gate and its self-heal,           *)
(* _advance_fsm and _advance_step_commit_and_push.  One action per step    *)
(* between two points at which another process can act, or at which the    *)
(* process can be killed with something already on disk.                   *)
(*                                                                         *)
(* The state lock is held across fsm_stage .. fsm_progress and across      *)
(* restore .. restore_rest.  A critical section that reads, and writes     *)
(* once at its end, is one action: nobody else can write in between, and   *)
(* dying before the write leaves no trace.                                 *)
(***************************************************************************)
EXTENDS ProjectStore

(***************************************************************************)
(* The refusals that come before state.json is read: phase 9, uncommitted  *)
(* deliverables, no PASS verdict of the exit gate.  A refusal leaves       *)
(* nothing behind, so it is the command not being started.                 *)
(***************************************************************************)
AdvanceStart(p, n) ==
    /\ Start(p, "advance")
    /\ n \in 1..8
    /\ loc' = [loc EXCEPT ![p].cmd = "advance", ![p].n = n]
    /\ Goto(p, "read")
    /\ UNCHANGED <<st, hand, gates, repo, lock>>

\* state.json is read under the lock and the lock released again.
AdvanceRead(p) ==
    /\ pc[p] = "read"
    /\ LockFree
    /\ loc' = [loc EXCEPT ![p].seen = st]
    /\ Goto(p, "check")
    /\ UNCHANGED <<st, hand, gates, repo, lock, rc, used>>

TruthRecorded(s, n) == n \in ExitGatePhases => s.truth /\ s.last_gate = EXIT_GATE_MAP[n]

\* Mutant: a phase that was not reached yet is not refused.
AdvanceCheckNoSkip(p) ==
    LET s == loc[p].seen
        n == loc[p].n
    IN  /\ pc[p] = "check"
        /\ \/ /\ s.phase = n
              /\ ~TruthRecorded(s, n)
              /\ Exit(p, EX_TRUTH_MISSING)
           \/ /\ s.phase = n => TruthRecorded(s, n)
              /\ Goto(p, "entry")
              /\ loc' = [loc EXCEPT ![p].again = s.phase > n,
                                    ![p].top = HighestGate(gates \ {1})]
              /\ UNCHANGED rc
        /\ UNCHANGED <<st, hand, gates, repo, lock, used>>

(***************************************************************************)
(* The three cases of CV-2, decided on what was read.  Gate 1 is kept per  *)
(* FR and never counts as the last gate.                                   *)
(***************************************************************************)
AdvanceCheck(p) ==
    LET s == loc[p].seen
        n == loc[p].n
    IN  /\ pc[p] = "check"
        /\ \/ /\ s.phase < n
              /\ Exit(p, EX_SKIP_ATTEMPT)
           \/ /\ s.phase = n
              /\ ~TruthRecorded(s, n)
              /\ Exit(p, EX_TRUTH_MISSING)
           \/ /\ s.phase >= n
              /\ s.phase = n => TruthRecorded(s, n)
              /\ Goto(p, "entry")
              /\ loc' = [loc EXCEPT ![p].again = s.phase > n,
                                    ![p].top = HighestGate(gates \ {1})]
              /\ UNCHANGED rc
        /\ UNCHANGED <<st, hand, gates, repo, lock, used>>

\* A refusal by _advance_prechecks, or by the open obligations of the next
\* phase once the entry gate (and a self-heal) is behind.
AdvancePrecheckFails(p) ==
    /\ \/ pc[p] = "check" /\ loc[p].seen.phase >= loc[p].n
       \/ pc[p] = "capture"
    /\ Fault
    /\ Exit(p, EX_OTHER)
    /\ UNCHANGED <<st, hand, gates, repo, lock>>

\* Mutants: the record of the phase, or the gate in the manifest, is not asked for.
RecordAcceptedUnwritten(n, again) ==
    IF n <= 2
    THEN IF st.completed[n] # 0 THEN Reachable(st.completed[n]) ELSE Marked(n) # {}
    ELSE ENTRY_GATE_MAP[n + 1] \in gates

RecordAcceptedNoGate(n, again) ==
    IF n <= 2
    THEN IF st.completed[n] # 0 THEN Reachable(st.completed[n]) ELSE Marked(n) # {}
    ELSE again => st.completed[n] # 0

(***************************************************************************)
(* _verify_entry_gate(n + 1).  For phases 2 and 3 the recorded sha is the  *)
(* authority and a commit marker stands in for a record that was never     *)
(* written; from phase 4 on the record must exist (unless the caller is    *)
(* about to write it) and the manifest must show the entry gate passed.    *)
(***************************************************************************)
RecordAccepted(n, again) ==
    IF n <= 2
    THEN IF st.completed[n] # 0 THEN Reachable(st.completed[n]) ELSE Marked(n) # {}
    ELSE /\ again => st.completed[n] # 0
         /\ ENTRY_GATE_MAP[n + 1] \in gates

Dangling(n) == n <= 2 /\ st.completed[n] # 0 /\ ~Reachable(st.completed[n])

\* After the entry gate: a re-verification is over, an advance goes on.  The gate
\* also refuses a record whose content is none (phase_record_defects), and when
\* git, state.json or the manifest cannot be read.
EntryPassed(p) ==
    IF loc[p].again
    THEN Exit(p, EX_OK)
    ELSE Goto(p, "capture") /\ UNCHANGED <<loc, rc>>

AdvanceEntryGate(p) ==
    LET n == loc[p].n IN
    /\ pc[p] = "entry"
    /\ \/ RecordAccepted(n, loc[p].again) /\ EntryPassed(p) /\ UNCHANGED used
       \/ ~RecordAccepted(n, loc[p].again) /\ ~(Dangling(n) /\ Marked(n) # {})
          /\ Exit(p, EX_ENTRY_GATE) /\ UNCHANGED used
       \/ \E i \in Marked(n) :
             /\ Dangling(n)
             /\ \A j \in Marked(n) : j <= i
             /\ Goto(p, "heal")
             /\ loc' = [loc EXCEPT ![p].old = st.completed[n], ![p].sha = hist[i].id]
             /\ UNCHANGED <<rc, used>>
       \/ Fault /\ Exit(p, EX_ENTRY_GATE)
    /\ UNCHANGED <<st, hand, gates, repo, lock>>

\* Mutant: the entry is not looked at again under the lock.
AdvanceHealBlind(p) ==
    /\ pc[p] = "heal"
    /\ LockFree
    /\ st' = [st EXCEPT !.completed[loc[p].n] = loc[p].sha, !.heals = @ + 1]
    /\ EntryPassed(p)
    /\ UNCHANGED <<hand, gates, repo, lock, used>>

(***************************************************************************)
(* try_recover_dangling_phase_completed: lock, reload, and repair only an  *)
(* entry that is still the dangling one that was observed.  A repair that  *)
(* cannot be written leaves the entry as it is, and the gate refuses.      *)
(***************************************************************************)
AdvanceHeal(p) ==
    LET n == loc[p].n
        now == st.completed[n]
    IN  /\ pc[p] = "heal"
        /\ LockFree
        /\ \/ now = loc[p].sha /\ EntryPassed(p) /\ UNCHANGED <<st, used>>
           \/ /\ now \notin {0, loc[p].old, loc[p].sha}
              /\ Exit(p, EX_ENTRY_GATE)
              /\ UNCHANGED <<st, used>>
           \/ /\ now \in {0, loc[p].old}
              /\ now # loc[p].sha
              /\ st' = [st EXCEPT !.completed[n] = loc[p].sha, !.heals = @ + 1]
              /\ EntryPassed(p)
              /\ UNCHANGED used
           \/ Fault /\ Exit(p, EX_ENTRY_GATE) /\ UNCHANGED st
        /\ UNCHANGED <<hand, gates, repo, lock>>

\* FileSnapshot.capture takes no lock.
AdvanceCapture(p) ==
    /\ pc[p] = "capture"
    /\ loc' = [loc EXCEPT ![p].snap = st, ![p].snapHand = hand,
                          ![p].snapGates = gates]
    /\ Goto(p, "fsm_stage")
    /\ UNCHANGED <<st, hand, gates, repo, lock, rc, used>>

\* Mutants: the phase number lands in last_gate; the record is written with the advance.
MergedPhaseForGate(s, n, top) ==
    [s EXCEPT !.phase = n + 1, !.last_gate = n, !.truth = TRUE, !.command = "advance"]

MergedWithRecord(s, n, top) ==
    [s EXCEPT !.phase = n + 1, !.last_gate = top, !.truth = TRUE, !.command = "advance",
              !.completed[n] = Tip.id]

(***************************************************************************)
(* _advance_fsm, under the lock: merge the advance into the document as it *)
(* is now, publish HANDOVER.md, then state.json, then fr_progress.json.    *)
(***************************************************************************)
Merged(s, n, top) ==
    [s EXCEPT !.phase = n + 1, !.last_gate = top, !.truth = TRUE, !.command = "advance"]

\* Mutant: the lock is not waited for.
AdvanceFsmStageUnlocked(p) ==
    /\ pc[p] = "fsm_stage"
    /\ lock' = p
    /\ loc' = [loc EXCEPT ![p].seen = Merged(st, loc[p].n, loc[p].top)]
    /\ hand' = loc[p].n + 1
    /\ Goto(p, "fsm_publish")
    /\ UNCHANGED <<st, gates, repo, rc, used>>

AdvanceFsmStage(p) ==
    /\ pc[p] = "fsm_stage"
    /\ LockFree
    /\ lock' = p
    /\ loc' = [loc EXCEPT ![p].seen = Merged(st, loc[p].n, loc[p].top)]
    /\ hand' = loc[p].n + 1
    /\ Goto(p, "fsm_publish")
    /\ UNCHANGED <<st, gates, repo, rc, used>>

AdvanceFsmPublish(p) ==
    /\ pc[p] = "fsm_publish"
    /\ st' = loc[p].seen
    /\ Goto(p, "fsm_progress")
    /\ UNCHANGED <<hand, gates, repo, lock, loc, rc, used>>

\* fr_progress.json follows inside the same lock; its failure is swallowed.
AdvanceFsmProgress(p) ==
    /\ pc[p] = "fsm_progress"
    /\ lock' = NoProc
    /\ Goto(p, IF loc[p].n = 2 THEN "manifest" ELSE "header")
    /\ UNCHANGED <<st, hand, gates, repo, loc, rc, used>>

(***************************************************************************)
(* Leaving phase 2 regenerates quality_manifest.json, with no gate results *)
(* (best effort: without SAD.md, or when it fails, the old one stays);     *)
(* without any FR id the command returns 2, the FSM already advanced.      *)
(***************************************************************************)
AdvanceManifest(p) ==
    /\ pc[p] = "manifest"
    /\ \/ gates' \in {gates, {}} /\ Goto(p, "header") /\ UNCHANGED <<loc, rc, used>>
       \/ Fault /\ Exit(p, EX_SKIP_ATTEMPT) /\ UNCHANGED gates
    /\ UNCHANGED <<st, hand, repo, lock>>

\* The next phase's plan header is written into HANDOVER.md, without the lock.
AdvanceHeader(p) ==
    /\ pc[p] = "header"
    /\ hand' = loc[p].n + 1
    /\ Goto(p, "add")
    /\ UNCHANGED <<st, gates, repo, lock, loc, rc, used>>

\* Mutant: a failed git add ends the command without the rollback.
AdvanceAddGivesUp(p) ==
    /\ pc[p] = "add"
    /\ \/ index' = st /\ Goto(p, "commit") /\ UNCHANGED <<loc, rc, used>>
       \/ Fault /\ Exit(p, EX_ROLLED_BACK) /\ UNCHANGED index
    /\ UNCHANGED <<st, hand, gates, hist, newest, remote, lock>>

(***************************************************************************)
(* _advance_step_commit_and_push: git add, git commit.  Either may fail;   *)
(* then the captured files are put back under the lock and unstaged.       *)
(***************************************************************************)
AdvanceAdd(p) ==
    /\ pc[p] = "add"
    /\ \/ index' = st /\ Goto(p, "commit") /\ UNCHANGED used
       \/ Fault /\ Goto(p, "restore") /\ UNCHANGED index
    /\ UNCHANGED <<st, hand, gates, hist, newest, remote, lock, loc, rc>>

\* "nothing to commit" counts as success.
AdvanceCommit(p) ==
    /\ pc[p] = "commit"
    /\ \/ GitCommit("handover", loc[p].n) /\ Goto(p, "parse") /\ UNCHANGED used
       \/ index = Tip.tree /\ Goto(p, "parse") /\ UNCHANGED <<hist, newest, used>>
       \/ Fault /\ Goto(p, "restore") /\ UNCHANGED <<hist, newest>>
    /\ UNCHANGED <<st, hand, gates, index, remote, lock, loc, rc>>

\* Mutant: HANDOVER.md is put back before state.json.
AdvanceRestoreHandoverFirst(p) ==
    /\ pc[p] = "restore"
    /\ LockFree
    /\ lock' = p
    /\ hand' = loc[p].snapHand
    /\ Goto(p, "restore_rest")
    /\ UNCHANGED <<st, gates, repo, loc, rc, used>>

AdvanceRestore(p) ==
    /\ pc[p] = "restore"
    /\ LockFree
    /\ lock' = p
    /\ st' = loc[p].snap
    /\ Goto(p, "restore_rest")
    /\ UNCHANGED <<hand, gates, repo, loc, rc, used>>

\* Mutant: the lock the rollback holds is asked for once more.
AdvanceRestoreRestNested(p) ==
    /\ pc[p] = "restore_rest"
    /\ LockFree
    /\ hand' = loc[p].snapHand
    /\ gates' = loc[p].snapGates
    /\ index' = Tip.tree
    /\ Exit(p, EX_ROLLED_BACK)
    /\ UNCHANGED <<st, hist, newest, remote, lock, used>>

\* A git reset that fails is only warned of.
AdvanceRestoreRest(p) ==
    /\ pc[p] = "restore_rest"
    /\ hand' = loc[p].snapHand
    /\ gates' = loc[p].snapGates
    /\ \/ index' = Tip.tree /\ UNCHANGED used
       \/ Fault /\ UNCHANGED index
    /\ lock' = NoProc
    /\ Exit(p, EX_ROLLED_BACK)
    /\ UNCHANGED <<st, hist, newest, remote>>

\* Mutant: the commit before the handover commit is taken.
AdvanceParseEarly(p) ==
    /\ pc[p] = "parse"
    /\ loc' = [loc EXCEPT ![p].sha = hist[Len(hist) - 1].id]
    /\ Goto(p, "record")
    /\ UNCHANGED <<st, hand, gates, repo, lock, rc, used>>

\* git rev-parse HEAD, taken to answer: git has just accepted a commit.
AdvanceParse(p) ==
    /\ pc[p] = "parse"
    /\ loc' = [loc EXCEPT ![p].sha = Tip.id]
    /\ Goto(p, "record")
    /\ UNCHANGED <<st, hand, gates, repo, lock, rc, used>>

\* Mutant: the record is written without the lock.
AdvanceRecordUnlocked(p) ==
    /\ pc[p] = "record"
    /\ st' = [st EXCEPT !.completed[loc[p].n] = loc[p].sha]
    /\ Goto(p, "record_add")
    /\ UNCHANGED <<hand, gates, repo, lock, loc, rc, used>>

AdvanceRecord(p) ==
    /\ pc[p] = "record"
    /\ LockFree
    /\ \/ st' = [st EXCEPT !.completed[loc[p].n] = loc[p].sha] /\ UNCHANGED used
       \/ Fault /\ UNCHANGED st
    /\ Goto(p, "record_add")
    /\ UNCHANGED <<hand, gates, repo, lock, loc, rc>>

AdvanceRecordAdd(p) ==
    /\ pc[p] = "record_add"
    /\ \/ index' = st /\ Goto(p, "record_commit") /\ UNCHANGED used
       \/ Fault /\ Goto(p, "publish") /\ UNCHANGED index
    /\ UNCHANGED <<st, hand, gates, hist, newest, remote, lock, loc, rc>>

AdvanceRecordCommit(p) ==
    /\ pc[p] = "record_commit"
    /\ \/ index # Tip.tree /\ GitCommit("record", loc[p].n) /\ UNCHANGED used
       \/ index = Tip.tree /\ UNCHANGED <<hist, newest, used>>
       \/ Fault /\ UNCHANGED <<hist, newest>>
    /\ Goto(p, "publish")
    /\ UNCHANGED <<st, hand, gates, index, remote, lock, loc, rc>>

\* --push is optional; a push that fails is reported and nothing rolled back.
AdvancePublish(p) ==
    /\ pc[p] = "publish"
    /\ \/ Goto(p, "readback") /\ UNCHANGED <<remote, loc, rc, used>>
       \/ /\ FastForward
          /\ remote' = Tip.id
          /\ Goto(p, "readback")
          /\ UNCHANGED <<loc, rc, used>>
       \/ ~FastForward /\ Exit(p, EX_PUSH_FAILED) /\ UNCHANGED <<remote, used>>
       \/ Fault /\ Exit(p, EX_PUSH_FAILED) /\ UNCHANGED remote
    /\ UNCHANGED <<st, hand, gates, hist, index, newest, lock>>

\* Mutant: success is reported unread.
AdvanceReadBackBlind(p) ==
    /\ pc[p] = "readback"
    /\ Exit(p, EX_OK)
    /\ UNCHANGED <<st, hand, gates, repo, lock, used>>

\* The record is read back from state.json; one that names no tree, because git
\* did not answer in time, counts as not written.
AdvanceReadBack(p) ==
    /\ pc[p] = "readback"
    /\ \/ Exit(p, IF st.completed[loc[p].n] = 0 THEN EX_RECORD_NOT_WRITTEN ELSE EX_OK)
          /\ UNCHANGED used
       \/ Fault /\ Exit(p, EX_RECORD_NOT_WRITTEN)
    /\ UNCHANGED <<st, hand, gates, repo, lock>>

Advance(p) ==
    \/ \E n \in 1..8 : AdvanceStart(p, n)
    \/ AdvanceRead(p) \/ AdvanceCheck(p) \/ AdvancePrecheckFails(p)
    \/ AdvanceEntryGate(p) \/ AdvanceHeal(p) \/ AdvanceCapture(p)
    \/ AdvanceFsmStage(p) \/ AdvanceFsmPublish(p) \/ AdvanceFsmProgress(p)
    \/ AdvanceManifest(p) \/ AdvanceHeader(p)
    \/ AdvanceAdd(p) \/ AdvanceCommit(p) \/ AdvanceRestore(p) \/ AdvanceRestoreRest(p)
    \/ AdvanceParse(p) \/ AdvanceRecord(p) \/ AdvanceRecordAdd(p)
    \/ AdvanceRecordCommit(p) \/ AdvancePublish(p) \/ AdvanceReadBack(p)
=============================================================================
