---------------------------- MODULE PhasePipeline ----------------------------
(***************************************************************************)
(* The harness commands of one project, run by several processes, with     *)
(* processes that are killed and an operator who rewrites the branch.      *)
(***************************************************************************)
EXTENDS AdvancePhase, PushAndGate

\* Mutant: the lock is a file that outlives its holder.
CrashKeepsLock(p) ==
    /\ pc[p] # "idle"
    /\ used.crashes < MaxCrashes
    /\ used' = [used EXCEPT !.crashes = @ + 1]
    /\ Exit(p, NotRun)
    /\ UNCHANGED <<st, hand, gates, repo, lock>>

(***************************************************************************)
(* kill -9, an OOM kill or an uncaught exception: memory is lost, the      *)
(* kernel releases the flock, the files stay as they are.                  *)
(***************************************************************************)
Crash(p) ==
    /\ pc[p] # "idle"
    /\ used.crashes < MaxCrashes
    /\ used' = [used EXCEPT !.crashes = @ + 1]
    /\ lock' = IF lock = p THEN NoProc ELSE lock
    /\ Exit(p, NotRun)
    /\ UNCHANGED <<st, hand, gates, repo>>

(***************************************************************************)
(* Out of band, someone resets the branch to HEAD~1 or HEAD~2 (the index   *)
(* follows, the working tree keeps its files), or rebases its last one or  *)
(* two commits, which then are other objects with the same content.        *)
(***************************************************************************)
OperatorRewrite ==
    /\ used.rewrites < MaxRewrites
    /\ used' = [used EXCEPT !.rewrites = @ + 1]
    /\ \E back \in {1, 2} :
          LET kept == Len(hist) - back IN
          /\ kept > 0
          /\ \/ /\ hist' = SubSeq(hist, 1, kept)
                /\ index' = hist[kept].tree
                /\ UNCHANGED newest
             \/ /\ hist' = [i \in 1..Len(hist) |->
                     IF i <= kept THEN hist[i]
                     ELSE [hist[i] EXCEPT !.id = newest + i - kept]]
                /\ newest' = newest + back
                /\ UNCHANGED index
    /\ UNCHANGED <<st, hand, gates, remote, lock, pc, loc, rc>>

Quiet == \A p \in Procs : pc[p] = "idle"

\* The bound on started commands ends every behaviour.
Finished == Quiet /\ used.runs = MaxRuns /\ UNCHANGED vars

Init == StoreInit

Step(p) == Advance(p) \/ Push(p)

Next ==
    \/ \E p \in Procs : Step(p) \/ Crash(p)
    \/ OperatorRewrite
    \/ Finished

Spec == Init /\ [][Next]_vars

(***************************************************************************)
(* A process that is scheduled keeps running; nobody is obliged to start a *)
(* command, to be killed or to reset the branch.                           *)
(***************************************************************************)
Running(p) == pc[p] # "idle" /\ Step(p)
FairSpec == Spec /\ \A p \in Procs : WF_vars(Running(p))

-----------------------------------------------------------------------------
(***************************************************************************)
(* Type invariant of the shared files, the repository and the processes.   *)
(***************************************************************************)
TypeOK ==
    /\ st \in StateFile
    /\ hand \in Phases
    /\ gates \subseteq Gates
    /\ hist \in Seq(CommitRec)
    /\ Len(hist) > 0
    /\ index \in StateFile
    /\ newest \in Nat
    /\ remote \in Nat
    /\ lock \in Procs \cup {NoProc}
    /\ pc \in [Procs -> Labels]
    /\ loc \in [Procs -> LocRec]
    /\ rc \in [Procs -> ExitCodes]
    /\ used \in [runs : Nat, faults : Nat, crashes : Nat, rewrites : Nat]

(***************************************************************************)
(* What the memory of a process holds at each of its steps.                *)
(***************************************************************************)
ControlOK ==
    \A p \in Procs :
        /\ pc[p] \in AdvanceLabels => loc[p].cmd = "advance"
        /\ pc[p] \in PushLabels => loc[p].cmd \in {"checkpoint", "milestone", "finalize"}
        /\ pc[p] \in GateLabels => loc[p].cmd = "finalize"
        /\ loc[p].cmd = "advance" => loc[p].n \in 1..8
        /\ loc[p].cmd = "milestone" => loc[p].m \in Milestones
        /\ loc[p].cmd = "checkpoint" => loc[p].n \in {1, 2}
        /\ loc[p].cmd = "finalize" => loc[p].n \in Gates

(***************************************************************************)
(* state.json's lock is held exactly inside the two critical sections that *)
(* take several steps, _advance_fsm and the rollback, by one process at a  *)
(* time; a killed process does not keep it.                                *)
(***************************************************************************)
Locked(p) == pc[p] \in {"fsm_publish", "fsm_progress", "restore_rest"}
LockDiscipline == \A p \in Procs : Locked(p) <=> lock = p

(***************************************************************************)
(* _advance_fsm loses nobody's update: whatever other commands, crashes    *)
(* and rewrites do, the document it is about to publish is the one that is *)
(* on disk at that moment, with its own fields changed.                    *)
(***************************************************************************)
PublishIsFresh ==
    \A p \in Procs :
        pc[p] = "fsm_publish" => loc[p].seen = Merged(st, loc[p].n, loc[p].top)

(***************************************************************************)
(* When no command is running, state.json claims the phase that the commit *)
(* at HEAD records: no phantom phase for hooks and CI to target.           *)
(***************************************************************************)
NoGhostPhase == Quiet => Tip.tree.phase = st.phase

(***************************************************************************)
(* current_phase moves by one: forward when advance-phase publishes the    *)
(* phase it was asked to complete, back when the same command rolls back.  *)
(***************************************************************************)
PhaseMovesByOne ==
    [][st'.phase # st.phase =>
          \E p \in Procs :
             \/ pc[p] = "fsm_publish" /\ loc[p].n = st.phase /\ st'.phase = st.phase + 1
             \/ pc[p] = "restore" /\ loc[p].n = st'.phase /\ st'.phase = st.phase - 1]_vars

(***************************************************************************)
(* phase_completed[k] of a phase that advance-phase closed names a commit  *)
(* at or after the one that carries the advance out of phase k.            *)
(***************************************************************************)
RecordNamesHandover ==
    \A k \in 3..8 :
        st.completed[k] # 0 =>
            \E i, j \in 1..Len(hist) :
                i <= j /\ hist[i].tree.phase > k /\ hist[j].id = st.completed[k]

(***************************************************************************)
(* advance-phase --completed n that exits 0 leaves phase_completed[n] in   *)
(* state.json, on its first run and on a re-run.                           *)
(***************************************************************************)
SuccessLeavesRecord ==
    [][\A p \in Procs :
          loc[p].cmd = "advance" /\ pc'[p] = "idle" /\ rc'[p] = EX_OK
             => st'.completed[loc[p].n] # 0]_vars

(***************************************************************************)
(* A phase from 4 on is entered only while the manifest shows its entry    *)
(* gate passed (gate 2 for phase 4, gate 3 for 5 and 6, gate 4 after).     *)
(***************************************************************************)
EntryGateHonoured ==
    [][st'.phase > st.phase /\ st'.phase >= 4 => ENTRY_GATE_MAP[st'.phase] \in gates]_vars

(***************************************************************************)
(* quality_complete in the manifest implies that the gate was committed,   *)
(* once no finalize-gate is under way (_mark_gate_commit_failed).          *)
(***************************************************************************)
GateMeansCommitted ==
    Quiet => \A g \in gates \ PassedAt(StartPhase) :
                \E i \in 1..Len(hist) : hist[i].subject = "gate" /\ hist[i].n = g

(***************************************************************************)
(* HANDOVER.md never tells a new session to resume an earlier phase than   *)
(* the one state.json is in, at any instant, through crashes and rollback. *)
(***************************************************************************)
HandoverNotBehind == st.phase <= hand

(***************************************************************************)
(* The self-heal replaces a record only while HEAD does not reach the      *)
(* commit it names: a record another command wrote meanwhile is kept.      *)
(***************************************************************************)
HealOnlyDangling ==
    [][\A p \in Procs, k \in 1..8 :
          pc[p] = "heal" /\ pc'[p] # "heal" /\ st'.completed[k] # st.completed[k]
             => ~Reachable(st.completed[k])]_vars

(***************************************************************************)
(* last_milestone_command alone tells CI that a milestone was pushed, so   *)
(* with no command running it names only what the upstream holds; the same *)
(* goes for gate 4.                                                        *)
(***************************************************************************)
MilestoneMeansPushed ==
    Quiet /\ st.command \in Milestones \cup {"gate4"} =>
        \E i \in 1..Len(hist) :
            /\ hist[i].subject \in {"milestone", "gate"}
            /\ hist[i].tree.command = st.command
            /\ hist[i].id <= remote

(***************************************************************************)
(* What a milestone push recorded about itself (last_milestone_head) is    *)
(* not taken back by another command.                                      *)
(***************************************************************************)
MilestoneHeadKept ==
    [][\A m \in Milestones : st.head[m] # 0 => st'.head[m] # 0]_vars

(***************************************************************************)
(* Every command that was started comes to its end: nobody waits for ever  *)
(* for a lock.                                                             *)
(***************************************************************************)
CommandsEnd == \A p \in Procs : pc[p] # "idle" ~> pc[p] = "idle"

(***************************************************************************)
(* What CI sees - the state.json of the commit at HEAD - is a phase ledger. *)
(***************************************************************************)
Ledger == INSTANCE PhaseLedger
    WITH First <- StartPhase, Last <- 9,
         phase <- Tip.tree.phase,
         recorded <- {k \in 1..8 : Tip.tree.completed[k] # 0}

CommitsFormLedger == Ledger!LedgerSpec
=============================================================================
