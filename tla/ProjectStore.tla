---------------------------- MODULE ProjectStore ----------------------------
(***************************************************************************)
(* What the harness commands share: .methodology/state.json, HANDOVER.md,  *)
(* the gate results of quality_manifest.json, the advisory lock of         *)
(* state.json, and the project's git repository (history of HEAD, index,   *)
(* upstream).  Every command is an operating-system process; a process     *)
(* executes one command at a time and keeps what it has read in "loc".     *)
(*                                                                         *)
(* state.json is replaced as a whole by every writer (atomic_write_json    *)
(* and StateTransaction end in os.replace), so a read always sees a value  *)
(* that was published; StateTransaction.tla models how.                   *)
(***************************************************************************)
EXTENDS Integers, Sequences, FiniteSets

CONSTANTS
    Procs,        \* operating-system processes that run harness commands
    NoProc,       \* the lock file is free
    May,          \* May[p]: the commands process p is used for
    Milestones,   \* --type values of push-milestone
    MilestonePhase, \* the phase whose HANDOVER.md a milestone writes
    MilestoneGate,  \* the gate a milestone needs evidence of (0: none)
    StartPhase,   \* current_phase of the project when the model starts
    MaxRuns,      \* bound: commands started
    MaxFaults,    \* bound: git rejections, I/O errors, refusals after the FSM
    MaxCrashes,   \* bound: processes killed
    MaxRewrites   \* bound: out-of-band git resets and rebases

Commands == {"advance", "milestone", "checkpoint", "finalize"}

Phases == 1..9
Gates == 1..4

ASSUME ProcsAssumption == NoProc \notin Procs
ASSUME MayAssumption == May \in [Procs -> SUBSET Commands]
ASSUME StartAssumption == StartPhase \in 1..8
ASSUME BoundAssumption ==
    MaxRuns \in Nat /\ MaxFaults \in Nat /\ MaxCrashes \in Nat /\ MaxRewrites \in Nat
ASSUME MilestoneAssumption ==
    /\ Milestones \cap {"none", "advance", "gate4"} = {}
    /\ MilestonePhase \in [Milestones -> Phases]
    /\ MilestoneGate \in [Milestones -> 0..4]

(***************************************************************************)
(* core/phase_topology.py                                                  *)
(***************************************************************************)
ExitGatePhases == {3, 4, 6}
EXIT_GATE_MAP == [n \in ExitGatePhases |-> IF n = 6 THEN 4 ELSE n - 1]
ENTRY_GATE_MAP == [n \in 4..9 |-> IF n = 4 THEN 2 ELSE IF n <= 6 THEN 3 ELSE 4]

\* gates_for_phase: cumulative, a gate of an earlier phase may be run again.
GatesForPhase(n) ==
    {EXIT_GATE_MAP[k] : k \in ExitGatePhases \cap 1..n}
        \cup {ENTRY_GATE_MAP[k] : k \in 4..n}
        \cup (IF n >= 3 THEN {1} ELSE {})

(***************************************************************************)
(* state.json.  "completed" is phase_completed[N].sha (0: no entry),       *)
(* "head" is last_milestone_head, "heals" the length of the append-only    *)
(* phase_completed_recovery_log.  Commit ids are natural numbers; 0 is no  *)
(* commit.                                                                 *)
(***************************************************************************)
LastCommands == {"none", "advance", "gate4"} \cup Milestones

StateFile ==
    [phase : Phases, last_gate : 0..4, truth : BOOLEAN,
     completed : [1..8 -> Nat], command : LastCommands,
     head : [Milestones -> Nat], heals : Nat]

Subjects ==
    {"phase-work", "checkpoint", "handover", "record", "milestone", "gate"}
CommitRec == [id : Nat, subject : Subjects, n : 0..9, tree : StateFile]

(***************************************************************************)
(* A project that has reached phase s through the harness: each finished   *)
(* phase left a commit of its own work (for phases 1 and 2 the human-      *)
(* review checkpoint), the handover commit and the commit of its record.   *)
(***************************************************************************)
CheckpointId(k) == 3 * k - 1
HandoverId(k) == 3 * k
RecordId(k) == 3 * k + 1

PassedAt(s) == IF s < 4 THEN {} ELSE 1..ENTRY_GATE_MAP[s]
HighestGate(G) == IF G = {} THEN 0 ELSE CHOOSE g \in G : \A h \in G : h <= g

\* state.json as commit i of such a history holds it; push-checkpoint records
\* the commit before its own, advance-phase the handover commit.
TreeAt(i) ==
    LET s == 1 + (i \div 3) IN
    [phase |-> s, last_gate |-> HighestGate(PassedAt(s)), truth |-> s > 1,
     completed |-> [k \in 1..8 |->
        IF i >= RecordId(k) THEN HandoverId(k)
        ELSE IF k <= 2 /\ i >= CheckpointId(k) THEN CheckpointId(k) - 1 ELSE 0],
     command |-> IF s > 1 THEN "advance" ELSE "none",
     head |-> [m \in Milestones |-> 0], heals |-> 0]

StartId == 3 * StartPhase - 2
StartTree == TreeAt(StartId)

StartSubject(i) ==
    IF i = 1 THEN "phase-work"
    ELSE CASE i % 3 = 0 -> "handover"
           [] i % 3 = 1 -> "record"
           [] i % 3 = 2 -> IF i \in {CheckpointId(1), CheckpointId(2)}
                           THEN "checkpoint" ELSE "phase-work"

StartHistory ==
    [i \in 1..StartId |->
        [id |-> i, subject |-> StartSubject(i), n |-> (i + 1) \div 3, tree |-> TreeAt(i)]]

(***************************************************************************)
(* What a process keeps between its steps.  "seen" is the state.json it    *)
(* read (later: the merged document it is about to publish), "snap",       *)
(* "snapHand" and "snapGates" are the bytes FileSnapshot captured, "top"   *)
(* is the highest gate the manifest showed, "sha" a resolved commit, "old" *)
(* the sha it observed or the entry it replaced, "cmd0" the                *)
(* last_milestone_command it replaced, "wrote" whether its optimistic      *)
(* write to state.json landed.                                             *)
(***************************************************************************)
IdleLoc ==
    [cmd |-> "none", n |-> 0, m |-> "none", again |-> FALSE,
     seen |-> StartTree, snap |-> StartTree, snapHand |-> StartPhase, snapGates |-> {},
     top |-> 0, sha |-> 0, old |-> 0, cmd0 |-> "none", wrote |-> FALSE]

LocRec ==
    [cmd : Commands \cup {"none"}, n : 0..8, m : LastCommands, again : BOOLEAN,
     seen : StateFile, snap : StateFile, snapHand : Phases, snapGates : SUBSET Gates,
     top : 0..4, sha : Nat, old : Nat, cmd0 : LastCommands, wrote : BOOLEAN]

AdvanceLabels ==
    {"read", "check", "entry", "heal", "capture", "fsm_stage", "fsm_publish",
     "fsm_progress", "manifest", "header", "add", "commit", "restore",
     "restore_rest", "parse", "record", "record_add", "record_commit", "publish", "readback"}
PushLabels ==
    {"evidence", "audit", "validate", "stage", "push_commit", "push", "abandon", "unaudit", "push_parse",
     "push_head"}
GateLabels == {"gate_checks", "gate_state", "gate_refused", "unverdict"}
Labels == {"idle"} \cup AdvanceLabels \cup PushLabels \cup GateLabels

\* Exit codes the properties tell apart; 99 stands for the other refusals.
NotRun == -1
EX_OK == 0
EX_FAILED == 1
EX_SKIP_ATTEMPT == 2
EX_ROLLED_BACK == 6
EX_ENTRY_GATE == 10
EX_TRUTH_MISSING == 12
EX_PUSH_FAILED == 28
EX_RECORD_NOT_WRITTEN == 40
EX_OTHER == 99
ExitCodes == {NotRun, EX_OK, EX_FAILED, EX_SKIP_ATTEMPT, EX_ROLLED_BACK,
              EX_ENTRY_GATE, EX_TRUTH_MISSING, EX_PUSH_FAILED, EX_RECORD_NOT_WRITTEN, EX_OTHER}

VARIABLES
    st,       \* .methodology/state.json in the working tree
    hand,     \* the phase HANDOVER.md tells a new session to resume
    gates,    \* gates whose gate_results entry says quality_complete
    hist,     \* the commits reachable from HEAD, oldest first
    index,    \* state.json as staged in git's index
    newest,   \* id of the last commit object created
    remote,   \* id of the upstream tip, 0 when there is no upstream
    lock,     \* holder of state.json's flock
    pc, loc,  \* control point and memory of every process
    rc,       \* exit code of the command a process finished last
    used      \* how much of each bound has been spent

repo == <<hist, index, newest, remote>>
vars == <<st, hand, gates, hist, index, newest, remote, lock, pc, loc, rc, used>>

Tip == hist[Len(hist)]
Reachable(sha) == \E i \in 1..Len(hist) : hist[i].id = sha
Marked(k) == {i \in 1..Len(hist) : hist[i].subject = "checkpoint" /\ hist[i].n = k}

\* A push the server accepts: the upstream tip is an ancestor of HEAD.
FastForward == remote = 0 \/ Reachable(remote)

(***************************************************************************)
(* Control.                                                                *)
(***************************************************************************)
Goto(p, label) == pc' = [pc EXCEPT ![p] = label]

Start(p, cmd) ==
    /\ pc[p] = "idle"
    /\ cmd \in May[p]
    /\ used.runs < MaxRuns
    /\ used' = [used EXCEPT !.runs = @ + 1]
    /\ rc' = [rc EXCEPT ![p] = NotRun]

Exit(p, code) ==
    /\ pc' = [pc EXCEPT ![p] = "idle"]
    /\ loc' = [loc EXCEPT ![p] = IdleLoc]
    /\ rc' = [rc EXCEPT ![p] = code]

Fault ==
    /\ used.faults < MaxFaults
    /\ used' = [used EXCEPT !.faults = @ + 1]

LockFree == lock = NoProc

(***************************************************************************)
(* git commit: a new object on top of HEAD that holds what is staged.      *)
(***************************************************************************)
GitCommit(subject, n) ==
    /\ newest' = newest + 1
    /\ hist' = Append(hist, [id |-> newest + 1, subject |-> subject, n |-> n,
                             tree |-> index])

StoreInit ==
    /\ st = StartTree
    /\ hand = StartPhase
    /\ gates = PassedAt(StartPhase)
    /\ hist = StartHistory
    /\ index = StartTree
    /\ newest = StartId
    /\ remote \in {0, StartId}
    /\ lock = NoProc
    /\ pc = [p \in Procs |-> "idle"]
    /\ loc = [p \in Procs |-> IdleLoc]
    /\ rc = [p \in Procs |-> NotRun]
    /\ used = [runs |-> 0, faults |-> 0, crashes |-> 0, rewrites |-> 0]
=============================================================================
