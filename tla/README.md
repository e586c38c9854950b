# TLA+ for harness-methodology

The harness drives a software project through nine phases.  Every step is a
command-line process (`python harness_cli.py advance-phase ...`) that reads and
replaces a few JSON and Markdown files under the project, commits them, and
sometimes pushes.  Nothing runs as a server: what the commands share are
*files*, one advisory lock and a git repository, and several commands may run
at the same time (a workflow, an operator, a hook).  Nearly everything that can
go wrong is therefore about the order of writes: a command refused, killed or
overtaken half way.

## 1. Inventory

| Component | State | Operations | What makes it correct |
|---|---|---|---|
| Phase advance, `cli/phase_cmds.py`, `cli/advance_steps.py`, `cli/advance_commit.py` | `current_phase`, `last_gate`, `phase_truth_passed`, `phase_completed` in `state.json`; `HANDOVER.md` | `advance-phase --completed N` | one phase at a time, behind its gate; no phase that git does not record; success leaves a record |
| Self-heal, `core/quality_gate/phase_completed_recovery.py` | `phase_completed[N].sha`, `phase_completed_recovery_log` | `try_recover_dangling_phase_completed` | replaces dangling entries only |
| Push commands, `cli/push_cmds.py`, `harness/git_strategy.py` | `phase_completed[1..2]`, `last_milestone_command`, `last_milestone_head`, commits, upstream | `push-checkpoint`, `push-milestone` | what is announced is what was pushed |
| Gate finalisation, `cli/gate_cmds.py`, `harness/gate_stages.py`, `harness/harness_bridge.py` | `gate_results` of `quality_manifest.json`, `last_gate` | `finalize-gate` | `quality_complete` means committed |
| Phase topology, `core/phase_topology.py` | constants | `gates_for_phase`, the gate maps | - |
| Atomic I/O, `core/atomic_io.py` | staging files, journal, lock file | `atomic_write_*`, `file_lock`, `StateTransaction`, `FileSnapshot` | all-or-reported write sets; exclusion |
| Change requests, `core/maintenance/cr_manager.py`, `cli/cr_cmds.py` | `CR-NN.json`, `MAINTENANCE_LOG.md` | `cr-open`, `cr-update`, `cr-close` | forward-only lifecycle; closed means logged, evidenced, gated |
| Kill switch, `kill_switch/`, the agent hooks of `core/phase_hooks.py` | circuit per agent, health, cache and interrupt lock in memory; a state file per agent | record metrics, `evaluate_and_trigger`, `manual_trigger`, `re_enable`, the hooks before and after an agent | one interrupt at a time, one per opening; a saved kill outlives the process and lets nobody through |
| Tree custody and source-tree lock, `core/tree_custody.py`, `core/quality_gate/source_tree_lock.py` | `tree_custody.json`, flock | a mutation window (digest, snapshot, mark, mutmut, restore, verify, close), a suite, a commit | no suite measures a mutant, none is committed, a mutant is on record |
| FR step pipeline, `cli/fr_cmds.py`, `cli/fr_step_stages.py` | commits, tree, manifest, gate sentinel and timestamp row, step failures of `degradations.jsonl` | `run-fr-step`: skip, refuse, dispatch, retry, Gate 1 with its fix rounds, guards at the end | done steps are skipped, one failure is not bought without end, success leaves evidence |
| Auto-fix, reviewers, spawning, `core/auto_fix`, `harness/reviewer_router.py`, `core/agent_spawner.py` | retry budgets | rounds of agent calls | bounded retries |
| Scoring, traceability, drift, constitution, enforcement, doctor, generators | - | pure readers or writers of reports | - |

How they meet: `advance-phase` calls the entry gate (which may self-heal),
`_advance_fsm` (a `StateTransaction` under the lock) and git; `push-*` and
`finalize-gate` write `state.json` and the manifest before they try to commit;
all of them end in `GitStrategy._commit_and_push`; `cr-close` reads the
manifest and uses a `StateTransaction` with no lock.  `_commit` asks
`tree_custody` whether a mutation window is open; the gates that `finalize-gate`
and `run-fr-step` measure run under the source-tree lock; the phase hooks ask the
kill switch before every agent.  The hard behaviours are: two commands interleaving, git refusing (hook, network, upstream ahead), a kill
between two writes, a branch reset or rebased out of band, and a re-run after
any of these.

## 2. Modules

```
ProjectStore ──┬── AdvancePhase ──┐
               └── PushAndGate ───┴── PhasePipeline ──┬── MCPhasePipeline
                                   (implements        └── PhasePipelineProofs ── HealProofs ── PhaseOrderProofs
                                    PhaseLedger)
StateTransaction ── ChangeRequests ──┬── MCChangeRequests
                    (implements      └── ChangeRequestsProofs ── TicketOrderProofs
                     TicketLifecycle)
CircuitBreaker ── KillSwitch ──┬── MCKillSwitch
                               └── KillSwitchProofs
TreeCustody ──┬── MCTreeCustody
              └── TreeCustodyProofs
FrStep ──┬── MCFrStep
         └── FrStepProofs
```

**ProjectStore**: the shared state.  `st` is `state.json` cut down to the fields
somebody decides on; `hand` the phase `HANDOVER.md` tells a session to resume;
`gates` the gates with `quality_complete` (Gate 1, kept per FR in the code, is
one FR here); `hist` the commits reachable from HEAD, each with the `state.json`
it holds; `index` the staged `state.json`; `remote` the upstream tip; `lock` the
flock.  Commit ids are numbers.  Every process has a control point `pc` and a
memory `loc`; a command is a sequence of steps cut where another process can
act or where a kill leaves something on disk.  A critical section with a single
write at its end is one action; `_advance_fsm` and the rollback, which write
twice under the lock, take several.  The start is the history a project has
after it reached phase `StartPhase` through these same commands.

**AdvancePhase**: `cmd_advance_phase` from its first read of `state.json` to the
read-back of the record.  The refusals before the first read leave nothing
behind and are the command not starting; those of the prechecks and of the open
obligations are `AdvancePrecheckFails`.  `rev-parse HEAD` after a successful
commit is taken to answer, and `HARNESS_NO_GIT` to be unset: on those paths the
command exits 0 without a record and logs it.  A shallow clone and an unreadable
`state.json` are left out.

**PushAndGate**: `push-checkpoint`, `push-milestone` and `finalize-gate`.  Each
writes optimistically, commits and pushes, and undoes its own field when git
refuses.  How a gate is scored is a free choice of pass or block.  An exception
that `finalize-gate` does not catch (the write of its state checkpoint or of its
receipt fails) leaves what a kill at that point leaves, and is a `Crash`.

**PhasePipeline**: the commands together, `Crash` (memory lost, lock freed, files
as they are) and `OperatorRewrite` (reset or rebase of one or two commits), the
specification, the fairness and the properties.

**PhaseLedger**: what somebody who sees only commits is promised: the phase moves
up by one, and completion records only accumulate, for phases that are over
(1 and 2 also while under review).  `CommitsFormLedger` checks that the
`state.json` of the commit at HEAD implements it.

**StateTransaction**: stage, journal, rename, unlink, with I/O errors at every
step, partial writes, the clean-up of `__exit__` and kills.  The staging files
and the journal are shared by all processes, as their names are in the code.

**ChangeRequests**: tickets and the maintenance log as files, commands as load,
check, write; several processes; `TicketLifecycle` is the abstract lifecycle it
implements when commands do not overlap.  A ticket keeps its status, which
evidence it holds and its affected FRs.  The Gate 1 records are in another
document, the variable `gate1`, which a `finalize-gate` beside the commands flips
at any time; `cr-close` reads it once, in its checklist (`CloseCheck`), between
two loads of the ticket.  `seen` is not in the code: it remembers what that
reading found.

**CircuitBreaker**: the circuit of one agent as a value and each method of the
breaker, which runs whole under the breaker's lock, as an operator on it.  Of
time only what the code asks is kept: whether the cooldown is unset, running or
over.

**KillSwitch**: the facade and its parts for one agent.  A process has the
circuit, the health monitor, the cache of the state manager and the interrupt
lock in memory; its threads call `evaluate_and_trigger` (`Tick...`),
`manual_trigger` (`Trigger`), `re_enable` (`Reset...`) and the hooks around an
agent (`Dev...`).  A method of a part is one step, so the facade's calls
interleave where the parts' locks are let go.  `save_state` is two steps, since
it truncates the file and fills it; `writing` says which of the open
descriptors still belong to the file under its name, because `load_state` moves
away a file it cannot parse and `re_enable` unlinks it.  A process may exit or be
killed, its memory is gone, the file stays.  `record_metrics` and
`evaluate_and_trigger` have no caller in the repository besides tests: the run's
monitor thread stands for a program that uses them as their documentation says.
The pid registry of the interrupt engine, which only words the outcome of an
event, and the audit log are left out.

**TreeCustody**: `custody` around `mutmut` and the lock around both.  A window is
eleven steps, with the record truncated and filled separately, an I/O error at
each write, and mutmut as a process group that applies and reverts mutants by
itself and goes on when the harness is killed.  A test suite waits for the lock;
`_commit` only asks the record, then stages, then commits, three steps.  Agents
edit at any time.  The refusal of `source_tree_lock` to be taken twice in one
thread is left out, since no modelled command nests it.  The variable `left` is
not in the code: it remembers whether a window was cut short and whether a later
one took the leftovers for the project's own bytes.

**FrStep**: `run-fr-step`, one process at a time.  The sources are a version
number, of git status only whether sources are dirty and which of the
framework's files are; `ledger` is the bag of step-failure rows, each under the
fingerprint of the tree its process started from, which is what the refusal of
repetitions counts.  A dispatch ends in one of the statuses the code tells
apart; while it runs the sub-agent may edit, commit, or call `finalize-gate`.
The retry in the process, the routing of errors, the fix rounds with their
no-progress rule, the evaluator that is asked again, the inline fixes, the paper
trail of a pass and the dirty-tree and ghost guards follow the order of
`cmd_run_fr_step`.  The start has the ledger dirty already, as it is in every
project that ran a step before.

## 3. Runs

Passing runs (all exhaustive):

| Run | Instance | Shows |
|---|---|---|
| `sequential` | one process, all commands, from phase 6, two milestone types, 4 commands, 1 fault | with no command running, files, commits and upstream agree: no ghost phase, records name the handover commit, a verdict is committed, a milestone (and gate 4) is pushed, the phase moves by one behind its gate, success leaves a record, commits form a ledger |
| `concurrent` | two processes that advance, one of which also pushes milestones and finalizes gates, from phase 7, 2 commands, 1 kill, fair | no lost update when the FSM publishes; the lock is held exactly inside the multi-step sections; a record names the handover commit whatever is committed beside it; every command ends, also when a killed one held the lock |
| `killed` | `advance-phase` from phase 7, 4 commands, 1 fault, 2 kills, fair | `HANDOVER.md` never lags behind `state.json`; success leaves a record; every command ends, its rollback included |
| `healing` | two processes that both advance and checkpoint, from phase 2, 2 commands, 1 fault, 1 kill, 1 rewrite | the self-heal only replaces dangling entries; what the FSM publishes is current beside a checkpoint that is taken back |
| `cr_serial` | one process, one ticket from its opening on, two FRs, 7 commands, 1 Gate 1 verdict, 1 fault, 1 kill | the lifecycle, frozen terminal tickets, closed means logged and closed by a command that found the FRs passing, a closing cut off between its renames leaves its journal and its sibling |
| `cr_concurrent` | two processes, one verified ticket, one FR, 3 commands, 1 Gate 1 verdict, 1 fault, 1 kill | a closed ticket has its closure evidence and its FRs whatever raced with it |
| `kill_switch` | one session with a monitor, a hook and an operator thread, threshold 2, 5 operations, 1 fault, 1 kill, fair | one interrupt at a time and one per opening, closed means below the threshold, a saved kill survives and lets nobody through, every call returns |
| `custody` | two harness processes, two windows, one suite or commit, 1 edit, 1 fault, 1 kill, fair | suites see no mutant while windows end in order, a mutant is on record, every command ends even when mutmut hangs |
| `fr_step` | TDD-GREEN and GATE1-DELTA, two invocations, `Limit` 2, two fix rounds, COVERAGE-FIX, 1 edit, 1 commit, 1 kill, fair | no failure is bought more than `2 * Limit - 1` times at one tree, a gate step that returns 0 left its row, every invocation ends |

Runs that show a disagreement between the code and what it says of itself:

| Run | Property | What happens |
|---|---|---|
| `mutant_shipped` | `NoMutantShipped` | the harness is killed inside a mutation window; the next window takes the mutated bytes for the originals, restores *them*, closes the record, and the commit that asks sees nothing open |
| `refused_repair` | `RepairReopens` | a step that failed on a dirty file is refused although the file was repaired since: the fingerprint of the tree names dirty files and not their contents |
| `milestone_lost` | `MilestoneHeadKept` | an `advance-phase` captures `state.json`, another process pushes a milestone and records its head, git refuses the handover commit, and the rollback puts the older bytes back under the lock: the head is gone |

Some of what the passing runs show holds only for the instance they name, and
each was tried on larger ones.

*Pipeline.* That a re-run writes the record a first run missed, as
`advance_steps.py:753` advises, does not hold: the re-verify branch
(`phase_cmds.py:593`) writes nothing. For the reviewed phases 1 and 2 such a re-run
even exits 0 on the commit marker alone, so from phase 1 on `SuccessLeavesRecord`
fails with two faults: the audit write of the checkpoint is swallowed, the write of
the record fails, and the re-run reports success with no record; the runs start at
phase 6 and 7. `NoGhostPhase` fails where phase 2 is left with no FR id:
`phase_cmds.py:863` returns 2 with the FSM advanced and nothing restored;
`sequential` starts past it. `PublishIsFresh` does not cover the rollback, which
writes without reading: `milestone_lost` shows what is lost there.
`GateMeansCommitted` fails for a `finalize-gate` killed between manifest and commit,
and, like `MilestoneMeansPushed`, for a second fault inside a revert, which the code
calls best effort. `HandoverNotBehind` is about `advance-phase` alone: a push
command for an earlier phase rewrites `HANDOVER.md` for that phase by design, and
two processes rolling back can restore each other's snapshots. CV-2 compares a phase
that was read under the lock but is compared after it is released, so two advances
of one phase may both get past it; `PublishIsFresh` shows what remains true then.
`RecordNamesHandover` fails with a fault beside a second process that advances: the
`git reset` of the one's rollback unstages what the other had added, whose handover
commit then carries the phase before, so `concurrent` has a kill and no fault. The
recovery log of the self-heal can lose an entry when another process rolls back.

*Change requests.* With two processes `ClosedIsLogged` fails (two closes read the
same log and the later one drops the other's row), and so does `TerminalIsFinal` (an
update that loaded the ticket before it was closed writes it back open), because
these commands take no lock; the repository claims neither of overlapping commands,
so `cr_serial` has one process. `CutOffIsJournalled` speaks of the instant a commit
ends. That doctor still reports the tear later, as `atomic_io.py:178` says, does not
hold: the journal has one name per project and the next close, of another ticket,
replaces and deletes it; a retry of the first one that fails before its own commit
then removes the siblings (`__exit__` finds no journal), and the log keeps a row for
a ticket that is not closed with nothing on disk to tell of it. `ClosedWasGated`
speaks of what the checklist found. A `finalize-gate` may take the verdict back
between the checklist and the rename, or any time later, so that the FRs of a closed
ticket pass *now* does not hold and is promised nowhere; nor does the manifest say
how old a verdict is, though `docs/P9_SOP.md:140` has every touched FR run Gate 1
again. With two processes an edit of `affected_frs` between the two loads of
`cr-close` gets an FR past the checklist.

*Kill switch.*  With two processes `KillSurvives` fails: `load_state` finds the
file another process has just truncated, takes it for corrupt and moves it away,
and the writer fills the moved file.  `OneInterruptPerTrip` fails with two
ticking threads, which may both count up to the threshold.

*Custody.*  `NoMutantShipped` also fails with two processes and no kill: a window
opens between the question of `_commit` and its `git add`.  `SuiteSeesNoMutant`
speaks of windows that ended in order; after a kill mutmut may still be writing.

*FR step.*  `RepetitionBounded` counts per tree.  Filing a failure dirties the
tracked ledger, so a failure may be filed under two trees before they settle; the
start state has the ledger dirty, the settled case.  `MaxStill` is 1 in
`fr_step`, 2 in the code, so that the no-progress rule takes effect within two
rounds.  GATE1 differs from GATE1-DELTA only in not asking whether code changed
since; TDD-RED, TDD-IMPROVE and the other fix agents are in the module but not in
the instance.

The bounds are `MaxRuns` (commands started), `MaxFaults` (git refusals, I/O errors,
refusals after a write), `MaxCrashes` and `MaxKills`, `MaxRewrites`, `MaxTickets`,
`MaxVerdicts` (Gate 1 verdicts written or taken back); `MaxOps` (calls into the kill
switch); `MaxWindows`, `MaxOthers` (suites and commits) and `MaxEdits` of custody;
`MaxVersions` (edits) and `MaxHeads` (commits) of the FR step, whose `Limit`,
`MaxRounds` and `MaxStill` are limits of the code and not bounds.  They are small,
and enough for what each run asks: a command meets the leftovers of at most the few
before it, so two to four commands cover first run, failure, re-run and the next
phase; two processes are the smallest number that race and the lock makes no
difference between a second and a third; one fault or kill reaches every error path
and the path out of it; the seven commands of `cr_serial` are the six of a straight
life of a ticket and a retry, its verdict gives a pass or takes one back, from any
manifest at the start, and its two FRs are one that the ticket names and one that an
edit adds; five kill-switch operations are a start, the two ticks that open the
circuit, and two calls that race with them; a second window is what meets the
leftovers of the first; a second invocation of a step is the one that may be
refused.  `custody` and `fr_step` do not check for deadlock, nor do the
`mutant_shipped` and `refused_repair` runs: when the bounds are spent nothing is
left to do.

Fairness is weak, and per process or thread.  `concurrent` and `killed`: each process's steps
while it runs a command; the operating system schedules a process that can run,
`flock` blocks instead of failing, and commands hold the lock across no call that
waits for anybody else, so the lock is free often enough for the one that waits.
`kill_switch`: each thread's steps inside a call, not its calls and not the
agent's work.  `custody`: each process's steps, `RunEnds` among them because
`run_isolated` kills the whole group at its time limit; nothing is assumed of
mutmut itself.  `fr_step`: the steps of the invocation, since a dispatch has a
wall-clock limit.  Nowhere is anybody obliged to start a command, to fail or to
be killed.

## 4. Proofs

`PhasePipelineProofs` proves, for every set of processes, milestones, start
phase and bounds that meet the assumptions of `ProjectStore`:

* `TypeCorrect`: `Spec => []TypeOK`
* `LockCorrect`: `Spec => []LockDiscipline`
* `PublishCorrect`: `Spec => []PublishIsFresh`

The argument is one inductive invariant,
`IInv == TypeOK /\ ControlOK /\ LockDiscipline /\ PublishIsFresh`.
`PublishIsFresh` is not inductive by itself: that no other process changes
`state.json` while one stands between staging and publishing follows only
because every writer waits for the lock, that is, from `LockDiscipline`; that
what is published stays well typed needs `TypeOK`; and `TypeOK` needs
`ControlOK`, which says what the memory of a process holds at each of its steps
(a command `advance` has a phase in `1..8`, a milestone command has a
milestone).  The proof has one lemma per conjunct and one step per action;
steps that neither write `state.json` nor touch the lock are dispatched by a
common lemma (`PlainStep`).

`HealProofs` is about any number of processes:

* `HealOnlyDanglingAlways`: `Spec => HealOnlyDangling`, with any faults, kills and
  rewrites.  `ShasKnown` says that whatever anybody remembers or has written as a
  commit is an id already given out, and ids are never given twice; with it
  `StillDangling` is inductive: a commit found unreachable at the entry gate is
  unreachable when the record is replaced, because commits of other processes are
  new and a rewrite only drops commits.
* `SuccessLeavesRecordLater`: `StartPhase >= 3` implies
  `Spec => SuccessLeavesRecord`.  The first run reads the record back.  A re-run may
  report success on the commit marker alone, but only for the reviewed phases 1 and
  2; from phase 3 on both of these have their record and nothing takes it away
  (`ReviewInv`: push-checkpoint replaces a record by a commit id and its revert puts
  back the one it found; the snapshots of rollbacks hold both).  Below phase 3 the
  property fails (section 3).

`PhaseOrderProofs` takes the properties that relate the files to one another and to
git, and each theorem names what it needs.  `OneProcess` is at most one process,
`OneAdvancer` at most one that runs `advance-phase` (any number may push and
finalize); `OnlyAdvance` no other command; `NoCrash`, `NoRewrite` and `PastReviews`
are `MaxCrashes = 0`, `MaxRewrites = 0` and `StartPhase >= 3`.  Everything else -
number of commands, faults, kills, rewrites, milestones, start - is free.

| Theorem | Hypotheses | Property |
|---|---|---|
| `PhaseMovesByOneForOneAdvancer` | `OneAdvancer` | `PhaseMovesByOne` |
| `EntryGateHonouredInOneProcess` | `OneProcess` | `EntryGateHonoured` |
| `HandoverNeverBehind` | `OneProcess`, `OnlyAdvance` | `HandoverNotBehind` |
| `RecordsNameHandovers` | `OneAdvancer`, `NoRewrite` | `RecordNamesHandover` |
| `NoGhostPhaseLater` | `OneProcess`, `NoCrash`, `NoRewrite`; `PastReviews` or `MaxFaults = 0` | `NoGhostPhase` |
| `CommitsRefineLedger` | `OneProcess`, `NoCrash`, `NoRewrite`, `PastReviews` | `CommitsFormLedger`, the refinement of `PhaseLedger` |
| `GatesAreCommitted` | `OneProcess`, `NoCrash`, `NoRewrite`, `MaxFaults <= 1` | `GateMeansCommitted` |
| `MilestonesArePushed` | the same | `MilestoneMeansPushed` |

The arguments, in the order of the module:

* *What a command decided still holds where it is used* (`OrderInv`, `GateInv`):
  the phase is the one it was asked to complete, the gate is passed, the snapshot
  is of the phase before.  CV-2, the entry gate and the snapshot hold no lock until
  the FSM does, hence one advancer (for the gate: one process).
* *HANDOVER.md* (`HandInv`) is ahead of `state.json` where the FSM stages it and
  what was captured was not behind, so the rollback may put it back last.
* *Records* (`NamedInv`): what a record names is in the history at or after a
  commit that has left its phase, and the history only grows.
* *Rollbacks* (`FreshInv`): a lone advance changes no completion record between
  capture and restore.
* *The tip* (`StagedInv`, `TipInv`): at a commit the index is `state.json`; with no
  command running, the tip has its phase, and while one runs either the tip or the
  captured bytes do.
* *The ledger* (`RecordInv`, `ClosingInv`): records are only added, never the one of
  a phase that is not over, and each commit carries the records of its moment.
* *Verdicts and claims* (`Numbered`, `FaultsSpent`, `VerdictInv`, `ClaimInv`): on a
  branch nobody rewrites ids number the commits and the upstream is an ancestor of
  HEAD, so a command only takes its way out after a failure, and of one failure
  nothing is left to break the way out itself.  A gate shown as passed was committed
  or is being judged; a milestone named by `state.json` is upheld at the upstream or
  its push is under way, and so is what that push put aside or an advance captured.

The hypotheses are where the code stops promising.  A kill between an optimistic
write and its commit leaves the write; a second failure, inside a revert, is only
warned of; leaving phase 2 without an FR id exits after the FSM was published;
push commands write `HANDOVER.md` for their own phase; a rewrite drops the commit
a record or a milestone stands on.

`ChangeRequestsProofs`, for every set of processes, tickets, starts and bounds:

* `CrTypeCorrect`: `Spec => []CrTypeOK`
* `ClosedHasEvidenceAlways`: `Spec => []ClosedHasEvidence`

A ticket document is `SoundDoc` when it does not say `CLOSED` without its closure
evidence or without an FR; `CrInv` says so of every place a document can be - the files, the staged
siblings, the plans of the transactions, the memories - so that no order of
unlocked loads, saves, renames and leftover siblings can bring out another one.

`TicketOrderProofs` adds, for one process,

* `ClosedIsLoggedInOneProcess`: `Spec => []ClosedIsLogged`
* `ClosedWasGatedInOneProcess`: `Spec => ClosedWasGated`
* `TerminalIsFinalInOneProcess`: `Spec => TerminalIsFinal`
* `CutOffIsJournalledInOneProcess`: `Spec => CutOffIsJournalled`
* `FollowsLifecycleInOneProcess`: `Spec => FollowsLifecycle`, the refinement

from `SerialInv`: what a command decided on one load holds at its later steps
(`InHand`), and a closing goes through its transaction as planned (`InFlight`:
the siblings hold what was staged until they are renamed, the log first, and the
journal is its own).  Each step then leaves the files alone or makes one save, one
row or one closing (`FileStep`), and the theorems are about these, but for
`CutOffIsJournalled`, which follows from `InFlight` at the step that ends a
transaction.  None of the five holds for two processes: on the instance
of `cr_concurrent` TLC finds each of them violated.

`KillSwitchProofs`, for every set of processes and threads, threshold and bounds:

* `KsTypeCorrect`: `Spec => []KsTypeOK`
* `InterruptExclusiveAlways`: `Spec => []InterruptExclusive`
* `ClosedBelowThresholdAlways`: `Spec => []ClosedBelowThreshold`
* `KillSurvivesInOneProcess`: `OneProcess` implies `Spec => []KillSurvives`
* `KilledNotLetThroughInOneProcess`: `OneProcess` implies
  `Spec => KilledNotLetThrough`
* `OneInterruptPerTripOfOneTicker`: `OneTicker` implies
  `Spec => []OneInterruptPerTrip`

The first three are inductive given the types (a lemma per operator of
`CircuitBreaker` says what it does to a circuit below its threshold).
`KillSurvives` is not: between truncating and filling, the file is torn and only
the cache knows of an earlier kill.  `KeptInv` says that the thread inside the
write owns the file under its name and has set the cache (`WriterOwnsFile`), and
that a saved kill is in the file or being written again (`SavedIsWritten`); that
a writer still owns the file when it fills it uses that all threads are of one
process, whose state manager's lock it holds.  `OneProcess` is an assumption of
these two theorems because with two processes the property fails (section 3).
`OneTicker` is at most one ticking thread in each process, any number of processes
and of other threads.  Then nobody opens a circuit or counts a failure between the
steps of a tick, so `TripInv` can say that a tick on its way to its interrupt
(`Due`) has an opening of its own to answer, and that the threshold it reads after
recording is one it has just reached: a reset in between makes the count 0.

`TreeCustodyProofs`, for every set of processes and bounds:

* `TcTypeCorrect`: `Spec => []TcTypeOK`
* `MutantOnRecordAlways`: `Spec => []MutantOnRecord`
* `SuiteSeesNoMutantAlways`: `Spec => []SuiteSeesNoMutant`

The invariant is `Typed /\ LockHeld /\ WindowInv`.  `LockHeld` ties the flock to
the control points.  `WindowInv` has a part for each phase of a project's
history: while every window ended in order (`InOrder`), mutmut runs only in a
window that waits for it, a mutant is in the tree only between run and verify,
the digests that will judge the restore hold no mutant, and the record is open
from the spawn on; once a window was cut short (`LeftOver`), the record is open
and nobody has taken digests yet.  After a later window adopted the leftovers
nothing is claimed, which is where `mutant_shipped` goes.

`FrStepProofs`, for every set of steps, limits and bounds:

* `FrTypeSafety`: `Spec => []FrTypeOK`
* `GateSuccessEvidenced`: `Spec => []SuccessIsEvidenced`
* `RepetitionIsBounded`: `Spec => []RepetitionBounded`

`SuccessIsEvidenced` rests on the paper trail: the sentinel that lets a later
invocation skip is never there without the timestamp row, on whichever way to a
pass it was written.  `RepetitionBounded` is a statement about a bag, and becomes
inductive with an order on trees (`Behind`: commits and edits only lead on): rows
are filed under trees of the past (`RowsBehind`), under the tree an invocation
started from there were fewer than `Limit` of a failure when it was let in, and
each attempt adds at most one (`RowsOpen`).

The constants' assumptions are evaluated by TLC in every run of the modules that
declare them.  Every invariant and every action property that a passing run checks
is the subject of a theorem, for all values of the constants under the hypotheses
named above.  Model-checked only: liveness (`CommandsEnd`, `CallsEnd`,
`CommandEnds`, `InvocationEnds`), which the provers do not handle, and what the
theorems' hypotheses leave out.  `MilestoneHeadKept`, which a fault beside a
`push-milestone` breaks (`milestone_lost`), has no theorem.

## 5. Not modelled

Scoring of gates, tool runners, traceability, drift and constitution checks
read the project and return a verdict: here a free choice.  Generators
produce text.  Agent spawning, auto-fix and review routing drive language-model
sessions whose outcome is free; their retry loops are of the kind `FrStep` has.
Most of the repository's lines are of these kinds: pure functions over documents
and tool output, templates of prompts and workflows, and reports.  They keep no
state that another command decides on, and a model of them would copy their
tables.

Of what is modelled in part: in `run-fr-step`, AMEND-SAB, the lineage boundary
after resets, the prompts and budgets and the order `resume-fr-phase` proposes;
in the manifest, its document with the unlocked read-modify-write (it is a set of
passing gates here); in the phase hooks, `postflight_update_state`, which replaces
`state.json` with no lock; of the FR tracker, its own file.

Stale or partial states that are known and not stated as properties: the reverts
of a push put back a `last_milestone_command` seen before the own write
(`push_cmds.py:409`); `HANDOVER.md` is captured before a push and put back after
it fails (`git_strategy.py:1066`); leaving phase 2 regenerates the manifest with
empty results (`phase_cmds.py:865`); the dirty-tree guard of a step compares with
the tree before its first attempt, so where the ledger was clean the row of a
failed attempt makes the retry that succeeded look uncommitted
(`fr_step_stages.py:580`); an unreadable custody record counts as no open window
(`tree_custody.py:145`).

## 6. Plan

1. The manifest as one document with an unlocked read-modify-write, shared by
   `finalize-gate`, `advance-phase` out of phase 2, `run-fr-step` and `cr-close`
   (a set of passing gates in `ProjectStore`, of FRs in `ChangeRequests` here).
2. The order `resume-fr-phase` proposes and the lineage boundary, composed with
   `FrStep`.
3. Theorems with fewer hypotheses: the gates and milestones with kills, once the
   model says which claims a kill may leave behind; tickets of two processes, for
   commands on different tickets.
