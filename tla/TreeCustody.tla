---------------------------- MODULE TreeCustody ----------------------------
(***************************************************************************)
(* The windows in which the framework lets mutmut rewrite the project's    *)
(* sources in place: source_tree_lock, which keeps every other measurement *)
(* of the tree out, and core.tree_custody, which puts the tree back and    *)
(* keeps a record on disk while it has not.                                *)
(*                                                                         *)
(* The sources under custody are one value: how many edits the agents made *)
(* and whether a mutant is applied.  Agents edit without asking anybody.   *)
(* mutmut is its own process group: killing the harness frees the flock    *)
(* and leaves mutmut running.  Custody is only ever taken of one write id, *)
(* so the record is open or not; an unreadable one counts as not open.     *)
(***************************************************************************)
EXTENDS Naturals

CONSTANTS
    Procs,       \* harness processes, or the slots in which they run one after another
    NoProc,      \* nobody holds the flock
    Nothing,     \* no copy of the sources was taken
    MaxWindows,  \* bound: mutation windows started
    MaxOthers,   \* bound: test suites and commits started
    MaxEdits,    \* bound: edits by agents
    MaxFaults,   \* bound: I/O errors
    MaxKills     \* bound: processes killed

Content == [edit : 0..MaxEdits, mutant : BOOLEAN]
Windows == 1..MaxWindows

ASSUME CustodyAssumption ==
    /\ NoProc \notin Procs /\ Nothing \notin Content
    /\ MaxWindows \in Nat /\ MaxOthers \in Nat /\ MaxEdits \in Nat
    /\ MaxFaults \in Nat /\ MaxKills \in Nat

VARIABLES
    lock,    \* who holds the flock
    tree,    \* the sources
    record,  \* tree_custody.json has an open window
    at,      \* where a process is, its window, its digests, its snapshot, "restore failed"
    child,   \* the mutmut of a window: is it running, the backup beside the source
    index,   \* what git add staged
    head,    \* what is committed
    left,    \* did a window end without putting the tree back ("left"), and did a
             \* later one take the leftovers for the project's own ("adopted")
    spent    \* windows, others, edits, faults, kills

vars == <<lock, tree, record, at, child, index, head, left, spent>>

Changing == {"digest", "snapshot", "mark", "fill", "spawn", "run", "restore", "verify", "close"}
Measuring == {"measure"}
Holding == Changing \cup Measuring \cup {"unlock"}
Committing == {"check", "add", "commit"}
Places == {"idle", "want_window", "want_measure"} \cup Holding \cup Committing

Clean == [edit |-> 0, mutant |-> FALSE]
Idle == [pc |-> "idle", w |-> 0, before |-> Nothing, snap |-> Nothing, failed |-> FALSE]

Init ==
    /\ lock = NoProc
    /\ tree = Clean /\ index = Clean /\ head = Clean
    /\ record = FALSE
    /\ at = [p \in Procs |-> Idle]
    /\ child = [w \in Windows |-> [running |-> FALSE, bak |-> Nothing]]
    /\ left = "none"
    /\ spent = [windows |-> 0, others |-> 0, edits |-> 0, faults |-> 0, kills |-> 0]

Goto(p, place) == at' = [at EXCEPT ![p].pc = place]
Fault == spent.faults < MaxFaults /\ spent' = [spent EXCEPT !.faults = @ + 1]

(***************************************************************************)
(* source_tree_lock.                                                       *)
(***************************************************************************)
Acquire(p) ==
    /\ at[p].pc \in {"want_window", "want_measure"}
    /\ lock = NoProc
    /\ lock' = p
    /\ Goto(p, IF at[p].pc = "want_window" THEN "digest" ELSE "measure")
    /\ UNCHANGED <<tree, record, child, index, head, left, spent>>

Release(p) ==
    /\ at[p].pc = "unlock"
    /\ lock' = NoProc
    /\ at' = [at EXCEPT ![p] = Idle]
    /\ UNCHANGED <<tree, record, child, index, head, left, spent>>

(***************************************************************************)
(* custody around mutmut, in run_mutation_precheck and in                  *)
(* compute_mutation_score.                                                 *)
(***************************************************************************)
Window(p) ==
    /\ at[p].pc = "idle"
    /\ spent.windows < MaxWindows
    /\ spent' = [spent EXCEPT !.windows = @ + 1]
    /\ at' = [at EXCEPT ![p] = [Idle EXCEPT !.pc = "want_window", !.w = spent.windows + 1]]
    /\ UNCHANGED <<lock, tree, record, child, index, head, left>>

\* before: the digests that will judge the restore.
Digest(p) ==
    /\ at[p].pc = "digest"
    /\ at' = [at EXCEPT ![p].pc = "snapshot", ![p].before = tree]
    /\ left' = IF left = "left" THEN "adopted" ELSE left
    /\ UNCHANGED <<lock, tree, record, child, index, head, spent>>

\* FileSnapshot: the bytes that will be put back.
Snapshot(p) ==
    /\ at[p].pc = "snapshot"
    /\ at' = [at EXCEPT ![p].pc = "mark", ![p].snap = tree]
    /\ UNCHANGED <<lock, tree, record, child, index, head, left, spent>>

\* _mark_open rewrites the record in place: truncated, then filled.
MarkOpen(p) ==
    /\ at[p].pc = "mark"
    /\ \/ record' = FALSE /\ Goto(p, "fill") /\ UNCHANGED spent
       \/ Fault /\ Goto(p, "unlock") /\ UNCHANGED record
    /\ UNCHANGED <<lock, tree, child, index, head, left>>

FillRecord(p) ==
    /\ at[p].pc = "fill"
    /\ \/ record' = TRUE /\ Goto(p, "spawn") /\ UNCHANGED spent
       \/ Fault /\ Goto(p, "unlock") /\ UNCHANGED record
    /\ UNCHANGED <<lock, tree, child, index, head, left>>

Spawn(p) ==
    /\ at[p].pc = "spawn"
    /\ child' = [child EXCEPT ![at[p].w].running = TRUE]
    /\ Goto(p, "run")
    /\ UNCHANGED <<lock, tree, record, index, head, left, spent>>

\* Mutant: the lock is taken inside custody, and given back before the tree is.
RunEndsUnlocked(p) ==
    /\ at[p].pc = "run"
    /\ child' = [child EXCEPT ![at[p].w].running = FALSE]
    /\ lock' = NoProc
    /\ Goto(p, "restore")
    /\ UNCHANGED <<tree, record, index, head, left, spent>>

\* Mutant: the timeout kills the leader only, and waits for the pipe its children hold.
RunEndsLeaderOnly(p) ==
    /\ at[p].pc = "run"
    /\ ~child[at[p].w].running
    /\ Goto(p, "restore")
    /\ UNCHANGED <<lock, tree, record, child, index, head, left, spent>>

\* run_isolated returns: mutmut ended, or its timeout killed the whole group.
RunEnds(p) ==
    /\ at[p].pc = "run"
    /\ child' = [child EXCEPT ![at[p].w].running = FALSE]
    /\ Goto(p, "restore")
    /\ UNCHANGED <<lock, tree, record, index, head, left, spent>>

\* Mutant: the backup of mutmut is moved back instead of the bytes custody took.
RestoreBackup(p) ==
    /\ at[p].pc = "restore"
    /\ tree' = child[at[p].w].bak
    /\ Goto(p, "verify")
    /\ UNCHANGED <<lock, record, child, index, head, left, spent>>

Restore(p) ==
    /\ at[p].pc = "restore"
    /\ \/ /\ tree' = at[p].snap
          /\ Goto(p, "verify")
          /\ UNCHANGED spent
       \/ /\ Fault
          /\ at' = [at EXCEPT ![p].pc = "verify", ![p].failed = TRUE]
          /\ UNCHANGED tree
    /\ UNCHANGED <<lock, record, child, index, head, left>>

\* Mutant: the record is closed before the residue is raised.
VerifyCloses(p) ==
    /\ at[p].pc = "verify"
    /\ IF tree = at[p].before /\ ~at[p].failed
       THEN Goto(p, "close") /\ UNCHANGED <<record, left>>
       ELSE /\ Goto(p, "unlock")
            /\ record' = FALSE
            /\ left' = IF left = "none" THEN "left" ELSE left
    /\ UNCHANGED <<lock, tree, child, index, head, spent>>

\* TreeCustodyResidue leaves the record open; both callers turn it into a
\* verdict ("Error running mutmut") with their except Exception.
Verify(p) ==
    /\ at[p].pc = "verify"
    /\ IF tree = at[p].before /\ ~at[p].failed
       THEN Goto(p, "close") /\ UNCHANGED left
       ELSE Goto(p, "unlock") /\ left' = IF left = "none" THEN "left" ELSE left
    /\ UNCHANGED <<lock, tree, record, child, index, head, spent>>

MarkClosed(p) ==
    /\ at[p].pc = "close"
    /\ \/ record' = FALSE /\ UNCHANGED spent
       \/ Fault /\ UNCHANGED record
    /\ Goto(p, "unlock")
    /\ UNCHANGED <<lock, tree, child, index, head, left>>

(***************************************************************************)
(* run_against_source_tree: the test suites of the gates.                  *)
(***************************************************************************)
Measure(p) ==
    /\ at[p].pc = "idle"
    /\ spent.others < MaxOthers
    /\ spent' = [spent EXCEPT !.others = @ + 1]
    /\ Goto(p, "want_measure")
    /\ UNCHANGED <<lock, tree, record, child, index, head, left>>

Measured(p) ==
    /\ at[p].pc = "measure"
    /\ Goto(p, "unlock")
    /\ UNCHANGED <<lock, tree, record, child, index, head, left, spent>>

(***************************************************************************)
(* GitStrategy._commit: asks the record, not the lock.                     *)
(***************************************************************************)
Commit(p) ==
    /\ at[p].pc = "idle"
    /\ spent.others < MaxOthers
    /\ spent' = [spent EXCEPT !.others = @ + 1]
    /\ Goto(p, "check")
    /\ UNCHANGED <<lock, tree, record, child, index, head, left>>

AssertNoOpenCustody(p) ==
    /\ at[p].pc = "check"
    /\ Goto(p, IF record THEN "idle" ELSE "add")
    /\ UNCHANGED <<lock, tree, record, child, index, head, left, spent>>

GitAdd(p) ==
    /\ at[p].pc = "add"
    /\ \/ index' = tree /\ Goto(p, "commit") /\ UNCHANGED spent
       \/ Fault /\ Goto(p, "idle") /\ UNCHANGED index
    /\ UNCHANGED <<lock, tree, record, child, head, left>>

GitCommit(p) ==
    /\ at[p].pc = "commit"
    /\ \/ head' = index /\ UNCHANGED spent
       \/ Fault /\ UNCHANGED head
    /\ Goto(p, "idle")
    /\ UNCHANGED <<lock, tree, record, child, index, left>>

(***************************************************************************)
(* mutmut, the agents, and the kill of a harness process.                  *)
(***************************************************************************)
ApplyMutant(w) ==
    /\ child[w].running /\ child[w].bak = Nothing
    /\ child' = [child EXCEPT ![w].bak = tree]
    /\ tree' = [tree EXCEPT !.mutant = TRUE]
    /\ UNCHANGED <<lock, record, at, index, head, left, spent>>

RevertMutant(w) ==
    /\ child[w].running /\ child[w].bak # Nothing
    /\ tree' = child[w].bak
    /\ child' = [child EXCEPT ![w].bak = Nothing]
    /\ UNCHANGED <<lock, record, at, index, head, left, spent>>

\* mutmut ends by itself or is killed, with or without its mutant applied.
MutmutEnds(w) ==
    /\ child[w].running
    /\ child' = [child EXCEPT ![w].running = FALSE]
    /\ UNCHANGED <<lock, tree, record, at, index, head, left, spent>>

Edit ==
    /\ spent.edits < MaxEdits
    /\ spent' = [spent EXCEPT !.edits = @ + 1]
    /\ tree' = [tree EXCEPT !.edit = spent.edits + 1]
    /\ UNCHANGED <<lock, record, at, child, index, head, left>>

Killed(p) ==
    /\ at[p].pc # "idle"
    /\ spent.kills < MaxKills
    /\ spent' = [spent EXCEPT !.kills = @ + 1]
    /\ lock' = IF lock = p THEN NoProc ELSE lock
    /\ at' = [at EXCEPT ![p] = Idle]
    /\ left' = IF left = "none" /\ at[p].pc \in {"run", "restore", "verify", "close"}
               THEN "left" ELSE left
    /\ UNCHANGED <<tree, record, child, index, head>>

Start(p) == Window(p) \/ Measure(p) \/ Commit(p)
Continue(p) ==
    \/ Acquire(p) \/ Release(p)
    \/ Digest(p) \/ Snapshot(p) \/ MarkOpen(p) \/ FillRecord(p) \/ Spawn(p) \/ RunEnds(p)
    \/ Restore(p) \/ Verify(p) \/ MarkClosed(p)
    \/ Measured(p) \/ AssertNoOpenCustody(p) \/ GitAdd(p) \/ GitCommit(p)
Mutmut(w) == ApplyMutant(w) \/ RevertMutant(w) \/ MutmutEnds(w)

Next ==
    \/ \E p \in Procs : Start(p) \/ Continue(p) \/ Killed(p)
    \/ \E w \in Windows : Mutmut(w)
    \/ Edit

Spec == Init /\ [][Next]_vars

\* A command that can go on does; run_isolated returns at its timeout whatever
\* mutmut does.  Nothing is assumed of mutmut or of the agents.
FairSpec == Spec /\ \A p \in Procs : WF_vars(Continue(p))
-----------------------------------------------------------------------------
TcTypeOK ==
    /\ lock \in Procs \cup {NoProc}
    /\ tree \in Content /\ index \in Content /\ head \in Content
    /\ record \in BOOLEAN
    /\ at \in [Procs -> [pc : Places, w : 0..MaxWindows, before : Content \cup {Nothing},
                         snap : Content \cup {Nothing}, failed : BOOLEAN]]
    /\ child \in [Windows -> [running : BOOLEAN, bak : Content \cup {Nothing}]]
    /\ left \in {"none", "left", "adopted"}
    /\ spent \in [windows : 0..MaxWindows, others : 0..MaxOthers, edits : 0..MaxEdits,
                  faults : 0..MaxFaults, kills : 0..MaxKills]

(***************************************************************************)
(* source_tree_lock: a suite that waited for the lock never sees a mutant, *)
(* as long as every window so far ended in order.                          *)
(***************************************************************************)
SuiteSeesNoMutant ==
    left = "none" => \A p \in Procs : at[p].pc = "measure" => ~tree.mutant

(***************************************************************************)
(* tree_custody: whatever is killed or fails, a mutant in the tree is on   *)
(* record, and so no commit that asks then stages it, until a later window *)
(* takes the leftovers for the project's own.                              *)
(***************************************************************************)
MutantOnRecord == left # "adopted" /\ tree.mutant => record

(***************************************************************************)
(* mutation_enforcer, on a window cut short: assert_no_open_custody "stops *)
(* the next framework commit from staging the leftovers".                  *)
(***************************************************************************)
NoMutantShipped == ~head.mutant

\* Every command ends: mutmut may hang, the commands that wait for its window do not.
CommandEnds == \A p \in Procs : (at[p].pc # "idle") ~> (at[p].pc = "idle")
=============================================================================
