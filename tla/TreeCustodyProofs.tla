------------------------- MODULE TreeCustodyProofs -------------------------
(***************************************************************************)
(* Proofs about TreeCustody, for any processes and bounds.                 *)
(***************************************************************************)
EXTENDS TreeCustody, TLAPS

(***************************************************************************)
(* Types, and what a process inside a window carries: its window number,   *)
(* and a snapshot from the moment it took one.                             *)
(***************************************************************************)
AtTypes == at \in [Procs -> [pc : Places, w : 0..MaxWindows, before : Content \cup {Nothing},
                             snap : Content \cup {Nothing}, failed : BOOLEAN]]
ChildTypes == child \in [Windows -> [running : BOOLEAN, bak : Content \cup {Nothing}]]
TreeTypes == tree \in Content /\ index \in Content /\ head \in Content
RestTypes ==
    /\ lock \in Procs \cup {NoProc}
    /\ record \in BOOLEAN
    /\ left \in {"none", "left", "adopted"}
SpentTypes ==
    spent \in [windows : 0..MaxWindows, others : 0..MaxOthers, edits : 0..MaxEdits,
               faults : 0..MaxFaults, kills : 0..MaxKills]
Carried ==
    \A p \in Procs :
        /\ at[p].pc \in {"want_window"} \cup Changing => at[p].w \in Windows
        /\ at[p].pc \in {"mark", "fill", "spawn", "run", "restore"} => at[p].snap \in Content
Typed == AtTypes /\ ChildTypes /\ TreeTypes /\ RestTypes /\ SpentTypes /\ Carried

LEMMA TypedIsTypeOK == Typed => TcTypeOK
BY DEF Typed, AtTypes, ChildTypes, TreeTypes, RestTypes, SpentTypes, TcTypeOK

\* What every step of a process changes of its entry.
Entry == [pc : Places, w : 0..MaxWindows, before : Content \cup {Nothing},
          snap : Content \cup {Nothing}, failed : BOOLEAN]

LEMMA MoveTypes ==
    ASSUME Typed, NEW p \in Procs, NEW e \in Entry, at' = [at EXCEPT ![p] = e],
           e.pc \in {"want_window"} \cup Changing => e.w \in Windows,
           e.pc \in {"mark", "fill", "spawn", "run", "restore"} => e.snap \in Content
    PROVE  AtTypes' /\ Carried'
<1>1. AtTypes'
      BY DEF Typed, AtTypes, Entry
<1>2. Carried'
  <2> SUFFICES ASSUME NEW q \in Procs
               PROVE  /\ at'[q].pc \in {"want_window"} \cup Changing => at'[q].w \in Windows
                      /\ at'[q].pc \in {"mark", "fill", "spawn", "run", "restore"}
                            => at'[q].snap \in Content
      BY DEF Carried
  <2>1. CASE q = p
        BY <2>1 DEF Typed, AtTypes
  <2>2. CASE q # p
        BY <2>2 DEF Typed, AtTypes, Carried
  <2> QED BY <2>1, <2>2
<1> QED BY <1>1, <1>2

\* Goto keeps the rest of the entry: the place must not ask for more than it carries.
LEMMA GotoTypes ==
    ASSUME Typed, NEW p \in Procs, NEW place \in Places, Goto(p, place),
           place \in {"want_window"} \cup Changing => at[p].w \in Windows,
           place \in {"mark", "fill", "spawn", "run", "restore"} => at[p].snap \in Content
    PROVE  AtTypes' /\ Carried'
<1> DEFINE e == [at[p] EXCEPT !.pc = place]
<1>1. e \in Entry /\ e.pc = place /\ e.w = at[p].w /\ e.snap = at[p].snap
      BY DEF Typed, AtTypes, Entry
<1>2. at' = [at EXCEPT ![p] = e]
      BY DEF Goto
<1> HIDE DEF e
<1> QED BY <1>1, <1>2, MoveTypes

LEMMA IdleEntry == Idle \in Entry /\ Idle.pc = "idle"
BY CustodyAssumption DEF Idle, Entry, Places, Holding, Changing, Measuring, Committing

LEMMA FaultTypes == ASSUME SpentTypes, Fault PROVE SpentTypes'
<1>1. spent.faults + 1 \in 0..MaxFaults
      BY CustodyAssumption DEF SpentTypes, Fault
<1> QED BY <1>1 DEF SpentTypes, Fault

LEMMA TypedInit == Init => Typed
<1> SUFFICES ASSUME Init PROVE Typed
    OBVIOUS
<1> USE CustodyAssumption DEF Init
<1>1. AtTypes
      BY IdleEntry DEF AtTypes, Entry
<1>2. ChildTypes
      BY DEF ChildTypes
<1>3. TreeTypes
      BY DEF TreeTypes, Clean, Content
<1>4. RestTypes
      BY DEF RestTypes
<1>5. SpentTypes
  <2>1. 0 \in 0..MaxWindows /\ 0 \in 0..MaxOthers /\ 0 \in 0..MaxEdits /\ 0 \in 0..MaxFaults
        /\ 0 \in 0..MaxKills
        OBVIOUS
  <2> QED BY <2>1 DEF SpentTypes
<1>6. Carried
      BY DEF Carried, Idle, Changing
<1> QED BY <1>1, <1>2, <1>3, <1>4, <1>5, <1>6 DEF Typed

\* Steps that only move a process, or take the lock, the record or the books along.
LEMMA QuietTypes ==
    ASSUME Typed, AtTypes' /\ Carried', UNCHANGED <<child, tree, index, head>>, RestTypes', SpentTypes'
    PROVE  Typed'
BY DEF Typed, ChildTypes, TreeTypes

LEMMA LockSteps ==
    ASSUME Typed, NEW p \in Procs,
           \/ Acquire(p) \/ Measure(p) \/ Measured(p) \/ Commit(p) \/ AssertNoOpenCustody(p)
    PROVE  Typed'
<1>1. PICK place \in {"digest", "measure", "unlock", "want_measure", "check", "idle", "add"} :
            /\ Goto(p, place)
            /\ place = "digest" => at[p].pc = "want_window"
      BY DEF Acquire, Measure, Measured, Commit, AssertNoOpenCustody
<1>2. AtTypes' /\ Carried'
  <2>1. place \in Places
        BY DEF Places, Holding, Changing, Measuring, Committing
  <2>2. place \in {"want_window"} \cup Changing => at[p].w \in Windows
        BY <1>1 DEF Typed, Carried, Changing
  <2> QED BY <1>1, <2>1, <2>2, GotoTypes
<1>3. RestTypes' /\ UNCHANGED <<child, tree, index, head>>
      BY DEF Acquire, Measure, Measured, Commit, AssertNoOpenCustody, Typed, RestTypes
<1>4. SpentTypes'
  <2>1. CASE UNCHANGED spent
        BY <2>1 DEF Typed, SpentTypes
  <2>2. CASE spent.others < MaxOthers /\ spent' = [spent EXCEPT !.others = @ + 1]
    <3>1. spent.others + 1 \in 0..MaxOthers
          BY <2>2, CustodyAssumption DEF Typed, SpentTypes
    <3> QED BY <2>2, <3>1 DEF Typed, SpentTypes
  <2> QED BY <2>1, <2>2 DEF Acquire, Measure, Measured, Commit, AssertNoOpenCustody
<1> QED BY <1>2, <1>3, <1>4, QuietTypes

LEMMA WindowTypes == ASSUME Typed, NEW p \in Procs, Window(p) PROVE Typed'
<1> DEFINE e == [Idle EXCEPT !.pc = "want_window", !.w = spent.windows + 1]
<1>1. spent.windows + 1 \in Windows
      BY CustodyAssumption DEF Window, Typed, SpentTypes, Windows
<1>2. e \in Entry /\ e.pc = "want_window" /\ e.w \in Windows
  <2>1. "want_window" \in Places /\ spent.windows + 1 \in 0..MaxWindows
        BY <1>1, CustodyAssumption DEF Places, Windows
  <2> QED BY <1>1, <2>1, IdleEntry DEF Entry
<1>3. at' = [at EXCEPT ![p] = e]
      BY DEF Window
<1> HIDE DEF e
<1>4. AtTypes' /\ Carried'
      BY <1>2, <1>3, MoveTypes
<1>5. SpentTypes'
      BY <1>1 DEF Window, Typed, SpentTypes, Windows
<1> QED BY <1>4, <1>5, QuietTypes DEF Window, Typed, RestTypes

LEMMA CopyTypes == ASSUME Typed, NEW p \in Procs, Digest(p) \/ Snapshot(p) PROVE Typed'
<1>1. RestTypes' /\ SpentTypes'
      BY DEF Digest, Snapshot, Typed, RestTypes, SpentTypes
<1>2. at[p].w \in Windows
      BY DEF Digest, Snapshot, Typed, Carried, Changing
<1>3. CASE Digest(p)
  <2> DEFINE e == [at[p] EXCEPT !.pc = "snapshot", !.before = tree]
  <2>1. e \in Entry /\ e.pc = "snapshot" /\ e.w = at[p].w
        BY DEF Typed, AtTypes, TreeTypes, Entry, Places, Holding, Changing
  <2>2. at' = [at EXCEPT ![p] = e]
        BY <1>3 DEF Digest
  <2> HIDE DEF e
  <2>3. AtTypes' /\ Carried'
        BY <1>2, <2>1, <2>2, MoveTypes
  <2> QED BY <1>1, <1>3, <2>3, QuietTypes DEF Digest
<1>4. CASE Snapshot(p)
  <2> DEFINE e == [at[p] EXCEPT !.pc = "mark", !.snap = tree]
  <2>1. e \in Entry /\ e.pc = "mark" /\ e.w = at[p].w /\ e.snap = tree
        BY DEF Typed, AtTypes, TreeTypes, Entry, Places, Holding, Changing
  <2>2. at' = [at EXCEPT ![p] = e]
        BY <1>4 DEF Snapshot
  <2>3. tree \in Content
        BY DEF Typed, TreeTypes
  <2> HIDE DEF e
  <2>4. AtTypes' /\ Carried'
        BY <1>2, <2>1, <2>2, <2>3, MoveTypes
  <2> QED BY <1>1, <1>4, <2>4, QuietTypes DEF Snapshot
<1> QED BY <1>3, <1>4

LEMMA RecordSteps ==
    ASSUME Typed, NEW p \in Procs, MarkOpen(p) \/ FillRecord(p) \/ Verify(p) \/ MarkClosed(p)
    PROVE  Typed'
<1>1. PICK place \in {"fill", "unlock", "spawn", "close"} : Goto(p, place) /\ (place \in {"fill", "spawn"}
            => at[p].pc \in {"mark", "fill"})
      BY DEF MarkOpen, FillRecord, Verify, MarkClosed
<1>2. place \in Places /\ at[p].w \in Windows
      BY DEF MarkOpen, FillRecord, Verify, MarkClosed, Typed, Carried, Changing, Places, Holding
<1>3. place \in {"mark", "fill", "spawn", "run", "restore"} => at[p].snap \in Content
      BY <1>1 DEF Typed, Carried
<1>4. AtTypes' /\ Carried'
      BY <1>1, <1>2, <1>3, GotoTypes
<1>5. RestTypes' /\ UNCHANGED <<child, tree, index, head>>
      BY DEF MarkOpen, FillRecord, Verify, MarkClosed, Typed, RestTypes
<1>6. SpentTypes'
  <2>1. CASE UNCHANGED spent
        BY <2>1 DEF Typed, SpentTypes
  <2>2. CASE Fault
        BY <2>2, FaultTypes DEF Typed
  <2> QED BY <2>1, <2>2 DEF MarkOpen, FillRecord, Verify, MarkClosed
<1> QED BY <1>4, <1>5, <1>6, QuietTypes

LEMMA RunSteps == ASSUME Typed, NEW p \in Procs, Spawn(p) \/ RunEnds(p) PROVE Typed'
<1>1. PICK place \in {"run", "restore"}, b \in BOOLEAN :
            Goto(p, place) /\ child' = [child EXCEPT ![at[p].w].running = b]
      BY DEF Spawn, RunEnds
<1>2. place \in Places /\ at[p].w \in Windows /\ at[p].snap \in Content
      BY DEF Spawn, RunEnds, Typed, Carried, Changing, Places, Holding
<1>3. AtTypes' /\ Carried'
      BY <1>1, <1>2, GotoTypes
<1>4. ChildTypes'
      BY <1>1, <1>2 DEF Typed, ChildTypes
<1>5. TreeTypes' /\ RestTypes' /\ SpentTypes'
      BY DEF Spawn, RunEnds, Typed, TreeTypes, RestTypes, SpentTypes
<1> QED BY <1>3, <1>4, <1>5 DEF Typed

LEMMA RestoreTypes == ASSUME Typed, NEW p \in Procs, Restore(p) PROVE Typed'
<1>1. at[p].w \in Windows /\ at[p].snap \in Content
      BY DEF Restore, Typed, Carried, Changing
<1>2. \E b \in BOOLEAN : at' = [at EXCEPT ![p].pc = "verify", ![p].failed = b]
  <2>1. CASE Goto(p, "verify")
    <3>1. at[p] \in Entry
          BY DEF Typed, AtTypes, Entry
    <3>2. [at[p] EXCEPT !.pc = "verify"] = [at[p] EXCEPT !.pc = "verify", !.failed = at[p].failed]
          BY <3>1 DEF Entry
    <3> QED BY <2>1, <3>1, <3>2 DEF Goto, Entry
  <2> QED BY <2>1 DEF Restore
<1>3. PICK b \in BOOLEAN : at' = [at EXCEPT ![p].pc = "verify", ![p].failed = b]
      BY <1>2
<1> DEFINE e == [at[p] EXCEPT !.pc = "verify", !.failed = b]
<1>4. e \in Entry /\ e.pc = "verify" /\ e.w = at[p].w
      BY DEF Typed, AtTypes, Entry, Places, Holding, Changing
<1>5. at' = [at EXCEPT ![p] = e]
      BY <1>3
<1> HIDE DEF e
<1>6. AtTypes' /\ Carried'
      BY <1>1, <1>4, <1>5, MoveTypes
<1>7. TreeTypes' /\ ChildTypes' /\ RestTypes'
      BY <1>1 DEF Restore, Typed, TreeTypes, ChildTypes, RestTypes
<1>8. SpentTypes'
      BY FaultTypes DEF Restore, Typed, SpentTypes
<1> QED BY <1>6, <1>7, <1>8 DEF Typed

LEMMA GitTypes == ASSUME Typed, NEW p \in Procs, GitAdd(p) \/ GitCommit(p) PROVE Typed'
<1>1. PICK place \in {"commit", "idle"} : Goto(p, place)
      BY DEF GitAdd, GitCommit
<1>2. place \in Places /\ place \notin {"want_window"} \cup Changing
      BY DEF Places, Committing, Changing
<1>3. AtTypes' /\ Carried'
      BY <1>1, <1>2, GotoTypes
<1>4. TreeTypes' /\ ChildTypes' /\ RestTypes'
      BY DEF GitAdd, GitCommit, Typed, TreeTypes, ChildTypes, RestTypes
<1>5. SpentTypes'
  <2>1. CASE UNCHANGED spent
        BY <2>1 DEF Typed, SpentTypes
  <2>2. CASE Fault
        BY <2>2, FaultTypes DEF Typed
  <2> QED BY <2>1, <2>2 DEF GitAdd, GitCommit
<1> QED BY <1>3, <1>4, <1>5 DEF Typed

LEMMA IdleTypes ==
    ASSUME Typed, NEW p \in Procs, Release(p) \/ Killed(p)
    PROVE  Typed'
<1>1. AtTypes' /\ Carried'
      BY IdleEntry, MoveTypes DEF Release, Killed, Changing
<1>2. RestTypes'
      BY DEF Release, Killed, Typed, RestTypes
<1>3. SpentTypes'
  <2>1. CASE UNCHANGED spent
        BY <2>1 DEF Typed, SpentTypes
  <2>2. CASE Killed(p)
    <3>1. spent.kills + 1 \in 0..MaxKills
          BY <2>2, CustodyAssumption DEF Killed, Typed, SpentTypes
    <3> QED BY <2>2, <3>1 DEF Killed, Typed, SpentTypes
  <2> QED BY <2>1, <2>2 DEF Release
<1> QED BY <1>1, <1>2, <1>3, QuietTypes DEF Release, Killed

LEMMA MutmutTypes == ASSUME Typed, NEW w \in Windows, Mutmut(w) PROVE Typed'
<1>1. AtTypes' /\ Carried' /\ RestTypes' /\ SpentTypes'
      BY DEF Mutmut, ApplyMutant, RevertMutant, MutmutEnds, Typed, AtTypes, Carried, RestTypes,
             SpentTypes
<1>2. tree \in Content /\ child[w] \in [running : BOOLEAN, bak : Content \cup {Nothing}]
      BY DEF Typed, TreeTypes, ChildTypes
<1>3. TreeTypes'
  <2>1. [tree EXCEPT !.mutant = TRUE] \in Content
        BY <1>2 DEF Content
  <2>2. child[w].bak # Nothing => child[w].bak \in Content
        BY <1>2
  <2> QED BY <2>1, <2>2 DEF Mutmut, ApplyMutant, RevertMutant, MutmutEnds, Typed, TreeTypes
<1>4. ChildTypes'
  <2>1. PICK c \in [running : BOOLEAN, bak : Content \cup {Nothing}] :
              child' = [child EXCEPT ![w] = c]
    <3>1. /\ [child[w] EXCEPT !.bak = tree] \in [running : BOOLEAN, bak : Content \cup {Nothing}]
          /\ [child[w] EXCEPT !.bak = Nothing] \in [running : BOOLEAN, bak : Content \cup {Nothing}]
          /\ [child[w] EXCEPT !.running = FALSE] \in [running : BOOLEAN, bak : Content \cup {Nothing}]
          BY <1>2
    <3> QED BY <3>1 DEF Mutmut, ApplyMutant, RevertMutant, MutmutEnds
  <2> QED BY <2>1 DEF Typed, ChildTypes
<1> QED BY <1>1, <1>3, <1>4 DEF Typed

LEMMA EditTypes == ASSUME Typed, Edit PROVE Typed'
<1>1. spent.edits + 1 \in 0..MaxEdits
      BY CustodyAssumption DEF Edit, Typed, SpentTypes
<1>2. tree' \in Content
      BY <1>1 DEF Edit, Typed, TreeTypes, Content
<1>3. SpentTypes'
      BY <1>1 DEF Edit, Typed, SpentTypes
<1> QED BY <1>2, <1>3 DEF Edit, Typed, AtTypes, ChildTypes, TreeTypes, RestTypes, Carried

LEMMA TypedStep == Typed /\ [Next]_vars => Typed'
<1> SUFFICES ASSUME Typed, [Next]_vars PROVE Typed'
    OBVIOUS
<1>1. ASSUME NEW p \in Procs, Start(p) \/ Continue(p) \/ Killed(p) PROVE Typed'
      BY <1>1, LockSteps, WindowTypes, CopyTypes, RecordSteps, RunSteps, RestoreTypes, GitTypes,
         IdleTypes DEF Start, Continue
<1>2. CASE UNCHANGED vars
      BY <1>2 DEF vars, Typed, AtTypes, ChildTypes, TreeTypes, RestTypes, SpentTypes, Carried
<1> QED BY <1>1, <1>2, MutmutTypes, EditTypes DEF Next

\* Types are kept by every step of the windows, the suites and the commits.
THEOREM TcTypeCorrect == Spec => []TcTypeOK
BY TypedInit, TypedStep, TypedIsTypeOK, PTL DEF Spec

-----------------------------------------------------------------------------
(***************************************************************************)
(* The flock: who is past it holds it.                                     *)
(***************************************************************************)
LockHeld == \A p \in Procs : at[p].pc \in Holding <=> lock = p

LEMMA LockMove ==
    ASSUME Typed, LockHeld, NEW p \in Procs, NEW e, at' = [at EXCEPT ![p] = e],
           \/ UNCHANGED lock /\ (e.pc \in Holding <=> at[p].pc \in Holding)
           \/ lock = NoProc /\ lock' = p /\ e.pc \in Holding
           \/ lock = p /\ lock' = NoProc /\ e.pc \notin Holding
    PROVE  LockHeld'
<1> SUFFICES ASSUME NEW q \in Procs PROVE at'[q].pc \in Holding <=> lock' = q
    BY DEF LockHeld
<1>1. DOMAIN at = Procs
      BY DEF Typed, AtTypes
<1>2. CASE q = p
      BY <1>1, <1>2, CustodyAssumption DEF LockHeld
<1>3. CASE q # p
      BY <1>1, <1>3, CustodyAssumption DEF LockHeld
<1> QED BY <1>2, <1>3

LEMMA GotoEntry ==
    ASSUME Typed, NEW p \in Procs, NEW place, Goto(p, place)
    PROVE  \E e : at' = [at EXCEPT ![p] = e] /\ e.pc = place /\ e.before = at[p].before
<1> DEFINE e == [at[p] EXCEPT !.pc = place]
<1>1. at' = [at EXCEPT ![p] = e]
      BY DEF Goto
<1>2. e.pc = place /\ e.before = at[p].before
      BY DEF Typed, AtTypes
<1> QED BY <1>1, <1>2

LEMMA LockStep == Typed /\ LockHeld /\ [Next]_vars => LockHeld'
<1> SUFFICES ASSUME Typed, LockHeld, [Next]_vars PROVE LockHeld'
    OBVIOUS
<1> USE DEF Holding, Changing, Measuring
<1>1. ASSUME NEW p \in Procs, NEW place, Goto(p, place), UNCHANGED lock,
             place \in Holding <=> at[p].pc \in Holding
      PROVE  LockHeld'
  <2> HIDE DEF Holding, Changing, Measuring
  <2>1. PICK e : at' = [at EXCEPT ![p] = e] /\ e.pc = place
        BY <1>1, GotoEntry
  <2> QED BY <1>1, <2>1, LockMove
<1>2. ASSUME NEW p \in Procs, Acquire(p) PROVE LockHeld'
  <2>1. PICK place \in {"digest", "measure"} : Goto(p, place)
        BY <1>2 DEF Acquire
  <2>2. place \in Holding
        OBVIOUS
  <2> HIDE DEF Holding, Changing, Measuring
  <2>3. PICK e : at' = [at EXCEPT ![p] = e] /\ e.pc = place
        BY <2>1, GotoEntry
  <2> QED BY <1>2, <2>2, <2>3, LockMove DEF Acquire
<1>3. ASSUME NEW p \in Procs, Release(p) PROVE LockHeld'
  <2>1. lock = p /\ Idle.pc \notin Holding
        BY <1>3 DEF Release, LockHeld, Idle
  <2> HIDE DEF Holding, Changing, Measuring
  <2> QED BY <1>3, <2>1, LockMove DEF Release
<1>4. ASSUME NEW p \in Procs, Killed(p) PROVE LockHeld'
  <2>1. Idle.pc \notin Holding /\ (lock = p <=> at[p].pc \in Holding)
        BY DEF LockHeld, Idle
  <2> HIDE DEF Holding, Changing, Measuring
  <2> QED BY <1>4, <2>1, LockMove DEF Killed
<1>5. ASSUME NEW p \in Procs, Window(p) PROVE LockHeld'
  <2>1. [Idle EXCEPT !.pc = "want_window", !.w = spent.windows + 1].pc \notin Holding
        /\ at[p].pc \notin Holding
        BY <1>5 DEF Window, Idle
  <2> HIDE DEF Holding, Changing, Measuring
  <2> QED BY <1>5, <2>1, LockMove DEF Window
<1>6. ASSUME NEW p \in Procs, Digest(p) PROVE LockHeld'
  <2> DEFINE e == [at[p] EXCEPT !.pc = "snapshot", !.before = tree]
  <2>1. at' = [at EXCEPT ![p] = e] /\ e.pc \in Holding /\ at[p].pc \in Holding
        BY <1>6 DEF Digest, Typed, AtTypes
  <2> HIDE DEF Holding, Changing, Measuring, e
  <2> QED BY <1>6, <2>1, LockMove DEF Digest
<1>7. ASSUME NEW p \in Procs, Snapshot(p) PROVE LockHeld'
  <2> DEFINE e == [at[p] EXCEPT !.pc = "mark", !.snap = tree]
  <2>1. at' = [at EXCEPT ![p] = e] /\ e.pc \in Holding /\ at[p].pc \in Holding
        BY <1>7 DEF Snapshot, Typed, AtTypes
  <2> HIDE DEF Holding, Changing, Measuring, e
  <2> QED BY <1>7, <2>1, LockMove DEF Snapshot
<1>8. ASSUME NEW p \in Procs, Restore(p) PROVE LockHeld'
  <2>1. CASE Goto(p, "verify")
        BY <1>1, <1>8, <2>1 DEF Restore
  <2>2. CASE at' = [at EXCEPT ![p].pc = "verify", ![p].failed = TRUE]
    <3> DEFINE e == [at[p] EXCEPT !.pc = "verify", !.failed = TRUE]
    <3>1. at' = [at EXCEPT ![p] = e] /\ e.pc \in Holding /\ at[p].pc \in Holding
          BY <1>8, <2>2 DEF Restore, Typed, AtTypes
    <3> HIDE DEF Holding, Changing, Measuring, e
    <3> QED BY <1>8, <3>1, LockMove DEF Restore
  <2> QED BY <1>8, <2>1, <2>2 DEF Restore
<1>9. ASSUME NEW p \in Procs,
             \/ Measure(p) \/ Commit(p) \/ AssertNoOpenCustody(p) \/ GitAdd(p) \/ GitCommit(p)
      PROVE  LockHeld'
      BY <1>1, <1>9 DEF Measure, Commit, AssertNoOpenCustody, GitAdd, GitCommit
<1>10. ASSUME NEW p \in Procs,
              \/ MarkOpen(p) \/ FillRecord(p) \/ Spawn(p) \/ RunEnds(p) \/ Verify(p)
              \/ MarkClosed(p) \/ Measured(p)
       PROVE  LockHeld'
      BY <1>1, <1>10 DEF MarkOpen, FillRecord, Spawn, RunEnds, Verify, MarkClosed, Measured
<1>11. CASE \/ \E w \in Windows : Mutmut(w)
            \/ Edit
            \/ UNCHANGED vars
       BY <1>11 DEF Mutmut, ApplyMutant, RevertMutant, MutmutEnds, Edit, vars, LockHeld
<1> QED BY <1>2, <1>3, <1>4, <1>5, <1>6, <1>7, <1>8, <1>9, <1>10, <1>11
        DEF Next, Start, Continue

LEMMA Alone ==
    ASSUME LockHeld, NEW p \in Procs, NEW q \in Procs,
           at[p].pc \in Holding, at[q].pc \in Holding
    PROVE  p = q
BY DEF LockHeld

-----------------------------------------------------------------------------
(***************************************************************************)
(* The window.  While every window so far ended in order, a running mutmut *)
(* belongs to a process that waits for it, a mutant is in the tree only    *)
(* between its start and the verdict on the restore, the digests are those *)
(* of a tree without one, and the record is open from before the start to  *)
(* after the verdict.  Once something was left, the record stays open and  *)
(* nobody has looked at the tree as its own.                               *)
(***************************************************************************)
Digested == Changing \ {"digest"}
Recorded == {"spawn", "run", "restore", "verify", "close"}

InOrder ==
    /\ \A w \in Windows : child[w].running => \E p \in Procs : at[p].pc = "run" /\ at[p].w = w
    /\ tree.mutant => \E p \in Procs : at[p].pc \in {"run", "restore", "verify"}
    /\ \A p \in Procs : at[p].pc \in Digested => ~at[p].before.mutant
    /\ \A p \in Procs : at[p].pc \in Recorded => record
LeftOver == record /\ \A p \in Procs : at[p].pc \notin Digested
WindowInv == (left = "none" => InOrder) /\ (left = "left" => LeftOver)

LEMMA WindowMeansOnRecord ==
    ASSUME Typed, WindowInv
    PROVE  MutantOnRecord
BY DEF Typed, RestTypes, WindowInv, InOrder, LeftOver, Recorded, MutantOnRecord

LEMMA WindowMeansSeesNoMutant ==
    ASSUME Typed, LockHeld, WindowInv
    PROVE  SuiteSeesNoMutant
<1> SUFFICES ASSUME left = "none", NEW p \in Procs, at[p].pc = "measure", tree.mutant
             PROVE  FALSE
    BY DEF SuiteSeesNoMutant
<1>1. PICK q \in Procs : at[q].pc \in {"run", "restore", "verify"}
      BY DEF WindowInv, InOrder
<1>2. at[p].pc \in Holding /\ at[q].pc \in Holding
      BY <1>1 DEF Holding, Changing, Measuring
<1> QED BY <1>1, <1>2, Alone

\* A step outside of any window.
LEMMA WindowAside ==
    ASSUME Typed, WindowInv, NEW p \in Procs, NEW e, at' = [at EXCEPT ![p] = e],
           at[p].pc \notin Digested, e.pc \notin Digested,
           UNCHANGED <<tree, record, child, left>>
    PROVE  WindowInv'
<1>1. \A q \in Procs : \/ at'[q] = at[q]
                       \/ at'[q].pc \notin Digested /\ at[q].pc \notin Digested
      BY DEF Typed, AtTypes
<1>2. CASE left = "none"
  <2>1. InOrder
        BY <1>2 DEF WindowInv
  <2>2. \A w \in Windows : child'[w].running => \E q \in Procs : at'[q].pc = "run" /\ at'[q].w = w
        BY <1>1, <2>1 DEF InOrder, Digested, Changing
  <2>3. tree'.mutant => \E q \in Procs : at'[q].pc \in {"run", "restore", "verify"}
        BY <1>1, <2>1 DEF InOrder, Digested, Changing
  <2>4. \A q \in Procs : at'[q].pc \in Digested => ~at'[q].before.mutant
        BY <1>1, <2>1 DEF InOrder
  <2>5. \A q \in Procs : at'[q].pc \in Recorded => record'
        BY <1>1, <2>1 DEF InOrder, Recorded, Digested, Changing
  <2> QED BY <1>2, <2>2, <2>3, <2>4, <2>5 DEF WindowInv, InOrder
<1>3. CASE left = "left"
      BY <1>1, <1>3 DEF WindowInv, LeftOver
<1> QED BY <1>2, <1>3 DEF WindowInv

\* While a process holds the lock in a window, its entry decides.
LEMMA WindowOf ==
    ASSUME Typed, LockHeld, NEW p \in Procs, at[p].pc \in Changing, NEW e,
           at' = [at EXCEPT ![p] = e]
    PROVE  \A q \in Procs : q # p => at'[q] = at[q] /\ at'[q].pc \notin Changing
<1>1. \A q \in Procs : q # p => at[q].pc \notin Holding
      BY Alone DEF Holding
<1> QED BY <1>1 DEF Typed, AtTypes, Holding

\* What the entry of the process in the window, and the tree, must be.
FitsInOrder(e, t, c, r) ==
    /\ \A w \in Windows : c[w].running => e.pc = "run" /\ e.w = w
    /\ t.mutant => e.pc \in {"run", "restore", "verify"}
    /\ e.pc \in Digested => ~e.before.mutant
    /\ e.pc \in Recorded => r

LEMMA WindowFits ==
    ASSUME Typed, LockHeld, WindowInv, left = "none", NEW p \in Procs, at[p].pc \in Changing
    PROVE  FitsInOrder(at[p], tree, child, record)
<1>1. \A q \in Procs : at[q].pc \in {"run", "restore", "verify"} => q = p
      BY Alone DEF Holding, Changing
<1> QED BY <1>1 DEF WindowInv, InOrder, FitsInOrder

LEMMA WindowMove ==
    ASSUME Typed, LockHeld, NEW p \in Procs, at[p].pc \in Changing, NEW e,
           at' = [at EXCEPT ![p] = e],
           left' = "none" => FitsInOrder(e, tree', child', record'),
           left' = "left" => record' /\ e.pc \notin Digested
    PROVE  WindowInv'
<1>1. at'[p] = e /\ \A q \in Procs : q # p => at'[q].pc \notin Changing
      BY WindowOf DEF Typed, AtTypes
<1>2. CASE left' = "none"
  <2>1. FitsInOrder(at'[p], tree', child', record')
        BY <1>1, <1>2
  <2>2. InOrder'
        BY <1>1, <2>1 DEF InOrder, FitsInOrder, Digested, Recorded, Changing
  <2> QED BY <1>2, <2>2 DEF WindowInv
<1>3. CASE left' = "left"
      BY <1>1, <1>3 DEF WindowInv, LeftOver, Digested
<1> QED BY <1>2, <1>3 DEF WindowInv

\* A process in a window, past its digests, finds no leftovers on record.
LEMMA WindowNotLeft ==
    ASSUME Typed, WindowInv, NEW p \in Procs, at[p].pc \in Digested
    PROVE  left # "left"
BY DEF WindowInv, LeftOver

LEMMA WindowDigest ==
    ASSUME Typed, LockHeld, WindowInv, NEW p \in Procs, Digest(p)
    PROVE  WindowInv'
<1> DEFINE e == [at[p] EXCEPT !.pc = "snapshot", !.before = tree]
<1>1. /\ at' = [at EXCEPT ![p] = e] /\ at[p].pc = "digest" /\ at[p].pc \in Changing
      /\ e.pc = "snapshot" /\ e.before = tree
      BY DEF Digest, Changing, Typed, AtTypes
<1> HIDE DEF e
<1>2. ASSUME left' = "none" PROVE FitsInOrder(e, tree', child', record')
  <2>1. FitsInOrder(at[p], tree, child, record)
        BY <1>1, <1>2, WindowFits DEF Digest
  <2> QED BY <1>1, <2>1 DEF Digest, FitsInOrder, Recorded
<1>3. left' # "left"
      BY DEF Digest
<1> QED BY <1>1, <1>2, <1>3, WindowMove

LEMMA WindowSnapshot ==
    ASSUME Typed, LockHeld, WindowInv, NEW p \in Procs, Snapshot(p)
    PROVE  WindowInv'
<1> DEFINE e == [at[p] EXCEPT !.pc = "mark", !.snap = tree]
<1>1. /\ at' = [at EXCEPT ![p] = e] /\ at[p].pc = "snapshot"
      /\ e.pc = "mark" /\ e.before = at[p].before
      BY DEF Snapshot, Typed, AtTypes
<1>2. at[p].pc \in Changing /\ at[p].pc \in Digested
      BY <1>1 DEF Changing, Digested
<1> HIDE DEF e
<1>3. ASSUME left' = "none" PROVE FitsInOrder(e, tree', child', record')
  <2>1. FitsInOrder(at[p], tree, child, record)
        BY <1>2, <1>3, WindowFits DEF Snapshot
  <2> QED BY <1>1, <1>2, <2>1 DEF Snapshot, FitsInOrder, Recorded
<1>4. left' # "left"
      BY <1>2, WindowNotLeft DEF Snapshot
<1> QED BY <1>1, <1>2, <1>3, <1>4, WindowMove

\* The steps that only change the place of the process, and the record or mutmut.
LEMMA WindowGoto ==
    ASSUME Typed, LockHeld, WindowInv, NEW p \in Procs,
           MarkOpen(p) \/ FillRecord(p) \/ Spawn(p) \/ RunEnds(p) \/ MarkClosed(p)
    PROVE  WindowInv'
<1>1. at[p].pc \in Changing /\ at[p].pc \in Digested
      BY DEF MarkOpen, FillRecord, Spawn, RunEnds, MarkClosed, Changing, Digested
<1>2. PICK place \in {"fill", "unlock", "spawn", "run", "restore"} :
            /\ Goto(p, place)
            /\ place = "fill" => at[p].pc = "mark"
            /\ place = "spawn" => at[p].pc = "fill" /\ record'
            /\ place = "run" => at[p].pc = "spawn" /\ UNCHANGED record
            /\ place = "restore" => at[p].pc = "run" /\ UNCHANGED record
            /\ place = "unlock" => at[p].pc \in {"mark", "fill", "close"}
      BY DEF MarkOpen, FillRecord, Spawn, RunEnds, MarkClosed
<1> DEFINE e == [at[p] EXCEPT !.pc = place]
<1>3. at' = [at EXCEPT ![p] = e] /\ e.pc = place /\ e.before = at[p].before /\ e.w = at[p].w
      BY <1>2 DEF Goto, Typed, AtTypes
<1> HIDE DEF e
<1>4. UNCHANGED <<tree, left>>
      BY DEF MarkOpen, FillRecord, Spawn, RunEnds, MarkClosed
<1>5. ASSUME left' = "none" PROVE FitsInOrder(e, tree', child', record')
  <2>1. FitsInOrder(at[p], tree, child, record)
        BY <1>1, <1>4, <1>5, WindowFits
  <2>2. \A w \in Windows : child'[w].running => e.pc = "run" /\ e.w = w
    <3>1. CASE Spawn(p)
          BY <1>3, <2>1, <3>1 DEF Spawn, FitsInOrder, Typed, ChildTypes, Goto, AtTypes
    <3>2. CASE RunEnds(p)
      <4>1. at[p].w \in Windows
            BY <1>1 DEF Typed, Carried
      <4> QED BY <2>1, <3>2, <4>1 DEF RunEnds, FitsInOrder, Typed, ChildTypes
    <3>3. CASE UNCHANGED child /\ at[p].pc # "run"
          BY <2>1, <3>3 DEF FitsInOrder
    <3> QED BY <3>1, <3>2, <3>3 DEF MarkOpen, FillRecord, MarkClosed
  <2>3. tree'.mutant => e.pc \in {"run", "restore", "verify"}
        BY <1>2, <1>3, <1>4, <2>1 DEF FitsInOrder
  <2>4. e.pc \in Digested => ~e.before.mutant
        BY <1>1, <1>3, <2>1 DEF FitsInOrder
  <2>5. e.pc \in Recorded => record'
        BY <1>2, <1>3, <2>1 DEF FitsInOrder, Recorded
  <2> QED BY <2>2, <2>3, <2>4, <2>5 DEF FitsInOrder
<1>6. left' # "left"
      BY <1>1, <1>4, WindowNotLeft
<1> QED BY <1>1, <1>3, <1>5, <1>6, WindowMove

LEMMA WindowRestore ==
    ASSUME Typed, LockHeld, WindowInv, NEW p \in Procs, Restore(p)
    PROVE  WindowInv'
<1>1. at[p].pc = "restore" /\ at[p].pc \in Changing /\ at[p].pc \in Digested
      BY DEF Restore, Changing, Digested
<1>2. PICK e : at' = [at EXCEPT ![p] = e] /\ e.pc = "verify" /\ e.before = at[p].before
  <2>1. CASE Goto(p, "verify")
        BY <2>1, GotoEntry
  <2>2. CASE at' = [at EXCEPT ![p].pc = "verify", ![p].failed = TRUE]
    <3> DEFINE e == [at[p] EXCEPT !.pc = "verify", !.failed = TRUE]
    <3>1. at' = [at EXCEPT ![p] = e] /\ e.pc = "verify" /\ e.before = at[p].before
          BY <2>2 DEF Typed, AtTypes
    <3> QED BY <3>1
  <2> QED BY <2>1, <2>2 DEF Restore
<1>3. ASSUME left' = "none" PROVE FitsInOrder(e, tree', child', record')
  <2>1. FitsInOrder(at[p], tree, child, record)
        BY <1>1, <1>3, WindowFits DEF Restore
  <2> QED BY <1>1, <1>2, <2>1 DEF Restore, FitsInOrder, Recorded
<1>4. left' # "left"
      BY <1>1, WindowNotLeft DEF Restore
<1> QED BY <1>1, <1>2, <1>3, <1>4, WindowMove

\* The verdict: either the digests say the tree is as found, without a mutant, or
\* the record stays open.
LEMMA WindowVerify ==
    ASSUME Typed, LockHeld, WindowInv, NEW p \in Procs, Verify(p)
    PROVE  WindowInv'
<1>1. at[p].pc = "verify" /\ at[p].pc \in Changing /\ at[p].pc \in Digested /\ left # "left"
      BY WindowNotLeft DEF Verify, Changing, Digested
<1>2. UNCHANGED <<tree, child, record>>
      BY DEF Verify
<1>3. CASE Goto(p, "close") /\ tree = at[p].before /\ UNCHANGED left
  <2>1. PICK e : at' = [at EXCEPT ![p] = e] /\ e.pc = "close" /\ e.before = at[p].before
        BY <1>3, GotoEntry
  <2>2. ASSUME left' = "none" PROVE FitsInOrder(e, tree', child', record')
    <3>1. FitsInOrder(at[p], tree, child, record)
          BY <1>1, <1>3, <2>2, WindowFits
    <3>2. ~tree.mutant
          BY <1>1, <1>3, <3>1 DEF FitsInOrder
    <3> QED BY <1>1, <1>2, <2>1, <3>1, <3>2 DEF FitsInOrder, Recorded
  <2> QED BY <1>1, <1>3, <2>1, <2>2, WindowMove
<1>4. CASE Goto(p, "unlock") /\ left' = IF left = "none" THEN "left" ELSE left
  <2>1. PICK e : at' = [at EXCEPT ![p] = e] /\ e.pc = "unlock" /\ e.before = at[p].before
        BY <1>4, GotoEntry
  <2>2. left' # "none" /\ e.pc \notin Digested
        BY <1>4, <2>1 DEF Digested, Changing
  <2>3. left' = "left" => record'
    <3>1. left = "none" => FitsInOrder(at[p], tree, child, record)
          BY <1>1, WindowFits
    <3> QED BY <1>1, <1>2, <1>4, <3>1 DEF FitsInOrder, Recorded, Typed, RestTypes
  <2> QED BY <1>1, <2>1, <2>2, <2>3, WindowMove
<1> QED BY <1>3, <1>4 DEF Verify

LEMMA WindowKilled ==
    ASSUME Typed, LockHeld, WindowInv, NEW p \in Procs, Killed(p)
    PROVE  WindowInv'
<1>1. at' = [at EXCEPT ![p] = Idle] /\ Idle.pc \notin Digested /\ Idle.pc \notin Recorded
      BY DEF Killed, Idle, Digested, Recorded, Changing
<1>2. UNCHANGED <<tree, child, record>>
      BY DEF Killed
<1>3. CASE at[p].pc \notin Digested
  <2>1. UNCHANGED left
        BY <1>3 DEF Killed, Digested, Changing
  <2> QED BY <1>1, <1>2, <1>3, <2>1, WindowAside
<1>4. CASE at[p].pc \in Digested
  <2>1. at[p].pc \in Changing /\ left # "left"
        BY <1>4, WindowNotLeft DEF Digested
  <2>2. left = "none" => FitsInOrder(at[p], tree, child, record)
        BY <2>1, WindowFits
  <2>3. ASSUME left' = "none" PROVE FitsInOrder(Idle, tree', child', record')
        BY <1>1, <1>2, <2>2, <2>3 DEF Killed, FitsInOrder
  <2>4. left' = "left" => record'
        BY <1>2, <2>1, <2>2 DEF Killed, FitsInOrder, Recorded
  <2> QED BY <1>1, <2>1, <2>3, <2>4, WindowMove
<1> QED BY <1>3, <1>4

LEMMA WindowMutmut ==
    ASSUME Typed, WindowInv, NEW w \in Windows, Mutmut(w)
    PROVE  WindowInv'
<1>1. UNCHANGED <<at, record, left>> /\ child[w].running
      BY DEF Mutmut, ApplyMutant, RevertMutant, MutmutEnds
<1>2. \A v \in Windows : child'[v].running => child[v].running
      BY <1>1 DEF Mutmut, ApplyMutant, RevertMutant, MutmutEnds, Typed, ChildTypes
<1>3. CASE left = "none"
  <2>1. \E p \in Procs : at[p].pc = "run"
        BY <1>1, <1>3 DEF WindowInv, InOrder
  <2> QED BY <1>1, <1>2, <1>3, <2>1 DEF WindowInv, InOrder
<1>4. CASE left = "left"
      BY <1>1, <1>4 DEF WindowInv, LeftOver
<1> QED BY <1>1, <1>3, <1>4 DEF WindowInv

LEMMA WindowEdit == ASSUME Typed, WindowInv, Edit PROVE WindowInv'
<1>1. tree'.mutant = tree.mutant /\ UNCHANGED <<at, record, child, left>>
      BY DEF Edit, Typed, TreeTypes, Content
<1> QED BY <1>1 DEF WindowInv, InOrder, LeftOver

LEMMA WindowStep == Typed /\ LockHeld /\ WindowInv /\ [Next]_vars => WindowInv'
<1> SUFFICES ASSUME Typed, LockHeld, WindowInv, [Next]_vars PROVE WindowInv'
    OBVIOUS
<1>1. ASSUME NEW p \in Procs, NEW place, Goto(p, place), at[p].pc \notin Digested,
             place \notin Digested, UNCHANGED <<tree, record, child, left>>
      PROVE  WindowInv'
  <2>1. PICK e : at' = [at EXCEPT ![p] = e] /\ e.pc = place
        BY <1>1, GotoEntry
  <2> QED BY <1>1, <2>1, WindowAside
<1>2. ASSUME NEW p \in Procs,
             \/ Acquire(p) \/ Measure(p) \/ Measured(p) \/ Commit(p) \/ AssertNoOpenCustody(p)
             \/ GitAdd(p) \/ GitCommit(p)
      PROVE  WindowInv'
  <2>1. \E place : Goto(p, place) /\ place \notin Digested
        BY <1>2 DEF Acquire, Measure, Measured, Commit, AssertNoOpenCustody, GitAdd, GitCommit,
                    Digested, Changing
  <2>2. at[p].pc \notin Digested /\ UNCHANGED <<tree, record, child, left>>
        BY <1>2 DEF Acquire, Measure, Measured, Commit, AssertNoOpenCustody, GitAdd, GitCommit,
                    Digested, Changing
  <2> QED BY <1>1, <2>1, <2>2
<1>3. ASSUME NEW p \in Procs, Window(p) \/ Release(p) PROVE WindowInv'
  <2>1. \E e : at' = [at EXCEPT ![p] = e] /\ e.pc \notin Digested
    <3> DEFINE e == [Idle EXCEPT !.pc = "want_window", !.w = spent.windows + 1]
    <3>1. e.pc = "want_window" /\ Idle.pc = "idle"
          BY DEF Idle
    <3>2. at' = [at EXCEPT ![p] = e] \/ at' = [at EXCEPT ![p] = Idle]
          BY <1>3 DEF Window, Release
    <3> QED BY <3>1, <3>2 DEF Digested, Changing
  <2>2. at[p].pc \notin Digested /\ UNCHANGED <<tree, record, child, left>>
        BY <1>3 DEF Window, Release, Digested, Changing
  <2> QED BY <2>1, <2>2, WindowAside
<1>4. CASE UNCHANGED vars
      BY <1>4 DEF vars, WindowInv, InOrder, LeftOver
<1> QED BY <1>2, <1>3, <1>4, WindowDigest, WindowSnapshot, WindowGoto, WindowRestore, WindowVerify,
           WindowKilled, WindowMutmut, WindowEdit DEF Next, Start, Continue

LEMMA WindowInit == Init => LockHeld /\ WindowInv
<1> SUFFICES ASSUME Init PROVE LockHeld /\ WindowInv
    OBVIOUS
<1>1. LockHeld
      BY CustodyAssumption DEF Init, Idle, LockHeld, Holding, Changing, Measuring
<1>2. WindowInv
      BY DEF Init, Idle, Clean, WindowInv, InOrder, Digested, Recorded, Changing
<1> QED BY <1>1, <1>2

(***************************************************************************)
(* tree_custody: for any number of processes, windows, edits, errors and   *)
(* kills, no mutant is in the tree off the record before a window takes    *)
(* leftovers for the project's own.                                        *)
(***************************************************************************)
THEOREM MutantOnRecordAlways == Spec => []MutantOnRecord
BY TypedInit, TypedStep, LockStep, WindowInit, WindowStep, WindowMeansOnRecord, PTL DEF Spec

(***************************************************************************)
(* source_tree_lock: a suite that waited for its turn runs on a tree       *)
(* without a mutant, unless a window before it did not end in order.       *)
(***************************************************************************)
THEOREM SuiteSeesNoMutantAlways == Spec => []SuiteSeesNoMutant
BY TypedInit, TypedStep, LockStep, WindowInit, WindowStep, WindowMeansSeesNoMutant, PTL DEF Spec
=============================================================================
