----------------------------- MODULE HealProofs -----------------------------
(***************************************************************************)
(* The self-heal replaces only entries that dangle, for any number of      *)
(* processes and whatever is reset or rebased under them.                  *)
(*                                                                         *)
(* The entry gate sees a dangling sha, lets go of everything and comes     *)
(* back under the lock; the entry it overwrites then is the one it saw, or *)
(* none.  That the sha still dangles is a fact about git: ids of commits   *)
(* are never given twice, so a commit that HEAD does not reach is reached  *)
(* again by no commit and no rebase.  ShasKnown says that everything a     *)
(* command or state.json remembers is an id that was given already, and    *)
(* with it StillDangling is inductive.                                     *)
(***************************************************************************)
EXTENDS PhasePipelineProofs

RecordsUpTo(s, top) == \A k \in 1..8 : s.completed[k] <= top
MemoryUpTo(l, top) ==
    l.sha <= top /\ l.old <= top /\ RecordsUpTo(l.seen, top) /\ RecordsUpTo(l.snap, top)

ShasKnown ==
    /\ StartId <= newest
    /\ \A i \in 1..Len(hist) : hist[i].id > 0 /\ hist[i].id <= newest
    /\ RecordsUpTo(st, newest)
    /\ \A p \in Procs : MemoryUpTo(loc[p], newest)
StillDangling == \A p \in Procs : pc[p] = "heal" => ~Reachable(loc[p].old)
HealInv == ShasKnown /\ StillDangling

-----------------------------------------------------------------------------
(***************************************************************************)
(* A step of p that gives at most one new id, and remembers known ones.    *)
(***************************************************************************)
NewCommit ==
    /\ newest' = newest + 1
    /\ \E c \in CommitRec : c.id = newest + 1 /\ hist' = Append(hist, c)

Remembers(p) ==
    /\ (hist' = hist /\ newest' = newest) \/ NewCommit
    /\ RecordsUpTo(st', newest)
    /\ MemoryUpTo(loc'[p], newest)
    /\ \A q \in Procs \ {p} : pc'[q] = pc[q] /\ loc'[q] = loc[q]
    /\ pc'[p] = "heal" => hist' = hist /\ ~Reachable(loc'[p].old)

LEMMA MoreRecords ==
    ASSUME NEW s \in StateFile, NEW a \in Nat, NEW b \in Nat, a <= b, RecordsUpTo(s, a)
    PROVE  RecordsUpTo(s, b)
<1>1. \A k \in 1..8 : s.completed[k] \in Nat
  BY DEF StateFile
<1> QED BY <1>1 DEF RecordsUpTo

LEMMA MoreMemory ==
    ASSUME NEW l \in LocRec, NEW a \in Nat, NEW b \in Nat, a <= b, MemoryUpTo(l, a)
    PROVE  MemoryUpTo(l, b)
<1>1. l.sha \in Nat /\ l.old \in Nat /\ l.seen \in StateFile /\ l.snap \in StateFile
  BY DEF LocRec
<1> QED BY <1>1, MoreRecords DEF MemoryUpTo

LEMMA CommitIds ==
    ASSUME NEW h \in Seq(CommitRec)
    PROVE  \A i \in 1..Len(h) : h[i] \in CommitRec /\ h[i].id \in Nat
<1>1. ASSUME NEW i \in 1..Len(h) PROVE h[i] \in CommitRec
  OBVIOUS
<1>2. ASSUME NEW c \in CommitRec PROVE c.id \in Nat
  BY DEF CommitRec
<1> QED BY <1>1, <1>2

LEMMA AppendedHistory ==
    ASSUME TypeOK, NewCommit
    PROVE  /\ Len(hist') = Len(hist) + 1
           /\ \A i \in 1..Len(hist) : hist'[i] = hist[i]
           /\ hist'[Len(hist) + 1].id = newest + 1
BY DEF TypeOK, NewCommit

LEMMA RememberStep ==
    ASSUME TypeOK, TypeOK', HealInv, NEW p \in Procs, Remembers(p)
    PROVE  HealInv'
<1>1. newest \in Nat /\ newest' \in Nat /\ newest <= newest' /\ StartId \in Nat
  BY StartTreeType DEF Remembers, NewCommit, TypeOK
<1>2. Len(hist) \in Nat
  BY DEF TypeOK
<1>3. \A i \in 1..Len(hist) : hist[i].id \in Nat
  BY CommitIds DEF TypeOK
<1>4. \A i \in 1..Len(hist') : hist'[i].id > 0 /\ hist'[i].id <= newest'
  <2>1. CASE hist' = hist /\ newest' = newest
    BY <2>1 DEF HealInv, ShasKnown
  <2>2. CASE NewCommit
    <3> SUFFICES ASSUME NEW i \in 1..Len(hist) + 1
                 PROVE  hist'[i].id > 0 /\ hist'[i].id <= newest'
      BY <2>2, AppendedHistory
    <3>1. CASE i = Len(hist) + 1
      BY <1>1, <2>2, <3>1, AppendedHistory DEF NewCommit
    <3>2. CASE i # Len(hist) + 1
      <4>1. i \in 1..Len(hist)
        BY <1>2, <3>2
      <4> QED BY <1>1, <1>3, <2>2, <4>1, AppendedHistory DEF HealInv, ShasKnown
    <3> QED BY <3>1, <3>2
  <2> QED BY <2>1, <2>2 DEF Remembers
<1>5. RecordsUpTo(st', newest')
  BY <1>1, MoreRecords DEF Remembers, TypeOK
<1>6. ASSUME NEW q \in Procs PROVE MemoryUpTo(loc'[q], newest')
  <2>1. MemoryUpTo(loc'[q], newest) /\ loc'[q] \in LocRec
    BY DEF Remembers, HealInv, ShasKnown, TypeOK
  <2> QED BY <1>1, <2>1, MoreMemory
<1>7. ASSUME NEW q \in Procs, pc'[q] = "heal" PROVE (~Reachable(loc[q].old))'
  <2>1. CASE hist' = hist
    BY <1>7, <2>1 DEF Remembers, HealInv, StillDangling, Reachable
  <2>2. CASE hist' # hist
    <3>1. NewCommit /\ q # p
      BY <1>7, <2>2 DEF Remembers
    <3>2. loc'[q].old = loc[q].old /\ ~Reachable(loc[q].old)
      BY <1>7, <3>1 DEF Remembers, HealInv, StillDangling
    <3>3. loc[q].old <= newest /\ loc[q].old \in Nat
      BY LocType DEF HealInv, ShasKnown, MemoryUpTo
    <3> SUFFICES ASSUME NEW i \in 1..Len(hist) + 1 PROVE hist'[i].id # loc[q].old
      BY <3>1, <3>2, AppendedHistory DEF Reachable
    <3>4. CASE i = Len(hist) + 1
      BY <1>1, <3>1, <3>3, <3>4, AppendedHistory
    <3>5. CASE i # Len(hist) + 1
      <4>1. i \in 1..Len(hist)
        BY <1>2, <3>5
      <4> QED BY <3>1, <3>2, <4>1, AppendedHistory DEF Reachable
    <3> QED BY <3>4, <3>5
  <2> QED BY <2>1, <2>2
<1>8. StartId <= newest'
  BY <1>1 DEF HealInv, ShasKnown
<1>9. ShasKnown'
  BY <1>4, <1>5, <1>6, <1>8 DEF ShasKnown
<1> QED BY <1>7, <1>9 DEF HealInv, StillDangling

LEMMA RewriteStep ==
    ASSUME TypeOK, TypeOK', HealInv, OperatorRewrite
    PROVE  HealInv'
<1>1. newest \in Nat /\ Len(hist) \in Nat
  BY DEF TypeOK
<1>2. \A i \in 1..Len(hist) : hist[i].id \in Nat /\ hist[i] \in CommitRec
  BY CommitIds DEF TypeOK
<1>3. newest' \in Nat /\ newest <= newest'
  BY <1>1 DEF OperatorRewrite
<1>4. \A i \in 1..Len(hist') :
          \/ hist'[i].id > newest /\ hist'[i].id <= newest'
          \/ \E j \in 1..Len(hist) : hist'[i].id = hist[j].id
  <2>1. PICK back \in {1, 2} :
          LET kept == Len(hist) - back IN
          /\ kept > 0
          /\ \/ hist' = SubSeq(hist, 1, kept)
             \/ /\ hist' = [i \in 1..Len(hist) |->
                     IF i <= kept THEN hist[i]
                     ELSE [hist[i] EXCEPT !.id = newest + i - kept]]
                /\ newest' = newest + back
    BY DEF OperatorRewrite
  <2> DEFINE kept == Len(hist) - back
  <2>2. kept \in 1..Len(hist)
    BY <1>1, <2>1
  <2>3. CASE hist' = SubSeq(hist, 1, kept)
    <3>1. Len(hist') = kept /\ \A i \in 1..kept : hist'[i] = hist[i]
      BY <1>1, <2>2, <2>3 DEF TypeOK
    <3> QED BY <1>1, <2>2, <3>1
  <2>4. CASE /\ hist' = [i \in 1..Len(hist) |->
                     IF i <= kept THEN hist[i]
                     ELSE [hist[i] EXCEPT !.id = newest + i - kept]]
             /\ newest' = newest + back
    <3>1. Len(hist') = Len(hist)
      BY <1>1, <2>4 DEF TypeOK
    <3>2. ASSUME NEW i \in 1..Len(hist), i > kept
          PROVE  hist'[i].id > newest /\ hist'[i].id <= newest'
      <4>1. hist'[i] = [hist[i] EXCEPT !.id = newest + i - kept]
        BY <1>1, <2>2, <2>4, <3>2
      <4>2. hist'[i].id = newest + i - kept
        BY <1>2, <4>1 DEF CommitRec
      <4> QED BY <1>1, <2>2, <2>4, <3>2, <4>2
    <3>3. ASSUME NEW i \in 1..Len(hist), ~(i > kept)
          PROVE  hist'[i] = hist[i]
      BY <1>1, <2>2, <2>4, <3>3
    <3> QED BY <3>1, <3>2, <3>3
  <2> QED BY <2>1, <2>3, <2>4
<1>5. \A i \in 1..Len(hist') : hist'[i].id > 0 /\ hist'[i].id <= newest'
  <2> SUFFICES ASSUME NEW i \in 1..Len(hist')
               PROVE  hist'[i].id > 0 /\ hist'[i].id <= newest'
    OBVIOUS
  <2>1. hist'[i].id \in Nat
    BY CommitIds DEF TypeOK
  <2> QED BY <1>1, <1>2, <1>3, <1>4, <2>1 DEF HealInv, ShasKnown
<1>6. RecordsUpTo(st', newest')
  BY <1>1, <1>3, MoreRecords DEF OperatorRewrite, HealInv, ShasKnown, TypeOK
<1>7. ASSUME NEW q \in Procs PROVE MemoryUpTo(loc'[q], newest')
  BY <1>1, <1>3, MoreMemory DEF OperatorRewrite, HealInv, ShasKnown, TypeOK
<1>8. ASSUME NEW q \in Procs, pc'[q] = "heal" PROVE (~Reachable(loc[q].old))'
  <2>1. loc'[q].old = loc[q].old /\ ~Reachable(loc[q].old)
    BY <1>8 DEF OperatorRewrite, HealInv, StillDangling
  <2>2. loc[q].old <= newest /\ loc[q].old \in Nat
    BY LocType DEF HealInv, ShasKnown, MemoryUpTo
  <2>3. ASSUME NEW i \in 1..Len(hist') PROVE hist'[i].id # loc[q].old
    <3>1. hist'[i].id \in Nat
      BY CommitIds DEF TypeOK
    <3> QED BY <1>1, <1>4, <2>1, <2>2, <3>1 DEF Reachable
  <2> QED BY <2>1, <2>3 DEF Reachable
<1>9. StartId <= newest'
  BY <1>1, <1>3, StartTreeType DEF HealInv, ShasKnown
<1>10. ShasKnown'
  BY <1>5, <1>6, <1>7, <1>9 DEF ShasKnown
<1> QED BY <1>8, <1>10 DEF HealInv, StillDangling

-----------------------------------------------------------------------------
(***************************************************************************)
(* What a command can remember: the start, HEAD, the records it reads.     *)
(***************************************************************************)
LEMMA IdleMemory ==
    ASSUME TypeOK, HealInv
    PROVE  MemoryUpTo(IdleLoc, newest)
<1>1. StartId \in 1..22 /\ newest \in Nat /\ StartId <= newest
  BY StartTreeType DEF TypeOK, HealInv, ShasKnown
<1>2. ASSUME NEW k \in 1..8 PROVE StartTree.completed[k] <= StartId
  <2>1. StartTree.completed[k] =
            IF StartId >= RecordId(k) THEN HandoverId(k)
            ELSE IF k <= 2 /\ StartId >= CheckpointId(k) THEN CheckpointId(k) - 1 ELSE 0
    BY DEF StartTree, TreeAt
  <2> QED BY <1>1, <2>1 DEF RecordId, HandoverId, CheckpointId
<1>3. RecordsUpTo(StartTree, StartId)
  BY <1>2 DEF RecordsUpTo
<1>4. RecordsUpTo(StartTree, newest)
  BY <1>1, <1>3, StartTreeType, MoreRecords
<1> QED BY <1>1, <1>4 DEF MemoryUpTo, IdleLoc

LEMMA CommitKnown ==
    ASSUME TypeOK, HealInv
    PROVE  /\ Tip.id <= newest
           /\ \A i \in 1..Len(hist) : hist[i].id <= newest /\ hist[i].id > 0
<1>1. Len(hist) \in 1..Len(hist)
  BY DEF TypeOK
<1> QED BY <1>1 DEF Tip, HealInv, ShasKnown

LEMMA RecordKnown ==
    ASSUME NEW s \in StateFile, NEW top, RecordsUpTo(s, top), NEW n \in 1..8, NEW sha, sha <= top
    PROVE  /\ RecordsUpTo([s EXCEPT !.completed[n] = sha], top)
           /\ RecordsUpTo([s EXCEPT !.completed[n] = sha, !.heals = @ + 1], top)
<1>1. s.completed \in [1..8 -> Nat]
  BY DEF StateFile
<1>2. \A k \in 1..8 : [s.completed EXCEPT ![n] = sha][k] = IF k = n THEN sha ELSE s.completed[k]
  BY <1>1
<1>3. /\ [s EXCEPT !.completed[n] = sha].completed = [s.completed EXCEPT ![n] = sha]
      /\ [s EXCEPT !.completed[n] = sha, !.heals = @ + 1].completed = [s.completed EXCEPT ![n] = sha]
  BY DEF StateFile
<1> QED BY <1>2, <1>3 DEF RecordsUpTo

LEMMA NewCommitGiven ==
    ASSUME TypeOK, NEW subject \in Subjects, NEW n \in 0..9, GitCommit(subject, n)
    PROVE  NewCommit
<1>1. [id |-> newest + 1, subject |-> subject, n |-> n, tree |-> index] \in CommitRec
  BY DEF TypeOK, CommitRec
<1> QED BY <1>1 DEF GitCommit, NewCommit

-----------------------------------------------------------------------------
(***************************************************************************)
(* Steps that only leave, only move on, or move on and remember something. *)
(***************************************************************************)
LEMMA ExitRemembers ==
    ASSUME TypeOK, HealInv, NEW p \in Procs, NEW code, Exit(p, code),
           (hist' = hist /\ newest' = newest) \/ NewCommit, RecordsUpTo(st', newest)
    PROVE  Remembers(p)
<1>1. loc'[p] = IdleLoc /\ pc'[p] = "idle"
  BY DEF Exit, TypeOK
<1> QED BY <1>1, ExitPlain, IdleMemory DEF Remembers

LEMMA GotoRemembers ==
    ASSUME TypeOK, HealInv, NEW p \in Procs, NEW label, Goto(p, label), label # "heal", loc' = loc,
           (hist' = hist /\ newest' = newest) \/ NewCommit, RecordsUpTo(st', newest)
    PROVE  Remembers(p)
BY GotoPlain DEF Remembers, HealInv, ShasKnown

LEMMA WriteRemembers ==
    ASSUME TypeOK, HealInv, NEW p \in Procs, NEW label, Goto(p, label), label # "heal",
           NEW l, loc' = [loc EXCEPT ![p] = l], MemoryUpTo(l, newest),
           hist' = hist, newest' = newest, RecordsUpTo(st', newest)
    PROVE  Remembers(p)
<1>1. loc'[p] = l /\ \A q \in Procs \ {p} : loc'[q] = loc[q]
  BY DEF TypeOK
<1> QED BY <1>1, GotoPlain DEF Remembers

\* The known facts of a state, for the leaves below.
LEMMA Known ==
    ASSUME TypeOK, HealInv, NEW p \in Procs
    PROVE  /\ RecordsUpTo(st, newest) /\ MemoryUpTo(loc[p], newest)
           /\ st \in StateFile /\ loc[p] \in LocRec /\ loc \in [Procs -> LocRec]
BY DEF HealInv, ShasKnown, TypeOK

LEMMA AdvanceRemembers ==
    ASSUME TypeOK, ControlOK, HealInv, NEW p \in Procs, Advance(p)
    PROVE  Remembers(p)
<1> USE Known
<1>n. pc[p] \in AdvanceLabels => loc[p].n \in 1..8
  BY DEF ControlOK
<1>1. ASSUME NEW n \in 1..8, AdvanceStart(p, n) PROVE Remembers(p)
  <2> DEFINE l == [loc[p] EXCEPT !.cmd = "advance", !.n = n]
  <2>1. MemoryUpTo(l, newest)
    BY DEF MemoryUpTo, LocRec
  <2>2. Goto(p, "read") /\ loc' = [loc EXCEPT ![p] = l] /\ st' = st /\ hist' = hist /\ newest' = newest
    BY <1>1 DEF AdvanceStart, repo
  <2> HIDE DEF l
  <2> QED BY <2>1, <2>2, WriteRemembers
<1>2. CASE AdvanceRead(p)
  <2> DEFINE l == [loc[p] EXCEPT !.seen = st]
  <2>1. MemoryUpTo(l, newest)
    BY DEF MemoryUpTo, LocRec
  <2>2. Goto(p, "check") /\ loc' = [loc EXCEPT ![p] = l] /\ st' = st /\ hist' = hist /\ newest' = newest
    BY <1>2 DEF AdvanceRead, repo
  <2> HIDE DEF l
  <2> QED BY <2>1, <2>2, WriteRemembers
<1>3. CASE AdvanceCheck(p)
  <2> DEFINE l == [loc[p] EXCEPT !.again = loc[p].seen.phase > loc[p].n, !.top = HighestGate(gates \ {1})]
  <2>1. MemoryUpTo(l, newest)
    BY DEF MemoryUpTo, LocRec
  <2>2. /\ (\E code : Exit(p, code)) \/ (Goto(p, "entry") /\ loc' = [loc EXCEPT ![p] = l])
        /\ st' = st /\ hist' = hist /\ newest' = newest
    BY <1>3 DEF AdvanceCheck, repo
  <2> HIDE DEF l
  <2> QED BY <2>1, <2>2, WriteRemembers, ExitRemembers
<1>4. CASE AdvancePrecheckFails(p)
  <2>1. Exit(p, EX_OTHER) /\ st' = st /\ hist' = hist /\ newest' = newest
    BY <1>4 DEF AdvancePrecheckFails, repo
  <2> QED BY <2>1, ExitRemembers
<1>5. CASE AdvanceEntryGate(p)
  <2>1. st' = st /\ hist' = hist /\ newest' = newest
    BY <1>5 DEF AdvanceEntryGate, repo
  <2>2. CASE (\E code : Exit(p, code)) \/ (Goto(p, "capture") /\ loc' = loc)
    BY <2>1, <2>2, ExitRemembers, GotoRemembers
  <2>3. CASE \E i \in Marked(loc[p].n) :
                /\ Dangling(loc[p].n)
                /\ Goto(p, "heal")
                /\ loc' = [loc EXCEPT ![p].old = st.completed[loc[p].n], ![p].sha = hist[i].id]
    <3>1. PICK i \in Marked(loc[p].n) :
             /\ Dangling(loc[p].n)
             /\ Goto(p, "heal")
             /\ loc' = [loc EXCEPT ![p].old = st.completed[loc[p].n], ![p].sha = hist[i].id]
      BY <2>3
    <3>2. loc[p].n \in 1..8 /\ i \in 1..Len(hist)
      BY <1>5, <1>n DEF AdvanceEntryGate, AdvanceLabels, Marked
    <3>3. st.completed[loc[p].n] <= newest /\ hist[i].id <= newest
      BY <3>2, CommitKnown DEF RecordsUpTo
    <3>4. /\ loc'[p].old = st.completed[loc[p].n] /\ loc'[p].sha = hist[i].id
          /\ loc'[p].seen = loc[p].seen /\ loc'[p].snap = loc[p].snap
          /\ \A q \in Procs \ {p} : loc'[q] = loc[q]
      BY <3>1 DEF LocRec
    <3>5. ~Reachable(loc'[p].old)
      BY <3>1, <3>4 DEF Dangling
    <3> QED BY <2>1, <3>1, <3>3, <3>4, <3>5, GotoPlain DEF Remembers, MemoryUpTo
  <2> QED BY <1>5, <2>2, <2>3 DEF AdvanceEntryGate, EntryPassed
<1>6. CASE AdvanceHeal(p)
  <2>1. loc[p].n \in 1..8 /\ loc[p].sha <= newest
    BY <1>6, <1>n DEF AdvanceHeal, AdvanceLabels, MemoryUpTo
  <2>2. RecordsUpTo(st', newest)
    <3>1. st' = st \/ st' = [st EXCEPT !.completed[loc[p].n] = loc[p].sha, !.heals = @ + 1]
      BY <1>6 DEF AdvanceHeal
    <3>2. RecordsUpTo([st EXCEPT !.completed[loc[p].n] = loc[p].sha, !.heals = @ + 1], newest)
      BY <2>1, RecordKnown
    <3> QED BY <3>1, <3>2
  <2>3. /\ (\E code : Exit(p, code)) \/ (Goto(p, "capture") /\ loc' = loc)
        /\ hist' = hist /\ newest' = newest
    BY <1>6 DEF AdvanceHeal, EntryPassed, repo
  <2> QED BY <2>2, <2>3, ExitRemembers, GotoRemembers
<1>7. CASE AdvanceCapture(p)
  <2> DEFINE l == [loc[p] EXCEPT !.snap = st, !.snapHand = hand, !.snapGates = gates]
  <2>1. MemoryUpTo(l, newest)
    BY DEF MemoryUpTo, LocRec
  <2>2. Goto(p, "fsm_stage") /\ loc' = [loc EXCEPT ![p] = l] /\ st' = st /\ hist' = hist /\ newest' = newest
    BY <1>7 DEF AdvanceCapture, repo
  <2> HIDE DEF l
  <2> QED BY <2>1, <2>2, WriteRemembers
<1>8. CASE AdvanceFsmStage(p)
  <2> DEFINE l == [loc[p] EXCEPT !.seen = Merged(st, loc[p].n, loc[p].top)]
  <2>1. Merged(st, loc[p].n, loc[p].top).completed = st.completed
    BY DEF Merged, StateFile
  <2>2. l.seen = Merged(st, loc[p].n, loc[p].top) /\ l.snap = loc[p].snap /\ l.sha = loc[p].sha /\ l.old = loc[p].old
    BY DEF LocRec
  <2>3. Goto(p, "fsm_publish") /\ loc' = [loc EXCEPT ![p] = l] /\ st' = st /\ hist' = hist /\ newest' = newest
    BY <1>8 DEF AdvanceFsmStage, repo
  <2> HIDE DEF l
  <2>4. MemoryUpTo(l, newest)
    BY <2>1, <2>2 DEF MemoryUpTo, RecordsUpTo
  <2> QED BY <2>3, <2>4, WriteRemembers
<1>9. CASE AdvanceFsmPublish(p) \/ AdvanceRestore(p)
  <2>1. /\ st' = loc[p].seen \/ st' = loc[p].snap
        /\ Goto(p, "fsm_progress") \/ Goto(p, "restore_rest")
        /\ loc' = loc /\ hist' = hist /\ newest' = newest
    BY <1>9 DEF AdvanceFsmPublish, AdvanceRestore, repo
  <2>2. RecordsUpTo(st', newest)
    BY <2>1 DEF MemoryUpTo
  <2> QED BY <2>1, <2>2, GotoRemembers
<1>10. CASE AdvanceFsmProgress(p) \/ AdvanceManifest(p) \/ AdvanceHeader(p) \/ AdvanceAdd(p)
            \/ AdvanceRestoreRest(p) \/ AdvanceRecordAdd(p) \/ AdvancePublish(p) \/ AdvanceReadBack(p)
  <2>1. /\ (\E code : Exit(p, code)) \/ (\E label : Goto(p, label) /\ label # "heal" /\ loc' = loc)
        /\ st' = st /\ hist' = hist /\ newest' = newest
    BY <1>10 DEF AdvanceFsmProgress, AdvanceManifest, AdvanceHeader, AdvanceAdd, AdvanceRestoreRest,
                 AdvanceRecordAdd, AdvancePublish, AdvanceReadBack, repo
  <2> QED BY <2>1, ExitRemembers, GotoRemembers
<1>11. CASE AdvanceCommit(p) \/ AdvanceRecordCommit(p)
  <2>1. loc[p].n \in 0..9
    BY DEF LocRec
  <2>2. (hist' = hist /\ newest' = newest) \/ NewCommit
    BY <1>11, <2>1, NewCommitGiven DEF AdvanceCommit, AdvanceRecordCommit, Subjects
  <2>3. /\ \E label : Goto(p, label) /\ label # "heal"
        /\ loc' = loc /\ st' = st
    BY <1>11 DEF AdvanceCommit, AdvanceRecordCommit
  <2> QED BY <2>2, <2>3, GotoRemembers
<1>12. CASE AdvanceParse(p)
  <2> DEFINE l == [loc[p] EXCEPT !.sha = Tip.id]
  <2>1. MemoryUpTo(l, newest)
    BY CommitKnown DEF MemoryUpTo, LocRec
  <2>2. Goto(p, "record") /\ loc' = [loc EXCEPT ![p] = l] /\ st' = st /\ hist' = hist /\ newest' = newest
    BY <1>12 DEF AdvanceParse, repo
  <2> HIDE DEF l
  <2> QED BY <2>1, <2>2, WriteRemembers
<1>13. CASE AdvanceRecord(p)
  <2>1. loc[p].n \in 1..8 /\ loc[p].sha <= newest
    BY <1>13, <1>n DEF AdvanceRecord, AdvanceLabels, MemoryUpTo
  <2>2. RecordsUpTo(st', newest)
    <3>1. st' = st \/ st' = [st EXCEPT !.completed[loc[p].n] = loc[p].sha]
      BY <1>13 DEF AdvanceRecord
    <3>2. RecordsUpTo([st EXCEPT !.completed[loc[p].n] = loc[p].sha], newest)
      BY <2>1, RecordKnown
    <3> QED BY <3>1, <3>2
  <2>3. Goto(p, "record_add") /\ loc' = loc /\ hist' = hist /\ newest' = newest
    BY <1>13 DEF AdvanceRecord, repo
  <2> QED BY <2>2, <2>3, GotoRemembers
<1> QED
  BY <1>1, <1>2, <1>3, <1>4, <1>5, <1>6, <1>7, <1>8, <1>9, <1>10, <1>11, <1>12, <1>13 DEF Advance

(***************************************************************************)
(* The push commands: the only shas they write are HEAD as they resolved   *)
(* it and the entry they replaced.                                         *)
(***************************************************************************)
LEMMA AuditKnown ==
    ASSUME NEW s \in StateFile, NEW top, RecordsUpTo(s, top), NEW c
    PROVE  RecordsUpTo([s EXCEPT !.command = c], top)
BY DEF RecordsUpTo, StateFile

LEMMA PushRemembers ==
    ASSUME TypeOK, ControlOK, HealInv, NEW p \in Procs, Push(p)
    PROVE  Remembers(p)
<1> USE Known
<1>1. ASSUME NEW k \in {1, 2}, CheckpointStart(p, k) PROVE Remembers(p)
  <2> DEFINE l == [loc[p] EXCEPT !.cmd = "checkpoint", !.n = k, !.sha = Tip.id]
  <2>1. MemoryUpTo(l, newest)
    BY CommitKnown DEF MemoryUpTo, LocRec
  <2>2. Goto(p, "audit") /\ loc' = [loc EXCEPT ![p] = l] /\ st' = st /\ hist' = hist /\ newest' = newest
    BY <1>1 DEF CheckpointStart, repo
  <2> HIDE DEF l
  <2> QED BY <2>1, <2>2, WriteRemembers
<1>2. ASSUME NEW m \in Milestones, MilestoneStart(p, m) PROVE Remembers(p)
  <2> DEFINE l == [loc[p] EXCEPT !.cmd = "milestone", !.m = m]
  <2>1. MemoryUpTo(l, newest)
    BY DEF MemoryUpTo, LocRec
  <2>2. Goto(p, "evidence") /\ loc' = [loc EXCEPT ![p] = l] /\ st' = st /\ hist' = hist /\ newest' = newest
    BY <1>2 DEF MilestoneStart, repo
  <2> HIDE DEF l
  <2> QED BY <2>1, <2>2, WriteRemembers
<1>3. ASSUME NEW g \in Gates, GateStart(p, g) PROVE Remembers(p)
  <2> DEFINE l == [loc[p] EXCEPT !.cmd = "finalize", !.n = g]
  <2>1. MemoryUpTo(l, newest)
    BY DEF MemoryUpTo, LocRec
  <2>2. Goto(p, "gate_checks") /\ loc' = [loc EXCEPT ![p] = l] /\ st' = st /\ hist' = hist /\ newest' = newest
    BY <1>3 DEF GateStart, repo
  <2> HIDE DEF l
  <2> QED BY <2>1, <2>2, WriteRemembers
<1>4. CASE MilestoneEvidence(p) \/ GateVerdict(p) \/ MilestoneValidate(p) \/ GitPush(p)
           \/ PushAbandon(p) \/ GateUnverdict(p)
  <2>1. /\ (\E code : Exit(p, code)) \/ (\E label : Goto(p, label) /\ label # "heal" /\ loc' = loc)
        /\ st' = st /\ hist' = hist /\ newest' = newest
    BY <1>4 DEF MilestoneEvidence, GateVerdict, MilestoneValidate, GitPush, PushAbandon, GateUnverdict, repo
  <2> QED BY <2>1, ExitRemembers, GotoRemembers
<1>5. CASE GateState(p)
  <2>1. /\ \E label : Goto(p, label) /\ label # "heal"
        /\ loc' = loc /\ hist' = hist /\ newest' = newest
    BY <1>5 DEF GateState, repo
  <2>2. st'.completed = st.completed
    BY <1>5 DEF GateState, StateFile
  <2>3. RecordsUpTo(st', newest)
    BY <2>2 DEF RecordsUpTo
  <2> QED BY <2>1, <2>3, GotoRemembers
<1>6. CASE PushAudit(p)
  <2> DEFINE l == [loc[p] EXCEPT !.wrote = TRUE, !.cmd0 = st.command,
                      !.old = IF loc[p].cmd = "checkpoint" THEN st.completed[loc[p].n] ELSE 0]
  <2>1. /\ loc[p].cmd \in {"checkpoint", "milestone", "finalize"}
        /\ loc[p].cmd = "checkpoint" => loc[p].n \in 1..8
    BY <1>6 DEF PushAudit, ControlOK, PushLabels
  <2>2. loc[p].sha <= newest /\ newest \in Nat
    BY DEF MemoryUpTo, TypeOK
  <2>3. RecordsUpTo(Audited(loc[p]), newest)
    BY <2>1, <2>2, RecordKnown, AuditKnown DEF Audited
  <2>4. l.old <= newest
    BY <2>1, <2>2 DEF RecordsUpTo, LocRec
  <2>5. l.seen = loc[p].seen /\ l.snap = loc[p].snap /\ l.sha = loc[p].sha
    BY DEF LocRec
  <2>6. /\ Goto(p, "validate") \/ Goto(p, "stage")
        /\ hist' = hist /\ newest' = newest
    BY <1>6 DEF PushAudit, repo
  <2>7. (st' = Audited(loc[p]) /\ loc' = [loc EXCEPT ![p] = l]) \/ (st' = st /\ loc' = loc)
    BY <1>6 DEF PushAudit
  <2> HIDE DEF l
  <2>8. MemoryUpTo(l, newest)
    BY <2>4, <2>5 DEF MemoryUpTo
  <2> QED BY <2>3, <2>6, <2>7, <2>8, WriteRemembers, GotoRemembers
<1>7. CASE PushStage(p)
  <2> DEFINE l == [loc[p] EXCEPT !.snapHand = hand]
  <2>1. MemoryUpTo(l, newest)
    BY DEF MemoryUpTo, LocRec
  <2>2. /\ \E label : Goto(p, label) /\ label # "heal"
        /\ loc' = [loc EXCEPT ![p] = l] /\ st' = st /\ hist' = hist /\ newest' = newest
    BY <1>7 DEF PushStage
  <2> HIDE DEF l
  <2> QED BY <2>1, <2>2, WriteRemembers
<1>8. CASE PushCommit(p)
  <2>1. loc[p].n \in 0..9 /\ CommitSubject(loc[p]) \in Subjects
    <3>1. loc[p].cmd \in {"checkpoint", "milestone", "finalize"}
      BY <1>8 DEF PushCommit, ControlOK, PushLabels
    <3> QED BY <3>1 DEF CommitSubject, Subjects, LocRec
  <2>2. (hist' = hist /\ newest' = newest) \/ NewCommit
    BY <1>8, <2>1, NewCommitGiven DEF PushCommit
  <2>3. /\ (\E code : Exit(p, code)) \/ (\E label : Goto(p, label) /\ label # "heal" /\ loc' = loc)
        /\ st' = st
    BY <1>8 DEF PushCommit
  <2> QED BY <2>2, <2>3, ExitRemembers, GotoRemembers
<1>9. CASE PushRevert(p)
  <2>1. loc[p].cmd = "checkpoint" => loc[p].n \in 1..8
    BY DEF ControlOK
  <2>2. loc[p].old <= newest
    BY DEF MemoryUpTo
  <2>3. RecordsUpTo(Unaudited(loc[p]), newest)
    BY <2>1, <2>2, RecordKnown, AuditKnown DEF Unaudited
  <2>4. /\ \E code : Exit(p, code)
        /\ st' = Unaudited(loc[p]) \/ st' = st
        /\ hist' = hist /\ newest' = newest
    BY <1>9 DEF PushRevert, repo
  <2> QED BY <2>3, <2>4, ExitRemembers
<1>10. CASE MilestoneParse(p)
  <2> DEFINE l == [loc[p] EXCEPT !.sha = Tip.id]
  <2>1. MemoryUpTo(l, newest)
    BY CommitKnown DEF MemoryUpTo, LocRec
  <2>2. Goto(p, "push_head") /\ loc' = [loc EXCEPT ![p] = l] /\ st' = st /\ hist' = hist /\ newest' = newest
    BY <1>10 DEF MilestoneParse, repo
  <2> HIDE DEF l
  <2> QED BY <2>1, <2>2, WriteRemembers
<1>11. CASE MilestoneHead(p)
  <2>1. Exit(p, EX_OK) /\ hist' = hist /\ newest' = newest
    BY <1>11 DEF MilestoneHead, repo
  <2>2. st'.completed = st.completed
    BY <1>11 DEF MilestoneHead, StateFile
  <2>3. RecordsUpTo(st', newest)
    BY <2>2 DEF RecordsUpTo
  <2> QED BY <2>1, <2>3, ExitRemembers
<1> QED BY <1>1, <1>2, <1>3, <1>4, <1>5, <1>6, <1>7, <1>8, <1>9, <1>10, <1>11 DEF Push

-----------------------------------------------------------------------------
LEMMA HealInit == Init => HealInv
<1> SUFFICES ASSUME Init PROVE HealInv
  OBVIOUS
<1>1. newest = StartId /\ StartId \in 1..22
  BY StartTreeType DEF Init, StoreInit
<1>2. \A i \in 1..Len(hist) : hist[i].id > 0 /\ hist[i].id <= newest
  BY <1>1 DEF Init, StoreInit, StartHistory
<1>3. ASSUME NEW k \in 1..8 PROVE StartTree.completed[k] <= newest
  <2>1. StartTree.completed[k] =
            IF StartId >= RecordId(k) THEN HandoverId(k)
            ELSE IF k <= 2 /\ StartId >= CheckpointId(k) THEN CheckpointId(k) - 1 ELSE 0
    BY DEF StartTree, TreeAt
  <2> QED BY <1>1, <2>1 DEF RecordId, HandoverId, CheckpointId
<1>4. RecordsUpTo(StartTree, newest)
  BY <1>3 DEF RecordsUpTo
<1>5. ASSUME NEW p \in Procs PROVE loc[p] = IdleLoc /\ pc[p] = "idle"
  BY DEF Init, StoreInit
<1>6. MemoryUpTo(IdleLoc, newest)
  BY <1>1, <1>4 DEF MemoryUpTo, IdleLoc
<1>7. st = StartTree
  BY DEF Init, StoreInit
<1> QED BY <1>1, <1>2, <1>4, <1>5, <1>6, <1>7 DEF HealInv, ShasKnown, StillDangling

LEMMA HealStep ==
    ASSUME IInv, IInv', HealInv, [Next]_vars
    PROVE  HealInv'
<1>1. TypeOK /\ ControlOK /\ TypeOK'
  BY DEF IInv
<1>2. CASE UNCHANGED vars
  BY <1>2 DEF vars, HealInv, ShasKnown, StillDangling, RecordsUpTo, MemoryUpTo, Reachable
<1>3. CASE OperatorRewrite
  BY <1>1, <1>3, RewriteStep
<1>4. ASSUME NEW p \in Procs, Crash(p) PROVE HealInv'
  <2>1. Exit(p, NotRun) /\ st' = st /\ hist' = hist /\ newest' = newest
    BY <1>4 DEF Crash, repo
  <2>2. Remembers(p)
    BY <1>1, <2>1, ExitRemembers DEF HealInv, ShasKnown
  <2> QED BY <1>1, <2>2, RememberStep
<1>5. ASSUME NEW p \in Procs, Step(p) PROVE HealInv'
  BY <1>1, <1>5, AdvanceRemembers, PushRemembers, RememberStep DEF Step
<1> QED BY <1>2, <1>3, <1>4, <1>5 DEF Next, Finished

(***************************************************************************)
(* try_recover_dangling_phase_completed, for any number of processes and   *)
(* any faults, kills, resets and rebases between its look at the entry and *)
(* its write: the entry it replaces names no commit that HEAD reaches.     *)
(***************************************************************************)
THEOREM HealOnlyDanglingAlways == Spec => HealOnlyDangling
<1> DEFINE Replaces ==
      \A p \in Procs, k \in 1..8 :
          pc[p] = "heal" /\ pc'[p] # "heal" /\ st'.completed[k] # st.completed[k]
             => ~Reachable(st.completed[k])
<1>1. IInv /\ IInv' /\ HealInv /\ [Next]_vars => HealInv'
  BY HealStep
<1>2. IInv /\ HealInv /\ [Next]_vars => [Replaces]_vars
  <2> SUFFICES ASSUME IInv, HealInv, Next, NEW p \in Procs, NEW k \in 1..8,
                      pc[p] = "heal", pc'[p] # "heal", st'.completed[k] # st.completed[k]
               PROVE  ~Reachable(st.completed[k])
    OBVIOUS
  <2>1. TypeOK /\ ControlOK
    BY DEF IInv
  <2>2. PICK q \in Procs : Step(q)
    BY DEF Next, Crash, OperatorRewrite, Finished, vars
  <2>3. Remembers(q)
    BY <2>1, <2>2, AdvanceRemembers, PushRemembers DEF Step
  <2>4. q = p
    BY <2>3 DEF Remembers
  <2>5. AdvanceHeal(p)
    BY <2>2, <2>4
    DEF Step, Advance, AdvanceStart, AdvanceRead, AdvanceCheck, AdvancePrecheckFails, AdvanceEntryGate,
        AdvanceCapture, AdvanceFsmStage, AdvanceFsmPublish, AdvanceFsmProgress, AdvanceManifest,
        AdvanceHeader, AdvanceAdd, AdvanceCommit, AdvanceRestore, AdvanceRestoreRest, AdvanceParse,
        AdvanceRecord, AdvanceRecordAdd, AdvanceRecordCommit, AdvancePublish, AdvanceReadBack,
        Push, CheckpointStart, MilestoneStart, GateStart, Start, MilestoneEvidence, GateVerdict,
        GateState, PushAudit, MilestoneValidate, PushStage, PushCommit, GitPush, PushAbandon,
        GateUnverdict, PushRevert, MilestoneParse, MilestoneHead
  <2>6. /\ st.completed[loc[p].n] \in {0, loc[p].old}
        /\ st' = [st EXCEPT !.completed[loc[p].n] = loc[p].sha, !.heals = @ + 1]
    BY <2>5 DEF AdvanceHeal
  <2>7. k = loc[p].n
    BY <2>1, <2>6 DEF TypeOK, StateFile
  <2>8. ~Reachable(0) /\ ~Reachable(loc[p].old)
    BY DEF HealInv, ShasKnown, StillDangling, Reachable
  <2> QED BY <2>6, <2>7, <2>8
<1>3. [][Replaces]_vars => HealOnlyDangling
  BY PTL DEF HealOnlyDangling
<1> QED BY <1>1, <1>2, <1>3, HealInit, Inductive, PTL DEF Spec

-----------------------------------------------------------------------------
(***************************************************************************)
(* What a successful advance leaves behind.  From phase 3 on the records   *)
(* of the two reviewed phases exist and nothing removes them: push-        *)
(* checkpoint replaces a record by a commit id, and its revert puts back   *)
(* the id it found.                                                        *)
(***************************************************************************)
BothReviews(s) == s.completed[1] # 0 /\ s.completed[2] # 0

ReviewMemory(p) ==
    /\ pc[p] = "idle" => loc[p] = IdleLoc
    /\ BothReviews(loc[p].snap)
    /\ pc[p] = "heal" => loc[p].n <= 2
    /\ pc[p] \in {"heal", "record"} => loc[p].sha # 0
    /\ pc[p] \in PushLabels /\ loc[p].cmd = "checkpoint" =>
          loc[p].sha # 0 /\ (loc[p].wrote => loc[p].old # 0)

ReviewInv == BothReviews(st) /\ \A p \in Procs : ReviewMemory(p)

LEMMA ReviewsAtStart == ASSUME StartPhase >= 3 PROVE BothReviews(StartTree)
<1>1. StartId \in 7..22
  BY StartAssumption DEF StartId
<1>2. StartTree.completed[1] = 3 /\ StartTree.completed[2] = 6
  BY <1>1 DEF StartTree, TreeAt, RecordId, HandoverId
<1> QED BY <1>2 DEF BothReviews

LEMMA ReviewInit == ASSUME StartPhase >= 3 PROVE Init => ReviewInv
BY ReviewsAtStart DEF Init, StoreInit, ReviewInv, ReviewMemory, IdleLoc, PushLabels

\* One record written with the id of a commit.
LEMMA ReviewWritten ==
    ASSUME NEW s \in StateFile, BothReviews(s), NEW n \in 1..8, NEW sha, sha # 0
    PROVE  /\ BothReviews([s EXCEPT !.completed[n] = sha])
           /\ BothReviews([s EXCEPT !.completed[n] = sha, !.heals = @ + 1])
<1>1. s.completed \in [1..8 -> Nat]
  BY DEF StateFile
<1>2. [s.completed EXCEPT ![n] = sha][1] # 0 /\ [s.completed EXCEPT ![n] = sha][2] # 0
  BY <1>1 DEF BothReviews
<1>3. /\ [s EXCEPT !.completed[n] = sha].completed = [s.completed EXCEPT ![n] = sha]
      /\ [s EXCEPT !.completed[n] = sha, !.heals = @ + 1].completed = [s.completed EXCEPT ![n] = sha]
  BY DEF StateFile
<1> QED BY <1>2, <1>3 DEF BothReviews

LEMMA CommitNotZero ==
    ASSUME TypeOK, HealInv
    PROVE  Tip.id # 0 /\ \A i \in 1..Len(hist) : hist[i].id # 0
<1>1. \A i \in 1..Len(hist) : hist[i].id > 0
  BY DEF HealInv, ShasKnown
<1>2. \A i \in 1..Len(hist) : hist[i].id # 0
  BY <1>1
<1>3. Len(hist) \in 1..Len(hist)
  BY DEF TypeOK
<1> QED BY <1>2, <1>3 DEF Tip

LEMMA AdvanceReviews ==
    ASSUME StartPhase >= 3, IInv, HealInv, ReviewInv, NEW p \in Procs, Advance(p)
    PROVE  BothReviews(st') /\ ReviewMemory(p)'
<1>t. TypeOK /\ st \in StateFile /\ loc[p] \in LocRec /\ ReviewMemory(p) /\ BothReviews(st)
  BY LocType DEF IInv, TypeOK, ReviewInv
<1>n. pc[p] \in AdvanceLabels => loc[p].n \in 1..8
  BY DEF IInv, ControlOK
<1>1. BothReviews(st')
  <2>1. CASE st' = st
    BY <1>t, <2>1
  <2>2. CASE AdvanceHeal(p)
    <3>1. loc[p].n \in 1..8 /\ loc[p].sha # 0
      BY <1>t, <1>n, <2>2 DEF AdvanceHeal, ReviewMemory, AdvanceLabels
    <3>2. BothReviews([st EXCEPT !.completed[loc[p].n] = loc[p].sha, !.heals = @ + 1])
      BY <1>t, <3>1, ReviewWritten
    <3> QED BY <1>t, <2>2, <3>2 DEF AdvanceHeal
  <2>3. CASE AdvanceFsmPublish(p)
    <3>1. st' = Merged(st, loc[p].n, loc[p].top)
      BY <2>3 DEF AdvanceFsmPublish, IInv, PublishIsFresh
    <3>2. st'.completed = st.completed
      BY <1>t, <3>1 DEF Merged, StateFile
    <3> QED BY <1>t, <3>2 DEF BothReviews
  <2>4. CASE AdvanceRestore(p)
    BY <1>t, <2>4 DEF AdvanceRestore, ReviewMemory
  <2>5. CASE AdvanceRecord(p)
    <3>1. loc[p].n \in 1..8 /\ loc[p].sha # 0
      BY <1>t, <1>n, <2>5 DEF AdvanceRecord, ReviewMemory, AdvanceLabels
    <3>2. BothReviews([st EXCEPT !.completed[loc[p].n] = loc[p].sha])
      BY <1>t, <3>1, ReviewWritten
    <3> QED BY <1>t, <2>5, <3>2 DEF AdvanceRecord
  <2> QED BY <2>1, <2>2, <2>3, <2>4, <2>5, AdvanceLeaves
<1>2. pc'[p] = "idle" => loc'[p] = IdleLoc
  BY <1>t, AdvanceAlone
<1>3. BothReviews(loc'[p].snap)
  <2>1. IdleLoc.snap = StartTree
    BY DEF IdleLoc
  <2>2. AdvanceCapture(p) => loc'[p].snap = st
    BY <1>t DEF AdvanceCapture, TypeOK, LocRec
  <2> QED BY <1>t, <2>1, <2>2, ReviewsAtStart, AdvanceMemory DEF ReviewMemory
<1>4. (pc'[p] = "heal" => AdvanceEntryGate(p)) /\ (pc'[p] = "record" => AdvanceParse(p))
  BY <1>t, AdvanceReaches
<1>6. pc'[p] = "heal" => loc'[p].n <= 2 /\ loc'[p].sha # 0
  <2> SUFFICES ASSUME pc'[p] = "heal" PROVE loc'[p].n <= 2 /\ loc'[p].sha # 0
    OBVIOUS
  <2>1. PICK i \in 1..Len(hist) :
           /\ loc[p].n <= 2
           /\ loc' = [loc EXCEPT ![p].old = st.completed[loc[p].n], ![p].sha = hist[i].id]
    BY <1>t, <1>4, ExitPlain, GotoPlain DEF AdvanceEntryGate, EntryPassed, Dangling, Marked
  <2>2. loc'[p].n = loc[p].n /\ loc'[p].sha = hist[i].id
    BY <1>t, <2>1 DEF TypeOK, LocRec
  <2> QED BY <1>t, <2>1, <2>2, CommitNotZero
<1>7. pc'[p] = "record" => loc'[p].sha # 0
  BY <1>t, <1>4, CommitNotZero DEF AdvanceParse, TypeOK, LocRec
<1>8. pc'[p] \notin PushLabels
  BY <1>t, AdvanceAlone DEF AdvanceLabels, PushLabels
<1> QED BY <1>1, <1>2, <1>3, <1>6, <1>7, <1>8 DEF ReviewMemory

LEMMA PushReviews ==
    ASSUME StartPhase >= 3, IInv, HealInv, ReviewInv, NEW p \in Procs, Push(p)
    PROVE  BothReviews(st') /\ ReviewMemory(p)'
<1>t. TypeOK /\ st \in StateFile /\ loc[p] \in LocRec /\ ReviewMemory(p) /\ BothReviews(st)
  BY LocType DEF IInv, TypeOK, ReviewInv
<1>n. loc[p].cmd = "checkpoint" => loc[p].n \in 1..8
  BY DEF IInv, ControlOK
<1>1. BothReviews(st')
  <2>1. CASE st' = st
    BY <1>t, <2>1
  <2>2. CASE GateState(p)
    <3>1. st'.completed = st.completed
      BY <1>t, <2>2 DEF GateState, StateFile
    <3> QED BY <1>t, <3>1 DEF BothReviews
  <2>3. CASE PushAudit(p) /\ st' # st
    <3>1. st' = Audited(loc[p]) /\ loc[p].cmd \in {"checkpoint", "milestone", "finalize"}
      BY <2>3 DEF PushAudit, IInv, ControlOK, PushLabels
    <3>2. CASE loc[p].cmd = "checkpoint"
      <4>1. loc[p].sha # 0
        BY <1>t, <2>3, <3>2 DEF PushAudit, ReviewMemory, PushLabels
      <4>2. BothReviews([st EXCEPT !.completed[loc[p].n] = loc[p].sha])
        BY <1>t, <1>n, <3>2, <4>1, ReviewWritten
      <4> QED BY <3>1, <3>2, <4>2 DEF Audited
    <3>3. CASE loc[p].cmd # "checkpoint"
      <4>1. st'.completed = st.completed
        BY <1>t, <3>1, <3>3 DEF Audited, StateFile
      <4> QED BY <1>t, <4>1 DEF BothReviews
    <3> QED BY <3>2, <3>3
  <2>4. CASE PushRevert(p) /\ st' # st
    <3>1. st' = Unaudited(loc[p]) /\ loc[p].wrote
      BY <2>4 DEF PushRevert, Unaudited
    <3>2. CASE loc[p].cmd = "checkpoint"
      <4>1. loc[p].old # 0
        BY <1>t, <2>4, <3>1, <3>2 DEF PushRevert, ReviewMemory, PushLabels
      <4>2. BothReviews([st EXCEPT !.completed[loc[p].n] = loc[p].old])
        BY <1>t, <1>n, <3>2, <4>1, ReviewWritten
      <4> QED BY <3>1, <3>2, <4>2 DEF Unaudited
    <3>3. CASE loc[p].cmd # "checkpoint"
      <4>1. st'.completed = st.completed
        BY <1>t, <3>1, <3>3 DEF Unaudited, StateFile
      <4> QED BY <1>t, <4>1 DEF BothReviews
    <3> QED BY <3>2, <3>3
  <2>5. CASE MilestoneHead(p)
    <3>1. st'.completed = st.completed
      BY <1>t, <2>5 DEF MilestoneHead, StateFile
    <3> QED BY <1>t, <3>1 DEF BothReviews
  <2> QED BY <2>1, <2>2, <2>3, <2>4, <2>5, PushLeaves
<1>2. /\ pc'[p] = "idle" => loc'[p] = IdleLoc
      /\ pc'[p] \notin {"heal", "record"}
  BY <1>t, PushAlone DEF PushLabels, GateLabels
<1>3. BothReviews(loc'[p].snap)
  <2>1. IdleLoc.snap = StartTree
    BY DEF IdleLoc
  <2> QED BY <1>t, <2>1, ReviewsAtStart, PushMemory DEF ReviewMemory
<1>4. ASSUME pc'[p] \in PushLabels, loc'[p].cmd = "checkpoint"
      PROVE  loc'[p].sha # 0 /\ (loc'[p].wrote => loc'[p].old # 0)
  <2> USE <1>t, <1>4, CommitNotZero DEF TypeOK, LocRec, ReviewMemory, PushLabels
  <2>1. ASSUME NEW k \in {1, 2}, CheckpointStart(p, k)
        PROVE  loc'[p].sha # 0 /\ (loc'[p].wrote => loc'[p].old # 0)
    <3>1. loc'[p].sha = Tip.id /\ loc'[p].wrote = loc[p].wrote
      BY <2>1 DEF CheckpointStart
    <3>2. loc[p] = IdleLoc
      BY <2>1 DEF CheckpointStart, Start
    <3> QED BY <3>1, <3>2 DEF IdleLoc
  <2>2. ASSUME NEW m \in Milestones, MilestoneStart(p, m) PROVE FALSE
    BY <2>2 DEF MilestoneStart
  <2>3. ASSUME NEW g \in Gates, GateStart(p, g) PROVE FALSE
    BY <2>3 DEF GateStart
  <2>4. CASE PushAudit(p)
    <3>1. pc[p] = "audit" /\ loc'[p].cmd = loc[p].cmd /\ loc'[p].sha = loc[p].sha
      BY <2>4 DEF PushAudit
    <3>2. loc'[p] = loc[p] \/ loc'[p].old = st.completed[loc[p].n]
      BY <2>4, <3>1 DEF PushAudit
    <3>3. loc[p].n \in {1, 2}
      BY <3>1 DEF IInv, ControlOK
    <3> QED BY <3>1, <3>2, <3>3 DEF BothReviews
  <2>5. CASE MilestoneParse(p)
    <3>1. pc[p] = "push_parse" /\ loc'[p] = [loc[p] EXCEPT !.sha = Tip.id]
      BY <2>5 DEF MilestoneParse
    <3> QED BY <3>1
  <2>6. CASE PushStage(p)
    <3>1. pc[p] = "stage" /\ loc'[p] = [loc[p] EXCEPT !.snapHand = hand]
      BY <2>6 DEF PushStage
    <3> QED BY <3>1
  <2>7. pc'[p] # "idle"
    OBVIOUS
  <2> USE <2>7, ExitPlain, GotoPlain
  <2>8. CASE MilestoneEvidence(p) \/ MilestoneValidate(p) \/ PushCommit(p) \/ GitPush(p) \/ PushAbandon(p)
    BY <2>8 DEF MilestoneEvidence, MilestoneValidate, PushCommit, GitPush, PushAbandon
  <2>9. CASE GateVerdict(p) \/ GateState(p) \/ GateUnverdict(p)
    BY <2>9 DEF GateVerdict, GateState, GateUnverdict, IInv, ControlOK, GateLabels
  <2>10. CASE PushRevert(p) \/ MilestoneHead(p)
    BY <2>10 DEF PushRevert, MilestoneHead
  <2> QED BY <2>1, <2>2, <2>3, <2>4, <2>5, <2>6, <2>8, <2>9, <2>10 DEF Push
<1> QED BY <1>1, <1>2, <1>3, <1>4 DEF ReviewMemory

LEMMA ReviewStep ==
    ASSUME StartPhase >= 3, IInv, HealInv, ReviewInv, [Next]_vars
    PROVE  ReviewInv'
<1>t. TypeOK /\ BothReviews(st) /\ \A q \in Procs : ReviewMemory(q)
  BY DEF IInv, ReviewInv
<1>1. CASE UNCHANGED vars
  BY <1>t, <1>1 DEF vars, ReviewInv, ReviewMemory
<1>2. CASE OperatorRewrite
  BY <1>t, <1>2 DEF OperatorRewrite, ReviewInv, ReviewMemory
<1>3. ASSUME NEW p \in Procs, Crash(p) \/ Step(p) PROVE ReviewInv'
  <2>1. \A q \in Procs \ {p} : pc'[q] = pc[q] /\ loc'[q] = loc[q]
    BY <1>t, <1>3, AdvanceAlone, PushAlone, ExitPlain DEF Step, Crash
  <2>2. BothReviews(st') /\ ReviewMemory(p)'
    <3>1. CASE Crash(p)
      <4>1. st' = st /\ pc'[p] = "idle" /\ loc'[p] = IdleLoc
        BY <1>t, <3>1 DEF Crash, Exit, TypeOK
      <4>2. IdleLoc.snap = StartTree
        BY DEF IdleLoc
      <4> QED BY <1>t, <4>1, <4>2, ReviewsAtStart DEF ReviewMemory, PushLabels
    <3> QED BY <1>3, <3>1, AdvanceReviews, PushReviews DEF Step
  <2> QED BY <1>t, <2>1, <2>2 DEF ReviewInv, ReviewMemory
<1> QED BY <1>1, <1>2, <1>3 DEF Next, Finished

(***************************************************************************)
(* advance-phase that reports success, for any number of processes and any *)
(* faults, kills and rewrites, in a project past its two reviewed phases:  *)
(* phase_completed has the record of the phase it was asked to complete -  *)
(* the first run reads it back (_advance_step_commit_and_push), a re-run   *)
(* finds it at the entry gate.                                             *)
(***************************************************************************)
THEOREM SuccessLeavesRecordLater ==
    ASSUME StartPhase >= 3 PROVE Spec => SuccessLeavesRecord
<1> DEFINE Leaves ==
      \A p \in Procs :
          loc[p].cmd = "advance" /\ pc'[p] = "idle" /\ rc'[p] = EX_OK
             => st'.completed[loc[p].n] # 0
<1>1. IInv /\ HealInv /\ ReviewInv /\ [Next]_vars => [Leaves]_vars
  <2> SUFFICES ASSUME IInv, HealInv, ReviewInv, Next, NEW p \in Procs,
                      loc[p].cmd = "advance", pc'[p] = "idle", rc'[p] = EX_OK
               PROVE  st'.completed[loc[p].n] # 0
    OBVIOUS
  <2>t. TypeOK /\ ReviewMemory(p) /\ st \in StateFile
    BY DEF IInv, ReviewInv, TypeOK
  <2>1. pc[p] \in AdvanceLabels /\ loc[p].n \in 1..8
    <3>1. pc[p] # "idle" /\ loc[p].n \in 1..8
      BY <2>t DEF IInv, ControlOK, ReviewMemory, IdleLoc
    <3> QED BY <2>t, <3>1 DEF IInv, ControlOK, TypeOK, Labels
  <2>2. Advance(p)
    <3>1. pc[p] # pc'[p]
      BY <2>1 DEF AdvanceLabels
    <3>2. ~UNCHANGED vars /\ ~OperatorRewrite /\ \A q \in Procs \ {p} : ~Step(q) /\ ~Crash(q)
      BY <2>t, <3>1, AdvanceAlone, PushAlone, ExitPlain DEF vars, OperatorRewrite, Step, Crash
    <3>3. ~Crash(p)
      BY <2>t DEF Crash, Exit, TypeOK, NotRun, EX_OK
    <3>4. ~Push(p)
      BY <2>t, <2>1, PushAlone DEF AdvanceLabels, PushLabels, GateLabels
    <3> QED BY <3>2, <3>3, <3>4 DEF Next, Finished, Step
  <2>e. ASSUME NEW code, Exit(p, code) PROVE rc'[p] = code
    BY <2>t, <2>e DEF Exit, TypeOK
  <2>3. BothReviews(st')
    BY <2>2, AdvanceReviews
  <2>4. CASE loc[p].n <= 2
    BY <2>1, <2>3, <2>4 DEF BothReviews
  <2>5. CASE ~(loc[p].n <= 2)
    <3>1. CASE AdvanceEntryGate(p)
      <4>1. RecordAccepted(loc[p].n, loc[p].again) /\ EntryPassed(p) /\ st' = st
        BY <2>t, <2>e, <3>1, GotoPlain DEF AdvanceEntryGate, EX_OK, EX_ENTRY_GATE
      <4>2. loc[p].again
        BY <2>t, <4>1, GotoPlain DEF EntryPassed
      <4> QED BY <2>5, <4>1, <4>2 DEF RecordAccepted
    <3>2. CASE AdvanceReadBack(p)
      BY <2>e, <3>2 DEF AdvanceReadBack, EX_OK, EX_RECORD_NOT_WRITTEN
    <3>3. CASE AdvanceHeal(p)
      BY <2>t, <2>5, <3>3 DEF AdvanceHeal, ReviewMemory
    <3> USE <2>t, <2>e, GotoPlain
            DEF EX_OK, EX_FAILED, EX_SKIP_ATTEMPT, EX_TRUTH_MISSING, EX_ENTRY_GATE, EX_OTHER,
                EX_ROLLED_BACK, EX_PUSH_FAILED
    <3>4. ASSUME NEW n \in 1..8, AdvanceStart(p, n) PROVE FALSE
      BY <3>4 DEF AdvanceStart
    <3>5. CASE AdvanceRead(p) \/ AdvanceCheck(p) \/ AdvancePrecheckFails(p) \/ AdvanceCapture(p)
      BY <3>5 DEF AdvanceRead, AdvanceCheck, AdvancePrecheckFails, AdvanceCapture
    <3>6. CASE AdvanceFsmStage(p) \/ AdvanceFsmPublish(p) \/ AdvanceFsmProgress(p) \/ AdvanceManifest(p)
      BY <3>6 DEF AdvanceFsmStage, AdvanceFsmPublish, AdvanceFsmProgress, AdvanceManifest
    <3>7. CASE AdvanceHeader(p) \/ AdvanceAdd(p) \/ AdvanceCommit(p) \/ AdvanceRestore(p)
      BY <3>7 DEF AdvanceHeader, AdvanceAdd, AdvanceCommit, AdvanceRestore
    <3>8. CASE AdvanceRestoreRest(p) \/ AdvanceParse(p) \/ AdvanceRecord(p) \/ AdvanceRecordAdd(p)
      BY <3>8 DEF AdvanceRestoreRest, AdvanceParse, AdvanceRecord, AdvanceRecordAdd
    <3>9. CASE AdvanceRecordCommit(p) \/ AdvancePublish(p)
      BY <3>9 DEF AdvanceRecordCommit, AdvancePublish
    <3> QED BY <2>2, <3>1, <3>2, <3>3, <3>4, <3>5, <3>6, <3>7, <3>8, <3>9 DEF Advance
  <2> QED BY <2>4, <2>5
<1>2. IInv /\ IInv' /\ HealInv /\ [Next]_vars => HealInv'
  BY HealStep
<1>3. IInv /\ HealInv /\ ReviewInv /\ [Next]_vars => ReviewInv'
  BY ReviewStep
<1>4. [][Leaves]_vars => SuccessLeavesRecord
  BY PTL DEF SuccessLeavesRecord
<1> QED BY <1>1, <1>2, <1>3, <1>4, HealInit, ReviewInit, Inductive, PTL DEF Spec
=============================================================================
