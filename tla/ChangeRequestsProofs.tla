------------------------ MODULE ChangeRequestsProofs ------------------------
(***************************************************************************)
(* Proofs about the change requests.  CrInv, inductive for any number of   *)
(* processes, gives the types and the evidence of a closed ticket.  For    *)
(* commands that do not overlap, SerialInv ties the document a command     *)
(* holds, or has staged, to the ticket it was loaded from; the other       *)
(* properties and the refinement of TicketLifecycle follow from it.        *)
(***************************************************************************)
EXTENDS ChangeRequests, TLAPS

(***************************************************************************)
(* A document says CLOSED only with its closure evidence and its FRs -     *)
(* wherever it is: in the ticket's file, in a staged sibling, in a plan or *)
(* in memory.                                                              *)
(***************************************************************************)
SoundDoc == {d \in TicketDoc : d.status = "CLOSED" => "closure" \in d.proof /\ d.frs # {}}

Content(f) == IF f = Log THEN SUBSET Tickets ELSE SoundDoc \cup {Partial}

FileOK ==
    /\ file = [f \in Files |-> file[f]]
    /\ file[Log] \subseteq Tickets
    /\ \A t \in Tickets : file[t] \in SoundDoc \cup {NoTicket, Partial}

Staged(s) ==
    /\ s = [f \in Files |-> s[f]]
    /\ \A f \in Files : s[f] \in Content(f) \cup {NoTmp}

\* A transaction writes nothing, or the log and a ticket.
Plans ==
    {<<>>} \cup {<<LogWrite(rows), TicketWrite(t, d)>> :
                    rows \in SUBSET Tickets, t \in Tickets, d \in SoundDoc}

ProcsOK ==
    /\ step \in [Procs -> {"none", "stage", "rename"}]
    /\ plan \in [Procs -> Plans]
    /\ done \in [Procs -> 0..2]
    /\ \A p \in Procs : done[p] <= Len(plan[p])
    /\ doing \in [Procs -> {"none", "save", "save_then_move", "move", "close_check",
                            "close_load", "close_render"}]
    /\ doc \in [Procs -> SoundDoc \cup {NoTicket}]
    /\ ticket \in [Procs -> Tickets]
    /\ seen \in [Procs -> SUBSET Frs]
    /\ \A p \in Procs :
          doing[p] \in {"save", "save_then_move", "close_render"} => doc[p] \in SoundDoc

CrInv == FileOK /\ Staged(tmp) /\ journal \subseteq Files /\ ProcsOK /\ gate1 \subseteq Frs

-----------------------------------------------------------------------------
(***************************************************************************)
(* The constants, and what a plan holds.                                   *)
(***************************************************************************)
LEMMA FileNames ==
    /\ Log \in Files
    /\ Tickets \subseteq Files
    /\ Log \notin Tickets
    /\ Files = {Log} \cup Tickets
    /\ 1 \in Tickets
BY FilesAssumption, TicketsAssumption DEF Log, Tickets

LEMMA DocFacts ==
    /\ SoundDoc \subseteq TicketDoc
    /\ NoTicket \notin TicketDoc
    /\ Partial \notin SoundDoc
    /\ Partial # NoTicket
<1>1. NoTicket.status = "none" /\ "none" \notin Statuses
  BY DEF NoTicket, Statuses
<1>2. NoTicket \notin TicketDoc
  BY <1>1 DEF TicketDoc
<1> QED BY <1>2, PartialAssumption DEF SoundDoc

LEMMA PlanFacts ==
    ASSUME NEW P \in Plans
    PROVE  /\ Len(P) \in {0, 2}
           /\ DOMAIN P = 1..Len(P)
           /\ \A i \in 1..Len(P) :
                 /\ P[i].target \in Files
                 /\ P[i].content \in Content(P[i].target)
                 /\ P[i].cut \subseteq Content(P[i].target)
<1>1. CASE P = <<>>
  BY <1>1
<1>2. ASSUME NEW rows \in SUBSET Tickets, NEW t \in Tickets, NEW d \in SoundDoc,
             P = <<LogWrite(rows), TicketWrite(t, d)>>
      PROVE  /\ Len(P) = 2 /\ DOMAIN P = 1..2
             /\ \A i \in 1..2 :
                 /\ P[i].target \in Files
                 /\ P[i].content \in Content(P[i].target)
                 /\ P[i].cut \subseteq Content(P[i].target)
  <2>1. Len(P) = 2 /\ DOMAIN P = 1..2 /\ P[1] = LogWrite(rows) /\ P[2] = TicketWrite(t, d)
    BY <1>2
  <2>2. /\ P[1].target = Log /\ P[1].content = rows /\ P[1].cut = SUBSET rows
        /\ P[2].target = t /\ P[2].content = d /\ P[2].cut = {Partial}
    BY <2>1 DEF LogWrite, TicketWrite
  <2>3. t # Log /\ Log \in Files /\ t \in Files
    BY FileNames
  <2> QED BY <2>1, <2>2, <2>3 DEF Content
<1> QED BY <1>1, <1>2 DEF Plans

LEMMA TargetsAreFiles == ASSUME NEW P \in Plans PROVE Targets(P) \subseteq Files
BY PlanFacts DEF Targets

(***************************************************************************)
(* What removing the siblings, or being cut short, leaves of them.         *)
(***************************************************************************)
LEMMA CleanedStaged ==
    ASSUME NEW p, NEW n, Staged(tmp)
    PROVE  Staged(Cleaned(p, n))
BY DEF Staged, Cleaned

LEMMA CutShortStaged ==
    ASSUME ProcsOK, NEW p \in Procs, done[p] < Len(plan[p]),
           NEW s, Staged(s), NEW u \in CutShort(p, s)
    PROVE  Staged(u)
<1> DEFINE w == plan[p][done[p] + 1]
<1>1. plan[p] \in Plans /\ done[p] + 1 \in 1..Len(plan[p])
  <2>1. plan[p] \in Plans /\ done[p] \in 0..2
    BY DEF ProcsOK
  <2>2. Len(plan[p]) \in {0, 2}
    BY <2>1, PlanFacts
  <2> QED BY <2>1, <2>2
<1>2. w.target \in Files /\ w.cut \subseteq Content(w.target)
  BY <1>1, PlanFacts
<1>3. CASE u = s
  BY <1>3
<1>4. ASSUME NEW c \in w.cut, u = [s EXCEPT ![w.target] = c] PROVE Staged(u)
  <2> HIDE DEF w
  <2> QED BY <1>2, <1>4 DEF Staged
<1> QED BY <1>3, <1>4 DEF CutShort

(***************************************************************************)
(* Types and evidence: one step per action.                                *)
(***************************************************************************)
LEMMA StartTicketSound ==
    ASSUME NEW t \in Tickets
    PROVE  /\ StartTicket(t) \in SoundDoc \cup {NoTicket}
           /\ StartTicket(t).status = StartStatus[t]
<1>1. StartStatus[t] \in Statuses \cup {"none"}
  BY TicketsAssumption
<1>2. Holds(StartStatus[t]) \in SUBSET Proofs
  BY DEF Holds, Proofs
<1>3. StartStatus[t] = "CLOSED" => "closure" \in Holds(StartStatus[t])
  BY DEF Holds, Proofs
<1>f. Frs # {}
  BY FrsAssumption
<1>4. CASE StartStatus[t] = "none"
  BY <1>4 DEF StartTicket, NoTicket
<1>5. CASE StartStatus[t] # "none"
  BY <1>1, <1>2, <1>3, <1>f, <1>5 DEF StartTicket, SoundDoc, TicketDoc
<1> QED BY <1>4, <1>5

LEMMA CrInitInv == Init => CrInv
<1> SUFFICES ASSUME Init PROVE CrInv
  OBVIOUS
<1>1. \A t \in Tickets : StartTicket(t) \in SoundDoc \cup {NoTicket}
  BY StartTicketSound
<1>2. FileOK
  BY <1>1, FileNames DEF Init, FileOK
<1>3. Staged(tmp) /\ journal = {}
  BY DEF Init, TxnInit, Staged
<1>4. ProcsOK
  BY FileNames DEF Init, TxnInit, ProcsOK, Plans
<1> QED BY <1>2, <1>3, <1>4 DEF CrInv, Init

LEMMA EditsSound ==
    ASSUME NEW d \in SoundDoc, d.status \notin Terminal, NEW e \in Edits(d)
    PROVE  e \in SoundDoc /\ e.status = d.status
<1>1. d \in TicketDoc /\ d.status # "CLOSED"
  BY DEF SoundDoc, Terminal
<1> QED BY <1>1 DEF Edits, SoundDoc, TicketDoc

LEMMA ReadableSound ==
    ASSUME FileOK, NEW t \in Readable
    PROVE  t \in Tickets /\ file[t] \in SoundDoc
BY DEF FileOK, Readable, Existing

LEMMA WithStatus ==
    ASSUME NEW d \in SoundDoc, NEW status \in Statuses,
           status = "CLOSED" => "closure" \in d.proof /\ d.frs # {}
    PROVE  /\ [d EXCEPT !.status = status] \in SoundDoc
           /\ [d EXCEPT !.status = status].status = status
           /\ [d EXCEPT !.status = status].proof = d.proof
           /\ [d EXCEPT !.status = status].frs = d.frs
BY DEF SoundDoc, TicketDoc

LEMMA ClosingHasEvidence ==
    ASSUME NEW d, Valid(d, "CLOSED") PROVE "closure" \in d.proof /\ d.frs # {}
BY DEF Valid, MayClose, Asks

LEMMA SaveInv ==
    ASSUME CrInv, NEW p \in Procs, Save(p)
    PROVE  CrInv'
<1>1. UNCHANGED <<tmp, journal, step, plan, done, ticket, seen, gate1>>
  BY DEF Save, manifest
<1>2. ProcsOK'
  <2>1. /\ doing[p] \in {"save", "save_then_move"}
        /\ doing' \in {[doing EXCEPT ![p] = "none"], [doing EXCEPT ![p] = "move"]}
        /\ doc' \in {doc, [doc EXCEPT ![p] = NoTicket]}
    BY DEF Save, Return, Doing
  <2> QED BY <1>1, <2>1 DEF CrInv, ProcsOK
<1>3. FileOK'
  <2>1. CASE UNCHANGED file
    BY <2>1 DEF CrInv, FileOK
  <2>2. CASE file' = [file EXCEPT ![ticket[p]] = doc[p]]
    <3>1. ticket[p] \in Tickets /\ doc[p] \in SoundDoc
      BY DEF Save, CrInv, ProcsOK
    <3> QED BY <2>2, <3>1, FileNames DEF CrInv, FileOK
  <2> QED BY <2>1, <2>2 DEF Save
<1> QED BY <1>1, <1>2, <1>3 DEF CrInv, Staged

LEMMA MemoryInv ==
    ASSUME CrInv, NEW p \in Procs, UNCHANGED <<txn, gate1>>,
           seen' \in {seen, [seen EXCEPT ![p] = {}], [seen EXCEPT ![p] = gate1]},
           \/ UNCHANGED doc
           \/ \E d \in SoundDoc : doc' = [doc EXCEPT ![p] = d],
           \/ UNCHANGED ticket
           \/ \E t \in Tickets : ticket' = [ticket EXCEPT ![p] = t],
           \E what \in {"none", "save", "save_then_move", "move", "close_check", "close_load",
                       "close_render"} :
              /\ doing' = [doing EXCEPT ![p] = what]
              /\ what \in {"none", "move", "close_check", "close_load"} \/ doc'[p] \in SoundDoc
    PROVE  CrInv'
<1>1. FileOK' /\ Staged(tmp)' /\ (journal \subseteq Files)'
  BY DEF CrInv, FileOK, Staged, txn
<1>2. doc' \in [Procs -> SoundDoc \cup {NoTicket}]
      /\ \A q \in Procs : doc[q] \in SoundDoc => doc'[q] \in SoundDoc
  BY DEF CrInv, ProcsOK
<1>3. ticket' \in [Procs -> Tickets]
  BY DEF CrInv, ProcsOK
<1>4. PICK what \in {"none", "save", "save_then_move", "move", "close_check", "close_load",
                    "close_render"} :
        /\ doing' = [doing EXCEPT ![p] = what]
        /\ what \in {"none", "move", "close_check", "close_load"} \/ doc'[p] \in SoundDoc
  OBVIOUS
<1>5. \A q \in Procs :
        doing'[q] \in {"save", "save_then_move", "close_render"} => doc'[q] \in SoundDoc
  <2> SUFFICES ASSUME NEW q \in Procs, doing'[q] \in {"save", "save_then_move", "close_render"}
               PROVE  doc'[q] \in SoundDoc
    OBVIOUS
  <2>1. CASE q = p
    BY <1>4, <2>1 DEF CrInv, ProcsOK
  <2>2. CASE q # p
    BY <1>2, <1>4, <2>2 DEF CrInv, ProcsOK
  <2> QED BY <2>1, <2>2
<1>6. /\ doing' \in [Procs -> {"none", "save", "save_then_move", "move", "close_check",
                              "close_load", "close_render"}]
      /\ seen' \in [Procs -> SUBSET Frs]
  BY <1>4 DEF CrInv, ProcsOK
<1>7. ProcsOK'
  BY <1>2, <1>3, <1>5, <1>6 DEF CrInv, ProcsOK, txn
<1> QED BY <1>1, <1>7 DEF CrInv

LEMMA ReturnInv ==
    ASSUME CrInv, NEW p \in Procs, UNCHANGED <<txn, gate1, ticket>>, Return(p),
           seen' \in {seen, [seen EXCEPT ![p] = gate1]}
    PROVE  CrInv'
<1>1. doing' = [doing EXCEPT ![p] = "none"] /\ doc' = [doc EXCEPT ![p] = NoTicket]
  BY DEF Return, Doing
<1>2. ProcsOK'
  BY <1>1 DEF CrInv, ProcsOK, txn
<1> QED BY <1>2 DEF CrInv, FileOK, Staged, txn

LEMMA MovedSound ==
    ASSUME FileOK, NEW p, NEW t \in Readable, Moved(p, t)
    PROVE  /\ Doing(p, "save")
           /\ \E d \in SoundDoc : doc' = [doc EXCEPT ![p] = d]
<1>1. PICK status \in Statuses \ {"OPEN", "CLOSED"} :
        doc' = [doc EXCEPT ![p] = [file[t] EXCEPT !.status = status]]
  BY DEF Moved
<1>2. file[t] \in SoundDoc
  BY ReadableSound
<1>3. [file[t] EXCEPT !.status = status] \in SoundDoc
  BY <1>2, WithStatus
<1> QED BY <1>1, <1>3 DEF Moved

LEMMA CommandInv ==
    ASSUME CrInv, NEW p \in Procs,
           \/ \E t \in Tickets : CrOpen(p, t) \/ CrUpdate(p, t) \/ CrMove(p, t) \/ CrClose(p, t)
           \/ CrMoveAfterSet(p) \/ CloseCheck(p) \/ CloseLoad(p) \/ Die(p)
    PROVE  CrInv'
<1> USE DEF manifest
<1>0. FileOK /\ DOMAIN doc = Procs
  BY DEF CrInv, ProcsOK
<1>1. ASSUME NEW t \in Tickets, CrOpen(p, t) PROVE CrInv'
  <2>1. [NoTicket EXCEPT !.status = "OPEN"] \in SoundDoc
    BY DEF NoTicket, SoundDoc, TicketDoc, Statuses
  <2> QED BY <1>0, <1>1, <2>1, MemoryInv DEF CrOpen, Run, Doing
<1>2. ASSUME NEW t \in Tickets, CrUpdate(p, t) PROVE CrInv'
  <2>1. file[t] \in SoundDoc /\ file[t].status \notin Terminal
    BY <1>0, <1>2, ReadableSound DEF CrUpdate
  <2>2. PICK d \in Edits(file[t]) : doc' = [doc EXCEPT ![p] = d]
    BY <1>2 DEF CrUpdate
  <2>3. d \in SoundDoc
    BY <2>1, EditsSound
  <2> QED BY <1>0, <1>2, <2>2, <2>3, MemoryInv DEF CrUpdate, Run, Doing
<1>3. ASSUME NEW t \in Tickets, CrMove(p, t) PROVE CrInv'
  <2>1. Doing(p, "save") /\ \E d \in SoundDoc : doc' = [doc EXCEPT ![p] = d]
    BY <1>0, <1>3, MovedSound DEF CrMove
  <2> QED BY <1>0, <1>3, <2>1, MemoryInv DEF CrMove, Run, Doing
<1>4. ASSUME NEW t \in Tickets, CrClose(p, t) PROVE CrInv'
  <2>1. file[t] \in SoundDoc
    BY <1>0, <1>4, ReadableSound DEF CrClose
  <2> QED BY <1>0, <1>4, <2>1, MemoryInv DEF CrClose, Run, Doing
<1>5. CASE CrMoveAfterSet(p)
  <2>1. CASE Return(p)
    BY <1>5, <2>1, ReturnInv DEF CrMoveAfterSet
  <2>2. CASE ticket[p] \in Readable /\ Moved(p, ticket[p])
    <3>1. Doing(p, "save") /\ \E d \in SoundDoc : doc' = [doc EXCEPT ![p] = d]
      BY <1>0, <2>2, MovedSound
    <3> QED BY <1>0, <1>5, <3>1, MemoryInv DEF CrMoveAfterSet, Doing
  <2> QED BY <1>5, <2>1, <2>2 DEF CrMoveAfterSet
<1>6. CASE CloseLoad(p)
  <2>1. CASE Return(p)
    BY <1>6, <2>1, ReturnInv DEF CloseLoad
  <2>2. CASE ~Return(p)
    <3>1. /\ ticket[p] \in Readable /\ Valid(file[ticket[p]], "CLOSED")
          /\ doc' = [doc EXCEPT ![p] = [file[ticket[p]] EXCEPT !.status = "CLOSED"]]
          /\ Doing(p, "close_render")
      BY <1>6, <2>2 DEF CloseLoad
    <3>2. [file[ticket[p]] EXCEPT !.status = "CLOSED"] \in SoundDoc
      BY <1>0, <3>1, ReadableSound, WithStatus, ClosingHasEvidence DEF Statuses
    <3> QED BY <1>0, <1>6, <3>1, <3>2, MemoryInv DEF CloseLoad, Doing
  <2> QED BY <2>1, <2>2
<1>7. CASE Die(p)
  BY <1>7, ReturnInv DEF Die
<1>8. CASE CloseCheck(p)
  <2>1. CASE Return(p)
    BY <1>8, <2>1, ReturnInv DEF CloseCheck
  <2>2. CASE Doing(p, "close_load") /\ UNCHANGED doc
    BY <1>8, <2>2, MemoryInv DEF CloseCheck, Doing
  <2> QED BY <1>8, <2>1, <2>2 DEF CloseCheck
<1> QED BY <1>1, <1>2, <1>3, <1>4, <1>5, <1>6, <1>7, <1>8

(***************************************************************************)
(* The steps of a transaction: it ends, or takes one step along its plan.  *)
(***************************************************************************)
LEMMA EndInv ==
    ASSUME CrInv, NEW p \in Procs, End(p), Staged(tmp'), FileOK',
           journal' \subseteq Files, UNCHANGED <<cr, manifest>>
    PROVE  CrInv'
<1>1. step' = [step EXCEPT ![p] = "none"] /\ plan' = [plan EXCEPT ![p] = <<>>]
      /\ done' = [done EXCEPT ![p] = 0]
  BY DEF End
<1>2. <<>> \in Plans /\ Len(<<>>) = 0
  BY DEF Plans
<1>3. plan' \in [Procs -> Plans] /\ done' \in [Procs -> 0..2]
      /\ step' \in [Procs -> {"none", "stage", "rename"}]
  BY <1>1, <1>2 DEF CrInv, ProcsOK
<1>4. ASSUME NEW q \in Procs PROVE done'[q] <= Len(plan'[q])
  <2>1. CASE q = p
    BY <1>1, <1>2, <2>1 DEF CrInv, ProcsOK
  <2>2. CASE q # p
    BY <1>1, <2>2 DEF CrInv, ProcsOK
  <2> QED BY <2>1, <2>2
<1>5. ProcsOK'
  BY <1>3, <1>4 DEF CrInv, ProcsOK, cr
<1> QED BY <1>5 DEF CrInv, Staged, manifest

LEMMA NextIndex ==
    ASSUME NEW i \in 0..2, NEW n \in {0, 2}, i < n
    PROVE  i + 1 \in 0..2 /\ i + 1 <= n
OBVIOUS

LEMMA AlongInv ==
    ASSUME CrInv, NEW p \in Procs, Staged(tmp'), FileOK', journal' \subseteq Files,
           UNCHANGED <<plan, cr, manifest>>,
           step' \in {step, [step EXCEPT ![p] = "rename"]},
           \/ done' = [done EXCEPT ![p] = 0]
           \/ done[p] < Len(plan[p]) /\ done' = [done EXCEPT ![p] = @ + 1]
    PROVE  CrInv'
<1>1. plan[p] \in Plans /\ done[p] \in 0..2 /\ Len(plan[p]) \in {0, 2}
  BY PlanFacts DEF CrInv, ProcsOK
<1>2. /\ plan \in [Procs -> Plans] /\ done \in [Procs -> 0..2]
      /\ step \in [Procs -> {"none", "stage", "rename"}]
      /\ \A q \in Procs : done[q] <= Len(plan[q])
  BY DEF CrInv, ProcsOK
<1>3. PICK n \in 0..2 : done' = [done EXCEPT ![p] = n] /\ n <= Len(plan[p])
  <2>1. CASE done' = [done EXCEPT ![p] = 0]
    BY <1>1, <2>1
  <2>2. CASE done[p] < Len(plan[p]) /\ done' = [done EXCEPT ![p] = @ + 1]
    <3>1. done[p] + 1 \in 0..2 /\ done[p] + 1 <= Len(plan[p])
      BY <1>1, <2>2, NextIndex
    <3> QED BY <2>2, <3>1
  <2> QED BY <2>1, <2>2
<1>4. done' \in [Procs -> 0..2] /\ step' \in [Procs -> {"none", "stage", "rename"}]
  BY <1>2, <1>3
<1>5. \A q \in Procs : done'[q] <= Len(plan'[q])
  BY <1>2, <1>3
<1>6. ProcsOK'
  BY <1>4, <1>5 DEF CrInv, ProcsOK, cr
<1> QED BY <1>6 DEF CrInv, Staged, manifest

LEMMA TransactInv ==
    ASSUME CrInv, NEW p \in Procs, Transact(p) \/ Kill(p), UNCHANGED <<cr, manifest>>
    PROVE  CrInv'
<1>0. /\ FileOK /\ Staged(tmp) /\ journal \subseteq Files /\ ProcsOK
      /\ plan[p] \in Plans /\ done[p] \in 0..2 /\ Len(plan[p]) \in {0, 2}
  BY PlanFacts DEF CrInv, ProcsOK
<1>f. ASSUME UNCHANGED file PROVE FileOK'
  BY <1>0, <1>f DEF FileOK
<1>1. CASE StageFile(p)
  <2> DEFINE w == plan[p][done[p] + 1]
  <2>1. done[p] + 1 \in 1..Len(plan[p])
    BY <1>0, <1>1 DEF StageFile
  <2>2. w.target \in Files /\ w.content \in Content(w.target)
    BY <1>0, <2>1, PlanFacts
  <2>3. CASE End(p)
    <3>1. tmp' \in CutShort(p, Cleaned(p, done[p])) \/ tmp' = [tmp EXCEPT ![w.target] = w.content]
      BY <1>1 DEF StageFile
    <3>2. Staged([tmp EXCEPT ![w.target] = w.content])
      <4> HIDE DEF w
      <4> QED BY <1>0, <2>2 DEF Staged
    <3>3. Staged(tmp')
      BY <1>0, <1>1, <3>1, <3>2, CleanedStaged, CutShortStaged DEF StageFile
    <3> QED BY <1>0, <1>f, <1>1, <2>3, <3>3, EndInv DEF StageFile
  <2>4. CASE ~End(p)
    <3>1. tmp' = [tmp EXCEPT ![w.target] = w.content]
      BY <1>1, <2>4 DEF StageFile
    <3>2. Staged(tmp')
      <4> HIDE DEF w
      <4> QED BY <1>0, <2>2, <3>1 DEF Staged
    <3> QED BY <1>0, <1>f, <1>1, <2>4, <3>2, AlongInv DEF StageFile
  <2> QED BY <2>3, <2>4
<1>2. CASE WriteJournal(p)
  <2>1. Targets(plan[p]) \subseteq Files
    BY <1>0, TargetsAreFiles
  <2>2. CASE End(p)
    <3>1. Staged(tmp') /\ journal' \subseteq Files
      BY <1>0, <1>2, <2>1, CleanedStaged DEF WriteJournal
    <3> QED BY <1>f, <1>2, <2>2, <3>1, EndInv DEF WriteJournal
  <2>3. CASE ~End(p)
    <3>1. Staged(tmp') /\ journal' \subseteq Files
      BY <1>0, <1>2, <2>1, <2>3 DEF WriteJournal
    <3> QED BY <1>f, <1>2, <2>3, <3>1, AlongInv DEF WriteJournal
  <2> QED BY <2>2, <2>3
<1>3. CASE Rename(p)
  <2> DEFINE f == plan[p][done[p] + 1].target
  <2>1. CASE tmp' = Cleaned(p, Len(plan[p])) /\ End(p) /\ UNCHANGED file
    <3>1. Staged(tmp') /\ FileOK' /\ journal' \subseteq Files
      BY <1>0, <1>f, <1>3, <2>1, CleanedStaged DEF Rename
    <3> QED BY <2>1, <3>1, EndInv
  <2>2. CASE /\ tmp[f] # NoTmp
             /\ file' = [file EXCEPT ![f] = tmp[f]]
             /\ tmp' = [tmp EXCEPT ![f] = NoTmp]
             /\ done' = [done EXCEPT ![p] = @ + 1]
             /\ UNCHANGED <<step, plan, spent>>
    <3>1. done[p] < Len(plan[p]) /\ f \in Files
      BY <1>0, <1>3, PlanFacts DEF Rename
    <3>2. /\ tmp[f] # NoTmp
          /\ file' = [file EXCEPT ![f] = tmp[f]]
          /\ tmp' = [tmp EXCEPT ![f] = NoTmp]
          /\ done' = [done EXCEPT ![p] = @ + 1]
          /\ UNCHANGED <<step, plan, journal>>
      BY <1>3, <2>2 DEF Rename
    <3> HIDE DEF f
    <3>3. tmp[f] \in Content(f)
      BY <1>0, <3>1, <3>2 DEF Staged
    <3>4. Staged(tmp')
      BY <1>0, <3>1, <3>2 DEF Staged
    <3>5. FileOK'
      BY <1>0, <3>1, <3>2, <3>3, FileNames DEF FileOK, Content
    <3> QED BY <1>0, <3>1, <3>2, <3>4, <3>5, AlongInv
  <2> QED BY <1>3, <2>1, <2>2 DEF Rename
<1>4. CASE DropJournal(p)
  BY <1>0, <1>f, <1>4, EndInv DEF DropJournal, Staged
<1>5. CASE Kill(p)
  <2>1. Staged(tmp')
    BY <1>0, <1>5, CutShortStaged DEF Kill
  <2> QED BY <1>0, <1>f, <1>5, <2>1, EndInv DEF Kill
<1> QED BY <1>1, <1>2, <1>3, <1>4, <1>5 DEF Transact

LEMMA RenderInv ==
    ASSUME CrInv, NEW p \in Procs, CloseRender(p)
    PROVE  CrInv'
<1>1. file[Log] \cup {ticket[p]} \in SUBSET Tickets /\ ticket[p] \in Tickets /\ doc[p] \in SoundDoc
  BY DEF CloseRender, CrInv, ProcsOK, FileOK
<1> DEFINE P == <<LogWrite(file[Log] \cup {ticket[p]}), TicketWrite(ticket[p], doc[p])>>
<1>2. P \in Plans /\ Len(P) = 2
  BY <1>1 DEF Plans
<1>3. /\ step' = [step EXCEPT ![p] = "stage"] /\ plan' = [plan EXCEPT ![p] = P]
      /\ done' = [done EXCEPT ![p] = 0] /\ doing' = [doing EXCEPT ![p] = "none"]
      /\ doc' = [doc EXCEPT ![p] = NoTicket]
      /\ UNCHANGED <<file, tmp, journal, ticket, seen, gate1>>
  BY DEF CloseRender, Begin, Return, Doing, manifest
<1> HIDE DEF P
<1>4. plan' \in [Procs -> Plans] /\ done' \in [Procs -> 0..2]
      /\ step' \in [Procs -> {"none", "stage", "rename"}]
  BY <1>2, <1>3 DEF CrInv, ProcsOK
<1>5. ASSUME NEW q \in Procs PROVE done'[q] <= Len(plan'[q])
  <2>1. CASE q = p
    BY <1>2, <1>3, <2>1 DEF CrInv, ProcsOK
  <2>2. CASE q # p
    BY <1>3, <2>2 DEF CrInv, ProcsOK
  <2> QED BY <2>1, <2>2
<1>6. ProcsOK'
  BY <1>3, <1>4, <1>5 DEF CrInv, ProcsOK
<1> QED BY <1>3, <1>6 DEF CrInv, FileOK, Staged

LEMMA CrStepInv == CrInv /\ [Next]_vars => CrInv'
<1> SUFFICES ASSUME CrInv, [Next]_vars PROVE CrInv'
  OBVIOUS
<1>1. CASE UNCHANGED vars
  BY <1>1 DEF vars, txn, cr, manifest, CrInv, FileOK, Staged, ProcsOK
<1>2. ASSUME NEW p \in Procs, Command(p) PROVE CrInv'
  BY <1>2, CommandInv, SaveInv, RenderInv, TransactInv DEF Command
<1>3. ASSUME NEW fr \in Frs, FinalizeGate1(fr) PROVE CrInv'
  BY <1>3 DEF FinalizeGate1, txn, cr, CrInv, FileOK, Staged, ProcsOK
<1> QED BY <1>1, <1>2, <1>3 DEF Next, Finished

LEMMA CrInductive == Spec => []CrInv
BY CrInitInv, CrStepInv, PTL DEF Spec

(***************************************************************************)
(* The documents, staged siblings and processes are well typed.            *)
(***************************************************************************)
THEOREM CrTypeCorrect == Spec => []CrTypeOK
<1>1. CrInv => CrTypeOK
  <2> SUFFICES ASSUME CrInv PROVE CrTypeOK
    OBVIOUS
  <2>1. ASSUME NEW p \in Procs PROVE done[p] \in 0..Len(plan[p])
    <3>1. Len(plan[p]) \in {0, 2}
      BY PlanFacts DEF CrInv, ProcsOK
    <3>2. done[p] \in 0..2 /\ done[p] <= Len(plan[p])
      BY DEF CrInv, ProcsOK
    <3> QED BY <3>1, <3>2
  <2>2. tmp[Log] \in (SUBSET Tickets) \cup {NoTmp}
        /\ \A t \in Tickets : tmp[t] \in SoundDoc \cup {Partial, NoTmp}
    BY FileNames DEF CrInv, Staged, Content
  <2> QED BY <2>1, <2>2, DocFacts DEF CrTypeOK, CrInv, FileOK, ProcsOK
<1> QED BY <1>1, CrInductive, PTL

(***************************************************************************)
(* A closed ticket carries its closure evidence and its FRs: for any       *)
(* number of commands that load, edit and write back the same ticket with  *)
(* no lock, of I/O errors, of kills and of leftover siblings, what         *)
(* validate_transition saw is what was written.                            *)
(***************************************************************************)
THEOREM ClosedHasEvidenceAlways == Spec => []ClosedHasEvidence
<1>1. CrInv => ClosedHasEvidence
  BY ReadableSound DEF CrInv, ClosedHasEvidence, Closed, SoundDoc
<1> QED BY <1>1, CrInductive, PTL
=============================================================================
