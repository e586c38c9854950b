-------------------------- MODULE TicketOrderProofs --------------------------
(***************************************************************************)
(* What the change requests promise when their commands do not overlap:    *)
(* one process runs any number of them, with I/O errors and kills.  None   *)
(* of it holds for two processes, because nothing locks a ticket between   *)
(* its loading and its saving.  SerialInv says that what a command decided *)
(* on one load still holds at its later steps (InHand), and that a closing *)
(* ticket goes through its transaction as it was planned (InFlight).       *)
(***************************************************************************)
EXTENDS ChangeRequestsProofs

OneProcess == \A p, q \in Procs : p = q

Verified(t) == t \in Readable /\ file[t].status = "VERIFIED"

\* What a save outside cr-close does to the ticket on disk.
Follows(t, d) ==
    /\ d.status # "CLOSED"
    /\ \/ t \notin Existing /\ d.status = "OPEN"
       \/ /\ t \in Readable
          /\ file[t].status \notin Terminal
          /\ \/ d.status \in {file[t].status, "REJECTED"}
             \/ file[t].status \in DOMAIN Successor /\ d.status = Successor[file[t].status]

InHand(p) ==
    /\ doing[p] # "none" => step[p] = "none"
    /\ doing[p] \in {"save", "save_then_move"} => Follows(ticket[p], doc[p])
    /\ doing[p] = "close_check" => ticket[p] \in Readable /\ doc[p] = file[ticket[p]]
    /\ doing[p] = "close_load" => Verified(ticket[p]) /\ file[ticket[p]].frs \subseteq seen[p]
    /\ doing[p] = "close_render" =>
          Verified(ticket[p]) /\ doc[p].status = "CLOSED" /\ doc[p].frs \subseteq seen[p]

InFlight(p) ==
    step[p] # "none" =>
      \E d \in SoundDoc :
        LET t == ticket[p] IN
        /\ d.status = "CLOSED" /\ d.frs \subseteq seen[p]
        /\ plan[p] = <<LogWrite(file[Log] \cup {t}), TicketWrite(t, d)>>
        /\ step[p] = "stage" =>
              /\ Verified(t)
              /\ done[p] >= 1 => tmp[Log] = file[Log] \cup {t}
              /\ done[p] >= 2 => tmp[t] = d
        /\ step[p] = "rename" =>
              /\ journal = {Log, t}
              /\ done[p] = 0 => tmp[Log] = file[Log] \cup {t}
              /\ done[p] >= 1 => t \in file[Log]
              /\ done[p] <= 1 => tmp[t] = d /\ Verified(t)
              /\ done[p] >= 2 => t \in Closed

SerialInv ==
    /\ \A p \in Procs : InHand(p) /\ InFlight(p)
    /\ ClosedIsLogged

(***************************************************************************)
(* The ways one step changes the files: a save, a row, a closing.          *)
(***************************************************************************)
Saves(t, d) == Follows(t, d) /\ file' = [file EXCEPT ![t] = d]

Lists(t) == Verified(t) /\ file' = [file EXCEPT ![Log] = @ \cup {t}]

Closes(t, d) ==
    /\ Verified(t) /\ t \in file[Log]
    /\ d.status = "CLOSED"
    /\ \E p \in Procs : ticket[p] = t /\ d.frs \subseteq seen[p]
    /\ file' = [file EXCEPT ![t] = d]

FileStep ==
    \/ UNCHANGED file
    \/ \E t \in Tickets : Lists(t) \/ \E d \in SoundDoc : Saves(t, d) \/ Closes(t, d)

-----------------------------------------------------------------------------
(***************************************************************************)
(* A process that neither works on a document nor is in a transaction.     *)
(***************************************************************************)
LEMMA AtRest ==
    ASSUME NEW p \in Procs, doing'[p] \in {"none", "move"}, step'[p] = "none"
    PROVE  InHand(p)' /\ InFlight(p)'
BY DEF InHand, InFlight

LEMMA MovedFollows ==
    ASSUME CrInv, NEW p \in Procs, NEW t \in Readable, Moved(p, t), UNCHANGED file
    PROVE  Doing(p, "save") /\ Follows(t, doc'[p])
<1>1. PICK status \in Statuses \ {"OPEN", "CLOSED"} :
        /\ Valid(file[t], status)
        /\ doc' = [doc EXCEPT ![p] = [file[t] EXCEPT !.status = status]]
  BY DEF Moved
<1>2. file[t] \in SoundDoc /\ doc'[p].status = status
  BY <1>1, ReadableSound, WithStatus DEF CrInv, ProcsOK
<1>3. Follows(t, doc'[p])
  BY <1>1, <1>2 DEF Follows, Valid
<1> QED BY <1>1, <1>3 DEF Moved

(***************************************************************************)
(* Commands that decide: nothing is written.                               *)
(***************************************************************************)
LEMMA CommandOrder ==
    ASSUME CrInv, NEW p \in Procs, InHand(p), InFlight(p),
           \/ \E t \in Tickets : CrOpen(p, t) \/ CrUpdate(p, t) \/ CrMove(p, t) \/ CrClose(p, t)
           \/ CrMoveAfterSet(p) \/ CloseCheck(p) \/ CloseLoad(p) \/ CloseRender(p) \/ Die(p)
    PROVE  InHand(p)' /\ InFlight(p)' /\ UNCHANGED file
<1> USE DEF Doing, Return
<1>0. /\ doing \in [Procs -> {"none", "save", "save_then_move", "move", "close_check", "close_load",
                            "close_render"}]
      /\ seen \in [Procs -> SUBSET Frs]
      /\ doc \in [Procs -> SoundDoc \cup {NoTicket}] /\ ticket \in [Procs -> Tickets]
      /\ step \in [Procs -> {"none", "stage", "rename"}]
      /\ plan \in [Procs -> Plans] /\ done \in [Procs -> 0..2] /\ FileOK
  BY DEF CrInv, ProcsOK
<1>s. ASSUME UNCHANGED txn, step[p] = "none",
             doing'[p] \in {"save", "save_then_move"}, Follows(ticket'[p], doc'[p])
      PROVE  InHand(p)' /\ InFlight(p)' /\ UNCHANGED file
  <2>1. Follows(ticket[p], doc[p])' /\ UNCHANGED file /\ step'[p] = "none"
    BY <1>s DEF Follows, Readable, Existing, txn
  <2> QED BY <1>s, <2>1 DEF InHand, InFlight
<1>1. ASSUME NEW t \in Tickets, CrOpen(p, t) PROVE InHand(p)' /\ InFlight(p)' /\ UNCHANGED file
  <2>1. t \notin Existing
    BY <1>1 DEF CrOpen, Tickets
  <2>2. doc'[p].status = "OPEN" /\ ticket'[p] = t /\ doing'[p] = "save" /\ step[p] = "none"
    BY <1>0, <1>1 DEF CrOpen, Run, Idle, NoTicket
  <2> QED BY <1>1, <1>s, <2>1, <2>2 DEF CrOpen, Follows
<1>2. ASSUME NEW t \in Tickets, CrUpdate(p, t) PROVE InHand(p)' /\ InFlight(p)' /\ UNCHANGED file
  <2>1. file[t] \in SoundDoc /\ file[t].status \notin Terminal /\ t \in Readable
    BY <1>0, <1>2, ReadableSound DEF CrUpdate
  <2>2. PICK d \in Edits(file[t]) : doc' = [doc EXCEPT ![p] = d]
    BY <1>2 DEF CrUpdate
  <2>3. doc'[p].status = file[t].status
    BY <1>0, <2>1, <2>2, EditsSound
  <2>4. ticket'[p] = t /\ doing'[p] \in {"save", "save_then_move"} /\ step[p] = "none"
    BY <1>0, <1>2 DEF CrUpdate, Run, Idle
  <2> QED BY <1>2, <1>s, <2>1, <2>3, <2>4 DEF CrUpdate, Follows, Terminal
<1>3. ASSUME NEW t \in Tickets, CrMove(p, t) PROVE InHand(p)' /\ InFlight(p)' /\ UNCHANGED file
  <2>1. UNCHANGED txn /\ step[p] = "none" /\ ticket'[p] = t /\ t \in Readable /\ Moved(p, t)
    BY <1>0, <1>3 DEF CrMove, Run, Idle
  <2>2. doing'[p] = "save" /\ Follows(t, doc'[p])
    BY <1>0, <2>1, MovedFollows DEF txn
  <2> QED BY <1>s, <2>1, <2>2
<1>4. ASSUME NEW t \in Tickets, CrClose(p, t) PROVE InHand(p)' /\ InFlight(p)' /\ UNCHANGED file
  <2>1. /\ UNCHANGED txn /\ step[p] = "none" /\ ticket'[p] = t /\ doing'[p] = "close_check"
        /\ t \in Readable /\ doc'[p] = file[t]
    BY <1>0, <1>4 DEF CrClose, Run, Idle
  <2> QED BY <2>1 DEF InHand, InFlight, Readable, Existing, txn
<1>5. CASE CrMoveAfterSet(p)
  <2>1. UNCHANGED txn /\ UNCHANGED file /\ step[p] = "none" /\ ticket' = ticket
    BY <1>5 DEF CrMoveAfterSet, InHand, txn
  <2>2. CASE Return(p)
    BY <1>0, <2>1, <2>2, AtRest DEF txn
  <2>3. CASE ticket[p] \in Readable /\ Moved(p, ticket[p])
    <3>1. doing'[p] = "save" /\ Follows(ticket[p], doc'[p])
      BY <1>0, <2>1, <2>3, MovedFollows
    <3> QED BY <1>s, <2>1, <3>1
  <2> QED BY <1>5, <2>2, <2>3 DEF CrMoveAfterSet
<1>6. CASE CloseLoad(p)
  <2>1. /\ UNCHANGED txn /\ UNCHANGED file /\ step[p] = "none" /\ UNCHANGED <<ticket, seen>>
        /\ Verified(ticket[p]) /\ file[ticket[p]].frs \subseteq seen[p]
    BY <1>6 DEF CloseLoad, InHand, txn
  <2>2. CASE Return(p)
    BY <1>0, <2>1, <2>2, AtRest DEF txn
  <2>3. CASE ~Return(p)
    <3>1. /\ doc' = [doc EXCEPT ![p] = [file[ticket[p]] EXCEPT !.status = "CLOSED"]]
          /\ Doing(p, "close_render") /\ Valid(file[ticket[p]], "CLOSED")
      BY <1>6, <2>3 DEF CloseLoad
    <3>2. file[ticket[p]] \in SoundDoc
      BY <1>0, <2>1, ReadableSound DEF Verified
    <3>3. doc'[p].status = "CLOSED" /\ doc'[p].frs = file[ticket[p]].frs
      BY <1>0, <2>1, <3>1, <3>2, WithStatus, ClosingHasEvidence DEF Statuses
    <3>4. doing'[p] = "close_render" /\ step'[p] = "none" /\ Verified(ticket[p])'
      BY <1>0, <2>1, <3>1 DEF Verified, Readable, Existing, txn
    <3> QED BY <2>1, <3>3, <3>4 DEF InHand, InFlight
  <2> QED BY <2>2, <2>3
<1>7. CASE CloseRender(p)
  <2>1. /\ Verified(ticket[p]) /\ doc[p].status = "CLOSED" /\ doc[p].frs \subseteq seen[p]
        /\ doc[p] \in SoundDoc
        /\ step[p] = "none"
    BY <1>7 DEF CloseRender, InHand, CrInv, ProcsOK
  <2>2. /\ step' = [step EXCEPT ![p] = "stage"] /\ done' = [done EXCEPT ![p] = 0]
        /\ plan' = [plan EXCEPT ![p] = <<LogWrite(file[Log] \cup {ticket[p]}),
                                         TicketWrite(ticket[p], doc[p])>>]
        /\ doing' = [doing EXCEPT ![p] = "none"]
        /\ UNCHANGED <<file, tmp, ticket, seen>>
    BY <1>7 DEF CloseRender, Begin
  <2>3. InHand(p)'
    BY <1>0, <2>2 DEF InHand
  <2>4. Verified(ticket[p])'
    BY <2>1, <2>2 DEF Verified, Readable, Existing
  <2>5. step'[p] = "stage" /\ done'[p] = 0
        /\ plan'[p] = <<LogWrite(file'[Log] \cup {ticket'[p]}), TicketWrite(ticket'[p], doc[p])>>
    BY <1>0, <2>2
  <2>6. doc[p].frs \subseteq seen'[p]
    BY <2>1, <2>2
  <2>7. InFlight(p)'
    BY <2>1, <2>4, <2>5, <2>6 DEF InFlight
  <2> QED BY <2>2, <2>3, <2>7
<1>8. CASE Die(p)
  BY <1>0, <1>8, AtRest DEF Die, InHand, txn
<1>9. CASE CloseCheck(p)
  <2>1. /\ UNCHANGED txn /\ UNCHANGED file /\ step[p] = "none" /\ ticket' = ticket
        /\ ticket[p] \in Readable /\ doc[p] = file[ticket[p]] /\ seen'[p] = gate1
    BY <1>0, <1>9 DEF CloseCheck, InHand, txn
  <2>2. CASE Return(p)
    BY <1>0, <2>1, <2>2, AtRest DEF txn
  <2>3. CASE Closable(doc[p], gate1) /\ Doing(p, "close_load")
    <3>1. /\ doing'[p] = "close_load" /\ step'[p] = "none"
          /\ Verified(ticket[p]) /\ file[ticket[p]].frs \subseteq gate1
      BY <1>0, <2>1, <2>3 DEF Closable, Verified, txn
    <3> QED BY <2>1, <3>1 DEF InHand, InFlight, Verified, Readable, Existing
  <2> QED BY <1>9, <2>2, <2>3 DEF CloseCheck
<1> QED BY <1>1, <1>2, <1>3, <1>4, <1>5, <1>6, <1>7, <1>8, <1>9

LEMMA SaveOrder ==
    ASSUME CrInv, NEW p \in Procs, InHand(p), Save(p)
    PROVE  InHand(p)' /\ InFlight(p)' /\ FileStep
<1>1. doing'[p] \in {"none", "move"} /\ step'[p] = "none"
  BY DEF Save, Return, Doing, InHand, CrInv, ProcsOK
<1>2. Follows(ticket[p], doc[p]) /\ ticket[p] \in Tickets /\ doc[p] \in SoundDoc
  BY DEF Save, InHand, CrInv, ProcsOK
<1>3. UNCHANGED file \/ file' = [file EXCEPT ![ticket[p]] = doc[p]]
  BY DEF Save
<1>4. FileStep
  BY <1>2, <1>3 DEF FileStep, Saves
<1> QED BY <1>1, <1>4, AtRest

(***************************************************************************)
(* The transaction of a closing ticket, one step per action.               *)
(***************************************************************************)
LEMMA TransactOrder ==
    ASSUME CrInv, NEW p \in Procs, InHand(p), InFlight(p), Transact(p) \/ Kill(p), UNCHANGED cr
    PROVE  InHand(p)' /\ InFlight(p)' /\ FileStep
<1> DEFINE t == ticket[p]
<1>0. /\ step \in [Procs -> {"none", "stage", "rename"}] /\ plan \in [Procs -> Plans]
      /\ done \in [Procs -> 0..2] /\ done[p] <= Len(plan[p]) /\ FileOK /\ Staged(tmp)
      /\ t \in Tickets /\ t # Log /\ t \in Files /\ Log \in Files
      /\ doing[p] = "none" /\ UNCHANGED <<doing, doc, ticket, seen>>
  BY FileNames DEF CrInv, ProcsOK, InHand, Transact, StageFile, WriteJournal, Rename, DropJournal,
     Kill, cr
<1>e. ASSUME End(p), UNCHANGED file PROVE InHand(p)' /\ InFlight(p)' /\ FileStep
  BY <1>0, <1>e, AtRest DEF End, FileStep
<1>h. InHand(p)'
  BY <1>0 DEF InHand
<1>1. step[p] # "none"
  BY DEF Transact, StageFile, WriteJournal, Rename, DropJournal, Kill
<1>2. PICK d \in SoundDoc :
        /\ d.status = "CLOSED" /\ d.frs \subseteq seen[p]
        /\ plan[p] = <<LogWrite(file[Log] \cup {t}), TicketWrite(t, d)>>
        /\ step[p] = "stage" =>
              /\ Verified(t)
              /\ done[p] >= 1 => tmp[Log] = file[Log] \cup {t}
              /\ done[p] >= 2 => tmp[t] = d
        /\ step[p] = "rename" =>
              /\ journal = {Log, t}
              /\ done[p] = 0 => tmp[Log] = file[Log] \cup {t}
              /\ done[p] >= 1 => t \in file[Log]
              /\ done[p] <= 1 => tmp[t] = d /\ Verified(t)
              /\ done[p] >= 2 => t \in Closed
  BY <1>1 DEF InFlight
<1>3. /\ Len(plan[p]) = 2
      /\ plan[p][1].target = Log /\ plan[p][1].content = file[Log] \cup {t}
      /\ plan[p][2].target = t /\ plan[p][2].content = d
  BY <1>2 DEF LogWrite, TicketWrite
<1>4. CASE StageFile(p)
  <2> DEFINE w == plan[p][done[p] + 1]
  <2>1. CASE End(p)
    BY <1>4, <1>e, <2>1 DEF StageFile
  <2>2. CASE ~End(p)
    <3>1. /\ step[p] = "stage" /\ done[p] \in {0, 1} /\ UNCHANGED <<step, plan, file>>
          /\ tmp' = [tmp EXCEPT ![w.target] = w.content] /\ done' = [done EXCEPT ![p] = @ + 1]
      BY <1>0, <1>3, <1>4, <2>2 DEF StageFile
    <3>2. Verified(t)'
      BY <1>2, <3>1, <1>0 DEF Verified, Readable, Existing
    <3>3. CASE done[p] = 0
      <4>1. tmp'[Log] = file[Log] \cup {t} /\ done'[p] = 1
        BY <1>0, <1>3, <3>1, <3>3 DEF Staged
      <4> QED BY <1>0, <1>2, <1>h, <3>1, <3>2, <4>1 DEF InFlight, FileStep
    <3>4. CASE done[p] = 1
      <4>1. tmp'[Log] = file[Log] \cup {t} /\ tmp'[t] = d /\ done'[p] = 2
        BY <1>0, <1>2, <1>3, <3>1, <3>4 DEF Staged
      <4> QED BY <1>0, <1>2, <1>h, <3>1, <3>2, <4>1 DEF InFlight, FileStep
    <3> QED BY <3>1, <3>3, <3>4
  <2> QED BY <2>1, <2>2
<1>5. CASE WriteJournal(p)
  <2>1. CASE End(p)
    BY <1>5, <1>e, <2>1 DEF WriteJournal
  <2>2. CASE ~End(p)
    <3>1. /\ step[p] = "stage" /\ done[p] = 2 /\ UNCHANGED <<tmp, plan, file>>
          /\ step'[p] = "rename" /\ done'[p] = 0
      BY <1>0, <1>3, <1>5, <2>2 DEF WriteJournal
    <3>2. Verified(t)' /\ tmp'[Log] = file[Log] \cup {t} /\ tmp'[t] = d
      BY <1>0, <1>2, <3>1 DEF Verified, Readable, Existing
    <3>3. journal' = {Log, t}
      <4>1. journal' = {plan[p][i].target : i \in DOMAIN plan[p]}
        BY <1>5, <2>2 DEF WriteJournal, Targets
      <4>2. DOMAIN plan[p] = {1, 2}
        BY <1>2
      <4> QED BY <1>3, <4>1, <4>2
    <3> QED BY <1>0, <1>2, <1>h, <3>1, <3>2, <3>3 DEF InFlight, FileStep
  <2> QED BY <2>1, <2>2
<1>6. CASE Rename(p)
  <2> DEFINE f == plan[p][done[p] + 1].target
  <2>1. CASE tmp' = Cleaned(p, Len(plan[p])) /\ End(p) /\ UNCHANGED file
    BY <1>e, <2>1
  <2>2. CASE /\ tmp[f] # NoTmp
             /\ file' = [file EXCEPT ![f] = tmp[f]]
             /\ tmp' = [tmp EXCEPT ![f] = NoTmp]
             /\ done' = [done EXCEPT ![p] = @ + 1]
             /\ UNCHANGED <<step, plan, spent>>
    <3>1. step[p] = "rename" /\ done[p] \in {0, 1}
      BY <1>0, <1>3, <1>6 DEF Rename
    <3>2. CASE done[p] = 0
      <4>1. /\ file' = [file EXCEPT ![Log] = file[Log] \cup {t}]
            /\ tmp'[t] = tmp[t] /\ done'[p] = 1
        <5>1. f = Log /\ done[p] + 1 = 1
          BY <1>3, <3>2
        <5>2. tmp[Log] = file[Log] \cup {t}
          BY <1>2, <3>1, <3>2
        <5>3. done'[p] = 1
          BY <1>0, <2>2, <5>1
        <5>4. tmp'[t] = tmp[t]
          BY <1>0, <2>2, <5>1 DEF Staged
        <5> QED BY <2>2, <5>1, <5>2, <5>3, <5>4
      <4>2. Verified(t) /\ tmp[t] = d
        BY <1>2, <3>1, <3>2
      <4>3. FileStep
        BY <1>0, <4>1, <4>2 DEF FileStep, Lists
      <4>4. file'[Log] = file[Log] \cup {t} /\ \A u \in Tickets : file'[u] = file[u]
        BY <1>0, <4>1, FileNames DEF FileOK
      <4>5. Verified(t)'
        BY <1>0, <4>2, <4>4 DEF Verified, Readable, Existing
      <4>6. file'[Log] \cup {t} = file[Log] \cup {t} /\ t \in file'[Log]
        BY <4>4
      <4>7. plan'[p] = <<LogWrite(file'[Log] \cup {t}), TicketWrite(t, d)>>
        BY <1>2, <2>2, <4>6
      <4>8. InFlight(p)'
        <5>1. step'[p] = "rename" /\ ticket'[p] = t /\ d.frs \subseteq seen'[p]
          BY <1>0, <1>2, <2>2, <3>1
        <5>2. tmp'[t] = d /\ done'[p] = 1
          BY <4>1, <4>2
        <5> HIDE DEF t
        <5>3. journal' = {Log, t}
          BY <1>2, <1>6, <3>1 DEF Rename
        <5> QED BY <1>2, <4>5, <4>6, <4>7, <5>1, <5>2, <5>3 DEF InFlight, t
      <4> QED BY <1>h, <4>3, <4>8
    <3>3. CASE done[p] = 1
      <4>1. file' = [file EXCEPT ![t] = d] /\ done'[p] = 2
        <5>1. f = t /\ done[p] + 1 = 2
          BY <1>3, <3>3
        <5>2. tmp[t] = d
          BY <1>2, <3>1, <3>3
        <5>3. done'[p] = 2
          BY <1>0, <2>2, <5>1
        <5> QED BY <2>2, <5>1, <5>2, <5>3
      <4>2. Verified(t) /\ t \in file[Log]
        BY <1>2, <3>1, <3>3
      <4>3. FileStep
        BY <1>0, <1>2, <4>1, <4>2 DEF FileStep, Closes
      <4>4. file'[Log] = file[Log]
        BY <1>0, <4>1 DEF FileOK
      <4>5. InFlight(p)'
        <5>1. step'[p] = "rename" /\ ticket'[p] = t /\ done'[p] = 2 /\ d.frs \subseteq seen'[p]
          BY <1>0, <1>2, <2>2, <3>1, <4>1
        <5>2. plan'[p] = <<LogWrite(file'[Log] \cup {t}), TicketWrite(t, d)>> /\ t \in file'[Log]
          BY <1>2, <2>2, <4>2, <4>4
        <5>3. journal' = {Log, t}
          BY <1>2, <1>6, <3>1 DEF Rename
        <5>4. (t \in Closed)'
          <6>1. file'[t] = d /\ d # Partial /\ d # NoTicket
            BY <1>0, <4>1, DocFacts DEF FileOK
          <6> QED BY <1>0, <1>2, <6>1 DEF Closed, Readable, Existing
        <5> QED BY <1>2, <5>1, <5>2, <5>3, <5>4 DEF InFlight
      <4> QED BY <1>h, <4>3, <4>5
    <3> QED BY <3>1, <3>2, <3>3
  <2> QED BY <1>6, <2>1, <2>2 DEF Rename
<1>7. CASE DropJournal(p) \/ Kill(p)
  BY <1>7, <1>e DEF DropJournal, Kill
<1> QED BY <1>4, <1>5, <1>6, <1>7 DEF Transact

-----------------------------------------------------------------------------
(***************************************************************************)
(* What the three ways of changing the files do to the readable tickets,   *)
(* to the closed ones and to what a reader is shown.                       *)
(***************************************************************************)
Shown == [t \in Tickets |-> IF t \in Readable THEN file[t].status ELSE "none"]

LEMMA TicketWritten ==
    ASSUME CrInv, NEW t \in Tickets, NEW d \in SoundDoc, file' = [file EXCEPT ![t] = d]
    PROVE  /\ file'[Log] = file[Log]
           /\ file'[t] = d
           /\ \A u \in Tickets \ {t} : file'[u] = file[u]
           /\ Readable' = Readable \cup {t}
           /\ Shown' = [Shown EXCEPT ![t] = d.status]
<1>1. /\ file'[Log] = file[Log] /\ file'[t] = d
      /\ \A u \in Tickets \ {t} : file'[u] = file[u]
  BY FileNames DEF CrInv, FileOK
<1>2. d # Partial /\ d # NoTicket
  BY DocFacts
<1>3. Readable' = Readable \cup {t}
  BY <1>1, <1>2 DEF Readable, Existing
<1>4. ASSUME NEW u \in Tickets
      PROVE  Shown'[u] = IF u = t THEN d.status ELSE Shown[u]
  BY <1>1, <1>3, <1>4 DEF Shown
<1>5. Shown' = [Shown EXCEPT ![t] = d.status]
  BY <1>4 DEF Shown
<1> QED BY <1>1, <1>3, <1>5

LEMMA LogWritten ==
    ASSUME CrInv, NEW rows, file' = [file EXCEPT ![Log] = rows]
    PROVE  /\ file'[Log] = rows
           /\ \A u \in Tickets : file'[u] = file[u]
           /\ Readable' = Readable
           /\ Shown' = Shown
<1>1. file'[Log] = rows /\ \A u \in Tickets : file'[u] = file[u]
  BY FileNames DEF CrInv, FileOK
<1>2. Readable' = Readable
  BY <1>1 DEF Readable, Existing
<1> QED BY <1>1, <1>2 DEF Shown, Readable, Existing

LEMMA FileStepKeeps ==
    ASSUME CrInv, ClosedIsLogged, FileStep
    PROVE  ClosedIsLogged'
<1>1. CASE UNCHANGED file
  BY <1>1 DEF ClosedIsLogged, Closed, Readable, Existing
<1>2. ASSUME NEW t \in Tickets, Lists(t) PROVE ClosedIsLogged'
  <2>1. /\ file'[Log] = file[Log] \cup {t} /\ Readable' = Readable
        /\ \A u \in Tickets : file'[u] = file[u]
    BY <1>2, LogWritten DEF Lists
  <2>2. Closed' = Closed
    BY <2>1 DEF Closed, Readable, Existing
  <2> QED BY <2>1, <2>2 DEF ClosedIsLogged
<1>3. ASSUME NEW t \in Tickets, NEW d \in SoundDoc, Saves(t, d)
      PROVE  ClosedIsLogged' /\ Closed' \subseteq Closed
  <2>1. d.status # "CLOSED" /\ file' = [file EXCEPT ![t] = d]
    BY <1>3 DEF Saves, Follows
  <2>2. \A u \in Closed' : u \in Closed /\ u # t
    BY <2>1, TicketWritten DEF Closed, Readable, Existing
  <2> QED BY <2>1, <2>2, TicketWritten DEF ClosedIsLogged
<1>4. ASSUME NEW t \in Tickets, NEW d \in SoundDoc, Closes(t, d)
      PROVE  ClosedIsLogged'
  <2>1. t \in file[Log] /\ file' = [file EXCEPT ![t] = d]
    BY <1>4 DEF Closes
  <2>2. \A u \in Closed' : u \in Closed \/ u = t
    BY <2>1, TicketWritten DEF Closed, Readable, Existing
  <2> QED BY <2>1, <2>2, TicketWritten DEF ClosedIsLogged
<1> QED BY <1>1, <1>2, <1>3, <1>4 DEF FileStep

(***************************************************************************)
(* A ticket turns CLOSED only by the rename of a closing whose checklist   *)
(* saw its FRs.                                                            *)
(***************************************************************************)
WasGated ==
    \A t \in Closed' \ Closed : \E p \in Procs : ticket[p] = t /\ file'[t].frs \subseteq seen[p]

LEMMA FileStepGated ==
    ASSUME CrInv, FileStep
    PROVE  WasGated
<1>1. CASE UNCHANGED file
  BY <1>1 DEF WasGated, Closed, Readable, Existing
<1>2. ASSUME NEW t \in Tickets, Lists(t) PROVE WasGated
  <2>1. Readable' = Readable /\ \A u \in Tickets : file'[u] = file[u]
    BY <1>2, LogWritten DEF Lists
  <2> QED BY <2>1 DEF WasGated, Closed, Readable, Existing
<1>3. ASSUME NEW t \in Tickets, NEW d \in SoundDoc, Saves(t, d) PROVE WasGated
  <2>1. d.status # "CLOSED" /\ file' = [file EXCEPT ![t] = d]
    BY <1>3 DEF Saves, Follows
  <2> QED BY <2>1, TicketWritten DEF WasGated, Closed, Readable, Existing
<1>4. ASSUME NEW t \in Tickets, NEW d \in SoundDoc, Closes(t, d) PROVE WasGated
  <2>1. /\ file' = [file EXCEPT ![t] = d]
        /\ \E p \in Procs : ticket[p] = t /\ d.frs \subseteq seen[p]
    BY <1>4 DEF Closes
  <2>2. file'[t] = d /\ \A u \in Closed' : u \in Closed \/ u = t
    BY <2>1, TicketWritten DEF Closed, Readable, Existing
  <2> QED BY <2>1, <2>2 DEF WasGated
<1> QED BY <1>1, <1>2, <1>3, <1>4 DEF FileStep

LEMMA FileStepFinal ==
    ASSUME CrInv, FileStep, NEW t \in Readable, file[t].status \in Terminal
    PROVE  file'[t] = file[t]
<1>1. t \in Tickets
  BY DEF Readable, Existing
<1>2. ASSUME NEW u \in Tickets, Lists(u) PROVE file'[t] = file[t]
  BY <1>1, <1>2, LogWritten DEF Lists
<1>3. ASSUME NEW u \in Tickets, NEW d \in SoundDoc, Saves(u, d) \/ Closes(u, d)
      PROVE  file'[t] = file[t]
  <2>1. u # t /\ file' = [file EXCEPT ![u] = d]
    BY <1>3 DEF Saves, Closes, Follows, Verified, Terminal, Readable
  <2> QED BY <1>1, <2>1, TicketWritten
<1> QED BY <1>2, <1>3 DEF FileStep

LEMMA SerialFrame ==
    ASSUME SerialInv, UNCHANGED <<txn, cr>>
    PROVE  SerialInv' /\ FileStep
<1>1. /\ UNCHANGED <<file, tmp, journal, step, plan, done>>
      /\ UNCHANGED <<doing, doc, ticket, seen>>
  BY DEF txn, cr
<1>2. Readable' = Readable /\ Closed' = Closed
  BY <1>1 DEF Closed, Readable, Existing
<1>3. ASSUME NEW p \in Procs PROVE InHand(p)' /\ InFlight(p)'
  <2>1. InHand(p)'
    BY <1>1, <1>2 DEF SerialInv, InHand, Follows, Verified, Existing
  <2>2. InFlight(p)'
    BY <1>1, <1>2 DEF SerialInv, InFlight, Verified
  <2> QED BY <2>1, <2>2
<1> QED BY <1>1, <1>2, <1>3 DEF SerialInv, ClosedIsLogged, FileStep

LEMMA SerialStep ==
    ASSUME OneProcess, CrInv, SerialInv, [Next]_vars
    PROVE  SerialInv' /\ FileStep
<1>1. CASE UNCHANGED vars
  BY <1>1, SerialFrame DEF vars
<1>2. ASSUME NEW p \in Procs, Command(p) PROVE SerialInv' /\ FileStep
  <2>1. InHand(p) /\ InFlight(p) /\ ClosedIsLogged
    BY DEF SerialInv
  <2>2. InHand(p)' /\ InFlight(p)' /\ FileStep
    <3>1. CASE \/ \E t \in Tickets :
                    CrOpen(p, t) \/ CrUpdate(p, t) \/ CrMove(p, t) \/ CrClose(p, t)
               \/ CrMoveAfterSet(p) \/ CloseCheck(p) \/ CloseLoad(p) \/ CloseRender(p) \/ Die(p)
      BY <2>1, <3>1, CommandOrder DEF FileStep
    <3>2. CASE Save(p)
      BY <2>1, <3>2, SaveOrder
    <3>3. CASE (Transact(p) \/ Kill(p)) /\ UNCHANGED <<cr, manifest>>
      BY <2>1, <3>3, TransactOrder
    <3> QED BY <1>2, <3>1, <3>2, <3>3 DEF Command
  <2>3. \A q \in Procs : InHand(q)' /\ InFlight(q)'
    BY <2>2 DEF OneProcess
  <2> QED BY <2>1, <2>2, <2>3, FileStepKeeps DEF SerialInv
<1>3. ASSUME NEW fr \in Frs, FinalizeGate1(fr) PROVE SerialInv' /\ FileStep
  BY <1>3, SerialFrame DEF FinalizeGate1
<1> QED BY <1>1, <1>2, <1>3 DEF Next, Finished

LEMMA SerialInit == Init => SerialInv
<1> SUFFICES ASSUME Init PROVE SerialInv
  OBVIOUS
<1>1. \A p \in Procs : InHand(p) /\ InFlight(p)
  BY DEF Init, TxnInit, InHand, InFlight
<1>2. \A t \in Tickets : file[t] = StartTicket(t)
  BY FileNames DEF Init
<1>3. \A t \in Closed : StartStatus[t] = "CLOSED"
  BY <1>2, StartTicketSound DEF Closed, Readable, Existing
<1>4. Closed \subseteq {t \in Tickets : StartStatus[t] = "CLOSED"}
  BY <1>3 DEF Closed, Readable, Existing
<1>5. file[Log] = {t \in Tickets : StartStatus[t] = "CLOSED"}
  BY FileNames DEF Init
<1> QED BY <1>1, <1>4, <1>5 DEF SerialInv, ClosedIsLogged

LEMMA SerialAlways == ASSUME OneProcess PROVE Spec => [](CrInv /\ SerialInv)
<1>1. CrInv /\ SerialInv /\ [Next]_vars => SerialInv'
  BY SerialStep
<1> QED BY <1>1, SerialInit, CrInductive, PTL DEF Spec

(***************************************************************************)
(* A transaction that ends on its own last step has closed its ticket; one *)
(* that ends before it leaves the journal and the sibling of the ticket.   *)
(***************************************************************************)
CutOff(p) ==
    LET t == ticket[p] IN
    step[p] = "rename" /\ step'[p] = "none" /\ t \in file'[Log] \ Closed'
      => journal' = {Log, t} /\ tmp'[t] # NoTmp

LEMMA CutOffLeaves ==
    ASSUME CrInv, NEW p \in Procs, InHand(p), InFlight(p),
           step[p] = "rename", step'[p] = "none", Command(p),
           ticket[p] \notin Closed'
    PROVE  journal' = {Log, ticket[p]} /\ tmp'[ticket[p]] # NoTmp
<1> DEFINE t == ticket[p]
<1>1. doing[p] = "none"
  BY DEF InHand
<1>2. Rename(p) \/ DropJournal(p) \/ Kill(p)
  BY <1>1 DEF Command, CrOpen, CrUpdate, CrMove, CrClose, Run, Idle, CrMoveAfterSet, Save,
     CloseCheck, CloseLoad, CloseRender, Die, Transact, StageFile, WriteJournal
<1>3. PICK d \in SoundDoc :
        /\ plan[p] = <<LogWrite(file[Log] \cup {t}), TicketWrite(t, d)>>
        /\ journal = {Log, t}
        /\ done[p] <= 1 => tmp[t] = d
        /\ done[p] >= 2 => t \in Closed
  BY DEF InFlight
<1>4. done[p] \in 0..2 /\ Len(plan[p]) = 2 /\ d # NoTmp
  BY <1>3, DocFacts, NoTmpAssumption DEF CrInv, ProcsOK
<1>5. CASE Rename(p)
  <2>1. End(p)
    BY <1>5 DEF Rename, CrInv, ProcsOK
  <2>2. done[p] <= 1 /\ UNCHANGED journal
    BY <1>4, <1>5 DEF Rename
  <2>3. tmp' = tmp
    BY <1>3, <1>5, <2>1 DEF Rename, Cleaned
  <2> QED BY <1>3, <1>4, <2>2, <2>3
<1>6. CASE DropJournal(p)
  BY <1>3, <1>4, <1>6 DEF DropJournal, Closed, Readable, Existing
<1>7. CASE Kill(p)
  <2>1. UNCHANGED <<file, journal, tmp>>
    BY <1>7 DEF Kill
  <2>2. done[p] <= 1
    BY <1>3, <1>4, <2>1 DEF Closed, Readable, Existing
  <2> QED BY <1>3, <1>4, <2>1, <2>2
<1> QED BY <1>2, <1>5, <1>6, <1>7

-----------------------------------------------------------------------------
(***************************************************************************)
(* A closed ticket has its row in MAINTENANCE_LOG.md, also when the        *)
(* transaction was cut off between its two renames: the log comes first.   *)
(***************************************************************************)
THEOREM ClosedIsLoggedInOneProcess == ASSUME OneProcess PROVE Spec => []ClosedIsLogged
BY SerialAlways, PTL DEF SerialInv

(***************************************************************************)
(* A ticket turns CLOSED only by a command whose own checklist found a     *)
(* Gate 1 pass of every FR it names, whatever finalize-gate writes into    *)
(* the manifest, and although the checklist read another load of the       *)
(* ticket and killed commands left siblings and a journal behind.          *)
(***************************************************************************)
THEOREM ClosedWasGatedInOneProcess == ASSUME OneProcess PROVE Spec => ClosedWasGated
<1>1. CrInv /\ SerialInv /\ [Next]_vars => [WasGated]_vars
  BY SerialStep, FileStepGated
<1>2. [][WasGated]_vars => ClosedWasGated
  BY PTL DEF ClosedWasGated, WasGated
<1> QED BY <1>1, <1>2, SerialAlways, PTL DEF Spec

(***************************************************************************)
(* A closed or rejected ticket is never written again, although what is    *)
(* written was loaded several steps before.                                *)
(***************************************************************************)
THEOREM TerminalIsFinalInOneProcess == ASSUME OneProcess PROVE Spec => TerminalIsFinal
<1> DEFINE Final == \A t \in Readable : file[t].status \in Terminal => file'[t] = file[t]
<1>1. CrInv /\ SerialInv /\ [Next]_vars => [Final]_vars
  BY SerialStep, FileStepFinal
<1>2. [][Final]_vars => TerminalIsFinal
  BY PTL DEF TerminalIsFinal
<1> QED BY <1>1, <1>2, SerialAlways, PTL DEF Spec

(***************************************************************************)
(* The detailed commands, with their loads, saves, staged siblings and     *)
(* interrupted transactions, implement TicketLifecycle: a save is one move *)
(* of one ticket, and a closing is a row first and the status after.       *)
(***************************************************************************)
LEMMA LifecycleStep ==
    ASSUME CrInv, FileStep
    PROVE  [Lifecycle!LifecycleNext]_(Lifecycle!lifecycle)
<1> USE DEF Lifecycle!LifecycleNext, Lifecycle!lifecycle
<1>0. Shown = [t \in Tickets |-> IF t \in Readable THEN file[t].status ELSE "none"]
  BY DEF Shown
<1>1. CASE UNCHANGED file
  BY <1>1 DEF Readable, Existing
<1>2. ASSUME NEW t \in Tickets, Lists(t) PROVE Lifecycle!List(t)
  <2>1. file'[Log] = file[Log] \cup {t} /\ Shown' = Shown
    BY <1>2, LogWritten DEF Lists
  <2> QED BY <1>2, <2>1 DEF Lifecycle!List, Shown, Lists, Verified
<1>3. ASSUME NEW t \in Tickets, NEW d \in SoundDoc, Closes(t, d) PROVE Lifecycle!Close(t)
  <2>1. file'[Log] = file[Log] /\ Shown' = [Shown EXCEPT ![t] = d.status]
    BY <1>3, TicketWritten DEF Closes
  <2> QED BY <1>3, <2>1 DEF Lifecycle!Close, Shown, Closes, Verified
<1>4. ASSUME NEW t \in Tickets, NEW d \in SoundDoc, Saves(t, d)
      PROVE  \/ Lifecycle!Open(t) \/ Lifecycle!Forward(t) \/ Lifecycle!Reject(t)
             \/ Shown' = Shown /\ file'[Log] = file[Log]
  <2>1. file'[Log] = file[Log] /\ Shown' = [Shown EXCEPT ![t] = d.status]
    BY <1>4, TicketWritten DEF Saves
  <2>2. CASE t \notin Existing /\ d.status = "OPEN"
    <3>1. Shown[t] = "none"
      BY <2>2 DEF Shown, Readable
    <3> QED BY <2>1, <2>2, <3>1 DEF Lifecycle!Open, Shown
  <2>3. CASE t \in Readable /\ file[t].status \notin Terminal
    <3>1. Shown[t] = file[t].status /\ file[t].status \in Statuses
      BY <2>3, ReadableSound DEF Shown, CrInv, SoundDoc, TicketDoc
    <3>2. CASE d.status = file[t].status
      BY <2>1, <3>1, <3>2 DEF Shown
    <3>3. CASE d.status = "REJECTED"
      BY <2>1, <2>3, <3>1, <3>3 DEF Lifecycle!Reject, Shown, Terminal, Statuses
    <3>4. CASE file[t].status \in DOMAIN Successor /\ d.status = Successor[file[t].status]
      <4>1. d.status # "CLOSED"
        BY <1>4 DEF Saves, Follows
      <4>2. file[t].status \in DOMAIN Lifecycle!Order /\ d.status = Lifecycle!Order[file[t].status]
        BY <3>1, <3>4, <4>1 DEF Lifecycle!Order, Successor, Statuses
      <4> QED BY <2>1, <3>1, <4>2 DEF Lifecycle!Forward, Shown
    <3> QED BY <1>4, <2>3, <3>2, <3>3, <3>4 DEF Saves, Follows, Readable
  <2> QED BY <1>4, <2>2, <2>3 DEF Saves, Follows
<1> QED BY <1>1, <1>2, <1>3, <1>4 DEF FileStep, Shown

LEMMA LifecycleStart == Init => Lifecycle!LifecycleInit
<1> SUFFICES ASSUME Init PROVE Lifecycle!LifecycleInit
  OBVIOUS
<1>1. file[Log] = {t \in Tickets : StartStatus[t] = "CLOSED"}
      /\ \A t \in Tickets : file[t] = StartTicket(t)
  BY FileNames DEF Init
<1>2. ASSUME NEW t \in Tickets
      PROVE  (IF t \in Readable THEN file[t].status ELSE "none") = StartStatus[t]
  <2>1. CASE StartStatus[t] = "none"
    BY <1>1, <2>1, StartTicketSound DEF StartTicket, Readable, Existing
  <2>2. CASE StartStatus[t] # "none"
    <3>1. file[t] \in SoundDoc \cup {NoTicket} /\ file[t].status = StartStatus[t]
      BY <1>1, StartTicketSound
    <3>2. file[t] # NoTicket
      BY <2>2, <3>1 DEF NoTicket
    <3> QED BY <3>1, <3>2, DocFacts DEF Readable, Existing
  <2> QED BY <2>1, <2>2
<1> QED BY <1>1, <1>2 DEF Lifecycle!LifecycleInit

THEOREM FollowsLifecycleInOneProcess == ASSUME OneProcess PROVE Spec => FollowsLifecycle
<1>1. CrInv /\ SerialInv /\ [Next]_vars => [Lifecycle!LifecycleNext]_(Lifecycle!lifecycle)
  BY SerialStep, LifecycleStep
<1> QED BY <1>1, LifecycleStart, SerialAlways, PTL
        DEF Spec, FollowsLifecycle, Lifecycle!LifecycleSpec

(***************************************************************************)
(* A commit that ends between its renames leaves a journal naming its own  *)
(* two targets and the sibling of its ticket, however often commits were   *)
(* cut off before: what the docstring of StateTransaction says of a crash, *)
(* as long as no other transaction follows.                                *)
(***************************************************************************)
THEOREM CutOffIsJournalledInOneProcess == ASSUME OneProcess PROVE Spec => CutOffIsJournalled
<1> DEFINE Each == \A p \in Procs : CutOff(p)
<1>1. ASSUME CrInv, SerialInv, Next PROVE Each
  <2> SUFFICES ASSUME NEW p \in Procs, step[p] = "rename", step'[p] = "none",
                      ticket[p] \in file'[Log] \ Closed'
               PROVE  journal' = {Log, ticket[p]} /\ tmp'[ticket[p]] # NoTmp
    BY DEF CutOff
  <2>1. Command(p)
    BY <1>1 DEF Next, Finished, OneProcess, FinalizeGate1, vars, txn
  <2> QED BY <1>1, <2>1, CutOffLeaves DEF SerialInv
<1>2. CrInv /\ SerialInv /\ [Next]_vars => [Each]_vars
  BY <1>1
<1>3. [][Each]_vars => CutOffIsJournalled
  BY PTL DEF CutOffIsJournalled, CutOff
<1> QED BY <1>1, <1>2, <1>3, SerialAlways, PTL DEF Spec
=============================================================================
