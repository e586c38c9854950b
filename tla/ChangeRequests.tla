--------------------------- MODULE ChangeRequests ---------------------------
(***************************************************************************)
(* Phase 9 change requests: core/maintenance/cr_manager.py and the         *)
(* commands cr-open, cr-update and cr-close of cli/cr_cmds.py.  A ticket   *)
(* is one JSON file, replaced as a whole; closing one also appends a row   *)
(* to MAINTENANCE_LOG.md, both in one StateTransaction.  None of these     *)
(* commands takes a lock: each loads a document, checks it, and writes     *)
(* what it loaded back with its change.                                    *)
(*                                                                         *)
(* File 0 is the log, held as the set of tickets that have a row; file t   *)
(* is ticket CR-t.  "proof" says which evidence the ticket holds (root     *)
(* cause or impact analysis, repro test or approval, closure evidence),    *)
(* "frs" its affected_frs.  That an FR has passed Gate 1 is said by        *)
(* quality_manifest.json, which finalize-gate rewrites at any time.        *)
(***************************************************************************)
EXTENDS StateTransaction, FiniteSets

CONSTANTS
    Partial,     \* a ticket whose writing was cut short: not JSON
    MaxTickets,  \* bound: tickets
    Frs,         \* the FRs of the project
    MaxRuns,     \* bound: commands started
    MaxVerdicts, \* bound: Gate 1 verdicts written or taken back
    StartStatus  \* status of each ticket when the model starts, "none" if absent

Log == 0
Tickets == 1..MaxTickets
Statuses == {"OPEN", "ANALYZED", "APPROVED", "IN_PROGRESS", "VERIFIED", "CLOSED", "REJECTED"}
Terminal == {"CLOSED", "REJECTED"}
Proofs == {"analysis", "approval", "closure"}

ASSUME FilesAssumption == Files = 0..MaxTickets
ASSUME TicketsAssumption ==
    MaxTickets \in Nat \ {0} /\ MaxRuns \in Nat /\ MaxVerdicts \in Nat
    /\ StartStatus \in [Tickets -> Statuses \cup {"none"}]

ASSUME FrsAssumption == Frs # {}

NoTicket == [status |-> "none", proof |-> {}, frs |-> {}]
TicketDoc == [status : Statuses, proof : SUBSET Proofs, frs : SUBSET Frs]

ASSUME PartialAssumption == Partial \notin TicketDoc \cup {NoTicket}
ASSUME NoTmpAssumption == NoTmp \notin TicketDoc

\* The evidence a ticket starts with: what its status asks for, and that of
\* its closure and its FRs once it is verified.
Holds(status) ==
    CASE status = "ANALYZED" -> {"analysis"}
      [] status \in {"APPROVED", "IN_PROGRESS"} -> {"analysis", "approval"}
      [] status \in {"VERIFIED", "CLOSED"} -> Proofs
      [] OTHER -> {}

StartTicket(t) ==
    IF StartStatus[t] = "none" THEN NoTicket
    ELSE [status |-> StartStatus[t], proof |-> Holds(StartStatus[t]),
          frs |-> IF StartStatus[t] \in {"VERIFIED", "CLOSED"} THEN Frs ELSE {}]

VARIABLES
    doing,  \* the command a process runs, "none" between commands
    doc,    \* the ticket it loaded and changed
    ticket, \* which one
    seen,   \* the FRs with a passing Gate 1 when its cr-close read the manifest
    runs,   \* commands started
    gate1,  \* the FRs whose Gate 1 record in the manifest is quality_complete
    verdicts \* how often one was written or taken back

cr == <<doing, doc, ticket, seen, runs>>
manifest == <<gate1, verdicts>>
vars == <<txn, spent, cr, manifest>>

Idle(p) == doing[p] = "none" /\ step[p] = "none"
Doing(p, what) == doing' = [doing EXCEPT ![p] = what]

\* The command returns, or hands over to its transaction: what it loaded is forgotten.
Return(p) == Doing(p, "none") /\ doc' = [doc EXCEPT ![p] = NoTicket]

Run(p, t) ==
    /\ Idle(p)
    /\ runs < MaxRuns
    /\ runs' = runs + 1
    /\ ticket' = [ticket EXCEPT ![p] = t]
    /\ seen' = [seen EXCEPT ![p] = {}]
    /\ UNCHANGED manifest

(***************************************************************************)
(* cr-open: the next id is one more than the highest on disk.              *)
(***************************************************************************)
Existing == {t \in Tickets : file[t] # NoTicket}
Readable == {t \in Existing : file[t] # Partial}

CrOpen(p, t) ==
    /\ Existing = 1..(t - 1)
    /\ Run(p, t)
    /\ doc' = [doc EXCEPT ![p] = [NoTicket EXCEPT !.status = "OPEN"]]
    /\ Doing(p, "save")
    /\ UNCHANGED <<txn, spent>>

(***************************************************************************)
(* validate_transition: forward by one with the evidence the new status    *)
(* asks for, or to REJECTED; nothing leaves a terminal status.  (The FRs a *)
(* CR-FEAT must name before it is ANALYZED are left out.)                  *)
(***************************************************************************)
Successor == [OPEN |-> "ANALYZED", ANALYZED |-> "APPROVED", APPROVED |-> "IN_PROGRESS",
              IN_PROGRESS |-> "VERIFIED", VERIFIED |-> "CLOSED"]
Asks == [ANALYZED |-> {"analysis"}, APPROVED |-> {"approval"}, CLOSED |-> {"closure"}]

\* closure_problems: the evidence of the closing and at least one FR.
MayClose(d) == Asks.CLOSED \subseteq d.proof /\ d.frs # {}

\* Mutants: a status may be skipped; evidence is not asked for.
ValidSkipping(d, status) ==
    /\ d.status \notin Terminal
    /\ status \in DOMAIN Asks => Asks[status] \subseteq d.proof

ValidUnproven(d, status) ==
    /\ d.status \notin Terminal
    /\ status = "REJECTED" \/ (d.status \in DOMAIN Successor /\ status = Successor[d.status])

Valid(d, status) ==
    /\ d.status \notin Terminal
    /\ \/ status = "REJECTED"
       \/ /\ d.status \in DOMAIN Successor
          /\ status = Successor[d.status]
          /\ status \in DOMAIN Asks => Asks[status] \subseteq d.proof
          /\ status = "CLOSED" => MayClose(d)

(***************************************************************************)
(* cr-update --set: load, refuse a terminal ticket, change any fields but  *)
(* the status.                                                             *)
(***************************************************************************)
Edits(d) == [status : {d.status}, proof : SUBSET Proofs, frs : SUBSET Frs]

\* Mutant: the status loaded is not looked at.
CrUpdateUnchecked(p, t) ==
    /\ Run(p, t)
    /\ \E d \in Edits(file[t]) : doc' = [doc EXCEPT ![p] = d]
    /\ \E what \in {"save", "save_then_move"} : Doing(p, what)
    /\ UNCHANGED <<txn, spent>>

CrUpdate(p, t) ==
    /\ Run(p, t)
    /\ t \in Readable
    /\ file[t].status \notin Terminal
    /\ \E d \in Edits(file[t]) : doc' = [doc EXCEPT ![p] = d]
    /\ \E what \in {"save", "save_then_move"} : Doing(p, what)
    /\ UNCHANGED <<txn, spent>>

\* cr-update --status; CLOSED is not one of its choices.
Moved(p, t) ==
    \E status \in Statuses \ {"OPEN", "CLOSED"} :
        /\ Valid(file[t], status)
        /\ doc' = [doc EXCEPT ![p] = [file[t] EXCEPT !.status = status]]
        /\ Doing(p, "save")

CrMove(p, t) ==
    /\ Run(p, t)
    /\ t \in Readable
    /\ Moved(p, t)
    /\ UNCHANGED <<txn, spent>>

\* --set and --status in one command: the ticket is loaded again in between.
CrMoveAfterSet(p) ==
    LET t == ticket[p] IN
    /\ doing[p] = "move"
    /\ \/ t \in Readable /\ Moved(p, t)
       \/ Return(p)
    /\ UNCHANGED <<txn, spent, ticket, seen, runs, manifest>>

\* save: atomic_write_json replaces the ticket, or fails and changes nothing.
Save(p) ==
    /\ doing[p] \in {"save", "save_then_move"}
    /\ \/ /\ file' = [file EXCEPT ![ticket[p]] = doc[p]]
          /\ IF doing[p] = "save" THEN Return(p) ELSE Doing(p, "move") /\ UNCHANGED doc
          /\ UNCHANGED spent
       \/ Error /\ Return(p) /\ UNCHANGED file
    /\ UNCHANGED <<tmp, journal, step, plan, done, ticket, seen, runs, manifest>>

(***************************************************************************)
(* cr-close: its checklist on one load of the ticket and on the manifest   *)
(* as it is then, CRManager.close on another load, and the log as it is    *)
(* after that.                                                             *)
(***************************************************************************)
\* Mutant: the affected FRs are not looked up in the manifest.
ClosableUngated(d, passed) == d.status = "VERIFIED" /\ MayClose(d)

Closable(d, passed) == d.status = "VERIFIED" /\ MayClose(d) /\ d.frs \subseteq passed

CrClose(p, t) ==
    /\ Run(p, t)
    /\ t \in Readable
    /\ doc' = [doc EXCEPT ![p] = file[t]]
    /\ Doing(p, "close_check")
    /\ UNCHANGED <<txn, spent>>

\* The trace attestation and the drift checks may refuse too.
CloseCheck(p) ==
    /\ doing[p] = "close_check"
    /\ seen' = [seen EXCEPT ![p] = gate1]
    /\ \/ Closable(doc[p], gate1) /\ Doing(p, "close_load") /\ UNCHANGED doc
       \/ Return(p)
    /\ UNCHANGED <<txn, spent, ticket, runs, manifest>>

CloseLoad(p) ==
    LET t == ticket[p] IN
    /\ doing[p] = "close_load"
    /\ \/ /\ t \in Readable
          /\ Valid(file[t], "CLOSED")
          /\ doc' = [doc EXCEPT ![p] = [file[t] EXCEPT !.status = "CLOSED"]]
          /\ Doing(p, "close_render")
       \/ ~(t \in Readable /\ Valid(file[t], "CLOSED")) /\ Return(p)
    /\ UNCHANGED <<txn, spent, ticket, seen, runs, manifest>>

LogWrite(rows) == [target |-> Log, content |-> rows, cut |-> SUBSET rows]
TicketWrite(t, d) == [target |-> t, content |-> d, cut |-> {Partial}]

\* Mutant: the ticket is staged before the log.
CloseRenderTicketFirst(p) ==
    LET t == ticket[p] IN
    /\ doing[p] = "close_render"
    /\ Begin(p, <<TicketWrite(t, doc[p]), LogWrite(file[Log] \cup {t})>>)
    /\ Return(p)
    /\ UNCHANGED <<ticket, seen, runs, manifest>>

CloseRender(p) ==
    LET t == ticket[p] IN
    /\ doing[p] = "close_render"
    /\ Begin(p, <<LogWrite(file[Log] \cup {t}), TicketWrite(t, doc[p])>>)
    /\ Return(p)
    /\ UNCHANGED <<ticket, seen, runs, manifest>>

\* Killed before anything was staged: memory is lost.
Die(p) ==
    /\ doing[p] # "none"
    /\ spent.crashes < MaxCrashes
    /\ spent' = [spent EXCEPT !.crashes = @ + 1]
    /\ Return(p)
    /\ UNCHANGED <<txn, ticket, seen, runs, manifest>>

(***************************************************************************)
(* finalize-gate --gate 1 writes the verdict of one FR into the manifest   *)
(* and takes a pass back when its later checks or its commit fail.         *)
(***************************************************************************)
FinalizeGate1(fr) ==
    /\ verdicts < MaxVerdicts
    /\ verdicts' = verdicts + 1
    /\ gate1' \in {gate1 \cup {fr}, gate1 \ {fr}}
    /\ UNCHANGED <<txn, spent, cr>>

Init ==
    /\ TxnInit
    /\ file = [f \in Files |->
                 IF f = Log THEN {t \in Tickets : StartStatus[t] = "CLOSED"}
                 ELSE StartTicket(f)]
    /\ doing = [p \in Procs |-> "none"]
    /\ doc = [p \in Procs |-> NoTicket]
    /\ ticket = [p \in Procs |-> 1]
    /\ seen = [p \in Procs |-> {}]
    /\ runs = 0
    /\ gate1 \in SUBSET Frs
    /\ verdicts = 0

Command(p) ==
    \/ \E t \in Tickets : CrOpen(p, t) \/ CrUpdate(p, t) \/ CrMove(p, t) \/ CrClose(p, t)
    \/ CrMoveAfterSet(p) \/ Save(p) \/ CloseCheck(p) \/ CloseLoad(p) \/ CloseRender(p) \/ Die(p)
    \/ (Transact(p) \/ Kill(p)) /\ UNCHANGED <<cr, manifest>>

Finished == (\A p \in Procs : Idle(p)) /\ UNCHANGED vars

Next ==
    \/ \E p \in Procs : Command(p)
    \/ \E fr \in Frs : FinalizeGate1(fr)
    \/ Finished

Spec == Init /\ [][Next]_vars

-----------------------------------------------------------------------------
(***************************************************************************)
(* Type invariant of the documents, the staged siblings and the processes. *)
(***************************************************************************)
CrTypeOK ==
    /\ file[Log] \subseteq Tickets
    /\ \A t \in Tickets : file[t] \in {NoTicket, Partial} \/ file[t] \in TicketDoc
    /\ tmp[Log] = NoTmp \/ tmp[Log] \in SUBSET Tickets
    /\ \A t \in Tickets : tmp[t] \in {NoTmp, Partial} \/ tmp[t] \in TicketDoc
    /\ journal \subseteq Files
    /\ step \in [Procs -> {"none", "stage", "rename"}]
    /\ \A p \in Procs : done[p] \in 0..Len(plan[p])
    /\ doing \in [Procs -> {"none", "save", "save_then_move", "move", "close_check",
                            "close_load", "close_render"}]
    /\ doc \in [Procs -> TicketDoc \cup {NoTicket}]
    /\ ticket \in [Procs -> Tickets]
    /\ seen \in [Procs -> SUBSET Frs]
    /\ gate1 \subseteq Frs

(***************************************************************************)
(* A closed ticket has its row in MAINTENANCE_LOG.md, also after a commit  *)
(* that was interrupted between its two renames.                           *)
(***************************************************************************)
Closed == {t \in Readable : file[t].status = "CLOSED"}
ClosedIsLogged == Closed \subseteq file[Log]

(***************************************************************************)
(* A closed ticket carries its closure evidence and names the FRs it       *)
(* touched, whatever edits raced with cr-close: what was validated is what *)
(* is written.                                                             *)
(***************************************************************************)
ClosedHasEvidence == \A t \in Closed : "closure" \in file[t].proof /\ file[t].frs # {}

(***************************************************************************)
(* "Any failure: exit 1, ticket unchanged" (cmd_cr_close): a ticket turns  *)
(* CLOSED only by a command whose own checklist found a Gate 1 pass of     *)
(* every FR the closed ticket names, although the checklist read another   *)
(* load of the ticket, verdicts come and go meanwhile, and killed commands *)
(* left tickets, siblings and a journal behind.                            *)
(***************************************************************************)
ClosedWasGated ==
    [][\A t \in Closed' \ Closed :
         \E p \in Procs : ticket[p] = t /\ file'[t].frs \subseteq seen[p]]_vars

(***************************************************************************)
(* A closed or rejected ticket is never written again.                     *)
(***************************************************************************)
TerminalIsFinal ==
    [][\A t \in Readable : file[t].status \in Terminal => file'[t] = file[t]]_vars

(***************************************************************************)
(* A commit that ends between its renames - the row is in the log and the  *)
(* ticket is not closed - leaves a journal that names both of its targets, *)
(* and the sibling of the ticket: what harness doctor reports and what can *)
(* still be completed, until the next transaction.                         *)
(***************************************************************************)
CutOffIsJournalled ==
    [][\A p \in Procs :
         LET t == ticket[p] IN
         step[p] = "rename" /\ step'[p] = "none" /\ t \in file'[Log] \ Closed'
           => journal' = {Log, t} /\ tmp'[t] # NoTmp]_vars

(***************************************************************************)
(* The tickets and the log follow the lifecycle the SOP describes.         *)
(***************************************************************************)
Lifecycle == INSTANCE TicketLifecycle
    WITH Begun <- [t \in Tickets |-> StartStatus[t]],
         Listed <- {t \in Tickets : StartStatus[t] = "CLOSED"},
         status <- [t \in Tickets |-> IF t \in Readable THEN file[t].status ELSE "none"],
         logged <- file[Log]

FollowsLifecycle == Lifecycle!LifecycleSpec
=============================================================================
