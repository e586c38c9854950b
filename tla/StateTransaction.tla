-------------------------- MODULE StateTransaction --------------------------
(***************************************************************************)
(* core/atomic_io.py::StateTransaction.  Several files are written as one: *)
(* stage each one in a sibling ".<name>.txn.tmp", write the journal, rename *)
(* the siblings onto their targets in staging order, unlink the journal.   *)
(*                                                                         *)
(* The sibling's name depends on the target only and the journal has one   *)
(* name per project, so two transactions share them; nothing here takes a  *)
(* lock, it is up to the caller to hold one.                               *)
(***************************************************************************)
EXTENDS Integers, Sequences

CONSTANTS
    Procs,     \* operating-system processes
    Files,     \* targets
    NoTmp,     \* there is no staged sibling
    MaxFaults, \* bound: I/O errors
    MaxCrashes \* bound: processes killed

ASSUME FaultsAssumption == MaxFaults \in Nat /\ MaxCrashes \in Nat

VARIABLES
    file,     \* what a reader of each target finds
    tmp,      \* the staged sibling of each target
    journal,  \* targets listed by .txn_journal.json, {} when there is none
    step,     \* where the transaction of a process is
    plan,     \* its writes, in staging order, as [target, content, cut]: cut are
              \* the contents a writing that is cut short may leave
    done,     \* how many of them are staged (later: renamed)
    spent     \* I/O errors and kills so far

txn == <<file, tmp, journal, step, plan, done>>

TxnInit ==
    /\ tmp = [f \in Files |-> NoTmp]
    /\ journal = {}
    /\ step = [p \in Procs |-> "none"]
    /\ plan = [p \in Procs |-> <<>>]
    /\ done = [p \in Procs |-> 0]
    /\ spent = [faults |-> 0, crashes |-> 0]

Targets(writes) == {writes[i].target : i \in DOMAIN writes}
Error ==
    /\ spent.faults < MaxFaults
    /\ spent' = [spent EXCEPT !.faults = @ + 1]

Begin(p, writes) ==
    /\ step[p] = "none"
    /\ step' = [step EXCEPT ![p] = "stage"]
    /\ plan' = [plan EXCEPT ![p] = writes]
    /\ done' = [done EXCEPT ![p] = 0]
    /\ UNCHANGED <<file, tmp, journal, spent>>

End(p) ==
    /\ step' = [step EXCEPT ![p] = "none"]
    /\ plan' = [plan EXCEPT ![p] = <<>>]
    /\ done' = [done EXCEPT ![p] = 0]

(***************************************************************************)
(* __exit__ with an exception: unless a journal is on disk - this          *)
(* transaction's or another one's - the siblings staged are removed.       *)
(***************************************************************************)
Cleaned(p, staged) ==
    IF journal # {} THEN tmp
    ELSE [f \in Files |->
            IF f \in Targets(SubSeq(plan[p], 1, staged)) THEN NoTmp ELSE tmp[f]]

\* What is left of the sibling being written when the writing stops short.
CutShort(p, staged) ==
    {staged} \cup {[staged EXCEPT ![plan[p][done[p] + 1].target] = c] :
                      c \in plan[p][done[p] + 1].cut}

\* open("w"), write and fsync of one sibling are one step here.
StageFile(p) ==
    LET w == plan[p][done[p] + 1] IN
    /\ step[p] = "stage"
    /\ done[p] < Len(plan[p])
    /\ \/ /\ tmp' = [tmp EXCEPT ![w.target] = w.content]
          /\ done' = [done EXCEPT ![p] = @ + 1]
          /\ UNCHANGED <<step, plan, spent>>
       \/ /\ Error
          /\ tmp' \in CutShort(p, Cleaned(p, done[p]))
          /\ End(p)
    /\ UNCHANGED <<file, journal>>

\* Mutant: the siblings are renamed with no journal written before.
WriteJournalNot(p) ==
    /\ step[p] = "stage"
    /\ done[p] = Len(plan[p])
    /\ step' = [step EXCEPT ![p] = "rename"]
    /\ done' = [done EXCEPT ![p] = 0]
    /\ UNCHANGED <<file, tmp, journal, plan, spent>>

\* The journal itself is replaced atomically, whatever it said before.
WriteJournal(p) ==
    /\ step[p] = "stage"
    /\ done[p] = Len(plan[p])
    /\ \/ /\ journal' = Targets(plan[p])
          /\ step' = [step EXCEPT ![p] = "rename"]
          /\ done' = [done EXCEPT ![p] = 0]
          /\ UNCHANGED <<tmp, plan, spent>>
       \/ /\ Error
          /\ tmp' = Cleaned(p, done[p])
          /\ End(p)
          /\ UNCHANGED journal
    /\ UNCHANGED file

\* os.replace, in staging order; it also fails when the sibling is gone.
Rename(p) ==
    LET f == plan[p][done[p] + 1].target IN
    /\ step[p] = "rename"
    /\ done[p] < Len(plan[p])
    /\ \/ /\ tmp[f] # NoTmp
          /\ file' = [file EXCEPT ![f] = tmp[f]]
          /\ tmp' = [tmp EXCEPT ![f] = NoTmp]
          /\ done' = [done EXCEPT ![p] = @ + 1]
          /\ UNCHANGED <<step, plan, spent>>
       \/ /\ tmp[f] = NoTmp
          /\ tmp' = Cleaned(p, Len(plan[p]))
          /\ End(p)
          /\ UNCHANGED <<file, spent>>
       \/ /\ Error
          /\ tmp' = Cleaned(p, Len(plan[p]))
          /\ End(p)
          /\ UNCHANGED file
    /\ UNCHANGED journal

DropJournal(p) ==
    /\ step[p] = "rename"
    /\ done[p] = Len(plan[p])
    /\ \/ journal' = {} /\ UNCHANGED spent
       \/ Error /\ UNCHANGED journal
    /\ End(p)
    /\ UNCHANGED <<file, tmp>>

\* A killed process leaves its siblings and the journal behind.
Kill(p) ==
    /\ step[p] # "none"
    /\ spent.crashes < MaxCrashes
    /\ spent' = [spent EXCEPT !.crashes = @ + 1]
    /\ tmp' \in IF step[p] = "stage" /\ done[p] < Len(plan[p]) THEN CutShort(p, tmp) ELSE {tmp}
    /\ End(p)
    /\ UNCHANGED <<file, journal>>

Transact(p) == StageFile(p) \/ WriteJournal(p) \/ Rename(p) \/ DropJournal(p)
=============================================================================
