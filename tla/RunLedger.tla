----------------------------- MODULE RunLedger -----------------------------
(***************************************************************************)
(* What the reporting database shows of reconciliation, and all that its   *)
(* readers (reports, the run and record endpoints) rely on: a run per date *)
(* that begins once, gains rows in order of payment reference, and is      *)
(* completed with counts that are those of its rows.  No worker, file or   *)
(* session appears here; Reconciliation implements this specification.     *)
(***************************************************************************)
EXTENDS Integers, FiniteSets

CONSTANT Dates   \* dates that are reconciled

VARIABLES
  runs,      \* date -> row of reconciliation_runs
  records    \* rows of reconciliation_records: at least date, reference, status

ledgerVars == <<runs, records>>

NoRun == [status |-> "NONE", total |-> 0, matched |-> 0, unmatched |-> 0, exceptions |-> 0]

Begun == {d \in Dates : runs[d] # NoRun}

RecordsOf(d) == {x \in records : x.date = d}

Count(rows, s) == Cardinality({x \in rows : x.status = s})

\* The row of a run that is completed with these rows.
Tally(rows) ==
  [status |-> "COMPLETED", total |-> Cardinality(rows), matched |-> Count(rows, "MATCHED"),
   unmatched |-> Count(rows, "UNMATCHED"), exceptions |-> Count(rows, "EXCEPTION")]

Finished(d) == runs[d].status \in {"COMPLETED", "FAILED"}

LedgerInit == runs = [d \in Dates |-> NoRun] /\ records = {}

Begin(d) ==
  /\ runs[d] = NoRun
  /\ runs' = [runs EXCEPT ![d].status = "RUNNING"]
  /\ UNCHANGED records

\* Mutant of AddRows: a batch may hold any rows.
AddRowsAnywhere(d, rows) ==
  /\ runs[d].status = "RUNNING"
  /\ \A y \in rows : y.date = d /\ y \notin records
  /\ records' = records \cup rows
  /\ UNCHANGED runs

\* A batch of rows is committed, behind those of the run that are there.
AddRows(d, rows) ==
  /\ runs[d].status = "RUNNING"
  /\ \A y \in rows : /\ y.date = d /\ y \notin records
                     /\ \A x \in RecordsOf(d) : x.reference <= y.reference
  /\ records' = records \cup rows
  /\ UNCHANGED runs

Complete(d) ==
  /\ runs[d].status = "RUNNING"
  /\ runs' = [runs EXCEPT ![d] = Tally(RecordsOf(d))]
  /\ UNCHANGED records

\* A run fails; a COMPLETED one may, as long as its execution is not over.
Fail(d) ==
  /\ runs[d].status \in {"RUNNING", "COMPLETED"}
  /\ runs' = [runs EXCEPT ![d].status = "FAILED"]
  /\ UNCHANGED records

LedgerNext ==
  \E d \in Dates : Begin(d) \/ AddRows(d, records' \ records) \/ Complete(d) \/ Fail(d)

LedgerSpec == LedgerInit /\ [][LedgerNext]_ledgerVars

----------------------------------------------------------------------------
\* What readers that come more than once may rely on

\* A run that is COMPLETED has the counts of its rows.
TalliesHold == \A d \in Dates : runs[d].status = "COMPLETED" => runs[d] = Tally(RecordsOf(d))

\* What may happen between two answers: runs stay, rows stay, new rows come
\* behind the old ones, and of a run that is over nothing changes but that it
\* may still turn out FAILED.
LedgerMovesOn ==
  /\ Begun \subseteq Begun' /\ records \subseteq records'
  /\ \A d \in Dates :
       /\ \A x \in RecordsOf(d), y \in RecordsOf(d)' \ RecordsOf(d) : x.reference <= y.reference
       /\ Finished(d) =>
            /\ Finished(d)' /\ (runs[d].status = "FAILED" => runs'[d].status = "FAILED")
            /\ RecordsOf(d)' = RecordsOf(d)
            /\ \A count \in {"total", "matched", "unmatched", "exceptions"} :
                 runs'[d][count] = runs[d][count]

ReadersMayRely == []TalliesHold /\ [][LedgerMovesOn]_ledgerVars

\* Each payment of a date has one row.
OneRowEach(d) == \A x, y \in RecordsOf(d) : x.reference = y.reference => x = y
=============================================================================
