---------------------- MODULE ReconciliationProperties ----------------------
(***************************************************************************)
(* What the daily reconciliation must satisfy, and what the repository     *)
(* says of it that it does not do.                                         *)
(***************************************************************************)
EXTENDS Reconciliation

CONSTANT Digits   \* currency -> decimal places of its amounts

RunStatus == {"NONE", "RUNNING", "COMPLETED", "FAILED"}

\* A row of reconciliation_records.
Row == [date : Dates, execution : Nat, reference : Refs, line : Line \cup {Null},
        status : {"MATCHED", "UNMATCHED", "EXCEPTION"}]

Execution ==
  [step : {"idle", "load", "fetch", "persist", "upload", "summary", "except"},
   date : Dates \cup {Null}, execution : Nat, internal : SUBSET Refs,
   attempts : 0..(MaxAttempts - 1), results : SUBSET Row, todo : SUBSET Row,
   poisoned : BOOLEAN]

\* What an execution holds when it has begun.
HasItsRows(j) == (j.step # "idle" => j.date \in Dates) /\ j.todo \subseteq j.results

\* Type invariant of the reconciliation's state; a file is tried MaxAttempts
\* times at most.
ReconciliationTypeOK ==
  /\ status \in [Refs -> {"PENDING", "FAILED", "COMPLETED"}]
  /\ bucket \in [Dates -> Files \cup {Null}]
  /\ runs \in [Dates -> [status : RunStatus, total : Nat, matched : Nat,
                        unmatched : Nat, exceptions : Nat]]
  /\ records \in SUBSET Row
  /\ reports \in SUBSET Dates
  /\ job \in [Workers -> Execution] /\ \A w \in Workers : HasItsRows(job[w])
  /\ triggers \in 0..MaxTriggers
  /\ answers \in SUBSET [date : Dates, execution : Nat, code : {200, 500}]
  /\ seen \in [Dates -> SUBSET Refs]
  /\ faults \in 0..MaxFaults

Busy(w) == job[w].step # "idle"

Working(w, d) == Busy(w) /\ job[w].date = d

\* Finance reads counts from the run and rows from the records: a COMPLETED
\* run, and one whose report was uploaded, has one row per line of each
\* payment it loaded, none of any other payment, and counts that add up to
\* its rows - although rows are committed batch by batch and payments move
\* meanwhile.
AddsUp(d) ==
  /\ {x.reference : x \in RecordsOf(d)} = seen[d]
  /\ runs[d] = [Tally(RecordsOf(d)) EXCEPT !.status = runs[d].status]
  /\ runs[d].total = runs[d].matched + runs[d].unmatched + runs[d].exceptions

CompletedAddsUp ==
  \A d \in Dates : runs[d].status = "COMPLETED" \/ d \in reports => AddsUp(d)

\* The amount of a payment in thousandths of its currency.
Thousandths(r) ==
  IF Digits[Payment[r].currency] = 0 THEN 1000 * Payment[r].minorUnits
  ELSE 10 * Payment[r].minorUnits

\* Half a minor unit apart at most.
Close(r, amount) ==
  amount <= Thousandths(r) + Tolerance /\ Thousandths(r) <= amount + Tolerance

\* MatchesAgree, of one row.
RightlyMatched(x) ==
  x.status = "MATCHED" /\ Digits[Payment[x.reference].currency] = 2 =>
    /\ x.line # Null
    /\ x.line.currency = Payment[x.reference].currency
    /\ x.line.amount # Null => Close(x.reference, x.line.amount)

\* A MATCHED row is of a payment and a line in one currency, and the amounts,
\* if the line has one, are half a minor unit apart at most: a discrepancy is
\* never filed as a match.  (In currencies with two decimals: a payment of 500
\* yen is matched with a line of 5.00.  A line without an amount is matched
\* with any.)
MatchesAgree == \A x \in records : RightlyMatched(x)

\* However many POSTs ask for a date, in turn or at once, after failures and
\* killed workers: the rows of a date stem from one execution, and no second
\* one works on the date.
OneExecutionPerDate ==
  /\ \A x, y \in records : x.date = y.date => x.execution = y.execution
  /\ \A d \in Dates, v, w \in Workers : (Working(v, d) /\ Working(w, d)) => v = w
  /\ \A d \in Dates, w \in Workers : Working(w, d) =>
       \A x \in RecordsOf(d) : x.execution = job[w].execution

\* Who is answered 200 may rely on it for good: the date's run is COMPLETED,
\* and its rows are those of the very execution that was asked for, whatever
\* other POSTs, failures or killed workers follow.
AnsweredIsCompleted ==
  \A a \in answers : a.code = 200 =>
    /\ runs[a.date].status = "COMPLETED"
    /\ \A x \in RecordsOf(a.date) : x.execution = a.execution

\* What readers rely on, see RunLedger: a run begins once, rows come in order
\* and before the counts, the counts are those of the rows, and a finished run
\* gains no rows and is not revived.
ImplementsRunLedger == LedgerSpec

----------------------------------------------------------------------------
\* The inductive invariant behind the safety properties

\* Of a date no POST has asked for there is nothing.
UntouchedIsEmpty ==
  \A d \in Dates : runs[d] = NoRun =>
    RecordsOf(d) = {} /\ d \notin reports /\ \A w \in Workers : ~Working(w, d)

\* The run's row says how far its execution is.
RunFits(w, d) ==
  /\ job[w].step \in {"load", "fetch", "persist"} =>
       runs[d].status = "RUNNING" /\ d \notin reports
  /\ job[w].step \in {"upload", "summary"} => runs[d] = Tally(job[w].results)
  /\ job[w].step = "except" => runs[d].status \in {"RUNNING", "COMPLETED"}

\* The rows of the date are those the execution has inserted.
RowsFit(w, d) ==
  /\ job[w].step \in {"load", "fetch"} => RecordsOf(d) = {}
  /\ job[w].step \in {"persist", "upload", "summary"} =>
       RecordsOf(d) = job[w].results \ job[w].todo
  /\ job[w].step \in {"upload", "summary"} => job[w].todo = {}

\* The rows in memory are of the execution and of the payments it loaded, and
\* what is inserted goes before what is left.
ResultsFit(w, d) ==
  /\ IsFiniteSet(job[w].results)
  /\ \A x \in job[w].results :
       x.date = d /\ x.execution = job[w].execution /\ RightlyMatched(x)
  /\ \A x \in job[w].results \ job[w].todo, y \in job[w].todo : x.reference <= y.reference
  /\ job[w].step \in {"fetch", "persist", "upload", "summary"} => job[w].internal = seen[d]
  /\ job[w].step \in {"load", "fetch"} => job[w].results = {}
  /\ job[w].step \in {"persist", "upload", "summary"} =>
       {x.reference : x \in job[w].results} = job[w].internal

WorkFits ==
  \A d \in Dates, w \in Workers :
    Working(w, d) => RunFits(w, d) /\ RowsFit(w, d) /\ ResultsFit(w, d)

\* Nobody works on a date whose POST was answered 200.
AnsweredIsOver ==
  \A a \in answers, w \in Workers : a.code = 200 => ~Working(w, a.date)

ReconciliationIInv ==
  /\ ReconciliationTypeOK
  /\ UntouchedIsEmpty /\ WorkFits /\ AnsweredIsOver
  /\ CompletedAddsUp /\ MatchesAgree /\ OneExecutionPerDate /\ AnsweredIsCompleted

----------------------------------------------------------------------------
\* Liveness

\* An execution finishes its run unless the database failed it, its worker was
\* killed, or it met a row that cannot be inserted: a file that is missing or
\* unreadable is no excuse.
RunsFinish ==
  \A d \in Dates :
    (faults = 0 /\ \E w \in Workers : Working(w, d)) ~>
      \/ Finished(d) \/ faults > 0
      \/ \E w \in Workers : Working(w, d) /\ \E x \in job[w].results : ~Bindable(x)

----------------------------------------------------------------------------
\* app/models/reconciliation.py:22, "UNMATCHED # No matching record found": a
\* payment without a line becomes a row.  So with no fault of database or
\* worker a run is RUNNING only as long as somebody works on it.
AbandonedOnlyByFaults ==
  \A d \in Dates :
    runs[d].status = "RUNNING" /\ faults = 0 => \E w \in Workers : Working(w, d)

\* tests/test_reconciliation_service.py:190: a payment whose line has its
\* amount and currency is MATCHED.
AgreementIsMatched ==
  \A x \in records :
    (x.line # Null /\ x.line.amount = Thousandths(x.reference)
       /\ x.line.currency = Payment[x.reference].currency) => x.status = "MATCHED"
=============================================================================
