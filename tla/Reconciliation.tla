--------------------------- MODULE Reconciliation ---------------------------
(***************************************************************************)
(* Daily reconciliation in the data-processing service                     *)
(* (app/services/reconciliation_service.py): gunicorn workers that execute *)
(* POST /api/v1/reconciliation/run over one reporting database, one S3     *)
(* bucket and the replica of the payments table, while payments still move *)
(* and the clearing network's file may be late, unreadable or missing.     *)
(*                                                                         *)
(* One step is one transaction or one external call of the pipeline.       *)
(* Amounts are in thousandths of the currency's unit, the first digit in   *)
(* which a file may be finer than the payments table.                      *)
(***************************************************************************)
EXTENDS RunLedger

CONSTANTS Workers,      \* gunicorn workers, over all pods
          Refs,         \* payment references, as their ranks in the database's order
          Payment,      \* reference -> [date, minorUnits, currency, clearingReference]
          Files,        \* settlement files that may arrive, see File
          Garbled,      \* a file that pandas or Decimal cannot read
          Null,         \* nothing: no file, no column, no line
          RoundedUp,    \* pairs of amounts, see Exceeds
          BatchSize,    \* 500
          MaxAttempts,  \* 3: stop_after_attempt
          MaxTriggers, MaxFaults  \* bounds on POSTs; on database failures and killed workers

\* The line at a place of a settlement file; its amount is Null when the cell
\* is empty (read as Decimal('nan')), "dated" says whether its settled_at can
\* be read (errors='coerce' makes it NaT otherwise).
Line == [number : Nat \ {0}, reference : Refs, amount : Nat \cup {Null}, currency : STRING,
         dated : BOOLEAN]

Tolerance == 5   \* 0.005

\* "named" says whether the file has a column clearing_reference (or
\* reference, which is renamed to it).
File == [named : BOOLEAN, lines : SUBSET Line]

ASSUME ReconciliationAssumption ==
  /\ Refs \subseteq Nat /\ IsFiniteSet(Refs)
  /\ BatchSize \in Nat \ {0} /\ MaxAttempts \in Nat \ {0}
  /\ MaxTriggers \in Nat /\ MaxFaults \in Nat
  /\ \A r \in Refs : Payment[r].minorUnits \in Nat
  /\ \A p \in RoundedUp : p[1] - p[2] \in {Tolerance, -Tolerance}
  /\ Null \notin Nat
  /\ \A f \in Files : f = Garbled \/ (f \in File /\ IsFiniteSet(f.lines))

VARIABLES
  status,    \* reference -> status of the payment in the payments table
  bucket,    \* date -> settlement file in S3
  reports,   \* dates whose report is in S3
  job,       \* worker -> the execution it is in
  triggers,  \* POSTs so far; numbers the executions
  answers,   \* answers to the POSTs
  seen,      \* history: date -> the payments its execution loaded
  faults

vars == <<status, bucket, runs, records, reports, job, triggers, answers, seen, faults>>

----------------------------------------------------------------------------
\* _load_internal_payments, _reconcile, _classify_record

\* WHERE status IN ('COMPLETED', 'FAILED') AND the payment is of that date.
LoadInternalPayments(d) ==
  {r \in Refs : status[r] \in {"COMPLETED", "FAILED"} /\ Payment[r].date = d}

\* The frame of a missing file: no lines, all columns.
NoLines == [named |-> TRUE, lines |-> {}]

\* merge(how='left'): every internal row with each of its lines, or with none.
Merged(internal, file) ==
  {[reference |-> l.reference, line |-> l] : l \in {m \in file.lines : m.reference \in internal}}
  \cup
  {[reference |-> r, line |-> Null] :
     r \in {i \in internal : \A l \in file.lines : l.reference # i}}

\* What row.get('clearing_reference') sees: when both frames have the column
\* the merge renames both with suffixes and the plain name is gone.
ClearingReference(row, file) ==
  IF file.named THEN Null ELSE Payment[row.reference].clearingReference

\* Minor units / 100, whatever the currency's decimal places.
InternalAmount(r) == 10 * Payment[r].minorUnits

\* abs(internal - clearing) > 0.005, on floats.  Of amounts that are exactly
\* the tolerance apart some differ by a little more in binary: 0.20 and 0.195
\* do, 0.20 and 0.205 do not.  RoundedUp says which.
Exceeds(internal, clearing) ==
  \/ internal > clearing + Tolerance \/ clearing > internal + Tolerance
  \/ <<internal, clearing>> \in RoundedUp

\* The amounts do not differ.  A NaN compares as FALSE: the amount of an empty
\* cell differs from nothing.
AmountsPass(r, line) == line.amount # Null => ~Exceeds(InternalAmount(r), line.amount)

\* Mutant of ClassifyRecord: the currencies are not compared.
ClassifyAmountsOnly(row, file) ==
  CASE ClearingReference(row, file) = Null -> "UNMATCHED"
    [] ClearingReference(row, file) # Null /\ row.line # Null ->
         IF AmountsPass(row.reference, row.line) THEN "MATCHED" ELSE "EXCEPTION"
    [] OTHER -> "MATCHED"

\* A missing line has amount NaN, which passes, and currency NaN, which
\* differs from everything.
ClassifyRecord(row, file) ==
  LET agrees == /\ row.line # Null
                /\ AmountsPass(row.reference, row.line)
                /\ Payment[row.reference].currency = row.line.currency IN
  CASE ClearingReference(row, file) = Null -> "UNMATCHED"
    [] ClearingReference(row, file) # Null /\ agrees  -> "MATCHED"
    [] ClearingReference(row, file) # Null /\ ~agrees -> "EXCEPTION"

Record(d, execution, row, file) ==
  [date |-> d, execution |-> execution, reference |-> row.reference, line |-> row.line,
   status |-> ClassifyRecord(row, file)]

Reconcile(d, execution, internal, file) ==
  {Record(d, execution, row, file) : row \in Merged(internal, file)}

----------------------------------------------------------------------------
Idle == [step |-> "idle", date |-> Null, execution |-> 0, internal |-> {}, attempts |-> 0,
         results |-> {}, todo |-> {}, poisoned |-> FALSE]

Init ==
  /\ status = [r \in Refs |-> "PENDING"]
  /\ bucket = [d \in Dates |-> Null]
  /\ LedgerInit
  /\ reports = {}
  /\ job = [w \in Workers |-> Idle]
  /\ triggers = 0 /\ answers = {}
  /\ seen = [d \in Dates |-> {}]
  /\ faults = 0

\* PAYMENTS SERVICE: a payment settles or fails; a failed one is retried.
PaymentMoves(r) ==
  /\ \/ status[r] = "PENDING" /\ \E s \in {"COMPLETED", "FAILED"} : status' = [status EXCEPT ![r] = s]
     \/ status[r] = "FAILED" /\ status' = [status EXCEPT ![r] = "PENDING"]
  /\ UNCHANGED <<bucket, runs, records, reports, job, triggers, answers, seen, faults>>

\* trigger_reconciliation answers a POST (400 for a date it cannot parse, which
\* has no further effect).
Answer(d, execution, code) ==
  answers' = answers \cup {[date |-> d, execution |-> execution, code |-> code]}

\* CLEARING NETWORK: the settlement file of a date arrives.
FileArrives(d, f) ==
  /\ bucket[d] = Null
  /\ bucket' = [bucket EXCEPT ![d] = f]
  /\ UNCHANGED <<status, runs, records, reports, job, triggers, answers, seen, faults>>

\* Mutant of StartRun: an existing run is taken over, not refused.
RestartRun(w, d) ==
  /\ job[w].step = "idle"
  /\ triggers < MaxTriggers
  /\ triggers' = triggers + 1
  /\ runs' = [runs EXCEPT ![d] = [NoRun EXCEPT !.status = "RUNNING"]]
  /\ job' = [job EXCEPT ![w] = [Idle EXCEPT !.step = "load", !.date = d,
                                            !.execution = triggers + 1]]
  /\ UNCHANGED answers
  /\ UNCHANGED <<status, bucket, records, reports, seen, faults>>

\* POST /run: the row of the run is inserted, in a transaction of its own
\* outside the try.  Its primary key is the date, so a second execution for a
\* date ends here with a 500.
StartRun(w, d) ==
  /\ job[w].step = "idle"
  /\ triggers < MaxTriggers
  /\ triggers' = triggers + 1
  /\ \/ /\ Begin(d)
        /\ job' = [job EXCEPT ![w] = [Idle EXCEPT !.step = "load", !.date = d,
                                                  !.execution = triggers + 1]]
        /\ UNCHANGED answers
     \/ /\ runs[d] # NoRun
        /\ Answer(d, triggers + 1, 500)
        /\ UNCHANGED <<runs, records, job>>
  /\ UNCHANGED <<status, bucket, reports, seen, faults>>

\* Step 1 of the pipeline.
Load(w) ==
  LET internal == LoadInternalPayments(job[w].date) IN
  /\ job[w].step = "load"
  /\ job' = [job EXCEPT ![w].step = "fetch", ![w].internal = internal]
  /\ seen' = [seen EXCEPT ![job[w].date] = internal]
  /\ UNCHANGED <<status, bucket, runs, records, reports, triggers, answers, faults>>

\* Steps 2 and 3: the file is read, or is not there (NoSuchKey), and joined.
FetchAndReconcile(w) ==
  LET file == IF bucket[job[w].date] = Null THEN NoLines ELSE bucket[job[w].date]
      results == Reconcile(job[w].date, job[w].execution, job[w].internal, file) IN
  /\ job[w].step = "fetch"
  /\ bucket[job[w].date] # Garbled
  /\ job' = [job EXCEPT ![w].step = "persist", ![w].results = results, ![w].todo = results]
  /\ UNCHANGED <<status, bucket, runs, records, reports, triggers, answers, seen, faults>>

\* Mutant of FetchFails: giving up is not caught by the pipeline.
FetchFailsUncaught(w) ==
  /\ job[w].step = "fetch"
  /\ IF job[w].attempts + 1 < MaxAttempts
     THEN job' = [job EXCEPT ![w].attempts = @ + 1]
     ELSE job' = [job EXCEPT ![w] = Idle]
  /\ UNCHANGED <<status, bucket, runs, records, reports, triggers, answers, seen, faults>>

\* Mutant of FetchFails: <= for <.
FetchFailsOnceMore(w) ==
  /\ job[w].step = "fetch"
  /\ IF job[w].attempts + 1 <= MaxAttempts
     THEN job' = [job EXCEPT ![w].attempts = @ + 1]
     ELSE job' = [job EXCEPT ![w].step = "except"]
  /\ UNCHANGED <<status, bucket, runs, records, reports, triggers, answers, seen, faults>>

\* An attempt at the file fails, in S3 or in parsing it; the last one raises.
FetchFails(w) ==
  /\ job[w].step = "fetch"
  /\ IF job[w].attempts + 1 < MaxAttempts
     THEN job' = [job EXCEPT ![w].attempts = @ + 1]
     ELSE job' = [job EXCEPT ![w].step = "except"]
  /\ UNCHANGED <<status, bucket, runs, records, reports, triggers, answers, seen, faults>>

\* A missing line's settlement time is NaN, an unreadable one's NaT: the
\* column is a timestamp, and PostgreSQL takes neither.
Bindable(x) == x.line # Null /\ x.line.dated

\* The frame's order: payment_reference, then the line's place in the file.
Precedes(x, y) ==
  \/ x.reference < y.reference
  \/ x.reference = y.reference /\ x.line # Null /\ y.line # Null /\ x.line.number <= y.line.number

\* Mutant of IsBatch: the frame is inserted in any order.
IsAnyBatch(batch, todo) ==
  /\ batch # {}
  /\ Cardinality(batch) = BatchSize \/ (batch = todo /\ Cardinality(batch) < BatchSize)

\* The first BatchSize rows of those that are left, or all of them.
IsBatch(batch, todo) ==
  /\ batch # {}
  /\ Cardinality(batch) = BatchSize \/ (batch = todo /\ Cardinality(batch) < BatchSize)
  /\ \A x \in batch, y \in todo \ batch : Precedes(x, y)

\* Mutant of PersistBatch: what does not fill a batch is not inserted.
PersistFullBatches(w) ==
  /\ job[w].step = "persist"
  /\ \E batch \in SUBSET job[w].todo :
       /\ IsBatch(batch, job[w].todo)
       /\ \A x \in batch : Bindable(x)
       /\ records' = IF Cardinality(batch) = BatchSize THEN records \cup batch ELSE records
       /\ job' = [job EXCEPT ![w].todo = @ \ batch]
  /\ UNCHANGED <<status, bucket, runs, reports, triggers, answers, seen, faults>>

\* Step 4: a batch is inserted and committed.
PersistBatch(w) ==
  /\ job[w].step = "persist"
  /\ \E batch \in SUBSET job[w].todo :
       /\ IsBatch(batch, job[w].todo)
       /\ \A x \in batch : Bindable(x)
       /\ records' = records \cup batch
       /\ job' = [job EXCEPT ![w].todo = @ \ batch]
  /\ UNCHANGED <<status, bucket, runs, reports, triggers, answers, seen, faults>>

\* One row that cannot be bound fails its whole batch, and the failed flush
\* leaves the session refusing to commit.
PersistFails(w) ==
  /\ job[w].step = "persist"
  /\ \E batch \in SUBSET job[w].todo :
       IsBatch(batch, job[w].todo) /\ \E x \in batch : ~Bindable(x)
  /\ job' = [job EXCEPT ![w].step = "except", ![w].poisoned = TRUE]
  /\ UNCHANGED <<status, bucket, runs, records, reports, triggers, answers, seen, faults>>

\* Step 5: the counts and COMPLETED are committed.
CompleteRun(w) ==
  /\ job[w].step = "persist" /\ job[w].todo = {}
  /\ runs' = [runs EXCEPT ![job[w].date] = Tally(job[w].results)]
  /\ job' = [job EXCEPT ![w].step = "upload"]
  /\ UNCHANGED <<status, bucket, records, reports, triggers, answers, seen, faults>>

\* Step 6: a failed upload is logged and ignored.
UploadReport(w) ==
  /\ job[w].step = "upload"
  /\ reports' \in {reports, reports \cup {job[w].date}}
  /\ job' = [job EXCEPT ![w].step = "summary"]
  /\ UNCHANGED <<status, bucket, runs, records, triggers, answers, seen, faults>>

\* run.match_rate reloads the row the commit expired; then 200 is answered.
Summarize(w) ==
  /\ job[w].step = "summary"
  /\ Answer(job[w].date, job[w].execution, 200)
  /\ job' = [job EXCEPT ![w] = Idle]
  /\ UNCHANGED <<status, bucket, runs, records, reports, triggers, seen, faults>>

\* A database call of the pipeline raises.  Nothing rolls the session back:
\* after a failed write, or a read that failed inside a transaction, the
\* session refuses the except clause's commit as well.  A read that got no
\* connection leaves it usable.
DatabaseFails(w) ==
  /\ faults < MaxFaults
  /\ faults' = faults + 1
  /\ \/ /\ job[w].step \in {"load", "summary"}
        /\ \E poisoned \in BOOLEAN :
             job' = [job EXCEPT ![w].step = "except", ![w].poisoned = poisoned]
     \/ /\ job[w].step \in {"persist", "except"}
        /\ job' = [job EXCEPT ![w].step = "except", ![w].poisoned = TRUE]
  /\ UNCHANGED <<status, bucket, runs, records, reports, triggers, answers, seen>>

\* Mutant of FailRun: the except clause does not raise again.
FailRunQuietly(w) ==
  /\ job[w].step = "except"
  /\ runs' = IF job[w].poisoned THEN runs
             ELSE [runs EXCEPT ![job[w].date].status = "FAILED"]
  /\ Answer(job[w].date, job[w].execution, IF job[w].poisoned THEN 500 ELSE 200)
  /\ job' = [job EXCEPT ![w] = Idle]
  /\ UNCHANGED <<status, bucket, records, reports, triggers, seen, faults>>

\* The except clause: FAILED is committed if the session still can be, and
\* the POST is answered 500 either way.
FailRun(w) ==
  /\ job[w].step = "except"
  /\ runs' = IF job[w].poisoned THEN runs
             ELSE [runs EXCEPT ![job[w].date].status = "FAILED"]
  /\ Answer(job[w].date, job[w].execution, 500)
  /\ job' = [job EXCEPT ![w] = Idle]
  /\ UNCHANGED <<status, bucket, records, reports, triggers, seen, faults>>

\* gunicorn kills a worker that is silent for 60 s, or its pod dies.
KillWorker(w) ==
  /\ faults < MaxFaults
  /\ faults' = faults + 1
  /\ job[w].step # "idle"
  /\ job' = [job EXCEPT ![w] = Idle]
  /\ UNCHANGED <<status, bucket, runs, records, reports, triggers, answers, seen>>

PipelineStep(w) == \/ Load(w) \/ FetchAndReconcile(w) \/ FetchFails(w) \/ PersistBatch(w)
                   \/ PersistFails(w) \/ CompleteRun(w) \/ UploadReport(w) \/ Summarize(w) \/ FailRun(w)

Next ==
  \/ \E r \in Refs : PaymentMoves(r)
  \/ \E d \in Dates, f \in Files : FileArrives(d, f)
  \/ \E w \in Workers, d \in Dates : StartRun(w, d)
  \/ \E w \in Workers : PipelineStep(w) \/ DatabaseFails(w) \/ KillWorker(w)

Spec == Init /\ [][Next]_vars

\* A worker that is in the pipeline goes on.
FairSpec == Spec /\ \A w \in Workers : WF_vars(PipelineStep(w))
=============================================================================
