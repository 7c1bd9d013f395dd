------------------------ MODULE ReconciliationProofs ------------------------
(***************************************************************************)
(* Proofs about Reconciliation for every set of workers, dates, payments   *)
(* and settlement files, every size of batch and any number of POSTs and   *)
(* faults: the invariant of ReconciliationProperties is inductive, and     *)
(* what the reporting database shows is a behaviour of RunLedger.          *)
(***************************************************************************)
EXTENDS ReconciliationProperties, RunLedgerProofs, FiniteSetTheorems, TLAPS

----------------------------------------------------------------------------
\* The join and its classification

\* _classify_record returns one of its three results, and MATCHED only for
\* what agrees.
LEMMA Classification ==
  ASSUME NEW row, NEW file
  PROVE  /\ ClassifyRecord(row, file) \in {"MATCHED", "UNMATCHED", "EXCEPTION"}
         /\ ClassifyRecord(row, file) = "MATCHED" =>
              /\ row.line # Null
              /\ AmountsPass(row.reference, row.line)
              /\ Payment[row.reference].currency = row.line.currency
<1> DEFINE named == ClearingReference(row, file) # Null
           agrees == /\ row.line # Null
                     /\ AmountsPass(row.reference, row.line)
                     /\ Payment[row.reference].currency = row.line.currency
<1>1. ClassifyRecord(row, file) = CASE ~named -> "UNMATCHED"
                                    [] named /\ agrees -> "MATCHED"
                                    [] named /\ ~agrees -> "EXCEPTION"
  BY DEF ClassifyRecord
<1> HIDE DEF named, agrees
<1>2. /\ ~named => ClassifyRecord(row, file) = "UNMATCHED"
      /\ named /\ agrees => ClassifyRecord(row, file) = "MATCHED"
      /\ named /\ ~agrees => ClassifyRecord(row, file) = "EXCEPTION"
  BY <1>1
<1> QED BY <1>2 DEF agrees

\* Amounts that pass are half a minor unit apart at most, however the
\* comparison of floats falls at the boundary.
LEMMA PassingIsClose ==
  ASSUME NEW r \in Refs, NEW line \in Line, line.amount # Null,
         Digits[Payment[r].currency] # 0, AmountsPass(r, line)
  PROVE  Close(r, line.amount)
<1>1. line.amount \in Nat /\ InternalAmount(r) \in Nat
  BY ReconciliationAssumption DEF Line, InternalAmount, ReconciliationAssumption
<1>2. Thousandths(r) = InternalAmount(r)
  BY DEF Thousandths, InternalAmount
<1>3. ~(InternalAmount(r) > line.amount + Tolerance) /\ ~(line.amount > InternalAmount(r) + Tolerance)
  BY DEF AmountsPass, Exceeds
<1> HIDE DEF InternalAmount
<1> QED BY <1>1, <1>2, <1>3 DEF Close, Tolerance

\* Every row of the join is a row of reconciliation_records, of the execution
\* that made it, and MATCHED only if it is right.
LEMMA JoinedRows ==
  ASSUME NEW d \in Dates, NEW execution \in Nat, NEW internal \in SUBSET Refs,
         NEW file, file.lines \in SUBSET Line
  PROVE  \A x \in Reconcile(d, execution, internal, file) :
           x \in Row /\ x.date = d /\ x.execution = execution /\ RightlyMatched(x)
<1> SUFFICES ASSUME NEW row \in Merged(internal, file)
             PROVE  LET x == Record(d, execution, row, file) IN
                    x \in Row /\ x.date = d /\ x.execution = execution /\ RightlyMatched(x)
  BY DEF Reconcile
<1>1. row.reference \in Refs /\ row.line \in Line \cup {Null}
  BY DEF Merged, Line
<1>2. Record(d, execution, row, file) \in Row
  BY <1>1, Classification DEF Record, Row
<1>3. RightlyMatched(Record(d, execution, row, file))
  <2> SUFFICES ASSUME ClassifyRecord(row, file) = "MATCHED",
                      Digits[Payment[row.reference].currency] = 2
               PROVE  /\ row.line # Null
                      /\ row.line.currency = Payment[row.reference].currency
                      /\ row.line.amount # Null => Close(row.reference, row.line.amount)
    BY DEF RightlyMatched, Record
  <2>1. /\ row.line # Null /\ AmountsPass(row.reference, row.line)
        /\ Payment[row.reference].currency = row.line.currency
    BY Classification
  <2> QED BY <1>1, <2>1, PassingIsClose
<1> QED BY <1>2, <1>3 DEF Record

\* The left join keeps every payment, and no line of another one.
LEMMA JoinKeepsPayments ==
  ASSUME NEW d, NEW execution, NEW internal, NEW file
  PROVE  {x.reference : x \in Reconcile(d, execution, internal, file)} = internal
<1>1. ASSUME NEW r \in internal
      PROVE  \E row \in Merged(internal, file) : row.reference = r
  <2>1. CASE \A l \in file.lines : l.reference # r
    <3>1. [reference |-> r, line |-> Null] \in Merged(internal, file)
      BY <2>1 DEF Merged
    <3> QED BY <3>1
  <2>2. ASSUME NEW l \in file.lines, l.reference = r
        PROVE  \E row \in Merged(internal, file) : row.reference = r
    <3>1. [reference |-> l.reference, line |-> l] \in Merged(internal, file)
      BY <2>2 DEF Merged
    <3> QED BY <3>1, <2>2
  <2> QED BY <2>1, <2>2
<1>2. \A row \in Merged(internal, file) : row.reference \in internal
  BY DEF Merged
<1>3. \A row : Record(d, execution, row, file).reference = row.reference
  BY DEF Record
<1> QED BY <1>1, <1>2, <1>3 DEF Reconcile

\* Finitely many payments and lines make finitely many rows.
LEMMA JoinIsFinite ==
  ASSUME NEW d, NEW execution, NEW internal \in SUBSET Refs, NEW file, IsFiniteSet(file.lines)
  PROVE  IsFiniteSet(Reconcile(d, execution, internal, file))
<1> DEFINE withLine == {m \in file.lines : m.reference \in internal}
           alone == {i \in internal : \A l \in file.lines : l.reference # i}
           ofLine(l) == Record(d, execution, [reference |-> l.reference, line |-> l], file)
           ofNone(r) == Record(d, execution, [reference |-> r, line |-> Null], file)
           A == {ofLine(l) : l \in withLine}
           B == {ofNone(r) : r \in alone}
<1>1. IsFiniteSet(withLine) /\ IsFiniteSet(alone)
  BY FS_Subset, ReconciliationAssumption DEF ReconciliationAssumption
<1>2. Reconcile(d, execution, internal, file) = A \cup B
  BY DEF Reconcile, Merged
<1>3. IsFiniteSet(A)
  <2> DEFINE f == [l \in withLine |-> ofLine(l)]
  <2>1. f \in Surjection(withLine, A)
    BY DEF Surjection
  <2> HIDE DEF f, A, withLine
  <2> QED BY <2>1, <1>1, FS_Surjection
<1>4. IsFiniteSet(B)
  <2> DEFINE f == [r \in alone |-> ofNone(r)]
  <2>1. f \in Surjection(alone, B)
    BY DEF Surjection
  <2> HIDE DEF f, B, alone
  <2> QED BY <2>1, <1>1, FS_Surjection
<1> HIDE DEF A, B
<1> QED BY <1>2, <1>3, <1>4, FS_Union

----------------------------------------------------------------------------
\* The counts of a run

\* The counts of a completed run are natural and add up to its number of rows.
LEMMA TallyAdds ==
  ASSUME NEW rows \in SUBSET Row, IsFiniteSet(rows)
  PROVE  /\ Tally(rows) \in [status : RunStatus, total : Nat, matched : Nat,
                             unmatched : Nat, exceptions : Nat]
         /\ Tally(rows).total = Tally(rows).matched + Tally(rows).unmatched
                                + Tally(rows).exceptions
<1> DEFINE Of(s) == {x \in rows : x.status = s}
           M == Of("MATCHED")  U == Of("UNMATCHED")  E == Of("EXCEPTION")
<1>1. IsFiniteSet(M) /\ IsFiniteSet(U) /\ IsFiniteSet(E)
  BY FS_Subset
<1>2. rows = (M \cup U) \cup E
  BY DEF Row
<1>3. M \cap U = {} /\ (M \cup U) \cap E = {}
  OBVIOUS
<1>4. Count(rows, "MATCHED") = Cardinality(M) /\ Count(rows, "UNMATCHED") = Cardinality(U)
      /\ Count(rows, "EXCEPTION") = Cardinality(E)
  BY DEF Count
<1> HIDE DEF M, U, E
<1>5. /\ Cardinality(M) \in Nat /\ Cardinality(U) \in Nat /\ Cardinality(E) \in Nat
      /\ Cardinality(rows) \in Nat
  BY <1>1, FS_CardinalityType
<1>6. IsFiniteSet(M \cup U) /\ Cardinality(M \cup U) = Cardinality(M) + Cardinality(U)
  BY <1>1, <1>3, <1>5, FS_Union, FS_EmptySet
<1>7. Cardinality(rows) = Cardinality(M) + Cardinality(U) + Cardinality(E)
  <2> DEFINE MU == M \cup U
  <2>1. IsFiniteSet(MU) /\ Cardinality(MU) = Cardinality(M) + Cardinality(U)
    BY <1>6
  <2>2. rows = MU \cup E /\ MU \cap E = {}
    BY <1>2, <1>3
  <2> HIDE DEF MU
  <2>3. Cardinality(MU \cap E) = 0
    BY <2>2, FS_EmptySet
  <2>4. Cardinality(MU \cup E) = Cardinality(MU) + Cardinality(E) - Cardinality(MU \cap E)
    BY <1>1, <2>1, FS_Union
  <2>5. Cardinality(rows) = Cardinality(MU) + Cardinality(E) - 0
    BY <2>2, <2>3, <2>4
  <2> QED BY <1>5, <2>1, <2>5
<1> QED BY <1>4, <1>5, <1>7 DEF Tally, RunStatus

----------------------------------------------------------------------------
\* Type correctness

\* The initial state satisfies the inductive invariant.
LEMMA ReconciliationInit == Init => ReconciliationIInv
<1> SUFFICES ASSUME Init PROVE ReconciliationIInv
  OBVIOUS
<1> USE DEF Init, LedgerInit
<1>1. Idle \in Execution /\ Idle.step = "idle" /\ Idle.todo = {} /\ Idle.results = {}
  BY ReconciliationAssumption DEF Idle, Execution, ReconciliationAssumption
<1>2. NoRun \in [status : RunStatus, total : Nat, matched : Nat, unmatched : Nat,
                exceptions : Nat]
      /\ NoRun.status = "NONE"
  BY DEF NoRun, RunStatus
<1>3. ReconciliationTypeOK
  BY <1>1, <1>2, ReconciliationAssumption
     DEF ReconciliationTypeOK, ReconciliationAssumption, HasItsRows
<1>4. \A w \in Workers : ~Busy(w) /\ \A d : ~Working(w, d)
  BY <1>1 DEF Busy, Working
<1>5. \A d \in Dates : RecordsOf(d) = {}
  BY DEF RecordsOf
<1>6. UntouchedIsEmpty /\ WorkFits
  BY <1>4, <1>5 DEF UntouchedIsEmpty, WorkFits
<1>7. AnsweredIsOver
  BY DEF AnsweredIsOver
<1>8. CompletedAddsUp
  BY <1>2 DEF CompletedAddsUp
<1>9. MatchesAgree /\ OneExecutionPerDate /\ AnsweredIsCompleted
  BY <1>4 DEF MatchesAgree, OneExecutionPerDate, AnsweredIsCompleted
<1> QED BY <1>3, <1>6, <1>7, <1>8, <1>9 DEF ReconciliationIInv

\* A job that is replaced by one of its type leaves the jobs typed.
LEMMA JobReplaced ==
  ASSUME ReconciliationTypeOK, NEW w \in Workers, NEW j \in Execution, HasItsRows(j),
         job' = [job EXCEPT ![w] = j]
  PROVE  job' \in [Workers -> Execution] /\ \A v \in Workers : HasItsRows(job'[v])
<1>1. \A v \in Workers : job'[v] = IF v = w THEN j ELSE job[v]
  BY DEF ReconciliationTypeOK
<1>2. job' \in [Workers -> Execution]
  BY DEF ReconciliationTypeOK
<1> QED BY <1>1, <1>2 DEF ReconciliationTypeOK

\* The idle job has its type.
LEMMA IdleType == Idle \in Execution /\ HasItsRows(Idle) /\ Idle.step = "idle"
BY ReconciliationAssumption DEF Idle, Execution, HasItsRows, ReconciliationAssumption

\* The rows a worker joins have their types, and their properties.
LEMMA FetchedRows ==
  ASSUME ReconciliationTypeOK, NEW w \in Workers, FetchAndReconcile(w)
  PROVE  \E file :
           /\ file.lines \in SUBSET Line /\ IsFiniteSet(file.lines)
           /\ job' = [job EXCEPT ![w].step = "persist",
                  ![w].results = Reconcile(job[w].date, job[w].execution, job[w].internal, file),
                  ![w].todo = Reconcile(job[w].date, job[w].execution, job[w].internal, file)]
<1> DEFINE file == IF bucket[job[w].date] = Null THEN NoLines ELSE bucket[job[w].date]
<1>1. NoLines.lines = {} /\ IsFiniteSet({})
  BY FS_EmptySet DEF NoLines
<1>2. job[w].date \in Dates
  BY DEF ReconciliationTypeOK, FetchAndReconcile, HasItsRows
<1>3. bucket[job[w].date] # Null =>
        bucket[job[w].date] \in File /\ IsFiniteSet(bucket[job[w].date].lines)
  BY <1>2, ReconciliationAssumption
     DEF ReconciliationTypeOK, FetchAndReconcile, ReconciliationAssumption
<1>4. file.lines \in SUBSET Line /\ IsFiniteSet(file.lines)
  BY <1>1, <1>3 DEF File
<1> QED BY <1>4 DEF FetchAndReconcile

\* Every step preserves the type invariant.
LEMMA ReconciliationTypeStep ==
  ReconciliationIInv /\ [Next]_vars => ReconciliationTypeOK'
<1> SUFFICES ASSUME ReconciliationIInv, [Next]_vars PROVE ReconciliationTypeOK'
  OBVIOUS
<1>0. ReconciliationTypeOK
  BY DEF ReconciliationIInv
<1>a. \A w \in Workers : job[w] \in Execution /\ HasItsRows(job[w])
  BY <1>0 DEF ReconciliationTypeOK
<1> USE <1>0
<1>1. ASSUME NEW r \in Refs, PaymentMoves(r) PROVE ReconciliationTypeOK'
  BY <1>1 DEF PaymentMoves, ReconciliationTypeOK
<1>2. ASSUME NEW d \in Dates, NEW f \in Files, FileArrives(d, f) PROVE ReconciliationTypeOK'
  BY <1>2 DEF FileArrives, ReconciliationTypeOK
<1>3. ASSUME NEW w \in Workers, NEW d \in Dates, StartRun(w, d) PROVE ReconciliationTypeOK'
  <2>1. triggers + 1 \in Nat /\ triggers' \in 0..MaxTriggers
    BY <1>3, ReconciliationAssumption
       DEF StartRun, ReconciliationTypeOK, ReconciliationAssumption
  <2> DEFINE j == [Idle EXCEPT !.step = "load", !.date = d, !.execution = triggers + 1]
  <2>2. CASE Begin(d) /\ job' = [job EXCEPT ![w] = j] /\ UNCHANGED answers
    <3>1. j \in Execution /\ HasItsRows(j)
      BY <2>1, IdleType DEF Idle, Execution, HasItsRows
    <3> HIDE DEF j
    <3>2. runs' \in [Dates -> [status : RunStatus, total : Nat, matched : Nat, unmatched : Nat,
                              exceptions : Nat]]
      BY <2>2 DEF Begin, RunStatus, ReconciliationTypeOK
    <3> QED BY <1>3, <2>1, <2>2, <3>1, <3>2, JobReplaced
            DEF StartRun, Begin, ReconciliationTypeOK
  <2>3. CASE Answer(d, triggers + 1, 500) /\ UNCHANGED <<runs, records, job>>
    BY <1>3, <2>1, <2>3 DEF StartRun, Answer, ReconciliationTypeOK
  <2> QED BY <1>3, <2>2, <2>3 DEF StartRun
<1>4. ASSUME NEW w \in Workers, Load(w) PROVE ReconciliationTypeOK'
  <2> DEFINE internal == LoadInternalPayments(job[w].date)
             j == [job[w] EXCEPT !.step = "fetch", !.internal = internal]
  <2>1. internal \in SUBSET Refs
    BY DEF LoadInternalPayments
  <2>2. job[w].date \in Dates
    BY <1>4, <1>a DEF Load, HasItsRows
  <2> HIDE DEF internal
  <2>3. j \in Execution /\ HasItsRows(j)
    BY <1>a, <2>1, <2>2 DEF Execution, HasItsRows
  <2>4. job' = [job EXCEPT ![w] = j] /\ seen' = [seen EXCEPT ![job[w].date] = internal]
    BY <1>4 DEF Load, internal, ReconciliationTypeOK
  <2> HIDE DEF j
  <2> QED BY <1>4, <2>1, <2>3, <2>4, JobReplaced DEF Load, ReconciliationTypeOK
<1>5. ASSUME NEW w \in Workers, FetchAndReconcile(w) PROVE ReconciliationTypeOK'
  <2>1. PICK file :
          /\ file.lines \in SUBSET Line
          /\ job' = [job EXCEPT ![w].step = "persist",
                 ![w].results = Reconcile(job[w].date, job[w].execution, job[w].internal, file),
                 ![w].todo = Reconcile(job[w].date, job[w].execution, job[w].internal, file)]
    BY <1>5, FetchedRows
  <2> DEFINE R == Reconcile(job[w].date, job[w].execution, job[w].internal, file)
             j == [job[w] EXCEPT !.step = "persist", !.results = R, !.todo = R]
  <2>2. job[w].date \in Dates /\ job[w].execution \in Nat /\ job[w].internal \in SUBSET Refs
    BY <1>5, <1>a DEF FetchAndReconcile, Execution, HasItsRows
  <2>3. R \in SUBSET Row
    BY <2>1, <2>2, JoinedRows
  <2> HIDE DEF R
  <2>4. job' = [job EXCEPT ![w] = j]
    BY <2>1 DEF R, ReconciliationTypeOK
  <2>5. j \in Execution /\ HasItsRows(j)
    BY <1>a, <2>2, <2>3 DEF Execution, HasItsRows
  <2> HIDE DEF j
  <2> QED BY <1>5, <2>4, <2>5, JobReplaced DEF FetchAndReconcile, ReconciliationTypeOK
<1>6. ASSUME NEW w \in Workers, FetchFails(w) PROVE ReconciliationTypeOK'
  <2>1. PICK j \in {[job[w] EXCEPT !.attempts = @ + 1], [job[w] EXCEPT !.step = "except"]} :
          /\ job' = [job EXCEPT ![w] = j]
          /\ j = [job[w] EXCEPT !.attempts = @ + 1] => job[w].attempts + 1 < MaxAttempts
    BY <1>6 DEF FetchFails, ReconciliationTypeOK, Execution
  <2>2. j \in Execution /\ HasItsRows(j)
    BY <1>6, <1>a, <2>1, ReconciliationAssumption
       DEF FetchFails, Execution, HasItsRows, ReconciliationAssumption
  <2> QED BY <1>6, <2>1, <2>2, JobReplaced DEF FetchFails, ReconciliationTypeOK
<1>7. ASSUME NEW w \in Workers, PersistBatch(w) PROVE ReconciliationTypeOK'
  <2>1. PICK b \in SUBSET job[w].todo :
          records' = records \cup b /\ job' = [job EXCEPT ![w].todo = @ \ b]
    BY <1>7 DEF PersistBatch
  <2> DEFINE j == [job[w] EXCEPT !.todo = @ \ b]
  <2>2. j \in Execution /\ HasItsRows(j)
    BY <1>7, <1>a DEF PersistBatch, Execution, HasItsRows
  <2>3. records' \in SUBSET Row
    BY <1>a, <2>1 DEF Execution, ReconciliationTypeOK
  <2>4. job' = [job EXCEPT ![w] = j]
    BY <2>1 DEF ReconciliationTypeOK
  <2> HIDE DEF j
  <2> QED BY <1>7, <2>2, <2>3, <2>4, JobReplaced DEF PersistBatch, ReconciliationTypeOK
<1>8. ASSUME NEW w \in Workers, PersistFails(w) PROVE ReconciliationTypeOK'
  <2> DEFINE j == [job[w] EXCEPT !.step = "except", !.poisoned = TRUE]
  <2>1. j \in Execution /\ HasItsRows(j)
    BY <1>8, <1>a DEF PersistFails, Execution, HasItsRows
  <2>2. job' = [job EXCEPT ![w] = j]
    BY <1>8 DEF PersistFails, ReconciliationTypeOK
  <2> HIDE DEF j
  <2> QED BY <1>8, <2>1, <2>2, JobReplaced DEF PersistFails, ReconciliationTypeOK
<1>9. ASSUME NEW w \in Workers, CompleteRun(w) PROVE ReconciliationTypeOK'
  <2> DEFINE j == [job[w] EXCEPT !.step = "upload"]
  <2>1. job[w].results \in SUBSET Row /\ IsFiniteSet(job[w].results)
    BY <1>9, <1>a DEF CompleteRun, Execution, HasItsRows, Busy, Working,
                     WorkFits, ResultsFit, ReconciliationIInv
  <2>2. runs' \in [Dates -> [status : RunStatus, total : Nat, matched : Nat, unmatched : Nat,
                            exceptions : Nat]]
    BY <1>9, <2>1, TallyAdds DEF CompleteRun, ReconciliationTypeOK
  <2>3. j \in Execution /\ HasItsRows(j)
    BY <1>9, <1>a DEF CompleteRun, Execution, HasItsRows
  <2>4. job' = [job EXCEPT ![w] = j]
    BY <1>9 DEF CompleteRun, ReconciliationTypeOK
  <2> HIDE DEF j
  <2> QED BY <1>9, <2>2, <2>3, <2>4, JobReplaced DEF CompleteRun, ReconciliationTypeOK
<1>10. ASSUME NEW w \in Workers, UploadReport(w) PROVE ReconciliationTypeOK'
  <2> DEFINE j == [job[w] EXCEPT !.step = "summary"]
  <2>1. j \in Execution /\ HasItsRows(j) /\ job' = [job EXCEPT ![w] = j] /\ job[w].date \in Dates
    BY <1>10, <1>a DEF UploadReport, Execution, HasItsRows, ReconciliationTypeOK
  <2> HIDE DEF j
  <2> QED BY <1>10, <2>1, JobReplaced DEF UploadReport, ReconciliationTypeOK
<1>11. ASSUME NEW w \in Workers, NEW code \in {200, 500}, job[w].step # "idle",
              Answer(job[w].date, job[w].execution, code)
       PROVE  answers' \in SUBSET [date : Dates, execution : Nat, code : {200, 500}]
  BY <1>11, <1>a DEF Answer, Execution, HasItsRows, ReconciliationTypeOK
<1>12. ASSUME NEW w \in Workers, Summarize(w) PROVE ReconciliationTypeOK'
  <2>1. answers' \in SUBSET [date : Dates, execution : Nat, code : {200, 500}]
    BY <1>11, <1>12 DEF Summarize
  <2> QED BY <1>12, <2>1, IdleType, JobReplaced DEF Summarize, ReconciliationTypeOK
<1>13. ASSUME NEW w \in Workers, FailRun(w) PROVE ReconciliationTypeOK'
  <2>1. answers' \in SUBSET [date : Dates, execution : Nat, code : {200, 500}]
    BY <1>11, <1>13 DEF FailRun
  <2>2. runs' \in [Dates -> [status : RunStatus, total : Nat, matched : Nat, unmatched : Nat,
                            exceptions : Nat]]
    <3>1. \A r : r \in [status : RunStatus, total : Nat, matched : Nat, unmatched : Nat,
                        exceptions : Nat] =>
                 [r EXCEPT !.status = "FAILED"] \in [status : RunStatus, total : Nat,
                        matched : Nat, unmatched : Nat, exceptions : Nat]
      BY DEF RunStatus
    <3>2. runs' = runs \/ runs' = [runs EXCEPT ![job[w].date] =
                                   [runs[job[w].date] EXCEPT !.status = "FAILED"]]
      BY <1>13, <1>a DEF FailRun, HasItsRows, ReconciliationTypeOK
    <3> QED BY <1>13, <1>a, <3>1, <3>2 DEF FailRun, HasItsRows, ReconciliationTypeOK
  <2> QED BY <1>13, <2>1, <2>2, IdleType, JobReplaced DEF FailRun, ReconciliationTypeOK
<1>14. ASSUME NEW w \in Workers, DatabaseFails(w) PROVE ReconciliationTypeOK'
  <2>1. PICK b \in BOOLEAN : job' = [job EXCEPT ![w].step = "except", ![w].poisoned = b]
    BY <1>14 DEF DatabaseFails
  <2> DEFINE j == [job[w] EXCEPT !.step = "except", !.poisoned = b]
  <2>2. j \in Execution /\ HasItsRows(j)
    BY <1>14, <1>a DEF DatabaseFails, Execution, HasItsRows
  <2>4. job' = [job EXCEPT ![w] = j]
    BY <2>1 DEF ReconciliationTypeOK
  <2> HIDE DEF j
  <2>3. faults' \in 0..MaxFaults
    BY <1>14, ReconciliationAssumption
       DEF DatabaseFails, ReconciliationTypeOK, ReconciliationAssumption
  <2> QED BY <1>14, <2>2, <2>3, <2>4, JobReplaced DEF DatabaseFails, ReconciliationTypeOK
<1>15. ASSUME NEW w \in Workers, KillWorker(w) PROVE ReconciliationTypeOK'
  <2>1. faults' \in 0..MaxFaults
    BY <1>15, ReconciliationAssumption
       DEF KillWorker, ReconciliationTypeOK, ReconciliationAssumption
  <2> QED BY <1>15, <2>1, IdleType, JobReplaced DEF KillWorker, ReconciliationTypeOK
<1>16. CASE UNCHANGED vars
  BY <1>16 DEF vars, ReconciliationTypeOK
<1> QED BY <1>1, <1>2, <1>3, <1>4, <1>5, <1>6, <1>7, <1>8, <1>9, <1>10, <1>12, <1>13,
           <1>14, <1>15, <1>16 DEF Next, PipelineStep

----------------------------------------------------------------------------
\* The inductive step

\* What changes nothing the invariant speaks of preserves it.
LEMMA Elsewhere ==
  ASSUME ReconciliationIInv, ReconciliationTypeOK',
         UNCHANGED <<runs, records, reports, job, answers, seen>>
  PROVE  ReconciliationIInv'
<1>1. \A d : RecordsOf(d)' = RecordsOf(d)
  BY DEF RecordsOf
<1>2. \A w, d : Working(w, d)' = Working(w, d)
  BY DEF Working, Busy
<1>3. UntouchedIsEmpty'
  BY <1>1, <1>2 DEF ReconciliationIInv, UntouchedIsEmpty
<1>4. WorkFits'
  <2>1. \A w, d : /\ RunFits(w, d)' = RunFits(w, d)
                  /\ RowsFit(w, d)' = RowsFit(w, d)
                  /\ ResultsFit(w, d)' = ResultsFit(w, d)
    BY <1>1 DEF RunFits, RowsFit, ResultsFit
  <2> QED BY <1>2, <2>1 DEF ReconciliationIInv, WorkFits
<1>5. AnsweredIsOver' /\ MatchesAgree' /\ OneExecutionPerDate' /\ AnsweredIsCompleted'
  BY <1>1, <1>2 DEF ReconciliationIInv, AnsweredIsOver, MatchesAgree, OneExecutionPerDate,
                    AnsweredIsCompleted
<1>6. CompletedAddsUp'
  BY <1>1 DEF ReconciliationIInv, CompletedAddsUp, AddsUp
<1> QED BY <1>3, <1>4, <1>5, <1>6 DEF ReconciliationIInv

\* A worker disturbs its own date only: if all is well there, it is everywhere.
LEMMA OwnDate ==
  ASSUME ReconciliationIInv, ReconciliationTypeOK',
         NEW w \in Workers, Busy(w), NEW D, D = job[w].date,
         \A v \in Workers \ {w} : job'[v] = job[v],
         Busy(w)' => job'[w].date = D /\ job'[w].execution = job[w].execution,
         \A d \in Dates \ {D} :
           /\ runs'[d] = runs[d] /\ seen'[d] = seen[d] /\ (d \in reports' <=> d \in reports),
         records \subseteq records',
         \A x \in records' \ records :
           x.date = D /\ x.execution = job[w].execution /\ RightlyMatched(x),
         \A a \in answers' \ answers :
           a.date = D /\ a.execution = job[w].execution
             /\ (a.code = 200 => runs'[D].status = "COMPLETED" /\ ~Busy(w)'),
         runs'[D] # NoRun,
         Busy(w)' => RunFits(w, D)' /\ RowsFit(w, D)' /\ ResultsFit(w, D)',
         runs'[D].status = "COMPLETED" \/ D \in reports' => AddsUp(D)'
  PROVE  ReconciliationIInv'
<1> USE DEF ReconciliationIInv
<1>1. D \in Dates /\ Working(w, D)
  BY DEF ReconciliationTypeOK, HasItsRows, Busy, Working
<1>2. \A d \in Dates \ {D} : RecordsOf(d)' = RecordsOf(d)
  BY DEF RecordsOf
<1>3. \A v \in Workers \ {w} : \A d \in Dates :
        /\ Working(v, d)' = Working(v, d)
        /\ Working(v, d) => d # D
  <2>1. \A v \in Workers \ {w} : \A d : Working(v, d)' = Working(v, d)
    BY DEF Working, Busy
  <2>2. \A v \in Workers : Working(v, D) => v = w
    BY <1>1 DEF OneExecutionPerDate
  <2> QED BY <2>1, <2>2
<1>4. \A d \in Dates : Working(w, d)' => d = D /\ Busy(w)'
  BY DEF Working
<1>5. UntouchedIsEmpty'
  BY <1>2, <1>3, <1>4 DEF UntouchedIsEmpty
<1>6. WorkFits'
  <2>1. ASSUME NEW d \in Dates, NEW v \in Workers \ {w}, Working(v, d)'
        PROVE  RunFits(v, d)' /\ RowsFit(v, d)' /\ ResultsFit(v, d)'
    <3>1. Working(v, d) /\ d \in Dates \ {D}
      BY <1>3, <2>1
    <3>2. /\ job'[v] = job[v] /\ runs'[d] = runs[d] /\ seen'[d] = seen[d]
          /\ (d \in reports' <=> d \in reports) /\ RecordsOf(d)' = RecordsOf(d)
      BY <1>2, <3>1
    <3>3. RunFits(v, d) /\ RowsFit(v, d) /\ ResultsFit(v, d)
      BY <3>1 DEF WorkFits
    <3> QED BY <3>2, <3>3 DEF RunFits, RowsFit, ResultsFit
  <2> QED BY <1>4, <2>1 DEF WorkFits
<1>7. AnsweredIsOver'
  <2>1. ASSUME NEW a \in answers', NEW v \in Workers, a.code = 200, Working(v, a.date)'
        PROVE  FALSE
    <3>1. CASE a \in answers
      <4>1. ~Working(v, a.date) /\ ~Working(w, a.date) /\ a.date \in Dates
        BY <2>1, <3>1 DEF AnsweredIsOver, ReconciliationTypeOK
      <4> QED BY <1>1, <1>3, <1>4, <2>1, <4>1
    <3>2. CASE a \notin answers
      BY <1>1, <1>3, <1>4, <2>1, <3>2
    <3> QED BY <3>1, <3>2
  <2> QED BY <2>1 DEF AnsweredIsOver
<1>8. CompletedAddsUp'
  <2>1. ASSUME NEW d \in Dates \ {D}, runs'[d].status = "COMPLETED" \/ d \in reports'
        PROVE  AddsUp(d)'
    BY <1>2, <2>1 DEF CompletedAddsUp, AddsUp
  <2> QED BY <2>1 DEF CompletedAddsUp
<1>9. MatchesAgree'
  <2>1. \A x : RightlyMatched(x)' = RightlyMatched(x)
    BY DEF RightlyMatched, Close, Thousandths
  <2> QED BY <2>1 DEF MatchesAgree
<1>10. OneExecutionPerDate'
  <2>1. \A x \in RecordsOf(D)' : x.execution = job[w].execution
    BY <1>1 DEF RecordsOf, OneExecutionPerDate
  <2>2. \A x, y \in records' : x.date = y.date => x.execution = y.execution
    BY <2>1 DEF RecordsOf, OneExecutionPerDate
  <2>3. \A d \in Dates, v, u \in Workers : (Working(v, d)' /\ Working(u, d)') => v = u
    BY <1>3, <1>4 DEF OneExecutionPerDate
  <2>4. \A d \in Dates, v \in Workers : Working(v, d)' =>
          \A x \in RecordsOf(d)' : x.execution = job'[v].execution
    BY <1>2, <1>3, <1>4, <2>1 DEF OneExecutionPerDate
  <2> QED BY <2>2, <2>3, <2>4 DEF OneExecutionPerDate
<1>11. AnsweredIsCompleted'
  <2>1. ASSUME NEW a \in answers', a.code = 200
        PROVE  /\ runs'[a.date].status = "COMPLETED"
               /\ \A x \in RecordsOf(a.date)' : x.execution = a.execution
    <3>1. CASE a \in answers
      <4>1. a.date \in Dates /\ a.date # D
        BY <1>1, <2>1, <3>1 DEF AnsweredIsOver, ReconciliationTypeOK
      <4> QED BY <1>2, <2>1, <3>1, <4>1 DEF AnsweredIsCompleted
    <3>2. CASE a \notin answers
      <4>1. \A x \in RecordsOf(D)' : x.execution = job[w].execution
        BY <1>1 DEF RecordsOf, OneExecutionPerDate
      <4> QED BY <2>1, <3>2, <4>1
    <3> QED BY <3>1, <3>2
  <2> QED BY <2>1 DEF AnsweredIsCompleted
<1> QED BY <1>5, <1>6, <1>7, <1>8, <1>9, <1>10, <1>11

\* A POST begins a run on a date that has nothing, or is refused.
LEMMA StartKeeps ==
  ASSUME ReconciliationIInv, ReconciliationTypeOK',
         NEW w \in Workers, NEW d \in Dates, StartRun(w, d)
  PROVE  ReconciliationIInv'
<1> USE DEF ReconciliationIInv
<1>0. UNCHANGED <<records, reports, seen>> /\ job[w].step = "idle"
  BY DEF StartRun, Begin
<1>1. \A e : RecordsOf(e)' = RecordsOf(e)
  BY <1>0 DEF RecordsOf
<1>2. \A x : RightlyMatched(x)' = RightlyMatched(x)
  BY DEF RightlyMatched, Close, Thousandths
<1>3. CASE Begin(d) /\ job' = [job EXCEPT ![w] = [Idle EXCEPT !.step = "load", !.date = d,
                                                           !.execution = triggers + 1]]
           /\ UNCHANGED answers
  <2>1. /\ runs[d] = NoRun /\ runs'[d].status = "RUNNING" /\ runs'[d] # NoRun
        /\ \A e \in Dates \ {d} : runs'[e] = runs[e]
    BY <1>3 DEF Begin, NoRun, ReconciliationTypeOK
  <2>2. RecordsOf(d) = {} /\ d \notin reports /\ \A v \in Workers : ~Working(v, d)
    BY <2>1 DEF UntouchedIsEmpty
  <2>3. /\ job'[w].step = "load" /\ job'[w].date = d /\ job'[w].results = {}
        /\ job'[w].todo = {}
        /\ \A v \in Workers \ {w} : job'[v] = job[v]
    BY <1>3 DEF Idle, ReconciliationTypeOK
  <2>4. \A v \in Workers \ {w} : \A e \in Dates :
          Working(v, e)' = Working(v, e) /\ (Working(v, e) => e # d)
    BY <2>2, <2>3 DEF Working, Busy
  <2>5. \A e \in Dates : Working(w, e)' => e = d
    BY <2>3 DEF Working
  <2>6. UntouchedIsEmpty'
    BY <1>0, <1>1, <2>1, <2>4, <2>5 DEF UntouchedIsEmpty
  <2>7. WorkFits'
    <3>1. RunFits(w, d)' /\ RowsFit(w, d)' /\ ResultsFit(w, d)'
      BY <1>0, <1>1, <2>1, <2>2, <2>3, FS_EmptySet DEF RunFits, RowsFit, ResultsFit
    <3>2. ASSUME NEW e \in Dates, NEW v \in Workers \ {w}, Working(v, e)'
          PROVE  RunFits(v, e)' /\ RowsFit(v, e)' /\ ResultsFit(v, e)'
      <4>1. Working(v, e) /\ e \in Dates \ {d}
        BY <2>4, <3>2
      <4>2. RunFits(v, e) /\ RowsFit(v, e) /\ ResultsFit(v, e)
        BY <4>1 DEF WorkFits
      <4>3. /\ job'[v] = job[v] /\ runs'[e] = runs[e] /\ seen' = seen /\ reports' = reports
            /\ RecordsOf(e)' = RecordsOf(e)
        BY <1>0, <1>1, <2>1, <2>3, <4>1
      <4> QED BY <1>2, <4>2, <4>3 DEF RunFits, RowsFit, ResultsFit
    <3> QED BY <2>5, <3>1, <3>2 DEF WorkFits
  <2>8. AnsweredIsOver' /\ AnsweredIsCompleted'
    <3>1. \A a \in answers : a.code = 200 => a.date \in Dates \ {d}
      BY <2>1 DEF AnsweredIsCompleted, ReconciliationTypeOK, NoRun
    <3> QED BY <1>1, <1>3, <2>1, <2>4, <2>5, <3>1 DEF AnsweredIsOver, AnsweredIsCompleted
  <2>9. CompletedAddsUp'
    <3>1. ASSUME NEW e \in Dates, runs'[e].status = "COMPLETED" \/ e \in reports'
          PROVE  AddsUp(e)'
      <4>1. e # d
        BY <1>0, <2>1, <2>2, <3>1
      <4> QED BY <1>0, <1>1, <2>1, <3>1, <4>1 DEF CompletedAddsUp, AddsUp
    <3> QED BY <3>1 DEF CompletedAddsUp
  <2>10. MatchesAgree'
    BY <1>0, <1>2 DEF MatchesAgree
  <2>11. OneExecutionPerDate'
    <3>1. \A e \in Dates, u, v \in Workers : (Working(u, e)' /\ Working(v, e)') => u = v
      BY <2>4, <2>5 DEF OneExecutionPerDate
    <3>2. \A e \in Dates, v \in Workers : Working(v, e)' =>
            \A x \in RecordsOf(e)' : x.execution = job'[v].execution
      BY <1>1, <2>2, <2>3, <2>4, <2>5 DEF OneExecutionPerDate
    <3> QED BY <1>0, <3>1, <3>2 DEF OneExecutionPerDate
  <2> QED BY <2>6, <2>7, <2>8, <2>9, <2>10, <2>11
<1>4. CASE Answer(d, triggers + 1, 500) /\ UNCHANGED <<runs, records, job>>
  <2>1. \A v, e : Working(v, e)' = Working(v, e)
    BY <1>4 DEF Working, Busy
  <2>2. \A a \in answers' \ answers : a.code # 200
    BY <1>4 DEF Answer
  <2>3. UntouchedIsEmpty'
    BY <1>0, <1>1, <1>4, <2>1 DEF UntouchedIsEmpty
  <2>4. \A v, e : RunFits(v, e)' = RunFits(v, e) /\ RowsFit(v, e)' = RowsFit(v, e)
                 /\ ResultsFit(v, e)' = ResultsFit(v, e)
    BY <1>0, <1>1, <1>2, <1>4 DEF RunFits, RowsFit, ResultsFit
  <2>5. WorkFits'
    BY <2>1, <2>4 DEF WorkFits
  <2>6. AnsweredIsOver' /\ AnsweredIsCompleted'
    BY <1>1, <1>4, <2>1, <2>2 DEF AnsweredIsOver, AnsweredIsCompleted
  <2>7. CompletedAddsUp'
    BY <1>0, <1>1, <1>4 DEF CompletedAddsUp, AddsUp
  <2>8. MatchesAgree' /\ OneExecutionPerDate'
    BY <1>0, <1>1, <1>2, <1>4, <2>1 DEF MatchesAgree, OneExecutionPerDate
  <2> QED BY <2>3, <2>5, <2>6, <2>7, <2>8
<1> QED BY <1>3, <1>4 DEF StartRun

\* What the invariant says of a worker that is in the pipeline.
LEMMA OfWorker ==
  ASSUME ReconciliationIInv, NEW w \in Workers, job[w].step # "idle", NEW D, D = job[w].date
  PROVE  /\ Busy(w) /\ D \in Dates /\ job[w] \in Execution
         /\ runs[D] # NoRun
         /\ RunFits(w, D) /\ RowsFit(w, D) /\ ResultsFit(w, D)
         /\ runs[D].status = "COMPLETED" \/ D \in reports => AddsUp(D)
<1>1. D \in Dates /\ job[w] \in Execution /\ Busy(w)
  BY DEF ReconciliationIInv, ReconciliationTypeOK, HasItsRows, Busy
<1>2. Working(w, D)
  BY <1>1 DEF Working
<1> QED BY <1>1, <1>2 DEF ReconciliationIInv, UntouchedIsEmpty, WorkFits, CompletedAddsUp

\* A step that changes nothing but the worker's own job.
LEMMA OwnJob ==
  ASSUME ReconciliationIInv, ReconciliationTypeOK', NEW w \in Workers, job[w].step # "idle",
         NEW D, D = job[w].date,
         UNCHANGED <<runs, records, reports, answers, seen>>,
         \A v \in Workers \ {w} : job'[v] = job[v],
         Busy(w)' => /\ job'[w].date = D /\ job'[w].execution = job[w].execution
                     /\ RunFits(w, D)' /\ RowsFit(w, D)' /\ ResultsFit(w, D)'
  PROVE  ReconciliationIInv'
<1>1. RecordsOf(D)' = RecordsOf(D)
  BY DEF RecordsOf
<1>2. Busy(w) /\ runs[D] # NoRun /\ (runs[D].status = "COMPLETED" \/ D \in reports => AddsUp(D))
  BY OfWorker
<1>3. runs'[D].status = "COMPLETED" \/ D \in reports' => AddsUp(D)'
  BY <1>1, <1>2 DEF AddsUp
<1> QED BY <1>2, <1>3, OwnDate

\* Loading: the payments are noted, and in memory.
LEMMA LoadKeeps ==
  ASSUME ReconciliationIInv, ReconciliationTypeOK', NEW w \in Workers, Load(w)
  PROVE  ReconciliationIInv'
<1>0. PICK D : D = job[w].date
  OBVIOUS
<1>1. /\ Busy(w) /\ D \in Dates /\ runs[D] # NoRun
      /\ RunFits(w, D) /\ RowsFit(w, D) /\ ResultsFit(w, D) /\ job[w].step = "load"
  BY <1>0, OfWorker DEF Load
<1>2. UNCHANGED <<runs, records, reports, answers>>
  BY DEF Load
<1>3. /\ job'[w].step = "fetch" /\ job'[w].date = D /\ job'[w].execution = job[w].execution
      /\ job'[w].results = job[w].results /\ job'[w].todo = job[w].todo
      /\ job'[w].internal = seen'[D]
      /\ \A v \in Workers \ {w} : job'[v] = job[v]
      /\ \A d \in Dates \ {D} : seen'[d] = seen[d]
  BY <1>0, <1>1 DEF Load, ReconciliationIInv, ReconciliationTypeOK, Execution
<1>4. RecordsOf(D)' = RecordsOf(D) /\ \A x : RightlyMatched(x)' = RightlyMatched(x)
  BY <1>2 DEF RecordsOf, RightlyMatched, Close, Thousandths
<1>5. RunFits(w, D)' /\ RowsFit(w, D)' /\ ResultsFit(w, D)'
  BY <1>1, <1>2, <1>3, <1>4 DEF RunFits, RowsFit, ResultsFit
<1>6. ~(runs'[D].status = "COMPLETED" \/ D \in reports')
  BY <1>1, <1>2 DEF RunFits
<1> QED BY <1>0, <1>1, <1>2, <1>3, <1>5, <1>6, OwnDate

\* Fetching: the joined rows are all still to be inserted.
LEMMA FetchKeeps ==
  ASSUME ReconciliationIInv, ReconciliationTypeOK', NEW w \in Workers, FetchAndReconcile(w)
  PROVE  ReconciliationIInv'
<1>0. PICK D : D = job[w].date
  OBVIOUS
<1>1. /\ Busy(w) /\ D \in Dates /\ job[w] \in Execution
      /\ RunFits(w, D) /\ RowsFit(w, D) /\ ResultsFit(w, D) /\ job[w].step = "fetch"
  BY <1>0, OfWorker DEF FetchAndReconcile
<1>2. UNCHANGED <<runs, records, reports, answers, seen>>
  BY DEF FetchAndReconcile
<1>3. PICK file :
        /\ file.lines \in SUBSET Line /\ IsFiniteSet(file.lines)
        /\ job' = [job EXCEPT ![w].step = "persist",
               ![w].results = Reconcile(job[w].date, job[w].execution, job[w].internal, file),
               ![w].todo = Reconcile(job[w].date, job[w].execution, job[w].internal, file)]
  BY FetchedRows DEF ReconciliationIInv
<1> DEFINE R == Reconcile(D, job[w].execution, job[w].internal, file)
<1>4. job[w].execution \in Nat /\ job[w].internal \in SUBSET Refs
  BY <1>1 DEF Execution
<1>5. /\ IsFiniteSet(R)
      /\ \A x \in R : x.date = D /\ x.execution = job[w].execution /\ RightlyMatched(x)
      /\ {x.reference : x \in R} = job[w].internal
  BY <1>1, <1>3, <1>4, JoinedRows, JoinKeepsPayments, JoinIsFinite
<1> HIDE DEF R
<1>6. job' = [job EXCEPT ![w].step = "persist", ![w].results = R, ![w].todo = R]
  BY <1>0, <1>3 DEF R
<1>7. /\ job'[w].step = "persist" /\ job'[w].date = D /\ job'[w].execution = job[w].execution
      /\ job'[w].results = R /\ job'[w].todo = R /\ job'[w].internal = job[w].internal
      /\ \A v \in Workers \ {w} : job'[v] = job[v]
  BY <1>0, <1>1, <1>6 DEF ReconciliationIInv, ReconciliationTypeOK, Execution
<1>8. RecordsOf(D)' = {} /\ \A x : RightlyMatched(x)' = RightlyMatched(x)
  BY <1>1, <1>2 DEF RowsFit, RecordsOf, RightlyMatched, Close, Thousandths
<1>9. RunFits(w, D)' /\ RowsFit(w, D)' /\ ResultsFit(w, D)'
  BY <1>1, <1>2, <1>5, <1>7, <1>8 DEF RunFits, RowsFit, ResultsFit
<1> QED BY <1>0, <1>1, <1>2, <1>7, <1>9, OwnJob

\* A batch goes from what is left to what is there, in order.
LEMMA PersistKeeps ==
  ASSUME ReconciliationIInv, ReconciliationTypeOK', NEW w \in Workers, PersistBatch(w)
  PROVE  ReconciliationIInv'
<1>0. PICK D : D = job[w].date
  OBVIOUS
<1>1. /\ Busy(w) /\ D \in Dates /\ job[w] \in Execution /\ runs[D] # NoRun
      /\ RunFits(w, D) /\ RowsFit(w, D) /\ ResultsFit(w, D) /\ job[w].step = "persist"
  BY <1>0, OfWorker DEF PersistBatch
<1>2. UNCHANGED <<runs, reports, answers, seen>>
  BY DEF PersistBatch
<1>3. PICK b \in SUBSET job[w].todo :
        /\ IsBatch(b, job[w].todo)
        /\ records' = records \cup b
        /\ job' = [job EXCEPT ![w].todo = @ \ b]
  BY DEF PersistBatch
<1>4. /\ job'[w].step = "persist" /\ job'[w].date = D /\ job'[w].execution = job[w].execution
      /\ job'[w].results = job[w].results /\ job'[w].todo = job[w].todo \ b
      /\ job'[w].internal = job[w].internal
      /\ \A v \in Workers \ {w} : job'[v] = job[v]
  BY <1>0, <1>1, <1>3 DEF ReconciliationIInv, ReconciliationTypeOK, Execution
<1>5. b \subseteq job[w].results /\ job[w].todo \subseteq job[w].results
      /\ job[w].results \in SUBSET Row
  BY <1>1, <1>3 DEF ReconciliationIInv, ReconciliationTypeOK, HasItsRows, Execution
<1>6. \A x \in b : x.date = D /\ x.execution = job[w].execution /\ RightlyMatched(x)
  BY <1>1, <1>5 DEF ResultsFit
<1>7. RecordsOf(D)' = RecordsOf(D) \cup b
  BY <1>3, <1>6 DEF RecordsOf
<1>8. \A x : RightlyMatched(x)' = RightlyMatched(x)
  BY DEF RightlyMatched, Close, Thousandths
<1>9. ASSUME NEW x \in job'[w].results \ job'[w].todo, NEW y \in job'[w].todo
      PROVE  x.reference <= y.reference
  <2>1. y \in job[w].todo \ b
    BY <1>4
  <2>2. CASE x \in b
    <3>1. Precedes(x, y)
      BY <1>3, <2>1, <2>2 DEF IsBatch
    <3>2. x.reference \in Nat /\ y.reference \in Nat
      BY <1>5, <2>1, <2>2, ReconciliationAssumption DEF Row, ReconciliationAssumption
    <3> QED BY <3>1, <3>2 DEF Precedes
  <2>3. CASE x \notin b
    BY <1>1, <1>4, <2>1, <2>3 DEF ResultsFit
  <2> QED BY <2>2, <2>3
<1>10. RunFits(w, D)' /\ RowsFit(w, D)'
  BY <1>1, <1>2, <1>4, <1>5, <1>7 DEF RunFits, RowsFit
<1>11. ResultsFit(w, D)'
  BY <1>1, <1>2, <1>4, <1>8, <1>9 DEF ResultsFit
<1>12. ~(runs'[D].status = "COMPLETED" \/ D \in reports')
  BY <1>1, <1>2 DEF RunFits
<1> QED BY <1>0, <1>1, <1>2, <1>3, <1>4, <1>6, <1>10, <1>11, <1>12, OwnDate

\* Completing: all rows are there, so the counts in memory are theirs.
LEMMA CompleteKeeps ==
  ASSUME ReconciliationIInv, ReconciliationTypeOK', NEW w \in Workers, CompleteRun(w)
  PROVE  ReconciliationIInv'
<1>0. PICK D : D = job[w].date
  OBVIOUS
<1>1. /\ Busy(w) /\ D \in Dates /\ job[w] \in Execution
      /\ RunFits(w, D) /\ RowsFit(w, D) /\ ResultsFit(w, D)
      /\ job[w].step = "persist" /\ job[w].todo = {}
  BY <1>0, OfWorker DEF CompleteRun
<1>2. UNCHANGED <<records, reports, answers, seen>>
  BY DEF CompleteRun
<1>3. /\ runs'[D] = Tally(job[w].results)
      /\ \A d \in Dates \ {D} : runs'[d] = runs[d]
  BY <1>0, <1>1 DEF CompleteRun, ReconciliationIInv, ReconciliationTypeOK
<1>4. /\ job'[w].step = "upload" /\ job'[w].date = D /\ job'[w].execution = job[w].execution
      /\ job'[w].results = job[w].results /\ job'[w].todo = {}
      /\ job'[w].internal = job[w].internal
      /\ \A v \in Workers \ {w} : job'[v] = job[v]
  BY <1>0, <1>1 DEF CompleteRun, ReconciliationIInv, ReconciliationTypeOK, Execution
<1>5. RecordsOf(D)' = job[w].results
  BY <1>1, <1>2 DEF RowsFit, RecordsOf
<1>6. \A x : RightlyMatched(x)' = RightlyMatched(x)
  BY DEF RightlyMatched, Close, Thousandths
<1>7. RunFits(w, D)' /\ RowsFit(w, D)' /\ ResultsFit(w, D)'
  BY <1>1, <1>2, <1>3, <1>4, <1>5, <1>6 DEF RunFits, RowsFit, ResultsFit, Tally
<1>8. runs'[D].status = "COMPLETED" /\ runs'[D] # NoRun
  BY <1>3 DEF Tally, NoRun
<1>9. AddsUp(D)'
  <2>1. {x.reference : x \in job[w].results} = seen[D]
    BY <1>1 DEF ResultsFit
  <2>2. Tally(job[w].results).total = Tally(job[w].results).matched
          + Tally(job[w].results).unmatched + Tally(job[w].results).exceptions
    BY <1>1, TallyAdds DEF ResultsFit, Execution
  <2>3. Tally(job[w].results) = [Tally(job[w].results) EXCEPT !.status = "COMPLETED"]
    BY DEF Tally
  <2> QED BY <1>2, <1>3, <1>5, <1>8, <2>1, <2>2, <2>3 DEF AddsUp, Tally, Count
<1> QED BY <1>0, <1>1, <1>2, <1>3, <1>4, <1>7, <1>8, <1>9, OwnDate

\* Uploading: the report is of a completed run.
LEMMA UploadKeeps ==
  ASSUME ReconciliationIInv, ReconciliationTypeOK', NEW w \in Workers, UploadReport(w)
  PROVE  ReconciliationIInv'
<1>0. PICK D : D = job[w].date
  OBVIOUS
<1>1. /\ Busy(w) /\ D \in Dates /\ job[w] \in Execution /\ runs[D] # NoRun
      /\ RunFits(w, D) /\ RowsFit(w, D) /\ ResultsFit(w, D) /\ job[w].step = "upload"
      /\ (runs[D].status = "COMPLETED" => AddsUp(D))
  BY <1>0, OfWorker DEF UploadReport
<1>2. UNCHANGED <<runs, records, answers, seen>> /\ reports' \in {reports, reports \cup {D}}
  BY <1>0 DEF UploadReport
<1>3. /\ job'[w].step = "summary" /\ job'[w].date = D /\ job'[w].execution = job[w].execution
      /\ job'[w].results = job[w].results /\ job'[w].todo = job[w].todo
      /\ job'[w].internal = job[w].internal
      /\ \A v \in Workers \ {w} : job'[v] = job[v]
  BY <1>0, <1>1 DEF UploadReport, ReconciliationIInv, ReconciliationTypeOK, Execution
<1>4. RecordsOf(D)' = RecordsOf(D) /\ \A x : RightlyMatched(x)' = RightlyMatched(x)
  BY <1>2 DEF RecordsOf, RightlyMatched, Close, Thousandths
<1>5. RunFits(w, D)' /\ RowsFit(w, D)' /\ ResultsFit(w, D)'
  BY <1>1, <1>2, <1>3, <1>4 DEF RunFits, RowsFit, ResultsFit, Tally, Count
<1>6. AddsUp(D)'
  <2>1. runs[D].status = "COMPLETED"
    BY <1>1 DEF RunFits, Tally
  <2> QED BY <1>1, <1>2, <1>4, <2>1 DEF AddsUp
<1> QED BY <1>0, <1>1, <1>2, <1>3, <1>5, <1>6, OwnDate

\* Answering 200: nobody works on the date any more, and its run is COMPLETED.
LEMMA SummarizeKeeps ==
  ASSUME ReconciliationIInv, ReconciliationTypeOK', NEW w \in Workers, Summarize(w)
  PROVE  ReconciliationIInv'
<1>0. PICK D : D = job[w].date
  OBVIOUS
<1>1. /\ Busy(w) /\ D \in Dates /\ runs[D] # NoRun
      /\ RunFits(w, D) /\ job[w].step = "summary"
      /\ (runs[D].status = "COMPLETED" \/ D \in reports => AddsUp(D))
  BY <1>0, OfWorker DEF Summarize
<1>2. UNCHANGED <<runs, records, reports, seen>>
  BY DEF Summarize
<1>3. job'[w] = Idle /\ \A v \in Workers \ {w} : job'[v] = job[v]
  BY DEF Summarize, ReconciliationIInv, ReconciliationTypeOK
<1>4. ~Busy(w)'
  BY <1>3, IdleType DEF Busy
<1>5. runs'[D].status = "COMPLETED"
  BY <1>1, <1>2 DEF RunFits, Tally
<1>6. \A a \in answers' \ answers : a.date = D /\ a.execution = job[w].execution
  BY <1>0 DEF Summarize, Answer
<1>7. AddsUp(D)'
  BY <1>1, <1>2, <1>5 DEF AddsUp, RecordsOf
<1> QED BY <1>0, <1>1, <1>2, <1>3, <1>4, <1>5, <1>6, <1>7, OwnDate

\* The except clause: the counts stay as they are.
LEMMA FailRunKeeps ==
  ASSUME ReconciliationIInv, ReconciliationTypeOK', NEW w \in Workers, FailRun(w)
  PROVE  ReconciliationIInv'
<1>0. PICK D : D = job[w].date
  OBVIOUS
<1>1. /\ Busy(w) /\ D \in Dates /\ runs[D] # NoRun
      /\ RunFits(w, D) /\ job[w].step = "except"
      /\ (runs[D].status = "COMPLETED" \/ D \in reports => AddsUp(D))
  BY <1>0, OfWorker DEF FailRun
<1>2. UNCHANGED <<records, reports, seen>>
  BY DEF FailRun
<1>3. job'[w] = Idle /\ \A v \in Workers \ {w} : job'[v] = job[v]
  BY DEF FailRun, ReconciliationIInv, ReconciliationTypeOK
<1>4. ~Busy(w)'
  BY <1>3, IdleType DEF Busy
<1>5. /\ \A d \in Dates \ {D} : runs'[d] = runs[d]
      /\ runs'[D] = runs[D] \/ runs'[D] = [runs[D] EXCEPT !.status = "FAILED"]
  BY <1>0, <1>1 DEF FailRun, ReconciliationIInv, ReconciliationTypeOK
<1>6. \A a \in answers' \ answers : a.date = D /\ a.execution = job[w].execution /\ a.code # 200
  BY <1>0 DEF FailRun, Answer
<1>7. runs[D] \in [status : RunStatus, total : Nat, matched : Nat, unmatched : Nat,
                  exceptions : Nat]
  BY <1>1 DEF ReconciliationIInv, ReconciliationTypeOK
<1>8. runs'[D] # NoRun
  BY <1>1, <1>5, <1>7 DEF NoRun
<1>9. runs'[D].status = "COMPLETED" \/ D \in reports' => AddsUp(D)'
  <2>1. RecordsOf(D)' = RecordsOf(D)
    BY <1>2 DEF RecordsOf
  <2>2. CASE runs'[D] = runs[D]
    BY <1>1, <1>2, <2>1, <2>2 DEF AddsUp
  <2>3. CASE runs'[D] = [runs[D] EXCEPT !.status = "FAILED"] /\ D \in reports
    <3>1. /\ {x.reference : x \in RecordsOf(D)} = seen[D]
          /\ runs[D] = [Tally(RecordsOf(D)) EXCEPT !.status = runs[D].status]
          /\ runs[D].total = runs[D].matched + runs[D].unmatched + runs[D].exceptions
      BY <1>1, <2>3 DEF AddsUp
    <3>2. /\ runs'[D].status = "FAILED" /\ runs'[D].total = runs[D].total
          /\ runs'[D].matched = runs[D].matched /\ runs'[D].unmatched = runs[D].unmatched
          /\ runs'[D].exceptions = runs[D].exceptions
      BY <1>7, <2>3
    <3>3. runs'[D] = [Tally(RecordsOf(D)) EXCEPT !.status = "FAILED"]
      BY <2>3, <3>1 DEF Tally
    <3> QED BY <1>2, <2>1, <3>1, <3>2, <3>3 DEF AddsUp, Tally, Count
  <2>4. CASE runs'[D] = [runs[D] EXCEPT !.status = "FAILED"] /\ D \notin reports
    BY <1>2, <1>7, <2>4
  <2> QED BY <1>5, <2>2, <2>3, <2>4
<1> QED BY <1>0, <1>1, <1>2, <1>3, <1>4, <1>5, <1>6, <1>8, <1>9, OwnDate

\* A worker gives up an attempt, or its execution.
LEMMA GivingUpKeeps ==
  ASSUME ReconciliationIInv, ReconciliationTypeOK', NEW w \in Workers,
         FetchFails(w) \/ PersistFails(w) \/ DatabaseFails(w) \/ KillWorker(w)
  PROVE  ReconciliationIInv'
<1>0. PICK D : D = job[w].date
  OBVIOUS
<1>1. job[w].step # "idle"
  BY DEF FetchFails, PersistFails, DatabaseFails, KillWorker
<1>2. /\ Busy(w) /\ D \in Dates /\ job[w] \in Execution
      /\ RunFits(w, D) /\ RowsFit(w, D) /\ ResultsFit(w, D)
  BY <1>0, <1>1, OfWorker
<1>3. UNCHANGED <<runs, records, reports, answers, seen>>
  BY DEF FetchFails, PersistFails, DatabaseFails, KillWorker
<1>4. \A v \in Workers \ {w} : job'[v] = job[v]
  BY DEF FetchFails, PersistFails, DatabaseFails, KillWorker, ReconciliationIInv,
         ReconciliationTypeOK
<1>5. \/ job'[w] = Idle
      \/ /\ job'[w].step = "fetch" /\ job[w].step = "fetch"
         /\ \E n : job'[w] = [job[w] EXCEPT !.attempts = n]
      \/ /\ job'[w].step = "except"
         /\ job'[w].date = job[w].date /\ job'[w].execution = job[w].execution
         /\ job'[w].results = job[w].results /\ job'[w].todo = job[w].todo
  BY <1>2 DEF FetchFails, PersistFails, DatabaseFails, KillWorker, ReconciliationIInv,
              ReconciliationTypeOK, Execution
<1>6. RecordsOf(D)' = RecordsOf(D) /\ \A x : RightlyMatched(x)' = RightlyMatched(x)
  BY <1>3 DEF RecordsOf, RightlyMatched, Close, Thousandths
<1>7. CASE job'[w] = Idle
  <2>1. ~Busy(w)'
    BY <1>7, IdleType DEF Busy
  <2> QED BY <1>0, <1>1, <1>3, <1>4, <2>1, OwnJob
<1>8. ASSUME NEW n, job[w].step = "fetch", job'[w] = [job[w] EXCEPT !.attempts = n]
      PROVE  ReconciliationIInv'
  <2>1. /\ job'[w].step = "fetch" /\ job'[w].date = D /\ job'[w].execution = job[w].execution
        /\ job'[w].results = job[w].results /\ job'[w].todo = job[w].todo
        /\ job'[w].internal = job[w].internal
    BY <1>0, <1>2, <1>8 DEF Execution
  <2>2. RunFits(w, D)' /\ RowsFit(w, D)' /\ ResultsFit(w, D)'
    BY <1>2, <1>3, <1>6, <1>8, <2>1 DEF RunFits, RowsFit, ResultsFit
  <2> QED BY <1>0, <1>1, <1>3, <1>4, <2>1, <2>2, OwnJob
<1>9. CASE /\ job'[w].step = "except"
           /\ job'[w].date = job[w].date /\ job'[w].execution = job[w].execution
           /\ job'[w].results = job[w].results /\ job'[w].todo = job[w].todo
  <2>1. runs[D].status \in {"RUNNING", "COMPLETED"}
    <3>1. job[w].step \in {"load", "fetch", "persist", "upload", "summary", "except"}
      BY <1>1, <1>2 DEF Execution
    <3> QED BY <1>2, <3>1 DEF RunFits, Tally
  <2>2. RunFits(w, D)' /\ RowsFit(w, D)' /\ ResultsFit(w, D)'
    BY <1>2, <1>3, <1>6, <1>9, <2>1 DEF RunFits, RowsFit, ResultsFit
  <2> QED BY <1>0, <1>1, <1>3, <1>4, <1>9, <2>2, OwnJob
<1> QED BY <1>5, <1>7, <1>8, <1>9

\* The invariant is inductive.
LEMMA ReconciliationStep == ReconciliationIInv /\ [Next]_vars => ReconciliationIInv'
<1> SUFFICES ASSUME ReconciliationIInv, [Next]_vars PROVE ReconciliationIInv'
  OBVIOUS
<1>0. ReconciliationTypeOK'
  BY ReconciliationTypeStep
<1>1. CASE UNCHANGED <<runs, records, reports, job, answers, seen>>
  BY <1>0, <1>1, Elsewhere
<1>2. ASSUME NEW r \in Refs, PaymentMoves(r) PROVE ReconciliationIInv'
  BY <1>1, <1>2 DEF PaymentMoves
<1>3. ASSUME NEW d \in Dates, NEW f \in Files, FileArrives(d, f) PROVE ReconciliationIInv'
  BY <1>1, <1>3 DEF FileArrives
<1>4. ASSUME NEW w \in Workers, NEW d \in Dates, StartRun(w, d) PROVE ReconciliationIInv'
  BY <1>0, <1>4, StartKeeps
<1>5. ASSUME NEW w \in Workers, PipelineStep(w) \/ DatabaseFails(w) \/ KillWorker(w)
      PROVE  ReconciliationIInv'
  BY <1>0, <1>5, LoadKeeps, FetchKeeps, PersistKeeps, CompleteKeeps, UploadKeeps,
     SummarizeKeeps, FailRunKeeps, GivingUpKeeps DEF PipelineStep
<1>6. CASE UNCHANGED vars
  BY <1>1, <1>6 DEF vars
<1> QED BY <1>2, <1>3, <1>4, <1>5, <1>6 DEF Next

----------------------------------------------------------------------------
\* The theorems

\* The inductive invariant holds of every execution of the reconciliation.
THEOREM ReconciliationInvariant == Spec => []ReconciliationIInv
BY ReconciliationInit, ReconciliationStep, PTL DEF Spec

\* The reconciliation's state keeps its type: a file is tried MaxAttempts
\* times at most, and an execution works on a date of its own.
THEOREM ReconciliationTypes == Spec => []ReconciliationTypeOK
<1>1. ReconciliationIInv => ReconciliationTypeOK
  BY DEF ReconciliationIInv
<1> QED BY <1>1, ReconciliationInvariant, PTL

\* A completed or reported run has the rows of the payments it loaded, and
\* their counts.
THEOREM CompletedRunsAddUp == Spec => []CompletedAddsUp
<1>1. ReconciliationIInv => CompletedAddsUp
  BY DEF ReconciliationIInv
<1> QED BY <1>1, ReconciliationInvariant, PTL

\* A MATCHED row is of a payment and a line in one currency whose amounts, if
\* the line has one, are half a minor unit apart at most, whatever the files say.
THEOREM MatchedRowsAgree == Spec => []MatchesAgree
<1>1. ReconciliationIInv => MatchesAgree
  BY DEF ReconciliationIInv
<1> QED BY <1>1, ReconciliationInvariant, PTL

\* The rows of a date stem from one execution, however many POSTs, workers and
\* pods there are.
THEOREM OneExecution == Spec => []OneExecutionPerDate
<1>1. ReconciliationIInv => OneExecutionPerDate
  BY DEF ReconciliationIInv
<1> QED BY <1>1, ReconciliationInvariant, PTL

\* A date answered 200 stays COMPLETED with the rows of that execution.
THEOREM AnsweredRunsAreCompleted == Spec => []AnsweredIsCompleted
<1>1. ReconciliationIInv => AnsweredIsCompleted
  BY DEF ReconciliationIInv
<1> QED BY <1>1, ReconciliationInvariant, PTL

\* Every step of the pipeline is a step of the run ledger, or none.
LEMMA LedgerStep == ReconciliationIInv /\ [Next]_vars => [LedgerNext]_ledgerVars
<1> SUFFICES ASSUME ReconciliationIInv, [Next]_vars PROVE [LedgerNext]_ledgerVars
  OBVIOUS
<1>1. CASE UNCHANGED <<runs, records>>
  BY <1>1 DEF ledgerVars
<1>2. ASSUME NEW w \in Workers, NEW d \in Dates, StartRun(w, d)
      PROVE  [LedgerNext]_ledgerVars
  BY <1>1, <1>2 DEF StartRun, LedgerNext
<1>3. ASSUME NEW w \in Workers, PersistBatch(w) PROVE LedgerNext
  <2>0. PICK D : D = job[w].date
    OBVIOUS
  <2>1. /\ D \in Dates /\ RunFits(w, D) /\ RowsFit(w, D) /\ ResultsFit(w, D)
        /\ job[w].step = "persist"
    BY <1>3, <2>0, OfWorker DEF PersistBatch
  <2>2. PICK b \in SUBSET job[w].todo : records' = records \cup b /\ UNCHANGED runs
    BY <1>3 DEF PersistBatch
  <2>3. job[w].todo \subseteq job[w].results
    BY DEF ReconciliationIInv, ReconciliationTypeOK, HasItsRows
  <2>4. runs[D].status = "RUNNING" /\ RecordsOf(D) = job[w].results \ job[w].todo
    BY <2>1 DEF RunFits, RowsFit
  <2>5. \A y \in b : /\ y.date = D /\ y \notin records
                     /\ \A x \in RecordsOf(D) : x.reference <= y.reference
    BY <2>1, <2>3, <2>4 DEF ResultsFit, RecordsOf
  <2>6. records' \ records = b /\ records' = records \cup b
    BY <2>2, <2>5
  <2>7. AddRows(D, records' \ records)
    BY <2>2, <2>4, <2>5, <2>6 DEF AddRows
  <2> QED BY <2>1, <2>7 DEF LedgerNext
<1>4. ASSUME NEW w \in Workers, CompleteRun(w) PROVE LedgerNext
  <2>0. PICK D : D = job[w].date
    OBVIOUS
  <2>1. /\ D \in Dates /\ RunFits(w, D) /\ RowsFit(w, D)
        /\ job[w].step = "persist" /\ job[w].todo = {}
    BY <1>4, <2>0, OfWorker DEF CompleteRun
  <2>2. runs[D].status = "RUNNING" /\ RecordsOf(D) = job[w].results
    BY <2>1 DEF RunFits, RowsFit
  <2>3. Complete(D)
    BY <1>4, <2>0, <2>2 DEF CompleteRun, Complete
  <2> QED BY <2>1, <2>3 DEF LedgerNext
<1>5. ASSUME NEW w \in Workers, FailRun(w) PROVE [LedgerNext]_ledgerVars
  <2>0. PICK D : D = job[w].date
    OBVIOUS
  <2>1. D \in Dates /\ RunFits(w, D) /\ job[w].step = "except"
    BY <1>5, <2>0, OfWorker DEF FailRun
  <2>2. CASE runs' = [runs EXCEPT ![D].status = "FAILED"]
    <3>1. Fail(D)
      BY <1>5, <2>1, <2>2 DEF FailRun, Fail, RunFits
    <3> QED BY <2>1, <3>1 DEF LedgerNext
  <2>3. CASE runs' = runs
    BY <1>1, <1>5, <2>3 DEF FailRun
  <2> QED BY <1>5, <2>0, <2>2, <2>3 DEF FailRun
<1>6. ASSUME NEW w \in Workers,
             Load(w) \/ FetchAndReconcile(w) \/ FetchFails(w) \/ PersistFails(w)
               \/ UploadReport(w) \/ Summarize(w) \/ DatabaseFails(w) \/ KillWorker(w)
      PROVE  UNCHANGED <<runs, records>>
  BY <1>6 DEF Load, FetchAndReconcile, FetchFails, PersistFails, UploadReport, Summarize,
              DatabaseFails, KillWorker
<1>7. ASSUME NEW r \in Refs, PaymentMoves(r) PROVE UNCHANGED <<runs, records>>
  BY <1>7 DEF PaymentMoves
<1>8. ASSUME NEW d \in Dates, NEW f \in Files, FileArrives(d, f)
      PROVE  UNCHANGED <<runs, records>>
  BY <1>8 DEF FileArrives
<1>9. CASE UNCHANGED vars
  BY <1>1, <1>9 DEF vars
<1> QED BY <1>1, <1>2, <1>3, <1>4, <1>5, <1>6, <1>7, <1>8, <1>9 DEF Next, PipelineStep

\* What the reporting database shows of any execution is a behaviour of
\* RunLedger: what its readers rely on holds.
THEOREM ReconciliationImplementsRunLedger == Spec => ImplementsRunLedger
<1>1. Init => LedgerInit
  BY DEF Init
<1> QED BY <1>1, LedgerStep, ReconciliationInvariant, PTL
        DEF Spec, ImplementsRunLedger, LedgerSpec

\* ReadersMayRely of the pipeline itself: whoever pages through its records, or
\* adds up its exceptions after a summary, meets what ReportsProofs assumes.
THEOREM PipelineMayBeReliedOn == Spec => ReadersMayRely
BY ReconciliationImplementsRunLedger, LedgerMayBeReliedOn, PTL DEF ImplementsRunLedger

----------------------------------------------------------------------------
\* One row per payment

\* Every file has one line per payment.
SingleLined ==
  \A f \in Files \ {Garbled} : \A l, m \in f.lines : l.reference = m.reference => l = m

OneRowPerPayment(rows) == \A x, y \in rows : x.reference = y.reference => x = y

\* What is joined with a file of single lines has one row per payment.
LEMMA JoinedOnce ==
  ASSUME NEW d, NEW execution, NEW internal, NEW file,
         \A l, m \in file.lines : l.reference = m.reference => l = m
  PROVE  OneRowPerPayment(Reconcile(d, execution, internal, file))
<1>1. ASSUME NEW row \in Merged(internal, file), NEW other \in Merged(internal, file),
             row.reference = other.reference
      PROVE  row = other
  BY <1>1 DEF Merged
<1>2. \A row : Record(d, execution, row, file).reference = row.reference
  BY DEF Record
<1> QED BY <1>1, <1>2 DEF OneRowPerPayment, Reconcile

\* What is filed, and what executions are about to file, has one row per payment.
FiledOnce ==
  /\ \A d \in Dates : OneRowEach(d)
  /\ \A w \in Workers : OneRowPerPayment(job[w].results)

\* No step files a payment twice: rows come from one join per date.
LEMMA FiledOnceStep ==
  ASSUME SingleLined, ReconciliationIInv, FiledOnce, [Next]_vars
  PROVE  FiledOnce'
<1>1. ASSUME NEW w \in Workers, job[w].step # "idle"
      PROVE  /\ job[w].date \in Dates
             /\ RowsFit(w, job[w].date) /\ ResultsFit(w, job[w].date)
  BY <1>1 DEF ReconciliationIInv, ReconciliationTypeOK, HasItsRows, WorkFits, Working, Busy
<1>2. ASSUME UNCHANGED records, \A w \in Workers : OneRowPerPayment(job'[w].results)
      PROVE  FiledOnce'
  BY <1>2 DEF FiledOnce, OneRowEach, RecordsOf
<1>3. ASSUME UNCHANGED <<records, job>> PROVE FiledOnce'
  BY <1>2, <1>3 DEF FiledOnce
<1>4. job \in [Workers -> Execution]
  BY DEF ReconciliationIInv, ReconciliationTypeOK
<1>5. OneRowPerPayment(Idle.results)
  BY DEF Idle, OneRowPerPayment
<1>6. ASSUME NEW w \in Workers, NEW d \in Dates, StartRun(w, d) PROVE FiledOnce'
  <2>1. UNCHANGED records
    BY <1>6 DEF StartRun, Begin
  <2>2. ASSUME NEW v \in Workers
        PROVE  job'[v].results = job[v].results \/ job'[v].results = Idle.results
    BY <1>4, <1>6 DEF StartRun, Idle
  <2> QED BY <1>2, <1>5, <2>1, <2>2 DEF FiledOnce
<1>7. ASSUME NEW w \in Workers, FetchAndReconcile(w) PROVE FiledOnce'
  <2>1. PICK D \in Dates : D = job[w].date
    BY <1>1, <1>7 DEF FetchAndReconcile
  <2>2. PICK file : /\ file = IF bucket[D] = Null THEN NoLines ELSE bucket[D]
                    /\ bucket[D] # Garbled
                    /\ job' = [job EXCEPT ![w].step = "persist",
                         ![w].results = Reconcile(D, job[w].execution, job[w].internal, file),
                         ![w].todo = Reconcile(D, job[w].execution, job[w].internal, file)]
    BY <1>7, <2>1 DEF FetchAndReconcile
  <2>3. bucket[D] \in Files \cup {Null}
    BY DEF ReconciliationIInv, ReconciliationTypeOK
  <2>4. \A l, m \in file.lines : l.reference = m.reference => l = m
    BY <2>2, <2>3 DEF SingleLined, NoLines
  <2>5. OneRowPerPayment(Reconcile(D, job[w].execution, job[w].internal, file))
    BY <2>4, JoinedOnce
  <2>6. job'[w].results = Reconcile(D, job[w].execution, job[w].internal, file)
    BY <1>4, <2>2 DEF Execution
  <2>7. \A v \in Workers : v # w => job'[v] = job[v]
    BY <1>4, <2>2
  <2>8. \A v \in Workers : OneRowPerPayment(job'[v].results)
    BY <2>5, <2>6, <2>7 DEF FiledOnce
  <2> QED BY <1>2, <1>7, <2>8 DEF FetchAndReconcile
<1>8. ASSUME NEW w \in Workers, PersistBatch(w) PROVE FiledOnce'
  <2>1. PICK D \in Dates : D = job[w].date /\ RowsFit(w, D) /\ ResultsFit(w, D)
    BY <1>1, <1>8 DEF PersistBatch
  <2>2. PICK batch \in SUBSET job[w].todo :
          records' = records \cup batch /\ job' = [job EXCEPT ![w].todo = @ \ batch]
    BY <1>8 DEF PersistBatch
  <2>3. job[w].todo \subseteq job[w].results
    BY DEF ReconciliationIInv, ReconciliationTypeOK, HasItsRows
  <2>4. \A x \in batch : x.date = D /\ x \in job[w].results
    BY <2>1, <2>2, <2>3 DEF ResultsFit
  <2>5. RecordsOf(D) = job[w].results \ job[w].todo
    BY <1>8, <2>1 DEF RowsFit, PersistBatch
  <2>6. RecordsOf(D)' \subseteq job[w].results
    BY <2>2, <2>4, <2>5 DEF RecordsOf
  <2>7. \A d \in Dates : d # D => RecordsOf(d)' = RecordsOf(d)
    BY <2>2, <2>4 DEF RecordsOf
  <2>8. \A d \in Dates : OneRowEach(d)'
    BY <2>6, <2>7 DEF FiledOnce, OneRowEach, OneRowPerPayment
  <2>9. \A v \in Workers : job'[v].results = job[v].results
    BY <1>4, <2>2 DEF Execution
  <2> QED BY <2>8, <2>9 DEF FiledOnce
<1>9. ASSUME NEW w \in Workers,
             \/ Load(w) \/ FetchFails(w) \/ PersistFails(w) \/ CompleteRun(w) \/ UploadReport(w)
             \/ Summarize(w) \/ FailRun(w) \/ DatabaseFails(w) \/ KillWorker(w)
      PROVE  FiledOnce'
  <2>1. UNCHANGED records
    BY <1>9 DEF Load, FetchFails, PersistFails, CompleteRun, UploadReport, Summarize, FailRun,
                DatabaseFails, KillWorker
  <2>2. ASSUME NEW v \in Workers
        PROVE  job'[v].results = job[v].results \/ job'[v].results = Idle.results
    BY <1>4, <1>9 DEF Load, FetchFails, PersistFails, CompleteRun, UploadReport, Summarize, FailRun,
                      DatabaseFails, KillWorker, Execution
  <2> QED BY <1>2, <1>5, <2>1, <2>2 DEF FiledOnce
<1>10. CASE UNCHANGED vars
  BY <1>3, <1>10 DEF vars
<1>11. ASSUME NEW r \in Refs, PaymentMoves(r) PROVE FiledOnce'
  BY <1>3, <1>11 DEF PaymentMoves
<1>12. ASSUME NEW d \in Dates, NEW f \in Files, FileArrives(d, f) PROVE FiledOnce'
  BY <1>3, <1>12 DEF FileArrives
<1> QED BY <1>6, <1>7, <1>8, <1>9, <1>10, <1>11, <1>12 DEF Next, PipelineStep

\* OneRowEach, which WalkIsExact asks of a date, holds of every date if files
\* have one line per payment: batches, repeated POSTs and killed workers file
\* none twice.
THEOREM PaymentsAreFiledOnce ==
  ASSUME SingleLined
  PROVE  Spec => [](\A d \in Dates : OneRowEach(d))
<1>1. Init => FiledOnce
  BY DEF Init, LedgerInit, Idle, FiledOnce, OneRowEach, OneRowPerPayment, RecordsOf
<1>2. ReconciliationIInv /\ FiledOnce /\ [Next]_vars => FiledOnce'
  BY FiledOnceStep
<1>3. FiledOnce => \A d \in Dates : OneRowEach(d)
  BY DEF FiledOnce
<1> QED BY <1>1, <1>2, <1>3, ReconciliationInvariant, PTL DEF Spec
=============================================================================
