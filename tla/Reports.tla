------------------------------ MODULE Reports ------------------------------
(***************************************************************************)
(* The readers of the reporting database: the GET endpoints of             *)
(* app/routes/reconciliation.py and app/routes/reports.py, and clients     *)
(* that use them in several requests - page by page, or a summary first    *)
(* and its details afterwards - while runs begin, grow, complete and fail  *)
(* as RunLedger lets them.  Each SELECT sees what is committed when it     *)
(* runs.                                                                   *)
(***************************************************************************)
EXTENDS RunLedger, SequencesExt

CONSTANTS Clients,
          Rows,         \* rows that executions may insert: date, reference, status and more
          Limit, MaxLimit,      \* runs asked for at once; 90
          PerPage, MaxPerPage,  \* records asked for at once; 200
          MaxDays       \* 90: longest range of a summary

ReconciliationStatus == {"MATCHED", "UNMATCHED", "EXCEPTION"}

ASSUME ReportsAssumption ==
  /\ Dates \subseteq Nat /\ IsFiniteSet(Dates) /\ IsFiniteSet(Rows)
  /\ \A x \in Rows : x.reference \in Nat /\ x.status \in ReconciliationStatus
  /\ {Limit, MaxLimit, PerPage, MaxPerPage} \subseteq Nat \ {0}
  /\ MaxDays \in Nat

VARIABLE reader   \* client -> what it is reading and has read

vars == <<runs, records, reader>>

Idle == [step |-> "idle"]

Init == LedgerInit /\ reader = [c \in Clients |-> Idle]

\* LIMIT and OFFSET of a query's rows.
LimitOffset(rows, limit, offset) == SubSeq(rows, offset + 1, Min({offset + limit, Len(rows)}))

----------------------------------------------------------------------------
\* GET /runs

\* ORDER BY run_date DESC; there is one run per date.
RunsByDate == CHOOSE s \in SetToSeqs(Begun) : \A i, j \in 1..Len(s) : i < j => s[i] > s[j]

\* Mutant of ListRuns: in no particular order.
ListRunsUnordered(offset) ==
  {LimitOffset(s, Min({Limit, MaxLimit}), offset) : s \in SetToSeqs(Begun)}

\* The lists that may be answered.
ListRuns(offset) == {LimitOffset(RunsByDate, Min({Limit, MaxLimit}), offset)}

\* A client lists the runs; "known" are those that exist when it starts.
StartList(c) ==
  /\ reader[c].step = "idle"
  /\ reader' = [reader EXCEPT ![c] = [step |-> "list", offset |-> 0, listed |-> {},
                                      known |-> Begun]]
  /\ UNCHANGED ledgerVars

\* It goes on behind what it got, until it gets nothing.
NextList(c) ==
  /\ reader[c].step = "list"
  /\ \E list \in ListRuns(reader[c].offset) :
       reader' = IF list = <<>> THEN [reader EXCEPT ![c].step = "listed"]
                 ELSE [reader EXCEPT ![c].offset = @ + Len(list), ![c].listed = @ \cup Range(list)]
  /\ UNCHANGED ledgerVars

----------------------------------------------------------------------------
\* GET /runs/<id> and GET /runs/<id>/records

\* The run is looked at first (404 if there is none); then its records, those
\* of some statuses only if a filter is given.
GetRun(c, d, wanted) ==
  /\ reader[c].step = "idle"
  /\ runs[d] # NoRun
  /\ reader' = [reader EXCEPT ![c] = [step |-> "items", date |-> d, run |-> runs[d],
                                      wanted |-> wanted, page |-> 1, rows |-> <<>>]]
  /\ UNCHANGED ledgerVars

Wanted(d, wanted) == {x \in RecordsOf(d) : x.status \in wanted}

\* ORDER BY payment_reference; rows of one payment come in any order.
Sorted(rows) ==
  {s \in SetToSeqs(rows) : \A i, j \in 1..Len(s) : i < j => s[i].reference <= s[j].reference}

RecordsPerPage == Min({PerPage, MaxPerPage})

\* paginate(), first query: the rows of the page.
PageItems(c) ==
  LET me == reader[c] IN
  /\ me.step = "items"
  /\ \E s \in Sorted(Wanted(me.date, me.wanted)) :
       reader' = [reader EXCEPT
         ![c].rows = @ \o LimitOffset(s, RecordsPerPage, (me.page - 1) * RecordsPerPage),
         ![c].step = "count"]
  /\ UNCHANGED ledgerVars

\* Mutant of PageCount: > for >=.
PageCountOneMore(c) ==
  LET me == reader[c] IN
  /\ me.step = "count"
  /\ reader' = IF me.page * RecordsPerPage > Cardinality(Wanted(me.date, me.wanted))
               THEN [reader EXCEPT ![c].step = "walked"]
               ELSE [reader EXCEPT ![c].page = @ + 1, ![c].step = "items"]
  /\ UNCHANGED ledgerVars

\* paginate(), second query: the total, which gives the number of pages.  The
\* client asks for the next page until it has had the last.
PageCount(c) ==
  LET me == reader[c] IN
  /\ me.step = "count"
  /\ reader' = IF me.page * RecordsPerPage >= Cardinality(Wanted(me.date, me.wanted))
               THEN [reader EXCEPT ![c].step = "walked"]
               ELSE [reader EXCEPT ![c].page = @ + 1, ![c].step = "items"]
  /\ UNCHANGED ledgerVars

----------------------------------------------------------------------------
\* GET /reports/summary and GET /reports/exceptions

\* Mutant of InSummary: runs of any status.
InSummaryAll(from, to) == {d \in Dates : from <= d /\ d <= to}

\* run_date between the two, both included, and COMPLETED.
InSummary(from, to) == {d \in Dates : from <= d /\ d <= to /\ runs[d].status = "COMPLETED"}

\* SUM(column) over the runs of some dates: its units, counted.
Units(column, days) == UNION {{d} \X (1..column[d]) : d \in days}
SumOf(column, days) == Cardinality(Units(column, days))

\* A range that is too long is refused with 400 and read by nobody.
Summary(c, from, to) ==
  LET days == InSummary(from, to) IN
  /\ reader[c].step = "idle"
  /\ to - from <= MaxDays
  /\ reader' = [reader EXCEPT ![c] =
       [step |-> "audit", days |-> days, left |-> days, found |-> 0,
        records |-> SumOf([d \in Dates |-> runs[d].total], days),
        matched |-> SumOf([d \in Dates |-> runs[d].matched], days),
        exceptions |-> SumOf([d \in Dates |-> runs[d].exceptions], days)]]
  /\ UNCHANGED ledgerVars

\* requires_investigation is set on EXCEPTION records alone.
Exceptions(d) == {x \in RecordsOf(d) : x.status = "EXCEPTION"}

\* Finance Ops fetch the exceptions of a date that was summarized.
ExceptionsReport(c, d) ==
  /\ reader[c].step = "audit"
  /\ d \in reader[c].left
  /\ reader' = [reader EXCEPT ![c].left = @ \ {d},
                              ![c].found = @ + Cardinality(Exceptions(d))]
  /\ UNCHANGED ledgerVars

\* A client that has what it wanted, or gives up, asks something else.
Leave(c) ==
  /\ reader[c].step # "idle"
  /\ reader' = [reader EXCEPT ![c] = Idle]
  /\ UNCHANGED ledgerVars

----------------------------------------------------------------------------
\* The pipeline, as far as it can be read.
Pipeline(d) ==
  /\ \/ Begin(d) \/ Complete(d) \/ Fail(d)
     \/ \E rows \in SUBSET {x \in Rows : x.date = d} : AddRows(d, rows)
  /\ UNCHANGED reader

Next ==
  \/ \E d \in Dates : Pipeline(d)
  \/ \E c \in Clients : StartList(c) \/ NextList(c) \/ PageItems(c) \/ PageCount(c) \/ Leave(c)
  \/ \E c \in Clients, d \in Dates :
       \/ \E wanted \in {ReconciliationStatus, {"EXCEPTION"}} : GetRun(c, d, wanted)
       \/ ExceptionsReport(c, d)
  \/ \E c \in Clients, from, to \in Dates : Summary(c, from, to)

Spec == Init /\ [][Next]_vars
=============================================================================
