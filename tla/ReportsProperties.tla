------------------------- MODULE ReportsProperties -------------------------
(***************************************************************************)
(* What readers may conclude from several answers.                         *)
(***************************************************************************)
EXTENDS Reports

RunRow == [status : {"NONE", "RUNNING", "COMPLETED", "FAILED"},
           total : Nat, matched : Nat, unmatched : Nat, exceptions : Nat]

\* What a client keeps while it lists runs, walks through records, audits a summary.
Listing == [step : {"list", "listed"}, offset : 0..Cardinality(Dates),
            listed : SUBSET Dates, known : SUBSET Dates]
Walking == [step : {"items", "count", "walked"}, date : Dates, run : RunRow,
            wanted : SUBSET ReconciliationStatus, page : Nat \ {0}, rows : Seq(Rows)]
Auditing == [step : {"audit"}, days : SUBSET Dates, left : SUBSET Dates, found : Nat,
             records : Nat, matched : Nat, exceptions : Nat]

Reader == {Idle} \cup Listing \cup Walking \cup Auditing

\* A walk asks for no page behind the last row and gets no more rows than there
\* are; what a summary counts as matched is among what it counts.
Reads(me) ==
  /\ me.step \in {"items", "count", "walked"} =>
       /\ runs[me.date] # NoRun
       /\ Range(me.rows) \subseteq records /\ Len(me.rows) <= Cardinality(Rows)
       /\ me.page = 1 \/ (me.page - 1) * RecordsPerPage < Cardinality(Wanted(me.date, me.wanted))
  /\ me.step = "audit" => me.left \subseteq me.days /\ me.matched + me.exceptions <= me.records

\* Type invariant of the readers, with the bounds of what they ask and get.
ReportsTypeOK ==
  /\ runs \in [Dates -> RunRow] /\ records \subseteq Rows
  /\ reader \in [Clients -> Reader] /\ \A c \in Clients : Reads(reader[c])

\* Paging through the runs misses none of those there were at the start, though
\* runs of other dates begin meanwhile and shift the rest.
ListMissesNoRun ==
  \A c \in Clients : reader[c].step = "listed" => reader[c].known \subseteq reader[c].listed

\* Paging through the records of a run whose payments have one row each: no row
\* comes twice, even while the run grows; and if the run was finished when it
\* was looked at, all rows come, as many as a COMPLETED run has counted.
WalkIsExact ==
  \A c \in Clients : LET me == reader[c] IN
    me.step \in {"items", "count", "walked"} /\ OneRowEach(me.date) =>
      /\ \A i, j \in 1..Len(me.rows) : me.rows[i] = me.rows[j] => i = j
      /\ me.step = "walked" /\ me.run.status \in {"COMPLETED", "FAILED"} =>
           Range(me.rows) = Wanted(me.date, me.wanted)
      /\ me.step = "walked" /\ me.run.status = "COMPLETED" =>
           Len(me.rows) = IF me.wanted = {"EXCEPTION"} THEN me.run.exceptions ELSE me.run.total

\* A summary and the exceptions reports of its dates, fetched at any time later,
\* agree on the number of exceptions, whatever becomes of the runs.
AuditAgrees ==
  \A c \in Clients : LET me == reader[c] IN
    me.step = "audit" /\ me.left = {} => me.found = me.exceptions

----------------------------------------------------------------------------
\* The inductive invariant behind these: clients count positions, and the
\* ledger grows so that positions keep their meaning.

\* Positions in the answers: of a run among the runs, of a row among rows.
RunPosition(d) == Cardinality({e \in Begun : e >= d})
RowPosition(x, rows) == Cardinality({y \in rows : y.reference <= x.reference})

\* A known run that is not listed is still ahead.
ListFits(me) ==
  /\ me.known \subseteq Begun
  /\ me.step = "list" => \A d \in me.known : RunPosition(d) <= me.offset => d \in me.listed
  /\ me.step = "listed" => me.known \subseteq me.listed

\* Positions a walk is past.
Passed(me) == (IF me.step = "items" THEN me.page - 1 ELSE me.page) * RecordsPerPage

RunWasFinished(me) == me.run.status \in {"COMPLETED", "FAILED"}

\* What a walk has are rows at positions it is past; all of them, if nothing was
\* added since it began.
WalkFits(me) ==
  LET wanted == Wanted(me.date, me.wanted) IN
  /\ me.wanted \in {ReconciliationStatus, {"EXCEPTION"}}
  /\ Range(me.rows) \subseteq wanted
  /\ Len(me.rows) <= Cardinality(wanted) /\ Len(me.rows) <= Passed(me)
  /\ RunWasFinished(me) => Finished(me.date)
  /\ me.run.status = "COMPLETED" => /\ me.run.total = Cardinality(RecordsOf(me.date))
                                    /\ me.run.exceptions = Cardinality(Exceptions(me.date))
  /\ me.step = "walked" /\ RunWasFinished(me) => Cardinality(wanted) <= Passed(me)
  /\ OneRowEach(me.date) =>
       /\ \A i \in 1..Len(me.rows) : RowPosition(me.rows[i], wanted) <= Passed(me)
       /\ \A i, j \in 1..Len(me.rows) : me.rows[i] = me.rows[j] => i = j
       /\ RunWasFinished(me) =>
            \A x \in wanted : RowPosition(x, wanted) <= Passed(me) => x \in Range(me.rows)

\* What an audit has found and what its dates still hold are what was summed up.
AuditFits(me) ==
  /\ \A d \in me.left : Finished(d) /\ runs[d].exceptions = Cardinality(Exceptions(d))
  /\ me.exceptions = me.found + SumOf([d \in Dates |-> runs[d].exceptions], me.left)

Fits(me) ==
  /\ me.step \in {"list", "listed"} => ListFits(me)
  /\ me.step \in {"items", "count", "walked"} => WalkFits(me)
  /\ me.step = "audit" => AuditFits(me)

ReportsIInv == TalliesHold /\ \A c \in Clients : Fits(reader[c])
=============================================================================
