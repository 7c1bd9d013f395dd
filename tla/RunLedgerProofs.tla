-------------------------- MODULE RunLedgerProofs --------------------------
(***************************************************************************)
(* What RunLedger promises to readers that come more than once, proved of  *)
(* the abstract specification, so that it holds of whatever implements it  *)
(* and may be used of whatever reads it.                                   *)
(***************************************************************************)
EXTENDS RunLedger, TLAPS

\* Runs are rows with a status and counts.
RunRows ==
  /\ runs = [d \in Dates |-> runs[d]]
  /\ \A d \in Dates :
       runs[d] = [status |-> runs[d].status, total |-> runs[d].total,
                  matched |-> runs[d].matched, unmatched |-> runs[d].unmatched,
                  exceptions |-> runs[d].exceptions]

\* A step that leaves the ledger alone moves it on by nothing.
LEMMA LedgerStays ==
  ASSUME UNCHANGED ledgerVars
  PROVE  LedgerMovesOn
BY DEF ledgerVars, LedgerMovesOn, Begun, RecordsOf, Finished

\* A new status changes neither the counts of a run nor another run.
LEMMA StatusReplaced ==
  ASSUME RunRows, NEW d \in Dates, NEW s, runs' = [runs EXCEPT ![d].status = s]
  PROVE  /\ RunRows'
         /\ \A e \in Dates : e # d => runs'[e] = runs[e]
         /\ runs'[d].status = s
         /\ \A count \in {"total", "matched", "unmatched", "exceptions"} :
              runs'[d][count] = runs[d][count]
<1>1. runs' = [e \in Dates |-> IF e = d THEN [runs[d] EXCEPT !.status = s] ELSE runs[e]]
  BY DEF RunRows
<1>2. [runs[d] EXCEPT !.status = s] =
        [status |-> s, total |-> runs[d].total, matched |-> runs[d].matched,
         unmatched |-> runs[d].unmatched, exceptions |-> runs[d].exceptions]
  BY DEF RunRows
<1>3. runs'[d] = [status |-> s, total |-> runs[d].total, matched |-> runs[d].matched,
                  unmatched |-> runs[d].unmatched, exceptions |-> runs[d].exceptions]
  BY <1>1, <1>2
<1>4. \A e \in Dates : e # d => runs'[e] = runs[e]
  BY <1>1
<1>5. RunRows'
  BY <1>1, <1>3, <1>4 DEF RunRows
<1> QED BY <1>3, <1>4, <1>5

\* Every step of the ledger moves it on and keeps completed counts true: rows
\* are added to RUNNING runs alone, behind those that are there.
LEMMA LedgerKeeps ==
  ASSUME RunRows, TalliesHold, [LedgerNext]_ledgerVars
  PROVE  RunRows' /\ TalliesHold' /\ LedgerMovesOn
<1>1. CASE UNCHANGED ledgerVars
  BY <1>1, LedgerStays DEF RunRows, TalliesHold, RecordsOf, ledgerVars
<1>2. ASSUME NEW d \in Dates, Begin(d) PROVE RunRows' /\ TalliesHold' /\ LedgerMovesOn
  <2>1. /\ RunRows' /\ runs'[d].status = "RUNNING" /\ records' = records /\ runs[d] = NoRun
        /\ \A e \in Dates : e # d => runs'[e] = runs[e]
    BY <1>2, StatusReplaced DEF Begin
  <2>2. Begun \subseteq Begun' /\ ~Finished(d)
    BY <2>1 DEF Begun, NoRun, Finished
  <2>3. \A e \in Dates : RecordsOf(e)' = RecordsOf(e)
    BY <2>1 DEF RecordsOf
  <2>4. LedgerMovesOn
    BY <2>1, <2>2, <2>3 DEF LedgerMovesOn, Finished
  <2> QED BY <2>1, <2>3, <2>4 DEF TalliesHold
<1>3. ASSUME NEW d \in Dates, AddRows(d, records' \ records)
      PROVE  RunRows' /\ TalliesHold' /\ LedgerMovesOn
  <2>1. runs' = runs /\ records \subseteq records' /\ ~Finished(d)
    BY <1>3 DEF AddRows, Finished
  <2>2. \A e \in Dates : e # d => RecordsOf(e)' = RecordsOf(e)
    BY <1>3 DEF AddRows, RecordsOf
  <2>3. \A x \in RecordsOf(d), y \in RecordsOf(d)' \ RecordsOf(d) : x.reference <= y.reference
    BY <1>3 DEF AddRows, RecordsOf
  <2>4. LedgerMovesOn
    BY <2>1, <2>2, <2>3 DEF LedgerMovesOn, Begun, Finished
  <2> QED BY <2>1, <2>2, <2>4 DEF RunRows, TalliesHold, Finished
<1>4. ASSUME NEW d \in Dates, Complete(d) PROVE RunRows' /\ TalliesHold' /\ LedgerMovesOn
  <2>1. /\ runs' = [e \in Dates |-> IF e = d THEN Tally(RecordsOf(d)) ELSE runs[e]]
        /\ records' = records /\ ~Finished(d)
    BY <1>4 DEF Complete, RunRows, Finished
  <2>2. RunRows'
    BY <2>1 DEF RunRows, Tally
  <2>3. Begun \subseteq Begun'
    BY <2>1 DEF Begun, NoRun, Tally
  <2>4. \A e \in Dates : RecordsOf(e)' = RecordsOf(e)
    BY <2>1 DEF RecordsOf
  <2>5. LedgerMovesOn
    BY <2>1, <2>3, <2>4 DEF LedgerMovesOn, Finished
  <2> QED BY <2>1, <2>2, <2>4, <2>5 DEF TalliesHold
<1>5. ASSUME NEW d \in Dates, Fail(d) PROVE RunRows' /\ TalliesHold' /\ LedgerMovesOn
  <2>1. /\ RunRows' /\ runs'[d].status = "FAILED" /\ records' = records
        /\ \A e \in Dates : e # d => runs'[e] = runs[e]
        /\ \A count \in {"total", "matched", "unmatched", "exceptions"} :
             runs'[d][count] = runs[d][count]
    BY <1>5, StatusReplaced DEF Fail
  <2>2. Begun \subseteq Begun'
    BY <2>1 DEF Begun, NoRun
  <2>3. \A e \in Dates : RecordsOf(e)' = RecordsOf(e)
    BY <2>1 DEF RecordsOf
  <2>4. LedgerMovesOn
    BY <2>1, <2>2, <2>3 DEF LedgerMovesOn, Finished
  <2> QED BY <2>1, <2>3, <2>4 DEF TalliesHold
<1> QED BY <1>1, <1>2, <1>3, <1>4, <1>5 DEF LedgerNext

\* ReadersMayRely of the abstract specification: counts of completed runs stay
\* true, and between two answers nothing changes but what is told as unfinished.
THEOREM LedgerMayBeReliedOn == LedgerSpec => ReadersMayRely
<1>1. LedgerInit => RunRows /\ TalliesHold
  BY DEF LedgerInit, RunRows, TalliesHold, NoRun
<1>2. RunRows /\ TalliesHold /\ [LedgerNext]_ledgerVars
      => RunRows' /\ TalliesHold' /\ [LedgerMovesOn]_ledgerVars
  BY LedgerKeeps
<1> QED BY <1>1, <1>2, PTL DEF LedgerSpec, ReadersMayRely
=============================================================================
