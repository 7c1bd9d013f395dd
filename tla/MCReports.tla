----------------------------- MODULE MCReports -----------------------------
(***************************************************************************)
(* Small instance of Reports: three dates; one payment of the second       *)
(* date has two rows.                                                      *)
(***************************************************************************)
EXTENDS ReportsProperties

CONSTANTS l1, l2

RowOf(d, r, l, s) == [date |-> d, reference |-> r, line |-> l, status |-> s]

MCRows == {RowOf(1, 1, l1, "EXCEPTION"), RowOf(1, 2, l1, "MATCHED"), RowOf(1, 3, l1, "EXCEPTION"),
           RowOf(2, 1, l1, "EXCEPTION"), RowOf(2, 1, l2, "UNMATCHED"), RowOf(2, 2, l1, "MATCHED")}
=============================================================================
