-------------------------- MODULE MCReconciliation --------------------------
(***************************************************************************)
(* Small instances of Reconciliation: two workers, one date, three         *)
(* payments, batches of two.                                               *)
(***************************************************************************)
EXTENDS ReconciliationProperties, TLC

CONSTANTS d1, w1, w2

PaymentOf(currency, minorUnits, clearing) ==
  [date |-> d1, minorUnits |-> minorUnits, currency |-> currency, clearingReference |-> clearing]

\* Two payments in pounds that clearing has a reference for, one in yen.
MCPayment == <<PaymentOf("GBP", 10, "CLR-A"), PaymentOf("GBP", 20, "CLR-B"),
               PaymentOf("JPY", 5, Null)>>

MCDigits == [GBP |-> 2, USD |-> 2, JPY |-> 0]

LineOf(n, r, amount, currency) ==
  [number |-> n, reference |-> r, amount |-> amount, currency |-> currency, dated |-> TRUE]

\* On 1 it is within the tolerance; on 2 it has another currency, and another
\* amount on a second line.
Lines == {LineOf(1, 1, 104, "GBP"), LineOf(2, 2, 200, "USD"), LineOf(3, 2, 250, "GBP")}

\* The amount on 1 is missing; a line on 2 is off by the tolerance, rounded up.
Incomplete == {LineOf(1, 1, Null, "GBP"), LineOf(2, 2, 200, "USD"), LineOf(3, 2, 195, "GBP")}

MCRoundedUp == {<<200, 195>>}

Yen == LineOf(4, 3, 5000, "JPY")

\* With and without the name of the column, and with an empty cell; without a
\* line for 3, with one, and with one whose settlement time cannot be read.
MCFiles ==
  {[named |-> n, lines |-> Lines] : n \in BOOLEAN}
  \cup {[named |-> FALSE, lines |-> Lines \cup {y}] : y \in {Yen, [Yen EXCEPT !.dated = FALSE]}}
  \cup {[named |-> FALSE, lines |-> Incomplete], Garbled}

\* What tests/test_reconciliation_service.py builds: the file names its column.
NamedFile == {[named |-> TRUE, lines |-> {LineOf(1, 1, 100, "GBP"), LineOf(2, 2, 200, "USD"),
                                          LineOf(3, 3, 5000, "JPY")}]}
=============================================================================
