--------------------------- MODULE PaymentLedger ---------------------------
(***************************************************************************)
(* What the payments service promises its callers, with no transactions,   *)
(* replicas or brokers: a ledger in which a payment appears once, moves    *)
(* along the lifecycle one legal step at a time, is requeued at most       *)
(* MaxRetries times, and is acknowledged to a client only once it is in    *)
(* the ledger.  PaymentsService implements this specification.             *)
(***************************************************************************)
EXTENDS Naturals, PaymentLifecycle

CONSTANTS PaymentIds,   \* the UUIDs a payment may get
          Keys,         \* idempotency keys
          Null,         \* no key
          MaxRetries    \* how often the retry job may requeue one payment

VARIABLES ledger,       \* id -> status, number of requeues, key
          acknowledged  \* <<key, id>> pairs a client was told of

ledgerVars == <<ledger, acknowledged>>

NoEntry == [status |-> Absent, retries |-> 0, key |-> Null]

Exists(id) == ledger[id].status # Absent

LedgerInit ==
  /\ ledger = [id \in PaymentIds |-> NoEntry]
  /\ acknowledged = {}

\* A payment enters the ledger, unless its key already names one.
Open(id, key) ==
  /\ ~Exists(id)
  /\ key # Null => \A other \in PaymentIds : Exists(other) => ledger[other].key # key
  /\ ledger' = [ledger EXCEPT ![id] = [status |-> "PENDING", retries |-> 0, key |-> key]]
  /\ UNCHANGED acknowledged

\* The clearing side moves a payment along the lifecycle.
Move(id, status) ==
  /\ Exists(id)
  /\ status \in Successors[ledger[id].status]
  /\ ledger' = [ledger EXCEPT ![id].status = status]
  /\ UNCHANGED acknowledged

\* The retry job puts failed payments back in the queue, together.
Requeue(ids) ==
  /\ \A id \in ids : ledger[id].status = "FAILED" /\ ledger[id].retries < MaxRetries
  /\ ledger' = [id \in PaymentIds |->
                  IF id \in ids
                  THEN [status |-> "PENDING", retries |-> ledger[id].retries + 1,
                        key |-> ledger[id].key]
                  ELSE ledger[id]]
  /\ UNCHANGED acknowledged

\* A client learns of the payment its key names.
Acknowledge(key, id) ==
  /\ Exists(id)
  /\ ledger[id].key = key
  /\ acknowledged' = acknowledged \cup {<<key, id>>}
  /\ UNCHANGED ledger

LedgerNext ==
  \/ \E id \in PaymentIds, key \in Keys \cup {Null} : Open(id, key) \/ Acknowledge(key, id)
  \/ \E id \in PaymentIds, status \in PaymentStatus : Move(id, status)
  \/ \E ids \in SUBSET PaymentIds : Requeue(ids)

LedgerSpec == LedgerInit /\ [][LedgerNext]_ledgerVars
=============================================================================
