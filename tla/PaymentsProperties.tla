------------------------- MODULE PaymentsProperties -------------------------
(***************************************************************************)
(* What PaymentsService must satisfy, and the ledger it implements.        *)
(***************************************************************************)
EXTENDS PaymentsService

\* What a transaction at each step holds.
HasItsData(t) ==
  /\ t.step \in {"persist", "insert", "reply"} => t.request \in CreateRequests
  /\ t.step \in {"insert", "update"} => t.target \in PaymentIds
  /\ t.step = "reply" => t.code \in {201, 500}

\* Type invariant of the service's state.
TypeOK ==
  /\ db \in [PaymentIds -> Row]
  /\ minted \in SUBSET PaymentIds
  /\ tx \in [Workers -> Transaction] /\ \A w \in Workers : HasItsData(tx[w])
  /\ batch \in [Replicas -> Batch]
  /\ sequence \in [Replicas -> Nat]
  /\ metrics \in [Replicas -> [created : Nat, completed : Nat, failed : Nat]]
  /\ buffer \in [Replicas -> SUBSET Event]
  /\ topic \in SUBSET Event
  /\ dropped \in SUBSET Event
  /\ answers \in SUBSET Answer
  /\ creates \in 0..MaxCreates /\ updates \in 0..MaxUpdates /\ crashes \in 0..MaxCrashes

----------------------------------------------------------------------------
\* Safety

Created == {a \in answers : a.code = 201}

\* Two clients (or one that retries) told "201" for one idempotency key were
\* told of one payment, whichever replicas served them and however their
\* transactions overlapped (createPayment, uq_idempotency_key).
SameKeySamePayment ==
  \A a, b \in Created :
    (a.idempotencyKey # Null /\ a.idempotencyKey = b.idempotencyKey) => a.id = b.id

\* A payment a client was told of is committed under the key it sent, and
\* stays so through crashes: no response leaves before its commit.
AcknowledgedIsStored ==
  \A a \in Created : a.id \in Stored /\ db[a.id].idempotencyKey = a.idempotencyKey

\* What the producers were given, whatever became of it: it is in the topic,
\* on its way from a replica that lives, or gone.
Given == topic \cup dropped \cup UNION {buffer[r] : r \in Replicas}

Told(id) == {e \in Given : e.paymentId = id}

RetryIsTold(id) == \E e \in Told(id) : e.eventType = "PAYMENT_RETRY"

\* A row's creation, its being retried and its status were each told.
RowIsAnnounced(id, row) ==
  /\ \E e \in Told(id) : e.eventType = "PAYMENT_CREATED"
  /\ row.retryCount > 0 => RetryIsTold(id)
  /\ row.status # "PENDING" =>
       \E e \in Told(id) : e.eventType = "PAYMENT_STATUS_CHANGED" /\ e.status = row.status

\* The clearing side acts only on events.  Whatever state a payment is
\* committed in, its creation, its being retried and its current status were
\* each given to Kafka before that commit: the event is in the topic, or in
\* the buffer of a replica that lives, or it is gone.  And an event is gone
\* only if Kafka refused or never confirmed it, or a replica died holding it:
\* no rollback, race or restart between send and commit loses one otherwise.
\* (A second failure is told by an event like the first's.)
CommittedIsAnnounced ==
  /\ \A id \in Stored : RowIsAnnounced(id, db[id])
  /\ dropped # {} => (FALSE \in BrokerAnswers \/ crashes > 0)

\* Every change of a committed status starts from the status that was
\* committed, not from the one some transaction once read: it is a move of
\* the lifecycle diagram, and only a requeued FAILED payment is counted as a
\* retry.  Stale reads are what @Version has to stop.
LegalTransitions ==
  [][\A id \in PaymentIds :
       LET old == db[id]  new == db'[id] IN
       old.status # Absent =>
         /\ new.status # old.status => new.status \in Successors[old.status]
         /\ new.retryCount # old.retryCount =>
              /\ old.status = "FAILED" /\ new.status = "PENDING"
              /\ new.retryCount = old.retryCount + 1]_vars

\* What clearing recorded on a payment is never lost to a transaction that
\* did not see it: a committed row keeps each reference and reason until an
\* update that read that very value puts another in its place.  (updateStatus
\* and the retry job write whole rows; a batch or an update that read an
\* older row would put the older values back.)
NothingForgotten ==
  [][\A id \in Stored, field \in {"clearingReference", "failureReason"} :
       (db[id][field] # Null /\ db'[id][field] # db[id][field]) =>
         /\ db'[id][field] # Null
         /\ \E w \in Workers :
              /\ tx[w].step = "update" /\ tx[w].target = id
              /\ tx[w].base[field] = db[id][field]
              /\ tx[w].entity[field] = db'[id][field]
              /\ tx'[w].step = "idle"]_vars

----------------------------------------------------------------------------
\* The inductive invariant behind the safety properties

\* Equal in all that a write has to preserve.
SameData(a, b) ==
  /\ a.status = b.status /\ a.retryCount = b.retryCount
  /\ a.idempotencyKey = b.idempotencyKey
  /\ a.clearingReference = b.clearingReference /\ a.failureReason = b.failureReason

\* A row that was read from id: the table holds the same data, or a later version.
ReadFrom(id, row) ==
  /\ id \in Stored
  /\ row.version <= db[id].version
  /\ row.version = db[id].version => SameData(row, db[id])

\* An UPDATE in flight changes what it read by one legal transition.
LegalUpdate(id, read, row) ==
  /\ ReadFrom(id, read)
  /\ read.status \in PaymentStatus /\ row.status \in PaymentStatus
  /\ ValidateStatusTransition(read.status, row.status)
  /\ row.version = read.version /\ row.retryCount = read.retryCount
  /\ row.idempotencyKey = read.idempotencyKey
  /\ read.clearingReference # Null => row.clearingReference # Null
  /\ read.failureReason # Null => row.failureReason # Null

UpdatesAreLegal ==
  \A w \in Workers :
    tx[w].step = "update" => LegalUpdate(tx[w].target, tx[w].base, tx[w].entity)

\* A batch in flight holds FAILED rows with retries left.
DueRetry(id, read) ==
  ReadFrom(id, read) /\ read.status = "FAILED" /\ read.retryCount < MaxRetries

BatchesAreDue == \A r \in Replicas : \A id \in Taken(r) : DueRetry(id, batch[r].read[id])

\* An INSERT in flight is of a new payment under an id of its own.
InsertsAreFresh ==
  \A w \in Workers : tx[w].step = "insert" =>
    /\ tx[w].target \in minted \ Stored
    /\ tx[w].entity.status = "PENDING" /\ tx[w].entity.retryCount = 0
    /\ tx[w].entity.idempotencyKey = tx[w].request.idempotencyKey
    /\ \A v \in Workers :
         (tx[v].step = "insert" /\ tx[v].target = tx[w].target) => v = w

\* A 201 on its way is of a committed payment with the request's key.
RepliesAreStored ==
  \A w \in Workers : (tx[w].step = "reply" /\ tx[w].code = 201) =>
    /\ tx[w].target \in Stored
    /\ db[tx[w].target].idempotencyKey = tx[w].request.idempotencyKey

StoredKeysAreUnique ==
  \A a, b \in Stored :
    (db[a].idempotencyKey # Null /\ db[a].idempotencyKey = db[b].idempotencyKey) => a = b

\* The strengthening that every step preserves.
IInv ==
  /\ Stored \subseteq minted
  /\ UpdatesAreLegal
  /\ BatchesAreDue
  /\ InsertsAreFresh
  /\ RepliesAreStored
  /\ StoredKeysAreUnique
  /\ AcknowledgedIsStored

\* What makes CommittedIsAnnounced inductive: the row of an INSERT or UPDATE in
\* flight, and each turn of a batch that is over, were announced already.
InFlightIsAnnounced ==
  /\ \A w \in Workers :
       tx[w].step \in {"insert", "update"} => RowIsAnnounced(tx[w].target, tx[w].entity)
  /\ \A r \in Replicas : \A id \in Taken(r) \ batch[r].todo : RetryIsTold(id)

----------------------------------------------------------------------------
\* Refinement

LedgerEntry(id) == [status  |-> db[id].status,
                    retries |-> db[id].retryCount,
                    key     |-> db[id].idempotencyKey]

Ledger == INSTANCE PaymentLedger WITH
  ledger <- [id \in PaymentIds |-> LedgerEntry(id)],
  acknowledged <- {<<a.idempotencyKey, a.id>> : a \in Created}

\* The service implements the ledger: transactions, caches, crashes and
\* concurrent schedulers add no behaviour a client or clearing could tell
\* from atomic operations on one ledger.
ImplementsLedger == Ledger!LedgerSpec

----------------------------------------------------------------------------
\* Liveness

\* A FAILED payment with retries left does not stay FAILED: some replica's
\* scheduler requeues it (or clearing moves it first), although schedulers
\* race, whole batches roll back and replicas crash.
FailedIsRequeued ==
  \A id \in PaymentIds :
    (db[id].status = "FAILED" /\ db[id].retryCount < MaxRetries) ~> db[id].status # "FAILED"

=============================================================================
