-------------------------- MODULE PaymentsService --------------------------
(***************************************************************************)
(* The payments service: request threads and one retry scheduler in each   *)
(* of several replicas, over one PostgreSQL table and one Kafka topic.     *)
(*                                                                         *)
(* Every service method is one @Transactional method.  Hibernate defers    *)
(* its INSERT and UPDATE to the flush at commit (ids are generated in      *)
(* memory), so a transaction is two steps here: the method body, which     *)
(* reads committed rows, counts and publishes, and the commit, where the   *)
(* unique constraints and the @Version check decide.  What the body gave   *)
(* the Kafka producer, and the metrics, are not undone by a rollback.      *)
(*                                                                         *)
(* The producer is asynchronous and nobody looks at its futures: an event  *)
(* lies in its buffer until the broker has it, or the producer gives up,   *)
(* or the replica dies, before or after the transaction's commit.          *)
(***************************************************************************)
EXTENDS Naturals, FiniteSets, PaymentLifecycle

CONSTANTS Replicas,        \* running instances of the service
          Workers,         \* request threads
          HomeOf,          \* the replica a request thread belongs to
          PaymentIds,      \* UUIDs the id generator may return
          Keys,            \* idempotency keys clients use
          Payloads,        \* the rest of a create request
          Fractional,      \* payloads whose amount has more decimals than its currency
          Suffixes,        \* 4-digit suffixes of payment references
          References,      \* clearing references
          Reasons,         \* failure reasons
          CreateRequests,  \* the POST bodies clients send
          UpdateRequests,  \* the PATCH bodies the clearing side sends
          BrokerAnswers,   \* {TRUE}: Kafka takes every event; FALSE: it may not
          Null,            \* an absent key, payload, reference, ...
          MaxRetries,      \* 3: findRetryablePayments and ck_retry_count
          MaxCreates, MaxUpdates, MaxCrashes  \* bounds on what the environment does

CreateRequest == [idempotencyKey : Keys \cup {Null}, payload : Payloads]

UpdateRequest == [newStatus : PaymentStatus,
                  clearingReference : References \cup {Null},
                  failureReason : Reasons \cup {Null}]

ASSUME ConstantsAssumption ==
  /\ HomeOf \in [Workers -> Replicas]
  /\ Null \notin PaymentIds \cup Keys \cup Payloads \cup References \cup Reasons
  /\ CreateRequests \subseteq CreateRequest
  /\ UpdateRequests \subseteq UpdateRequest
  /\ Fractional \subseteq Payloads
  /\ BrokerAnswers \subseteq BOOLEAN
  /\ MaxRetries \in Nat /\ MaxCreates \in Nat /\ MaxUpdates \in Nat /\ MaxCrashes \in Nat

VARIABLES
  db,        \* the committed rows of table payments
  minted,    \* UUIDs handed out so far
  tx,        \* the transaction each request thread is in
  batch,     \* the transaction each replica's retry scheduler is in
  sequence,  \* PaymentReferenceGenerator.sequence of each replica
  metrics,   \* the counters each replica exports
  buffer,    \* events each replica's producer still has to deliver
  topic,     \* events the broker accepted
  dropped,   \* events that no one will send again: see PublishPaymentEvent, ProducerStep, Crash
  answers,   \* the responses to POST that reached a client
  creates, updates, crashes  \* what the environment has done so far

vars == <<db, minted, tx, batch, sequence, metrics, buffer, topic, dropped, answers,
          creates, updates, crashes>>

----------------------------------------------------------------------------
\* Rows, transactions, events

Row == [status : PaymentStatus \cup {Absent},
        retryCount : Nat,
        version : Nat,
        idempotencyKey : Keys \cup {Null},
        payload : Payloads \cup {Null},
        paymentReference : (Nat \X Suffixes) \cup {Null},
        clearingReference : References \cup {Null},
        failureReason : Reasons \cup {Null},
        cooled : BOOLEAN]        \* updated_at is more than 5 minutes ago

NoRow == [status |-> Absent, retryCount |-> 0, version |-> 0, idempotencyKey |-> Null,
          payload |-> Null, paymentReference |-> Null, clearingReference |-> Null,
          failureReason |-> Null, cooled |-> FALSE]

Stored == {id \in PaymentIds : db[id].status # Absent}

Transaction == [step : {"idle", "persist", "insert", "update", "reply"},
                request : CreateRequests \cup {Null},
                target : PaymentIds \cup {Null},
                base : Row,      \* the row as the transaction read it
                entity : Row,    \* the row as it would write it
                code : {0, 201, 500}]

NoTransaction == [step |-> "idle", request |-> Null, target |-> Null,
                  base |-> NoRow, entity |-> NoRow, code |-> 0]

Persisting(request) == [step |-> "persist", request |-> request, target |-> Null,
                        base |-> NoRow, entity |-> NoRow, code |-> 0]

Inserting(request, id, row) == [step |-> "insert", request |-> request, target |-> id,
                                base |-> NoRow, entity |-> row, code |-> 0]

Updating(id, read, row) == [step |-> "update", request |-> Null, target |-> id,
                            base |-> read, entity |-> row, code |-> 0]

Replying(request, id, code) == [step |-> "reply", request |-> request, target |-> id,
                                base |-> NoRow, entity |-> NoRow, code |-> code]

Batch == [step : {"idle", "requeue"}, todo : SUBSET PaymentIds, read : [PaymentIds -> Row]]

NoBatch == [step |-> "idle", todo |-> {}, read |-> [id \in PaymentIds |-> NoRow]]

Event == [eventType : {"PAYMENT_CREATED", "PAYMENT_STATUS_CHANGED", "PAYMENT_RETRY"},
          paymentId : PaymentIds,
          status : PaymentStatus]

Answer == [idempotencyKey : Keys \cup {Null}, payload : Payloads,
           id : PaymentIds \cup {Null}, code : {201, 500}]

NoMetrics == [created |-> 0, completed |-> 0, failed |-> 0]

Init ==
  /\ db = [id \in PaymentIds |-> NoRow]
  /\ minted = {}
  /\ tx = [w \in Workers |-> NoTransaction]
  /\ batch = [r \in Replicas |-> NoBatch]
  /\ sequence = [r \in Replicas |-> 0]
  /\ metrics = [r \in Replicas |-> NoMetrics]
  /\ buffer = [r \in Replicas |-> {}]
  /\ topic = {} /\ dropped = {} /\ answers = {}
  /\ creates = 0 /\ updates = 0 /\ crashes = 0

\* publishPaymentEvent: send hands the event to the replica's producer, or
\* throws (no metadata, buffer full), which is logged and otherwise ignored.
PublishPaymentEvent(r, eventType, id, row) ==
  LET event == [eventType |-> eventType, paymentId |-> id, status |-> row.status] IN
  \E handedOver \in BrokerAnswers :
    /\ buffer'  = IF handedOver THEN [buffer EXCEPT ![r] = @ \cup {event}] ELSE buffer
    /\ dropped' = IF handedOver THEN dropped ELSE dropped \cup {event}
    /\ topic'   = topic

\* An UPDATE that reaches the table: Hibernate bumps the version and both
\* @LastModifiedDate and the trigger set updated_at to now.
Written(row) == [row EXCEPT !.version = @ + 1, !.cooled = FALSE]

----------------------------------------------------------------------------
\* POST /api/v1/payments

\* CLIENT, then a worker: createPayment looks the key up.  A hit answers
\* with that payment, whatever payload came with the key.
CreatePayment(w, request) ==
  LET hits == {id \in Stored : /\ request.idempotencyKey # Null
                               /\ db[id].idempotencyKey = request.idempotencyKey} IN
  /\ tx[w].step = "idle"
  /\ creates < MaxCreates
  /\ creates' = creates + 1
  /\ \/ /\ hits = {}
        /\ tx' = [tx EXCEPT ![w] = Persisting(request)]
     \/ \E id \in hits : tx' = [tx EXCEPT ![w] = Replying(request, id, 201)]
  /\ UNCHANGED <<db, minted, batch, sequence, metrics, buffer, topic, dropped, answers,
                 updates, crashes>>

\* toMinorUnits throws: the transaction rolls back, the handler answers 500.
RejectAmount(w) ==
  /\ tx[w].step = "persist"
  /\ tx[w].request.payload \in Fractional
  /\ tx' = [tx EXCEPT ![w] = Replying(tx[w].request, Null, 500)]
  /\ UNCHANGED <<db, minted, batch, sequence, metrics, buffer, topic, dropped, answers,
                 creates, updates, crashes>>

\* Mutant of NewPayment: the builder forgets the status.
NewPaymentWithoutStatus(request, reference) ==
  [NoRow EXCEPT !.idempotencyKey = request.idempotencyKey,
                !.payload = request.payload,
                !.paymentReference = reference]

\* The builder of persistAndPublish.
NewPayment(request, reference) ==
  [status |-> "PENDING", retryCount |-> 0, version |-> 0,
   idempotencyKey |-> request.idempotencyKey, payload |-> request.payload,
   paymentReference |-> reference, clearingReference |-> Null, failureReason |-> Null,
   cooled |-> FALSE]

\* Mutant of PersistAndPublish: the event is never sent.
PersistWithoutPublish(w) ==
  LET r == HomeOf[w] IN
  /\ tx[w].step = "persist"
  /\ tx[w].request.payload \notin Fractional
  /\ sequence' = [sequence EXCEPT ![r] = @ + 1]
  /\ metrics' = [metrics EXCEPT ![r].created = @ + 1]
  /\ \E id \in PaymentIds \ minted, suffix \in Suffixes :
       LET row == NewPayment(tx[w].request, <<sequence[r] + 1, suffix>>) IN
       /\ minted' = minted \cup {id}
       /\ tx' = [tx EXCEPT ![w] = Inserting(tx[w].request, id, row)]
  /\ UNCHANGED <<db, batch, buffer, topic, dropped, answers, creates, updates, crashes>>

\* persistAndPublish: a reference and an id are taken, the counter and the
\* event go out, and the INSERT waits for the commit.
PersistAndPublish(w) ==
  LET r == HomeOf[w] IN
  /\ tx[w].step = "persist"
  /\ tx[w].request.payload \notin Fractional
  /\ sequence' = [sequence EXCEPT ![r] = @ + 1]
  /\ metrics' = [metrics EXCEPT ![r].created = @ + 1]
  /\ \E id \in PaymentIds \ minted, suffix \in Suffixes :
       LET row == NewPayment(tx[w].request, <<sequence[r] + 1, suffix>>) IN
       /\ minted' = minted \cup {id}
       /\ tx' = [tx EXCEPT ![w] = Inserting(tx[w].request, id, row)]
       /\ PublishPaymentEvent(r, "PAYMENT_CREATED", id, row)
  /\ UNCHANGED <<db, batch, answers, creates, updates, crashes>>

\* Mutant of Unique: the table has no uq_idempotency_key.
UniqueReferenceOnly(row) ==
  \A id \in Stored : db[id].paymentReference # row.paymentReference

\* uq_idempotency_key and uq_payment_reference.  NULL keys never clash.
Unique(row) ==
  \A id \in Stored :
    /\ row.idempotencyKey # Null => db[id].idempotencyKey # row.idempotencyKey
    /\ db[id].paymentReference # row.paymentReference

\* Mutant of CommitCreate: the response of the method body is sent whether or
\* not the INSERT went through.
CommitCreateAnsweredAnyway(w) ==
  /\ tx[w].step = "insert"
  /\ db' = IF Unique(tx[w].entity) THEN [db EXCEPT ![tx[w].target] = tx[w].entity] ELSE db
  /\ tx' = [tx EXCEPT ![w] = Replying(tx[w].request, tx[w].target, 201)]
  /\ UNCHANGED <<minted, batch, sequence, metrics, buffer, topic, dropped, answers,
                 creates, updates, crashes>>

\* The INSERT succeeds and the method's response stands, or a constraint
\* fails and the client gets 500, with no second look at the key.
CommitCreate(w) ==
  /\ tx[w].step = "insert"
  /\ \/ /\ Unique(tx[w].entity)
        /\ db' = [db EXCEPT ![tx[w].target] = tx[w].entity]
        /\ tx' = [tx EXCEPT ![w] = Replying(tx[w].request, tx[w].target, 201)]
     \/ /\ ~Unique(tx[w].entity)
        /\ db' = db
        /\ tx' = [tx EXCEPT ![w] = Replying(tx[w].request, Null, 500)]
  /\ UNCHANGED <<minted, batch, sequence, metrics, buffer, topic, dropped, answers,
                 creates, updates, crashes>>

\* The response leaves the replica.
Respond(w) ==
  /\ tx[w].step = "reply"
  /\ answers' = answers \cup {[idempotencyKey |-> tx[w].request.idempotencyKey,
                               payload |-> tx[w].request.payload,
                               id |-> tx[w].target, code |-> tx[w].code]}
  /\ tx' = [tx EXCEPT ![w] = NoTransaction]
  /\ UNCHANGED <<db, minted, batch, sequence, metrics, buffer, topic, dropped,
                 creates, updates, crashes>>

----------------------------------------------------------------------------
\* PATCH /api/v1/payments/{id}/status

\* The entity after the setters of updateStatus: a null field leaves the
\* column as it was.
Updated(row, request) ==
  [row EXCEPT
     !.status = request.newStatus,
     !.clearingReference = IF request.clearingReference = Null THEN @
                           ELSE request.clearingReference,
     !.failureReason = IF request.failureReason = Null THEN @ ELSE request.failureReason]

Counted(counters, status) ==
  [counters EXCEPT !.completed = IF status = "COMPLETED" THEN @ + 1 ELSE @,
                   !.failed    = IF status = "FAILED"    THEN @ + 1 ELSE @]

\* No such payment (404) or a forbidden transition (422): nothing changes.
RejectUpdate(w, id, request) ==
  /\ tx[w].step = "idle"
  /\ updates < MaxUpdates
  /\ updates' = updates + 1
  /\ \/ id \notin Stored
     \/ ~ValidateStatusTransition(db[id].status, request.newStatus)
  /\ UNCHANGED <<db, minted, tx, batch, sequence, metrics, buffer, topic, dropped, answers,
                 creates, crashes>>

\* CLEARING SIDE, then a worker: the body of updateStatus.
UpdateStatus(w, id, request) ==
  LET r == HomeOf[w]
      row == Updated(db[id], request) IN
  /\ tx[w].step = "idle"
  /\ updates < MaxUpdates
  /\ updates' = updates + 1
  /\ id \in Stored
  /\ ValidateStatusTransition(db[id].status, request.newStatus)
  /\ tx' = [tx EXCEPT ![w] = Updating(id, db[id], row)]
  /\ metrics' = [metrics EXCEPT ![r] = Counted(@, request.newStatus)]
  /\ PublishPaymentEvent(r, "PAYMENT_STATUS_CHANGED", id, row)
  /\ UNCHANGED <<db, minted, batch, sequence, answers, creates, crashes>>

\* Mutant of Unmoved: the entity has no @Version.
UnmovedUnversioned(id, row) == TRUE

\* @Version: the row is still the one the transaction read.
Unmoved(id, row) == db[id].version = row.version

\* A clean entity issues no UPDATE.  A dirty one is written if its version
\* still holds; otherwise the transaction rolls back (500).
CommitUpdate(w) ==
  LET id == tx[w].target IN
  /\ tx[w].step = "update"
  /\ \/ /\ tx[w].entity # tx[w].base
        /\ Unmoved(id, tx[w].base)
        /\ db' = [db EXCEPT ![id] = Written(tx[w].entity)]
     \/ /\ tx[w].entity = tx[w].base \/ ~Unmoved(id, tx[w].base)
        /\ db' = db
  /\ tx' = [tx EXCEPT ![w] = NoTransaction]
  /\ UNCHANGED <<minted, batch, sequence, metrics, buffer, topic, dropped, answers,
                 creates, updates, crashes>>

----------------------------------------------------------------------------
\* The retry scheduler, one per replica, with no lock between them

\* Five minutes pass without a write to the row.
BackoffElapses(id) ==
  /\ db[id].status = "FAILED" /\ ~db[id].cooled
  /\ db' = [db EXCEPT ![id].cooled = TRUE]
  /\ UNCHANGED <<minted, tx, batch, sequence, metrics, buffer, topic, dropped, answers,
                 creates, updates, crashes>>

\* Mutant of Retryable: <= for <.
RetryableOnceMore(row) == row.status = "FAILED" /\ row.retryCount <= MaxRetries /\ row.cooled

\* The WHERE clause of findRetryablePayments.
Retryable(row) == row.status = "FAILED" /\ row.retryCount < MaxRetries /\ row.cooled

\* SCHEDULER of replica r: the query of retryFailedPayments.
FindRetryablePayments(r) ==
  LET due == {id \in PaymentIds : Retryable(db[id])} IN
  /\ batch[r].step = "idle"
  /\ due # {}
  /\ batch' = [batch EXCEPT ![r] = [step |-> "requeue", todo |-> due,
                 read |-> [id \in PaymentIds |-> IF id \in due THEN db[id] ELSE NoRow]]]
  /\ UNCHANGED <<db, minted, tx, sequence, metrics, buffer, topic, dropped, answers,
                 creates, updates, crashes>>

Requeued(row) == [row EXCEPT !.status = "PENDING", !.retryCount = @ + 1]

\* Mutant of RequeuePayment: the payment is requeued but not announced.
RequeueSilently(r, id) ==
  /\ batch[r].step = "requeue"
  /\ id \in batch[r].todo
  /\ batch' = [batch EXCEPT ![r].todo = @ \ {id}]
  /\ UNCHANGED <<db, minted, tx, sequence, metrics, buffer, topic, dropped, answers,
                 creates, updates, crashes>>

\* One turn of the forEach: the entity is changed in memory and announced.
\* (createdAt orders the turns in the code; any order is allowed here.)
RequeuePayment(r, id) ==
  /\ batch[r].step = "requeue"
  /\ id \in batch[r].todo
  /\ batch' = [batch EXCEPT ![r].todo = @ \ {id}]
  /\ PublishPaymentEvent(r, "PAYMENT_RETRY", id, Requeued(batch[r].read[id]))
  /\ UNCHANGED <<db, minted, tx, sequence, metrics, answers, creates, updates, crashes>>

Taken(r) == {id \in PaymentIds : batch[r].read[id].status # Absent}

\* The whole batch commits or, if any row moved or breaks ck_retry_count,
\* rolls back.
CommitBatch(r) ==
  LET read == batch[r].read
      writable == \A id \in Taken(r) : /\ Unmoved(id, read[id])
                                       /\ Requeued(read[id]).retryCount <= MaxRetries IN
  /\ batch[r].step = "requeue"
  /\ batch[r].todo = {}
  /\ \/ /\ writable
        /\ db' = [id \in PaymentIds |->
                    IF id \in Taken(r) THEN Written(Requeued(read[id])) ELSE db[id]]
     \/ /\ ~writable
        /\ db' = db
  /\ batch' = [batch EXCEPT ![r] = NoBatch]
  /\ UNCHANGED <<minted, tx, sequence, metrics, buffer, topic, dropped, answers,
                 creates, updates, crashes>>

----------------------------------------------------------------------------
\* The Kafka producer of replica r, on its own thread: the broker has the
\* event, or the producer gives it up (retries, delivery.timeout.ms) and
\* fails a future that nobody holds.
ProducerStep(r) ==
  \E event \in buffer[r], delivered \in BrokerAnswers :
    /\ buffer' = [buffer EXCEPT ![r] = @ \ {event}]
    /\ topic' = IF delivered THEN topic \cup {event} ELSE topic
    /\ dropped' = IF delivered THEN dropped ELSE dropped \cup {event}
    /\ UNCHANGED <<db, minted, tx, batch, sequence, metrics, answers,
                   creates, updates, crashes>>

\* A replica dies and is restarted by Kubernetes: open transactions roll
\* back, their clients hear nothing, and all that lived in memory is gone,
\* with the events its producer had not delivered.
Crash(r) ==
  /\ crashes < MaxCrashes
  /\ crashes' = crashes + 1
  /\ tx' = [w \in Workers |-> IF HomeOf[w] = r THEN NoTransaction ELSE tx[w]]
  /\ batch' = [batch EXCEPT ![r] = NoBatch]
  /\ sequence' = [sequence EXCEPT ![r] = 0]
  /\ metrics' = [metrics EXCEPT ![r] = NoMetrics]
  /\ buffer' = [buffer EXCEPT ![r] = {}]
  /\ dropped' = dropped \cup buffer[r]
  /\ UNCHANGED <<db, minted, topic, answers, creates, updates>>

WorkerStep(w) == RejectAmount(w) \/ PersistAndPublish(w) \/ CommitCreate(w)
                 \/ Respond(w) \/ CommitUpdate(w)

SchedulerStep(r) == \/ FindRetryablePayments(r)
                    \/ \E id \in PaymentIds : RequeuePayment(r, id)
                    \/ CommitBatch(r)

Next ==
  \/ \E w \in Workers : WorkerStep(w)
  \/ \E w \in Workers, request \in CreateRequests : CreatePayment(w, request)
  \/ \E w \in Workers, id \in PaymentIds, request \in UpdateRequests :
       UpdateStatus(w, id, request) \/ RejectUpdate(w, id, request)
  \/ \E r \in Replicas : SchedulerStep(r) \/ ProducerStep(r) \/ Crash(r)
  \/ \E id \in PaymentIds : BackoffElapses(id)

Spec == Init /\ [][Next]_vars

\* Threads run, the scheduler fires every five minutes, time passes.
\* Clients need not send anything, replicas need not crash, and nothing is
\* assumed of the producer: no service code waits for it.
Fairness ==
  /\ \A w \in Workers : WF_vars(WorkerStep(w))
  /\ \A r \in Replicas : WF_vars(SchedulerStep(r))
  /\ \A id \in PaymentIds : WF_vars(BackoffElapses(id))

FairSpec == Spec /\ Fairness
=============================================================================
