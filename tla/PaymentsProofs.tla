--------------------------- MODULE PaymentsProofs ---------------------------
(***************************************************************************)
(* Proofs about PaymentsService for every set of replicas, threads,        *)
(* payments, keys and requests, and for every retry budget.                *)
(***************************************************************************)
EXTENDS PaymentsProperties, TLAPS

----------------------------------------------------------------------------
\* Rows

\* Every value a row field is given has its type.
LEMMA RowTypes ==
  /\ NoRow \in Row
  /\ \A row \in Row : /\ Written(row) \in Row
                      /\ Requeued(row) \in Row
                      /\ [row EXCEPT !.cooled = TRUE] \in Row
  /\ \A row \in Row, request \in UpdateRequest : Updated(row, request) \in Row
  /\ \A request \in CreateRequest, n \in Nat, suffix \in Suffixes :
       NewPayment(request, <<n, suffix>>) \in Row
<1>1. NoRow \in Row
  BY DEF NoRow, Row
<1>2. ASSUME NEW row \in Row
      PROVE  /\ Written(row) \in Row
             /\ Requeued(row) \in Row
             /\ [row EXCEPT !.cooled = TRUE] \in Row
  <2>1. Written(row) \in Row
    <3>1. row.version + 1 \in Nat
      BY DEF Row
    <3> QED BY <3>1 DEF Written, Row
  <2>2. Requeued(row) \in Row
    <3>1. row.retryCount + 1 \in Nat
      BY DEF Row
    <3> QED BY <3>1 DEF Requeued, Row, PaymentStatus
  <2>3. [row EXCEPT !.cooled = TRUE] \in Row
    BY DEF Row
  <2> QED BY <2>1, <2>2, <2>3
<1>3. ASSUME NEW row \in Row, NEW request \in UpdateRequest
      PROVE  Updated(row, request) \in Row
  <2> DEFINE reference == IF request.clearingReference = Null THEN row.clearingReference
                          ELSE request.clearingReference
             reason == IF request.failureReason = Null THEN row.failureReason
                       ELSE request.failureReason
  <2>1. /\ reference \in References \cup {Null} /\ reason \in Reasons \cup {Null}
        /\ request.newStatus \in PaymentStatus
    BY DEF Row, UpdateRequest
  <2>2. Updated(row, request) = [row EXCEPT !.status = request.newStatus,
                                            !.clearingReference = reference,
                                            !.failureReason = reason]
    BY DEF Updated, Row
  <2> HIDE DEF reference, reason
  <2> QED BY <2>1, <2>2 DEF Row
<1>4. ASSUME NEW request \in CreateRequest, NEW n \in Nat, NEW suffix \in Suffixes
      PROVE  NewPayment(request, <<n, suffix>>) \in Row
  BY DEF NewPayment, Row, CreateRequest, PaymentStatus
<1> QED BY <1>1, <1>2, <1>3, <1>4

\* The transactions of each step have their type and hold what they need.
LEMMA TransactionTypes ==
  LET Fits(t) == t \in Transaction /\ HasItsData(t) IN
  /\ Fits(NoTransaction)
  /\ \A request \in CreateRequests :
       /\ Fits(Persisting(request))
       /\ \A id \in PaymentIds, row \in Row : Fits(Inserting(request, id, row))
       /\ \A id \in PaymentIds \cup {Null}, code \in {201, 500} : Fits(Replying(request, id, code))
  /\ \A id \in PaymentIds, read \in Row, row \in Row : Fits(Updating(id, read, row))
BY RowTypes DEF Transaction, HasItsData, NoTransaction, Persisting, Inserting, Replying, Updating

\* A published event has its type.
LEMMA EventTypes ==
  ASSUME NEW kind \in {"PAYMENT_CREATED", "PAYMENT_STATUS_CHANGED", "PAYMENT_RETRY"},
         NEW id \in PaymentIds, NEW row, row.status \in PaymentStatus, NEW r \in Replicas,
         buffer \in [Replicas -> SUBSET Event], topic \in SUBSET Event,
         dropped \in SUBSET Event, PublishPaymentEvent(r, kind, id, row)
  PROVE  /\ buffer' \in [Replicas -> SUBSET Event]
         /\ topic' \in SUBSET Event /\ dropped' \in SUBSET Event
<1> DEFINE event == [eventType |-> kind, paymentId |-> id, status |-> row.status]
<1>1. event \in Event
  BY DEF Event
<1>2. /\ buffer' = buffer \/ buffer' = [buffer EXCEPT ![r] = @ \cup {event}]
      /\ dropped' = dropped \/ dropped' = dropped \cup {event}
      /\ topic' = topic
  BY DEF PublishPaymentEvent
<1> HIDE DEF event
<1> QED BY <1>1, <1>2

----------------------------------------------------------------------------
\* Type correctness

\* The initial state is well typed.
LEMMA TypeInit == Init => TypeOK
<1> SUFFICES ASSUME Init PROVE TypeOK
  OBVIOUS
<1>1. db \in [PaymentIds -> Row]
  BY RowTypes DEF Init
<1>2. tx \in [Workers -> Transaction] /\ \A w \in Workers : HasItsData(tx[w])
  BY TransactionTypes DEF Init
<1>3. batch \in [Replicas -> Batch]
  BY RowTypes DEF Init, NoBatch, Batch
<1> QED
  BY <1>1, <1>2, <1>3, ConstantsAssumption DEF Init, TypeOK, ConstantsAssumption, NoMetrics

\* Every step keeps the state well typed.
LEMMA TypeStep == TypeOK /\ [Next]_vars => TypeOK'
<1> SUFFICES ASSUME TypeOK, [Next]_vars PROVE TypeOK'
  OBVIOUS
<1> USE ConstantsAssumption DEF ConstantsAssumption
<1>1. ASSUME NEW w \in Workers, NEW request \in CreateRequests, CreatePayment(w, request)
      PROVE  TypeOK'
  <2>1. PICK t : tx' = [tx EXCEPT ![w] = t] /\ t \in Transaction /\ HasItsData(t)
    BY <1>1, TransactionTypes DEF CreatePayment, Stored
  <2> QED BY <1>1, <2>1 DEF CreatePayment, TypeOK
<1>2. ASSUME NEW w \in Workers, RejectAmount(w) PROVE TypeOK'
  <2>1. tx[w].request \in CreateRequests
    BY <1>2 DEF RejectAmount, TypeOK, HasItsData
  <2> QED BY <1>2, <2>1, TransactionTypes DEF RejectAmount, TypeOK
<1>3. ASSUME NEW w \in Workers, PersistAndPublish(w) PROVE TypeOK'
  <2> DEFINE r == HomeOf[w]
  <2>1. PICK id \in PaymentIds \ minted, suffix \in Suffixes :
          LET row == NewPayment(tx[w].request, <<sequence[r] + 1, suffix>>) IN
          /\ minted' = minted \cup {id}
          /\ tx' = [tx EXCEPT ![w] = Inserting(tx[w].request, id, row)]
          /\ PublishPaymentEvent(r, "PAYMENT_CREATED", id, row)
    BY <1>3 DEF PersistAndPublish
  <2> DEFINE row == NewPayment(tx[w].request, <<sequence[r] + 1, suffix>>)
  <2>2. r \in Replicas /\ tx[w].request \in CreateRequests /\ sequence[r] + 1 \in Nat
    BY <1>3 DEF PersistAndPublish, TypeOK, HasItsData
  <2>3. row \in Row /\ row.status \in PaymentStatus
    BY <2>2, RowTypes DEF NewPayment, PaymentStatus
  <2>4. /\ buffer' \in [Replicas -> SUBSET Event]
        /\ topic' \in SUBSET Event /\ dropped' \in SUBSET Event
    BY <2>1, <2>2, <2>3, EventTypes DEF TypeOK
  <2>5. tx' \in [Workers -> Transaction] /\ \A v \in Workers : HasItsData(tx'[v])
    <3>1. tx' = [tx EXCEPT ![w] = Inserting(tx[w].request, id, row)]
      BY <2>1
    <3> HIDE DEF row
    <3>2. Inserting(tx[w].request, id, row) \in Transaction
          /\ HasItsData(Inserting(tx[w].request, id, row))
      BY <2>2, <2>3, TransactionTypes
    <3> QED BY <3>1, <3>2 DEF TypeOK
  <2>6. sequence' \in [Replicas -> Nat]
    BY <1>3, <2>2 DEF PersistAndPublish, TypeOK
  <2>7. metrics' \in [Replicas -> [created : Nat, completed : Nat, failed : Nat]]
    BY <1>3, <2>2 DEF PersistAndPublish, TypeOK
  <2> QED BY <1>3, <2>1, <2>4, <2>5, <2>6, <2>7 DEF PersistAndPublish, TypeOK
<1>4. ASSUME NEW w \in Workers, CommitCreate(w) PROVE TypeOK'
  <2>1. tx[w] \in Transaction /\ tx[w].target \in PaymentIds /\ tx[w].request \in CreateRequests
    BY <1>4 DEF CommitCreate, TypeOK, HasItsData
  <2>2. db' \in [PaymentIds -> Row]
    BY <1>4, <2>1 DEF CommitCreate, TypeOK, Transaction
  <2>3. tx' \in [Workers -> Transaction] /\ \A v \in Workers : HasItsData(tx'[v])
    <3>1. PICK t : tx' = [tx EXCEPT ![w] = t] /\ t \in Transaction /\ HasItsData(t)
      BY <1>4, <2>1, TransactionTypes DEF CommitCreate
    <3> QED BY <3>1 DEF TypeOK
  <2> QED BY <1>4, <2>2, <2>3 DEF CommitCreate, TypeOK
<1>5. ASSUME NEW w \in Workers, Respond(w) PROVE TypeOK'
  <2>1. tx[w] \in Transaction /\ HasItsData(tx[w]) /\ tx[w].step = "reply"
    BY <1>5 DEF Respond, TypeOK
  <2>2. answers' \in SUBSET Answer
    BY <1>5, <2>1 DEF Respond, TypeOK, Transaction, HasItsData, Answer, CreateRequest
  <2>3. tx' \in [Workers -> Transaction] /\ \A v \in Workers : HasItsData(tx'[v])
    BY <1>5, TransactionTypes DEF Respond, TypeOK
  <2> QED BY <1>5, <2>2, <2>3 DEF Respond, TypeOK
<1>6. ASSUME NEW w \in Workers, CommitUpdate(w) PROVE TypeOK'
  <2>1. tx[w] \in Transaction /\ tx[w].target \in PaymentIds /\ tx[w].entity \in Row
    BY <1>6 DEF CommitUpdate, TypeOK, HasItsData, Transaction
  <2>2. db' \in [PaymentIds -> Row]
    <3>1. Written(tx[w].entity) \in Row
      BY <2>1, RowTypes
    <3>2. db' = [db EXCEPT ![tx[w].target] = Written(tx[w].entity)] \/ db' = db
      BY <1>6 DEF CommitUpdate
    <3> QED BY <3>1, <3>2 DEF TypeOK
  <2>3. tx' \in [Workers -> Transaction] /\ \A v \in Workers : HasItsData(tx'[v])
    BY <1>6, TransactionTypes DEF CommitUpdate, TypeOK
  <2> QED BY <1>6, <2>2, <2>3 DEF CommitUpdate, TypeOK
<1>7. ASSUME NEW w \in Workers, NEW id \in PaymentIds, NEW request \in UpdateRequests,
             RejectUpdate(w, id, request)
      PROVE  TypeOK'
  BY <1>7 DEF RejectUpdate, TypeOK
<1>8. ASSUME NEW w \in Workers, NEW id \in PaymentIds, NEW request \in UpdateRequests,
             UpdateStatus(w, id, request)
      PROVE  TypeOK'
  <2> DEFINE row == Updated(db[id], request)
  <2>1. db[id] \in Row /\ HomeOf[w] \in Replicas /\ request \in UpdateRequest
    BY DEF TypeOK
  <2>2. row \in Row /\ row.status \in PaymentStatus
    <3>1. row \in Row
      BY <2>1, RowTypes
    <3>2. row.status = request.newStatus
      BY <2>1 DEF Updated, Row
    <3> QED BY <2>1, <3>1, <3>2 DEF UpdateRequest
  <2>3. /\ buffer' \in [Replicas -> SUBSET Event]
        /\ topic' \in SUBSET Event /\ dropped' \in SUBSET Event
    BY <1>8, <2>1, <2>2, EventTypes DEF UpdateStatus, TypeOK
  <2>5. tx' \in [Workers -> Transaction] /\ \A v \in Workers : HasItsData(tx'[v])
    <3>1. tx' = [tx EXCEPT ![w] = Updating(id, db[id], row)]
      BY <1>8 DEF UpdateStatus
    <3> HIDE DEF row
    <3> QED BY <2>1, <2>2, <3>1, TransactionTypes DEF TypeOK
  <2>6. metrics' \in [Replicas -> [created : Nat, completed : Nat, failed : Nat]]
    <3>1. ASSUME NEW m \in [created : Nat, completed : Nat, failed : Nat], NEW status
          PROVE  Counted(m, status) \in [created : Nat, completed : Nat, failed : Nat]
      <4>1. m.completed + 1 \in Nat /\ m.failed + 1 \in Nat
        OBVIOUS
      <4> QED BY <4>1 DEF Counted
    <3> QED BY <1>8, <2>1, <3>1 DEF UpdateStatus, TypeOK
  <2> QED BY <1>8, <2>3, <2>5, <2>6 DEF UpdateStatus, TypeOK
<1>9. ASSUME NEW r \in Replicas, FindRetryablePayments(r) PROVE TypeOK'
  BY <1>9, RowTypes DEF FindRetryablePayments, TypeOK, Batch
<1>10. ASSUME NEW r \in Replicas, NEW id \in PaymentIds, RequeuePayment(r, id)
       PROVE  TypeOK'
  <2>1. batch' \in [Replicas -> Batch]
    <3>1. batch[r] \in Batch
      BY DEF TypeOK
    <3>2. [batch[r] EXCEPT !.todo = @ \ {id}] \in Batch
      BY <3>1 DEF Batch
    <3>3. batch' = [batch EXCEPT ![r] = [batch[r] EXCEPT !.todo = @ \ {id}]]
      BY <1>10 DEF RequeuePayment, TypeOK
    <3> QED BY <3>2, <3>3 DEF TypeOK
  <2>2. Requeued(batch[r].read[id]).status \in PaymentStatus
    BY DEF Requeued, TypeOK, Batch, Row, PaymentStatus
  <2>3. /\ buffer' \in [Replicas -> SUBSET Event]
        /\ topic' \in SUBSET Event /\ dropped' \in SUBSET Event
    BY <1>10, <2>2, EventTypes DEF RequeuePayment, TypeOK
  <2> QED BY <1>10, <2>1, <2>3 DEF RequeuePayment, TypeOK
<1>11. ASSUME NEW r \in Replicas, CommitBatch(r) PROVE TypeOK'
  <2>1. \A id \in PaymentIds : batch[r].read[id] \in Row
    BY DEF TypeOK, Batch
  <2>2. db' \in [PaymentIds -> Row]
    <3>1. \A id \in PaymentIds : Written(Requeued(batch[r].read[id])) \in Row
      BY <2>1, RowTypes
    <3> QED BY <1>11, <3>1 DEF CommitBatch, TypeOK
  <2>3. batch' \in [Replicas -> Batch]
    BY <1>11, RowTypes DEF CommitBatch, TypeOK, NoBatch, Batch
  <2> QED BY <1>11, <2>2, <2>3 DEF CommitBatch, TypeOK
<1>12. ASSUME NEW r \in Replicas, Crash(r) PROVE TypeOK'
  <2>1. tx' \in [Workers -> Transaction] /\ \A v \in Workers : HasItsData(tx'[v])
    BY <1>12, TransactionTypes DEF Crash, TypeOK
  <2>2. batch' \in [Replicas -> Batch]
    BY <1>12, RowTypes DEF Crash, TypeOK, NoBatch, Batch
  <2> QED BY <1>12, <2>1, <2>2 DEF Crash, TypeOK, NoMetrics
<1>13. ASSUME NEW id \in PaymentIds, BackoffElapses(id) PROVE TypeOK'
  <2>1. db' \in [PaymentIds -> Row]
    BY <1>13, RowTypes DEF BackoffElapses, TypeOK
  <2> QED BY <1>13, <2>1 DEF BackoffElapses, TypeOK
<1>14. CASE UNCHANGED vars
  BY <1>14 DEF vars, TypeOK
<1>15. ASSUME NEW r \in Replicas, ProducerStep(r) PROVE TypeOK'
  <2>1. buffer' \in [Replicas -> SUBSET Event]
    BY <1>15 DEF ProducerStep, TypeOK
  <2>2. topic' \in SUBSET Event /\ dropped' \in SUBSET Event
    BY <1>15 DEF ProducerStep, TypeOK
  <2> QED BY <1>15, <2>1, <2>2 DEF ProducerStep, TypeOK
<1> QED BY <1>1, <1>2, <1>3, <1>4, <1>5, <1>6, <1>7, <1>8, <1>9, <1>10, <1>11, <1>12,
           <1>13, <1>14, <1>15 DEF Next, WorkerStep, SchedulerStep

\* The state of the service is always well typed.
THEOREM TypeCorrect == Spec => []TypeOK
BY TypeInit, TypeStep, PTL DEF Spec

----------------------------------------------------------------------------
\* The inductive invariant

\* What a step may do to a committed row: keep its data under the same
\* version, or move to a later version; never take it away or change its key.
RowsMoveOn ==
  \A id \in Stored :
    /\ id \in Stored'
    /\ db'[id].idempotencyKey = db[id].idempotencyKey
    /\ db[id].version <= db'[id].version
    /\ db[id].version = db'[id].version => SameData(db[id], db'[id])

\* Only four steps write to the table, and all of them move rows on.
LEMMA StepsMoveRowsOn == TypeOK /\ IInv /\ [Next]_vars => RowsMoveOn
<1> SUFFICES ASSUME TypeOK, IInv, [Next]_vars PROVE RowsMoveOn
  OBVIOUS
<1>0. ASSUME db' = db PROVE RowsMoveOn
  BY <1>0 DEF RowsMoveOn, Stored, SameData, TypeOK, Row
<1>1. ASSUME NEW w \in Workers, CommitCreate(w) PROVE RowsMoveOn
  <2>1. tx[w].target \notin Stored
    BY <1>1 DEF CommitCreate, IInv, InsertsAreFresh
  <2>2. \A id \in Stored : db'[id] = db[id]
    BY <1>1, <2>1 DEF CommitCreate, Stored, TypeOK
  <2> QED BY <2>2 DEF RowsMoveOn, Stored, SameData, TypeOK, Row
<1>2. ASSUME NEW w \in Workers, CommitUpdate(w) PROVE RowsMoveOn
  <2> DEFINE id == tx[w].target
  <2>1. CASE /\ tx[w].entity # tx[w].base
             /\ Unmoved(id, tx[w].base)
             /\ db' = [db EXCEPT ![id] = Written(tx[w].entity)]
    <3>1. /\ id \in PaymentIds /\ id \in Stored
          /\ tx[w].entity \in Row /\ tx[w].base \in Row /\ db[id] \in Row
      BY <1>2 DEF CommitUpdate, TypeOK, Transaction, HasItsData, IInv, UpdatesAreLegal, LegalUpdate, ReadFrom
    <3>2. /\ tx[w].entity.version = db[id].version
          /\ tx[w].entity.idempotencyKey = db[id].idempotencyKey
          /\ tx[w].entity.status \in PaymentStatus
      BY <1>2, <2>1 DEF CommitUpdate, IInv, UpdatesAreLegal, LegalUpdate, ReadFrom, SameData, Unmoved
    <3>3. db'[id].version = db[id].version + 1
          /\ db'[id].idempotencyKey = db[id].idempotencyKey
          /\ db'[id].status \in PaymentStatus
      BY <2>1, <3>1, <3>2 DEF Written, TypeOK, Row
    <3>4. \A other \in PaymentIds : other # id => db'[other] = db[other]
      BY <2>1, <3>1 DEF TypeOK
    <3> QED BY <3>1, <3>3, <3>4 DEF RowsMoveOn, Stored, SameData, TypeOK, Row, PaymentStatus, Absent
  <2>2. CASE db' = db
    BY <1>0, <2>2
  <2> QED BY <1>2, <2>1, <2>2 DEF CommitUpdate
<1>3. ASSUME NEW r \in Replicas, CommitBatch(r) PROVE RowsMoveOn
  <2> DEFINE read == batch[r].read
  <2>1. CASE /\ \A id \in Taken(r) : Unmoved(id, read[id])
             /\ db' = [id \in PaymentIds |->
                         IF id \in Taken(r) THEN Written(Requeued(read[id])) ELSE db[id]]
    <3>1. ASSUME NEW id \in Taken(r)
          PROVE  /\ id \in Stored
                 /\ db'[id].version = db[id].version + 1
                 /\ db'[id].idempotencyKey = db[id].idempotencyKey
                 /\ db'[id].status = "PENDING"
      <4>1. /\ id \in PaymentIds /\ read[id] \in Row /\ db[id] \in Row
        BY DEF Taken, TypeOK, Batch
      <4>2. /\ id \in Stored
            /\ read[id].version = db[id].version
            /\ read[id].idempotencyKey = db[id].idempotencyKey
        BY <2>1 DEF IInv, BatchesAreDue, DueRetry, ReadFrom, SameData, Unmoved
      <4>3. db'[id] = Written(Requeued(read[id]))
        BY <2>1, <4>1
      <4>4. /\ Written(Requeued(read[id])).version = read[id].version + 1
            /\ Written(Requeued(read[id])).idempotencyKey = read[id].idempotencyKey
            /\ Written(Requeued(read[id])).status = "PENDING"
        BY <4>1 DEF Written, Requeued, Row
      <4> QED BY <4>2, <4>3, <4>4
    <3>2. \A id \in PaymentIds \ Taken(r) : db'[id] = db[id]
      BY <2>1
    <3> QED BY <3>1, <3>2 DEF RowsMoveOn, Stored, SameData, TypeOK, Row, Absent
  <2>2. CASE db' = db
    BY <1>0, <2>2
  <2> QED BY <1>3, <2>1, <2>2 DEF CommitBatch
<1>4. ASSUME NEW id \in PaymentIds, BackoffElapses(id) PROVE RowsMoveOn
  <2>1. /\ \A other \in PaymentIds : other # id => db'[other] = db[other]
        /\ db'[id] = [db[id] EXCEPT !.cooled = TRUE]
    BY <1>4 DEF BackoffElapses, TypeOK
  <2>2. /\ db'[id].version = db[id].version
        /\ db'[id].status = db[id].status
        /\ SameData(db[id], db'[id])
    BY <2>1 DEF SameData, TypeOK, Row
  <2> QED BY <2>1, <2>2 DEF RowsMoveOn, Stored, SameData, TypeOK, Row
<1>5. ASSUME NEW w \in Workers,
             \/ RejectAmount(w) \/ PersistAndPublish(w) \/ Respond(w)
             \/ \E request \in CreateRequests : CreatePayment(w, request)
             \/ \E id \in PaymentIds, request \in UpdateRequests :
                  UpdateStatus(w, id, request) \/ RejectUpdate(w, id, request)
      PROVE  RowsMoveOn
  BY <1>0, <1>5 DEF RejectAmount, PersistAndPublish, Respond, CreatePayment, UpdateStatus,
                    RejectUpdate
<1>6. ASSUME NEW r \in Replicas,
             \/ FindRetryablePayments(r) \/ ProducerStep(r) \/ Crash(r)
             \/ \E id \in PaymentIds : RequeuePayment(r, id)
      PROVE  RowsMoveOn
  BY <1>0, <1>6 DEF FindRetryablePayments, ProducerStep, Crash, RequeuePayment
<1>7. CASE UNCHANGED vars
  BY <1>0, <1>7 DEF vars
<1> QED BY <1>1, <1>2, <1>3, <1>4, <1>5, <1>6, <1>7 DEF Next, WorkerStep, SchedulerStep

\* What a step may do to a request thread's transaction.
LEMMA StepsOfAThread ==
  ASSUME TypeOK, [Next]_vars, NEW v \in Workers
  PROVE  \/ tx'[v] = tx[v]
         \/ tx'[v] = NoTransaction
         \/ \E request \in CreateRequests : tx'[v] = Persisting(request)
         \/ \E request \in CreateRequests : tx'[v] = Replying(request, Null, 500)
         \/ \E request \in CreateRequests, id \in Stored :
              /\ tx'[v] = Replying(request, id, 201)
              /\ db[id].idempotencyKey = request.idempotencyKey
         \/ /\ CommitCreate(v)
            /\ db' = [db EXCEPT ![tx[v].target] = tx[v].entity]
            /\ tx'[v] = Replying(tx[v].request, tx[v].target, 201)
         \/ PersistAndPublish(v)
         \/ \E id \in PaymentIds, request \in UpdateRequests : UpdateStatus(v, id, request)
<1> DEFINE Goal == \/ tx'[v] = tx[v]
                   \/ tx'[v] = NoTransaction
                   \/ \E request \in CreateRequests : tx'[v] = Persisting(request)
                   \/ \E request \in CreateRequests : tx'[v] = Replying(request, Null, 500)
                   \/ \E request \in CreateRequests, id \in Stored :
                        /\ tx'[v] = Replying(request, id, 201)
                        /\ db[id].idempotencyKey = request.idempotencyKey
                   \/ /\ CommitCreate(v)
                      /\ db' = [db EXCEPT ![tx[v].target] = tx[v].entity]
                      /\ tx'[v] = Replying(tx[v].request, tx[v].target, 201)
                   \/ PersistAndPublish(v)
                   \/ \E id \in PaymentIds, request \in UpdateRequests :
                        UpdateStatus(v, id, request)
<1> SUFFICES Goal
  OBVIOUS
<1>1. ASSUME NEW w \in Workers, NEW request \in CreateRequests, CreatePayment(w, request)
      PROVE  Goal
  BY <1>1 DEF CreatePayment, TypeOK
<1>2. ASSUME NEW w \in Workers, RejectAmount(w) PROVE Goal
  BY <1>2 DEF RejectAmount, TypeOK, HasItsData
<1>3. ASSUME NEW w \in Workers, PersistAndPublish(w) PROVE Goal
  <2>1. PICK t : tx' = [tx EXCEPT ![w] = t]
    BY <1>3 DEF PersistAndPublish
  <2>2. w # v => tx'[v] = tx[v]
    BY <2>1 DEF TypeOK
  <2> QED BY <1>3, <2>2
<1>4. ASSUME NEW w \in Workers, CommitCreate(w) PROVE Goal
  <2>1. CASE w = v
    <3>1. tx[v].request \in CreateRequests
      BY <1>4, <2>1 DEF CommitCreate, TypeOK, HasItsData
    <3>2. CASE Unique(tx[v].entity)
      BY <1>4, <2>1, <3>2 DEF CommitCreate, TypeOK
    <3>3. CASE ~Unique(tx[v].entity)
      <4>1. tx'[v] = Replying(tx[v].request, Null, 500)
        BY <1>4, <2>1, <3>3 DEF CommitCreate, TypeOK
      <4> QED BY <3>1, <4>1
    <3> QED BY <3>2, <3>3
  <2>2. CASE w # v
    BY <1>4, <2>2 DEF CommitCreate, TypeOK
  <2> QED BY <2>1, <2>2
<1>5. ASSUME NEW w \in Workers, Respond(w) PROVE Goal
  BY <1>5 DEF Respond, TypeOK
<1>6. ASSUME NEW w \in Workers, CommitUpdate(w) PROVE Goal
  BY <1>6 DEF CommitUpdate, TypeOK
<1>7. ASSUME NEW w \in Workers, NEW id \in PaymentIds, NEW request \in UpdateRequests,
             UpdateStatus(w, id, request) \/ RejectUpdate(w, id, request)
      PROVE  Goal
  BY <1>7 DEF UpdateStatus, RejectUpdate, TypeOK
<1>8. ASSUME NEW r \in Replicas, Crash(r) PROVE Goal
  BY <1>8 DEF Crash
<1>9. ASSUME NEW r \in Replicas, SchedulerStep(r) \/ ProducerStep(r) PROVE Goal
  BY <1>9 DEF SchedulerStep, FindRetryablePayments, RequeuePayment, CommitBatch, ProducerStep
<1>10. ASSUME NEW id \in PaymentIds, BackoffElapses(id) PROVE Goal
  BY <1>10 DEF BackoffElapses
<1>11. CASE UNCHANGED vars
  BY <1>11 DEF vars
<1> HIDE DEF Goal
<1> QED BY <1>1, <1>2, <1>3, <1>4, <1>5, <1>6, <1>7, <1>8, <1>9, <1>10, <1>11
        DEF Next, WorkerStep

\* A row that was read stays one that was read while rows move on.
LEMMA ReadsLast ==
  ASSUME TypeOK, TypeOK', RowsMoveOn, NEW id \in PaymentIds, NEW row \in Row, ReadFrom(id, row)
  PROVE  ReadFrom(id, row)'
<1>1. row.version \in Nat /\ db[id].version \in Nat /\ db'[id].version \in Nat
  BY DEF TypeOK, Row
<1>2. /\ id \in Stored'
      /\ db'[id].idempotencyKey = db[id].idempotencyKey
      /\ db[id].version <= db'[id].version
      /\ db[id].version = db'[id].version => SameData(db[id], db'[id])
  BY DEF RowsMoveOn, ReadFrom
<1> QED BY <1>1, <1>2 DEF ReadFrom, SameData

\* A committed row counts as read from its id.
LEMMA RowsAreRead ==
  ASSUME TypeOK, NEW id \in Stored
  PROVE  ReadFrom(id, db[id]) /\ db[id].status \in PaymentStatus
BY DEF TypeOK, Row, ReadFrom, SameData, Stored

\* A step keeps UPDATEs in flight legal.
LEMMA UpdatesStep ==
  ASSUME TypeOK, TypeOK', IInv, [Next]_vars, RowsMoveOn
  PROVE  UpdatesAreLegal'
<1> SUFFICES ASSUME NEW v \in Workers, tx'[v].step = "update"
             PROVE  LegalUpdate(tx[v].target, tx[v].base, tx[v].entity)'
  BY DEF UpdatesAreLegal
<1>1. CASE tx'[v] = tx[v]
  <2> DEFINE id == tx[v].target  read == tx[v].base  row == tx[v].entity
  <2>1. /\ id \in PaymentIds /\ read \in Row /\ row \in Row
        /\ LegalUpdate(id, read, row)
    BY <1>1 DEF IInv, UpdatesAreLegal, TypeOK, Transaction, HasItsData
  <2>2. PICK i \in PaymentIds, rd \in Row, rw \in Row : i = id /\ rd = read /\ rw = row
    BY <2>1
  <2>3. ReadFrom(i, rd)'
    BY <2>1, <2>2, ReadsLast DEF LegalUpdate
  <2>4. LegalUpdate(i, rd, rw)'
    BY <2>1, <2>2, <2>3 DEF LegalUpdate
  <2> QED BY <1>1, <2>2, <2>4
<1>2. CASE \E id \in PaymentIds, request \in UpdateRequests : UpdateStatus(v, id, request)
  <2>1. PICK id \in PaymentIds, request \in UpdateRequests : UpdateStatus(v, id, request)
    BY <1>2
  <2>2. request \in UpdateRequest /\ db[id] \in Row /\ id \in Stored
    BY <2>1, ConstantsAssumption DEF ConstantsAssumption, TypeOK, UpdateStatus
  <2> DEFINE row == Updated(db[id], request)
  <2>3. /\ row.status = request.newStatus /\ row.version = db[id].version
        /\ row.retryCount = db[id].retryCount
        /\ row.idempotencyKey = db[id].idempotencyKey
        /\ db[id].clearingReference # Null => row.clearingReference # Null
        /\ db[id].failureReason # Null => row.failureReason # Null
    BY <2>2 DEF Updated, Row
  <2>4. request.newStatus \in PaymentStatus
    BY <2>2 DEF UpdateRequest
  <2>5. LegalUpdate(id, db[id], row)
    BY <2>1, <2>2, <2>3, <2>4, RowsAreRead DEF LegalUpdate, UpdateStatus
  <2>6. db' = db /\ tx'[v].target = id /\ tx'[v].base = db[id] /\ tx'[v].entity = row
    BY <2>1 DEF UpdateStatus, TypeOK, Updating
  <2> HIDE DEF row
  <2> QED BY <2>5, <2>6 DEF LegalUpdate, ReadFrom, Stored
<1>3. PersistAndPublish(v) => tx'[v].step = "insert"
  BY DEF PersistAndPublish, Inserting, TypeOK
<1> QED
  <2>1. /\ NoTransaction.step # "update"
        /\ \A request : Persisting(request).step # "update"
        /\ \A request, id, code : Replying(request, id, code).step # "update"
    BY DEF NoTransaction, Persisting, Replying
  <2> QED BY <1>1, <1>2, <1>3, <2>1, StepsOfAThread

\* What a step may do to a scheduler's transaction.
LEMMA StepsOfAScheduler ==
  ASSUME TypeOK, [Next]_vars, NEW r \in Replicas
  PROVE  \/ batch'[r].read = batch[r].read
         \/ FindRetryablePayments(r)
         \/ batch'[r] = NoBatch
<1> DEFINE Goal == \/ batch'[r].read = batch[r].read
                   \/ FindRetryablePayments(r)
                   \/ batch'[r] = NoBatch
<1> SUFFICES Goal
  OBVIOUS
<1>1. ASSUME NEW s \in Replicas, FindRetryablePayments(s) PROVE Goal
  BY <1>1 DEF FindRetryablePayments, TypeOK
<1>2. ASSUME NEW s \in Replicas, NEW i \in PaymentIds, RequeuePayment(s, i) PROVE Goal
  BY <1>2 DEF RequeuePayment, TypeOK, Batch
<1>3. ASSUME NEW s \in Replicas, CommitBatch(s) PROVE Goal
  BY <1>3 DEF CommitBatch, TypeOK
<1>4. ASSUME NEW s \in Replicas, Crash(s) \/ ProducerStep(s) PROVE Goal
  BY <1>4 DEF Crash, ProducerStep, TypeOK
<1>5. ASSUME NEW w \in Workers, WorkerStep(w) PROVE Goal
  BY <1>5 DEF WorkerStep, RejectAmount, PersistAndPublish, CommitCreate, Respond, CommitUpdate
<1>6. ASSUME NEW w \in Workers, NEW request \in CreateRequests, CreatePayment(w, request)
      PROVE  Goal
  BY <1>6 DEF CreatePayment
<1>7. ASSUME NEW w \in Workers, NEW i \in PaymentIds, NEW request \in UpdateRequests,
             UpdateStatus(w, i, request) \/ RejectUpdate(w, i, request)
      PROVE  Goal
  BY <1>7 DEF UpdateStatus, RejectUpdate
<1>8. ASSUME NEW i \in PaymentIds, BackoffElapses(i) PROVE Goal
  BY <1>8 DEF BackoffElapses
<1>9. CASE UNCHANGED vars
  BY <1>9 DEF vars
<1> HIDE DEF Goal
<1> QED BY <1>1, <1>2, <1>3, <1>4, <1>5, <1>6, <1>7, <1>8, <1>9 DEF Next, SchedulerStep

\* A payment leaves the turns to come of a batch only by its turn.
LEMMA TurnsOfABatch ==
  ASSUME TypeOK, [Next]_vars, NEW r \in Replicas, NEW id \in PaymentIds, id \notin batch'[r].todo
  PROVE  \/ batch'[r].read = batch[r].read /\ id \notin batch[r].todo
         \/ RequeuePayment(r, id)
         \/ FindRetryablePayments(r)
         \/ batch'[r] = NoBatch
<1> DEFINE Goal == \/ batch'[r].read = batch[r].read /\ id \notin batch[r].todo
                   \/ RequeuePayment(r, id)
                   \/ FindRetryablePayments(r)
                   \/ batch'[r] = NoBatch
<1> SUFFICES Goal
  OBVIOUS
<1>0. ASSUME batch'[r] = batch[r] PROVE Goal
  BY <1>0
<1>1. ASSUME NEW s \in Replicas, FindRetryablePayments(s) PROVE Goal
  BY <1>0, <1>1 DEF FindRetryablePayments, TypeOK
<1>2. ASSUME NEW s \in Replicas, NEW i \in PaymentIds, RequeuePayment(s, i) PROVE Goal
  <2>1. CASE s # r
    BY <1>0, <1>2, <2>1 DEF RequeuePayment, TypeOK
  <2>2. CASE s = r /\ i = id
    BY <1>2, <2>2
  <2>3. CASE s = r /\ i # id
    <3>1. /\ batch'[r].read = batch[r].read
          /\ batch'[r].todo = batch[r].todo \ {i}
      BY <1>2, <2>3 DEF RequeuePayment, TypeOK, Batch
    <3> QED BY <2>3, <3>1
  <2> QED BY <2>1, <2>2, <2>3
<1>3. ASSUME NEW s \in Replicas, CommitBatch(s) \/ Crash(s) \/ ProducerStep(s) PROVE Goal
  BY <1>0, <1>3 DEF CommitBatch, Crash, ProducerStep, TypeOK
<1>4. ASSUME batch' = batch PROVE Goal
  BY <1>0, <1>4
<1>5. ASSUME NEW w \in Workers,
             \/ WorkerStep(w)
             \/ \E request \in CreateRequests : CreatePayment(w, request)
             \/ \E i \in PaymentIds, request \in UpdateRequests :
                  UpdateStatus(w, i, request) \/ RejectUpdate(w, i, request)
      PROVE  Goal
  BY <1>4, <1>5 DEF WorkerStep, RejectAmount, PersistAndPublish, CommitCreate, Respond,
                    CommitUpdate, CreatePayment, UpdateStatus, RejectUpdate
<1>6. ASSUME NEW i \in PaymentIds, BackoffElapses(i) PROVE Goal
  BY <1>4, <1>6 DEF BackoffElapses
<1>7. CASE UNCHANGED vars
  BY <1>4, <1>7 DEF vars
<1> HIDE DEF Goal
<1> QED BY <1>1, <1>2, <1>3, <1>5, <1>6, <1>7 DEF Next, SchedulerStep

\* A step keeps batches in flight due.
LEMMA BatchesStep ==
  ASSUME TypeOK, TypeOK', IInv, [Next]_vars, RowsMoveOn
  PROVE  BatchesAreDue'
<1> SUFFICES ASSUME NEW r \in Replicas, NEW id \in PaymentIds, id \in Taken(r)'
             PROVE  DueRetry(id, batch[r].read[id])'
  BY DEF BatchesAreDue, Taken
<1>1. CASE batch'[r].read = batch[r].read
  <2>1. PICK row \in Row : row = batch[r].read[id]
    BY DEF TypeOK, Batch
  <2>2. DueRetry(id, row)
    BY <1>1, <2>1 DEF IInv, BatchesAreDue, Taken
  <2>3. ReadFrom(id, row)'
    BY <2>2, ReadsLast DEF DueRetry
  <2> QED BY <1>1, <2>1, <2>2, <2>3 DEF DueRetry
<1>2. CASE FindRetryablePayments(r)
  <2> DEFINE due == {i \in PaymentIds : Retryable(db[i])}
  <2>1. /\ batch'[r].read = [i \in PaymentIds |-> IF i \in due THEN db[i] ELSE NoRow]
        /\ db' = db
    BY <1>2 DEF FindRetryablePayments, TypeOK
  <2>2. id \in due /\ batch'[r].read[id] = db[id]
    BY <2>1 DEF Taken, NoRow
  <2>3. id \in Stored
    BY <2>2 DEF Stored, Retryable, Absent
  <2>4. DueRetry(id, db[id])
    BY <2>2, <2>3, RowsAreRead DEF DueRetry, Retryable
  <2> QED BY <2>1, <2>2, <2>4 DEF DueRetry, ReadFrom, Stored
<1>3. CASE batch'[r] = NoBatch
  BY <1>3 DEF NoBatch, NoRow, Taken
<1> QED BY <1>1, <1>2, <1>3, StepsOfAScheduler

\* A payment enters the table only by a CommitCreate that passed the
\* constraints.
LEMMA OnlyCreationStores ==
  ASSUME TypeOK, IInv, [Next]_vars
  PROVE  \/ Stored' \subseteq Stored
         \/ \E w \in Workers : /\ CommitCreate(w)
                               /\ Unique(tx[w].entity)
                               /\ db' = [db EXCEPT ![tx[w].target] = tx[w].entity]
<1> DEFINE Goal == \/ Stored' \subseteq Stored
                   \/ \E w \in Workers : /\ CommitCreate(w)
                                         /\ Unique(tx[w].entity)
                                         /\ db' = [db EXCEPT ![tx[w].target] = tx[w].entity]
<1> SUFFICES Goal
  OBVIOUS
<1>0. ASSUME db' = db PROVE Goal
  BY <1>0 DEF Stored
<1>1. ASSUME NEW w \in Workers, CommitCreate(w) PROVE Goal
  BY <1>0, <1>1 DEF CommitCreate
<1>2. ASSUME NEW w \in Workers, CommitUpdate(w) PROVE Goal
  <2>1. tx[w].target \in Stored
    BY <1>2 DEF CommitUpdate, IInv, UpdatesAreLegal, LegalUpdate, ReadFrom
  <2> QED BY <1>2, <2>1 DEF CommitUpdate, Stored, TypeOK
<1>3. ASSUME NEW r \in Replicas, CommitBatch(r) PROVE Goal
  <2>1. Taken(r) \subseteq Stored
    BY <1>3 DEF IInv, BatchesAreDue, DueRetry, ReadFrom
  <2> QED BY <1>3, <2>1 DEF CommitBatch, Stored, TypeOK
<1>4. ASSUME NEW id \in PaymentIds, BackoffElapses(id) PROVE Goal
  BY <1>4 DEF BackoffElapses, Stored, TypeOK, Absent
<1>5. ASSUME NEW w \in Workers,
             \/ RejectAmount(w) \/ PersistAndPublish(w) \/ Respond(w)
             \/ \E request \in CreateRequests : CreatePayment(w, request)
             \/ \E id \in PaymentIds, request \in UpdateRequests :
                  UpdateStatus(w, id, request) \/ RejectUpdate(w, id, request)
      PROVE  Goal
  BY <1>0, <1>5 DEF RejectAmount, PersistAndPublish, Respond, CreatePayment, UpdateStatus,
                    RejectUpdate
<1>6. ASSUME NEW r \in Replicas,
             \/ FindRetryablePayments(r) \/ ProducerStep(r) \/ Crash(r)
             \/ \E id \in PaymentIds : RequeuePayment(r, id)
      PROVE  Goal
  BY <1>0, <1>6 DEF FindRetryablePayments, ProducerStep, Crash, RequeuePayment
<1>7. CASE UNCHANGED vars
  BY <1>0, <1>7 DEF vars
<1> HIDE DEF Goal
<1> QED BY <1>1, <1>2, <1>3, <1>4, <1>5, <1>6, <1>7 DEF Next, WorkerStep, SchedulerStep

\* UUIDs are handed out by PersistAndPublish only, and never taken back.
LEMMA MintedGrows ==
  ASSUME [Next]_vars
  PROVE  /\ minted \subseteq minted'
         /\ (\E w \in Workers : PersistAndPublish(w)) \/ minted' = minted
BY DEF Next, WorkerStep, SchedulerStep, vars, RejectAmount, PersistAndPublish, CommitCreate,
       Respond, CommitUpdate, CreatePayment, UpdateStatus, RejectUpdate, FindRetryablePayments,
       RequeuePayment, CommitBatch, ProducerStep, Crash, BackoffElapses

\* Only Respond adds an answer.
LEMMA AnswersGrow ==
  ASSUME [Next]_vars
  PROVE  (\E w \in Workers : Respond(w)) \/ answers' = answers
BY DEF Next, WorkerStep, SchedulerStep, vars, RejectAmount, PersistAndPublish, CommitCreate,
       CommitUpdate, CreatePayment, UpdateStatus, RejectUpdate, FindRetryablePayments,
       RequeuePayment, CommitBatch, ProducerStep, Crash, BackoffElapses

\* A step keeps committed ids among those handed out.
LEMMA MintedStep ==
  ASSUME TypeOK, IInv, [Next]_vars
  PROVE  Stored' \subseteq minted'
<1>1. ASSUME NEW w \in Workers, CommitCreate(w),
             db' = [db EXCEPT ![tx[w].target] = tx[w].entity]
      PROVE  Stored' \subseteq Stored \cup {tx[w].target} /\ tx[w].target \in minted
  BY <1>1 DEF CommitCreate, Stored, TypeOK, IInv, InsertsAreFresh
<1> QED BY <1>1, OnlyCreationStores, MintedGrows DEF IInv

\* A step keeps committed keys unique: the constraint refuses a new row whose
\* key is there, and no row changes its key.
LEMMA KeysStep ==
  ASSUME TypeOK, TypeOK', IInv, [Next]_vars, RowsMoveOn
  PROVE  StoredKeysAreUnique'
<1> SUFFICES ASSUME NEW a \in Stored', NEW b \in Stored',
                    db'[a].idempotencyKey # Null,
                    db'[a].idempotencyKey = db'[b].idempotencyKey
             PROVE  a = b
  BY DEF StoredKeysAreUnique
<1>1. CASE a \in Stored /\ b \in Stored
  BY <1>1 DEF RowsMoveOn, IInv, StoredKeysAreUnique
<1>2. CASE a \notin Stored \/ b \notin Stored
  <2>1. PICK w \in Workers : /\ CommitCreate(w)
                             /\ Unique(tx[w].entity)
                             /\ db' = [db EXCEPT ![tx[w].target] = tx[w].entity]
    BY <1>2, OnlyCreationStores
  <2> DEFINE new == tx[w].target
  <2>2. new \in PaymentIds /\ new \notin Stored /\ db'[new] = tx[w].entity
    BY <2>1 DEF CommitCreate, TypeOK, HasItsData, IInv, InsertsAreFresh
  <2>3. \A id \in Stored' : id = new \/ (id \in Stored /\ db'[id] = db[id])
    BY <2>1 DEF Stored, TypeOK
  <2>4. \A id \in Stored :
          tx[w].entity.idempotencyKey # Null =>
            db[id].idempotencyKey # tx[w].entity.idempotencyKey
    BY <2>1 DEF Unique
  <2> HIDE DEF new
  <2> QED BY <1>2, <2>2, <2>3, <2>4
<1> QED BY <1>1, <1>2

\* A step keeps INSERTs in flight fresh.
LEMMA InsertsStep ==
  ASSUME TypeOK, TypeOK', IInv, [Next]_vars, RowsMoveOn
  PROVE  InsertsAreFresh'
<1>1. ASSUME NEW v \in Workers, tx'[v].step = "insert"
      PROVE  tx'[v] = tx[v] \/ PersistAndPublish(v)
  <2>1. /\ NoTransaction.step # "insert"
        /\ \A request : Persisting(request).step # "insert"
        /\ \A request, id, code : Replying(request, id, code).step # "insert"
        /\ \A id, read, row : Updating(id, read, row).step # "insert"
    BY DEF NoTransaction, Persisting, Replying, Updating
  <2>2. ASSUME NEW id \in PaymentIds, NEW request \in UpdateRequests,
               UpdateStatus(v, id, request)
        PROVE  tx'[v].step # "insert"
    BY <2>1, <2>2 DEF UpdateStatus, TypeOK
  <2> QED BY <1>1, <2>1, <2>2, StepsOfAThread
<1>2. ASSUME NEW v \in Workers, PersistAndPublish(v)
      PROVE  /\ tx'[v].target \in minted' \ minted
             /\ tx'[v].entity.status = "PENDING" /\ tx'[v].entity.retryCount = 0
             /\ tx'[v].entity.idempotencyKey = tx'[v].request.idempotencyKey
             /\ \A w \in Workers : w # v => tx'[w] = tx[w]
             /\ Stored' = Stored
  <2>1. PICK id \in PaymentIds \ minted, suffix \in Suffixes :
          LET row == NewPayment(tx[v].request, <<sequence[HomeOf[v]] + 1, suffix>>) IN
          /\ minted' = minted \cup {id}
          /\ tx' = [tx EXCEPT ![v] = Inserting(tx[v].request, id, row)]
    BY <1>2 DEF PersistAndPublish
  <2> QED BY <1>2, <2>1 DEF PersistAndPublish, Inserting, NewPayment, TypeOK, Stored
<1>3. ASSUME NEW v \in Workers, tx'[v].step = "insert", tx'[v] = tx[v]
      PROVE  /\ tx[v].target \in minted \ Stored
             /\ tx[v].entity.status = "PENDING" /\ tx[v].entity.retryCount = 0
             /\ tx[v].entity.idempotencyKey = tx[v].request.idempotencyKey
             /\ tx[v].target \notin Stored'
  <2>1. /\ tx[v].target \in minted \ Stored
        /\ tx[v].entity.status = "PENDING" /\ tx[v].entity.retryCount = 0
        /\ tx[v].entity.idempotencyKey = tx[v].request.idempotencyKey
    BY <1>3 DEF IInv, InsertsAreFresh
  <2>2. ASSUME NEW w \in Workers, CommitCreate(w), Unique(tx[w].entity),
               db' = [db EXCEPT ![tx[w].target] = tx[w].entity]
        PROVE  tx[v].target \notin Stored'
    <3>1. tx'[w] = Replying(tx[w].request, tx[w].target, 201)
      BY <2>2 DEF CommitCreate, TypeOK
    <3>2. w # v
      BY <1>3, <3>1 DEF Replying
    <3>3. tx[w].target # tx[v].target
      BY <1>3, <2>2, <3>2 DEF CommitCreate, IInv, InsertsAreFresh
    <3> QED BY <2>1, <2>2, <3>3 DEF Stored, TypeOK
  <2> QED BY <2>1, <2>2, OnlyCreationStores
<1> SUFFICES ASSUME NEW w \in Workers, tx'[w].step = "insert"
             PROVE  /\ tx'[w].target \in minted' \ Stored'
                    /\ tx'[w].entity.status = "PENDING" /\ tx'[w].entity.retryCount = 0
                    /\ tx'[w].entity.idempotencyKey = tx'[w].request.idempotencyKey
                    /\ \A v \in Workers :
                         (tx'[v].step = "insert" /\ tx'[v].target = tx'[w].target) => v = w
  BY DEF InsertsAreFresh
<1>4. CASE PersistAndPublish(w)
  <2>1. ASSUME NEW v \in Workers, tx'[v].step = "insert", tx'[v].target = tx'[w].target, v # w
        PROVE  FALSE
    <3>1. tx'[v] = tx[v] /\ tx'[w].target \notin minted
      BY <1>2, <1>4, <2>1
    <3> QED BY <1>3, <2>1, <3>1
  <2> QED BY <1>2, <1>4, <2>1 DEF IInv
<1>5. CASE tx'[w] = tx[w] /\ ~PersistAndPublish(w)
  <2>1. ASSUME NEW v \in Workers, tx'[v].step = "insert", tx'[v].target = tx'[w].target
        PROVE  v = w
    <3>1. CASE PersistAndPublish(v)
      BY <1>2, <1>3, <1>5, <2>1, <3>1
    <3>2. CASE tx'[v] = tx[v]
      BY <1>5, <2>1, <3>2 DEF IInv, InsertsAreFresh
    <3> QED BY <1>1, <2>1, <3>1, <3>2
  <2> QED BY <1>3, <1>5, <2>1, MintedGrows
<1> QED BY <1>1, <1>4, <1>5

\* A step keeps successful replies true.
LEMMA RepliesStep ==
  ASSUME TypeOK, TypeOK', IInv, [Next]_vars, RowsMoveOn
  PROVE  RepliesAreStored'
<1> SUFFICES ASSUME NEW v \in Workers, tx'[v].step = "reply", tx'[v].code = 201
             PROVE  /\ tx'[v].target \in Stored'
                    /\ db'[tx'[v].target].idempotencyKey = tx'[v].request.idempotencyKey
  BY DEF RepliesAreStored
<1>1. CASE tx'[v] = tx[v]
  BY <1>1 DEF IInv, RepliesAreStored, RowsMoveOn
<1>2. ASSUME NEW request \in CreateRequests, NEW id \in Stored,
             tx'[v] = Replying(request, id, 201),
             db[id].idempotencyKey = request.idempotencyKey
      PROVE  /\ tx'[v].target \in Stored'
             /\ db'[tx'[v].target].idempotencyKey = tx'[v].request.idempotencyKey
  BY <1>2 DEF Replying, RowsMoveOn
<1>3. ASSUME CommitCreate(v),
             db' = [db EXCEPT ![tx[v].target] = tx[v].entity],
             tx'[v] = Replying(tx[v].request, tx[v].target, 201)
      PROVE  /\ tx'[v].target \in Stored'
             /\ db'[tx'[v].target].idempotencyKey = tx'[v].request.idempotencyKey
  <2>1. /\ tx[v].target \in PaymentIds /\ db'[tx[v].target] = tx[v].entity
        /\ tx[v].entity.status = "PENDING"
        /\ tx[v].entity.idempotencyKey = tx[v].request.idempotencyKey
    BY <1>3 DEF CommitCreate, TypeOK, HasItsData, IInv, InsertsAreFresh
  <2> QED BY <1>3, <2>1 DEF Replying, Stored, Absent
<1>4. /\ NoTransaction.step # "reply"
      /\ \A request : Persisting(request).step # "reply"
      /\ \A request : Replying(request, Null, 500).code # 201
      /\ PersistAndPublish(v) => tx'[v].step # "reply"
      /\ \A id \in PaymentIds, request \in UpdateRequests :
           UpdateStatus(v, id, request) => tx'[v].step # "reply"
  <2>1. PersistAndPublish(v) => tx'[v].step # "reply"
    BY DEF PersistAndPublish, Inserting, TypeOK
  <2>2. ASSUME NEW id \in PaymentIds, NEW request \in UpdateRequests, UpdateStatus(v, id, request)
        PROVE  tx'[v].step # "reply"
    BY <2>2 DEF UpdateStatus, Updating, TypeOK
  <2>3. NoTransaction.step # "reply" /\ \A request : Persisting(request).step # "reply"
    BY DEF NoTransaction, Persisting
  <2>4. \A request : Replying(request, Null, 500).code # 201
    BY DEF Replying
  <2> QED BY <2>1, <2>2, <2>3, <2>4
<1> QED BY <1>1, <1>2, <1>3, <1>4, StepsOfAThread

\* A step keeps answered payments stored.
LEMMA AcknowledgedStep ==
  ASSUME TypeOK, IInv, [Next]_vars, RowsMoveOn
  PROVE  AcknowledgedIsStored'
<1>1. \A a \in Created : a.id \in Stored' /\ db'[a.id].idempotencyKey = a.idempotencyKey
  BY DEF IInv, AcknowledgedIsStored, RowsMoveOn
<1>2. ASSUME NEW w \in Workers, Respond(w), NEW a \in Created' \ Created
      PROVE  a.id \in Stored' /\ db'[a.id].idempotencyKey = a.idempotencyKey
  <2>1. a = [idempotencyKey |-> tx[w].request.idempotencyKey,
             payload |-> tx[w].request.payload,
             id |-> tx[w].target, code |-> tx[w].code]
    BY <1>2 DEF Respond, Created
  <2>2. tx[w].step = "reply" /\ tx[w].code = 201
    BY <1>2, <2>1 DEF Respond, Created
  <2>3. db' = db
    BY <1>2 DEF Respond
  <2> QED BY <2>1, <2>2, <2>3 DEF IInv, RepliesAreStored, Stored
<1>3. (\E w \in Workers : Respond(w)) \/ Created' = Created
  BY AnswersGrow DEF Created
<1> QED BY <1>1, <1>2, <1>3 DEF AcknowledgedIsStored

\* The invariant holds initially and every step keeps it.
LEMMA InvInit == Init => IInv
BY DEF Init, IInv, Stored, UpdatesAreLegal, BatchesAreDue, InsertsAreFresh, RepliesAreStored,
       StoredKeysAreUnique, AcknowledgedIsStored, Created, Taken, NoRow, NoBatch, NoTransaction

LEMMA InvStep == TypeOK /\ TypeOK' /\ IInv /\ [Next]_vars => IInv'
BY StepsMoveRowsOn, MintedStep, UpdatesStep, BatchesStep, InsertsStep, RepliesStep, KeysStep,
   AcknowledgedStep DEF IInv

\* The inductive invariant holds: no transaction in flight carries a write
\* that would be illegal if its version check passed.
THEOREM InvariantHolds == Spec => []IInv
<1>1. TypeOK /\ IInv /\ [Next]_vars => TypeOK' /\ IInv'
  BY TypeStep, InvStep
<1> QED BY <1>1, TypeInit, InvInit, PTL DEF Spec

----------------------------------------------------------------------------
\* What clients rely on

\* Clients told 201 for one key were told of one payment.
THEOREM SameKeySamePaymentHolds == Spec => []SameKeySamePayment
<1>1. IInv => SameKeySamePayment
  BY DEF IInv, AcknowledgedIsStored, StoredKeysAreUnique, SameKeySamePayment
<1> QED BY <1>1, InvariantHolds, PTL

\* A payment a client was told of is in the table under its key.
THEOREM AcknowledgedIsStoredHolds == Spec => []AcknowledgedIsStored
<1>1. IInv => AcknowledgedIsStored
  BY DEF IInv
<1> QED BY <1>1, InvariantHolds, PTL

----------------------------------------------------------------------------
\* The lifecycle

\* The transition check lets through exactly the moves of the diagram.
LEMMA CheckIsDiagram ==
  ASSUME NEW from \in PaymentStatus, NEW to \in PaymentStatus
  PROVE  ValidateStatusTransition(from, to) <=> (to = from \/ to \in Successors[from])
BY DEF PaymentStatus, ValidateStatusTransition, Successors

\* What a step makes of the committed rows: a creation, an update of one row
\* by a legal move, a requeue of due rows, or nothing but the passing of time.
LEMMA StepsOfTheTable ==
  ASSUME TypeOK, IInv, [Next]_vars
  PROVE  \/ \E w \in Workers : /\ CommitCreate(w)
                               /\ Unique(tx[w].entity)
                               /\ db' = [db EXCEPT ![tx[w].target] = tx[w].entity]
         \/ \E w \in Workers : /\ CommitUpdate(w)
                               /\ LegalUpdate(tx[w].target, tx[w].base, tx[w].entity)
                               /\ Unmoved(tx[w].target, tx[w].base)
                               /\ db' = [db EXCEPT ![tx[w].target] = Written(tx[w].entity)]
         \/ \E r \in Replicas :
              /\ CommitBatch(r)
              /\ \A id \in Taken(r) : /\ DueRetry(id, batch[r].read[id])
                                      /\ Unmoved(id, batch[r].read[id])
              /\ db' = [id \in PaymentIds |->
                          IF id \in Taken(r) THEN Written(Requeued(batch[r].read[id]))
                          ELSE db[id]]
         \/ \E id \in PaymentIds : db' = [db EXCEPT ![id].cooled = TRUE]
         \/ db' = db
<1> DEFINE Goal ==
         \/ \E w \in Workers : /\ CommitCreate(w)
                               /\ Unique(tx[w].entity)
                               /\ db' = [db EXCEPT ![tx[w].target] = tx[w].entity]
         \/ \E w \in Workers : /\ CommitUpdate(w)
                               /\ LegalUpdate(tx[w].target, tx[w].base, tx[w].entity)
                               /\ Unmoved(tx[w].target, tx[w].base)
                               /\ db' = [db EXCEPT ![tx[w].target] = Written(tx[w].entity)]
         \/ \E r \in Replicas :
              /\ CommitBatch(r)
              /\ \A id \in Taken(r) : /\ DueRetry(id, batch[r].read[id])
                                      /\ Unmoved(id, batch[r].read[id])
              /\ db' = [id \in PaymentIds |->
                          IF id \in Taken(r) THEN Written(Requeued(batch[r].read[id]))
                          ELSE db[id]]
         \/ \E id \in PaymentIds : db' = [db EXCEPT ![id].cooled = TRUE]
         \/ db' = db
<1> SUFFICES Goal
  OBVIOUS
<1>1. ASSUME NEW w \in Workers, CommitCreate(w) PROVE Goal
  BY <1>1 DEF CommitCreate
<1>2. ASSUME NEW w \in Workers, CommitUpdate(w) PROVE Goal
  <2>1. LegalUpdate(tx[w].target, tx[w].base, tx[w].entity)
    BY <1>2 DEF CommitUpdate, IInv, UpdatesAreLegal
  <2> QED BY <1>2, <2>1 DEF CommitUpdate
<1>3. ASSUME NEW r \in Replicas, CommitBatch(r) PROVE Goal
  <2>1. \A id \in Taken(r) : DueRetry(id, batch[r].read[id])
    BY DEF IInv, BatchesAreDue
  <2> QED BY <1>3, <2>1 DEF CommitBatch
<1>4. ASSUME NEW id \in PaymentIds, BackoffElapses(id) PROVE Goal
  BY <1>4 DEF BackoffElapses
<1>5. ASSUME NEW w \in Workers,
             \/ RejectAmount(w) \/ PersistAndPublish(w) \/ Respond(w)
             \/ \E request \in CreateRequests : CreatePayment(w, request)
             \/ \E id \in PaymentIds, request \in UpdateRequests :
                  UpdateStatus(w, id, request) \/ RejectUpdate(w, id, request)
      PROVE  Goal
  BY <1>5 DEF RejectAmount, PersistAndPublish, Respond, CreatePayment, UpdateStatus,
              RejectUpdate
<1>6. ASSUME NEW r \in Replicas,
             \/ FindRetryablePayments(r) \/ ProducerStep(r) \/ Crash(r)
             \/ \E id \in PaymentIds : RequeuePayment(r, id)
      PROVE  Goal
  BY <1>6 DEF FindRetryablePayments, ProducerStep, Crash, RequeuePayment
<1>7. CASE UNCHANGED vars
  BY <1>7 DEF vars
<1> HIDE DEF Goal
<1> QED BY <1>1, <1>2, <1>3, <1>4, <1>5, <1>6, <1>7 DEF Next, WorkerStep, SchedulerStep

\* A requeue counts, an update does not, and a creation starts at zero: what a
\* step does to one committed row.
LEMMA RowSteps ==
  ASSUME TypeOK, TypeOK', IInv, [Next]_vars, NEW id \in Stored
  PROVE  /\ db'[id].status = db[id].status \/ db'[id].status \in Successors[db[id].status]
         /\ db'[id].retryCount = db[id].retryCount
              \/ /\ db[id].status = "FAILED" /\ db'[id].status = "PENDING"
                 /\ db'[id].retryCount = db[id].retryCount + 1
<1> DEFINE Goal ==
         /\ db'[id].status = db[id].status \/ db'[id].status \in Successors[db[id].status]
         /\ db'[id].retryCount = db[id].retryCount
              \/ /\ db[id].status = "FAILED" /\ db'[id].status = "PENDING"
                 /\ db'[id].retryCount = db[id].retryCount + 1
<1> SUFFICES Goal
  OBVIOUS
<1>0. id \in PaymentIds /\ db[id] \in Row /\ (db'[id] = db[id] => Goal)
  BY DEF TypeOK, Stored
<1>1. ASSUME NEW w \in Workers, CommitCreate(w),
             db' = [db EXCEPT ![tx[w].target] = tx[w].entity]
      PROVE  Goal
  <2>1. tx[w].target # id
    BY <1>1 DEF CommitCreate, IInv, InsertsAreFresh
  <2> QED BY <1>0, <1>1, <2>1 DEF TypeOK
<1>2. ASSUME NEW w \in Workers, CommitUpdate(w),
             LegalUpdate(tx[w].target, tx[w].base, tx[w].entity),
             Unmoved(tx[w].target, tx[w].base),
             db' = [db EXCEPT ![tx[w].target] = Written(tx[w].entity)]
      PROVE  Goal
  <2> DEFINE read == tx[w].base  row == tx[w].entity
  <2>1. CASE tx[w].target # id
    BY <1>0, <1>2, <2>1 DEF TypeOK
  <2>2. CASE tx[w].target = id
    <3>1. read \in Row /\ row \in Row /\ db'[id] = Written(row)
      BY <1>0, <1>2, <2>2 DEF TypeOK, Transaction
    <3>2. SameData(read, db[id])
      BY <1>2, <2>2 DEF LegalUpdate, ReadFrom, Unmoved
    <3>3. /\ db'[id].status = row.status /\ db'[id].retryCount = row.retryCount
      BY <3>1 DEF Written, Row
    <3>4. row.status = read.status \/ row.status \in Successors[read.status]
      BY <1>2, CheckIsDiagram DEF LegalUpdate
    <3> QED BY <1>2, <3>2, <3>3, <3>4 DEF LegalUpdate, SameData
  <2> QED BY <2>1, <2>2
<1>3. ASSUME NEW r \in Replicas,
             \A i \in Taken(r) : DueRetry(i, batch[r].read[i]) /\ Unmoved(i, batch[r].read[i]),
             db' = [i \in PaymentIds |->
                      IF i \in Taken(r) THEN Written(Requeued(batch[r].read[i])) ELSE db[i]]
      PROVE  Goal
  <2> DEFINE read == batch[r].read[id]
  <2>1. CASE id \notin Taken(r)
    BY <1>0, <1>3, <2>1
  <2>2. CASE id \in Taken(r)
    <3>1. read \in Row /\ db'[id] = Written(Requeued(read))
      BY <1>0, <1>3, <2>2 DEF TypeOK, Batch
    <3>2. SameData(read, db[id]) /\ read.status = "FAILED"
      BY <1>3, <2>2 DEF DueRetry, ReadFrom, Unmoved
    <3>3. /\ db'[id].status = "PENDING" /\ db'[id].retryCount = read.retryCount + 1
      BY <3>1 DEF Written, Requeued, Row
    <3>4. "PENDING" \in Successors["FAILED"]
      BY DEF Successors
    <3> QED BY <3>2, <3>3, <3>4 DEF SameData
  <2> QED BY <2>1, <2>2
<1>4. ASSUME NEW i \in PaymentIds, db' = [db EXCEPT ![i].cooled = TRUE] PROVE Goal
  BY <1>0, <1>4 DEF TypeOK, Row
<1> HIDE DEF Goal
<1> QED BY <1>0, <1>1, <1>2, <1>3, <1>4, StepsOfTheTable

\* Committed statuses move along the diagram, and only requeues are counted:
\* whatever stale row a transaction holds, @Version stops it.
THEOREM LegalTransitionsHold == Spec => LegalTransitions
<1>1. TypeOK /\ TypeOK' /\ IInv /\ [Next]_vars =>
        [\A id \in PaymentIds :
           LET old == db[id]  new == db'[id] IN
           old.status # Absent =>
             /\ new.status # old.status => new.status \in Successors[old.status]
             /\ new.retryCount # old.retryCount =>
                  /\ old.status = "FAILED" /\ new.status = "PENDING"
                  /\ new.retryCount = old.retryCount + 1]_vars
  BY RowSteps DEF Stored
<1> QED BY <1>1, TypeCorrect, InvariantHolds, PTL DEF Spec, LegalTransitions

\* What a batch in flight, or an INSERT, writes over a row's recorded values
\* is what the row has: only an update that read a value replaces it.
LEMMA RecordedSteps ==
  ASSUME TypeOK, TypeOK', IInv, [Next]_vars, NEW id \in Stored,
         NEW field \in {"clearingReference", "failureReason"},
         db[id][field] # Null, db'[id][field] # db[id][field]
  PROVE  /\ db'[id][field] # Null
         /\ \E w \in Workers :
              /\ tx[w].step = "update" /\ tx[w].target = id
              /\ tx[w].base[field] = db[id][field]
              /\ tx[w].entity[field] = db'[id][field]
              /\ tx'[w].step = "idle"
<1>0. id \in PaymentIds /\ db[id] \in Row
  BY DEF TypeOK, Stored
<1>1. ASSUME NEW a, NEW b, SameData(a, b) PROVE a[field] = b[field]
  <2>1. a.clearingReference = b.clearingReference /\ a.failureReason = b.failureReason
    BY <1>1 DEF SameData
  <2> QED BY <2>1
<1>2. ASSUME NEW row \in Row PROVE Written(row)[field] = row[field]
  BY DEF Written, Row
<1>3. ASSUME NEW w \in Workers, CommitCreate(w),
             db' = [db EXCEPT ![tx[w].target] = tx[w].entity]
      PROVE  FALSE
  <2>1. tx[w].target # id
    BY <1>3 DEF CommitCreate, IInv, InsertsAreFresh
  <2> QED BY <1>0, <1>3, <2>1 DEF TypeOK
<1>4. ASSUME NEW r \in Replicas,
             \A i \in Taken(r) : DueRetry(i, batch[r].read[i]) /\ Unmoved(i, batch[r].read[i]),
             db' = [i \in PaymentIds |->
                      IF i \in Taken(r) THEN Written(Requeued(batch[r].read[i])) ELSE db[i]]
      PROVE  FALSE
  <2> DEFINE read == batch[r].read[id]
  <2>1. id \in Taken(r)
    BY <1>0, <1>4
  <2>2. read \in Row /\ Requeued(read) \in Row /\ db'[id] = Written(Requeued(read))
    <3>1. batch[r] \in Batch
      BY DEF TypeOK
    <3>2. read \in Row
      BY <1>0, <3>1 DEF Batch
    <3>3. db'[id] = Written(Requeued(read))
      BY <1>0, <1>4, <2>1
    <3> HIDE DEF read
    <3> QED BY <3>2, <3>3, RowTypes
  <2>3. SameData(read, db[id])
    BY <1>4, <2>1 DEF DueRetry, ReadFrom, Unmoved
  <2>4. Requeued(read)[field] = read[field]
    BY <2>2 DEF Requeued, Row
  <2> QED BY <1>1, <1>2, <2>2, <2>3, <2>4
<1>5. ASSUME NEW i \in PaymentIds, db' = [db EXCEPT ![i].cooled = TRUE] PROVE FALSE
  BY <1>0, <1>5 DEF TypeOK, Row
<1>6. PICK w \in Workers : /\ CommitUpdate(w)
                          /\ LegalUpdate(tx[w].target, tx[w].base, tx[w].entity)
                          /\ Unmoved(tx[w].target, tx[w].base)
                          /\ db' = [db EXCEPT ![tx[w].target] = Written(tx[w].entity)]
  BY <1>3, <1>4, <1>5, StepsOfTheTable
<1>7. tx[w].target = id
  BY <1>0, <1>6 DEF TypeOK
<1>8. tx[w].entity \in Row /\ db'[id] = Written(tx[w].entity)
  BY <1>0, <1>6, <1>7 DEF TypeOK, Transaction
<1>9. tx[w].entity[field] = db'[id][field]
  BY <1>2, <1>8
<1>10. SameData(tx[w].base, db[id])
  BY <1>6, <1>7 DEF LegalUpdate, ReadFrom, Unmoved
<1>11. tx[w].base[field] = db[id][field]
  BY <1>1, <1>10
<1>12. tx[w].entity[field] # Null
  <2>1. /\ tx[w].base.clearingReference # Null => tx[w].entity.clearingReference # Null
        /\ tx[w].base.failureReason # Null => tx[w].entity.failureReason # Null
    BY <1>6 DEF LegalUpdate
  <2> QED BY <1>11, <2>1
<1>13. tx[w].step = "update" /\ tx'[w].step = "idle"
  BY <1>6 DEF CommitUpdate, TypeOK, NoTransaction
<1> QED BY <1>7, <1>9, <1>11, <1>12, <1>13

\* A clearing reference or failure reason gives way only to an update that
\* read it: no stale batch and no stale update puts an older value back.
THEOREM NothingIsForgotten == Spec => NothingForgotten
<1>1. TypeOK /\ TypeOK' /\ IInv /\ [Next]_vars =>
        [\A id \in Stored, field \in {"clearingReference", "failureReason"} :
           (db[id][field] # Null /\ db'[id][field] # db[id][field]) =>
             /\ db'[id][field] # Null
             /\ \E w \in Workers :
                  /\ tx[w].step = "update" /\ tx[w].target = id
                  /\ tx[w].base[field] = db[id][field]
                  /\ tx[w].entity[field] = db'[id][field]
                  /\ tx'[w].step = "idle"]_vars
  BY RecordedSteps
<1> QED BY <1>1, TypeCorrect, InvariantHolds, PTL DEF Spec, NothingForgotten

----------------------------------------------------------------------------
\* What clearing is told

\* No step takes an event back: what leaves a buffer is in the topic or is
\* known to be gone.
LEMMA EventsGrow ==
  ASSUME TypeOK, [Next]_vars
  PROVE  Given \subseteq Given'
<1>0. ASSUME topic' = topic, dropped' = dropped, buffer' = buffer PROVE Given \subseteq Given'
  BY <1>0 DEF Given
<1>1. ASSUME NEW r \in Replicas, NEW kind, NEW id, NEW row, PublishPaymentEvent(r, kind, id, row)
      PROVE  Given \subseteq Given'
  <2>1. \A s \in Replicas : buffer[s] \subseteq buffer'[s]
    BY <1>1 DEF PublishPaymentEvent, TypeOK
  <2>2. topic' = topic /\ dropped \subseteq dropped'
    BY <1>1 DEF PublishPaymentEvent
  <2> QED BY <2>1, <2>2 DEF Given
<1>2. ASSUME NEW w \in Workers, PersistAndPublish(w) PROVE Given \subseteq Given'
  BY <1>1, <1>2, ConstantsAssumption DEF PersistAndPublish, ConstantsAssumption
<1>3. ASSUME NEW w \in Workers, NEW id \in PaymentIds, NEW request \in UpdateRequests,
             UpdateStatus(w, id, request)
      PROVE  Given \subseteq Given'
  BY <1>1, <1>3, ConstantsAssumption DEF UpdateStatus, ConstantsAssumption
<1>4. ASSUME NEW r \in Replicas, NEW id \in PaymentIds, RequeuePayment(r, id)
      PROVE  Given \subseteq Given'
  BY <1>1, <1>4 DEF RequeuePayment
<1>5. ASSUME NEW r \in Replicas, ProducerStep(r) PROVE Given \subseteq Given'
  <2>1. PICK event \in buffer[r] : /\ buffer' = [buffer EXCEPT ![r] = @ \ {event}]
                                   /\ event \in topic' \cup dropped'
                                   /\ topic \subseteq topic' /\ dropped \subseteq dropped'
    BY <1>5 DEF ProducerStep
  <2>2. \A s \in Replicas : buffer[s] \subseteq buffer'[s] \cup {event}
    BY <2>1 DEF TypeOK
  <2> QED BY <2>1, <2>2 DEF Given
<1>6. ASSUME NEW r \in Replicas, Crash(r) PROVE Given \subseteq Given'
  <2>1. /\ topic' = topic /\ dropped' = dropped \cup buffer[r]
        /\ \A s \in Replicas : s # r => buffer'[s] = buffer[s]
    BY <1>6 DEF Crash, TypeOK
  <2> QED BY <2>1 DEF Given
<1>7. ASSUME NEW w \in Workers,
             \/ RejectAmount(w) \/ CommitCreate(w) \/ Respond(w) \/ CommitUpdate(w)
             \/ \E request \in CreateRequests : CreatePayment(w, request)
             \/ \E id \in PaymentIds, request \in UpdateRequests : RejectUpdate(w, id, request)
      PROVE  Given \subseteq Given'
  BY <1>0, <1>7 DEF RejectAmount, CommitCreate, Respond, CommitUpdate, CreatePayment, RejectUpdate
<1>8. ASSUME NEW r \in Replicas, FindRetryablePayments(r) \/ CommitBatch(r)
      PROVE  Given \subseteq Given'
  BY <1>0, <1>8 DEF FindRetryablePayments, CommitBatch
<1>9. ASSUME NEW id \in PaymentIds, BackoffElapses(id) PROVE Given \subseteq Given'
  BY <1>0, <1>9 DEF BackoffElapses
<1>10. CASE UNCHANGED vars
  BY <1>0, <1>10 DEF vars
<1> QED BY <1>2, <1>3, <1>4, <1>5, <1>6, <1>7, <1>8, <1>9, <1>10
        DEF Next, WorkerStep, SchedulerStep

\* What is published is told, whether the producer takes it or not.
LEMMA PublishingTells ==
  ASSUME TypeOK, NEW r \in Replicas, NEW kind, NEW id, NEW row,
         PublishPaymentEvent(r, kind, id, row)
  PROVE  \E e \in Told(id)' : e.eventType = kind /\ e.status = row.status
<1> DEFINE event == [eventType |-> kind, paymentId |-> id, status |-> row.status]
<1>1. event \in dropped' \/ buffer' = [buffer EXCEPT ![r] = @ \cup {event}]
  BY DEF PublishPaymentEvent
<1>2. event \in Given'
  <2> HIDE DEF event
  <2> QED BY <1>1 DEF Given, TypeOK
<1>3. event \in Told(id)'
  BY <1>2 DEF Told
<1> QED BY <1>3

\* A row that was announced stays so.
LEMMA AnnouncedStays ==
  ASSUME TypeOK, [Next]_vars, NEW id
  PROVE  /\ Told(id) \subseteq Told(id)'
         /\ RetryIsTold(id) => RetryIsTold(id)'
         /\ \A row : RowIsAnnounced(id, row) => RowIsAnnounced(id, row)'
<1>1. Told(id) \subseteq Told(id)'
  BY EventsGrow DEF Told
<1> QED BY <1>1 DEF RowIsAnnounced, RetryIsTold

\* An event is gone only by a refusal or a crash.
LEMMA DroppedStep ==
  ASSUME TypeOK, [Next]_vars, dropped # {} => (FALSE \in BrokerAnswers \/ crashes > 0)
  PROVE  dropped' # {} => (FALSE \in BrokerAnswers \/ crashes' > 0)
<1> DEFINE Goal == dropped' # {} => (FALSE \in BrokerAnswers \/ crashes' > 0)
<1> SUFFICES Goal
  OBVIOUS
<1>0. ASSUME dropped' = dropped, crashes' = crashes PROVE Goal
  BY <1>0
<1>1. ASSUME NEW r, NEW kind, NEW id, NEW row, PublishPaymentEvent(r, kind, id, row)
      PROVE  dropped' = dropped \/ FALSE \in BrokerAnswers
  BY <1>1, ConstantsAssumption DEF PublishPaymentEvent, ConstantsAssumption
<1>2. ASSUME NEW w \in Workers, PersistAndPublish(w) PROVE Goal
  BY <1>0, <1>1, <1>2 DEF PersistAndPublish
<1>3. ASSUME NEW w \in Workers, NEW id \in PaymentIds, NEW request \in UpdateRequests,
             UpdateStatus(w, id, request)
      PROVE  Goal
  BY <1>0, <1>1, <1>3 DEF UpdateStatus
<1>4. ASSUME NEW r \in Replicas, NEW id \in PaymentIds, RequeuePayment(r, id) PROVE Goal
  BY <1>0, <1>1, <1>4 DEF RequeuePayment
<1>5. ASSUME NEW r \in Replicas, ProducerStep(r) PROVE Goal
  <2>1. dropped' = dropped \/ FALSE \in BrokerAnswers
    BY <1>5, ConstantsAssumption DEF ProducerStep, ConstantsAssumption
  <2> QED BY <1>0, <1>5, <2>1 DEF ProducerStep
<1>6. ASSUME NEW r \in Replicas, Crash(r) PROVE Goal
  <2>1. crashes' = crashes + 1 /\ crashes \in Nat
    BY <1>6, ConstantsAssumption DEF Crash, TypeOK, ConstantsAssumption
  <2>2. crashes' > 0
    <3> HIDE DEF Goal
    <3> QED BY <2>1
  <2> QED BY <2>2
<1>7. ASSUME NEW w \in Workers,
             \/ RejectAmount(w) \/ CommitCreate(w) \/ Respond(w) \/ CommitUpdate(w)
             \/ \E request \in CreateRequests : CreatePayment(w, request)
             \/ \E id \in PaymentIds, request \in UpdateRequests : RejectUpdate(w, id, request)
      PROVE  Goal
  BY <1>0, <1>7 DEF RejectAmount, CommitCreate, Respond, CommitUpdate, CreatePayment, RejectUpdate
<1>8. ASSUME NEW r \in Replicas, FindRetryablePayments(r) \/ CommitBatch(r) PROVE Goal
  BY <1>0, <1>8 DEF FindRetryablePayments, CommitBatch
<1>9. ASSUME NEW id \in PaymentIds, BackoffElapses(id) PROVE Goal
  BY <1>0, <1>9 DEF BackoffElapses
<1>10. CASE UNCHANGED vars
  BY <1>0, <1>10 DEF vars
<1> HIDE DEF Goal
<1> QED BY <1>2, <1>3, <1>4, <1>5, <1>6, <1>7, <1>8, <1>9, <1>10
        DEF Next, WorkerStep, SchedulerStep

\* A step keeps committed rows announced: what a commit writes was in flight.
LEMMA CommittedStep ==
  ASSUME TypeOK, TypeOK', IInv, CommittedIsAnnounced, InFlightIsAnnounced, [Next]_vars
  PROVE  CommittedIsAnnounced'
<1> SUFFICES ASSUME NEW id \in PaymentIds, id \in Stored'
             PROVE  RowIsAnnounced(id, db[id])'
  BY DroppedStep DEF CommittedIsAnnounced, Stored
<1> DEFINE Carries(row) == /\ row.status = db'[id].status
                           /\ row.retryCount = db'[id].retryCount
                           /\ RowIsAnnounced(id, row)
<1>0. ASSUME NEW row, Carries(row) PROVE RowIsAnnounced(id, db[id])'
  <2>1. RowIsAnnounced(id, row)'
    BY <1>0, AnnouncedStays
  <2> QED BY <1>0, <2>1 DEF RowIsAnnounced
<1>1. CASE id \in Stored /\ db'[id] = db[id]
  <2>1. Carries(db[id])
    BY <1>1 DEF CommittedIsAnnounced
  <2> QED BY <1>0, <2>1
<1>2. ASSUME NEW w \in Workers, CommitCreate(w), id = tx[w].target,
             db' = [db EXCEPT ![tx[w].target] = tx[w].entity]
      PROVE  RowIsAnnounced(id, db[id])'
  <2>1. Carries(tx[w].entity)
    BY <1>2 DEF CommitCreate, InFlightIsAnnounced, TypeOK
  <2> QED BY <1>0, <2>1
<1>3. ASSUME NEW w \in Workers, CommitUpdate(w), id = tx[w].target,
             db' = [db EXCEPT ![tx[w].target] = Written(tx[w].entity)]
      PROVE  RowIsAnnounced(id, db[id])'
  <2>1. tx[w].entity \in Row /\ db'[id] = Written(tx[w].entity)
    BY <1>3 DEF TypeOK, Transaction
  <2>2. /\ tx[w].entity.status = db'[id].status
        /\ tx[w].entity.retryCount = db'[id].retryCount
    BY <2>1 DEF Written, Row
  <2>3. Carries(tx[w].entity)
    BY <1>3, <2>2 DEF CommitUpdate, InFlightIsAnnounced
  <2> QED BY <1>0, <2>3
<1>4. ASSUME NEW r \in Replicas, CommitBatch(r), id \in Taken(r), id \in Stored,
             db'[id] = Written(Requeued(batch[r].read[id]))
      PROVE  RowIsAnnounced(id, db[id])'
  <2>1. batch[r].read[id] \in Row
    BY DEF TypeOK, Batch
  <2>2. db'[id].status = "PENDING"
    BY <1>4, <2>1 DEF Written, Requeued, Row
  <2>3. RetryIsTold(id)'
    BY <1>4, AnnouncedStays DEF CommitBatch, InFlightIsAnnounced
  <2>4. RowIsAnnounced(id, db[id])
    BY <1>4 DEF CommittedIsAnnounced
  <2>5. \E e \in Told(id)' : e.eventType = "PAYMENT_CREATED"
    BY <2>4, AnnouncedStays DEF RowIsAnnounced
  <2> QED BY <2>2, <2>3, <2>5 DEF RowIsAnnounced
<1>5. ASSUME NEW i \in PaymentIds, db' = [db EXCEPT ![i].cooled = TRUE]
      PROVE  RowIsAnnounced(id, db[id])'
  <2>1. db'[id].status = db[id].status /\ db'[id].retryCount = db[id].retryCount
    BY <1>5 DEF TypeOK, Row
  <2>2. id \in Stored
    BY <2>1 DEF Stored
  <2>3. Carries(db[id])
    BY <2>1, <2>2 DEF CommittedIsAnnounced
  <2> QED BY <1>0, <2>3
<1>6. ASSUME NEW w \in Workers, id # tx[w].target,
             \/ db' = [db EXCEPT ![tx[w].target] = tx[w].entity]
             \/ db' = [db EXCEPT ![tx[w].target] = Written(tx[w].entity)]
      PROVE  id \in Stored /\ db'[id] = db[id]
  BY <1>6 DEF TypeOK, Stored
<1>7. ASSUME NEW r \in Replicas, \A i \in Taken(r) : DueRetry(i, batch[r].read[i]),
             db' = [i \in PaymentIds |->
                      IF i \in Taken(r) THEN Written(Requeued(batch[r].read[i])) ELSE db[i]]
      PROVE  \/ id \in Stored /\ db'[id] = db[id]
             \/ /\ id \in Taken(r) /\ id \in Stored
                /\ db'[id] = Written(Requeued(batch[r].read[id]))
  BY <1>7 DEF DueRetry, ReadFrom, Stored
<1>8. db' = db => id \in Stored
  BY DEF Stored
<1> HIDE DEF Carries
<1> QED BY <1>1, <1>2, <1>3, <1>4, <1>5, <1>6, <1>7, <1>8, StepsOfTheTable

\* A step keeps what is in flight announced: whoever takes a row to write it
\* publishes the event in the same breath.
LEMMA InFlightStep ==
  ASSUME TypeOK, TypeOK', IInv, CommittedIsAnnounced, InFlightIsAnnounced, [Next]_vars
  PROVE  InFlightIsAnnounced'
<1>1. ASSUME NEW v \in Workers, tx'[v].step \in {"insert", "update"}
      PROVE  RowIsAnnounced(tx[v].target, tx[v].entity)'
  <2>1. CASE tx'[v] = tx[v]
    <3>1. RowIsAnnounced(tx[v].target, tx[v].entity)
      BY <1>1, <2>1 DEF InFlightIsAnnounced
    <3>2. PICK i, row : i = tx[v].target /\ row = tx[v].entity
      OBVIOUS
    <3>3. RowIsAnnounced(i, row)'
      BY <3>1, <3>2, AnnouncedStays
    <3> QED BY <2>1, <3>2, <3>3
  <2>2. CASE PersistAndPublish(v)
    <3>1. PICK id \in PaymentIds, suffix \in Suffixes :
            LET row == NewPayment(tx[v].request, <<sequence[HomeOf[v]] + 1, suffix>>) IN
            /\ tx' = [tx EXCEPT ![v] = Inserting(tx[v].request, id, row)]
            /\ PublishPaymentEvent(HomeOf[v], "PAYMENT_CREATED", id, row)
      BY <2>2 DEF PersistAndPublish
    <3> DEFINE row == NewPayment(tx[v].request, <<sequence[HomeOf[v]] + 1, suffix>>)
    <3>2. tx'[v].target = id /\ tx'[v].entity = row
      BY <3>1 DEF TypeOK, Inserting
    <3>3. row.status = "PENDING" /\ row.retryCount = 0
      BY DEF NewPayment
    <3> HIDE DEF row
    <3>4. \E e \in Told(id)' : e.eventType = "PAYMENT_CREATED"
      BY <3>1, PublishingTells, ConstantsAssumption DEF row, ConstantsAssumption
    <3> QED BY <3>2, <3>3, <3>4 DEF RowIsAnnounced
  <2>3. CASE \E id \in PaymentIds, request \in UpdateRequests : UpdateStatus(v, id, request)
    <3>1. PICK id \in PaymentIds, request \in UpdateRequests : UpdateStatus(v, id, request)
      BY <2>3
    <3> DEFINE row == Updated(db[id], request)
    <3>2. tx'[v].target = id /\ tx'[v].entity = row
      BY <3>1 DEF UpdateStatus, TypeOK, Updating
    <3>3. row.retryCount = db[id].retryCount
      BY DEF Updated, TypeOK, Row
    <3> HIDE DEF row
    <3>4. RowIsAnnounced(id, db[id])
      BY <3>1 DEF UpdateStatus, CommittedIsAnnounced
    <3>5. Told(id) \subseteq Told(id)'
      BY AnnouncedStays
    <3>6. \E e \in Told(id)' : e.eventType = "PAYMENT_STATUS_CHANGED" /\ e.status = row.status
      BY <3>1, PublishingTells, ConstantsAssumption DEF UpdateStatus, row, ConstantsAssumption
    <3> QED BY <3>2, <3>3, <3>4, <3>5, <3>6 DEF RowIsAnnounced, RetryIsTold
  <2>4. /\ NoTransaction.step \notin {"insert", "update"}
        /\ \A request : Persisting(request).step \notin {"insert", "update"}
        /\ \A request, id, code : Replying(request, id, code).step \notin {"insert", "update"}
    BY DEF NoTransaction, Persisting, Replying
  <2> QED BY <1>1, <2>1, <2>2, <2>3, <2>4, StepsOfAThread
<1>2. ASSUME NEW r \in Replicas, NEW id \in PaymentIds,
             id \in Taken(r)', id \notin batch'[r].todo
      PROVE  RetryIsTold(id)'
  <2>1. CASE batch'[r].read = batch[r].read /\ id \notin batch[r].todo
    <3>1. id \in Taken(r) \ batch[r].todo
      BY <1>2, <2>1 DEF Taken
    <3> QED BY <3>1, AnnouncedStays DEF InFlightIsAnnounced
  <2>2. CASE RequeuePayment(r, id)
    BY <2>2, PublishingTells DEF RequeuePayment, RetryIsTold
  <2>3. CASE FindRetryablePayments(r)
    BY <1>2, <2>3 DEF FindRetryablePayments, Taken, TypeOK, NoRow
  <2>4. CASE batch'[r] = NoBatch
    BY <1>2, <2>4 DEF NoBatch, NoRow, Taken
  <2> QED BY <1>2, <2>1, <2>2, <2>3, <2>4, TurnsOfABatch
<1> QED BY <1>1, <1>2 DEF InFlightIsAnnounced, Taken

\* Whatever a payment's committed state is, the events that tell clearing of it
\* were given to Kafka before it was committed, through races, rollbacks and
\* crashes; they are in the topic, in the buffer of a replica that lives, or
\* were lost to a refusal or a crash.
THEOREM CommittedIsAnnouncedHolds == Spec => []CommittedIsAnnounced
<1>1. Init => CommittedIsAnnounced /\ InFlightIsAnnounced
  <2>1. Init => /\ Stored = {} /\ dropped = {}
                /\ \A w \in Workers : tx[w].step = "idle"
                /\ \A r \in Replicas : Taken(r) = {}
    BY DEF Init, Stored, Taken, NoRow, NoBatch, NoTransaction
  <2> QED BY <2>1 DEF CommittedIsAnnounced, InFlightIsAnnounced
<1>2. /\ TypeOK /\ TypeOK' /\ IInv /\ CommittedIsAnnounced /\ InFlightIsAnnounced /\ [Next]_vars
      => CommittedIsAnnounced' /\ InFlightIsAnnounced'
  BY CommittedStep, InFlightStep
<1> QED BY <1>1, <1>2, TypeCorrect, InvariantHolds, PTL DEF Spec

\* ck_retry_count never refuses a batch: rows it would refuse are not found,
\* and rows that moved are refused by their version first.
THEOREM BudgetIsKept ==
  Spec => [](\A r \in Replicas : \A id \in Taken(r) :
               Requeued(batch[r].read[id]).retryCount <= MaxRetries)
<1>1. TypeOK /\ IInv => \A r \in Replicas : \A id \in Taken(r) :
                          Requeued(batch[r].read[id]).retryCount <= MaxRetries
  <2> SUFFICES ASSUME TypeOK, IInv, NEW r \in Replicas, NEW id \in Taken(r)
               PROVE  Requeued(batch[r].read[id]).retryCount <= MaxRetries
    OBVIOUS
  <2>1. batch[r].read[id] \in Row
    BY DEF Taken, TypeOK, Batch
  <2>2. batch[r].read[id].retryCount < MaxRetries
    BY DEF IInv, BatchesAreDue, DueRetry
  <2>3. Requeued(batch[r].read[id]).retryCount = batch[r].read[id].retryCount + 1
    BY <2>1 DEF Requeued, Row
  <2> QED BY <2>1, <2>2, <2>3, ConstantsAssumption DEF ConstantsAssumption, Row
<1> QED BY <1>1, TypeCorrect, InvariantHolds, PTL

----------------------------------------------------------------------------
\* Refinement: the service implements the ledger

\* An empty table is an empty ledger.
LEMMA LedgerInitially == Init => Ledger!LedgerInit
BY DEF Init, Ledger!LedgerInit, Ledger!NoEntry, Ledger!Absent, LedgerEntry, NoRow, Absent, Created

\* Every step of the service is a step of the ledger or none.
LEMMA LedgerStep ==
  TypeOK /\ TypeOK' /\ IInv /\ [Next]_vars => [Ledger!LedgerNext]_(Ledger!ledgerVars)
<1> SUFFICES ASSUME TypeOK, TypeOK', IInv, [Next]_vars
             PROVE  [Ledger!LedgerNext]_(Ledger!ledgerVars)
  OBVIOUS
<1> DEFINE ledger == [id \in PaymentIds |-> LedgerEntry(id)]
           acknowledged == {<<a.idempotencyKey, a.id>> : a \in Created}
<1>a. answers' = answers => acknowledged' = acknowledged
  BY DEF Created
<1>b. ASSUME \A id \in PaymentIds : LedgerEntry(id)' = LedgerEntry(id), answers' = answers
      PROVE  [Ledger!LedgerNext]_(Ledger!ledgerVars)
  BY <1>a, <1>b DEF Ledger!ledgerVars
<1>1. ASSUME NEW w \in Workers, CommitCreate(w), Unique(tx[w].entity),
             db' = [db EXCEPT ![tx[w].target] = tx[w].entity]
      PROVE  Ledger!LedgerNext
  <2>0. PICK id \in PaymentIds, key \in Keys \cup {Null} :
          id = tx[w].target /\ key = tx[w].entity.idempotencyKey
    BY <1>1 DEF CommitCreate, TypeOK, HasItsData, Transaction, Row
  <2>1. /\ tx[w].entity \in Row /\ answers' = answers
        /\ tx[w].entity.status = "PENDING" /\ tx[w].entity.retryCount = 0
        /\ id \notin Stored
    BY <1>1, <2>0 DEF CommitCreate, TypeOK, HasItsData, Transaction, IInv, InsertsAreFresh
  <2>2. ~Ledger!Exists(id)
    BY <2>1 DEF Ledger!Exists, LedgerEntry, Ledger!Absent, Stored, Absent
  <2>3. key # Null => \A other \in PaymentIds : Ledger!Exists(other) => ledger[other].key # key
    BY <1>1, <2>0 DEF Unique, Ledger!Exists, LedgerEntry, Ledger!Absent, Stored, Absent
  <2>4. ledger' = [ledger EXCEPT ![id] = [status |-> "PENDING", retries |-> 0, key |-> key]]
    <3>1. LedgerEntry(id)' = [status |-> "PENDING", retries |-> 0, key |-> key]
      BY <1>1, <2>0, <2>1 DEF LedgerEntry, TypeOK
    <3>2. \A other \in PaymentIds : other # id => LedgerEntry(other)' = LedgerEntry(other)
      BY <1>1, <2>0 DEF LedgerEntry, TypeOK
    <3> QED BY <2>1, <3>1, <3>2
  <2>5. Ledger!Open(id, key)
    BY <1>a, <2>1, <2>2, <2>3, <2>4 DEF Ledger!Open
  <2> QED BY <2>5 DEF Ledger!LedgerNext
<1>2. ASSUME NEW w \in Workers, CommitUpdate(w),
             LegalUpdate(tx[w].target, tx[w].base, tx[w].entity),
             Unmoved(tx[w].target, tx[w].base),
             db' = [db EXCEPT ![tx[w].target] = Written(tx[w].entity)]
      PROVE  [Ledger!LedgerNext]_(Ledger!ledgerVars)
  <2>0. PICK id \in PaymentIds, read \in Row, row \in Row :
          id = tx[w].target /\ read = tx[w].base /\ row = tx[w].entity
    BY <1>2 DEF CommitUpdate, TypeOK, HasItsData, Transaction
  <2>1. /\ db[id] \in Row /\ id \in Stored /\ answers' = answers
    BY <1>2, <2>0 DEF CommitUpdate, TypeOK, HasItsData, Transaction, LegalUpdate, ReadFrom
  <2>2. SameData(read, db[id])
    BY <1>2, <2>0 DEF LegalUpdate, ReadFrom, Unmoved
  <2>3. LedgerEntry(id)' = [LedgerEntry(id) EXCEPT !.status = row.status]
    <3>1. db'[id] = Written(row)
      BY <1>2, <2>0 DEF TypeOK
    <3>2. /\ db'[id].status = row.status /\ db'[id].retryCount = db[id].retryCount
          /\ db'[id].idempotencyKey = db[id].idempotencyKey
      <4>1. /\ Written(row).status = row.status /\ Written(row).retryCount = row.retryCount
            /\ Written(row).idempotencyKey = row.idempotencyKey
        BY DEF Written, Row
      <4>2. row.retryCount = read.retryCount /\ row.idempotencyKey = read.idempotencyKey
        BY <1>2, <2>0 DEF LegalUpdate
      <4> QED BY <2>2, <3>1, <4>1, <4>2 DEF SameData
    <3> QED BY <3>2 DEF LedgerEntry
  <2>4. \A other \in PaymentIds : other # id => LedgerEntry(other)' = LedgerEntry(other)
    BY <1>2, <2>0 DEF LedgerEntry, TypeOK
  <2>5. CASE row.status = read.status
    <3>1. LedgerEntry(id)' = LedgerEntry(id)
      BY <2>2, <2>3, <2>5 DEF LedgerEntry, SameData
    <3> QED BY <1>b, <2>1, <2>4, <3>1
  <2>6. CASE row.status \in Successors[read.status]
    <3>1. row.status \in PaymentStatus /\ row.status \in Ledger!Successors[ledger[id].status]
      BY <1>2, <2>0, <2>2, <2>6 DEF LegalUpdate, SameData, LedgerEntry, Successors, Ledger!Successors
    <3>2. Ledger!Exists(id)
      BY <2>1 DEF Ledger!Exists, LedgerEntry, Ledger!Absent, Stored, Absent
    <3>3. ledger' = [ledger EXCEPT ![id].status = row.status]
      BY <2>0, <2>3, <2>4
    <3>4. Ledger!Move(id, row.status)
      BY <1>a, <2>1, <3>1, <3>2, <3>3 DEF Ledger!Move
    <3> QED BY <2>1, <3>1, <3>4 DEF Ledger!LedgerNext, Ledger!PaymentStatus, PaymentStatus
  <2> QED BY <1>2, <2>0, <2>5, <2>6, CheckIsDiagram DEF LegalUpdate
<1>3. ASSUME NEW r \in Replicas, CommitBatch(r),
             \A i \in Taken(r) : DueRetry(i, batch[r].read[i]) /\ Unmoved(i, batch[r].read[i]),
             db' = [i \in PaymentIds |->
                      IF i \in Taken(r) THEN Written(Requeued(batch[r].read[i])) ELSE db[i]]
      PROVE  Ledger!LedgerNext
  <2>1. answers' = answers /\ Taken(r) \in SUBSET PaymentIds
    BY <1>3 DEF CommitBatch, Taken
  <2>2. ASSUME NEW id \in Taken(r)
        PROVE  /\ ledger[id].status = "FAILED" /\ ledger[id].retries < MaxRetries
               /\ LedgerEntry(id)' = [status |-> "PENDING", retries |-> ledger[id].retries + 1,
                                      key |-> ledger[id].key]
    <3> DEFINE read == batch[r].read[id]
    <3>1. id \in PaymentIds /\ read \in Row /\ db'[id] = Written(Requeued(read))
      BY <1>3 DEF Taken, TypeOK, Batch
    <3>2. /\ SameData(read, db[id]) /\ read.status = "FAILED" /\ read.retryCount < MaxRetries
      BY <1>3 DEF DueRetry, ReadFrom, Unmoved
    <3>3. /\ db'[id].status = "PENDING" /\ db'[id].retryCount = read.retryCount + 1
          /\ db'[id].idempotencyKey = read.idempotencyKey
      BY <3>1 DEF Written, Requeued, Row
    <3>4. LedgerEntry(id)' = [status |-> "PENDING", retries |-> db[id].retryCount + 1,
                              key |-> db[id].idempotencyKey]
      BY <3>2, <3>3 DEF SameData, LedgerEntry
    <3>5. /\ LedgerEntry(id).status = db[id].status
          /\ LedgerEntry(id).retries = db[id].retryCount
          /\ LedgerEntry(id).key = db[id].idempotencyKey
      BY DEF LedgerEntry
    <3>6. db[id].status = "FAILED" /\ db[id].retryCount < MaxRetries
      BY <3>2 DEF SameData
    <3>7. ledger[id] = LedgerEntry(id)
      BY <3>1
    <3> HIDE DEF ledger
    <3> QED BY <3>4, <3>5, <3>6, <3>7
  <2>3. \A id \in PaymentIds \ Taken(r) : LedgerEntry(id)' = ledger[id]
    BY <1>3 DEF LedgerEntry
  <2>4. ledger' = [id \in PaymentIds |->
                     IF id \in Taken(r)
                     THEN [status |-> "PENDING", retries |-> ledger[id].retries + 1,
                           key |-> ledger[id].key]
                     ELSE ledger[id]]
    BY <2>2, <2>3
  <2>5. Ledger!Requeue(Taken(r))
    BY <1>a, <2>1, <2>2, <2>4 DEF Ledger!Requeue
  <2> QED BY <2>1, <2>5 DEF Ledger!LedgerNext
<1>4. ASSUME NEW id \in PaymentIds, db' = [db EXCEPT ![id].cooled = TRUE], answers' = answers
      PROVE  [Ledger!LedgerNext]_(Ledger!ledgerVars)
  <2>1. \A i \in PaymentIds : LedgerEntry(i)' = LedgerEntry(i)
    BY <1>4 DEF LedgerEntry, TypeOK, Row
  <2> QED BY <1>b, <1>4, <2>1
<1>5. ASSUME NEW w \in Workers, Respond(w)
      PROVE  [Ledger!LedgerNext]_(Ledger!ledgerVars)
  <2> DEFINE a == [idempotencyKey |-> tx[w].request.idempotencyKey,
                   payload |-> tx[w].request.payload,
                   id |-> tx[w].target, code |-> tx[w].code]
  <2>1. answers' = answers \cup {a} /\ db' = db /\ tx[w].step = "reply"
    BY <1>5 DEF Respond
  <2>2. ledger' = ledger
    BY <2>1 DEF LedgerEntry
  <2>3. CASE a.code = 201
    <3>1. /\ tx[w].target \in Stored /\ tx[w].target \in PaymentIds
          /\ db[tx[w].target].idempotencyKey = tx[w].request.idempotencyKey
      BY <2>1, <2>3 DEF IInv, RepliesAreStored, Stored
    <3>2. Created' = Created \cup {a}
      BY <2>1, <2>3 DEF Created
    <3>3. acknowledged' = acknowledged \cup {<<a.idempotencyKey, a.id>>}
      BY <3>2
    <3>4. Ledger!Exists(a.id) /\ ledger[a.id].key = a.idempotencyKey
      BY <3>1 DEF Ledger!Exists, LedgerEntry, Ledger!Absent, Stored, Absent
    <3>6. a.idempotencyKey \in Keys \cup {Null}
      BY <2>1, ConstantsAssumption DEF ConstantsAssumption, TypeOK, HasItsData, CreateRequest
    <3>7. PICK id \in PaymentIds, key \in Keys \cup {Null} : id = a.id /\ key = a.idempotencyKey
      BY <3>1, <3>6
    <3>8. Ledger!Acknowledge(key, id)
      BY <2>2, <3>3, <3>4, <3>7 DEF Ledger!Acknowledge
    <3> QED BY <3>8 DEF Ledger!LedgerNext
  <2>4. CASE a.code # 201
    <3>1. Created' = Created
      BY <2>1, <2>4 DEF Created
    <3> QED BY <2>2, <3>1 DEF Ledger!ledgerVars
  <2> QED BY <2>3, <2>4
<1>6. CASE db' = db /\ answers' = answers
  BY <1>b, <1>6 DEF LedgerEntry
<1>7. (\E w \in Workers : Respond(w)) \/ answers' = answers
  BY AnswersGrow
<1> QED BY <1>1, <1>2, <1>3, <1>4, <1>5, <1>6, <1>7, StepsOfTheTable

\* The service, with its transactions, crashes and racing schedulers, behaves
\* like one ledger whose operations are atomic.
THEOREM ServiceImplementsLedger == Spec => ImplementsLedger
<1>1. TypeOK /\ TypeOK' /\ IInv /\ [Next]_vars => [Ledger!LedgerNext]_(Ledger!ledgerVars)
  BY LedgerStep
<1> QED BY <1>1, LedgerInitially, TypeCorrect, InvariantHolds, PTL
        DEF Spec, ImplementsLedger, Ledger!LedgerSpec
=============================================================================
