# Verification of the global payments platform

TLA+ models of the parts of this repository that keep state under concurrency
and failure, TLC configurations that check them on small instances, and TLAPS
proofs of what matters most for every value of the constants. Paths below are
relative to `src/`.

## 1. The system

Clients call the **gateway** (Node), which forwards to the **payments service**
(Java, Spring). The payments service writes one PostgreSQL table and publishes
to the Kafka topic `payment-events`. The external clearing side acts on events
and reports outcomes through `PATCH /payments/{id}/status`. The
**data-processing service** (Python, Flask under gunicorn) consumes the topic
and, once a day, reconciles the payments table with the clearing network's
settlement file in S3. A Jenkins library, Terraform, Ansible and Kubernetes
manifests deploy all of it.

```
client -> gateway -> payments service (3-10 replicas) -> table payments (PostgreSQL)
                         |      ^  retry scheduler, every 5 min, in each replica
                         v      | PATCH status
                  payment-events (Kafka) -> clearing side
                         |
                         v
          data-processing (2 pods): consumer thread    reporting database
                                    reconciliation <-> settlement files (S3)
```

| Component | State | Operations | Interacts with |
|---|---|---|---|
| Payments: `payments-service/.../service/PaymentService.java`, entity, repository, `V1__create_payments_table.sql` | rows of `payments` (unique idempotency key and reference, `@Version`, `ck_retry_count`); per replica: reference sequence, counters, open transactions, the Kafka producer's buffer | createPayment, updateStatus, retryFailedPayments, three read endpoints | Kafka (asynchronous send, its result ignored), gateway, clearing |
| Event consumer: `data-processing-service/app/utils/kafka_consumer.py` | group membership, positions, committed offsets, the thread | poll, process, commit, stop (no caller) | Kafka; one thread in the gunicorn master of each pod |
| Reconciliation: `data-processing-service/app/services/reconciliation_service.py` | `reconciliation_runs` (key `RECON-<date>`), `reconciliation_records`, SQLAlchemy session | run_daily_reconciliation, a six-step pipeline | payments table (read), S3, CronJob or operator who POSTs |
| Run, record and report endpoints: `data-processing-service/app/routes/reconciliation.py`, `reports.py` | none; clients keep what they have read | list runs, one run, its records page by page, summary, exceptions of a date | reporting database |
| The pods: `app/__init__.py`, `app/config/settings.py`, `app/routes/health.py`, `wsgi.py`, `gunicorn.conf.py`, `k8s/deployment.yaml` | gunicorn master and its sync workers, the consumer thread, Kubernetes' counters of failed probes | start, probes, kill and fork workers, restart | PostgreSQL, Kubernetes |
| Gateway proxy: `gateway-service/src/services/paymentsService.js` | circuit breaker (opossum: 10 s timeout, 50 % errors over at least 5 calls, reset after 30 s) | forward, map upstream errors | payments service |
| Gateway middleware: auth, rate limit, request id, probes | kept by libraries | per request | clients |
| Delivery: Jenkins library, Terraform, Ansible, Kubernetes, Prometheus | none at run time | deploy, roll back | Kubernetes |

### What is hard, and what makes each part correct

*Payments.* Each service method is one transaction whose `INSERT` or `UPDATE`
is flushed at commit, while events and counters leave before it. So two
requests with one key can both miss the lookup; an update can validate a status
that is stale when it is written; three to ten retry schedulers read the same
rows with no lock, each in one all-or-nothing batch; a replica can die between
the event and the commit, or with events its producer has not sent yet. Correct means: one payment per key, nothing
acknowledged that is not stored, only legal moves of the committed status, only
FAILED payments requeued and only within the budget, nothing recorded by
clearing overwritten blindly, every committed state given to Kafka first, no
FAILED payment with retries left that stays so.

*Consumer.* Commits are of positions, not of messages; members are kicked while
busy, rebalances restart partitions at the committed offset, commits fail,
threads end for good. Correct means: no message committed unseen, first looks in
order, committed offsets never pulled back, every message looked at.

*Reconciliation.* A primary key is the only mutual exclusion between POSTs for
a date; rows are committed batch by batch while payments move; a session is not
rolled back after an error; workers are killed. Correct means: one execution per
date, a COMPLETED run whose counts and rows add up, no discrepancy filed as a
match, finished runs that stay as they are, a 200 that can be relied on, no run
left RUNNING by a bad file.

*Readers.* They use several requests, and each query sees what is committed when
it runs: a page and the total behind it, a run and its records, a summary and
its details are never of one snapshot. Correct means: pages neither repeat nor
skip rows of a finished run, a growing list of runs hides none, a summary and
the exceptions it counts agree.

*Pods.* The workers that serve clients answer the probes too, and the consumer
thread lives in the master that forks them. Correct means: one consumer per pod
however many workers are killed, no restarts because the database refuses
connections, ready again by itself after any outage.

*Gateway.* The breaker is read when an error is mapped and not when the call
was made; a timeout answers the client while the payment is still created; a
probe of a half-open circuit may hang or be overtaken by older calls. Correct
means: a client with a key pays once however it repeats, a 201 is of a stored
payment, after a 4xx nothing was or will be created, a half-open circuit is
always decided.

`PROJECT.json` lists each of these hazards at its line.

## 2. Modules

| Module | What it is |
|---|---|
| `PaymentLifecycle` | the statuses and the transition check, as pure operators |
| `PaymentLedger` | abstract specification: a ledger with atomic Open, Move, Requeue and Acknowledge |
| `PaymentsService` | the payments service in detail |
| `PaymentsProperties` | its properties, the inductive invariant, the refinement mapping to `PaymentLedger` |
| `PaymentsClaims` | what comments and API documentation say and the code does not do |
| `PaymentsProofs` | theorems with proofs |
| `EventConsumer`, `ConsumerProperties` | the consumer group, its properties |
| `ConsumerProofs` | theorems with proofs |
| `RunLedger` | abstract specification: what the reporting database shows of runs and records, and what its readers may rely on |
| `RunLedgerProofs` | that they may; shared by the two modules of proofs below |
| `Reconciliation`, `ReconciliationProperties` | the daily pipeline, its properties, the inductive invariant |
| `ReconciliationProofs` | theorems with proofs |
| `Reports`, `ReportsProperties` | the readers, composed with `RunLedger`; their properties, the inductive invariant |
| `ReportsProofs` | theorems with proofs |
| `ServicePods`, `PodsProperties` | a pod's application, workers, probes and consumer thread; their properties |
| `PodsProofs` | theorems with proofs |
| `Gateway`, `GatewayProperties` | the gateway composed with `PaymentLedger` as the payments service behind it, its properties |
| `GatewayProofs` | theorems with proofs |
| `MCPayments`, `MCConsumer`, `MCReconciliation`, `MCReports`, `MCPods`, `MCGateway` | values for TLC; each `MC*.cfg` is one run |

Definitions called a *Mutant of* another one in their comment are plausible bugs.
No specification uses them; replacing the original by one must break a property.

### PaymentsService and the code

One action is one step between which others can interleave: a method body up to
its return, a commit, a response.

| Code | Model |
|---|---|
| table `payments` | `db`: id -> row; `cooled` stands for `updated_at < now - 5 min` |
| persistence context of a request, of a scheduler | `tx[w]`, `batch[r]`: rows as read and as they would be written |
| `createPayment`, lookup of the key | `CreatePayment` |
| `persistAndPublish` until its return | `PersistAndPublish`; `RejectAmount` when `toMinorUnits` throws |
| flush and commit of the INSERT | `CommitCreate`: `Unique` holds, or the generic handler answers 500 |
| response | `Respond` |
| `updateStatus` | `UpdateStatus` (the body), `RejectUpdate` (404, 422), `CommitUpdate` (dirty check, `@Version`) |
| `findRetryablePayments`, the `forEach`, the commit | `FindRetryablePayments`, `RequeuePayment`, `CommitBatch` |
| `publishPaymentEvent`, `kafkaTemplate.send` | `PublishPaymentEvent`: into the `buffer` of the replica's producer, or into `dropped` when `send` throws |
| the producer's thread (`KafkaConfig.java`: `acks=all`, retries, linger 5 ms, delivery timeout 120 s) | `ProducerStep`: from the buffer into `topic`, or into `dropped` when it gives up; nobody looks at the future |
| `PaymentReferenceGenerator`, counters | `sequence`, `metrics`, both lost in a crash |
| pod restart | `Crash`: transactions, sequence, counters and the undelivered events are lost |

Abstractions: payloads, keys, references and reasons are model values; amounts
only matter by whether their currency can represent them (`Fractional`); a
reference is the pair of sequence number and random suffix; the UUID generator
never repeats. A response that gets lost with its replica is `Crash` before
`Respond`. Reads see committed rows (READ COMMITTED). Buffers and topic are sets:
the order of events is not modelled, and a payment that fails a second time sends
an event equal to the first (the code's timestamp apart), so the model cannot
tell which of the two is there.

### EventConsumer and the code

`Poll`, `Process`, `ProcessRaises`, `Commit` and `CommitFails` are the branches
of the loop in `start`; `FatalError` is the `KafkaException` that leaves it.
`commit()` has no arguments, so `Commit` moves every partition the thread owns
to its position. Broker and coordinator are external: `Produce`, `Rebalance`,
`Kick`. gunicorn runs with `preload_app`, so there is one thread per pod and not
one per worker; nothing calls `stop_consumer`. A message matters only by whether
`_process_message` returns or raises.

### Reconciliation and the code

`StartRun` is the insert of the run's row, outside the `try`. `Load`,
`FetchAndReconcile`, `FetchFails` (one attempt of three), `PersistBatch`,
`CompleteRun`, `UploadReport` and `Summarize` are the pipeline, `FailRun` its
`except` clause; `Answer` is what the POST returns. `DatabaseFails` is a call
that raises; nothing calls `rollback()`, so the session may then refuse the
except clause's commit too (`poisoned`). `KillWorker` is gunicorn's 60 s timeout
or the pod's death.

`Merged`, `ClearingReference` and `ClassifyRecord` are the left join, what its
column suffixes do, and the classification. Amounts count in thousandths, so that
a line can be within the tolerance of 0.005 (`Tolerance`), at it or beyond. They are
compared as floats: of two amounts that are exactly the tolerance apart, some
differ by a little more in binary (0.20 and 0.195) and some do not (0.20 and
0.205); the constant `RoundedUp` holds the pairs that do, and the proofs are for
any such set. An empty amount is `Decimal('nan')`, which no comparison finds too
far away (`AmountsPass`). Amounts finer than thousandths, and amounts so large that
floats cannot tell their cents apart, are left out. Rows are inserted in the frame's
order (`Precedes`: `ORDER BY payment_reference`, which the join keeps), 500 at a
time (`IsBatch`). A payment without a line has NaN or NaT for the time of its
settlement, and so has a line whose time pandas cannot read: PostgreSQL takes
neither for a timestamp, so a batch with such a row fails as a whole
(`Bindable`, `PersistFails`). Rows are abstracted to reference, line and status;
CSV text and mail are left out; the Kafka summary that the docstring names is
not in the code.

`RunLedger` is what all this looks like to a reader: a run begins once, gains
rows in the order of their references, is completed with the counts of just
those rows, or fails. `Reconciliation` extends it and shares its variables, so
that `ImplementsRunLedger` needs no mapping; `Reports` extends it too, with
clients instead of workers, so that what holds of the readers rests on the
theorem that the pipeline implements `RunLedger`. `ReadersMayRely` says what of
the ledger they need: a COMPLETED run has the counts of its rows, and between two
answers (`LedgerMovesOn`) runs and rows stay, new rows come behind the old ones,
and a finished run keeps its rows and counts.

### Reports and the code

| Code | Model |
|---|---|
| `list_runs`: `LIMIT`, `OFFSET`, newest first, at most 90 | `ListRuns`; `StartList` and `NextList` are a client that pages on until nothing comes |
| `get_run` | `GetRun`: the client learns the run's status and counts, or gets a 404 |
| `get_run_records`, the filters | `Wanted` (`status=EXCEPTION` and `exceptions_only` select the same rows) |
| `paginate()`: the rows of the page | `PageItems`; rows of one reference come in any order |
| `paginate()`: the total, a query of its own | `PageCount` |
| `summary` | `Summary`, for COMPLETED runs of at most 90 days |
| `exceptions_report` | `ExceptionsReport` |

One action is one `SELECT`: `paginate()` runs two, and what is committed between
them shows. There is one run per date, so the order of `ListRuns` is total and
its answer one list. A `sum` of a column is the number of its units (`Units`),
which says the same without recursion. JSON and the formats of dates and amounts
are left out.

### ServicePods and the code

| Code | Model |
|---|---|
| `BaseConfig` and its subclasses, `get_config` | operators of the same names over the set of variables that are set |
| `create_app` | `CreateAppSucceeds`: only a missing database URI stops it |
| `wsgi.py` in the gunicorn master (`preload_app`) | `Boot`; `ThreadsStarted` |
| sync workers, one thread each | `worker`; `TakeCall`, `Return`, `KillWorker` (60 s) |
| `liveness`, `readiness` and their probes in `k8s/deployment.yaml` | `Liveness`, `Readiness`, `LivenessProbe`, `ReadinessProbe` |
| restart of a container by Kubernetes | `Restart` |
| PostgreSQL refuses or hangs; a `KafkaException` ends the thread | `Trouble`, `DatabaseRecovers` |

A call is whatever occupies a worker: a report, or a reconciliation of many
minutes. A probe is one step unless the database hangs; then Kubernetes gives it
up after its second and the worker does not. The startup probe is part of `Boot`.
A new pod starts with no failed probes and not ready.

### Gateway and the code

`Gateway` extends `PaymentLedger`: the payments service behind the gateway is
the ledger that `PaymentsService` is proved to implement, with steps of its own
(`Store`, `Acknowledge201`, `Read`, `Refuse`, `Break`), so that end-to-end
properties rest on that theorem and the state space stays small.

| Code | Model |
|---|---|
| middleware that ends a request (`auth.js`, `rateLimiter.js`, `validate` in `routes/payments.js`) | `Reject` |
| `paymentsBreaker.fire` in the handlers, `buildHeaders` | `Fire`, or `Block` when the circuit does not let it through |
| the call resolves, rejects, or takes 10 s | `Succeed`, `UpstreamError`, `TimeOut` (both failures are `Fail`) |
| `mapUpstreamError` | `MapUpstreamError`, with the breaker as it is when the error arrives |
| `resetTimeout: 30000` | `ResetTimeout` |
| process ends (`app.js:89-104`) | `Exit`; waiting clients lose their connection |

The breaker's library is external. Its rolling statistics (50 % of at least 5
calls in 10 s) count all traffic of the process, of which the model shows a few
calls, so a failure may or may not open a closed circuit and always opens a
half-open one. A late success of an older call closes a half-open circuit. A
call that timed out goes on in the payments service, and what it answers is
dropped. Codes stand for classes. `RequiresToken` says whether the payments
service demands a bearer token, as `SecurityConfig.java` does. The gateway
sends none, so with TRUE nothing is ever paid through it (`claim_forwarded`);
the run `gateway` sets it FALSE, a deployment that trusts the gateway. Clients
that repeat requests, even while an earlier one is open, are external.

## 3. Model checking

| Run | What it asks | Bounds |
|---|---|---|
| `create` | concurrent creation: one payment per key, stored before acknowledged, given to Kafka before committed; the ledger with its keys is implemented | 2 threads on 2 replicas, 3 requests out of 3 kinds, one key, 2 suffixes, events lost or late at will, 1 crash |
| `retry` | updates and racing schedulers: committed moves are legal, nothing recorded is put back, budget, sends before commits, refinement, every retryable payment is requeued | 2 payments, 3 updates out of 4 kinds with 2 reasons, the schedulers of 2 replicas, MaxRetries 1, 1 crash, Kafka down |
| `consumer` | the consumer properties of section 1 | 2 pods, partitions of 2 and 1 messages, 2 faults |
| `reconciliation` | the reconciliation properties of section 1; what readers may rely on | 2 workers, 1 date, 3 payments, 7 settlement files, 4 rows in batches of 2, 3 POSTs, 2 faults |
| `reports` | the properties of the readers | 1 client, 3 dates, 6 rows, pages of 1 run or 2 records |
| `pods` | the properties of the pods | 1 pod of 3 workers, any environment, 4 calls, 3 troubles |
| `gateway` | the gateway properties of section 1 | a payer and a reader, 2 requests each, 2 payment ids, 1 end of the process |

Why these bounds are enough to be worth something: two threads with one key
reach the race on the unique constraint, and a third request sees its outcome;
on two replicas the references clash as well when both draw one suffix, and
do not when they draw different ones, so that each constraint is what decides
in some behaviour. An update and two
schedulers on one row reach every order of read, read, commit, commit; a third
update comes after both. Two request threads that update one payment race in the
same way; with a second payment that instance is too large, and the theorems of
section 4 cover its safety. (With one payment it is small: `MCPaymentsRetry.cfg`
with `Spec`, `Workers = {w1, w2}`, `HomeOf <- Home`, `PaymentIds = {p1}`
and `MaxCreates = 1` has 120,553 states and passes.) With MaxRetries 1 a payment
exhausts its budget inside the bound, and the third update fails another one
that must still be requeued. A scheduler that read one payment makes another's
batch of two roll back, with the payment that nobody else touched. A
cancellation whose reason takes the place of a failure's lets a stale row put the
older one back. In `retry` Kafka is down
(`BrokerAnswers = {FALSE}`): no guard reads buffers or topic, so where events go
changes nothing for four of its properties, and of `CommittedIsAnnounced` the run
shows that each send comes before its commit. That events wait, arrive or are
lost in any order is what `create` shows of creations; the updates and retries of
one payment with all that (`MCPaymentsRetry.cfg` with `Spec`, `PaymentIds = {p1}`,
`MaxCreates = 1` and `BrokerAnswers = {TRUE, FALSE}`) have 1,362,288 states and pass. Ids
and suffixes are symmetric in `create`, which states no liveness property. A
second fault in the consumer lets a kicked member return or the other one end;
two messages in one partition let a success pass a failure. Four rows in
batches of two leave a run half persisted; one payment has two lines, one has
none unless the file brings it, one is in yen, one file has an unreadable
time, and the amounts of lines are within the tolerance, just at it, beyond it or
empty. Three rows of one date in pages of two let a page be read while a batch
comes; a payment with two rows shows why `WalkIsExact` asks for one row each;
pages of one run let a new run shift the list between two of them. Pods share
nothing but the database, so one of them shows what each can do; three workers
are what one CPU gets, four calls and three troubles occupy all of them with
some to spare, stuck probes included. A reader's calls open and probe the
circuit before, between and after a payment and its repetition; two ids let the
repetition make a second payment if anything lets it.

What is bounded is named by a constant: `MaxCreates`, `MaxUpdates`,
`MaxCrashes`, `MaxLog`, `MaxTriggers`, `MaxFaults`, `MaxCalls`, `MaxTroubles`,
`Tries`, `MaxExits`. (`MaxAttempts`, `BatchSize`, `MaxLimit`, `MaxPerPage`,
`MaxDays` and `FailureThreshold` are the code's own.)
Deadlock is not checked because these bounds end every behaviour; `FailedIsRequeued`,
`EveryEventIsTried`, `RunsFinish`, `ServesAgain` and `ProbesAreDecided` say that nothing gets
stuck before that.

### Fairness

*Payments*: weak fairness of each thread's and each scheduler's steps (threads
run; `@Scheduled` fires every five minutes in each replica) and of time passing
(`BackoffElapses`). None for clients, clearing, crashes or producers. *Consumer*: weak
fairness of the thread's steps, of the rebalance and of Kubernetes' restarts;
strong fairness of `Poll` per partition, because the fetcher serves the
partitions in turn although each is disabled while a message is processed.
`FatalError` may end any thread but the last one: were all to end, no event would
be consumed, as no probe watches them. *Reconciliation*: weak fairness of a
worker's pipeline steps. `RunsFinish` is about runs that meet no database
failure, no kill and no row that cannot be inserted; with one, a run can stay
RUNNING for ever, which the code does nothing about. *Pods*: weak fairness of
Kubernetes' starts and probes and of the master's watch over its workers; none
for clients, for troubles, or for calls to end (`Return`), so that `ServesAgain`
rests on the 60 s timeout. *Gateway*: weak fairness of the two timers, `ResetTimeout`
and `TimeOut`, and of nothing else: a probe is decided even if the payments
service never answers.

### Disagreements

Five runs find a behaviour that a comment, a document or a test says is impossible:

| Run | Claim | What the code does |
|---|---|---|
| `claim_duplicate` | the second call with a key returns the original result | overlapping calls: the loser answers 500 |
| `claim_reprocess` | a failed message "will be reprocessed on restart" | the next success commits past it |
| `claim_matched` | a payment that agrees with its line is MATCHED | UNMATCHED if the file has a `clearing_reference` column |
| `claim_unmatched` | a payment without a line becomes an UNMATCHED row | its row cannot be inserted: the run stays RUNNING, without a fault of database or worker |
| `claim_forwarded` | user context is forwarded upstream | no header of it is, and the payments service answers every call 403 |

Read off the code and too plain for a run:

- Payments: a key used again with another payload is answered 201 with the first
  payment, where `PaymentController.java:45` documents a 409; a COMPLETED payment
  cannot be REFUNDED although `PaymentStatus.java:9` calls that "reversed after
  completion".
- Gateway: calls blocked by a half-open circuit answer 502 where the comment in
  `paymentsService.js` promises 503; responses 4xx count as failures of the
  circuit; `health.js` is never told that the process is not ready, as `setReady`
  has no caller.
- Reconciliation: `k8s/deployment.yaml:138` retries a failed run twice, but its
  row exists, so each retry is answered 500 at once; the CronJob allows an hour
  (139) and gunicorn 60 s; amounts are divided by 100 in every currency, so 500
  yen agree with a line of 5.00 (`MatchesAgree` is stated for currencies with two
  decimals); a line whose amount is empty is MATCHED with a payment of any amount,
  since NaN exceeds no tolerance, where `models/reconciliation.py:21` says "Internal
  record matches clearing network" (`MatchesAgree` is about lines with an amount); the "outer join" of the comment at `reconciliation_service.py:240` is a left join; a
  payment with two lines has two rows where the model's docstring says one, and
  counts twice in `total_amount_gbp`, which also adds up all currencies;
  `RECON_LOOKBACK_DAYS` and `RECON_BATCH_SIZE` are read by nothing, so a payment
  that completes after its date was loaded is never reconciled.
- Reports: rows of one payment have no order between them, so pages may repeat
  one and skip the other; the total of a page may count rows that its page was
  too early for; an empty summary names `avg_match_rate` what others name
  `avg_match_rate_pct`; more than 90 runs are silently 90.
- Pods: `ProductionConfig.init_app`, which would refuse to start without its
  variables, has no caller: without `KAFKA_BOOTSTRAP_SERVERS` the pod consumes
  from `localhost:9092`; liveness is not "200 as long as the Flask process is
  running" (`health.py:18`) when all workers are busy; `wsgi.py:13` starts the
  consumer in the master and not "when the gunicorn worker starts".

## 4. Proofs

`PaymentsProofs` proves, for any number of replicas, threads, payments, keys,
crashes and retries, from `ConstantsAssumption` alone:

| Theorem | Says |
|---|---|
| `TypeCorrect` | the type invariant |
| `InvariantHolds` | the inductive invariant `IInv` |
| `SameKeySamePaymentHolds`, `AcknowledgedIsStoredHolds` | two safety invariants of `create` |
| `CommittedIsAnnouncedHolds` | the safety invariant of `create` and `retry` about events |
| `BudgetIsKept` | `ck_retry_count` never refuses a batch of a scheduler |
| `LegalTransitionsHold`, `NothingIsForgotten` | the action properties of `retry` |
| `ServiceImplementsLedger` | the refinement of `create` and `retry`: `Spec` implements `PaymentLedger` under the mapping of `PaymentsProperties` |

None of the properties is inductive: each speaks of the table, and what
threatens the table is what transactions hold in memory. `IInv` says what they
hold. A row read is what the table holds, or older (`ReadFrom`: same version
implies same data); an update in flight is one legal move away from what it
read; a batch holds FAILED rows with retries left; an insert in flight has an id
nobody else writes; a 201 on its way is of a stored payment with its key;
stored keys are unique. The argument is then short: at commit `Unmoved` compares
versions, `ReadFrom` turns equal versions into equal data, and the legal move
from what was read is a legal move from what is stored. The lemma
`StepsMoveRowsOn` says how any step may change a row (its version grows or its
data stays), which keeps `ReadFrom` for everyone else. The refinement maps
`CommitCreate` to Open, `CommitUpdate` to Move, `CommitBatch` to Requeue,
`Respond` to Acknowledge, and all other steps to stuttering.

`NothingForgotten` follows the same way: a commit writes the row it read with what
the request brought, and `ReadFrom` makes what it read what is stored, so a
reference or reason that changes is one that this update read; a batch changes
neither (`RecordedSteps`).

`CommittedIsAnnounced` needs one more invariant, `InFlightIsAnnounced`: an insert,
an update and each row that a batch is through with have given their event to
the producer, or lost it in `send`, before anything of them is stored. An event
that was given stays given - in a buffer, in the topic, or gone when the producer
gives up or its replica dies (`EventsGrow`) - so a commit may rest on it. What it
cannot rest on is delivery: a committed state whose event died in a buffer is
reachable, and the second part of the property, by the lemma `DroppedStep`, only
says what it takes. The two are proved together and the commits
are the steps that use it. `BudgetIsKept` follows from `IInv`: what a batch took
had retries left when it was read, and if it moved, its version refuses it first.

`ConsumerProofs` proves, for any pods, partitions, messages and faults, from
`ConsumerAssumption` alone:

| Theorem | Says |
|---|---|
| `ConsumerTypeCorrect` | the type invariant; what is committed exists |
| `ConsumerInvariantHolds` | the inductive invariant `ConsumerIInv` |
| `CommittedWasTriedHolds` | nothing is committed unseen |
| `FirstLooksAreOrdered`, `CommitsAreFinal` | the action properties of `consumer` |

`CommittedWasTried` is not inductive: a commit publishes positions, so what
matters is that a member has tried all it was handed. `ConsumerIInv` adds that
for members that own a partition, except for the one message in work
(`OwnersTried`, `HeldBack`), that this message is the last one handed out and
all before it were tried (`HeldInTurn`), that positions do not pass the log
(`PositionsExist`), and that ended threads are no members (`MembersRun`), so
that a pod that comes back starts at committed offsets. The lemma `OtherStep`
covers all steps that touch none of this; polling, trying, committing and
rebalancing have a lemma each.

`ReconciliationProofs` proves, for any workers, dates, payments, files, batch
size and number of faults, from `ReconciliationAssumption` alone:

| Theorem | Says |
|---|---|
| `ReconciliationTypes` | the type invariant |
| `ReconciliationInvariant` | the inductive invariant `ReconciliationIInv` |
| `CompletedRunsAddUp`, `MatchedRowsAgree`, `OneExecution`, `AnsweredRunsAreCompleted` | the safety invariants of `reconciliation` |
| `ReconciliationImplementsRunLedger` | `Spec` implements `RunLedger` |
| `PipelineMayBeReliedOn` | hence `ReadersMayRely`, by `LedgerMayBeReliedOn` of `RunLedgerProofs` |
| `PaymentsAreFiledOnce` | one row per payment, at any time of any run, if files have one line per payment |

The argument: a run's row exists from the first step on, so whoever passes
`StartRun` is alone with its date until it is idle again, and nobody comes after
it (`UntouchedIsEmpty`, `WorkFits`). What it has inserted is then what it
computed less what is left (`RowsFit`), and what is inserted goes before what is
left (`ResultsFit`), which gives `RunLedger` its order and `CompleteRun` its
counts: at that step nothing is left, and the counts of rows are counts of
results. The lemma `TallyAdds` says that the three statuses partition a finite
set of rows; `PassingIsClose` that amounts which pass the comparison, as
floats round it, are at most the tolerance apart, and `Classification` that a row
classified MATCHED has a line in its currency and, if that line has an amount,
one that passes. After a failure the worker never writes rows again, so a
date keeps the rows of its one execution, and an answered 200 the run it was
about (`AnsweredIsOver`). The hypothesis of `PaymentsAreFiledOnce`, `SingleLined`,
is about the clearing network; nothing in the code asks for it, and the run
`reconciliation` has a file that breaks it. The theorem shows that the premise
of `WalkIsExact` below, `OneRowEach`, is met wherever files are as expected.

`ReportsProofs` proves, for any clients, dates, rows, page sizes and longest
range, from `ReportsAssumption` alone (dates and rows that may ever be written are
finitely many, page sizes are positive):

| Theorem | Says |
|---|---|
| `ReportsInvariant` | the inductive invariant, `ReportsTypeOK` and `ReportsIInv` |
| `ReportsTypes` | the type invariant |
| `ListingsMissNoRun`, `WalksAreExact`, `AuditsAgree` | the safety invariants of `reports` |

What a client keeps between two requests is a position (an offset, a page), and a
position means something only as long as nothing comes in before it. That is
what `LedgerMovesOn` gives for rows, which come behind those that are there. For
runs the position can only grow, so a shift repeats a run and hides none: `ListFits`
says that a known run at a position the client is past is listed. `WalkFits`
says that a walk has rows at positions it is past and, of a run that was over,
all of them. The lemma `PlaceIsPosition` ties the two views together: the i-th
of a sorted page sequence is the one with i rows up to it. For one walk it also
needs one row per payment, since rows of one reference come in any order.
`AuditFits` says that what an audit found and what its dates still hold is what was
summed up, and `SumSplits` that a sum over dates is one date and the rest. Each
request has a lemma; `OneReaderSteps` shows that it leaves the other clients
alone, and `PipelineKeeps` that the pipeline leaves all of them as they fit.

`GatewayProofs` proves, for any clients, keys, payments, repeated requests and
ends of the process, from `GatewayAssumption` alone:

| Theorem | Says |
|---|---|
| `GatewayTypes` | the type invariant |
| `GatewayInvariant` | the inductive invariant `GatewayIInv` |
| `ClientsPayOnce`, `PaidPaymentsAreStored`, `RefusedRequestsArePaidNever` | the safety invariants of `gateway` |

What is told to clients is the copy of a response, possibly of a call given up
long ago. `GatewayIInv` says where truth sits on the way: the payments service
works with the key its client sent (`SentForClient`), what a request made or
found is in the ledger under that key (`PaymentIsOwn`), a response still in the
connection tells what was done (`ResponseIsTrue`), and a key names one payment
(`KeysNameOne`). `KeyPaysOnce` follows from the last two, whatever timed out. The
lemma `OwnRequest` says that a step about one request, in a ledger that forgets
nothing, leaves the others as they were; storing, responding, ending a call and
sending one have a lemma each.

`PodsProofs` proves, for any pods, workers, environments, calls and troubles,
from `PodsAssumption` alone, `PodsInvariant` and from it `PodsTypes`, `OneConsumer`
and `NobodyIsRestarted` (the safety properties of `pods`). The last is an action
property: the step that has a pod restarted finds all its workers held by
clients' calls, unless the database has hung since that pod started.
`OnlyHangsHoldProbes` is the invariant it needs: a probe holds a worker only of a
pod that ran while the database hung. The lemma `EndedPods` says that nothing but
a liveness probe that no worker answered ends a pod.

Every invariant and action property of the runs, and both refinements, are thus
theorems. Only model-checked are the properties under fairness (`FailedIsRequeued`,
 `EveryEventIsTried`, `RunsFinish`, `ServesAgain`,
`ProbesAreDecided`), since liveness and ENABLED are out of the prover's reach, and
the five claims, which are counterexamples. The model of the ledger that
`Reports` and `Gateway` are composed with is the abstract one; that the detailed
specification implements it is a theorem, but their product with it is not
written down as a module.

## 5. Not modelled

- The deployment library: `k8sDeploy.groovy` and its siblings call kubectl, docker
  and scanners one after the other and leave the waiting, the rollback and the
  retries to them; what could go wrong is in those tools.
- Terraform, Ansible, Prometheus, nginx: configuration without behaviour of its
  own. What Kubernetes manifests say of replicas, probes and restarts is the
  environment of the models.
- `logging.py`, `migrations/env.py`, the JSON error handlers, security and auditing
  configuration: no state. (`PROPAGATE_EXCEPTIONS` keeps the 500 handler of
  `app/__init__.py` from being used.)
- Texts of logs, mails and CSV reports, the format of references (a sequence over
  999 999 grows to seven digits), wall-clock time other than timeouts and backoff.

Hazards that are listed with no property: a payment whose creation event was
lost stays PENDING, since `findStalePendingPayments` has no caller; events of
transactions that roll back, against which the code does nothing; a run whose
worker was killed stays RUNNING, as nothing takes it up; the format of references; lines of
unknown payments, which the left join drops; 4xx answers, which the circuit counts
as failures.

## 6. Plan

Done: payments, consumer, reconciliation, readers, pods and gateway, each
modelled, checked and proved. To do, in this order:

1. The breaker's own statistics, with 4xx answers as failures of the circuit.
2. The deployment of a new version around `ServicePods` (rolling update, `preStop`,
   graceful shutdown).
