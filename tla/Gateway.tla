------------------------------ MODULE Gateway ------------------------------
(***************************************************************************)
(* One process of the gateway (gateway-service/src): calls to the payments *)
(* service behind one opossum circuit breaker, clients that repeat what    *)
(* was not answered, and timeouts that do not stop what they gave up on.   *)
(*                                                                         *)
(* The payments service is the ledger that PaymentsService implements; its *)
(* payments do not move here, as no call of the gateway moves one.  The    *)
(* breaker's library is external and modelled as the code configures it.   *)
(***************************************************************************)
EXTENDS PaymentLedger

CONSTANTS Clients,          \* callers with a token and a role that fits
          Readers,          \* those of them that GET; the others POST one payment
          KeyOf,            \* client -> the Idempotency-Key it sends, or Null
          Tries,            \* client -> bound on the requests it sends
          RequiresToken,    \* TRUE: SecurityConfig.java; FALSE: callers are trusted
          MaxExits          \* bound on ends of the process

VARIABLES
  call,      \* request -> what the gateway does with it
  upstream,  \* request -> what the payments service does with it
  breaker,   \* state of the circuit, and whether it lets one probe through
  exits

vars == <<ledger, acknowledged, call, upstream, breaker, exits>>

Requests == UNION {{c} \X (1..Tries[c]) : c \in Clients}

Client(q) == q[1]

----------------------------------------------------------------------------
\* Records.  Codes stand for their class where the gateway does not look
\* closer: 422 for any refusal, 500 for any failure that has a response.

Final == {200, 201, 400, 403, 422}     \* a client does not repeat these
Codes == Final \cup {500, 502, 503}

ASSUME GatewayAssumption ==
  /\ Readers \subseteq Clients
  /\ KeyOf \in [Clients -> Keys \cup {Null}] /\ Null \notin PaymentIds \cup Keys \cup Codes
  /\ Tries \in [Clients -> Nat]
  /\ RequiresToken \in BOOLEAN /\ MaxExits \in Nat

Headers == [idempotencyKey : Keys \cup {Null}, authorization : BOOLEAN]

\* Mutant of BuildHeaders: the key is not forwarded.
BuildHeadersWithoutKey(key) == [idempotencyKey |-> Null, authorization |-> FALSE]

\* buildHeaders: the key if there is one; of the caller's token and of the
\* x-user headers authenticate prepared, nothing.
BuildHeaders(key) == [idempotencyKey |-> key, authorization |-> FALSE]

NotCalled == [step |-> "new", code |-> Null, id |-> Null]
Waiting == [step |-> "waiting", code |-> Null, id |-> Null]
Answered(code, id) == [step |-> "answered", code |-> code, id |-> id]
Lost == [step |-> "lost", code |-> Null, id |-> Null]

NotSent == [step |-> "none", headers |-> BuildHeaders(Null), id |-> Null, response |-> Null]
Working(headers) == [step |-> "working", headers |-> headers, id |-> Null, response |-> Null]

Closed == [state |-> "closed", probe |-> FALSE]
Opened == [state |-> "open", probe |-> FALSE]
HalfOpen == [state |-> "halfOpen", probe |-> TRUE]

Init ==
  /\ LedgerInit
  /\ call = [q \in Requests |-> NotCalled]
  /\ upstream = [q \in Requests |-> NotSent]
  /\ breaker = Closed
  /\ exits = 0

----------------------------------------------------------------------------
\* The gateway

\* Mutant of MapUpstreamError: the response is used without a look if it is there.
MapMissingResponse(circuit, response) ==
  IF circuit.state = "open" THEN 503 ELSE response

\* Mutant of MapUpstreamError: a timeout is a 4xx (408).
MapTimeoutToClientError(circuit, response) ==
  IF circuit.state = "open" THEN 503 ELSE IF response = Null THEN 422 ELSE response

\* mapUpstreamError: the breaker is looked at first, as it is now, whatever
\* the service answered; an error without a response is 502.
MapUpstreamError(circuit, response) ==
  IF circuit.state = "open" THEN 503 ELSE IF response = Null THEN 502 ELSE response

\* CLIENT: its first request, or another one while it has no final answer -
\* also while it still waits.
MaySend(q) ==
  /\ call[q].step = "new"
  /\ \A n \in 1..(q[2] - 1) : LET p == <<Client(q), n>> IN
       call[p].step # "new" /\ call[p].code \notin Final

\* rateLimiter, authenticate, requireRole or validate end the request.
Reject(q) ==
  /\ MaySend(q)
  /\ call' = [call EXCEPT ![q] = Answered(400, Null)]
  /\ UNCHANGED <<ledger, acknowledged, upstream, breaker, exits>>

\* Mutant of Fire: the handler does not await the call.
FireUnawaited(q) ==
  /\ MaySend(q)
  /\ breaker.state = "closed" \/ breaker.probe
  /\ upstream' = [upstream EXCEPT ![q] = Working(BuildHeaders(KeyOf[Client(q)]))]
  /\ call' = [call EXCEPT ![q] = Answered(201, Null)]
  /\ breaker' = [breaker EXCEPT !.probe = FALSE]
  /\ UNCHANGED <<ledger, acknowledged, exits>>

\* paymentsBreaker.fire: the request is sent, by a closed circuit or as the
\* probe of a half-open one.
Fire(q) ==
  /\ MaySend(q)
  /\ breaker.state = "closed" \/ breaker.probe
  /\ upstream' = [upstream EXCEPT ![q] = Working(BuildHeaders(KeyOf[Client(q)]))]
  /\ call' = [call EXCEPT ![q] = Waiting]
  /\ breaker' = [breaker EXCEPT !.probe = FALSE]
  /\ UNCHANGED <<ledger, acknowledged, exits>>

\* paymentsBreaker.fire: "Breaker is open", an error without a response.
Block(q) ==
  /\ MaySend(q)
  /\ breaker.state # "closed" /\ ~breaker.probe
  /\ call' = [call EXCEPT ![q] = Answered(MapUpstreamError(breaker, Null), Null)]
  /\ UNCHANGED <<ledger, acknowledged, upstream, breaker, exits>>

\* The response, if there is one, is out of the connection.
Taken(q) == [upstream EXCEPT ![q].response = Null]

\* The call resolves: 201 or 200 with the body; a half-open circuit closes,
\* even if this call is older than it.
Succeed(q) ==
  /\ call[q].step = "waiting"
  /\ upstream[q].step = "answered" /\ upstream[q].response \in {200, 201}
  /\ call' = [call EXCEPT ![q] = Answered(upstream[q].response, upstream[q].id)]
  /\ breaker' = IF breaker.state = "halfOpen" THEN Closed ELSE breaker
  /\ upstream' = Taken(q)
  /\ UNCHANGED <<ledger, acknowledged, exits>>

\* A failure opens a half-open circuit.  It opens a closed one if more than
\* half of at least 5 calls of the last 10 seconds failed; as all traffic of
\* the process counts, either may be the case.  Then the error is mapped.
Fail(q, response) ==
  /\ call[q].step = "waiting"
  /\ breaker' \in {Opened} \cup (IF breaker.state = "closed" THEN {breaker} ELSE {})
  /\ call' = [call EXCEPT ![q] = Answered(MapUpstreamError(breaker', response), Null)]
  /\ upstream' = Taken(q)
  /\ UNCHANGED <<ledger, acknowledged, exits>>

\* axios rejects: a response that is not 2xx, or a broken connection.
UpstreamError(q) ==
  /\ upstream[q].step = "answered" /\ upstream[q].response \notin {200, 201}
  /\ Fail(q, upstream[q].response)

\* Mutant of TimeOut: neither axios nor the breaker has a timeout.
NoTimeout(q) == FALSE /\ Fail(q, Null)

\* 10 seconds, in axios or in the breaker.  The payments service works on.
TimeOut(q) == Fail(q, Null)

\* BREAKER: 30 seconds after it opened.
ResetTimeout ==
  /\ breaker.state = "open"
  /\ breaker' = HalfOpen
  /\ UNCHANGED <<ledger, acknowledged, call, upstream, exits>>

\* The process ends (a crash, or 30 seconds after SIGTERM with requests still
\* open) and another takes over.
Exit ==
  /\ exits < MaxExits
  /\ exits' = exits + 1
  /\ upstream' = [q \in Requests |-> [upstream[q] EXCEPT !.response = Null]]
  /\ call' = [q \in Requests |-> IF call[q].step = "waiting" THEN Lost ELSE call[q]]
  /\ breaker' = Closed
  /\ UNCHANGED <<ledger, acknowledged>>

----------------------------------------------------------------------------
\* The payments service, for one request; the gateway may be gone meanwhile

Works(q) == upstream[q].step = "working"

\* A response to a call the gateway gave up is dropped.
Responds(q, response) ==
  upstream' = [upstream EXCEPT
    ![q].step = "answered",
    ![q].response = IF call[q].step = "waiting" THEN response ELSE Null]

GatewayIdle == UNCHANGED <<call, breaker, exits>>

\* SecurityConfig: a request without a bearer token is forbidden.
Allowed(q) == RequiresToken => upstream[q].headers.authorization

\* Forbidden; or not, and refused (404, 422, ...) or failed with nothing stored.
Refuse(q) ==
  /\ Works(q) /\ upstream[q].id = Null
  /\ \E response \in (IF Allowed(q) THEN {422, 500} ELSE {403}) : Responds(q, response)
  /\ GatewayIdle /\ UNCHANGED ledgerVars

\* createPayment stores a payment, or finds the one its key names.
Store(q, id) ==
  /\ Works(q) /\ Allowed(q) /\ Client(q) \notin Readers /\ upstream[q].id = Null
  /\ \/ Open(id, upstream[q].headers.idempotencyKey)
     \/ /\ upstream[q].headers.idempotencyKey # Null
        /\ Exists(id) /\ ledger[id].key = upstream[q].headers.idempotencyKey
        /\ UNCHANGED ledgerVars
  /\ upstream' = [upstream EXCEPT ![q].id = id]
  /\ GatewayIdle

\* 201 for what was stored or found.
Acknowledge201(q) ==
  /\ Works(q) /\ upstream[q].id # Null
  /\ Acknowledge(upstream[q].headers.idempotencyKey, upstream[q].id)
  /\ Responds(q, 201)
  /\ GatewayIdle

\* A GET is answered.
Read(q) ==
  /\ Works(q) /\ Allowed(q) /\ Client(q) \in Readers
  /\ Responds(q, 200)
  /\ GatewayIdle /\ UNCHANGED ledgerVars

\* The replica or the connection breaks, at any point.
Break(q) ==
  /\ Works(q)
  /\ Responds(q, Null)
  /\ GatewayIdle /\ UNCHANGED ledgerVars

----------------------------------------------------------------------------
Next ==
  \/ \E q \in Requests :
       \/ Reject(q) \/ Fire(q) \/ Block(q)
       \/ Succeed(q) \/ UpstreamError(q) \/ TimeOut(q)
       \/ Refuse(q) \/ Acknowledge201(q) \/ Read(q) \/ Break(q)
       \/ \E id \in PaymentIds : Store(q, id)
  \/ ResetTimeout \/ Exit

Spec == Init /\ [][Next]_vars

\* Timers fire.  Nothing is assumed of clients or of the payments service.
FairSpec == Spec /\ WF_vars(ResetTimeout) /\ \A q \in Requests : WF_vars(TimeOut(q))
=============================================================================
