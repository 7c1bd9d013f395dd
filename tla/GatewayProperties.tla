------------------------- MODULE GatewayProperties -------------------------
(***************************************************************************)
(* What the gateway and the payments service owe a client together, and    *)
(* one thing the repository says of the gateway that it does not do.       *)
(***************************************************************************)
EXTENDS Gateway

\* Type invariant of the gateway's state; every answer has a code.
GatewayTypeOK ==
  /\ ledger \in [PaymentIds -> [status : PaymentStatus \cup {Absent}, retries : Nat,
                                key : Keys \cup {Null}]]
  /\ acknowledged \subseteq (Keys \cup {Null}) \X PaymentIds
  /\ call \in [Requests -> [step : {"new", "waiting", "answered", "lost"},
                            code : Codes \cup {Null}, id : PaymentIds \cup {Null}]]
  /\ \A q \in Requests : call[q].step = "answered" <=> call[q].code # Null
  /\ upstream \in [Requests -> [step : {"none", "working", "answered"}, headers : Headers,
                                id : PaymentIds \cup {Null}, response : Codes \cup {Null}]]
  /\ breaker \in [state : {"closed", "open", "halfOpen"}, probe : BOOLEAN]
  /\ breaker.probe => breaker.state = "halfOpen"
  /\ exits \in 0..MaxExits

\* The payments that requests of client c have made or found.
PaidBy(c) == {upstream[q].id : q \in {p \in Requests : Client(p) = c}} \ {Null}

\* A client with a key pays once: however often it repeats its request -
\* after timeouts, blocked calls and lost connections, or while earlier ones
\* are still worked on - they are all about one payment.
KeyPaysOnce ==
  \A c \in Clients : KeyOf[c] # Null => \A a, b \in PaidBy(c) : a = b

\* A client answered 201 holds a payment: it is in the ledger, under the
\* client's key, and the payments service acknowledged it.
Stored(q) ==
  /\ call[q].id \in PaymentIds /\ Exists(call[q].id)
  /\ <<KeyOf[Client(q)], call[q].id>> \in acknowledged

PaidIsStored == \A q \in Requests : call[q].code = 201 => Stored(q)

\* A client that is refused (4xx) may forget the request: it made no payment
\* and will make none.  What may still be worked on is 502 or 503.
RefusedIsNotPaid ==
  \A q \in Requests : call[q].code \in {400, 403, 422} =>
    upstream[q].id = Null /\ upstream[q].step # "working"

----------------------------------------------------------------------------
\* The inductive invariant behind the safety properties

\* The payments service works on what was sent, with the key its client sent.
SentForClient(q) ==
  /\ upstream[q].step # "none" => upstream[q].headers.idempotencyKey = KeyOf[Client(q)]
  /\ call[q].step = "new" =>
       upstream[q].step = "none" /\ upstream[q].id = Null /\ upstream[q].response = Null

\* What a request made or found is in the ledger, under its client's key.
PaymentIsOwn(q) ==
  upstream[q].id # Null =>
    Exists(upstream[q].id) /\ ledger[upstream[q].id].key = KeyOf[Client(q)]

\* A response in the connection tells what was done.
ResponseIsTrue(q) ==
  /\ upstream[q].response # Null => upstream[q].step = "answered"
  /\ upstream[q].response = 201 =>
       upstream[q].id # Null /\ <<KeyOf[Client(q)], upstream[q].id>> \in acknowledged
  /\ upstream[q].response \in {400, 403, 422} => upstream[q].id = Null

RequestsFit == \A q \in Requests : SentForClient(q) /\ PaymentIsOwn(q) /\ ResponseIsTrue(q)

\* A key names one payment.
KeysNameOne ==
  \A a, b \in PaymentIds :
    (Exists(a) /\ Exists(b) /\ ledger[a].key # Null /\ ledger[a].key = ledger[b].key) => a = b

GatewayIInv ==
  GatewayTypeOK /\ RequestsFit /\ KeysNameOne /\ PaidIsStored /\ RefusedIsNotPaid

----------------------------------------------------------------------------
\* Liveness

\* The circuit is not stuck: once its probe is sent, a half-open circuit
\* closes or opens again although the probe may hang, be lost, or be
\* overtaken by calls older than it.
ProbesAreDecided ==
  (breaker.state = "halfOpen" /\ ~breaker.probe) ~> breaker.state # "halfOpen"

----------------------------------------------------------------------------
\* auth.js:42, "Forward user context to upstream services": no client whose
\* token and role were accepted here is forbidden there.
AcceptedIsNotForbidden == \A q \in Requests : call[q].code # 403
=============================================================================
