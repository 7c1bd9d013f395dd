---------------------------- MODULE GatewayProofs ----------------------------
(***************************************************************************)
(* Proofs about Gateway for every set of clients, keys and payments, any   *)
(* number of repeated requests and ends of the process: what clients are   *)
(* told agrees with what the payments service has done.                    *)
(***************************************************************************)
EXTENDS GatewayProperties, TLAPS

----------------------------------------------------------------------------
\* Types

\* A request is of a client.
LEMMA RequestClient ==
  ASSUME NEW q \in Requests
  PROVE  Client(q) \in Clients /\ KeyOf[Client(q)] \in Keys \cup {Null}
BY GatewayAssumption DEF Requests, Client, GatewayAssumption

\* What the code looks at in a record.
LEMMA RecordTypes ==
  /\ \A key \in Keys \cup {Null} : BuildHeaders(key) \in Headers
                                /\ BuildHeaders(key).idempotencyKey = key
  /\ \A circuit, response : MapUpstreamError(circuit, response) \in {response, 502, 503}
  /\ \A circuit : MapUpstreamError(circuit, Null) \in {502, 503}
BY DEF BuildHeaders, Headers, MapUpstreamError

\* The initial state satisfies the inductive invariant.
LEMMA GatewayInit == Init => GatewayIInv
<1> SUFFICES ASSUME Init PROVE GatewayIInv
  OBVIOUS
<1> USE GatewayAssumption DEF Init, LedgerInit, NotCalled, NotSent, Closed, GatewayAssumption
<1>1. BuildHeaders(Null) \in Headers
  BY RecordTypes
<1>2. GatewayTypeOK
  BY <1>1 DEF GatewayTypeOK, NoEntry
<1>3. RequestsFit
  BY DEF RequestsFit, SentForClient, PaymentIsOwn, ResponseIsTrue, Codes, Final
<1>4. KeysNameOne
  BY DEF KeysNameOne, Exists, NoEntry, Absent
<1>5. PaidIsStored /\ RefusedIsNotPaid
  BY DEF PaidIsStored, RefusedIsNotPaid, Codes, Final
<1> QED BY <1>2, <1>3, <1>4, <1>5 DEF GatewayIInv

----------------------------------------------------------------------------
\* The inductive step

\* A step about one request disturbs no other, as the ledger forgets nothing.
LEMMA OwnRequest ==
  ASSUME GatewayIInv, GatewayTypeOK', KeysNameOne', NEW q \in Requests,
         \A p \in Requests \ {q} : call'[p] = call[p] /\ upstream'[p] = upstream[p],
         \A id \in PaymentIds : Exists(id) => Exists(id)' /\ ledger'[id].key = ledger[id].key,
         acknowledged \subseteq acknowledged',
         SentForClient(q)' /\ PaymentIsOwn(q)' /\ ResponseIsTrue(q)',
         call'[q].code = 201 => Stored(q)',
         call'[q].code \in {400, 403, 422} =>
           upstream'[q].id = Null /\ upstream'[q].step # "working"
  PROVE  GatewayIInv'
<1> USE DEF GatewayIInv
<1>1. ASSUME NEW p \in Requests \ {q}
      PROVE  SentForClient(p)' /\ PaymentIsOwn(p)' /\ ResponseIsTrue(p)'
  <2>1. SentForClient(p) /\ PaymentIsOwn(p) /\ ResponseIsTrue(p)
    BY DEF RequestsFit
  <2>2. upstream[p].id \in PaymentIds \cup {Null} /\ call'[p] = call[p] /\ upstream'[p] = upstream[p]
    BY DEF GatewayTypeOK
  <2>3. SentForClient(p)' /\ ResponseIsTrue(p)'
    BY <2>1, <2>2 DEF SentForClient, ResponseIsTrue
  <2>4. PaymentIsOwn(p)'
    BY <2>1, <2>2 DEF PaymentIsOwn
  <2> QED BY <2>3, <2>4
<1>2. RequestsFit'
  BY <1>1 DEF RequestsFit
<1>3. PaidIsStored'
  <2>1. ASSUME NEW p \in Requests \ {q}, call'[p].code = 201 PROVE Stored(p)'
    BY <2>1 DEF PaidIsStored, Stored
  <2> QED BY <2>1 DEF PaidIsStored
<1>4. RefusedIsNotPaid'
  BY DEF RefusedIsNotPaid
<1> QED BY <1>2, <1>3, <1>4

\* What the invariant says of one request.
LEMMA OfRequest ==
  ASSUME GatewayIInv, NEW q \in Requests
  PROVE  /\ SentForClient(q) /\ PaymentIsOwn(q) /\ ResponseIsTrue(q)
         /\ call[q].step = "answered" <=> call[q].code # Null
         /\ call[q].code = 201 => Stored(q)
         /\ call[q].code \in {400, 403, 422} => upstream[q].id = Null /\ upstream[q].step # "working"
         /\ upstream[q] \in [step : {"none", "working", "answered"}, headers : Headers,
                             id : PaymentIds \cup {Null}, response : Codes \cup {Null}]
BY DEF GatewayIInv, RequestsFit, PaidIsStored, RefusedIsNotPaid, GatewayTypeOK

\* An answer has its type.
LEMMA AnswerTypes ==
  ASSUME GatewayTypeOK, NEW q \in Requests, NEW code \in Codes, NEW id \in PaymentIds \cup {Null},
         call' = [call EXCEPT ![q] = Answered(code, id)]
  PROVE  /\ call' \in [Requests -> [step : {"new", "waiting", "answered", "lost"},
                                    code : Codes \cup {Null}, id : PaymentIds \cup {Null}]]
         /\ \A p \in Requests : call'[p].step = "answered" <=> call'[p].code # Null
         /\ call'[q].step = "answered" /\ call'[q].code = code /\ call'[q].id = id
         /\ \A p \in Requests \ {q} : call'[p] = call[p]
BY GatewayAssumption DEF GatewayTypeOK, Answered, GatewayAssumption

\* A request that ends in the gateway, or is sent.
LEMMA SendKeeps ==
  ASSUME GatewayIInv, NEW q \in Requests, Reject(q) \/ Fire(q) \/ Block(q)
  PROVE  GatewayIInv'
<1>1. call[q].step = "new" /\ UNCHANGED <<ledger, acknowledged, exits>>
  BY DEF Reject, Fire, Block, MaySend
<1>2. /\ upstream[q].step = "none" /\ upstream[q].id = Null /\ upstream[q].response = Null
  BY <1>1, OfRequest DEF SentForClient
<1>3. KeysNameOne' /\ \A id : Exists(id)' = Exists(id)
  BY <1>1 DEF GatewayIInv, KeysNameOne, Exists
<1> DEFINE Unsent == {400, 502, 503}
           AnswersItself(code) == /\ call' = [call EXCEPT ![q] = Answered(code, Null)]
                                  /\ UNCHANGED <<upstream, breaker>>
<1>4. ASSUME NEW code \in Unsent, AnswersItself(code) PROVE GatewayIInv'
  <2>1. code \in Codes
    BY DEF Codes, Final
  <2>2. GatewayTypeOK'
    <3>1. GatewayTypeOK
      BY DEF GatewayIInv
    <3>2. /\ call' \in [Requests -> [step : {"new", "waiting", "answered", "lost"},
                                     code : Codes \cup {Null}, id : PaymentIds \cup {Null}]]
          /\ \A p \in Requests : call'[p].step = "answered" <=> call'[p].code # Null
      <4> DEFINE answer == Answered(code, Null)
      <4>1. /\ answer \in [step : {"new", "waiting", "answered", "lost"},
                           code : Codes \cup {Null}, id : PaymentIds \cup {Null}]
            /\ answer.step = "answered" /\ answer.code # Null
        BY <2>1, GatewayAssumption DEF Answered, GatewayAssumption
      <4>2. call' = [call EXCEPT ![q] = answer]
        BY <1>4
      <4> HIDE DEF answer
      <4> QED BY <3>1, <4>1, <4>2 DEF GatewayTypeOK
    <3> QED BY <1>1, <1>4, <3>1, <3>2 DEF GatewayTypeOK
  <2>3. call'[q].step = "answered" /\ call'[q].code = code
        /\ \A p \in Requests \ {q} : call'[p] = call[p]
    BY <1>4, <2>1 DEF GatewayIInv, GatewayTypeOK, Answered
  <2>4. SentForClient(q)' /\ PaymentIsOwn(q)' /\ ResponseIsTrue(q)'
    BY <1>2, <1>4, <2>3, GatewayAssumption
       DEF SentForClient, PaymentIsOwn, ResponseIsTrue, GatewayAssumption, Codes, Final
  <2> QED BY <1>1, <1>2, <1>3, <1>4, <2>2, <2>3, <2>4, OwnRequest
<1>5. CASE Reject(q)
  BY <1>4, <1>5 DEF Reject
<1>6. CASE Block(q)
  <2> DEFINE code == MapUpstreamError(breaker, Null)
  <2>1. code \in {502, 503}
    BY RecordTypes
  <2>2. call' = [call EXCEPT ![q] = Answered(code, Null)] /\ UNCHANGED <<upstream, breaker>>
    BY <1>6 DEF Block
  <2>3. code \in Unsent /\ AnswersItself(code)
    BY <2>1, <2>2
  <2> HIDE DEF code, Unsent, AnswersItself
  <2> QED BY <1>4, <2>3
<1>7. CASE Fire(q)
  <2> DEFINE key == KeyOf[Client(q)]
  <2>1. BuildHeaders(key) \in Headers /\ BuildHeaders(key).idempotencyKey = key
    BY RequestClient, RecordTypes
  <2>2. /\ call' = [call EXCEPT ![q] = Waiting]
        /\ upstream' = [upstream EXCEPT ![q] = Working(BuildHeaders(key))]
        /\ breaker' = [breaker EXCEPT !.probe = FALSE]
    BY <1>7 DEF Fire
  <2> HIDE DEF key
  <2>3. /\ call'[q] = Waiting /\ upstream'[q] = Working(BuildHeaders(key))
        /\ \A p \in Requests \ {q} : call'[p] = call[p] /\ upstream'[p] = upstream[p]
    BY <2>2 DEF GatewayIInv, GatewayTypeOK
  <2>4. /\ Waiting.step = "waiting" /\ Waiting.code = Null
        /\ upstream'[q].step = "working" /\ upstream'[q].id = Null /\ upstream'[q].response = Null
        /\ upstream'[q].headers.idempotencyKey = key
    BY <2>1, <2>3 DEF Waiting, Working
  <2>5. GatewayTypeOK'
    BY <1>1, <2>1, <2>2 DEF GatewayIInv, GatewayTypeOK, Waiting, Working
  <2>6. SentForClient(q)' /\ PaymentIsOwn(q)' /\ ResponseIsTrue(q)'
    BY <2>3, <2>4, GatewayAssumption
       DEF SentForClient, PaymentIsOwn, ResponseIsTrue, GatewayAssumption, Codes, Final, key
  <2>7. call'[q].code \notin {201, 400, 403, 422}
    BY <2>3, <2>4, GatewayAssumption DEF GatewayAssumption, Codes, Final
  <2> QED BY <1>1, <1>3, <2>3, <2>5, <2>6, <2>7, OwnRequest
<1> QED BY <1>5, <1>6, <1>7

\* A call ends: its client is told this code and id, and not more than the
\* service answered.
EndsWith(q, code, id) ==
  /\ code \in Codes /\ id \in PaymentIds \cup {Null}
  /\ call[q].step = "waiting" /\ UNCHANGED <<ledger, acknowledged, exits>>
  /\ upstream' = Taken(q) /\ breaker' \in {breaker, Opened, Closed}
  /\ call' = [call EXCEPT ![q] = Answered(code, id)]
  /\ code = 201 => upstream[q].response = 201 /\ id = upstream[q].id
  /\ code \in {400, 403, 422} => upstream[q].response = code

\* A call that ends with what the service did.
LEMMA AnswerKeeps ==
  ASSUME GatewayIInv, NEW q \in Requests, NEW code, NEW id, EndsWith(q, code, id)
  PROVE  GatewayIInv'
<1> USE DEF EndsWith
<1>2. KeysNameOne' /\ \A other : Exists(other)' = Exists(other)
  BY DEF GatewayIInv, KeysNameOne, Exists
<1>3. /\ upstream'[q].step = upstream[q].step /\ upstream'[q].id = upstream[q].id
      /\ upstream'[q].headers = upstream[q].headers /\ upstream'[q].response = Null
      /\ \A p \in Requests \ {q} : upstream'[p] = upstream[p]
  BY OfRequest DEF Taken, GatewayIInv, GatewayTypeOK
<1>5. /\ call'[q].step = "answered" /\ call'[q].code = code /\ call'[q].id = id
      /\ \A p \in Requests \ {q} : call'[p] = call[p]
  BY DEF GatewayIInv, GatewayTypeOK, Answered
<1>6. GatewayTypeOK'
  <2>1. upstream' \in [Requests -> [step : {"none", "working", "answered"}, headers : Headers,
                        id : PaymentIds \cup {Null}, response : Codes \cup {Null}]]
    BY DEF Taken, GatewayIInv, GatewayTypeOK
  <2>2. /\ breaker' \in [state : {"closed", "open", "halfOpen"}, probe : BOOLEAN]
        /\ breaker'.probe => breaker'.state = "halfOpen"
    <3>2. /\ breaker \in [state : {"closed", "open", "halfOpen"}, probe : BOOLEAN]
          /\ breaker.probe => breaker.state = "halfOpen"
      BY DEF GatewayIInv, GatewayTypeOK
    <3>3. CASE breaker' = breaker
      BY <3>2, <3>3
    <3>4. CASE breaker' \in {Opened, Closed}
      <4>1. /\ Opened.probe = FALSE /\ Closed.probe = FALSE
            /\ Opened.state \in {"closed", "open", "halfOpen"}
            /\ Closed.state \in {"closed", "open", "halfOpen"}
        BY DEF Opened, Closed
      <4>3. /\ Opened \in [state : {"closed", "open", "halfOpen"}, probe : BOOLEAN]
            /\ Closed \in [state : {"closed", "open", "halfOpen"}, probe : BOOLEAN]
        BY DEF Opened, Closed
      <4> QED BY <3>4, <4>1, <4>3
    <3> QED BY <3>3, <3>4
  <2> QED BY <2>1, <2>2, AnswerTypes DEF GatewayIInv, GatewayTypeOK
<1>7. SentForClient(q)' /\ PaymentIsOwn(q)' /\ ResponseIsTrue(q)'
  <2>1. SentForClient(q)'
    BY <1>3, <1>5, OfRequest DEF SentForClient
  <2>2. PaymentIsOwn(q)'
    BY <1>2, <1>3, OfRequest DEF PaymentIsOwn
  <2>3. ResponseIsTrue(q)'
    BY <1>3, GatewayAssumption DEF ResponseIsTrue, GatewayAssumption, Codes, Final
  <2> QED BY <2>1, <2>2, <2>3
<1>8. code = 201 => Stored(q)'
  <2>1. ResponseIsTrue(q) /\ PaymentIsOwn(q) /\ upstream[q].id \in PaymentIds \cup {Null}
    BY OfRequest
  <2> QED BY <1>2, <1>5, <2>1 DEF ResponseIsTrue, PaymentIsOwn, Stored
<1>9. code \in {400, 403, 422} => upstream'[q].id = Null /\ upstream'[q].step # "working"
  <2>1. ResponseIsTrue(q)
    BY OfRequest
  <2>2. Null \notin {400, 403, 422}
    BY GatewayAssumption DEF GatewayAssumption, Codes, Final
  <2> QED BY <1>3, <2>1, <2>2 DEF ResponseIsTrue
<1> QED BY <1>2, <1>3, <1>5, <1>6, <1>7, <1>8, <1>9, OwnRequest

\* A call that resolves, or fails, tells the client what the service did.
LEMMA EndKeeps ==
  ASSUME GatewayIInv, NEW q \in Requests, Succeed(q) \/ UpstreamError(q) \/ TimeOut(q)
  PROVE  GatewayIInv'
<1>1. /\ call[q].step = "waiting" /\ UNCHANGED <<ledger, acknowledged, exits>>
      /\ upstream' = Taken(q) /\ breaker' \in {breaker, Opened, Closed}
  BY DEF Succeed, UpstreamError, TimeOut, Fail
<1>2. CASE Succeed(q)
  <2> DEFINE c == upstream[q].response
             i == upstream[q].id
  <2>1. /\ c \in {200, 201} /\ i \in PaymentIds \cup {Null} /\ c = upstream[q].response
        /\ i = upstream[q].id /\ call' = [call EXCEPT ![q] = Answered(c, i)]
    BY <1>2, OfRequest DEF Succeed
  <2> HIDE DEF c, i
  <2>2. /\ c \in Codes /\ i \in PaymentIds \cup {Null}
        /\ call' = [call EXCEPT ![q] = Answered(c, i)]
        /\ c = 201 => upstream[q].response = 201 /\ i = upstream[q].id
        /\ c \in {400, 403, 422} => upstream[q].response = c
    BY <2>1 DEF Codes, Final
  <2>3. EndsWith(q, c, i)
    BY <1>1, <2>2 DEF EndsWith
  <2> QED BY <2>3, AnswerKeeps
<1>3. ASSUME NEW response \in Codes \cup {Null}, response # 201, Fail(q, response),
             response \in {400, 403, 422} => upstream[q].response = response
      PROVE  GatewayIInv'
  <2> DEFINE code == MapUpstreamError(breaker', response)
  <2>1. code \in {response, 502, 503} /\ (response = Null => code \in {502, 503})
    BY RecordTypes
  <2>2. code \in Codes
    BY <1>3, <2>1 DEF Codes, Final
  <2>3. call' = [call EXCEPT ![q] = Answered(code, Null)]
    BY <1>3 DEF Fail
  <2> HIDE DEF code
  <2>4. Null \notin {400, 403, 422}
    BY GatewayAssumption DEF GatewayAssumption, Codes, Final
  <2>5. code # 201 /\ (code \in {400, 403, 422} => upstream[q].response = code)
    BY <1>3, <2>1, <2>4
  <2>6. EndsWith(q, code, Null)
    BY <1>1, <2>2, <2>3, <2>5 DEF EndsWith
  <2> QED BY <2>6, AnswerKeeps
<1>4. CASE UpstreamError(q)
  <2>1. upstream[q].response \in Codes \cup {Null}
    BY OfRequest
  <2> QED BY <1>3, <1>4, <2>1 DEF UpstreamError
<1>5. CASE TimeOut(q)
  <2>1. Null \notin {201, 400, 403, 422}
    BY GatewayAssumption DEF GatewayAssumption, Codes, Final
  <2> QED BY <1>3, <1>5, <2>1 DEF TimeOut
<1> QED BY <1>2, <1>4, <1>5

\* A step of the payments service that gives no client anything.
LEMMA RespondKeeps ==
  ASSUME GatewayIInv, NEW q \in Requests, Works(q),
         NEW response \in Codes \cup {Null}, Responds(q, response),
         GatewayIdle,
         ledger' = ledger, acknowledged \subseteq acknowledged',
         acknowledged' \subseteq (Keys \cup {Null}) \X PaymentIds,
         response = 201 =>
           upstream[q].id # Null /\ <<KeyOf[Client(q)], upstream[q].id>> \in acknowledged',
         response \in {400, 403, 422} => upstream[q].id = Null
  PROVE  GatewayIInv'
<1>1. KeysNameOne' /\ \A id : Exists(id)' = Exists(id)
  BY DEF GatewayIInv, KeysNameOne, Exists
<1>0. Null \notin {201, 400, 403, 422}
  BY GatewayAssumption DEF GatewayAssumption, Codes, Final
<1>2. PICK r \in {response, Null} : upstream' = [upstream EXCEPT ![q].step = "answered", ![q].response = r]
  BY DEF Responds
<1>3. /\ upstream'[q].step = "answered" /\ upstream'[q].response = r
      /\ upstream'[q].id = upstream[q].id /\ upstream'[q].headers = upstream[q].headers
      /\ \A p \in Requests \ {q} : upstream'[p] = upstream[p]
      /\ UNCHANGED <<call, breaker, exits>>
  BY <1>2 DEF GatewayIInv, GatewayTypeOK, GatewayIdle
<1>4. GatewayTypeOK'
  <2>1. upstream' \in [Requests -> [step : {"none", "working", "answered"}, headers : Headers,
                        id : PaymentIds \cup {Null}, response : Codes \cup {Null}]]
    <3> DEFINE T == [step : {"none", "working", "answered"}, headers : Headers,
                     id : PaymentIds \cup {Null}, response : Codes \cup {Null}]
               m == [upstream EXCEPT ![q].step = "answered"]
    <3>1. upstream \in [Requests -> T]
      BY DEF GatewayIInv, GatewayTypeOK
    <3>2. m \in [Requests -> T]
      BY <3>1
    <3>3. r \in Codes \cup {Null}
      BY <1>2
    <3>4. upstream' = [m EXCEPT ![q].response = r]
      BY <1>2, Zenon
    <3> HIDE DEF m
    <3> QED BY <3>2, <3>3, <3>4
  <2> QED BY <1>3, <2>1 DEF GatewayIInv, GatewayTypeOK
<1>6. SentForClient(q)' /\ PaymentIsOwn(q)' /\ ResponseIsTrue(q)'
  <2>1. SentForClient(q)'
    BY <1>3, OfRequest DEF SentForClient, Works
  <2>2. PaymentIsOwn(q)'
    BY <1>1, <1>3, OfRequest DEF PaymentIsOwn
  <2>3. ResponseIsTrue(q)'
    BY <1>0, <1>3 DEF ResponseIsTrue
  <2> QED BY <2>1, <2>2, <2>3
<1>7. call'[q].code = 201 => Stored(q)'
  BY <1>1, <1>3, OfRequest DEF Stored
<1>8. call'[q].code \notin {400, 403, 422}
  BY <1>3, OfRequest DEF Works
<1> QED BY <1>1, <1>3, <1>4, <1>6, <1>7, <1>8, OwnRequest

\* Storing: the ledger admits one payment of a key.
LEMMA StoreKeeps ==
  ASSUME GatewayIInv, NEW q \in Requests, NEW id \in PaymentIds, Store(q, id)
  PROVE  GatewayIInv'
<1> DEFINE key == KeyOf[Client(q)]
<1>1. upstream[q].step = "working" /\ upstream[q].headers.idempotencyKey = key
      /\ key \in Keys \cup {Null}
  BY OfRequest, RequestClient DEF Store, Works, SentForClient
<1>2. UNCHANGED <<acknowledged, call, breaker, exits>>
  BY DEF Store, Open, ledgerVars, GatewayIdle
<1> HIDE DEF key
<1>3. \/ /\ ~Exists(id)
         /\ key # Null => \A other \in PaymentIds : Exists(other) => ledger[other].key # key
         /\ ledger' = [ledger EXCEPT ![id] = [status |-> "PENDING", retries |-> 0, key |-> key]]
      \/ /\ key # Null /\ Exists(id) /\ ledger[id].key = key
         /\ ledger' = ledger
  BY <1>1 DEF Store, Open, ledgerVars
<1>4. /\ upstream'[q].step = "working" /\ upstream'[q].id = id
      /\ upstream'[q].response = upstream[q].response /\ upstream'[q].headers = upstream[q].headers
      /\ \A p \in Requests \ {q} : upstream'[p] = upstream[p]
  BY <1>1 DEF Store, GatewayIInv, GatewayTypeOK
<1>5. /\ \A other \in PaymentIds : Exists(other) =>
           Exists(other)' /\ ledger'[other].key = ledger[other].key
      /\ Exists(id)' /\ ledger'[id].key = key
      /\ \A other \in PaymentIds \ {id} : ledger'[other] = ledger[other]
  BY <1>3 DEF GatewayIInv, GatewayTypeOK, Exists, Absent
<1>6. KeysNameOne'
  <2>1. CASE ledger' = ledger
    BY <2>1 DEF GatewayIInv, KeysNameOne, Exists
  <2>2. CASE key # Null => \A other \in PaymentIds : Exists(other) => ledger[other].key # key
    BY <1>5, <2>2 DEF GatewayIInv, KeysNameOne, Exists
  <2> QED BY <1>3, <2>1, <2>2
<1>7. GatewayTypeOK'
  <2>1. ledger' \in [PaymentIds -> [status : PaymentStatus \cup {Absent}, retries : Nat,
                                   key : Keys \cup {Null}]]
    BY <1>1, <1>3 DEF GatewayIInv, GatewayTypeOK, PaymentStatus
  <2>2. upstream' \in [Requests -> [step : {"none", "working", "answered"}, headers : Headers,
                        id : PaymentIds \cup {Null}, response : Codes \cup {Null}]]
    <3>1. upstream' = [upstream EXCEPT ![q].id = id]
      BY DEF Store
    <3> QED BY <3>1 DEF GatewayIInv, GatewayTypeOK
  <2> QED BY <1>2, <2>1, <2>2 DEF GatewayIInv, GatewayTypeOK
<1>8. SentForClient(q)' /\ PaymentIsOwn(q)' /\ ResponseIsTrue(q)'
  <2>1. SentForClient(q)'
    BY <1>1, <1>2, <1>4, OfRequest DEF SentForClient, key
  <2>2. PaymentIsOwn(q)'
    BY <1>4, <1>5 DEF PaymentIsOwn, key
  <2>3. upstream[q].response = Null /\ Null \notin {201, 400, 403, 422}
    <3>1. ResponseIsTrue(q)
      BY OfRequest
    <3> QED BY <1>1, <3>1, GatewayAssumption
            DEF ResponseIsTrue, GatewayAssumption, Codes, Final
  <2>4. ResponseIsTrue(q)'
    BY <1>4, <2>3 DEF ResponseIsTrue
  <2> QED BY <2>1, <2>2, <2>4
<1>9. call'[q].code = 201 => Stored(q)'
  BY <1>2, <1>5, OfRequest DEF Stored
<1>10. call'[q].code \notin {400, 403, 422}
  BY <1>1, <1>2, OfRequest
<1> QED BY <1>2, <1>4, <1>5, <1>6, <1>7, <1>8, <1>9, <1>10, OwnRequest

\* The payments service answers, or breaks.
LEMMA UpstreamKeeps ==
  ASSUME GatewayIInv, NEW q \in Requests,
         Refuse(q) \/ Acknowledge201(q) \/ Read(q) \/ Break(q)
  PROVE  GatewayIInv'
<1>0. acknowledged \subseteq (Keys \cup {Null}) \X PaymentIds
  BY DEF GatewayIInv, GatewayTypeOK
<1>1. CASE Refuse(q)
  <2>1. PICK response : response \in {403, 422, 500} /\ Responds(q, response)
    BY <1>1 DEF Refuse
  <2>2. response \in Codes \cup {Null} /\ response # 201 /\ Responds(q, response)
    BY <2>1 DEF Codes, Final
  <2>3. /\ Works(q) /\ upstream[q].id = Null /\ GatewayIdle /\ ledger' = ledger
        /\ acknowledged \subseteq acknowledged'
        /\ acknowledged' \subseteq (Keys \cup {Null}) \X PaymentIds
    BY <1>0, <1>1 DEF Refuse, ledgerVars
  <2> QED BY <2>2, <2>3, RespondKeeps
<1>2. CASE Acknowledge201(q)
  <2>1. upstream[q].headers.idempotencyKey = KeyOf[Client(q)] /\ Works(q)
        /\ KeyOf[Client(q)] \in Keys \cup {Null} /\ upstream[q].id \in PaymentIds
    BY <1>2, OfRequest, RequestClient DEF Acknowledge201, Works, SentForClient
  <2>2. /\ acknowledged' = acknowledged \cup {<<KeyOf[Client(q)], upstream[q].id>>}
        /\ ledger' = ledger
    BY <1>2, <2>1 DEF Acknowledge201, Acknowledge
  <2>3. acknowledged' \subseteq (Keys \cup {Null}) \X PaymentIds
    BY <1>0, <2>1, <2>2
  <2>4. /\ Works(q) /\ GatewayIdle /\ upstream[q].id # Null /\ ledger' = ledger
        /\ <<KeyOf[Client(q)], upstream[q].id>> \in acknowledged'
        /\ acknowledged \subseteq acknowledged'
    BY <1>2, <2>1, <2>2 DEF Acknowledge201
  <2> DEFINE response == 201
  <2>5. /\ response \in Codes \cup {Null} /\ Responds(q, response)
        /\ response \notin {400, 403, 422}
    BY <1>2 DEF Acknowledge201, Codes, Final
  <2> HIDE DEF response
  <2> QED BY <2>3, <2>4, <2>5, RespondKeeps
<1>3. CASE Read(q)
  <2>1. /\ 200 \in Codes \cup {Null} /\ Works(q) /\ Responds(q, 200) /\ GatewayIdle
        /\ ledger' = ledger /\ acknowledged' = acknowledged
    BY <1>3 DEF Read, ledgerVars, Codes, Final
  <2> DEFINE response == 200
  <2>2. /\ response \in Codes \cup {Null} /\ Responds(q, response)
        /\ response # 201 /\ response \notin {400, 403, 422}
    BY <2>1
  <2>3. /\ Works(q) /\ GatewayIdle /\ ledger' = ledger /\ acknowledged \subseteq acknowledged'
        /\ acknowledged' \subseteq (Keys \cup {Null}) \X PaymentIds
    BY <1>0, <2>1
  <2> HIDE DEF response
  <2> QED BY <2>2, <2>3, RespondKeeps
<1>4. CASE Break(q)
  <2>1. /\ Null \in Codes \cup {Null} /\ Works(q) /\ Responds(q, Null) /\ GatewayIdle
        /\ ledger' = ledger /\ acknowledged' = acknowledged
        /\ Null \notin {201, 400, 403, 422}
    BY <1>4, GatewayAssumption DEF Break, ledgerVars, GatewayAssumption, Codes, Final
  <2> QED BY <1>0, <2>1, RespondKeeps
<1> QED BY <1>1, <1>2, <1>3, <1>4

\* The end of a process loses what waits, and nothing else.
LEMMA ExitKeeps ==
  ASSUME GatewayIInv, Exit
  PROVE  GatewayIInv'
<1>1. UNCHANGED <<ledger, acknowledged>>
  BY DEF Exit
<1>2. \A q \in Requests :
        /\ upstream'[q].step = upstream[q].step /\ upstream'[q].id = upstream[q].id
        /\ upstream'[q].headers = upstream[q].headers /\ upstream'[q].response = Null
        /\ call'[q] = Lost \/ call'[q] = call[q]
  BY DEF Exit, GatewayIInv, GatewayTypeOK
<1>3. Null \notin {201, 400, 403, 422} /\ Lost.step = "lost" /\ Lost.code = Null
  BY GatewayAssumption DEF GatewayAssumption, Codes, Final, Lost
<1>4. KeysNameOne' /\ \A id : Exists(id)' = Exists(id)
  BY <1>1 DEF GatewayIInv, KeysNameOne, Exists
<1>5. GatewayTypeOK'
  <2>1. upstream' \in [Requests -> [step : {"none", "working", "answered"}, headers : Headers,
                        id : PaymentIds \cup {Null}, response : Codes \cup {Null}]]
    BY DEF Exit, GatewayIInv, GatewayTypeOK
  <2>2. call' \in [Requests -> [step : {"new", "waiting", "answered", "lost"},
                                code : Codes \cup {Null}, id : PaymentIds \cup {Null}]]
        /\ \A q \in Requests : call'[q].step = "answered" <=> call'[q].code # Null
    BY DEF Exit, Lost, GatewayIInv, GatewayTypeOK
  <2>3. breaker' \in [state : {"closed", "open", "halfOpen"}, probe : BOOLEAN]
        /\ (breaker'.probe => breaker'.state = "halfOpen")
    BY DEF Exit, Closed
  <2>4. exits' \in 0..MaxExits
    BY GatewayAssumption DEF Exit, GatewayAssumption, GatewayIInv, GatewayTypeOK
  <2> QED BY <1>1, <2>1, <2>2, <2>3, <2>4 DEF GatewayIInv, GatewayTypeOK
<1>6. ASSUME NEW q \in Requests
      PROVE  SentForClient(q)' /\ PaymentIsOwn(q)' /\ ResponseIsTrue(q)'
  BY <1>1, <1>2, <1>3, <1>4, OfRequest DEF SentForClient, PaymentIsOwn, ResponseIsTrue
<1>7. RequestsFit'
  BY <1>6 DEF RequestsFit
<1>8. PaidIsStored'
  <2>1. ASSUME NEW q \in Requests, call'[q].code = 201 PROVE Stored(q)'
    BY <1>1, <1>2, <1>3, <1>4, <2>1, OfRequest DEF Stored
  <2> QED BY <2>1 DEF PaidIsStored
<1>9. RefusedIsNotPaid'
  BY <1>2, <1>3, OfRequest DEF RefusedIsNotPaid
<1> QED BY <1>4, <1>5, <1>7, <1>8, <1>9 DEF GatewayIInv

\* What changes nothing but the breaker preserves the invariant.
LEMMA BreakerKeeps ==
  ASSUME GatewayIInv, ResetTimeout \/ UNCHANGED vars
  PROVE  GatewayIInv'
<1>1. UNCHANGED <<ledger, acknowledged, call, upstream, exits>>
      /\ (breaker' = HalfOpen \/ breaker' = breaker)
  BY DEF ResetTimeout, vars
<1>2. \A id : Exists(id)' = Exists(id)
  BY <1>1 DEF Exists
<1>3. GatewayTypeOK'
  <2>1. CASE breaker' = HalfOpen
    BY <1>1, <2>1 DEF HalfOpen, GatewayIInv, GatewayTypeOK
  <2>2. CASE breaker' = breaker
    BY <1>1, <2>2 DEF GatewayIInv, GatewayTypeOK
  <2> QED BY <1>1, <2>1, <2>2
<1>4. RequestsFit' /\ KeysNameOne' /\ PaidIsStored' /\ RefusedIsNotPaid'
  BY <1>1, <1>2 DEF GatewayIInv, RequestsFit, SentForClient, PaymentIsOwn, ResponseIsTrue,
                    KeysNameOne, PaidIsStored, Stored, RefusedIsNotPaid
<1> QED BY <1>3, <1>4 DEF GatewayIInv

\* The invariant is inductive.
LEMMA GatewayStep == GatewayIInv /\ [Next]_vars => GatewayIInv'
BY SendKeeps, EndKeeps, StoreKeeps, UpstreamKeeps, ExitKeeps, BreakerKeeps DEF Next

----------------------------------------------------------------------------
\* The theorems

\* The inductive invariant holds of every execution of the gateway.
THEOREM GatewayInvariant == Spec => []GatewayIInv
BY GatewayInit, GatewayStep, PTL DEF Spec

\* The gateway's state keeps its type: every answer has a code.
THEOREM GatewayTypes == Spec => []GatewayTypeOK
<1>1. GatewayIInv => GatewayTypeOK
  BY DEF GatewayIInv
<1> QED BY <1>1, GatewayInvariant, PTL

\* A client with a key pays once, however often it repeats its request.
THEOREM ClientsPayOnce == Spec => []KeyPaysOnce
<1>1. ASSUME GatewayIInv PROVE KeyPaysOnce
  <2>1. SUFFICES ASSUME NEW c \in Clients, KeyOf[c] # Null, NEW a \in PaidBy(c), NEW b \in PaidBy(c)
                 PROVE  a = b
    BY DEF KeyPaysOnce
  <2>2. PICK p \in Requests : a = upstream[p].id /\ a # Null /\ Client(p) = c
    BY DEF PaidBy
  <2>3. PICK q \in Requests : b = upstream[q].id /\ b # Null /\ Client(q) = c
    BY DEF PaidBy
  <2>4. a \in PaymentIds /\ b \in PaymentIds
    BY <1>1, <2>2, <2>3, OfRequest
  <2>5. Exists(a) /\ Exists(b) /\ ledger[a].key = KeyOf[c] /\ ledger[b].key = KeyOf[c]
    BY <1>1, <2>2, <2>3, OfRequest DEF PaymentIsOwn
  <2> QED BY <1>1, <2>1, <2>4, <2>5 DEF GatewayIInv, KeysNameOne
<1> QED BY <1>1, GatewayInvariant, PTL

\* A client answered 201 holds an acknowledged payment of its key.
THEOREM PaidPaymentsAreStored == Spec => []PaidIsStored
<1>1. GatewayIInv => PaidIsStored
  BY DEF GatewayIInv
<1> QED BY <1>1, GatewayInvariant, PTL

\* A client answered 4xx made no payment, and will make none.
THEOREM RefusedRequestsArePaidNever == Spec => []RefusedIsNotPaid
<1>1. GatewayIInv => RefusedIsNotPaid
  BY DEF GatewayIInv
<1> QED BY <1>1, GatewayInvariant, PTL
=============================================================================
