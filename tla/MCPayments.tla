----------------------------- MODULE MCPayments -----------------------------
(***************************************************************************)
(* Small instances of PaymentsService.  Two request threads on two         *)
(* replicas, each with its retry scheduler.                                *)
(***************************************************************************)
EXTENDS PaymentsClaims, TLC

CONSTANTS r1, r2, w1, w2, p1, p2, p3, k1, m1, frac, ref1, reason1, reason2, x1, x2

\* No payment has to wait for a UUID: the generator never runs out.
ASSUME EnoughIds == MaxCreates <= Cardinality(PaymentIds)

Home == (w1 :> r1) @@ (w2 :> r2)

\* One request thread: the schedulers are what races.
HomeOfOne == w1 :> r1

\* Both request threads on one replica: payment references cannot clash.
HomeOfBoth == (w1 :> r1) @@ (w2 :> r1)

\* One key, used with two payloads, one of which is an amount that its currency
\* cannot represent (JPY 0.50); a request without a key.
MCCreateRequests ==
  {[idempotencyKey |-> k1, payload |-> m] : m \in {m1, frac}}
    \cup {[idempotencyKey |-> Null, payload |-> m1]}

KeyedRequest == {[idempotencyKey |-> k1, payload |-> m1]}

PlainRequest == {[idempotencyKey |-> Null, payload |-> m1]}

Patch(status, ref, reason) ==
  [newStatus |-> status, clearingReference |-> ref, failureReason |-> reason]

\* Enough to exhaust a retry budget; a requeue by hand, a completion with its
\* reference, and a cancellation whose reason takes the place of a failure's,
\* under batches that read the failure.
FailRequests == {Patch("FAILED", Null, reason1), Patch("PENDING", Null, Null),
                 Patch("COMPLETED", ref1, Null), Patch("CANCELLED", Null, reason2)}

NoUpdates == {}

\* No property of the run tells one id or one suffix from another.
Names == Permutations({p1, p2, p3}) \cup Permutations({x1, x2})
=============================================================================
