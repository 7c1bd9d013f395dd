--------------------------- MODULE PodsProperties ---------------------------
(***************************************************************************)
(* What the pods' configuration and probes are to achieve together.        *)
(***************************************************************************)
EXTENDS ServicePods

\* Type invariant of the pods; only a pod that runs is routed to, has busy
\* workers or a consumer thread.
PodsTypeOK ==
  /\ env \in [Pods -> SUBSET EnvVars]
  /\ up \in SUBSET Pods /\ ready \in SUBSET up /\ hung \in SUBSET up
  /\ worker \in [Pods -> [Workers -> {"free", "call", "probe"}]]
  /\ consumers \in [Pods -> Nat]
  /\ \A p \in Pods : p \notin up => worker[p] = AllFree /\ consumers[p] = 0
  /\ misses \in [Pods -> [live : 0..(FailureThreshold - 1), ready : 0..(FailureThreshold - 1)]]
  /\ database \in {"up", "refusing", "hanging"}
  /\ calls \in 0..MaxCalls /\ troubles \in 0..MaxTroubles

\* The workers of a pod do not multiply its consumers, however many of them are
\* killed and forked again: a pod is one member of the consumer group at most.
OneConsumerPerPod == \A p \in Pods : consumers[p] <= 1

\* A database that refuses connections makes pods unready and restarts none: at
\* the miss that has a pod restarted, each of its workers is held by a client's
\* call at that moment, or the database has hung since that pod was started.
RefusalRestartsNobody ==
  [][\A p \in up \ up' : p \in hung \/ \A w \in Workers : worker[p][w] = "call"]_vars

----------------------------------------------------------------------------
\* The inductive invariant behind the safety properties

\* A probe holds a worker only of a pod that ran while the database hung.
OnlyHangsHoldProbes ==
  /\ database = "hanging" => up \subseteq hung
  /\ \A p \in Pods \ hung, w \in Workers : worker[p][w] # "probe"

PodsIInv == PodsTypeOK /\ OneConsumerPerPod /\ OnlyHangsHoldProbes

----------------------------------------------------------------------------
\* Liveness

\* Once the database works for good, every pod that has its URL is ready for
\* good, whatever hung, was killed or restarted before, and without a consumer.
ServesAgain ==
  <>[](database = "up") =>
    \A p \in Pods : "DATABASE_URL" \in env[p] => <>[](p \in ready)
=============================================================================
