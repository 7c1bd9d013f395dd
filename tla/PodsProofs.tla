----------------------------- MODULE PodsProofs -----------------------------
(***************************************************************************)
(* Proofs about ServicePods for any number of pods and workers, any        *)
(* environment, and any number of calls and troubles: what the probes and  *)
(* the preloaded application rule out.                                     *)
(***************************************************************************)
EXTENDS PodsProperties, TLAPS

----------------------------------------------------------------------------
\* A counter of failed probes, below the threshold.
Misses == [live : 0..(FailureThreshold - 1), ready : 0..(FailureThreshold - 1)]

\* A probe that succeeds resets its counter, one that fails adds to it.
LEMMA MissesStay ==
  ASSUME NEW m \in [Pods -> Misses], NEW p \in Pods, NEW new,
         \/ new = [m EXCEPT ![p].live = 0]
         \/ new = [m EXCEPT ![p].ready = 0]
         \/ m[p].live + 1 < FailureThreshold /\ new = [m EXCEPT ![p].live = @ + 1]
         \/ m[p].ready + 1 < FailureThreshold /\ new = [m EXCEPT ![p].ready = @ + 1]
         \/ new = m
  PROVE  new \in [Pods -> Misses]
<1>1. FailureThreshold \in Nat \ {0} /\ 0 \in 0..(FailureThreshold - 1)
  BY PodsAssumption DEF PodsAssumption
<1>2. m[p].live \in 0..(FailureThreshold - 1) /\ m[p].ready \in 0..(FailureThreshold - 1)
  BY DEF Misses
<1>3. /\ m[p].live + 1 < FailureThreshold => m[p].live + 1 \in 0..(FailureThreshold - 1)
      /\ m[p].ready + 1 < FailureThreshold => m[p].ready + 1 \in 0..(FailureThreshold - 1)
  BY <1>1, <1>2
<1>4. ASSUME NEW n \in 0..(FailureThreshold - 1),
             new = [m EXCEPT ![p].live = n] \/ new = [m EXCEPT ![p].ready = n]
      PROVE  new \in [Pods -> Misses]
  BY <1>4 DEF Misses
<1> QED BY <1>1, <1>3, <1>4

\* The initial state satisfies the inductive invariant.
LEMMA PodsInit == Init => PodsIInv
<1> SUFFICES ASSUME Init PROVE PodsIInv
  OBVIOUS
<1> USE PodsAssumption DEF PodsAssumption
<1>1. PodsTypeOK
  <2>1. NoMisses \in [live : 0..(FailureThreshold - 1), ready : 0..(FailureThreshold - 1)]
    BY DEF NoMisses
  <2>2. AllFree \in [Workers -> {"free", "call", "probe"}]
    BY DEF AllFree
  <2>3. /\ misses = [p \in Pods |-> NoMisses] /\ worker = [p \in Pods |-> AllFree]
        /\ consumers = [p \in Pods |-> 0]
    BY DEF Init
  <2>4. /\ misses \in [Pods -> [live : 0..(FailureThreshold - 1), ready : 0..(FailureThreshold - 1)]]
        /\ worker \in [Pods -> [Workers -> {"free", "call", "probe"}]]
        /\ \A p \in Pods : worker[p] = AllFree /\ consumers[p] = 0
    BY <2>1, <2>2, <2>3
  <2>5. /\ calls \in 0..MaxCalls /\ troubles \in 0..MaxTroubles
        /\ up = {} /\ ready = {} /\ hung = {} /\ database = "up"
        /\ env \in [Pods -> SUBSET EnvVars] /\ consumers \in [Pods -> Nat]
    <3>1. 0 \in 0..MaxCalls /\ 0 \in 0..MaxTroubles /\ 0 \in Nat
      OBVIOUS
    <3> QED BY <3>1 DEF Init
  <2> QED BY <2>4, <2>5 DEF PodsTypeOK
<1>2. OneConsumerPerPod
  BY DEF Init, OneConsumerPerPod
<1>3. OnlyHangsHoldProbes
  BY DEF Init, OnlyHangsHoldProbes, AllFree
<1> QED BY <1>1, <1>2, <1>3 DEF PodsIInv

----------------------------------------------------------------------------
\* The inductive step

\* A pod starts: its application runs one consumer at most.
LEMMA BootKeeps ==
  ASSUME PodsIInv, NEW p \in Pods, Boot(p)
  PROVE  PodsIInv'
<1>1. PICK n \in {0, 1} : consumers' = [consumers EXCEPT ![p] = n]
  BY DEF Boot, ThreadsStarted
<1>2. /\ up' = up \cup {p}
      /\ hung' = IF database = "hanging" THEN hung \cup {p} ELSE hung
      /\ UNCHANGED <<env, worker, ready, misses, database, calls, troubles>>
  BY DEF Boot
<1>3. PodsTypeOK'
  BY <1>1, <1>2 DEF PodsIInv, PodsTypeOK
<1>4. OneConsumerPerPod'
  BY <1>1 DEF PodsIInv, PodsTypeOK, OneConsumerPerPod
<1>5. OnlyHangsHoldProbes'
  BY <1>2 DEF PodsIInv, OnlyHangsHoldProbes
<1> QED BY <1>3, <1>4, <1>5 DEF PodsIInv

\* A call occupies a worker, not as a probe does.
LEMMA TakeCallKeeps ==
  ASSUME PodsIInv, NEW p \in Pods, NEW w \in Workers, TakeCall(p, w)
  PROVE  PodsIInv'
<1>1. /\ p \in up /\ calls < MaxCalls /\ calls' = calls + 1
      /\ worker' = [worker EXCEPT ![p][w] = "call"]
      /\ UNCHANGED <<env, up, consumers, ready, misses, database, troubles, hung>>
  BY DEF TakeCall
<1>2. PodsTypeOK'
  BY <1>1, PodsAssumption DEF PodsIInv, PodsTypeOK, PodsAssumption
<1>3. OneConsumerPerPod'
  BY <1>1 DEF PodsIInv, OneConsumerPerPod
<1>4. OnlyHangsHoldProbes'
  BY <1>1 DEF PodsIInv, PodsTypeOK, OnlyHangsHoldProbes
<1> QED BY <1>2, <1>3, <1>4 DEF PodsIInv

\* A worker becomes free, by itself or because it is killed.
LEMMA FreedKeeps ==
  ASSUME PodsIInv, NEW p \in Pods, NEW w \in Workers, Return(p, w) \/ KillWorker(p, w)
  PROVE  PodsIInv'
<1>1. /\ worker[p][w] # "free" /\ worker' = [worker EXCEPT ![p][w] = "free"]
      /\ UNCHANGED <<env, up, consumers, ready, misses, database, calls, troubles, hung>>
  BY DEF Return, KillWorker
<1>2. p \in up
  BY <1>1 DEF PodsIInv, PodsTypeOK, AllFree
<1>3. PodsTypeOK'
  BY <1>1, <1>2 DEF PodsIInv, PodsTypeOK
<1>4. OneConsumerPerPod'
  BY <1>1 DEF PodsIInv, OneConsumerPerPod
<1>5. OnlyHangsHoldProbes'
  BY <1>1 DEF PodsIInv, PodsTypeOK, OnlyHangsHoldProbes
<1> QED BY <1>3, <1>4, <1>5 DEF PodsIInv

\* The liveness probe restarts a pod none of whose workers is free.
LEMMA LivenessKeeps ==
  ASSUME PodsIInv, NEW p \in Pods, LivenessProbe(p)
  PROVE  PodsIInv'
<1>1. p \in up /\ UNCHANGED <<env, database, calls, troubles>>
  BY DEF LivenessProbe
<1>3. ASSUME misses' = [misses EXCEPT ![p].live = 0] \/
             (misses[p].live + 1 < FailureThreshold /\ misses' = [misses EXCEPT ![p].live = @ + 1]),
             UNCHANGED <<up, ready, worker, consumers, hung>>
      PROVE  PodsIInv'
  <2>1. misses' \in [Pods -> [live : 0..(FailureThreshold - 1), ready : 0..(FailureThreshold - 1)]]
    <3>1. misses \in [Pods -> Misses]
      BY DEF PodsIInv, PodsTypeOK, Misses
    <3>2. misses' \in [Pods -> Misses]
      BY <1>3, <3>1, MissesStay
    <3> QED BY <3>2 DEF Misses
  <2>2. PodsTypeOK'
    BY <1>1, <1>3, <2>1 DEF PodsIInv, PodsTypeOK
  <2>3. OneConsumerPerPod' /\ OnlyHangsHoldProbes'
    BY <1>1, <1>3 DEF PodsIInv, OneConsumerPerPod, OnlyHangsHoldProbes
  <2> QED BY <2>2, <2>3 DEF PodsIInv
<1>4. ASSUME ~Liveness(p), Restart(p) PROVE PodsIInv'
  <2>1. PodsTypeOK'
    BY <1>1, <1>4, PodsAssumption
       DEF PodsIInv, PodsTypeOK, Restart, AllFree, NoMisses, PodsAssumption
  <2>2. OneConsumerPerPod'
    BY <1>4 DEF PodsIInv, PodsTypeOK, OneConsumerPerPod, Restart
  <2>3. OnlyHangsHoldProbes'
    BY <1>1, <1>4 DEF PodsIInv, PodsTypeOK, OnlyHangsHoldProbes, Restart, AllFree
  <2> QED BY <2>1, <2>2, <2>3 DEF PodsIInv
<1> QED BY <1>3, <1>4 DEF LivenessProbe

\* The readiness probe holds a worker only if the database hangs.
LEMMA ReadinessKeeps ==
  ASSUME PodsIInv, NEW p \in Pods, ReadinessProbe(p)
  PROVE  PodsIInv'
<1>1. p \in up /\ UNCHANGED <<env, up, consumers, database, calls, troubles, hung>>
  BY DEF ReadinessProbe
<1>2. misses' \in [Pods -> [live : 0..(FailureThreshold - 1), ready : 0..(FailureThreshold - 1)]]
      /\ ready' \subseteq up
  <2>1. misses \in [Pods -> Misses] /\ ready \subseteq up
    BY DEF PodsIInv, PodsTypeOK, Misses
  <2>2. misses' \in [Pods -> Misses] /\ ready' \subseteq up
    <3>1. \/ misses' = [misses EXCEPT ![p].ready = 0]
          \/ misses[p].ready + 1 < FailureThreshold /\ misses' = [misses EXCEPT ![p].ready = @ + 1]
          \/ misses' = misses
      BY DEF ReadinessProbe
    <3>2. misses' \in [Pods -> Misses]
      BY <2>1, <3>1, MissesStay
    <3>4. ready' \subseteq up
      BY <1>1, <2>1 DEF ReadinessProbe
    <3> QED BY <3>2, <3>4
  <2> QED BY <2>2 DEF Misses
<1>3. /\ worker' \in [Pods -> [Workers -> {"free", "call", "probe"}]]
      /\ \A q \in Pods \ {p} : worker'[q] = worker[q]
      /\ database # "hanging" => worker' = worker
  <2>1. CASE worker' = worker
    BY <2>1 DEF PodsIInv, PodsTypeOK
  <2>2. ASSUME NEW w \in Workers, database = "hanging",
               worker' = [worker EXCEPT ![p][w] = "probe"]
        PROVE  <1>3
    BY <2>2 DEF PodsIInv, PodsTypeOK
  <2> QED BY <2>1, <2>2 DEF ReadinessProbe, Free
<1>4. PodsTypeOK'
  BY <1>1, <1>2, <1>3 DEF PodsIInv, PodsTypeOK
<1>5. OneConsumerPerPod'
  BY <1>1 DEF PodsIInv, OneConsumerPerPod
<1>6. OnlyHangsHoldProbes'
  BY <1>1, <1>3 DEF PodsIInv, OnlyHangsHoldProbes
<1> QED BY <1>4, <1>5, <1>6 DEF PodsIInv

\* Troubles, and the end of them, touch no worker.
LEMMA TroubleKeeps ==
  ASSUME PodsIInv, Trouble \/ DatabaseRecovers \/ UNCHANGED vars
  PROVE  PodsIInv'
<1>1. UNCHANGED <<env, up, worker, ready, misses, calls>>
  BY DEF Trouble, DatabaseRecovers, vars
<1>2. /\ database' \in {"up", "refusing", "hanging"} /\ troubles' \in 0..MaxTroubles
      /\ hung \subseteq hung' /\ hung' \subseteq up
      /\ database' = "hanging" => up \subseteq hung'
  <2>1. /\ database \in {"up", "refusing", "hanging"} /\ hung \subseteq up
        /\ database = "hanging" => up \subseteq hung
        /\ troubles \in 0..MaxTroubles /\ MaxTroubles \in Nat
    BY PodsAssumption DEF PodsIInv, PodsTypeOK, OnlyHangsHoldProbes, PodsAssumption
  <2>2. CASE Trouble
    <3>1. troubles' \in 0..MaxTroubles
      BY <2>1, <2>2 DEF Trouble
    <3>2. \/ /\ database' \in {"refusing", "hanging"}
             /\ hung' = IF database' = "hanging" THEN hung \cup up ELSE hung
          \/ UNCHANGED <<database, hung>>
      BY <2>2 DEF Trouble
    <3> QED BY <2>1, <3>1, <3>2
  <2>3. CASE DatabaseRecovers \/ UNCHANGED vars
    BY <2>1, <2>3 DEF DatabaseRecovers, vars
  <2> QED BY <2>2, <2>3
<1>3. consumers' \in [Pods -> Nat] /\ \A p \in Pods : consumers'[p] <= consumers[p]
  <2>1. CASE consumers' = consumers
    BY <2>1 DEF PodsIInv, PodsTypeOK
  <2>2. ASSUME NEW p \in Pods, consumers[p] > 0, consumers' = [consumers EXCEPT ![p] = @ - 1]
        PROVE  <1>3
    BY <2>2 DEF PodsIInv, PodsTypeOK
  <2> QED BY <2>1, <2>2 DEF Trouble, DatabaseRecovers, vars
<1>4. PodsTypeOK'
  BY <1>1, <1>2, <1>3 DEF PodsIInv, PodsTypeOK
<1>5. OneConsumerPerPod'
  BY <1>3 DEF PodsIInv, PodsTypeOK, OneConsumerPerPod
<1>6. OnlyHangsHoldProbes'
  BY <1>1, <1>2 DEF PodsIInv, OnlyHangsHoldProbes
<1> QED BY <1>4, <1>5, <1>6 DEF PodsIInv

\* The invariant is inductive.
LEMMA PodsStep == PodsIInv /\ [Next]_vars => PodsIInv'
BY BootKeeps, TakeCallKeeps, FreedKeeps, LivenessKeeps, ReadinessKeeps, TroubleKeeps DEF Next

\* Only the liveness probe ends a pod, and one that no worker of it answered.
LEMMA EndedPods ==
  ASSUME PodsIInv, [Next]_vars, NEW p \in up \ up'
  PROVE  p \in Pods /\ Free(p) = {}
<1>1. PICK q \in Pods : LivenessProbe(q) /\ up' # up
  BY DEF Next, vars, Boot, ReadinessProbe, TakeCall, Return, KillWorker, Trouble, DatabaseRecovers
<1>2. Restart(q) /\ ~Liveness(q)
  BY <1>1 DEF LivenessProbe
<1> QED BY <1>2 DEF Restart, Liveness

----------------------------------------------------------------------------
\* The theorems

\* The inductive invariant holds of every execution of the pods.
THEOREM PodsInvariant == Spec => []PodsIInv
BY PodsInit, PodsStep, PTL DEF Spec

\* The pods' state keeps its type: who is down serves nobody and consumes nothing.
THEOREM PodsTypes == Spec => []PodsTypeOK
<1>1. PodsIInv => PodsTypeOK
  BY DEF PodsIInv
<1> QED BY <1>1, PodsInvariant, PTL

\* A pod never has two consumers, however many workers are killed.
THEOREM OneConsumer == Spec => []OneConsumerPerPod
<1>1. PodsIInv => OneConsumerPerPod
  BY DEF PodsIInv
<1> QED BY <1>1, PodsInvariant, PTL

\* What a liveness probe finds of a pod that it has restarted: every worker
\* with a client's call, unless the database has hung since the pod started.
THEOREM NobodyIsRestarted == Spec => RefusalRestartsNobody
<1>1. ASSUME PodsIInv, [Next]_vars, NEW p \in up \ up'
      PROVE  p \in hung \/ \A w \in Workers : worker[p][w] = "call"
  <2> SUFFICES ASSUME p \notin hung, NEW w \in Workers PROVE worker[p][w] = "call"
    OBVIOUS
  <2>1. p \in Pods /\ worker[p][w] # "free"
    BY <1>1, EndedPods DEF Free
  <2>2. worker[p][w] # "probe"
    BY <1>1, <2>1 DEF PodsIInv, OnlyHangsHoldProbes
  <2>3. worker[p][w] \in {"free", "call", "probe"}
    BY <1>1, <2>1 DEF PodsIInv, PodsTypeOK
  <2> QED BY <2>1, <2>2, <2>3
<1>2. PodsIInv /\ [Next]_vars
        => [\A p \in up \ up' : p \in hung \/ \A w \in Workers : worker[p][w] = "call"]_vars
  BY <1>1
<1> QED BY <1>2, PodsInvariant, PTL DEF Spec, RefusalRestartsNobody
=============================================================================
