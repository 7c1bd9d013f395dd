---------------------------- MODULE ServicePods ----------------------------
(***************************************************************************)
(* A pod of the data-processing service: the application gunicorn loads    *)
(* once and forks (wsgi.py, app/__init__.py, gunicorn.conf.py), the        *)
(* settings it starts with (app/config/settings.py), the probes it answers *)
(* (app/routes/health.py) with the very workers that serve its clients,    *)
(* and what Kubernetes does about the answers (k8s/deployment.yaml), while *)
(* the database refuses connections or hangs.                              *)
(***************************************************************************)
EXTENDS Naturals, FiniteSets

CONSTANTS Pods, Workers,   \* pods; gunicorn workers of each
          FailureThreshold,   \* 3, of the liveness and of the readiness probe
          Null,
          MaxCalls, MaxTroubles  \* bounds on clients' calls; on troubles of the database or a consumer

ASSUME PodsAssumption ==
  /\ IsFiniteSet(Workers) /\ Workers # {}
  /\ FailureThreshold \in Nat \ {0}
  /\ MaxCalls \in Nat /\ MaxTroubles \in Nat

VARIABLES
  env,        \* pod -> names of the variables set in its environment
  up,         \* pods whose gunicorn master runs
  worker,     \* pod -> worker -> what it is at
  consumers,  \* pod -> consumer threads
  ready,      \* pods that the Service routes to
  misses,     \* pod -> failed probes in a row
  database,   \* "up"; "refusing": connections fail at once; "hanging": nothing returns
  calls, troubles,
  hung        \* history: pods that ran, since they were started, while the database hung

vars == <<env, up, worker, consumers, ready, misses, database, calls, troubles, hung>>

----------------------------------------------------------------------------
\* Settings

EnvVars == {"DATABASE_URL", "KAFKA_BOOTSTRAP_SERVERS"}

From(e, name, default) == IF name \in e THEN name ELSE default

BaseConfig(e) ==
  [databaseUri |-> From(e, "DATABASE_URL", Null),
   kafka       |-> From(e, "KAFKA_BOOTSTRAP_SERVERS", "localhost:9092")]

DevelopmentConfig(e) == [BaseConfig(e) EXCEPT !.databaseUri = From(e, "DATABASE_URL", "localhost")]

TestingConfig(e) == [databaseUri |-> "sqlite", kafka |-> Null]

\* init_app, which would assert that both variables are set, has no caller.
ProductionConfig(e) == BaseConfig(e)

GetConfig(name, e) ==
  CASE name \in {"development", "local"} -> DevelopmentConfig(e)
    [] name \in {"testing", "test"}      -> TestingConfig(e)
    [] OTHER                             -> ProductionConfig(e)

----------------------------------------------------------------------------
AllFree == [w \in Workers |-> "free"]

NoMisses == [live |-> 0, ready |-> 0]

Init ==
  /\ env \in [Pods -> SUBSET EnvVars]
  /\ up = {} /\ ready = {}
  /\ worker = [p \in Pods |-> AllFree]
  /\ consumers = [p \in Pods |-> 0]
  /\ misses = [p \in Pods |-> NoMisses]
  /\ database = "up"
  /\ calls = 0 /\ troubles = 0 /\ hung = {}

\* create_app: the database extension raises if it has no URI.  Nothing here
\* connects to the database.
CreateAppSucceeds(config) == config.databaseUri # Null

\* start_consumer_thread starts a thread unless Kafka is switched off.
ThreadsStarted(config) == IF config.kafka = Null THEN 0 ELSE 1

\* gunicorn's master imports wsgi.py, forks its workers, and the startup probe
\* finds them.  If the import fails the container ends and is tried again.
Boot(p) ==
  LET config == GetConfig("production", env[p]) IN
  /\ p \notin up
  /\ CreateAppSucceeds(config)
  /\ up' = up \cup {p}
  /\ consumers' = [consumers EXCEPT ![p] = ThreadsStarted(config)]
  /\ hung' = IF database = "hanging" THEN hung \cup {p} ELSE hung
  /\ UNCHANGED <<env, worker, ready, misses, database, calls, troubles>>

\* A client's call - a report, a run - takes a worker of a pod that is ready.
TakeCall(p, w) ==
  /\ p \in up \cap ready
  /\ worker[p][w] = "free"
  /\ calls < MaxCalls
  /\ calls' = calls + 1
  /\ worker' = [worker EXCEPT ![p][w] = "call"]
  /\ UNCHANGED <<env, up, consumers, ready, misses, database, troubles, hung>>

\* A call, or a probe, that waits for nothing ends.
Return(p, w) ==
  /\ worker[p][w] # "free"
  /\ database # "hanging"
  /\ worker' = [worker EXCEPT ![p][w] = "free"]
  /\ UNCHANGED <<env, up, consumers, ready, misses, database, calls, troubles, hung>>

\* Mutant of KillWorker: without preload_app each new worker imports wsgi.py.
KillWorkerNoPreload(p, w) ==
  /\ worker[p][w] # "free"
  /\ worker' = [worker EXCEPT ![p][w] = "free"]
  /\ consumers' = [consumers EXCEPT ![p] = @ + ThreadsStarted(GetConfig("production", env[p]))]
  /\ UNCHANGED <<env, up, ready, misses, database, calls, troubles, hung>>

\* The master kills a worker that was silent for 60 s and forks another, which
\* finds the application loaded (preload_app); threads are not forked.
KillWorker(p, w) ==
  /\ worker[p][w] # "free"
  /\ worker' = [worker EXCEPT ![p][w] = "free"]
  /\ UNCHANGED <<env, up, consumers, ready, misses, database, calls, troubles, hung>>

Free(p) == {w \in Workers : worker[p][w] = "free"}

\* Mutant of Restart: the Service goes on routing to it.
RestartRouted(p) ==
  /\ up' = up \ {p} /\ ready' = ready
  /\ worker' = [worker EXCEPT ![p] = AllFree]
  /\ consumers' = [consumers EXCEPT ![p] = 0]
  /\ misses' = [misses EXCEPT ![p] = NoMisses]
  /\ hung' = hung \ {p}

\* The container is restarted: workers, thread and counters are gone.
Restart(p) ==
  /\ up' = up \ {p} /\ ready' = ready \ {p}
  /\ worker' = [worker EXCEPT ![p] = AllFree]
  /\ consumers' = [consumers EXCEPT ![p] = 0]
  /\ misses' = [misses EXCEPT ![p] = NoMisses]
  /\ hung' = hung \ {p}

\* Mutant of Liveness: it asks the database, as readiness does.
LivenessAsksDatabase(p) ==
  Free(p) # {} /\ database = "up"

\* /health/liveness answers 200 if a worker takes it.
Liveness(p) == Free(p) # {}

LivenessProbe(p) ==
  /\ p \in up
  /\ \/ /\ Liveness(p)
        /\ misses' = [misses EXCEPT ![p].live = 0]
        /\ UNCHANGED <<up, ready, worker, consumers, hung>>
     \/ /\ ~Liveness(p) /\ misses[p].live + 1 < FailureThreshold
        /\ misses' = [misses EXCEPT ![p].live = @ + 1]
        /\ UNCHANGED <<up, ready, worker, consumers, hung>>
     \/ /\ ~Liveness(p) /\ misses[p].live + 1 >= FailureThreshold
        /\ Restart(p)
  /\ UNCHANGED <<env, database, calls, troubles>>

\* Mutant of Readiness: it asks for the consumer thread too.
ReadinessAsksConsumer(p) ==
  Free(p) # {} /\ database = "up" /\ consumers[p] > 0

\* /health/readiness answers 200 if SELECT 1 does.
Readiness(p) == Free(p) # {} /\ database = "up"

\* A probe that hangs is given up by Kubernetes, not by its worker.
ReadinessProbe(p) ==
  /\ p \in up
  /\ \/ /\ Readiness(p)
        /\ ready' = ready \cup {p}
        /\ misses' = [misses EXCEPT ![p].ready = 0]
     \/ /\ ~Readiness(p) /\ misses[p].ready + 1 < FailureThreshold
        /\ misses' = [misses EXCEPT ![p].ready = @ + 1]
        /\ UNCHANGED ready
     \/ /\ ~Readiness(p) /\ misses[p].ready + 1 >= FailureThreshold
        /\ ready' = ready \ {p}
        /\ UNCHANGED misses
  /\ IF database = "hanging" /\ Free(p) # {}
     THEN \E w \in Free(p) : worker' = [worker EXCEPT ![p][w] = "probe"]
     ELSE UNCHANGED worker
  /\ UNCHANGED <<env, up, consumers, database, calls, troubles, hung>>

\* Trouble: the database stops working, in one way or another, or a
\* KafkaException ends a consumer thread.
Trouble ==
  /\ troubles < MaxTroubles
  /\ troubles' = troubles + 1
  /\ \/ /\ database' \in {"refusing", "hanging"}
        /\ hung' = IF database' = "hanging" THEN hung \cup up ELSE hung
        /\ UNCHANGED consumers
     \/ /\ \E p \in Pods : consumers[p] > 0 /\ consumers' = [consumers EXCEPT ![p] = @ - 1]
        /\ UNCHANGED <<database, hung>>
  /\ UNCHANGED <<env, up, worker, ready, misses, calls>>

DatabaseRecovers ==
  /\ database' = "up" /\ database # "up"
  /\ UNCHANGED <<env, up, worker, consumers, ready, misses, calls, troubles, hung>>

Next ==
  \/ \E p \in Pods : Boot(p) \/ LivenessProbe(p) \/ ReadinessProbe(p)
  \/ \E p \in Pods, w \in Workers : TakeCall(p, w) \/ Return(p, w) \/ KillWorker(p, w)
  \/ Trouble \/ DatabaseRecovers

\* Kubernetes starts containers and probes them; the master watches its workers.
Fairness ==
  \A p \in Pods :
    /\ WF_vars(Boot(p)) /\ WF_vars(LivenessProbe(p)) /\ WF_vars(ReadinessProbe(p))
    /\ \A w \in Workers : WF_vars(KillWorker(p, w))

Spec == Init /\ [][Next]_vars /\ Fairness
=============================================================================
