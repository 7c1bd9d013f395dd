--------------------------- MODULE EventConsumer ---------------------------
(***************************************************************************)
(* The payment-event consumers of the data-processing service              *)
(* (app/utils/kafka_consumer.py): one thread per pod, all in one Kafka     *)
(* consumer group.  Auto-commit is off; the thread commits after a message *)
(* was processed, and commit() without arguments commits the position of   *)
(* every partition it owns, not the offset of that message.                *)
(*                                                                         *)
(* The group coordinator and the topic are external and modelled as the    *)
(* code uses them: eager rebalances, positions that restart from the       *)
(* committed offset, commits refused from members outside the group.       *)
(***************************************************************************)
EXTENDS Naturals, Sequences

CONSTANTS Pods,          \* pods of the deployment, each with one consumer thread
          Partitions,    \* partitions of topic payment-events
          None,          \* no pod, no partition
          MaxLog,        \* partition -> bound on its messages
          MaxFaults      \* bound on kicks, crashes, commit errors and fatal errors

\* What a message makes _process_message do: return (an event of a known or
\* an unknown type; bytes that are not JSON, which are skipped), or raise
\* (bytes that are not UTF-8; JSON that is no object).
Kinds == {"returns", "raises"}

ASSUME ConsumerAssumption ==
  /\ MaxLog \in [Partitions -> Nat] /\ MaxFaults \in Nat
  /\ None \notin Pods \cup Partitions

VARIABLES
  log,        \* partition -> messages the broker accepted
  committed,  \* partition -> messages the group has committed; 0 is none
  group,      \* pods in the current generation of the group
  owner,      \* partition -> pod that consumes it
  position,   \* pod -> partition -> messages the pod was handed
  thread,     \* pod -> what its consumer thread is doing
  handled,    \* partition -> offsets processed (or skipped) to the end
  failed,     \* partition -> offsets whose processing raised
  faults      \* faults so far

vars == <<log, committed, group, owner, position, thread, handled, failed, faults>>

Thread == [step : {"poll", "process", "commit", "ended", "down"},
           partition : Partitions \cup {None}, offset : Nat]

At(step) == [step |-> step, partition |-> None, offset |-> 0]

Holding(step, p, o) == [step |-> step, partition |-> p, offset |-> o]

Offsets(p) == 1..Len(log[p])

\* Pods whose poll() lets them take part in a rebalance.
Polling == {c \in Pods : thread[c].step = "poll"}

\* Mutant of StartOffset: every assignment starts at the beginning.
StartAtZero(p) == 0

\* Mutant of StartOffset: auto.offset.reset is 'latest'.
StartAtLatest(p) == IF committed[p] = 0 THEN Len(log[p]) ELSE committed[p]

\* Where a partition is read from when it is assigned: the committed offset,
\* or, with none (0), the earliest message.
StartOffset(p) == committed[p]

Init ==
  /\ log = [p \in Partitions |-> <<>>]
  /\ committed = [p \in Partitions |-> 0]
  /\ group = {}
  /\ owner = [p \in Partitions |-> None]
  /\ position = [c \in Pods |-> [p \in Partitions |-> 0]]
  /\ thread = [c \in Pods |-> At("poll")]
  /\ handled = [p \in Partitions |-> {}]
  /\ failed = [p \in Partitions |-> {}]
  /\ faults = 0

\* PAYMENTS SERVICE (or another producer): a message reaches the topic.
Produce(p, kind) ==
  /\ Len(log[p]) < MaxLog[p]
  /\ log' = [log EXCEPT ![p] = Append(@, kind)]
  /\ UNCHANGED <<committed, group, owner, position, thread, handled, failed, faults>>

\* COORDINATOR: a pod joined, left or was removed.  The members still busy
\* with a message hold the rebalance up until they poll again or are kicked.
Rebalance ==
  /\ Polling # {}
  /\ Polling # group \/ \E p \in Partitions : owner[p] \notin group
  /\ \A c \in group : thread[c].step \notin {"process", "commit"}
  /\ group' = Polling
  /\ owner' \in [Partitions -> Polling]
  /\ position' = [c \in Pods |-> [p \in Partitions |-> StartOffset(p)]]
  /\ UNCHANGED <<log, committed, thread, handled, failed, faults>>

\* COORDINATOR: a member took longer than max.poll.interval.ms.
Kick(c) ==
  /\ faults < MaxFaults
  /\ c \in group /\ thread[c].step \in {"process", "commit"}
  /\ group' = group \ {c}
  /\ faults' = faults + 1
  /\ UNCHANGED <<log, committed, owner, position, thread, handled, failed>>

\* Mutant of Poll: the offset is committed when the message is fetched.
PollAndCommit(c, p) ==
  LET o == position[c][p] + 1 IN
  /\ thread[c].step = "poll" /\ c \in group /\ owner[p] = c
  /\ o \in Offsets(p)
  /\ position' = [position EXCEPT ![c][p] = o]
  /\ committed' = [committed EXCEPT ![p] = o]
  /\ thread' = [thread EXCEPT ![c] = Holding("process", p, o)]
  /\ UNCHANGED <<log, group, owner, handled, failed, faults>>

\* The thread is handed the next message of a partition it owns.  (A poll
\* that times out, ends a partition or returns an error changes nothing.)
Poll(c, p) ==
  LET o == position[c][p] + 1 IN
  /\ thread[c].step = "poll" /\ c \in group /\ owner[p] = c
  /\ o \in Offsets(p)
  /\ position' = [position EXCEPT ![c][p] = o]
  /\ thread' = [thread EXCEPT ![c] = Holding("process", p, o)]
  /\ UNCHANGED <<log, committed, group, owner, handled, failed, faults>>

\* _process_message returns: handled, of no known type, or not JSON.
Process(c) ==
  LET p == thread[c].partition  o == thread[c].offset IN
  /\ thread[c].step = "process"
  /\ log[p][o] = "returns"
  /\ handled' = [handled EXCEPT ![p] = @ \cup {o}]
  /\ thread' = [thread EXCEPT ![c].step = "commit"]
  /\ UNCHANGED <<log, committed, group, owner, position, failed, faults>>

\* Mutant of ProcessRaises: nothing catches the exception in the loop.
ProcessEndsThread(c) ==
  LET p == thread[c].partition  o == thread[c].offset IN
  /\ thread[c].step = "process"
  /\ log[p][o] = "raises"
  /\ failed' = [failed EXCEPT ![p] = @ \cup {o}]
  /\ thread' = [thread EXCEPT ![c] = At("ended")]
  /\ group' = group \ {c}
  /\ UNCHANGED <<log, committed, owner, position, handled, faults>>

\* _process_message raises: logged, not committed, and the loop goes on.
ProcessRaises(c) ==
  LET p == thread[c].partition  o == thread[c].offset IN
  /\ thread[c].step = "process"
  /\ log[p][o] = "raises"
  /\ failed' = [failed EXCEPT ![p] = @ \cup {o}]
  /\ thread' = [thread EXCEPT ![c] = At("poll")]
  /\ UNCHANGED <<log, committed, group, owner, position, handled, faults>>

\* Mutant of Commit: positions are taken for offsets and moved on by one.
CommitOneTooFar(c) ==
  /\ thread[c].step = "commit" /\ c \in group
  /\ committed' = [p \in Partitions |-> IF owner[p] = c THEN position[c][p] + 1
                                        ELSE committed[p]]
  /\ thread' = [thread EXCEPT ![c] = At("poll")]
  /\ UNCHANGED <<log, group, owner, position, handled, failed, faults>>

\* commit(asynchronous=False): the positions of all partitions it owns.
Commit(c) ==
  /\ thread[c].step = "commit" /\ c \in group
  /\ committed' = [p \in Partitions |-> IF owner[p] = c THEN position[c][p] ELSE committed[p]]
  /\ thread' = [thread EXCEPT ![c] = At("poll")]
  /\ UNCHANGED <<log, group, owner, position, handled, failed, faults>>

\* The commit raises, because the pod was kicked out or the broker failed:
\* the same except clause logs it and the loop goes on.
CommitFails(c) ==
  /\ thread[c].step = "commit"
  /\ \/ c \notin group /\ faults' = faults
     \/ /\ c \in group /\ faults < MaxFaults
        /\ faults' = faults + 1
  /\ thread' = [thread EXCEPT ![c] = At("poll")]
  /\ UNCHANGED <<log, committed, group, owner, position, handled, failed>>

\* A KafkaException out of poll() ends the loop for good: the consumer is
\* closed, the process lives on, and nothing starts the thread again.  (Not
\* of every pod: that some thread is left is assumed here.)
FatalError(c) ==
  /\ faults < MaxFaults
  /\ \E d \in Pods \ {c} : thread[d].step # "ended"
  /\ thread[c].step = "poll"
  /\ thread' = [thread EXCEPT ![c] = At("ended")]
  /\ group' = group \ {c}
  /\ faults' = faults + 1
  /\ UNCHANGED <<log, committed, owner, position, handled, failed>>

\* The pod dies; the coordinator drops it after session.timeout.ms.
Crash(c) ==
  /\ faults < MaxFaults
  /\ thread[c].step # "down"
  /\ thread' = [thread EXCEPT ![c] = At("down")]
  /\ group' = group \ {c}
  /\ faults' = faults + 1
  /\ UNCHANGED <<log, committed, owner, position, handled, failed>>

\* Kubernetes restarts the pod: start_consumer_thread.
StartConsumerThread(c) ==
  /\ thread[c].step = "down"
  /\ thread' = [thread EXCEPT ![c] = At("poll")]
  /\ UNCHANGED <<log, committed, group, owner, position, handled, failed, faults>>

ThreadStep(c) == \/ \E p \in Partitions : Poll(c, p)
                 \/ Process(c) \/ ProcessRaises(c) \/ Commit(c)

Next ==
  \/ \E p \in Partitions, kind \in Kinds : Produce(p, kind)
  \/ Rebalance
  \/ \E c \in Pods : \/ ThreadStep(c) \/ CommitFails(c) \/ StartConsumerThread(c)
                     \/ Kick(c) \/ FatalError(c) \/ Crash(c)

Spec == Init /\ [][Next]_vars

\* Threads run and every partition a thread owns gets its turn, a kicked
\* member's commit comes back, the coordinator rebalances once it can, and
\* Kubernetes restarts pods that died.  Faults and producers are free.
Fairness ==
  /\ WF_vars(Rebalance)
  /\ \A c \in Pods : /\ WF_vars(Process(c) \/ ProcessRaises(c))
                     /\ WF_vars(Commit(c) \/ CommitFails(c))
                     /\ WF_vars(StartConsumerThread(c))
                     /\ \A p \in Partitions : SF_vars(Poll(c, p))

FairSpec == Spec /\ Fairness
=============================================================================
