------------------------- MODULE ConsumerProperties -------------------------
(***************************************************************************)
(* What the payment-event consumers must satisfy, and one thing a comment  *)
(* says of them that does not hold.                                        *)
(***************************************************************************)
EXTENDS EventConsumer

\* Type invariant of the consumers' state; offsets are those of messages.
ConsumerTypeOK ==
  /\ log \in [Partitions -> Seq(Kinds)]
  /\ committed \in [Partitions -> Nat] /\ \A p \in Partitions : committed[p] <= Len(log[p])
  /\ group \in SUBSET Pods
  /\ owner \in [Partitions -> Pods \cup {None}]
  /\ position \in [Pods -> [Partitions -> Nat]]
  /\ thread \in [Pods -> Thread]
  /\ handled \in [Partitions -> SUBSET Nat] /\ failed \in [Partitions -> SUBSET Nat]
  /\ faults \in 0..MaxFaults

\* What some pod has processed or tried to process.
Tried(p) == handled[p] \cup failed[p]

\* No event is lost unseen: what the group has committed was handed to
\* _process_message first, through crashes, kicked members and rebalances.
\* This is what is left of "at-least-once semantics" (kafka_consumer.py:43).
CommittedWasTried == \A p \in Partitions : 1..committed[p] \subseteq Tried(p)

\* The first look at each event of a partition, hence at each event of a
\* payment (its reference is the key), is in the order they were published.
TriedInOrder ==
  [][\A p \in Partitions : \A o \in Tried(p)' \ Tried(p) : 1..(o - 1) \subseteq Tried(p)]_vars

\* Nothing the group has committed is undone: a member that lost its
\* partitions cannot pull the offset back.
CommittedNeverRegresses == [][\A p \in Partitions : committed'[p] >= committed[p]]_vars

\* Every event is eventually looked at, although a consumer thread may end
\* for good, as long as another pod's lives.
EveryEventIsTried ==
  \A p \in Partitions : \A o \in 1..MaxLog[p] : o \in Offsets(p) ~> o \in Tried(p)

----------------------------------------------------------------------------
\* A member that still consumes a partition has tried all it was handed but
\* the message it holds.
HeldBack(c, p) ==
  IF thread[c].step = "process" /\ thread[c].partition = p
  THEN 1..(position[c][p] - 1) ELSE 1..position[c][p]

\* A member is handed a partition's messages from the committed one on, and
\* has tried them.
OwnersTried ==
  \A c \in group, p \in Partitions : owner[p] = c =>
    /\ committed[p] <= position[c][p]
    /\ HeldBack(c, p) \subseteq Tried(p)

\* The message a thread works on exists and is the next one to be tried, or
\* was tried before; for a member that still owns the partition it is the
\* last one it was handed.
HeldInTurn ==
  \A c \in Pods : thread[c].step = "process" =>
    LET p == thread[c].partition  o == thread[c].offset IN
    /\ p \in Partitions /\ o \in Offsets(p)
    /\ 1..(o - 1) \subseteq Tried(p)
    /\ c \in group /\ owner[p] = c => o = position[c][p]

\* What an owner was handed exists.
PositionsExist == \A p \in Partitions, c \in Pods : owner[p] = c => position[c][p] <= Len(log[p])

\* A thread that ended and a pod that is down are no members.
MembersRun == \A c \in group : thread[c].step \in {"poll", "process", "commit"}

\* The strengthening of CommittedWasTried that every step preserves.
ConsumerIInv ==
  /\ ConsumerTypeOK
  /\ CommittedWasTried
  /\ OwnersTried
  /\ HeldInTurn
  /\ PositionsExist
  /\ MembersRun

----------------------------------------------------------------------------
\* kafka_consumer.py:83, "Don't commit - message will be reprocessed on
\* restart": the group never commits past a message that was not processed.
FailedIsReprocessed == \A p \in Partitions : 1..committed[p] \subseteq handled[p]
=============================================================================
