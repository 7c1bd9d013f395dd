--------------------------- MODULE ConsumerProofs ---------------------------
(***************************************************************************)
(* Proofs about EventConsumer for every set of pods and partitions, and    *)
(* for any number of messages and faults.                                  *)
(***************************************************************************)
EXTENDS ConsumerProperties, TLAPS

----------------------------------------------------------------------------
\* Type correctness

\* Every value a thread is given has its type.
LEMMA ThreadTypes ==
  /\ \A step \in {"poll", "ended", "down"} : At(step) \in Thread
  /\ \A p \in Partitions, o \in Nat : Holding("process", p, o) \in Thread
BY DEF At, Holding, Thread

\* The initial state satisfies the inductive invariant.
LEMMA ConsumerInit == Init => ConsumerIInv
<1> SUFFICES ASSUME Init PROVE ConsumerIInv
  OBVIOUS
<1> USE DEF Init
<1>1. \A p \in Partitions : log[p] \in Seq(Kinds) /\ Len(log[p]) = 0
  OBVIOUS
<1>2. \A c \in Pods : thread[c] = At("poll") /\ thread[c].step = "poll"
  BY DEF At
<1>3. ConsumerTypeOK
  BY <1>1, ThreadTypes, ConsumerAssumption DEF ConsumerTypeOK, ConsumerAssumption
<1>4. \A p \in Partitions : 1..committed[p] = {}
  OBVIOUS
<1>5. CommittedWasTried
  BY <1>4 DEF CommittedWasTried
<1>6. OwnersTried /\ MembersRun
  BY DEF OwnersTried, MembersRun
<1>7. HeldInTurn
  BY <1>2 DEF HeldInTurn
<1>8. PositionsExist
  BY <1>1 DEF PositionsExist
<1> QED BY <1>3, <1>5, <1>6, <1>7, <1>8 DEF ConsumerIInv

\* What a thread works on has its type.
LEMMA HeldTypes ==
  ASSUME ConsumerTypeOK, HeldInTurn, NEW c \in Pods, thread[c].step = "process"
  PROVE  thread[c].partition \in Partitions /\ thread[c].offset \in Nat
BY DEF ConsumerTypeOK, HeldInTurn, Thread

\* Every step preserves the type invariant.
LEMMA TypeStep == ConsumerIInv /\ [Next]_vars => ConsumerTypeOK'
<1> SUFFICES ASSUME ConsumerIInv, [Next]_vars PROVE ConsumerTypeOK'
  OBVIOUS
<1> USE ConsumerAssumption DEF ConsumerIInv, ConsumerTypeOK, ConsumerAssumption
<1>1. ASSUME NEW p \in Partitions, NEW kind \in Kinds, Produce(p, kind)
      PROVE  ConsumerTypeOK'
  <2>1. log' \in [Partitions -> Seq(Kinds)]
    BY <1>1 DEF Produce
  <2>2. \A q \in Partitions : Len(log[q]) <= Len(log'[q])
    BY <1>1 DEF Produce
  <2>3. \A q \in Partitions : committed'[q] <= Len(log'[q])
    BY <1>1, <2>1, <2>2 DEF Produce
  <2> QED BY <1>1, <2>1, <2>3 DEF Produce
<1>2. CASE Rebalance
  <2>1. Polling \subseteq Pods
    BY DEF Polling
  <2>2. owner' \in [Partitions -> Pods \cup {None}]
    BY <1>2, <2>1 DEF Rebalance
  <2>3. position' \in [Pods -> [Partitions -> Nat]]
    BY <1>2 DEF Rebalance, StartOffset
  <2> QED BY <1>2, <2>1, <2>2, <2>3 DEF Rebalance
<1>3. ASSUME NEW c \in Pods, NEW p \in Partitions, Poll(c, p)
      PROVE  ConsumerTypeOK'
  <2>1. position[c][p] + 1 \in Nat
    OBVIOUS
  <2>2. position' \in [Pods -> [Partitions -> Nat]]
    BY <1>3, <2>1 DEF Poll
  <2>3. thread' \in [Pods -> Thread]
    BY <1>3, <2>1, ThreadTypes DEF Poll
  <2> QED BY <1>3, <2>2, <2>3 DEF Poll
<1>4. ASSUME NEW c \in Pods, Process(c)
      PROVE  ConsumerTypeOK'
  <2>1. thread[c].partition \in Partitions /\ thread[c].offset \in Nat
    BY <1>4, HeldTypes DEF Process
  <2>2. handled' \in [Partitions -> SUBSET Nat]
    BY <1>4, <2>1 DEF Process
  <2>3. thread' \in [Pods -> Thread]
    BY <1>4 DEF Process, Thread
  <2> QED BY <1>4, <2>2, <2>3 DEF Process
<1>5. ASSUME NEW c \in Pods, ProcessRaises(c)
      PROVE  ConsumerTypeOK'
  <2>1. thread[c].partition \in Partitions /\ thread[c].offset \in Nat
    BY <1>5, HeldTypes DEF ProcessRaises
  <2>2. failed' \in [Partitions -> SUBSET Nat]
    BY <1>5, <2>1 DEF ProcessRaises
  <2>3. thread' \in [Pods -> Thread]
    BY <1>5, ThreadTypes DEF ProcessRaises
  <2> QED BY <1>5, <2>2, <2>3 DEF ProcessRaises
<1>6. ASSUME NEW c \in Pods, Commit(c)
      PROVE  ConsumerTypeOK'
  <2>1. committed' \in [Partitions -> Nat]
    BY <1>6 DEF Commit
  <2>2. \A p \in Partitions : committed'[p] <= Len(log[p])
    BY <1>6 DEF Commit, PositionsExist
  <2>3. thread' \in [Pods -> Thread]
    BY <1>6, ThreadTypes DEF Commit
  <2> QED BY <1>6, <2>1, <2>2, <2>3 DEF Commit
<1>7. ASSUME NEW c \in Pods,
             CommitFails(c) \/ StartConsumerThread(c) \/ Kick(c) \/ FatalError(c) \/ Crash(c)
      PROVE  ConsumerTypeOK'
  <2>1. thread' \in [Pods -> Thread]
    BY <1>7, ThreadTypes DEF CommitFails, StartConsumerThread, Kick, FatalError, Crash
  <2>2. faults' \in 0..MaxFaults
    BY <1>7 DEF CommitFails, StartConsumerThread, Kick, FatalError, Crash
  <2>3. group' \subseteq Pods
    BY <1>7 DEF CommitFails, StartConsumerThread, Kick, FatalError, Crash
  <2>4. UNCHANGED <<log, committed, owner, position, handled, failed>>
    BY <1>7 DEF CommitFails, StartConsumerThread, Kick, FatalError, Crash
  <2> QED BY <2>1, <2>2, <2>3, <2>4
<1>8. CASE UNCHANGED vars
  BY <1>8 DEF vars
<1> QED BY <1>1, <1>2, <1>3, <1>4, <1>5, <1>6, <1>7, <1>8 DEF Next, ThreadStep

----------------------------------------------------------------------------
\* The inductive invariant

\* What was tried stays tried, and what was published stays published.
LEMMA HistoryGrows ==
  ASSUME ConsumerIInv, [Next]_vars, NEW p \in Partitions
  PROVE  Tried(p) \subseteq Tried(p)' /\ Len(log[p]) <= Len(log'[p]) /\ Len(log'[p]) \in Nat
<1> USE DEF ConsumerIInv, ConsumerTypeOK
<1>1. Len(log'[p]) \in Nat
  BY TypeStep
<1>2. log'[p] = log[p] \/ \E kind \in Kinds : log'[p] = Append(log[p], kind)
  BY DEF Next, vars, Produce, Rebalance, Kick, ThreadStep, Poll, Process, ProcessRaises,
         Commit, CommitFails, FatalError, Crash, StartConsumerThread
<1>3. Tried(p) \subseteq Tried(p)'
  <2>1. ASSUME NEW c \in Pods, Process(c)
        PROVE  handled[p] \subseteq handled'[p] /\ failed' = failed
    BY <2>1 DEF Process
  <2>2. ASSUME NEW c \in Pods, ProcessRaises(c)
        PROVE  failed[p] \subseteq failed'[p] /\ handled' = handled
    BY <2>2 DEF ProcessRaises
  <2>3. \/ UNCHANGED <<handled, failed>>
        \/ \E c \in Pods : Process(c) \/ ProcessRaises(c)
    BY DEF Next, vars, Produce, Rebalance, Kick, ThreadStep, Poll, Commit, CommitFails,
           FatalError, Crash, StartConsumerThread
  <2> QED BY <2>1, <2>2, <2>3 DEF Tried
<1>4. \A kind \in Kinds : Len(Append(log[p], kind)) = Len(log[p]) + 1
  OBVIOUS
<1> QED BY <1>1, <1>2, <1>3, <1>4

\* A step that neither tries a message nor hands one out, that moves no
\* committed offset and no position, and that lets no new member or worker
\* in, keeps the invariant.
LEMMA OtherStep ==
  ASSUME ConsumerIInv, [Next]_vars,
         UNCHANGED <<committed, owner, position>>,
         \A c \in group' : /\ c \in group
                           /\ thread'[c].step \in {"poll", "process", "commit"}
                           /\ thread[c].step = "process" => thread'[c] = thread[c],
         \A c \in Pods : thread'[c].step = "process" => thread'[c] = thread[c]
  PROVE  ConsumerIInv'
<1> USE DEF ConsumerIInv
<1>1. ConsumerTypeOK'
  BY TypeStep
<1>2. CommittedWasTried'
  BY HistoryGrows DEF CommittedWasTried
<1>3. OwnersTried'
  <2> SUFFICES ASSUME NEW c \in group', NEW p \in Partitions, owner'[p] = c
               PROVE  committed'[p] <= position'[c][p] /\ HeldBack(c, p)' \subseteq Tried(p)'
    BY DEF OwnersTried
  <2>1. committed[p] <= position[c][p] /\ HeldBack(c, p) \subseteq Tried(p)
    BY DEF OwnersTried
  <2>2. HeldBack(c, p)' = HeldBack(c, p)
    BY DEF HeldBack, ConsumerTypeOK
  <2> QED BY <2>1, <2>2, HistoryGrows
<1>4. HeldInTurn'
  <2> SUFFICES ASSUME NEW c \in Pods, thread'[c].step = "process"
               PROVE  /\ thread[c].partition \in Partitions
                      /\ thread[c].offset \in Offsets(thread[c].partition)'
                      /\ 1..(thread[c].offset - 1) \subseteq Tried(thread[c].partition)'
                      /\ c \in group' /\ owner'[thread[c].partition] = c
                           => thread[c].offset = position'[c][thread[c].partition]
    BY DEF HeldInTurn
  <2>1. thread'[c] = thread[c]
    OBVIOUS
  <2>2. /\ thread[c].partition \in Partitions
        /\ thread[c].offset \in Offsets(thread[c].partition)
        /\ 1..(thread[c].offset - 1) \subseteq Tried(thread[c].partition)
        /\ c \in group /\ owner[thread[c].partition] = c
             => thread[c].offset = position[c][thread[c].partition]
    BY <2>1 DEF HeldInTurn
  <2>3. thread[c].offset \in Offsets(thread[c].partition)'
    BY <2>2, HistoryGrows DEF Offsets, ConsumerTypeOK
  <2> QED BY <2>2, <2>3, HistoryGrows
<1>5. PositionsExist'
  <2> SUFFICES ASSUME NEW p \in Partitions, NEW c \in Pods, owner'[p] = c
               PROVE  position'[c][p] <= Len(log'[p])
    BY DEF PositionsExist
  <2>1. position[c][p] <= Len(log[p]) /\ position[c][p] \in Nat
    BY DEF PositionsExist, ConsumerTypeOK
  <2> QED BY <2>1, HistoryGrows DEF ConsumerTypeOK
<1>6. MembersRun'
  BY DEF MembersRun
<1> QED BY <1>1, <1>2, <1>3, <1>4, <1>5, <1>6

\* The coordinator starts every partition where the group had committed.
LEMMA RebalanceKeepsInvariant ==
  ASSUME ConsumerIInv, Rebalance
  PROVE  ConsumerIInv'
<1> USE DEF ConsumerIInv
<1>1. ConsumerTypeOK'
  BY TypeStep DEF Next
<1>2. \A p \in Partitions : Tried(p)' = Tried(p) /\ Offsets(p)' = Offsets(p)
  BY DEF Rebalance, Tried, Offsets
<1>3. \A c \in Pods, p \in Partitions : position'[c][p] = committed[p]
  BY DEF Rebalance, StartOffset
<1>4. /\ committed' = committed /\ thread' = thread /\ log' = log
      /\ \A c \in group' : c \in Pods /\ thread[c].step = "poll"
  BY DEF Rebalance, Polling
<1>5. CommittedWasTried'
  BY <1>2, <1>4 DEF CommittedWasTried
<1>6. OwnersTried'
  <2> SUFFICES ASSUME NEW c \in group', NEW p \in Partitions
               PROVE  committed'[p] <= position'[c][p] /\ HeldBack(c, p)' \subseteq Tried(p)'
    BY DEF OwnersTried
  <2>1. HeldBack(c, p)' = 1..committed[p]
    BY <1>3, <1>4 DEF HeldBack
  <2> QED BY <2>1, <1>2, <1>3, <1>4 DEF CommittedWasTried, ConsumerTypeOK
<1>7. HeldInTurn'
  BY <1>2, <1>4 DEF HeldInTurn
<1>8. PositionsExist'
  BY <1>3, <1>4 DEF PositionsExist, ConsumerTypeOK
<1>9. MembersRun'
  BY <1>4 DEF MembersRun
<1> QED BY <1>1, <1>5, <1>6, <1>7, <1>8, <1>9

\* A member is handed the message after all that it was handed and tried.
LEMMA PollKeepsInvariant ==
  ASSUME ConsumerIInv, NEW c \in Pods, NEW p \in Partitions, Poll(c, p)
  PROVE  ConsumerIInv'
<1> DEFINE o == position[c][p] + 1
<1> USE DEF ConsumerIInv
<1>1. ConsumerTypeOK'
  BY TypeStep DEF Next, ThreadStep
<1>2. \A q \in Partitions : Tried(q)' = Tried(q) /\ Offsets(q)' = Offsets(q)
  BY DEF Poll, Tried, Offsets
<1>3. /\ committed' = committed /\ log' = log /\ owner' = owner /\ group' = group
      /\ c \in group /\ owner[p] = c /\ o \in Offsets(p) /\ position[c][p] \in Nat
  BY DEF Poll, ConsumerTypeOK
<1>4. \A d \in Pods, q \in Partitions :
        position'[d][q] = IF d = c /\ q = p THEN o ELSE position[d][q]
  BY DEF Poll, ConsumerTypeOK
<1>5. \A d \in Pods : thread'[d] = IF d = c THEN Holding("process", p, o) ELSE thread[d]
  BY DEF Poll, ConsumerTypeOK
<1>6. HeldBack(c, p) = 1..position[c][p] /\ 1..position[c][p] \subseteq Tried(p)
  BY <1>3 DEF HeldBack, OwnersTried, Poll
<1>7. CommittedWasTried'
  BY <1>2, <1>3 DEF CommittedWasTried
<1>8. OwnersTried'
  <2> SUFFICES ASSUME NEW d \in group, NEW q \in Partitions, owner[q] = d
               PROVE  committed[q] <= position'[d][q] /\ HeldBack(d, q)' \subseteq Tried(q)
    BY <1>2, <1>3 DEF OwnersTried
  <2>1. d \in Pods
    BY DEF ConsumerTypeOK
  <2>2. committed[q] <= position[d][q] /\ HeldBack(d, q) \subseteq Tried(q)
    BY DEF OwnersTried
  <2>3. CASE d = c /\ q = p
    <3>1. HeldBack(d, q)' = 1..position[c][p]
      BY <1>3, <1>4, <1>5, <2>1, <2>3 DEF HeldBack, Holding
    <3> QED BY <3>1, <2>2, <1>3, <1>4, <1>6, <2>3, <2>1 DEF ConsumerTypeOK
  <2>4. CASE d # c \/ q # p
    <3>1. HeldBack(d, q)' = HeldBack(d, q)
      BY <1>4, <1>5, <2>1, <2>4 DEF HeldBack, Holding, Poll
    <3> QED BY <3>1, <2>2, <1>4, <2>4, <2>1
  <2> QED BY <2>3, <2>4
<1>9. HeldInTurn'
  <2> SUFFICES ASSUME NEW d \in Pods, thread'[d].step = "process"
               PROVE  LET q == thread'[d].partition  n == thread'[d].offset IN
                      /\ q \in Partitions /\ n \in Offsets(q)
                      /\ 1..(n - 1) \subseteq Tried(q)
                      /\ d \in group /\ owner[q] = d => n = position'[d][q]
    BY <1>2, <1>3 DEF HeldInTurn
  <2>1. CASE d = c
    BY <2>1, <1>3, <1>4, <1>5, <1>6 DEF Holding
  <2>2. CASE d # c
    BY <2>2, <1>4, <1>5 DEF HeldInTurn
  <2> QED BY <2>1, <2>2
<1>10. PositionsExist'
  <2> SUFFICES ASSUME NEW q \in Partitions, NEW d \in Pods, owner[q] = d
               PROVE  position'[d][q] <= Len(log[q])
    BY <1>3 DEF PositionsExist
  <2>1. CASE d = c /\ q = p
    BY <2>1, <1>3, <1>4 DEF Offsets
  <2>2. CASE d # c \/ q # p
    BY <2>2, <1>4 DEF PositionsExist
  <2> QED BY <2>1, <2>2
<1>11. MembersRun'
  <2> SUFFICES ASSUME NEW d \in group PROVE thread'[d].step \in {"poll", "process", "commit"}
    BY <1>3 DEF MembersRun
  <2>1. thread'[d] = IF d = c THEN Holding("process", p, o) ELSE thread[d]
    BY <1>5 DEF ConsumerTypeOK
  <2> QED BY <2>1 DEF MembersRun, Holding
<1> QED BY <1>1, <1>7, <1>8, <1>9, <1>10, <1>11

\* The message a thread held was tried, with success or not.
LEMMA TryKeepsInvariant ==
  ASSUME ConsumerIInv, NEW c \in Pods, Process(c) \/ ProcessRaises(c)
  PROVE  ConsumerIInv'
<1> DEFINE p == thread[c].partition
           o == thread[c].offset
<1> USE DEF ConsumerIInv
<1>1. ConsumerTypeOK'
  BY TypeStep DEF Next, ThreadStep
<1>2. /\ thread[c].step = "process" /\ p \in Partitions /\ o \in Nat
      /\ c \in group /\ owner[p] = c => o = position[c][p]
  BY HeldTypes DEF Process, ProcessRaises, HeldInTurn
<1>3. \A q \in Partitions : Tried(q)' = IF q = p THEN Tried(q) \cup {o} ELSE Tried(q)
  <2>1. CASE Process(c)
    BY <2>1, <1>2 DEF Process, Tried, ConsumerTypeOK
  <2>2. CASE ProcessRaises(c)
    BY <2>2, <1>2 DEF ProcessRaises, Tried, ConsumerTypeOK
  <2> QED BY <2>1, <2>2
<1>4. UNCHANGED <<log, committed, group, owner, position>>
  BY DEF Process, ProcessRaises
<1>5. /\ thread'[c].step \in {"poll", "commit"}
      /\ \A d \in Pods \ {c} : thread'[d] = thread[d]
  BY DEF Process, ProcessRaises, At, ConsumerTypeOK, Thread
<1>6. CommittedWasTried'
  BY <1>3, <1>4 DEF CommittedWasTried
<1>7. OwnersTried'
  <2> SUFFICES ASSUME NEW d \in group, NEW q \in Partitions, owner[q] = d
               PROVE  committed[q] <= position[d][q] /\ HeldBack(d, q)' \subseteq Tried(q)'
    BY <1>4 DEF OwnersTried
  <2>1. d \in Pods /\ position[d][q] \in Nat
    BY DEF ConsumerTypeOK
  <2>2. committed[q] <= position[d][q] /\ HeldBack(d, q) \subseteq Tried(q)
    BY DEF OwnersTried
  <2>3. CASE d = c /\ q = p
    <3>1. HeldBack(d, q) = 1..(o - 1) /\ o = position[d][q]
      BY <1>2, <2>3 DEF HeldBack
    <3>2. HeldBack(d, q)' = 1..o
      BY <3>1, <1>4, <1>5, <2>3 DEF HeldBack
    <3> QED BY <3>1, <3>2, <2>2, <2>3, <1>2, <1>3
  <2>4. CASE d # c \/ q # p
    <3>1. HeldBack(d, q)' = HeldBack(d, q)
      BY <1>2, <1>4, <1>5, <2>1, <2>4 DEF HeldBack
    <3> QED BY <3>1, <2>2, <1>3
  <2> QED BY <2>3, <2>4
<1>8. HeldInTurn'
  <2> SUFFICES ASSUME NEW d \in Pods, thread'[d].step = "process"
               PROVE  /\ thread'[d].partition \in Partitions
                      /\ thread'[d].offset \in 1..Len(log'[thread'[d].partition])
                      /\ 1..(thread'[d].offset - 1)
                           \subseteq handled'[thread'[d].partition] \cup failed'[thread'[d].partition]
                      /\ d \in group' /\ owner'[thread'[d].partition] = d
                           => thread'[d].offset = position'[d][thread'[d].partition]
    BY DEF HeldInTurn, Offsets, Tried
  <2>1. d # c /\ thread'[d] = thread[d]
    BY <1>5
  <2>2. /\ thread[d].partition \in Partitions
        /\ thread[d].offset \in 1..Len(log[thread[d].partition])
        /\ 1..(thread[d].offset - 1) \subseteq Tried(thread[d].partition)
        /\ d \in group /\ owner[thread[d].partition] = d
             => thread[d].offset = position[d][thread[d].partition]
    BY <2>1 DEF HeldInTurn, Offsets
  <2>3. 1..(thread[d].offset - 1)
          \subseteq handled'[thread[d].partition] \cup failed'[thread[d].partition]
    BY <2>2, <1>3 DEF Tried
  <2> QED BY <2>1, <2>2, <2>3, <1>4
<1>9. PositionsExist'
  BY <1>4 DEF PositionsExist
<1>10. MembersRun'
  BY <1>4, <1>5 DEF MembersRun, ConsumerTypeOK
<1> QED BY <1>1, <1>6, <1>7, <1>8, <1>9, <1>10

\* A member commits positions up to which it has tried everything.
LEMMA CommitKeepsInvariant ==
  ASSUME ConsumerIInv, NEW c \in Pods, Commit(c)
  PROVE  /\ ConsumerIInv'
         /\ \A p \in Partitions : committed'[p] >= committed[p]
<1> USE DEF ConsumerIInv
<1>1. ConsumerTypeOK'
  BY TypeStep DEF Next, ThreadStep
<1>2. /\ \A p \in Partitions : Tried(p)' = Tried(p) /\ Offsets(p)' = Offsets(p)
      /\ UNCHANGED <<log, group, owner, position>>
      /\ c \in group /\ thread[c].step = "commit"
  BY DEF Commit, Tried, Offsets
<1>3. \A p \in Partitions : committed'[p] = IF owner[p] = c THEN position[c][p] ELSE committed[p]
  BY DEF Commit
<1>4. /\ thread'[c].step = "poll"
      /\ \A d \in Pods \ {c} : thread'[d] = thread[d]
  BY DEF Commit, At, ConsumerTypeOK
<1>5. \A p \in Partitions : owner[p] = c =>
        committed[p] <= position[c][p] /\ 1..position[c][p] \subseteq Tried(p)
  BY <1>2 DEF OwnersTried, HeldBack
<1>6. CommittedWasTried'
  BY <1>2, <1>3, <1>5 DEF CommittedWasTried
<1>7. OwnersTried'
  <2> SUFFICES ASSUME NEW d \in group, NEW q \in Partitions, owner[q] = d
               PROVE  committed'[q] <= position[d][q] /\ HeldBack(d, q)' \subseteq Tried(q)
    BY <1>2 DEF OwnersTried
  <2>1. d \in Pods /\ position[d][q] \in Nat
    BY DEF ConsumerTypeOK
  <2>2. HeldBack(d, q)' = HeldBack(d, q)
    BY <1>2, <1>4, <2>1 DEF HeldBack
  <2> QED BY <2>1, <2>2, <1>3 DEF OwnersTried
<1>8. HeldInTurn'
  BY <1>2, <1>4 DEF HeldInTurn
<1>9. PositionsExist'
  BY <1>2 DEF PositionsExist
<1>10. MembersRun'
  BY <1>2, <1>4 DEF MembersRun, ConsumerTypeOK
<1>11. \A p \in Partitions : committed'[p] >= committed[p]
  <2> SUFFICES ASSUME NEW p \in Partitions PROVE committed'[p] >= committed[p]
    OBVIOUS
  <2>1. committed[p] \in Nat /\ position[c][p] \in Nat
    BY DEF ConsumerTypeOK
  <2> QED BY <2>1, <1>3, <1>5
<1> QED BY <1>1, <1>6, <1>7, <1>8, <1>9, <1>10, <1>11

\* Every step keeps the invariant.
LEMMA ConsumerStep == ConsumerIInv /\ [Next]_vars => ConsumerIInv'
<1> SUFFICES ASSUME ConsumerIInv, [Next]_vars PROVE ConsumerIInv'
  OBVIOUS
<1>1. ASSUME NEW p \in Partitions, NEW kind \in Kinds, Produce(p, kind)
      PROVE  ConsumerIInv'
  BY <1>1, OtherStep DEF Produce, ConsumerIInv, MembersRun
<1>2. CASE Rebalance
  BY <1>2, RebalanceKeepsInvariant
<1>3. ASSUME NEW c \in Pods, NEW p \in Partitions, Poll(c, p)
      PROVE  ConsumerIInv'
  BY <1>3, PollKeepsInvariant
<1>4. ASSUME NEW c \in Pods, Process(c) \/ ProcessRaises(c)
      PROVE  ConsumerIInv'
  BY <1>4, TryKeepsInvariant
<1>5. ASSUME NEW c \in Pods, Commit(c)
      PROVE  ConsumerIInv'
  BY <1>5, CommitKeepsInvariant
<1>6. ASSUME NEW c \in Pods, CommitFails(c)
      PROVE  ConsumerIInv'
  BY <1>6, OtherStep DEF CommitFails, At, ConsumerIInv, ConsumerTypeOK, MembersRun
<1>7. ASSUME NEW c \in Pods, StartConsumerThread(c)
      PROVE  ConsumerIInv'
  BY <1>7, OtherStep DEF StartConsumerThread, At, ConsumerIInv, ConsumerTypeOK, MembersRun
<1>8. ASSUME NEW c \in Pods, Kick(c)
      PROVE  ConsumerIInv'
  BY <1>8, OtherStep DEF Kick, ConsumerIInv, MembersRun
<1>9. ASSUME NEW c \in Pods, FatalError(c) \/ Crash(c)
      PROVE  ConsumerIInv'
  BY <1>9, OtherStep DEF FatalError, Crash, At, ConsumerIInv, ConsumerTypeOK, MembersRun
<1>10. CASE UNCHANGED vars
  BY <1>10, OtherStep DEF vars, ConsumerIInv, MembersRun
<1> QED BY <1>1, <1>2, <1>3, <1>4, <1>5, <1>6, <1>7, <1>8, <1>9, <1>10 DEF Next, ThreadStep

----------------------------------------------------------------------------
\* Theorems

\* Members have tried what they were handed, whatever happens to the group:
\* the invariant that the properties of the consumers follow from.
THEOREM ConsumerInvariantHolds == Spec => []ConsumerIInv
BY ConsumerInit, ConsumerStep, PTL DEF Spec

\* The consumers' state is well typed, and what is committed exists.
THEOREM ConsumerTypeCorrect == Spec => []ConsumerTypeOK
BY ConsumerInvariantHolds, PTL DEF ConsumerIInv

\* No message is committed that _process_message was not given.
THEOREM CommittedWasTriedHolds == Spec => []CommittedWasTried
BY ConsumerInvariantHolds, PTL DEF ConsumerIInv

\* The first look at the messages of a partition is in their order.
THEOREM FirstLooksAreOrdered == Spec => TriedInOrder
<1> DEFINE InOrder == \A p \in Partitions :
                        \A o \in Tried(p)' \ Tried(p) : 1..(o - 1) \subseteq Tried(p)
<1>1. ConsumerIInv /\ [Next]_vars => [InOrder]_vars
  <2> SUFFICES ASSUME ConsumerIInv, [Next]_vars, NEW p \in Partitions,
                      NEW o \in Tried(p)' \ Tried(p)
               PROVE  1..(o - 1) \subseteq Tried(p)
    OBVIOUS
  <2>1. PICK c \in Pods : Process(c) \/ ProcessRaises(c)
    BY DEF Next, vars, Tried, Produce, Rebalance, Kick, ThreadStep, Poll, Commit, CommitFails,
           FatalError, Crash, StartConsumerThread
  <2>2. thread[c].step = "process" /\ thread[c].partition \in Partitions
    BY <2>1, HeldTypes DEF Process, ProcessRaises, ConsumerIInv
  <2>3. thread[c].partition = p /\ thread[c].offset = o
    <3>1. CASE Process(c)
      BY <3>1, <2>2 DEF Process, Tried, ConsumerIInv, ConsumerTypeOK
    <3>2. CASE ProcessRaises(c)
      BY <3>2, <2>2 DEF ProcessRaises, Tried, ConsumerIInv, ConsumerTypeOK
    <3> QED BY <2>1, <3>1, <3>2
  <2> QED BY <2>2, <2>3 DEF ConsumerIInv, HeldInTurn
<1> QED BY <1>1, ConsumerInvariantHolds, PTL DEF Spec, TriedInOrder

\* No step takes back what the group has committed.
THEOREM CommitsAreFinal == Spec => CommittedNeverRegresses
<1> DEFINE NoRegress == \A p \in Partitions : committed'[p] >= committed[p]
<1>1. ConsumerIInv /\ [Next]_vars => [NoRegress]_vars
  <2> SUFFICES ASSUME ConsumerIInv, [Next]_vars PROVE NoRegress
    OBVIOUS
  <2>1. CASE \E c \in Pods : Commit(c)
    BY <2>1, CommitKeepsInvariant
  <2>2. CASE committed' = committed
    BY <2>2 DEF ConsumerIInv, ConsumerTypeOK
  <2> QED BY <2>1, <2>2 DEF Next, vars, Produce, Rebalance, Kick, ThreadStep, Poll, Process,
                            ProcessRaises, CommitFails, FatalError, Crash, StartConsumerThread
<1> QED BY <1>1, ConsumerInvariantHolds, PTL DEF Spec, CommittedNeverRegresses
=============================================================================
