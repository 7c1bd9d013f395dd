----------------------------- MODULE MCConsumer -----------------------------
(***************************************************************************)
(* Small instances of EventConsumer: two pods of the deployment, which     *)
(* share the partitions of the topic.                                      *)
(***************************************************************************)
EXTENDS ConsumerProperties, TLC

CONSTANTS c1, c2, t1, t2

TwoAndOne == (t1 :> 2) @@ (t2 :> 1)

JustTwo == t1 :> 2
=============================================================================
