----------------------------- MODULE MCGateway -----------------------------
(***************************************************************************)
(* Small instances of Gateway: a client that pays with a key and repeats   *)
(* its request, and one that reads.                                        *)
(***************************************************************************)
EXTENDS GatewayProperties, TLC

CONSTANTS c1, c2, k1, p1, p2

MCKeyOf == (c1 :> k1) @@ (c2 :> Null)

\* A payment and its repetition, two reads before, between or after them.
MCTries == (c1 :> 2) @@ (c2 :> 2)
=============================================================================
