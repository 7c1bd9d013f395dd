------------------------------- MODULE MCPods -------------------------------
(***************************************************************************)
(* Small instance of ServicePods: one pod, as pods share only the          *)
(* database, with the three workers a container of one CPU has.            *)
(***************************************************************************)
EXTENDS PodsProperties

CONSTANTS p1, w1, w2, w3
=============================================================================
