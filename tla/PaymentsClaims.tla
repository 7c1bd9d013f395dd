--------------------------- MODULE PaymentsClaims ---------------------------
(***************************************************************************)
(* What a comment of the repository says of the payments service and its   *)
(* code does not do: a run finds the disagreement.                         *)
(***************************************************************************)
EXTENDS PaymentsProperties

\* PaymentDtos.java: "A second call with the same key returns the original
\* result": no request is refused whose amount is fine and whose key has
\* been answered with a payment, or is being so.
DuplicateIsAnsweredAlike ==
  \A a \in answers : a.payload \notin Fractional /\ a.idempotencyKey # Null => a.code = 201
=============================================================================
