------------------------- MODULE PaymentLifecycle -------------------------
(***************************************************************************)
(* The statuses of a payment (model/enums/PaymentStatus.java) and the      *)
(* transition check of PaymentService.validateStatusTransition.  Pure      *)
(* operators, shared by the service and by the specification it            *)
(* implements.                                                             *)
(***************************************************************************)

PaymentStatus ==
  {"PENDING", "PROCESSING", "COMPLETED", "FAILED", "CANCELLED", "REFUNDED"}

\* A status of no payment: what an id that was never committed maps to.
Absent == "ABSENT"

\* The transitions the check lets through, read as a diagram: from each
\* status, the other statuses a payment may move to.
Successors ==
  [ PENDING    |-> {"PROCESSING", "COMPLETED", "FAILED", "CANCELLED", "REFUNDED"},
    PROCESSING |-> {"COMPLETED", "FAILED", "CANCELLED", "REFUNDED"},
    FAILED     |-> {"PENDING", "PROCESSING", "COMPLETED", "CANCELLED", "REFUNDED"},
    REFUNDED   |-> {"PROCESSING", "COMPLETED", "FAILED", "CANCELLED"},
    COMPLETED  |-> {},
    CANCELLED  |-> {} ]

\* validateStatusTransition(from, to), with an exception read as FALSE.
ValidateStatusTransition(from, to) ==
  \/ from = to
  \/ /\ from \notin {"COMPLETED", "CANCELLED"}
     /\ to = "PENDING" => from = "FAILED"
=============================================================================
