--------------------------- MODULE SessionPromise ---------------------------
(***************************************************************************)
(* A session in one step: it is open, and then it is over with one of the  *)
(* outcomes that the control manager is prepared for.                      *)
(***************************************************************************)
EXTENDS SessionOutcome

VARIABLES open, task_queue, requests, diag, reset
vars == <<open, task_queue, requests, diag, reset>>

Init == /\ open = TRUE
        /\ task_queue \in Seq(Task)
        /\ requests \in Nat
        /\ diag = FALSE
        /\ reset = FALSE

End == /\ open
       /\ open' = FALSE
       /\ \E o \in Outcomes(requests) :
            /\ task_queue' = QueueAfter(o, task_queue)
            /\ requests' = requests - o.sent
            /\ diag' = o.diag
            /\ reset' = o.reset

Spec == Init /\ [][End]_vars
=============================================================================
