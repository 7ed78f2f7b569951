------------------------------ MODULE AgentRun ------------------------------
(***************************************************************************)
(* What a run of the model promises to the poll loop that started it: this *)
(* is the run PollLoop takes for granted.  It may send mail, set a status  *)
(* once something was sent (or give the task up), and change schedules     *)
(* unless it is itself a scheduled run; it ends in one of three ways.      *)
(***************************************************************************)
VARIABLES kind,       \* what started the run, "none" between runs
          delivered,  \* something was sent
          status,     \* the status the run set last
          scheduled,  \* the run changed the schedule
          outcome     \* how it ended

vars == <<kind, delivered, status, scheduled, outcome>>

Outcomes == {"answered", "maxturns", "failed"}

TypeOK ==
    /\ kind \in {"none", "mail", "schedule"}
    /\ delivered \in BOOLEAN /\ scheduled \in BOOLEAN
    /\ status \in {"none", "waiting", "error"}
    /\ outcome \in Outcomes \cup {"none"}

Init == /\ kind = "none" /\ outcome = "none"
        /\ delivered = FALSE /\ status = "none" /\ scheduled = FALSE

Going == kind # "none" /\ outcome = "none"

Start == /\ kind = "none"
         /\ kind' \in {"mail", "schedule"}
         /\ UNCHANGED <<delivered, status, scheduled, outcome>>

Deliver == Going /\ delivered' = TRUE /\ UNCHANGED <<kind, status, scheduled, outcome>>

SetTaskStatus ==
    /\ Going
    /\ \/ status' = "error"
       \/ delivered /\ status' = "waiting"
    /\ UNCHANGED <<kind, delivered, scheduled, outcome>>

SnoozeTool ==
    /\ Going /\ kind = "mail"
    /\ scheduled' = TRUE
    /\ UNCHANGED <<kind, delivered, status, outcome>>

End == /\ Going
       /\ outcome' \in Outcomes
       /\ UNCHANGED <<kind, delivered, status, scheduled>>

(* The poll loop takes note of the outcome, saves, and goes on.            *)
Collect == /\ kind # "none" /\ outcome # "none"
           /\ kind' = "none" /\ outcome' = "none"
           /\ delivered' = FALSE /\ status' = "none" /\ scheduled' = FALSE

Next == Start \/ Deliver \/ SetTaskStatus \/ SnoozeTool \/ End \/ Collect

Spec == Init /\ [][Next]_vars

=============================================================================
