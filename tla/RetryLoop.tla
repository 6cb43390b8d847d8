------------------------------ MODULE RetryLoop ------------------------------
(***************************************************************************)
(* What a service of these bots promises of its attempts: it works, or it  *)
(* tries again after each delay of the retry schedule; it gives up when    *)
(* the schedule is used up by attempts in a row of which none has worked;  *)
(* then, and when it is told to stop, it does nothing any more             *)
(* (RetryDelay, internal/runtime/retry.go, and its callers).               *)
(***************************************************************************)
EXTENDS Naturals

CONSTANT MaxRetries  \* length of the retry schedule

VARIABLES
    mode,      \* "trying", "working", "waiting", "gaveUp", "stopped", "down"
    failures,  \* in a row, since it has worked
    told       \* to stop

schedule == <<mode, failures, told>>

Init == mode = "trying" /\ failures = 0 /\ told = FALSE

Work ==
    /\ mode = "trying"
    /\ mode' = "working"
    /\ failures' = 0
    /\ UNCHANGED told

Fail ==
    /\ mode \in {"trying", "working"}
    /\ failures' = failures + 1
    /\ mode' = IF failures < MaxRetries THEN "waiting" ELSE "gaveUp"
    /\ UNCHANGED told

TryAgain ==
    /\ mode = "waiting"
    /\ mode' = "trying"
    /\ UNCHANGED <<failures, told>>

Tell ==
    /\ mode \notin {"stopped", "down"}
    /\ told' = TRUE
    /\ UNCHANGED <<mode, failures>>

Stop ==
    /\ told
    /\ mode \notin {"stopped", "down"}
    /\ mode' = "stopped"
    /\ failures' = 0
    /\ UNCHANGED told

(* The process ends, or dies.                                              *)
Gone == mode' = "down" /\ failures' = 0 /\ told' = FALSE

Restart ==
    /\ mode = "down"
    /\ mode' = "trying"
    /\ UNCHANGED <<failures, told>>

Next == Work \/ Fail \/ TryAgain \/ Tell \/ Stop \/ Gone \/ Restart

Spec == Init /\ [][Next]_schedule
=============================================================================
