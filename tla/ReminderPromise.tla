-------------------------- MODULE ReminderPromise --------------------------
(***************************************************************************)
(* What the reminders of shawnb promise, without a scheduler, a file or a  *)
(* process: an accepted reminder stays pending until it is delivered, or   *)
(* cancelled, or the attempts to deliver it are exhausted.  Delivery is at *)
(* least once, and may be late: a reminder that was cancelled while it was *)
(* being sent can still be delivered.                                      *)
(***************************************************************************)
CONSTANT Items

VARIABLES accepted, pending, delivered, cancelled, exhausted

vars == <<accepted, pending, delivered, cancelled, exhausted>>

Init ==
    /\ accepted = {}
    /\ pending = {}
    /\ delivered = {}
    /\ cancelled = {}
    /\ exhausted = {}

Accept ==
    \E i \in Items \ accepted :
        /\ accepted' = accepted \cup {i}
        /\ pending' = pending \cup {i}
        /\ UNCHANGED <<delivered, cancelled, exhausted>>

(* An attempt to deliver: it succeeds, or is the last that fails, or both  *)
(* (the message is posted and the sender told otherwise).                  *)
Attempt ==
    \E i \in accepted :
        /\ delivered' \in {delivered, delivered \cup {i}}
        /\ exhausted' \in {exhausted, exhausted \cup {i}}
        /\ UNCHANGED <<accepted, pending, cancelled>>

Settle ==
    \E i \in pending \cap (delivered \cup exhausted) :
        /\ pending' = pending \ {i}
        /\ UNCHANGED <<accepted, delivered, cancelled, exhausted>>

Cancel ==
    \E S \in SUBSET pending :
        /\ pending' = pending \ S
        /\ cancelled' = cancelled \cup S
        /\ UNCHANGED <<accepted, delivered, exhausted>>

Next == Accept \/ Attempt \/ Settle \/ Cancel

Spec == Init /\ [][Next]_vars

(* No accepted reminder stays pending for ever.                            *)
Settled == \A i \in Items : i \in pending ~> i \notin pending
=============================================================================
