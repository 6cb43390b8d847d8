--------------------------- MODULE TelegramService ---------------------------
(***************************************************************************)
(* The Telegram service of trishna over the Bot API: Service.runBotAPI,    *)
(* which connects, drops the updates that have piled up, polls for new     *)
(* ones and handles them, and starts over along a retry schedule when      *)
(* something fails (internal/telegram/service.go).                         *)
(*                                                                         *)
(* An update is its number, 1, 2, ...; Telegram keeps an update until an   *)
(* update with a higher number is asked for.                               *)
(***************************************************************************)
EXTENDS Naturals, Sequences

CONSTANTS
    PollLimit,   \* pollLimit, a bound on the updates of one answer
    MaxRetries,  \* length of the retry schedule
    MaxUpdates,  \* bound on the updates
    MaxFaults,   \* bound on failed calls and crashes
    MaxStops     \* bound on orderly shutdowns

ASSUME TelegramAssumption ==
    /\ PollLimit \in Nat \ {0}
    /\ MaxRetries \in Nat
    /\ MaxUpdates \in Nat
    /\ MaxFaults \in Nat
    /\ MaxStops \in Nat

VARIABLES
    updates,   \* all there ever were: "command" (of an owner, in a chat that is
               \* allowed, with a known name) or "other"
    kept,      \* Telegram has forgotten the updates before this one
    pc,        \* where Run is
    failures,  \* argument of retryOrGiveUp
    offset,    \* of the next poll, 0 when nothing is known; while an answer is
               \* handled, the next update of it
    last,      \* last update of the answer that is handled
    health,    \* what Health reports
    ctxDone,
    answers,   \* answers posted to the update (history)
    backlog,   \* number of updates when the service last connected (history)
    refused,   \* connections refused in a row (history)
    faults, stops

telegram == <<updates, kept>>
bounds == <<faults, stops>>
vars == <<telegram, pc, failures, offset, last, health, ctxDone, answers, backlog, refused, bounds>>

Connected == {"dropping", "polling", "handling"}

TypeOK ==
    /\ updates \in Seq({"command", "other"}) /\ Len(updates) <= MaxUpdates
    /\ kept \in 1..(Len(updates) + 1)
    /\ pc \in Connected \cup {"connecting", "retrying", "gaveUp", "stopped", "down"}
    /\ failures \in 0..(MaxRetries + 1)
    /\ offset \in 0..(Len(updates) + 1)
    /\ last \in 0..Len(updates)
    /\ pc = "handling" => offset \in kept..last
    /\ health \in {"running", "notStarted", "retrying", "gaveUp", "stopped"}
    /\ ctxDone \in BOOLEAN
    /\ answers \in [1..MaxUpdates -> Nat]
    /\ backlog \in 0..Len(updates)
    /\ refused \in Nat
    /\ faults \in Nat /\ stops \in Nat

Init ==
    /\ updates = <<>> /\ kept = 1
    /\ pc = "connecting"
    /\ failures = 0
    /\ offset = 0 /\ last = 0
    /\ health = "notStarted"
    /\ ctxDone = FALSE
    /\ answers = [i \in 1..MaxUpdates |-> 0]
    /\ backlog = 0 /\ refused = 0
    /\ faults = 0 /\ stops = 0

Fault == faults < MaxFaults /\ faults' = faults + 1 /\ UNCHANGED stops
NoFault == UNCHANGED bounds

(***************************************************************************)
(* Telegram: somebody writes; updates are asked for from a number on.      *)
(***************************************************************************)
Write ==
    /\ Len(updates) < MaxUpdates
    /\ \E kind \in {"command", "other"} : updates' = Append(updates, kind)
    /\ UNCHANGED <<kept, pc, failures, offset, last, health, ctxDone, answers, backlog,
                   refused, bounds>>

First == IF offset > kept THEN offset ELSE kept
Last == IF First + PollLimit > Len(updates) THEN Len(updates) ELSE First + PollLimit - 1

(***************************************************************************)
(* retryOrGiveUp, when a call has failed, and the end of Run.              *)
(***************************************************************************)
Retry(attempt) ==
    /\ failures' = attempt
    /\ IF attempt <= MaxRetries
       THEN pc' = "retrying" /\ health' = "retrying"
       ELSE pc' = "gaveUp" /\ health' = "gaveUp"

Stop ==
    /\ pc' = "stopped"
    /\ health' = "stopped"
    /\ UNCHANGED <<telegram, failures, offset, last, ctxDone, answers, backlog, refused, bounds>>

\* Faulty: a service that has given up waits for ever.
StopUnlessGivenUp ==
    /\ pc \in {"connecting", "dropping", "polling", "retrying"}
    /\ ctxDone
    /\ Stop

(* Between two calls, in a wait, or by a call that is cancelled.           *)
StopWaiting ==
    /\ pc \in {"connecting", "dropping", "polling", "retrying", "gaveUp"}
    /\ ctxDone
    /\ Stop

TimerFires ==
    /\ pc = "retrying"
    /\ ~ctxDone
    /\ pc' = "connecting"
    /\ UNCHANGED <<telegram, failures, offset, last, health, ctxDone, answers, backlog,
                   refused, bounds>>

(***************************************************************************)
(* runBotAPI: NewBot, which has no context, and dropStaleUpdates.          *)
(***************************************************************************)
Connect ==
    /\ pc = "connecting"
    /\ pc' = "dropping"
    /\ health' = "running"
    /\ failures' = 0
    /\ offset' = 0
    /\ refused' = 0
    /\ UNCHANGED <<telegram, last, ctxDone, answers, backlog, bounds>>

ConnectFails ==
    /\ pc = "connecting"
    /\ Fault
    /\ refused' = refused + 1
    /\ Retry(failures + 1)
    /\ UNCHANGED <<telegram, offset, last, ctxDone, answers, backlog>>

\* Faulty: what is dropped is asked for again.
DropNothing ==
    /\ pc = "dropping"
    /\ ~ctxDone
    /\ pc' = "polling"
    /\ backlog' = Len(updates)
    /\ UNCHANGED <<telegram, failures, offset, last, health, ctxDone, answers, refused, bounds>>

(* Offset -1 asks for the last update, and Telegram forgets the others.    *)
Drop ==
    /\ pc = "dropping"
    /\ ~ctxDone
    /\ pc' = "polling"
    /\ IF kept > Len(updates)
       THEN UNCHANGED <<kept, offset>>
       ELSE kept' = Len(updates) /\ offset' = Len(updates) + 1
    /\ backlog' = Len(updates)
    /\ UNCHANGED <<updates, failures, last, health, ctxDone, answers, refused, bounds>>

(* The call may have had its effect although it failed.                    *)
DropFails ==
    /\ pc = "dropping"
    /\ Fault
    /\ kept' \in {kept} \cup (IF kept > Len(updates) THEN {} ELSE {Len(updates)})
    /\ IF ctxDone
       THEN pc' = "stopped" /\ health' = "stopped" /\ UNCHANGED failures
       ELSE Retry(failures + 1)
    /\ UNCHANGED <<updates, offset, last, ctxDone, answers, backlog, refused>>

(***************************************************************************)
(* poll and handleUpdate.                                                  *)
(***************************************************************************)
(* An answer without updates comes when the long poll is over.             *)
Poll ==
    /\ pc = "polling"
    /\ ~ctxDone
    /\ kept' = First
    /\ IF Last < First
       THEN UNCHANGED <<pc, offset, last>>
       ELSE pc' = "handling" /\ offset' = First /\ last' = Last
    /\ UNCHANGED <<updates, failures, health, ctxDone, answers, backlog, refused, bounds>>

PollFails ==
    /\ pc = "polling"
    /\ ~ctxDone
    /\ Fault
    /\ kept' \in {kept, First}
    /\ Retry(failures + 1)
    /\ UNCHANGED <<updates, offset, last, ctxDone, answers, backlog, refused>>

\* Faulty: the last update of an answer is asked for again.
AdvanceOffByOne ==
    /\ offset' = IF offset = last THEN offset ELSE offset + 1
    /\ pc' = IF offset = last THEN "polling" ELSE "handling"
    /\ UNCHANGED <<telegram, failures, last, health, ctxDone, backlog, refused>>

Advance ==
    /\ offset' = offset + 1
    /\ pc' = IF offset = last THEN "polling" ELSE "handling"
    /\ UNCHANGED <<telegram, failures, last, health, ctxDone, backlog, refused>>

Ignore ==
    /\ pc = "handling"
    /\ updates[offset] = "other"
    /\ Advance
    /\ UNCHANGED <<answers, bounds>>

(* An error is logged; the message may have been posted in spite of it.    *)
Answer ==
    /\ pc = "handling"
    /\ updates[offset] = "command"
    /\ ~ctxDone
    /\ Advance
    /\ \/ answers' = [answers EXCEPT ![offset] = @ + 1] /\ (NoFault \/ Fault)
       \/ Fault /\ UNCHANGED answers

(* The rest of the answer is left.                                         *)
AnswerCancelled ==
    /\ pc = "handling"
    /\ updates[offset] = "command"
    /\ ctxDone
    /\ Stop

(***************************************************************************)
(* The process.                                                            *)
(***************************************************************************)
Shutdown ==
    /\ pc \notin {"stopped", "down"}
    /\ ~ctxDone
    /\ stops < MaxStops
    /\ stops' = stops + 1
    /\ ctxDone' = TRUE
    /\ UNCHANGED <<telegram, pc, failures, offset, last, health, answers, backlog, refused, faults>>

ProcessGone ==
    /\ pc' = "down"
    /\ failures' = 0 /\ offset' = 0 /\ last' = 0 /\ refused' = 0
    /\ health' = "notStarted"
    /\ ctxDone' = FALSE
    /\ UNCHANGED <<telegram, answers, backlog>>

Exit == pc = "stopped" /\ ProcessGone /\ NoFault

Crash == pc # "down" /\ Fault /\ ProcessGone

Restart ==
    /\ pc = "down"
    /\ pc' = "connecting"
    /\ UNCHANGED <<telegram, failures, offset, last, health, ctxDone, answers, backlog,
                   refused, bounds>>

Service ==
    \/ StopWaiting \/ TimerFires
    \/ Connect \/ ConnectFails \/ Drop \/ DropFails
    \/ Poll \/ PollFails \/ Ignore \/ Answer \/ AnswerCancelled
    \/ Exit \/ Restart

Next == Service \/ Write \/ Shutdown \/ Crash

Spec == Init /\ [][Next]_vars

(* Run never rests, its waits end, and launchd restarts the process.       *)
FairSpec == Spec /\ WF_vars(Service)

(***************************************************************************)
(* Properties.                                                             *)
(***************************************************************************)
(* No update is answered twice, whatever call fails and wherever the       *)
(* process dies.                                                           *)
AnsweredOnce == \A i \in 1..MaxUpdates : answers[i] <= 1

(* It gives up when it is refused as often as the schedule allows in a row,*)
(* not when connections break, however often.                              *)
GivesUpWhenRefused ==
    /\ pc = "gaveUp" => refused >= MaxRetries
    /\ refused <= MaxRetries + 1

(* The service catches up with Telegram again and again: every update is   *)
(* handled or dropped, unless the service gives up.                        *)
UpdatesSettled == []<>(kept > Len(updates) \/ pc = "gaveUp")
=============================================================================
