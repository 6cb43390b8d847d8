--------------------------- MODULE DiscordService ---------------------------
(***************************************************************************)
(* The Discord service of a bot process: Service.Run, which creates an     *)
(* App and runs it, again and again along a retry schedule until it gives  *)
(* up; App.Run, which starts the background services, opens the gateway    *)
(* and waits for the shutdown; and the health the two record               *)
(* (internal/bot/service.go, internal/bot/bot.go, internal/runtime).  A    *)
(* service without a token, which only waits for the shutdown, is left out.*)
(***************************************************************************)
EXTENDS Naturals, FiniteSets

CONSTANTS
    Loops,       \* goroutines of one background service; bounds the attempts
    MaxRetries,  \* length of the retry schedule
    MaxCrashes,  \* bound on crashes of the process
    MaxStops     \* bound on orderly shutdowns

ASSUME ServiceAssumption ==
    /\ IsFiniteSet(Loops)
    /\ MaxRetries \in Nat
    /\ MaxCrashes \in Nat
    /\ MaxStops \in Nat

VARIABLES
    pc,         \* where Service.Run and App.Run are
    failures,   \* failed attempts in a row
    health,     \* what Health reports
    connected,  \* the gateway is connected (nobody in this code reads it)
    ready,      \* runtime.State
    ctxDone,    \* the process context is cancelled
    running,    \* goroutines of the background service that have not returned
    waited,     \* those App.Run waits for
    crashes, stops

serviceVars ==
    <<pc, failures, health, connected, ready, ctxDone, running, waited, crashes, stops>>

Health == [running : BOOLEAN, detail : {"notStarted", "connecting", "connected",
                                        "retrying", "gaveUp", "stopped"}]

Reported(isRunning, detail) == [running |-> isRunning, detail |-> detail]

ServiceTypeOK ==
    /\ pc \in {"down", "creating", "opening", "open", "serving",
               "retrying", "gaveUp", "stopped"}
    /\ failures \in 0..(MaxRetries + 1)
    /\ health \in Health
    /\ connected \in BOOLEAN
    /\ ready \in BOOLEAN
    /\ ctxDone \in BOOLEAN
    /\ running \subseteq Loops
    /\ waited \subseteq Loops
    /\ crashes \in Nat
    /\ stops \in Nat

ServiceInit ==
    /\ pc = "creating"
    /\ failures = 0
    /\ health = Reported(FALSE, "notStarted")
    /\ connected = FALSE
    /\ ready = FALSE
    /\ ctxDone = FALSE
    /\ running = {}
    /\ waited = {}
    /\ crashes = 0
    /\ stops = 0

(***************************************************************************)
(* Service.Run.                                                            *)
(***************************************************************************)
\* Faulty: what failed is not recorded.
RetryUnrecorded ==
    /\ failures' = failures + 1
    /\ pc' = IF failures' <= MaxRetries THEN "retrying" ELSE "gaveUp"
    /\ UNCHANGED health

(* handleRetry, with the number of failed attempts.                        *)
Retry ==
    /\ failures' = failures + 1
    /\ IF failures' <= MaxRetries
       THEN pc' = "retrying" /\ health' = Reported(FALSE, "retrying")
       ELSE pc' = "gaveUp" /\ health' = Reported(FALSE, "gaveUp")

Stop ==
    /\ pc' = "stopped"
    /\ health' = Reported(FALSE, "stopped")

NewAppFails ==
    /\ pc = "creating"
    /\ Retry
    /\ UNCHANGED <<connected, ready, ctxDone, running, waited, crashes, stops>>

(* A new App, which starts the background services first.                  *)
RunApp ==
    /\ pc = "creating"
    /\ pc' = "opening"
    /\ health' = Reported(TRUE, "connecting")
    /\ \E l \in Loops \ running : running' = running \cup {l} /\ waited' = {l}
    /\ UNCHANGED <<failures, connected, ready, ctxDone, crashes, stops>>

(* syncCommands or OpenGateway fails: App.Run returns, its services stay.  *)
RunFails ==
    /\ pc = "opening"
    /\ waited' = {}
    /\ IF ctxDone THEN Stop /\ UNCHANGED failures ELSE Retry
    /\ UNCHANGED <<connected, ready, ctxDone, running, crashes, stops>>

\* Faulty: the Ready event does not reset the failures.
OpenKeepingFailures ==
    /\ pc = "opening"
    /\ pc' = "open"
    /\ connected' = TRUE
    /\ health' = Reported(TRUE, "connected")
    /\ UNCHANGED <<failures, ready, ctxDone, running, waited, crashes, stops>>

(* The gateway opens; its Ready event resets the failures.                 *)
OpenGateway ==
    /\ pc = "opening"
    /\ pc' = "open"
    /\ connected' = TRUE
    /\ failures' = 0
    /\ health' = Reported(TRUE, "connected")
    /\ UNCHANGED <<ready, ctxDone, running, waited, crashes, stops>>

MarkReady ==
    /\ pc = "open"
    /\ pc' = "serving"
    /\ ready' = TRUE
    /\ UNCHANGED <<failures, health, connected, ctxDone, running, waited, crashes, stops>>

(* The client loses its connection, of which nothing is recorded, and gets *)
(* it back by itself, with another Ready event.                            *)
Disconnect ==
    /\ pc \in {"open", "serving"}
    /\ connected
    /\ connected' = FALSE
    /\ UNCHANGED <<pc, failures, health, ready, ctxDone, running, waited, crashes, stops>>

Reconnect ==
    /\ pc \in {"open", "serving"}
    /\ ~connected
    /\ connected' = TRUE
    /\ failures' = 0
    /\ health' = Reported(TRUE, "connected")
    /\ UNCHANGED <<pc, ready, ctxDone, running, waited, crashes, stops>>

TimerFires ==
    /\ pc = "retrying"
    /\ pc' = "creating"
    /\ UNCHANGED <<failures, health, connected, ready, ctxDone, running, waited, crashes, stops>>

StopWaiting ==
    /\ pc \in {"retrying", "gaveUp"}
    /\ ctxDone
    /\ Stop
    /\ UNCHANGED <<failures, connected, ready, ctxDone, running, waited, crashes, stops>>

(* App.Run waits for the services it has started itself, then the client   *)
(* is closed.                                                              *)
Close ==
    /\ pc = "serving"
    /\ ctxDone
    /\ waited \cap running = {}
    /\ Stop
    /\ connected' = FALSE
    /\ UNCHANGED <<failures, ready, ctxDone, running, waited, crashes, stops>>

(***************************************************************************)
(* The process.                                                            *)
(***************************************************************************)
Shutdown ==
    /\ pc \notin {"down", "stopped"}
    /\ ~ctxDone
    /\ stops < MaxStops
    /\ ctxDone' = TRUE
    /\ stops' = stops + 1
    /\ UNCHANGED <<pc, failures, health, connected, ready, running, waited, crashes>>

ProcessGone ==
    /\ pc' = "down"
    /\ failures' = 0
    /\ health' = Reported(FALSE, "notStarted")
    /\ connected' = FALSE
    /\ ready' = FALSE
    /\ ctxDone' = FALSE
    /\ running' = {}
    /\ waited' = {}
    /\ UNCHANGED stops

Exit == pc = "stopped" /\ ProcessGone /\ UNCHANGED crashes

Crash ==
    /\ pc # "down"
    /\ crashes < MaxCrashes
    /\ crashes' = crashes + 1
    /\ ProcessGone

Restart ==
    /\ pc = "down"
    /\ pc' = "creating"
    /\ UNCHANGED <<failures, health, connected, ready, ctxDone, running, waited, crashes, stops>>

ServiceReturns(l) ==
    /\ l \in running
    /\ running' = running \ {l}
    /\ UNCHANGED <<pc, failures, health, connected, ready, ctxDone, waited, crashes, stops>>

ServiceNext ==
    \/ NewAppFails \/ RunApp \/ RunFails \/ OpenGateway \/ MarkReady
    \/ Disconnect \/ Reconnect
    \/ TimerFires \/ StopWaiting \/ Close
    \/ Shutdown \/ Exit \/ Crash \/ Restart

(* A background service returns when the context is cancelled.             *)
Next ==
    \/ ServiceNext
    \/ ctxDone /\ \E l \in Loops : ServiceReturns(l)

Spec == ServiceInit /\ [][Next]_serviceVars

(***************************************************************************)
(* Properties.                                                             *)
(***************************************************************************)
(* Health says "running" only while there is an App, not while the service *)
(* waits for a retry, has given up or has stopped, and "connected" only    *)
(* after a Ready event of that App.                                        *)
HealthTruthful ==
    /\ health.running <=> pc \in {"opening", "open", "serving"}
    /\ health.detail = "connected" <=> pc \in {"open", "serving"}
    /\ health.detail = "gaveUp" <=> failures > MaxRetries /\ pc # "stopped"

(* Every failed attempt may leave goroutines of the background services    *)
(* behind, but never more than the schedule has attempts.                  *)
LeakBounded == Cardinality(running) <= MaxRetries + 1

Mode ==
    CASE pc \in {"creating", "opening"} -> "trying"
      [] pc \in {"open", "serving"} -> "working"
      [] pc = "retrying" -> "waiting"
      [] OTHER -> pc

Schedule == INSTANCE RetryLoop WITH
    mode <- Mode, told <- ctxDone, failures <- IF pc = "stopped" THEN 0 ELSE failures

(* The service implements the retry loop: it waits before it tries again,  *)
(* and gives up when no attempt in a row as long as the schedule has       *)
(* reached the gateway, never because of failures before that.             *)
KeepsSchedule == Schedule!Spec
=============================================================================
