-------------------------- MODULE HeartbeatProofs --------------------------
(***************************************************************************)
(* What is proved of DiscordService and Heartbeat for every number of      *)
(* attempts, crashes, shutdowns and failed writes, and every StaleAfter:   *)
(* the health that is reported is the truth, failed attempts leave at most *)
(* MaxRetries + 1 goroutines of a background service behind, and the       *)
(* monitor never takes a bot for online that was not ready lately.         *)
(***************************************************************************)
EXTENDS Heartbeat, FiniteSetTheorems, TLAPS

(***************************************************************************)
(* LeakBounded is not inductive: it needs that each attempt that failed    *)
(* was counted, and that the count is within the schedule whenever another *)
(* attempt may follow.                                                     *)
(***************************************************************************)
Counted ==
    /\ pc \notin {"gaveUp", "stopped"} => failures <= MaxRetries
    /\ pc = "down" => running = {} /\ failures = 0
    /\ pc \in {"creating", "retrying"} => Cardinality(running) <= failures
    /\ pc = "opening" => Cardinality(running) <= failures + 1

ServiceInductive == ServiceTypeOK /\ HealthTruthful /\ Counted /\ LeakBounded

(* A step that leaves running alone, or removes from it, keeps the count.  *)
LEMMA FewerRunning ==
    ASSUME ServiceTypeOK, NEW l \in Loops
    PROVE  /\ IsFiniteSet(running)
           /\ Cardinality(running) \in Nat
           /\ Cardinality(running \ {l}) \in Nat
           /\ Cardinality(running \ {l}) <= Cardinality(running)
<1>1. IsFiniteSet(running)
  BY FS_Subset, ServiceAssumption DEF ServiceTypeOK
<1>2. Cardinality(running) \in Nat
  BY <1>1, FS_CardinalityType
<1>3. /\ IsFiniteSet(running \ {l})
      /\ Cardinality(running \ {l}) = IF l \in running THEN Cardinality(running) - 1
                                                       ELSE Cardinality(running)
  BY <1>1, FS_RemoveElement
<1>4. Cardinality(running \ {l}) \in Nat
  BY <1>3, FS_CardinalityType
<1> QED BY <1>1, <1>2, <1>3, <1>4

LEMMA RunningCount == ServiceTypeOK => IsFiniteSet(running) /\ Cardinality(running) \in Nat
<1> SUFFICES ASSUME ServiceTypeOK PROVE IsFiniteSet(running) /\ Cardinality(running) \in Nat
  OBVIOUS
<1>1. IsFiniteSet(running)
  BY FS_Subset, ServiceAssumption DEF ServiceTypeOK
<1> QED BY <1>1, FS_CardinalityType

LEMMA ServiceStarts == ServiceInit => ServiceInductive
<1> SUFFICES ASSUME ServiceInit PROVE ServiceInductive
  OBVIOUS
<1>1. Cardinality({}) = 0
  BY FS_EmptySet
<1>2. ServiceTypeOK
  <2>1. 0 \in 0..(MaxRetries + 1)
    BY ServiceAssumption
  <2>2. health \in Health
    BY DEF ServiceInit, Health, Reported
  <2> QED BY <2>1, <2>2 DEF ServiceInit, ServiceTypeOK
<1>3. HealthTruthful
  BY ServiceAssumption DEF ServiceInit, HealthTruthful, Reported
<1>4. Counted /\ LeakBounded
  BY <1>1, ServiceAssumption DEF ServiceInit, Counted, LeakBounded
<1> QED BY <1>2, <1>3, <1>4 DEF ServiceInductive

(* The steps of Service.Run and of the process: types.                     *)
LEMMA ServiceTypeKeeps == ServiceInductive /\ ServiceNext => ServiceTypeOK'
<1> SUFFICES ASSUME ServiceTypeOK, Counted, ServiceNext PROVE ServiceTypeOK'
  BY DEF ServiceInductive
<1>1. failures' \in 0..(MaxRetries + 1)
  <2> USE ServiceAssumption DEF ServiceTypeOK
  <2>1. CASE NewAppFails \/ RunFails
    <3>1. failures \in Nat /\ failures <= MaxRetries
      BY <2>1 DEF NewAppFails, RunFails, Counted
    <3>2. failures' = failures \/ failures' = failures + 1
      BY <2>1 DEF NewAppFails, RunFails, Retry, Stop
    <3> QED BY <3>1, <3>2
  <2>2. CASE UNCHANGED failures
    BY <2>2
  <2>3. CASE failures' = 0
    BY <2>3
  <2> QED
    BY <2>1, <2>2, <2>3
    DEF ServiceNext, RunApp, OpenGateway, MarkReady, Disconnect, Reconnect, TimerFires,
        StopWaiting, Close, Shutdown, Exit, Crash, ProcessGone, Restart
<1>2. health' \in Health
  <2>1. CASE UNCHANGED health
    BY <2>1 DEF ServiceTypeOK
  <2>2. ASSUME NEW b \in BOOLEAN,
               NEW d \in {"notStarted", "connecting", "connected", "retrying", "gaveUp",
                          "stopped"},
               health' = Reported(b, d)
        PROVE  health' \in Health
    BY <2>2 DEF Reported, Health
  <2> QED
    BY <2>1, <2>2
    DEF ServiceNext, NewAppFails, RunApp, RunFails, Retry, Stop, OpenGateway, MarkReady,
        Disconnect, Reconnect, TimerFires, StopWaiting, Close, Shutdown, Exit, Crash,
        ProcessGone, Restart
<1>3. /\ pc' \in {"down", "creating", "opening", "open", "serving",
                 "retrying", "gaveUp", "stopped"}
      /\ running' \subseteq Loops
      /\ waited' \subseteq Loops
  BY DEF ServiceTypeOK, ServiceNext, NewAppFails, RunApp, RunFails, Retry, Stop, OpenGateway,
         MarkReady, Disconnect, Reconnect, TimerFires, StopWaiting, Close, Shutdown, Exit,
         Crash, ProcessGone, Restart
<1>4. connected' \in BOOLEAN
  BY DEF ServiceTypeOK, ServiceNext, NewAppFails, RunApp, RunFails, Retry, Stop, OpenGateway,
         MarkReady, Disconnect, Reconnect, TimerFires, StopWaiting, Close, Shutdown, Exit,
         Crash, ProcessGone, Restart
<1>5. ready' \in BOOLEAN
  BY DEF ServiceTypeOK, ServiceNext, NewAppFails, RunApp, RunFails, Retry, Stop, OpenGateway,
         MarkReady, Disconnect, Reconnect, TimerFires, StopWaiting, Close, Shutdown, Exit,
         Crash, ProcessGone, Restart
<1>6. ctxDone' \in BOOLEAN
  BY DEF ServiceTypeOK, ServiceNext, NewAppFails, RunApp, RunFails, Retry, Stop, OpenGateway,
         MarkReady, Disconnect, Reconnect, TimerFires, StopWaiting, Close, Shutdown, Exit,
         Crash, ProcessGone, Restart
<1>7. crashes' \in Nat /\ stops' \in Nat
  <2>1. CASE Shutdown
    BY <2>1 DEF ServiceTypeOK, Shutdown
  <2>2. CASE Exit
    BY <2>2 DEF ServiceTypeOK, Exit, ProcessGone
  <2>3. CASE Crash
    BY <2>3 DEF ServiceTypeOK, Crash, ProcessGone
  <2>4. CASE UNCHANGED <<crashes, stops>>
    BY <2>4 DEF ServiceTypeOK
  <2> QED
    BY <2>1, <2>2, <2>3, <2>4
    DEF ServiceNext, NewAppFails, RunApp, RunFails, OpenGateway, MarkReady, Disconnect,
        Reconnect, TimerFires, StopWaiting, Close, Restart
<1> QED BY <1>1, <1>2, <1>3, <1>4, <1>5, <1>6, <1>7 DEF ServiceTypeOK

(* What is reported.                                                       *)
LEMMA HealthKeeps == ServiceInductive /\ ServiceNext => HealthTruthful'
<1> SUFFICES ASSUME ServiceTypeOK, HealthTruthful, Counted, ServiceNext PROVE HealthTruthful'
  BY DEF ServiceInductive
<1> USE ServiceAssumption DEF ServiceTypeOK, Health, Reported, HealthTruthful, Counted
<1>1. CASE NewAppFails \/ RunFails
  BY <1>1 DEF NewAppFails, RunFails, Retry, Stop
<1>2. CASE RunApp
  BY <1>2 DEF RunApp
<1>3. CASE OpenGateway \/ MarkReady \/ Disconnect \/ Reconnect
  BY <1>3 DEF OpenGateway, MarkReady, Disconnect, Reconnect
<1>4. CASE TimerFires \/ StopWaiting \/ Close
  BY <1>4 DEF TimerFires, StopWaiting, Close, Stop
<1>5. CASE Shutdown \/ Exit \/ Crash \/ Restart
  BY <1>5 DEF Shutdown, Exit, Crash, ProcessGone, Restart
<1> QED BY <1>1, <1>2, <1>3, <1>4, <1>5 DEF ServiceNext

(* And the count of what is left running.                                  *)
LEMMA CountKeeps == ServiceInductive /\ ServiceNext => Counted' /\ LeakBounded'
<1> SUFFICES ASSUME ServiceTypeOK, Counted, LeakBounded, ServiceNext
             PROVE  Counted' /\ LeakBounded'
  BY DEF ServiceInductive
<1> DEFINE n == Cardinality(running)
<1>1. IsFiniteSet(running) /\ n \in Nat
  BY RunningCount
<1>2. failures \in Nat /\ MaxRetries \in Nat
  BY ServiceAssumption DEF ServiceTypeOK
<1>3. n \in Nat
  BY <1>1
<1> HIDE DEF n
<1>4. CASE RunApp
  <2>1. PICK l \in Loops \ running : running' = running \cup {l} /\ waited' = {l}
    BY <1>4 DEF RunApp
  <2>2. Cardinality(running') = n + 1
    BY <1>1, <2>1, FS_AddElement DEF n
  <2>3. Cardinality(running) = n
    BY DEF n
  <2> QED BY <1>2, <1>3, <1>4, <2>2, <2>3 DEF RunApp, Counted, LeakBounded
<1>5. CASE Exit \/ Crash
  <2>1. Cardinality(running') = 0
    BY <1>5, FS_EmptySet DEF Exit, Crash, ProcessGone
  <2>2. pc' = "down" /\ failures' = 0 /\ running' = {}
    BY <1>5 DEF Exit, Crash, ProcessGone
  <2> QED BY <1>2, <2>1, <2>2 DEF Counted, LeakBounded
<1>6. CASE Restart
  <2>1. running = {} /\ Cardinality(running') = 0 /\ failures' = 0
    BY <1>6, FS_EmptySet DEF Restart, Counted
  <2> QED BY <1>2, <1>6, <2>1 DEF Restart, Counted, LeakBounded
<1>7. CASE UNCHANGED running
  <2>1. Cardinality(running) = n /\ Cardinality(running') = n
    BY <1>7 DEF n
  <2> USE DEF Counted, LeakBounded
  <2>2. CASE NewAppFails
    <3>1. /\ n <= failures
          /\ failures' = failures + 1
          /\ \/ pc' = "retrying" /\ failures' <= MaxRetries
             \/ pc' = "gaveUp" /\ failures <= MaxRetries
      BY <1>2, <2>1, <2>2 DEF NewAppFails, Retry
    <3> QED BY <1>2, <1>3, <2>1, <3>1
  <2>3. CASE RunFails
    BY <1>2, <1>3, <2>1, <2>3 DEF RunFails, Retry, Stop
  <2>4. CASE OpenGateway
    BY <1>2, <1>3, <2>1, <2>4 DEF OpenGateway
  <2>5. CASE Reconnect
    BY <1>2, <1>3, <2>1, <2>5 DEF Reconnect
  <2>6. CASE MarkReady \/ Disconnect
    BY <1>2, <1>3, <2>1, <2>6 DEF MarkReady, Disconnect
  <2>7. CASE TimerFires \/ StopWaiting \/ Close
    BY <1>2, <1>3, <2>1, <2>7 DEF TimerFires, StopWaiting, Close, Stop
  <2>8. CASE Shutdown
    BY <1>2, <1>3, <2>1, <2>8 DEF Shutdown
  <2> QED BY <2>2, <2>3, <2>4, <2>5, <2>6, <2>7, <2>8, <1>4, <1>5, <1>6 DEF ServiceNext
<1> QED
  <2>1. UNCHANGED running \/ RunApp \/ Exit \/ Crash \/ Restart
    BY DEF ServiceNext, NewAppFails, RunFails, OpenGateway, MarkReady, Disconnect,
           Reconnect, TimerFires, StopWaiting, Close, Shutdown
  <2> QED BY <1>4, <1>5, <1>6, <1>7, <2>1

LEMMA ServiceStepKeeps == ServiceInductive /\ ServiceNext => ServiceInductive'
  BY ServiceTypeKeeps, HealthKeeps, CountKeeps DEF ServiceInductive

(* A background service that returns only removes itself.                  *)
LEMMA ServiceReturnsKeeps ==
    ASSUME NEW l \in Loops, ServiceInductive, ServiceReturns(l)
    PROVE  ServiceInductive'
<1>1. /\ Cardinality(running) \in Nat
      /\ Cardinality(running \ {l}) \in Nat
      /\ Cardinality(running \ {l}) <= Cardinality(running)
  BY FewerRunning DEF ServiceInductive
<1>2. ServiceTypeOK'
  BY DEF ServiceInductive, ServiceTypeOK, ServiceReturns
<1>3. HealthTruthful'
  BY DEF ServiceInductive, HealthTruthful, ServiceReturns
<1>4. Counted' /\ LeakBounded'
  BY <1>1, ServiceAssumption
  DEF ServiceInductive, ServiceTypeOK, Counted, LeakBounded, ServiceReturns
<1> QED BY <1>2, <1>3, <1>4 DEF ServiceInductive

LEMMA ServiceStutters == ServiceInductive /\ UNCHANGED serviceVars => ServiceInductive'
  BY DEF ServiceInductive, ServiceTypeOK, HealthTruthful, Counted, LeakBounded, serviceVars

(* The Discord service with any background service: what Health reports is *)
(* what the service does, whatever fails and however often.                *)
THEOREM HealthIsTruthful == Spec => []HealthTruthful
<1>1. ServiceInductive /\ [Next]_serviceVars => ServiceInductive'
  BY ServiceStepKeeps, ServiceReturnsKeeps, ServiceStutters DEF Next
<1>2. ServiceInductive => HealthTruthful
  BY DEF ServiceInductive
<1> QED BY <1>1, <1>2, ServiceStarts, PTL DEF Spec

(* The goroutines that failed attempts leave behind are at most as many as *)
(* the schedule has attempts.                                              *)
THEOREM LeakIsBounded == Spec => []LeakBounded
<1>1. ServiceInductive /\ [Next]_serviceVars => ServiceInductive'
  BY ServiceStepKeeps, ServiceReturnsKeeps, ServiceStutters DEF Next
<1>2. ServiceInductive => LeakBounded
  BY DEF ServiceInductive
<1> QED BY <1>1, <1>2, ServiceStarts, PTL DEF Spec

(***************************************************************************)
(* The heartbeat.                                                          *)
(***************************************************************************)
HeartbeatInductive ==
    /\ ServiceInductive
    /\ HeartbeatTypeOK
    /\ ready => unready = 0
    /\ FileWasTrue

LEMMA HeartbeatStarts == HeartbeatInit => HeartbeatInductive
<1> SUFFICES ASSUME HeartbeatInit PROVE HeartbeatInductive
  OBVIOUS
<1>1. ServiceInductive
  BY ServiceStarts DEF HeartbeatInit
<1> QED
  BY <1>1, HeartbeatAssumption
  DEF HeartbeatInit, HeartbeatInductive, HeartbeatTypeOK, ServiceInductive, ServiceInit,
      FileWasTrue, Ages

(* Ages grow together, so their order is kept.                             *)
LEMMA OlderIsMonotone ==
    ASSUME NEW a \in Ages, NEW b \in Ages, a <= b
    PROVE  Older(a) \in Ages /\ Older(a) <= Older(b)
  BY HeartbeatAssumption DEF Ages, Older

LEMMA HeartbeatStepKeeps ==
    HeartbeatInductive /\ [HeartbeatNext]_allVars => HeartbeatInductive'
<1> SUFFICES ASSUME HeartbeatInductive, [HeartbeatNext]_allVars PROVE HeartbeatInductive'
  OBVIOUS
<1> USE HeartbeatAssumption DEF Ages
<1>0. 0 \in Ages /\ Ages \subseteq Nat
  OBVIOUS
<1>a. age \in Ages /\ unready \in Ages /\ ready \in BOOLEAN
  BY DEF HeartbeatInductive, HeartbeatTypeOK, ServiceTypeOK
<1>b. ServiceInductive' => ServiceTypeOK' /\ ready' \in BOOLEAN
  BY DEF ServiceInductive, ServiceTypeOK
<1>1. CASE PassTime
  <2>1. ServiceInductive'
    BY <1>1, ServiceStutters DEF PassTime, HeartbeatInductive
  <2>2. ready' = ready
    BY <1>1 DEF PassTime, serviceVars
  <2>3. HeartbeatTypeOK'
    BY <1>a, <1>b, <1>1, <2>1 DEF PassTime, Older, HeartbeatInductive, HeartbeatTypeOK
  <2>4. (ready => unready = 0)'
    BY <1>a, <1>1, <2>2 DEF PassTime
  <2>5. FileWasTrue'
    <3>1. CASE ready
      BY <1>1, <2>2, <2>3, <2>4, <3>1 DEF FileWasTrue, HeartbeatTypeOK
    <3>2. CASE ~ready
      BY <1>1, <1>a, <3>2, OlderIsMonotone DEF PassTime, FileWasTrue, HeartbeatInductive
    <3> QED BY <3>1, <3>2
  <2> QED BY <2>1, <2>3, <2>4, <2>5 DEF HeartbeatInductive
<1>2. CASE ServiceStep
  <2>1. ServiceInductive'
    BY <1>2, ServiceStepKeeps DEF ServiceStep, HeartbeatInductive
  <2>2. HeartbeatTypeOK'
    BY <1>a, <1>b, <1>2, <2>1
    DEF ServiceStep, FileAlone, HeartbeatInductive, HeartbeatTypeOK
  <2>3. (ready => unready = 0)'
    BY <1>2 DEF ServiceStep, FileAlone
  <2>4. FileWasTrue'
    BY <1>a, <1>2 DEF ServiceStep, FileAlone, HeartbeatInductive, FileWasTrue
  <2> QED BY <2>1, <2>2, <2>3, <2>4 DEF HeartbeatInductive
<1>3. ASSUME NEW l \in Loops, Beat(l) PROVE HeartbeatInductive'
  <2>1. ServiceInductive'
    BY <1>3, ServiceStutters DEF Beat, HeartbeatInductive
  <2>2. HeartbeatTypeOK'
    BY <1>a, <1>b, <1>3, <2>1 DEF Beat, Write, HeartbeatInductive, HeartbeatTypeOK
  <2>3. (ready => unready = 0)'
    BY <1>3 DEF Beat, HeartbeatInductive, serviceVars
  <2>4. FileWasTrue'
    BY <1>a, <1>3 DEF Beat, Write, HeartbeatInductive, FileWasTrue
  <2> QED BY <2>1, <2>2, <2>3, <2>4 DEF HeartbeatInductive
<1>4. ASSUME NEW l \in Loops, BeatFails(l) PROVE HeartbeatInductive'
  <2>1. ServiceInductive'
    BY <1>4, ServiceReturnsKeeps DEF BeatFails, HeartbeatInductive
  <2>2. HeartbeatTypeOK'
    BY <1>a, <1>b, <1>4, <2>1 DEF BeatFails, WriteError, HeartbeatInductive, HeartbeatTypeOK
  <2>3. (ready => unready = 0)'
    BY <1>4 DEF BeatFails, ServiceReturns, HeartbeatInductive
  <2>4. FileWasTrue'
    BY <1>4 DEF BeatFails, WriteError, HeartbeatInductive, FileWasTrue
  <2> QED BY <2>1, <2>2, <2>3, <2>4 DEF HeartbeatInductive
<1>5. ASSUME NEW l \in Loops, LastBeat(l) PROVE HeartbeatInductive'
  <2>1. ServiceInductive'
    BY <1>5, ServiceReturnsKeeps DEF LastBeat, HeartbeatInductive
  <2>2. HeartbeatTypeOK'
    BY <1>a, <1>b, <1>5, <2>1
    DEF LastBeat, Write, WriteError, HeartbeatInductive, HeartbeatTypeOK
  <2>3. (ready => unready = 0)'
    BY <1>5 DEF LastBeat, ServiceReturns, HeartbeatInductive
  <2>4. FileWasTrue'
    BY <1>5 DEF LastBeat, Write, WriteError, HeartbeatInductive, FileWasTrue
  <2> QED BY <2>1, <2>2, <2>3, <2>4 DEF HeartbeatInductive
<1>6. CASE UNCHANGED allVars
  <2>1. ServiceInductive'
    BY <1>6, ServiceStutters DEF allVars, HeartbeatInductive
  <2>2. HeartbeatTypeOK'
    BY <1>b, <1>6, <2>1 DEF allVars, heartbeatVars, HeartbeatInductive, HeartbeatTypeOK
  <2>3. (ready => unready = 0)' /\ FileWasTrue'
    BY <1>6 DEF allVars, heartbeatVars, serviceVars, HeartbeatInductive, FileWasTrue
  <2> QED BY <2>1, <2>2, <2>3 DEF HeartbeatInductive
<1> QED BY <1>1, <1>2, <1>3, <1>4, <1>5, <1>6 DEF HeartbeatNext

(* The monitor finds the bot online only if it was ready within            *)
(* staleAfter: through crashes, failed writes, and with the heartbeats of  *)
(* failed attempts writing to the same file.                               *)
THEOREM NeverStaleOnline == HeartbeatSpec => []OnlineOnlyRecently
<1>1. HeartbeatInductive => OnlineOnlyRecently
  BY HeartbeatAssumption
  DEF HeartbeatInductive, HeartbeatTypeOK, FileWasTrue, OnlineOnlyRecently, Online, Ages
<1> QED BY <1>1, HeartbeatStarts, HeartbeatStepKeeps, PTL DEF HeartbeatSpec

(* With the heartbeat too, whose loops also end when a write fails.        *)
THEOREM HeartbeatLeakIsBounded == HeartbeatSpec => []LeakBounded
<1>1. HeartbeatInductive => LeakBounded
  BY DEF HeartbeatInductive, ServiceInductive
<1> QED BY <1>1, HeartbeatStarts, HeartbeatStepKeeps, PTL DEF HeartbeatSpec

(***************************************************************************)
(* The retry loop.  A service that has reached the gateway owes nothing to *)
(* the failures before.                                                    *)
(***************************************************************************)
Forgiven == pc \in {"open", "serving"} => failures = 0

LEMMA ForgivenStays ==
    /\ ServiceInit => Forgiven
    /\ Forgiven /\ ServiceNext => Forgiven'
    /\ Forgiven /\ UNCHANGED <<pc, failures>> => Forgiven'
<1>1. ServiceInit => Forgiven
  BY DEF ServiceInit, Forgiven
<1>2. Forgiven /\ ServiceNext => Forgiven'
  BY DEF ServiceNext, NewAppFails, RunApp, RunFails, Retry, Stop, OpenGateway, MarkReady,
         Disconnect, Reconnect, TimerFires, StopWaiting, Close, Shutdown, Exit, Crash,
         ProcessGone, Restart, Forgiven
<1>3. Forgiven /\ UNCHANGED <<pc, failures>> => Forgiven'
  BY DEF Forgiven
<1> QED BY <1>1, <1>2, <1>3

LEMMA ServiceFollowsSchedule ==
    ASSUME ServiceTypeOK, Forgiven, ServiceNext
    PROVE  [Schedule!Next]_Schedule!schedule
<1> USE DEF Schedule!schedule, Mode
<1>1. failures \in Nat /\ MaxRetries \in Nat
  BY ServiceAssumption DEF ServiceTypeOK
<1>2. ASSUME Retry, pc \in {"creating", "opening"}, UNCHANGED ctxDone
      PROVE  Schedule!Fail
  <2>1. failures + 1 <= MaxRetries <=> failures < MaxRetries
    BY <1>1
  <2> QED BY <1>2, <2>1 DEF Retry, Schedule!Fail
<1>3. CASE NewAppFails
  BY <1>2, <1>3 DEF NewAppFails, Schedule!Next
<1>4. CASE RunFails
  <2>1. CASE ctxDone
    <3>1. Schedule!Stop
      BY <1>4, <2>1 DEF RunFails, Stop, Schedule!Stop
    <3> QED BY <3>1 DEF Schedule!Next
  <2>2. CASE ~ctxDone
    BY <1>2, <1>4, <2>2 DEF RunFails, Schedule!Next
  <2> QED BY <2>1, <2>2
<1>5. CASE RunApp \/ MarkReady \/ Disconnect \/ Reconnect
  BY <1>5 DEF RunApp, MarkReady, Disconnect, Reconnect, Forgiven
<1>6. CASE OpenGateway
  <2>1. Schedule!Work
    BY <1>6 DEF OpenGateway, Schedule!Work
  <2> QED BY <2>1 DEF Schedule!Next
<1>7. CASE TimerFires
  <2>1. Schedule!TryAgain
    BY <1>7 DEF TimerFires, Schedule!TryAgain
  <2> QED BY <2>1 DEF Schedule!Next
<1>8. CASE StopWaiting \/ Close
  <2>1. Schedule!Stop
    BY <1>8 DEF StopWaiting, Close, Stop, Schedule!Stop
  <2> QED BY <2>1 DEF Schedule!Next
<1>9. CASE Shutdown
  <2>1. Schedule!Tell
    BY <1>9 DEF ServiceTypeOK, Shutdown, Schedule!Tell
  <2> QED BY <2>1 DEF Schedule!Next
<1>10. CASE Exit \/ Crash
  <2>1. Schedule!Gone
    BY <1>10 DEF Exit, Crash, ProcessGone, Schedule!Gone
  <2> QED BY <2>1 DEF Schedule!Next
<1>11. CASE Restart
  <2>1. Schedule!Restart
    BY <1>11 DEF Restart, Schedule!Restart
  <2> QED BY <2>1 DEF Schedule!Next
<1> QED
  BY <1>3, <1>4, <1>5, <1>6, <1>7, <1>8, <1>9, <1>10, <1>11 DEF ServiceNext

(* The bot's attempts to connect are a retry loop: it gives up only when a *)
(* whole schedule of attempts in a row has not reached the gateway.        *)
THEOREM HeartbeatKeepsSchedule == HeartbeatSpec => KeepsSchedule
<1>1. HeartbeatInit => Forgiven /\ Schedule!Init
  <2>1. HeartbeatInit => Forgiven
    BY ForgivenStays DEF HeartbeatInit
  <2>2. HeartbeatInit => Schedule!Init
    BY DEF HeartbeatInit, ServiceInit, Schedule!Init, Mode
  <2> QED BY <2>1, <2>2
<1>2. ASSUME ServiceTypeOK, Forgiven, [HeartbeatNext]_allVars
      PROVE  Forgiven' /\ [Schedule!Next]_Schedule!schedule
  <2>1. CASE ServiceNext
    BY <1>2, <2>1, ForgivenStays, ServiceFollowsSchedule
  <2>2. CASE UNCHANGED <<pc, failures, ctxDone>>
    BY <1>2, <2>2, ForgivenStays DEF Schedule!schedule, Mode
  <2> QED
    BY <1>2, <2>1, <2>2
    DEF HeartbeatNext, ServiceStep, PassTime, Beat, BeatFails, LastBeat, ServiceReturns,
        allVars, serviceVars
<1>3. HeartbeatInductive => ServiceTypeOK
  BY DEF HeartbeatInductive, ServiceInductive
<1> QED
  BY <1>1, <1>2, <1>3, HeartbeatStarts, HeartbeatStepKeeps, PTL
  DEF HeartbeatSpec, KeepsSchedule, Schedule!Spec

(***************************************************************************)
(* The last heartbeat.  From when an attempt has started its heartbeat to  *)
(* the end of the process, the loop that returns last has written, or has  *)
(* failed to, that the bot is not ready.                                   *)
(***************************************************************************)
LastWord ==
    ready \/ pc \in {"opening", "open", "serving"}
        => file # "ready" \/ running # {} \/ writeErrors > 0

LEMMA LastWordKeeps ==
    HeartbeatInductive /\ LastWord /\ [HeartbeatNext]_allVars => LastWord'
<1> SUFFICES ASSUME HeartbeatInductive, LastWord, [HeartbeatNext]_allVars PROVE LastWord'
  OBVIOUS
<1>0. writeErrors \in Nat
  BY DEF HeartbeatInductive, HeartbeatTypeOK
<1>1. CASE PassTime \/ UNCHANGED allVars
  BY <1>1 DEF PassTime, allVars, heartbeatVars, serviceVars, LastWord
<1>2. CASE ServiceStep
  <2>1. UNCHANGED <<file, writeErrors>>
    BY <1>2 DEF ServiceStep, FileAlone
  <2>2. CASE RunApp
    BY <2>2 DEF RunApp, LastWord
  <2>3. CASE Exit \/ Crash
    BY <2>3 DEF Exit, Crash, ProcessGone, LastWord
  <2>4. CASE NewAppFails \/ RunFails
    BY <2>1, <2>4 DEF NewAppFails, RunFails, Retry, Stop, LastWord
  <2>5. CASE OpenGateway \/ MarkReady \/ Disconnect \/ Reconnect
    BY <2>1, <2>5 DEF OpenGateway, MarkReady, Disconnect, Reconnect, LastWord
  <2>6. CASE TimerFires \/ StopWaiting \/ Close \/ Shutdown \/ Restart
    BY <2>1, <2>6 DEF TimerFires, StopWaiting, Close, Shutdown, Restart, Stop, LastWord
  <2> QED
    BY <1>2, <2>2, <2>3, <2>4, <2>5, <2>6 DEF ServiceStep, ServiceNext
<1>3. ASSUME NEW l \in Loops, Beat(l) PROVE LastWord'
  BY <1>3 DEF Beat, serviceVars, LastWord
<1>4. ASSUME NEW l \in Loops, BeatFails(l) \/ LastBeat(l) PROVE LastWord'
  <2>1. file' = "notReady" \/ writeErrors' = writeErrors + 1
    BY <1>4 DEF BeatFails, LastBeat, WriteError, Write
  <2>2. file' # "ready" \/ writeErrors' > 0
    BY <1>0, <2>1
  <2> QED BY <2>2 DEF LastWord
<1> QED BY <1>1, <1>2, <1>3, <1>4 DEF HeartbeatNext

(* A bot that was ready and exits in an orderly way leaves a file that     *)
(* says "notReady", unless a write failed or a goroutine of a failed       *)
(* attempt was still writing; for any number of attempts and restarts.     *)
THEOREM HeartbeatExitsOffline == HeartbeatSpec => ExitsOffline
<1>1. HeartbeatInit => LastWord
  BY DEF HeartbeatInit, ServiceInit, LastWord
<1>2. LastWord /\ [HeartbeatNext]_allVars =>
          [ready /\ Exit => file # "ready" \/ running # {} \/ writeErrors > 0]_allVars
  BY DEF LastWord
<1> QED
  BY <1>1, <1>2, LastWordKeeps, HeartbeatStarts, HeartbeatStepKeeps, PTL
  DEF HeartbeatSpec, ExitsOffline
=============================================================================
