----------------------------- MODULE Heartbeat -----------------------------
(***************************************************************************)
(* The heartbeat of shawnb: a background service of its Discord service    *)
(* that writes into heartbeat.json whether the bot is ready                *)
(* (internal/shawnb/heartbeat), and the monitor in the other process that  *)
(* tells from the file, and its age, whether shawnb is online              *)
(* (internal/shawnb/monitor).                                              *)
(*                                                                         *)
(* Time is counted in refresh periods.  Only ages matter, so they are kept *)
(* instead of a clock, and stop growing when they are beyond StaleAfter.   *)
(***************************************************************************)
EXTENDS DiscordService

CONSTANTS
    StaleAfter,      \* staleAfter, in refresh periods
    MaxWriteErrors   \* bound on writes of the heartbeat that fail

ASSUME HeartbeatAssumption ==
    /\ StaleAfter \in Nat
    /\ MaxWriteErrors \in Nat

VARIABLES
    file,         \* what heartbeat.json says: "none", "ready" or "notReady"
    age,          \* time since it was written
    unready,      \* time since the process was ready (history)
    writeErrors

heartbeatVars == <<file, age, unready, writeErrors>>
allVars == <<serviceVars, heartbeatVars>>

Ages == 0..(StaleAfter + 1)

HeartbeatTypeOK ==
    /\ ServiceTypeOK
    /\ file \in {"none", "ready", "notReady"}
    /\ age \in Ages
    /\ unready \in Ages
    /\ writeErrors \in Nat

HeartbeatInit ==
    /\ ServiceInit
    /\ file = "none"
    /\ age = StaleAfter + 1
    /\ unready = StaleAfter + 1
    /\ writeErrors = 0

Older(a) == IF a > StaleAfter THEN a ELSE a + 1

PassTime ==
    /\ age' = Older(age)
    /\ unready' = IF ready THEN 0 ELSE Older(unready)
    /\ UNCHANGED <<serviceVars, file, writeErrors>>

(* A step of the service leaves the file alone.                            *)
FileAlone ==
    /\ unready' = IF ready \/ ready' THEN 0 ELSE unready
    /\ UNCHANGED <<file, age, writeErrors>>

ServiceStep == ServiceNext /\ FileAlone

(***************************************************************************)
(* heartbeat.Service.Run and Store.Write, which replaces the file with a   *)
(* rename.                                                                 *)
(***************************************************************************)
Write(isReady) ==
    /\ file' = IF isReady THEN "ready" ELSE "notReady"
    /\ age' = 0

\* Faulty: writes that the bot is ready as soon as the service runs.
BeatAlwaysReady(l) ==
    /\ l \in running
    /\ Write(TRUE)
    /\ UNCHANGED <<serviceVars, unready, writeErrors>>

\* Faulty: only writes what has changed.
BeatOnChange(l) ==
    /\ l \in running
    /\ file # IF ready THEN "ready" ELSE "notReady"
    /\ Write(ready)
    /\ UNCHANGED <<serviceVars, unready, writeErrors>>

(* The first write, the startup timer, or the ticker: also when the        *)
(* context is cancelled, select takes any case that is ready.              *)
Beat(l) ==
    /\ l \in running
    /\ Write(ready)
    /\ UNCHANGED <<serviceVars, unready, writeErrors>>

WriteError ==
    /\ writeErrors < MaxWriteErrors
    /\ writeErrors' = writeErrors + 1
    /\ UNCHANGED <<file, age>>

(* A write that fails ends the service.                                    *)
BeatFails(l) ==
    /\ ServiceReturns(l)
    /\ WriteError
    /\ UNCHANGED unready

\* Faulty: returns without a last write.
LastBeatForgotten(l) ==
    /\ ctxDone
    /\ ServiceReturns(l)
    /\ UNCHANGED heartbeatVars

(* The last write; its error is ignored.                                   *)
LastBeat(l) ==
    /\ ctxDone
    /\ ServiceReturns(l)
    /\ \/ Write(FALSE) /\ UNCHANGED writeErrors
       \/ WriteError
    /\ UNCHANGED unready

HeartbeatNext ==
    \/ PassTime
    \/ ServiceStep
    \/ \E l \in Loops : Beat(l) \/ BeatFails(l) \/ LastBeat(l)

HeartbeatSpec == HeartbeatInit /\ [][HeartbeatNext]_allVars

(***************************************************************************)
(* Time passes, and every goroutine that can take a step takes it; nothing *)
(* is assumed of the network.                                              *)
(***************************************************************************)
HeartbeatFairness ==
    /\ WF_allVars(PassTime)
    /\ WF_allVars((NewAppFails \/ RunApp) /\ FileAlone)
    /\ WF_allVars((RunFails \/ OpenGateway) /\ FileAlone)
    /\ WF_allVars(MarkReady /\ FileAlone)
    /\ WF_allVars(TimerFires /\ FileAlone) /\ WF_allVars(StopWaiting /\ FileAlone)
    /\ WF_allVars(Close /\ FileAlone)
    /\ WF_allVars(Exit /\ FileAlone) /\ WF_allVars(Restart /\ FileAlone)
    /\ \A l \in Loops : WF_allVars(Beat(l)) /\ WF_allVars(LastBeat(l))

FairHeartbeatSpec == HeartbeatSpec /\ HeartbeatFairness

(***************************************************************************)
(* monitor.Status.                                                         *)
(***************************************************************************)
\* Faulty: a heartbeat of any age will do.
OnlineAtAnyAge == file = "ready"

Online == file = "ready" /\ age <= StaleAfter

(***************************************************************************)
(* Properties.                                                             *)
(***************************************************************************)
(* The monitor says "discord connected" only when the bot is ready, or was *)
(* within staleAfter: after a crash, with the file as it was left, and     *)
(* while goroutines of failed attempts write to it too.                    *)
OnlineOnlyRecently == Online => unready <= StaleAfter

(* What OnlineOnlyRecently rests on: a file that says "ready" was true     *)
(* when it was written.                                                    *)
FileWasTrue == file = "ready" => unready <= age

(* While the bot is ready the monitor finds it online again and again:     *)
(* after writes that failed too, as long as a heartbeat is left.           *)
StaysOnline == []<>(Online \/ ~ready \/ running = {})

(* A bot that was ready and exits in an orderly way leaves a file that     *)
(* says "notReady", unless a write failed or a goroutine of a failed      *)
(* attempt was still writing.                                              *)
ExitsOffline ==
    [][ready /\ Exit => file # "ready" \/ running # {} \/ writeErrors > 0]_allVars
=============================================================================
