-------------------------- MODULE TelegramTransports --------------------------
(***************************************************************************)
(* Both transports of the Telegram service: Service.Run goes over the Bot  *)
(* API (TelegramService) or over MTProto, with a client that keeps one     *)
(* connection, on which Telegram sends the updates and a dispatcher calls  *)
(* a handler for each of them (internal/telegram/mtproto.go).              *)
(*                                                                         *)
(* The handlers read the bot's user name, which the client's goroutine     *)
(* writes when it knows who it is.  Nothing orders the two: what is read   *)
(* in the middle of the write may be a length without a text.              *)
(***************************************************************************)
EXTENDS TelegramService

VARIABLES
    transport,    \* cfg.Transport
    botUsername,  \* "unset", "half" written, "set"
    heard         \* updates sent while the service was serving (history)

transportVars == <<vars, transport, botUsername, heard>>

Transports == {"botapi", "mtproto"}

Linked == pc \in {"authorizing", "naming", "named", "running"}

Serving ==
    IF transport = "botapi" THEN pc \in {"polling", "handling"} ELSE pc = "running"

TransportsInit ==
    /\ Init
    /\ transport \in Transports
    /\ botUsername = "unset"
    /\ heard = {}

(* What happens to the service whatever its transport is.                  *)
Unheard == UNCHANGED <<transport, heard>>

WriteHeard ==
    /\ Write
    /\ heard' = IF Serving THEN heard \cup {Len(updates')} ELSE heard
    /\ UNCHANGED <<transport, botUsername>>

Waiting == (TimerFires \/ StopWaiting) /\ Unheard /\ UNCHANGED botUsername

BotAPI ==
    /\ transport = "botapi"
    /\ \/ Connect \/ ConnectFails \/ Drop \/ DropFails
       \/ Poll \/ PollFails \/ Ignore \/ Answer \/ AnswerCancelled
    /\ Unheard
    /\ UNCHANGED botUsername

(***************************************************************************)
(* runMTProtoOnce: the client connects, asks who it is, writes the name,   *)
(* records that it runs, and waits.                                        *)
(***************************************************************************)
MTStep ==
    /\ transport = "mtproto"
    /\ Unheard
    /\ UNCHANGED <<offset, last, ctxDone, backlog>>

Link ==
    /\ pc = "connecting"
    /\ ~ctxDone
    /\ MTStep
    /\ pc' = "authorizing"
    /\ UNCHANGED <<telegram, failures, health, answers, refused, bounds, botUsername>>

\* Faulty: records that it runs, and then writes the name.
AuthorizeRunning ==
    /\ pc = "authorizing"
    /\ MTStep
    /\ pc' = "running"
    /\ health' = "running"
    /\ refused' = 0
    /\ UNCHANGED <<telegram, failures, answers, bounds, botUsername>>

Authorize ==
    /\ pc = "authorizing"
    /\ MTStep
    /\ pc' = "naming"
    /\ botUsername' = "half"
    /\ UNCHANGED <<telegram, failures, health, answers, refused, bounds>>

SetUsername ==
    /\ pc = "naming"
    /\ MTStep
    /\ pc' = "named"
    /\ botUsername' = "set"
    /\ UNCHANGED <<telegram, failures, health, answers, refused, bounds>>

RecordRunning ==
    /\ pc = "named"
    /\ MTStep
    /\ pc' = "running"
    /\ health' = "running"
    /\ refused' = 0
    /\ UNCHANGED <<telegram, failures, answers, bounds, botUsername>>

(* runMTProto, when the client has failed.  A failure is the first of its  *)
(* row when the service has run since the attempt started (hasOKSince).    *)
LinkFails ==
    /\ pc \in {"connecting", "authorizing"}
    /\ ~ctxDone
    /\ MTStep
    /\ Fault
    /\ refused' = refused + 1
    /\ Retry(failures + 1)
    /\ botUsername' = "unset"
    /\ UNCHANGED <<telegram, answers>>

\* Faulty: does not ask whether the service has run.
BreakCounted ==
    /\ pc = "running"
    /\ ~ctxDone
    /\ MTStep
    /\ Fault
    /\ Retry(failures + 1)
    /\ botUsername' = "unset"
    /\ UNCHANGED <<telegram, answers, refused>>

Break ==
    /\ pc = "running"
    /\ ~ctxDone
    /\ MTStep
    /\ Fault
    /\ Retry(1)
    /\ botUsername' = "unset"
    /\ UNCHANGED <<telegram, answers, refused>>

StopRunning ==
    /\ pc \in {"authorizing", "running"}
    /\ ctxDone
    /\ transport = "mtproto"
    /\ Stop
    /\ Unheard
    /\ botUsername' = "unset"

(***************************************************************************)
(* Telegram sends an update once, on the connection there is; what comes   *)
(* when there is none it may forget.                                       *)
(***************************************************************************)
Receive ==
    /\ Linked
    /\ kept <= Len(updates)
    /\ MTStep
    /\ kept' = kept + 1
    /\ UNCHANGED <<updates, pc, failures, health, refused, botUsername>>

Lose ==
    /\ kept <= Len(updates)
    /\ MTStep
    /\ kept' = kept + 1
    /\ IF Linked THEN Fault ELSE NoFault
    /\ UNCHANGED <<updates, pc, failures, health, answers, refused, botUsername>>

(* handleMTProtoMessage.  Not for this bot: by somebody else, no command,  *)
(* or a command for a bot of another name, which it is as long as the name *)
(* is not known.  A handler that is cancelled answers nothing either.      *)
ReceiveIgnored ==
    /\ Receive
    /\ updates[kept] = "other" \/ botUsername # "set" \/ ctxDone
    /\ UNCHANGED <<answers, bounds>>

ReceiveAnswered ==
    /\ Receive
    /\ updates[kept] = "command"
    /\ ~ctxDone
    /\ \/ answers' = [answers EXCEPT ![kept] = @ + 1] /\ (NoFault \/ Fault)
       \/ Fault /\ UNCHANGED answers

(* A name read while it is written: the process dies of it.                *)
TornRead ==
    /\ botUsername = "half"
    /\ kept <= Len(updates)
    /\ updates[kept] = "command"
    /\ kept' = kept + 1
    /\ pc' = "down"
    /\ failures' = 0 /\ refused' = 0
    /\ health' = "notStarted"
    /\ ctxDone' = FALSE
    /\ botUsername' = "unset"
    /\ UNCHANGED <<updates, offset, last, answers, backlog, bounds, transport, heard>>

MTProto ==
    \/ Link \/ Authorize \/ SetUsername \/ RecordRunning
    \/ LinkFails \/ Break \/ StopRunning
    \/ ReceiveIgnored \/ ReceiveAnswered \/ Lose \/ TornRead

(***************************************************************************)
(* Properties.                                                             *)
(***************************************************************************)
(* A command sent while the service was serving is answered, unless a call *)
(* failed or the service was stopped: over the Bot API it is not dropped   *)
(* as stale, over MTProto the service knows its name before it says that   *)
(* it runs.                                                                *)
HeardIsAnswered ==
    faults = 0 /\ stops = 0 =>
        \A i \in heard : updates[i] = "command" /\ i < (IF pc = "handling" THEN offset ELSE kept)
                         => answers[i] = 1

(* Over the Bot API nothing is answered that was written before the        *)
(* service last connected, or before it dropped what it found: after a     *)
(* restart, a wait or a poll that failed.  Over MTProto nothing is dropped.*)
StaleNotAnswered ==
    [][transport = "botapi" =>
           \A i \in 1..MaxUpdates : answers'[i] # answers[i] => i > backlog]_transportVars

Mode ==
    CASE pc \in {"connecting", "authorizing", "naming", "named"} -> "trying"
      [] pc \in Connected \cup {"running"} -> "working"
      [] pc = "retrying" -> "waiting"
      [] OTHER -> pc

(* Over MTProto the count is only set back when the next attempt fails.    *)
Schedule == INSTANCE RetryLoop WITH
    mode <- Mode, told <- ctxDone,
    failures <- IF Mode \in {"working", "stopped"} THEN 0 ELSE failures

(* With either transport the service implements the retry loop: it gives   *)
(* up when a whole schedule of attempts in a row did not get to run, and   *)
(* never because of failures before it last ran.                           *)
KeepsSchedule == Schedule!Spec
=============================================================================
