----------------------------- MODULE Reminders -----------------------------
(***************************************************************************)
(* The reminders of shawnb: chat messages that schedule or cancel          *)
(* reminders (reminder.Coordinator), the file that keeps them              *)
(* (ReminderStore), and the scheduler that sends the ones that are due     *)
(* (reminder.Scheduler), inside the life of the bot process that runs      *)
(* them: bot.App.Run, which starts a scheduler loop at every attempt to    *)
(* connect, shutdown, crash and restart.                                   *)
(*                                                                         *)
(* Time is counted in scheduler ticks (tickInterval, 15 s).                *)
(***************************************************************************)
EXTENDS ReminderStore, FiniteSets

CONSTANTS
    Users,            \* authors of messages
    Handlers,         \* gateway event handlers that may run at once
    Loops,            \* scheduler goroutines; bounds the attempts to connect
    NumReminders,     \* bound on the reminders ever added
    MaxNow,           \* bound on the clock
    MinLeadTime,      \* minLeadTime, in ticks
    MaxFuture,        \* maxFutureDuration, in ticks
    Cooldown,         \* reminderParseCooldown, in ticks
    MaxSendAttempts,  \* maxSendAttempts
    MaxFaults,        \* bound on crashes, I/O errors and lost responses
    MaxStops          \* bound on orderly shutdowns

ASSUME ParametersAssumption ==
    /\ IsFiniteSet(Loops)
    /\ NumReminders \in Nat
    /\ MaxNow \in Nat
    /\ MinLeadTime \in Nat
    /\ MaxFuture \in Nat
    /\ Cooldown \in Nat
    /\ MaxSendAttempts \in Nat \ {0}
    /\ MaxFaults \in Nat
    /\ MaxStops \in Nat

VARIABLES
    \* what survives the process
    now,            \* the clock
    reminders,      \* contents of reminders.json
    nextId,         \* the identifier the next Add hands out
    \* the bot process
    gateway,        \* "down" (no process), "boot", "connecting", "retrying" or "open"
    ready,          \* runtime.State.ready
    ctxDone,        \* the process context is cancelled (SIGTERM)
    running,        \* scheduler loops started and not returned
    waited,         \* the loops App.Run will wait for
    stage,          \* what a loop does with the first reminder of due[l]
    due,            \* what is left of the copy a loop got from Store.Due
    request,        \* what a handler does inside Coordinator.TrySchedule
    cooldownUntil,  \* when Cooldown.Allow lets the user through again
    \* history
    faults, stops,  \* crashes, I/O errors and lost responses; shutdowns
    dueOf,          \* the time every reminder was accepted for
    sent,           \* messages Discord has posted for the reminder
    failed,         \* sends of the reminder that returned an error
    cancelled,      \* reminders removed by RemoveAllForUser
    cancelAcked     \* ... and whose user has been told so

durable == <<now, reminders, nextId>>
process == <<gateway, ready, ctxDone, running, waited>>
loops   == <<stage, due>>
chat    == <<request, cooldownUntil>>
history == <<dueOf, sent, failed, cancelled, cancelAcked>>
vars == <<durable, process, loops, chat, faults, stops, history>>

ReminderIds == 1..NumReminders

Reminder == [id : ReminderIds, user : Users, dueAt : Nat, sendAttempts : Nat]

Idle == [pc |-> "idle"]

Request ==
    {Idle} \cup [pc : {"parsing"}, user : Users, at : Nat]
           \cup [pc : {"adding"}, user : Users, dueAt : Nat]
           \cup [pc : {"cancelling"}, user : Users]
           \cup [pc : {"confirming"}, cancels : SUBSET ReminderIds]

TypeOK ==
    /\ now \in Nat
    /\ reminders \subseteq Reminder
    /\ nextId \in 1..(NumReminders + 1)
    /\ gateway \in {"down", "boot", "connecting", "retrying", "open"}
    /\ ready \in BOOLEAN
    /\ ctxDone \in BOOLEAN
    /\ running \subseteq Loops
    /\ waited \subseteq Loops
    /\ stage \in [Loops -> {"pick", "sending", "sent", "failed"}]
    /\ due \in [Loops -> SUBSET Reminder]
    /\ request \in [Handlers -> Request]
    /\ cooldownUntil \in [Users -> Nat]
    /\ faults \in Nat
    /\ stops \in Nat
    /\ dueOf \in [ReminderIds -> Nat]
    /\ sent \in [ReminderIds -> Nat]
    /\ failed \in [ReminderIds -> Nat]
    /\ cancelled \subseteq ReminderIds
    /\ cancelAcked \subseteq ReminderIds

Init ==
    /\ now = 0
    /\ reminders = {}
    /\ nextId = 1
    /\ gateway = "boot"
    /\ ready = FALSE
    /\ ctxDone = FALSE
    /\ running = {}
    /\ waited = {}
    /\ stage = [l \in Loops |-> "pick"]
    /\ due = [l \in Loops |-> {}]
    /\ request = [h \in Handlers |-> Idle]
    /\ cooldownUntil = [u \in Users |-> 0]
    /\ faults = 0
    /\ stops = 0
    /\ dueOf = [i \in ReminderIds |-> 0]
    /\ sent = [i \in ReminderIds |-> 0]
    /\ failed = [i \in ReminderIds |-> 0]
    /\ cancelled = {}
    /\ cancelAcked = {}

(***************************************************************************)
(* The environment: the clock, and faults.                                 *)
(***************************************************************************)
Advance ==
    /\ now < MaxNow
    /\ now' = now + 1
    /\ UNCHANGED <<reminders, nextId, process, loops, chat, faults, stops, history>>

Fault ==
    /\ faults < MaxFaults
    /\ faults' = faults + 1

(***************************************************************************)
(* The bot process.  App.Run starts the background services before it      *)
(* syncs the commands and opens the gateway; when either fails it returns  *)
(* without stopping them, and Service.Run calls it again.                  *)
(***************************************************************************)
\* Faulty: the first attempt is the only one.
RunAppOnce ==
    /\ gateway = "boot"
    /\ ~ctxDone
    /\ gateway' = "connecting"
    /\ \E l \in Loops \ running : running' = running \cup {l} /\ waited' = {l}
    /\ UNCHANGED <<durable, ready, ctxDone, loops, chat, faults, stops, history>>

RunApp ==
    /\ gateway \in {"boot", "retrying"}
    /\ ~ctxDone
    /\ gateway' = "connecting"
    /\ \E l \in Loops \ running : running' = running \cup {l} /\ waited' = {l}
    /\ UNCHANGED <<durable, ready, ctxDone, loops, chat, faults, stops, history>>

OpenFails ==
    /\ gateway = "connecting"
    /\ running # Loops \/ ctxDone
    /\ gateway' = "retrying"
    /\ waited' = {}
    /\ UNCHANGED <<durable, ready, ctxDone, running, loops, chat, faults, stops, history>>

OpenGateway ==
    /\ gateway = "connecting"
    /\ gateway' = "open"
    /\ UNCHANGED <<durable, ready, ctxDone, running, waited, loops, chat, faults, stops, history>>

MarkReady ==
    /\ gateway = "open"
    /\ ~ready
    /\ ready' = TRUE
    /\ UNCHANGED <<durable, gateway, ctxDone, running, waited, loops, chat, faults, stops, history>>

(* The process is gone: memory is lost, the file stays.                    *)
ProcessGone ==
    /\ gateway' = "down"
    /\ ready' = FALSE
    /\ ctxDone' = FALSE
    /\ running' = {}
    /\ waited' = {}
    /\ stage' = [l \in Loops |-> "pick"]
    /\ due' = [l \in Loops |-> {}]
    /\ request' = [h \in Handlers |-> Idle]
    /\ cooldownUntil' = [u \in Users |-> 0]
    /\ UNCHANGED <<durable, stops, history>>

Crash == gateway # "down" /\ Fault /\ ProcessGone

Restart ==
    /\ gateway = "down"
    /\ gateway' = "boot"
    /\ UNCHANGED <<durable, ready, ctxDone, running, waited, loops, chat, faults, stops, history>>

Shutdown ==
    /\ gateway # "down"
    /\ ~ctxDone
    /\ stops < MaxStops
    /\ ctxDone' = TRUE
    /\ stops' = stops + 1
    /\ UNCHANGED <<durable, gateway, ready, running, waited, loops, chat, faults, history>>

(* App.Run waits for the services it started itself, then the process      *)
(* ends, and with it the loops of earlier attempts.                        *)
Exit ==
    /\ ctxDone
    /\ gateway # "connecting"
    /\ waited \cap running = {}
    /\ ProcessGone
    /\ UNCHANGED faults

(***************************************************************************)
(* A scheduler loop.  tick copies the due reminders and fires them one by  *)
(* one, in file order; between two calls into the store anything may       *)
(* happen to the file.                                                     *)
(***************************************************************************)
Tick(l) ==
    /\ l \in running
    /\ ready
    /\ due[l] = {}
    /\ due' = [due EXCEPT ![l] = Due(reminders, now)]
    /\ UNCHANGED <<durable, process, stage, chat, faults, stops, history>>

\* Faulty: a loop that is ready only listens to its ticker.
LoopExitUnlessReady(l) ==
    /\ l \in running
    /\ ctxDone /\ ~ready
    /\ due[l] = {}
    /\ running' = running \ {l}
    /\ UNCHANGED <<durable, gateway, ready, ctxDone, waited, loops, chat, faults, stops, history>>

LoopExit(l) ==
    /\ l \in running
    /\ ctxDone
    /\ due[l] = {}
    /\ running' = running \ {l}
    /\ UNCHANGED <<durable, gateway, ready, ctxDone, waited, loops, chat, faults, stops, history>>

(* r is the reminder the loop is firing.                                   *)
Firing(l, r, s) ==
    /\ stage[l] = s
    /\ IsFirst(r, due[l])

(* fire returns and the loop goes on to the next reminder of its copy.     *)
FireReturns(l, r) ==
    /\ due' = [due EXCEPT ![l] = @ \ {r}]
    /\ stage' = [stage EXCEPT ![l] = "pick"]

(* A mutation of the file by the store, or an I/O error that leaves the    *)
(* file as it was: it is replaced by a rename.                             *)
Write(new) ==
    \/ reminders' = new /\ UNCHANGED faults
    \/ Fault /\ UNCHANGED reminders

\* Faulty: gives up one attempt too soon.
DropOneTooSoon(l, r) ==
    /\ Firing(l, r, "pick")
    /\ r.sendAttempts + 1 >= MaxSendAttempts
    /\ Write(Remove(reminders, r.id))
    /\ FireReturns(l, r)
    /\ UNCHANGED <<now, nextId, process, chat, stops, history>>

DropExhausted(l, r) ==
    /\ Firing(l, r, "pick")
    /\ r.sendAttempts >= MaxSendAttempts
    /\ Write(Remove(reminders, r.id))
    /\ FireReturns(l, r)
    /\ UNCHANGED <<now, nextId, process, chat, stops, history>>

(* CreateMessage is given the context of the process: it refuses to start  *)
(* once that is cancelled, and a request under way is cut short by it.     *)
BeginSend(l, r) ==
    /\ Firing(l, r, "pick")
    /\ r.sendAttempts < MaxSendAttempts
    /\ ~ctxDone
    /\ stage' = [stage EXCEPT ![l] = "sending"]
    /\ UNCHANGED <<durable, process, due, chat, faults, stops, history>>

SendOK(l, r) ==
    /\ Firing(l, r, "sending")
    /\ sent' = [sent EXCEPT ![r.id] = @ + 1]
    /\ stage' = [stage EXCEPT ![l] = "sent"]
    /\ UNCHANGED <<durable, process, due, chat, faults, stops, dueOf, failed, cancelled, cancelAcked>>

\* Faulty: the reminder is removed before it is sent.
SendFailsAfterRemove(l, r) ==
    /\ Firing(l, r, "sending")
    /\ reminders' = Remove(reminders, r.id)
    /\ failed' = [failed EXCEPT ![r.id] = @ + 1]
    /\ stage' = [stage EXCEPT ![l] = "failed"]
    /\ UNCHANGED <<now, nextId, process, due, chat, faults, stops, dueOf, sent, cancelled, cancelAcked>>

(* It returns an error: it was refused, or it failed, or it failed         *)
(* although Discord has posted the message, because the response was lost  *)
(* or the shutdown came before it.                                         *)
SendFails(l, r) ==
    /\ \/ /\ Firing(l, r, "pick")
          /\ r.sendAttempts < MaxSendAttempts
          /\ ctxDone
          /\ UNCHANGED <<sent, faults>>
       \/ Firing(l, r, "sending") /\ UNCHANGED <<sent, faults>>
       \/ /\ Firing(l, r, "sending")
          /\ sent' = [sent EXCEPT ![r.id] = @ + 1]
          /\ \/ ctxDone /\ UNCHANGED faults
             \/ ~ctxDone /\ Fault
    /\ failed' = [failed EXCEPT ![r.id] = @ + 1]
    /\ stage' = [stage EXCEPT ![l] = "failed"]
    /\ UNCHANGED <<durable, process, due, chat, stops, dueOf, cancelled, cancelAcked>>

\* Faulty: a failed send is not counted.
CountNoFailure(l, r) ==
    /\ Firing(l, r, "failed")
    /\ FireReturns(l, r)
    /\ UNCHANGED <<durable, process, chat, faults, stops, history>>

CountFailure(l, r) ==
    /\ Firing(l, r, "failed")
    /\ Write(IncrementSendAttempts(reminders, r.id))
    /\ FireReturns(l, r)
    /\ UNCHANGED <<now, nextId, process, chat, stops, history>>

\* Faulty: what was sent is not removed.
KeepSent(l, r) ==
    /\ Firing(l, r, "sent")
    /\ FireReturns(l, r)
    /\ UNCHANGED <<durable, process, chat, faults, stops, history>>

RemoveSent(l, r) ==
    /\ Firing(l, r, "sent")
    /\ Write(Remove(reminders, r.id))
    /\ FireReturns(l, r)
    /\ UNCHANGED <<now, nextId, process, chat, stops, history>>

Fire(l) ==
    \E r \in due[l] :
        \/ DropExhausted(l, r)
        \/ BeginSend(l, r)
        \/ SendOK(l, r)
        \/ SendFails(l, r)
        \/ CountFailure(l, r)
        \/ RemoveSent(l, r)

(***************************************************************************)
(* A message handler, inside Coordinator.TrySchedule.                      *)
(***************************************************************************)
Step(h, from, to) ==
    /\ request[h].pc = from
    /\ request' = [request EXCEPT ![h] = to]

(* The message passes the cooldown of its author; the parser reads the     *)
(* clock, then asks the model.                                             *)
Receive(h, u) ==
    /\ gateway = "open"
    /\ cooldownUntil[u] <= now
    /\ Step(h, "idle", [pc |-> "parsing", user |-> u, at |-> now])
    /\ cooldownUntil' = [cooldownUntil EXCEPT ![u] = now + Cooldown]
    /\ UNCHANGED <<durable, process, loops, faults, stops, history>>

(* validateDueAt, with the time read before the model was asked.           *)
ValidDueAt(at) ==
    {d \in 0..MaxNow : at + MinLeadTime < d /\ d <= at + MaxFuture}

ParsedSchedule(h) ==
    /\ request[h].pc = "parsing"
    /\ \E d \in ValidDueAt(request[h].at) :
          Step(h, "parsing", [pc |-> "adding", user |-> request[h].user, dueAt |-> d])
    /\ UNCHANGED <<durable, process, loops, cooldownUntil, faults, stops, history>>

ParsedCancel(h) ==
    /\ request[h].pc = "parsing"
    /\ Step(h, "parsing", [pc |-> "cancelling", user |-> request[h].user])
    /\ UNCHANGED <<durable, process, loops, cooldownUntil, faults, stops, history>>

(* Not about reminders, not understood, or the model failed.               *)
ParsedNone(h) ==
    /\ Step(h, "parsing", Idle)
    /\ UNCHANGED <<durable, process, loops, cooldownUntil, faults, stops, history>>

AddReminder(h) ==
    /\ nextId <= NumReminders
    /\ Step(h, "adding", [pc |-> "confirming", cancels |-> {}])
    /\ reminders' = Add(reminders, nextId, request[h].user, request[h].dueAt)
    /\ dueOf' = [dueOf EXCEPT ![nextId] = request[h].dueAt]
    /\ nextId' = nextId + 1
    /\ UNCHANGED <<now, process, loops, cooldownUntil, faults, stops, sent, failed, cancelled, cancelAcked>>

CancelAll(h) ==
    LET ids == Ids(OfUser(reminders, request[h].user)) IN
    /\ Step(h, "cancelling", [pc |-> "confirming", cancels |-> ids])
    /\ reminders' = RemoveAllForUser(reminders, request[h].user)
    /\ cancelled' = cancelled \cup ids
    /\ UNCHANGED <<now, nextId, process, loops, cooldownUntil, faults, stops, dueOf, sent, failed, cancelAcked>>

(* The store returns an error; TrySchedule hands it to its caller.         *)
StoreError(h) ==
    /\ Step(h, request[h].pc, Idle)
    /\ request[h].pc \in {"adding", "cancelling"}
    /\ Fault
    /\ UNCHANGED <<durable, process, loops, cooldownUntil, stops, history>>

(* The confirmation is written by the model and sent to the channel.       *)
Confirm(h) ==
    /\ Step(h, "confirming", Idle)
    /\ cancelAcked' = cancelAcked \cup request[h].cancels
    /\ UNCHANGED <<durable, process, loops, cooldownUntil, faults, stops, dueOf, sent, failed, cancelled>>

Handle(h) ==
    \/ ParsedSchedule(h) \/ ParsedCancel(h) \/ ParsedNone(h)
    \/ AddReminder(h) \/ CancelAll(h) \/ StoreError(h)
    \/ Confirm(h)

Next ==
    \/ Advance
    \/ RunApp \/ OpenFails \/ OpenGateway \/ MarkReady
    \/ Crash \/ Restart \/ Shutdown \/ Exit
    \/ \E l \in Loops : Tick(l) \/ LoopExit(l) \/ Fire(l)
    \/ \E h \in Handlers : Handle(h) \/ \E u \in Users : Receive(h, u)

Spec == Init /\ [][Next]_vars

(***************************************************************************)
(* Time passes, launchd restarts the process, some attempt to connect      *)
(* succeeds, and a goroutine that can take a step takes it.                *)
(***************************************************************************)
Fairness ==
    /\ WF_vars(Advance)
    /\ WF_vars(RunApp) /\ WF_vars(OpenGateway) /\ WF_vars(MarkReady)
    /\ WF_vars(Restart) /\ WF_vars(Exit)
    /\ \A l \in Loops :
        WF_vars(Tick(l)) /\ WF_vars(LoopExit(l)) /\ WF_vars(Fire(l))

FairSpec == Spec /\ Fairness

(***************************************************************************)
(* Properties.                                                             *)
(***************************************************************************)
Accepted == 1..(nextId - 1)

(* What the user was promised: a reminder the store has accepted is still  *)
(* in the file, or it was posted, or its user cancelled it, or Scheduler   *)
(* gave it up after maxSendAttempts failed sends (fire, Remove), whatever  *)
(* crashes, I/O errors and loops that share the store.                     *)
NothingLost ==
    \A i \in Accepted :
        \/ i \in Ids(reminders)
        \/ sent[i] > 0
        \/ i \in cancelled
        \/ failed[i] >= MaxSendAttempts

(* NothingLost is not inductive.  What it rests on: the loops in the       *)
(* middle of counting a failed send are still owed to the count of the     *)
(* file, so that count never exceeds the sends that really failed;         *)
Counting(i) ==
    {l \in Loops :
        stage[l] = "failed" /\ \E r \in due[l] : IsFirst(r, due[l]) /\ r.id = i}

FileSound ==
    \A r \in reminders :
        /\ r.id < nextId
        /\ r.dueAt = dueOf[r.id]
        /\ r.sendAttempts + Cardinality(Counting(r.id)) <= failed[r.id]

(* a copy, however old, says nothing of a reminder that was never true;    *)
CopiesSound ==
    \A l \in Loops :
        /\ stage[l] # "pick" => due[l] # {}
        /\ \A r \in due[l] :
            /\ r.id < nextId
            /\ r.dueAt = dueOf[r.id]
            /\ r.dueAt <= now
            /\ r.sendAttempts <= failed[r.id]

(* and a loop that is about to remove what it has sent has sent it.        *)
RemovesOnlySent ==
    \A l \in Loops :
        stage[l] = "sent" =>
            \A r \in due[l] : IsFirst(r, due[l]) => sent[r.id] > 0

NothingLostInductive ==
    TypeOK /\ FileSound /\ CopiesSound /\ RemovesOnlySent /\ NothingLost

(* An identifier names one reminder of the file.                           *)
UniqueIds == \A r, s \in reminders : r.id = s.id => r = s

(* No reminder is posted before its time: Due compares with the clock of   *)
(* the tick, and the copy it makes is sent later.                          *)
NeverEarly ==
    [][\A i \in ReminderIds : sent'[i] # sent[i] => dueOf[i] <= now]_vars

(* A reminder that left the file never comes back, although the scheduler  *)
(* writes to the file from a copy it read earlier (IncrementSendAttempts). *)
NoResurrection ==
    [][\A i \in Accepted \ Ids(reminders) : i \notin Ids(reminders')]_vars

(* With one scheduler loop a reminder is posted once, and once more only   *)
(* for every crash, I/O error or lost response (fire sends, then removes)  *)
(* and for every shutdown, which may cut short the request that posts it.  *)
DeliveriesBounded == \A i \in ReminderIds : sent[i] <= 1 + faults + stops

(* With one scheduler loop maxSendAttempts bounds the failed sends, but    *)
(* for those whose count was lost (the error of IncrementSendAttempts is   *)
(* ignored).                                                               *)
AttemptsBounded == \A i \in ReminderIds : failed[i] <= MaxSendAttempts + faults

(* What the two bounds rest on.  The process: a loop fires only after the  *)
(* gateway opened, and then App.Run waits for it;                          *)
ProcessSound ==
    /\ ready => gateway = "open"
    /\ gateway \in {"connecting", "open"} => running \subseteq waited
    /\ \A l \in Loops : due[l] # {} => ready /\ l \in running

(* the copy of the loop: whatever it says of a reminder, the reminder was  *)
(* posted, or failed more often, only by a fault, a shutdown or the step   *)
(* the loop is in;                                                         *)
CopiesBounded ==
    \A l \in Loops : \A r \in due[l] :
        /\ \A s \in due[l] : r.id = s.id => r = s
        /\ Firing(l, r, "sent") \/ sent[r.id] <= faults + stops
        /\ Firing(l, r, "sending") =>
              /\ r.sendAttempts < MaxSendAttempts
              /\ ctxDone => sent[r.id] + 1 <= faults + stops
        /\ \/ failed[r.id] <= r.sendAttempts + faults
           \/ /\ Firing(l, r, "failed")
              /\ r.sendAttempts < MaxSendAttempts
              /\ failed[r.id] <= r.sendAttempts + 1 + faults

(* and the file, in the same way.                                          *)
InStage(i, s) == \E l \in Loops : \E r \in due[l] : Firing(l, r, s) /\ r.id = i

FileBounded ==
    /\ \A i \in ReminderIds : i >= nextId => sent[i] = 0 /\ failed[i] = 0
    /\ \A r \in reminders :
        /\ InStage(r.id, "sent") \/ sent[r.id] <= faults + stops
        /\ \/ failed[r.id] <= r.sendAttempts + faults
           \/ /\ InStage(r.id, "failed")
              /\ failed[r.id] <= r.sendAttempts + 1 + faults

OneLoopInductive ==
    /\ ProcessSound /\ CopiesBounded /\ FileBounded
    /\ DeliveriesBounded /\ AttemptsBounded

(* SIGTERM ends the process, whatever the loops are firing.                *)
ShutdownCompletes == ctxDone ~> ~ctxDone

(* One due reminder is one message (scheduler_test.go: "expected 1 send"). *)
SentOnce == \A i \in ReminderIds : sent[i] <= 1

(* After "Okay, I cancelled your %d reminder(s)." none of them is posted   *)
(* (coordinator.go, fallbackCancelReply).                                  *)
NoDeliveryAfterCancel ==
    [][\A i \in cancelAcked : sent'[i] = sent[i]]_vars

(***************************************************************************)
(* The scheduler and its store implement the promise.                      *)
(***************************************************************************)
Promise == INSTANCE ReminderPromise WITH
    Items <- ReminderIds,
    accepted <- Accepted,
    pending <- Ids(reminders),
    delivered <- {i \in ReminderIds : sent[i] > 0},
    cancelled <- cancelled,
    exhausted <- {i \in ReminderIds : failed[i] >= MaxSendAttempts}

(* Every step is a step of the promise or leaves it alone.                 *)
KeepsPromise == Promise!Spec

(* Every reminder is settled, with crashes and errors finitely often.      *)
EveryReminderSettled == Promise!Settled
=============================================================================
