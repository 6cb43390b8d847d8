----------------------------- MODULE OwnerNotify -----------------------------
(***************************************************************************)
(* The alerts of shawnb's owner: every message that is accepted starts a   *)
(* goroutine, Notifier.MaybeNotify, which passes a cooldown, takes one of  *)
(* two slots, asks the language model whether the message is urgent, and   *)
(* writes to the owner (internal/ownernotify, internal/ratelimit).         *)
(***************************************************************************)
EXTENDS Integers, Sequences, FiniteSets

CONSTANTS
    Users,          \* authors of messages
    Cooldown,       \* ownerNotifyCooldown, in units of the clock
    MaxConcurrent,  \* maxConcurrentNotify
    MaxMessages,    \* bound on the messages
    MaxNow,         \* bound on the clock
    MaxFaults       \* bound on failed calls

ASSUME NotifyAssumption ==
    /\ Cooldown \in Nat
    /\ MaxConcurrent \in Nat
    /\ MaxMessages \in Nat
    /\ MaxNow \in Nat
    /\ MaxFaults \in Nat

VARIABLES
    now,
    author,    \* who wrote the messages; each is its number, and so is its goroutine
    urgent,    \* the messages that the language model finds urgent
    stage,     \* where MaybeNotify is with the message
    clock,     \* what the goroutine has read from the clock
    last,      \* Cooldown.last, -1 for nothing
    held,      \* elements in notifySem
    bound,     \* LazyRESTProvider has a client
    admitted,  \* messages that passed the cooldown (history)
    crowded,   \* messages that found as many goroutines at work as there are slots
               \* (history)
    connected, \* messages received while there was a client (history)
    alerted,   \* messages the owner has been told of (history)
    faults

incoming == <<author, urgent, connected>>
history == <<admitted, crowded, alerted>>
vars == <<now, incoming, stage, clock, last, held, bound, history, faults>>

Messages == 1..MaxMessages

Never == -1

Working == {"parsing", "opening", "posting"}

TypeOK ==
    /\ now \in 0..MaxNow
    /\ author \in Seq(Users) /\ Len(author) <= MaxMessages
    /\ urgent \subseteq Messages
    /\ stage \in [Messages -> {"none", "started", "clocked", "allowed", "done"} \cup Working]
    /\ clock \in [Messages -> 0..MaxNow]
    /\ last \in [Users -> {Never} \cup 0..MaxNow]
    /\ held \in Nat
    /\ bound \in BOOLEAN
    /\ admitted \subseteq Messages /\ crowded \subseteq admitted
    /\ alerted \subseteq admitted /\ connected \subseteq Messages
    /\ faults \in 0..MaxFaults

Init ==
    /\ now = 0
    /\ author = <<>>
    /\ urgent = {}
    /\ stage = [m \in Messages |-> "none"]
    /\ clock = [m \in Messages |-> 0]
    /\ last = [u \in Users |-> Never]
    /\ held = 0
    /\ bound = FALSE
    /\ admitted = {} /\ crowded = {} /\ connected = {} /\ alerted = {}
    /\ faults = 0

Fault == faults < MaxFaults /\ faults' = faults + 1

Advance ==
    /\ now < MaxNow
    /\ now' = now + 1
    /\ UNCHANGED <<incoming, stage, clock, last, held, bound, history, faults>>

(* The bot is connected: App.Run binds its client, after the gateway is    *)
(* open and messages may come in.                                          *)
Bind ==
    /\ ~bound
    /\ bound' = TRUE
    /\ UNCHANGED <<now, incoming, stage, clock, last, held, history, faults>>

(* handleMessageCreate starts a goroutine.                                 *)
Receive ==
    LET m == Len(author) + 1 IN
    /\ m <= MaxMessages
    /\ \E u \in Users : author' = Append(author, u)
    /\ urgent' \in {urgent, urgent \cup {m}}
    /\ stage' = [stage EXCEPT ![m] = "started"]
    /\ connected' = IF bound THEN connected \cup {m} ELSE connected
    /\ UNCHANGED <<now, clock, last, held, bound, history, faults>>

(***************************************************************************)
(* MaybeNotify of message m.  Cooldown.Allow reads the clock before it has *)
(* the lock.                                                               *)
(***************************************************************************)
ReadClock(m) ==
    /\ stage[m] = "started"
    /\ stage' = [stage EXCEPT ![m] = "clocked"]
    /\ clock' = [clock EXCEPT ![m] = now]
    /\ UNCHANGED <<now, incoming, last, held, bound, history, faults>>

\* Faulty: the distance is not signed.
TooSoonUnsigned(m) ==
    /\ last[author[m]] # Never
    /\ clock[m] - last[author[m]] \in 0..(Cooldown - 1)

TooSoon(m) ==
    /\ last[author[m]] # Never
    /\ clock[m] - last[author[m]] < Cooldown

Refuse(m) ==
    /\ stage[m] = "clocked"
    /\ TooSoon(m)
    /\ stage' = [stage EXCEPT ![m] = "done"]
    /\ UNCHANGED <<now, incoming, clock, last, held, bound, history, faults>>

Allow(m) ==
    /\ stage[m] = "clocked"
    /\ ~TooSoon(m)
    /\ stage' = [stage EXCEPT ![m] = "allowed"]
    /\ last' = [last EXCEPT ![author[m]] = clock[m]]
    /\ admitted' = admitted \cup {m}
    /\ UNCHANGED <<now, incoming, clock, held, bound, crowded, alerted, faults>>

AtWork == {m \in Messages : stage[m] \in Working}

(* A message that finds no slot is given up.                               *)
TakeSlot(m) ==
    /\ stage[m] = "allowed"
    /\ IF held < MaxConcurrent
       THEN /\ held' = held + 1
            /\ stage' = [stage EXCEPT ![m] = "parsing"]
            /\ UNCHANGED crowded
       ELSE /\ stage' = [stage EXCEPT ![m] = "done"]
            /\ crowded' = IF Cardinality(AtWork) < MaxConcurrent THEN crowded
                          ELSE crowded \cup {m}
            /\ UNCHANGED held
    /\ UNCHANGED <<now, incoming, clock, last, bound, admitted, alerted, faults>>

\* Faulty: only the end of the way gives the slot back.
LeaveKeepingSlot(m) ==
    /\ stage' = [stage EXCEPT ![m] = "done"]
    /\ held' = IF stage[m] = "posting" THEN held - 1 ELSE held
    /\ UNCHANGED <<now, incoming, clock, last, bound, admitted, crowded>>

(* The deferred function gives the slot back.                              *)
Leave(m) ==
    /\ stage' = [stage EXCEPT ![m] = "done"]
    /\ held' = held - 1
    /\ UNCHANGED <<now, incoming, clock, last, bound, admitted, crowded>>

(* Parse: the model fails, its answer cannot be read, or there is no need. *)
ParseFails(m) ==
    /\ stage[m] = "parsing"
    /\ \/ Fault
       \/ m \notin urgent /\ UNCHANGED faults
    /\ Leave(m)
    /\ UNCHANGED alerted

ParseUrgent(m) ==
    /\ stage[m] = "parsing"
    /\ m \in urgent
    /\ stage' = [stage EXCEPT ![m] = "opening"]
    /\ UNCHANGED <<now, incoming, clock, last, held, bound, history, faults>>

(* send: without a client, or when it cannot open the owner's channel ...  *)
OpenFails(m) ==
    /\ stage[m] = "opening"
    /\ Fault \/ (~bound /\ UNCHANGED faults)
    /\ Leave(m)
    /\ UNCHANGED alerted

Open(m) ==
    /\ stage[m] = "opening"
    /\ bound
    /\ stage' = [stage EXCEPT ![m] = "posting"]
    /\ UNCHANGED <<now, incoming, clock, last, held, bound, history, faults>>

(* ... or write into it, which may have happened in spite of the error.    *)
Post(m) ==
    /\ stage[m] = "posting"
    /\ \/ alerted' = alerted \cup {m} /\ (Fault \/ UNCHANGED faults)
       \/ Fault /\ UNCHANGED alerted
    /\ Leave(m)

MaybeNotify(m) ==
    \/ ReadClock(m) \/ Refuse(m) \/ Allow(m) \/ TakeSlot(m)
    \/ ParseFails(m) \/ ParseUrgent(m) \/ OpenFails(m) \/ Open(m) \/ Post(m)

Next == Advance \/ Bind \/ Receive \/ \E m \in Messages : MaybeNotify(m)

Spec == Init /\ [][Next]_vars

(***************************************************************************)
(* Properties.                                                             *)
(***************************************************************************)
Asked(u) == {m \in admitted : author[m] = u}

(* About the messages of a user the model is asked at most once, and once  *)
(* more for every cooldown that has passed, in whatever order the          *)
(* goroutines read the clock and take the lock.  Two of the questions may  *)
(* well come together: the clock is read before the lock is taken, and the *)
(* question comes after both.                                              *)
AlertsBounded ==
    \A u \in Users : (Cardinality(Asked(u)) - 1) * Cooldown <= now

(* The owner hears of an urgent message, written while the bot was         *)
(* connected, unless a call failed, MaxConcurrent goroutines were at work  *)
(* (a slot that is not given back is no excuse), or the model was asked    *)
(* about another message of its author within the cooldown.                *)
UrgentReaches ==
    \A m \in urgent \cap connected : stage[m] = "done" =>
        \/ m \in alerted \cup crowded
        \/ faults > 0
        \/ \E n \in admitted \ {m} :
               author[n] = author[m] /\ clock[m] - clock[n] < Cooldown
=============================================================================
