--------------------------- MODULE ReminderProofs ---------------------------
(***************************************************************************)
(* No accepted reminder is lost, none is posted early, none comes back     *)
(* once removed, and the scheduler implements ReminderPromise: for every   *)
(* number of scheduler loops that share the store.  With one loop the      *)
(* number of posts is bounded as well.                                     *)
(*                                                                         *)
(* The step of the proof that matters is the count of failed sends: a loop *)
(* counts a failure some time after it happened, in a file other loops     *)
(* also write, so NothingLostInductive carries the failures that are still *)
(* to be counted (Counting).                                               *)
(***************************************************************************)
EXTENDS Reminders, TLAPS, FiniteSetTheorems

USE DEF durable, process, loops, chat, history

(* The store only ever holds reminders, with whatever it is asked to do.   *)
LEMMA StoreTypes ==
    ASSUME NEW file \in SUBSET Reminder, NEW i \in ReminderIds,
           NEW u \in Users, NEW d \in Nat
    PROVE  /\ Add(file, i, u, d) \subseteq Reminder
           /\ Due(file, d) \subseteq Reminder
           /\ Remove(file, i) \subseteq Reminder
           /\ RemoveAllForUser(file, u) \subseteq Reminder
           /\ IncrementSendAttempts(file, i) \subseteq Reminder
           /\ Ids(file) \subseteq ReminderIds
           /\ Ids(OfUser(file, u)) \subseteq ReminderIds
<1>1. Add(file, i, u, d) \subseteq Reminder
  BY DEF Add, Reminder
<1>2. IncrementSendAttempts(file, i) \subseteq Reminder
  BY DEF IncrementSendAttempts, Reminder
<1>3. QED
  BY <1>1, <1>2 DEF Due, Remove, RemoveAllForUser, OfUser, Ids, Reminder

LEMMA IdleRequests == [h \in Handlers |-> Idle] \in [Handlers -> Request]
<1>1. Idle \in Request
  BY DEF Request
<1>2. QED
  BY <1>1

LEMMA InitTypeOK == Init => TypeOK
<1>1. SUFFICES ASSUME Init PROVE TypeOK
  OBVIOUS
<1>2. request \in [Handlers -> Request]
  BY <1>1, IdleRequests DEF Init
<1>3. stage \in [Loops -> {"pick", "sending", "sent", "failed"}]
  BY <1>1 DEF Init
<1>4. due \in [Loops -> SUBSET Reminder]
  BY <1>1 DEF Init
<1>5. nextId \in 1..(NumReminders + 1)
  BY <1>1, ParametersAssumption DEF Init
<1>6. cooldownUntil \in [Users -> Nat]
  BY <1>1 DEF Init
<1>7. /\ dueOf \in [ReminderIds -> Nat]
      /\ sent \in [ReminderIds -> Nat]
      /\ failed \in [ReminderIds -> Nat]
  BY <1>1 DEF Init
<1>8. QED
  BY <1>1, <1>2, <1>3, <1>4, <1>5, <1>6, <1>7 DEF Init, TypeOK

(* What is left of the memory of a process that is gone is well typed.     *)
LEMMA FreshMemory ==
    ASSUME TypeOK, ProcessGone, faults' \in Nat
    PROVE  TypeOK'
<1>1. request' \in [Handlers -> Request]
  BY IdleRequests DEF ProcessGone
<1>2. stage' \in [Loops -> {"pick", "sending", "sent", "failed"}]
  BY DEF ProcessGone
<1>3. due' \in [Loops -> SUBSET Reminder]
  BY DEF ProcessGone
<1>4. cooldownUntil' \in [Users -> Nat]
  BY DEF ProcessGone
<1>5. QED
  BY <1>1, <1>2, <1>3, <1>4 DEF TypeOK, ProcessGone

LEMMA ProcessTypeOK ==
    ASSUME TypeOK,
           Advance \/ RunApp \/ OpenFails \/ OpenGateway \/ MarkReady
             \/ Crash \/ Restart \/ Shutdown \/ Exit
    PROVE  TypeOK'
<1>1. CASE Advance
  BY <1>1 DEF TypeOK, Advance
<1>2. CASE RunApp
  BY <1>2 DEF TypeOK, RunApp
<1>3. CASE OpenFails \/ OpenGateway \/ MarkReady
  BY <1>3 DEF TypeOK, OpenFails, OpenGateway, MarkReady
<1>4. CASE Crash
  BY <1>4, FreshMemory DEF TypeOK, Crash, Fault
<1>5. CASE Exit
  BY <1>5, FreshMemory DEF TypeOK, Exit
<1>6. CASE Restart
  BY <1>6 DEF TypeOK, Restart
<1>7. CASE Shutdown
  BY <1>7 DEF TypeOK, Shutdown
<1>8. QED
  BY <1>1, <1>2, <1>3, <1>4, <1>5, <1>6, <1>7

LEMMA LoopTypeOK ==
    ASSUME TypeOK, NEW l \in Loops, Tick(l) \/ LoopExit(l) \/ Fire(l)
    PROVE  TypeOK'
<1>1. CASE Tick(l)
  BY <1>1 DEF TypeOK, Tick, Due
<1>2. CASE LoopExit(l)
  BY <1>2 DEF TypeOK, LoopExit
<1>3. CASE Fire(l)
  <2>1. PICK r \in due[l] :
            DropExhausted(l, r) \/ BeginSend(l, r) \/ SendOK(l, r)
              \/ SendFails(l, r) \/ CountFailure(l, r) \/ RemoveSent(l, r)
    BY <1>3 DEF Fire
  <2>2. r \in Reminder /\ r.id \in ReminderIds
    BY DEF TypeOK, Reminder
  <2>3. CASE DropExhausted(l, r) \/ RemoveSent(l, r)
    BY <2>2, <2>3 DEF TypeOK, DropExhausted, RemoveSent, FireReturns, Write, Fault, Remove
  <2>4. CASE BeginSend(l, r) \/ SendOK(l, r)
    BY <2>2, <2>4 DEF TypeOK, BeginSend, SendOK
  <2>5. CASE SendFails(l, r)
    BY <2>2, <2>5 DEF TypeOK, SendFails, Fault
  <2>6. CASE CountFailure(l, r)
    <3>1. IncrementSendAttempts(reminders, r.id) \subseteq Reminder
      BY <2>2, StoreTypes DEF TypeOK, IncrementSendAttempts, Reminder
    <3>2. QED
      BY <2>2, <2>6, <3>1 DEF TypeOK, CountFailure, FireReturns, Write, Fault
  <2>7. QED
    BY <2>1, <2>3, <2>4, <2>5, <2>6
<1>4. QED
  BY <1>1, <1>2, <1>3

LEMMA HandlerTypeOK ==
    ASSUME TypeOK, NEW h \in Handlers,
           Handle(h) \/ (\E u \in Users : Receive(h, u))
    PROVE  TypeOK'
<1>1. ASSUME NEW u \in Users, Receive(h, u) PROVE TypeOK'
  BY <1>1, ParametersAssumption DEF TypeOK, Receive, Step, Request
<1>2. CASE ParsedSchedule(h)
  <2>1. PICK d \in ValidDueAt(request[h].at) :
            Step(h, "parsing", [pc |-> "adding", user |-> request[h].user, dueAt |-> d])
    BY <1>2 DEF ParsedSchedule
  <2>2. d \in Nat /\ request[h].user \in Users
    BY <2>1, ParametersAssumption DEF TypeOK, Step, ValidDueAt, Request, Idle
  <2>3. QED
    BY <1>2, <2>1, <2>2 DEF TypeOK, ParsedSchedule, Step, Request
<1>3. CASE ParsedCancel(h)
  BY <1>3 DEF TypeOK, ParsedCancel, Step, Request, Idle
<1>4. CASE ParsedNone(h) \/ StoreError(h)
  BY <1>4 DEF TypeOK, ParsedNone, StoreError, Fault, Step, Request, Idle
<1>5. CASE AddReminder(h)
  <2>1. request[h].user \in Users /\ request[h].dueAt \in Nat
    BY <1>5 DEF TypeOK, AddReminder, Step, Request, Idle
  <2>2. nextId \in ReminderIds /\ nextId + 1 \in 1..(NumReminders + 1)
    BY <1>5, ParametersAssumption DEF TypeOK, AddReminder, ReminderIds
  <2>3. reminders' \subseteq Reminder
    BY <1>5, <2>1, <2>2, StoreTypes DEF TypeOK, AddReminder
  <2>4. request' \in [Handlers -> Request]
    BY <1>5 DEF TypeOK, AddReminder, Step, Request
  <2>5. QED
    BY <1>5, <2>1, <2>2, <2>3, <2>4 DEF TypeOK, AddReminder
<1>6. CASE CancelAll(h)
  <2>1. request[h].user \in Users
    BY <1>6 DEF TypeOK, CancelAll, Step, Request, Idle
  <2>2. Ids(OfUser(reminders, request[h].user)) \subseteq ReminderIds
    BY DEF Ids, OfUser, TypeOK, Reminder
  <2>3. request' \in [Handlers -> Request]
    BY <1>6, <2>2 DEF TypeOK, CancelAll, Step, Request
  <2>4. QED
    BY <1>6, <2>2, <2>3 DEF TypeOK, CancelAll, RemoveAllForUser
<1>7. CASE Confirm(h)
  <2>1. request[h] \in Request /\ request[h].pc = "confirming"
    BY <1>7 DEF TypeOK, Confirm, Step
  <2>2. request[h] \in [pc : {"confirming"}, cancels : SUBSET ReminderIds]
    BY <2>1 DEF Request, Idle
  <2>3. request[h].cancels \subseteq ReminderIds
    BY <2>2
  <2>4. request' \in [Handlers -> Request]
    BY <1>7 DEF TypeOK, Confirm, Step, Request
  <2>5. QED
    BY <1>7, <2>3, <2>4 DEF TypeOK, Confirm
<1>8. QED
  BY <1>1, <1>2, <1>3, <1>4, <1>5, <1>6, <1>7 DEF Handle

(* The type invariant, which every later proof starts from.                *)
THEOREM TypeCorrect == Spec => []TypeOK
<1>1. Init => TypeOK
  BY InitTypeOK
<1>2. TypeOK /\ [Next]_vars => TypeOK'
  <2>1. SUFFICES ASSUME TypeOK, [Next]_vars PROVE TypeOK'
    OBVIOUS
  <2>2. CASE UNCHANGED vars
    <3>1. UNCHANGED <<now, reminders, nextId, gateway, ready, ctxDone, running, waited>>
      BY <2>2 DEF vars
    <3>2. UNCHANGED <<stage, due, request, cooldownUntil, faults, stops>>
      BY <2>2 DEF vars
    <3>3. UNCHANGED <<dueOf, sent, failed, cancelled, cancelAcked>>
      BY <2>2 DEF vars
    <3>4. QED
      BY <2>1, <3>1, <3>2, <3>3 DEF TypeOK
  <2>3. CASE Advance \/ RunApp \/ OpenFails \/ OpenGateway \/ MarkReady
               \/ Crash \/ Restart \/ Shutdown \/ Exit
    BY <2>1, <2>3, ProcessTypeOK
  <2>4. ASSUME NEW l \in Loops, Tick(l) \/ LoopExit(l) \/ Fire(l)
        PROVE  TypeOK'
    BY <2>1, <2>4, LoopTypeOK
  <2>5. ASSUME NEW h \in Handlers,
               Handle(h) \/ (\E u \in Users : Receive(h, u))
        PROVE  TypeOK'
    BY <2>1, <2>5, HandlerTypeOK
  <2>6. QED
    BY <2>1, <2>2, <2>3, <2>4, <2>5 DEF Next
<1>3. QED
  BY <1>1, <1>2, PTL DEF Spec

(***************************************************************************)
(* No accepted reminder is lost.                                           *)
(***************************************************************************)
LEMMA CountingFinite ==
    ASSUME NEW i
    PROVE  IsFiniteSet(Counting(i)) /\ Cardinality(Counting(i)) \in Nat
<1>1. IsFiniteSet(Loops)
  BY ParametersAssumption
<1>2. Counting(i) \in SUBSET Loops
  BY DEF Counting
<1>3. IsFiniteSet(Counting(i))
  BY <1>1, <1>2, FS_Subset
<1>4. QED
  BY <1>3, FS_CardinalityType

LEMMA CountingFiniteNext ==
    ASSUME NEW i
    PROVE  IsFiniteSet(Counting(i)') /\ Cardinality(Counting(i)') \in Nat
<1>1. IsFiniteSet(Loops)
  BY ParametersAssumption
<1>2. Counting(i)' \in SUBSET Loops
  BY DEF Counting
<1>3. IsFiniteSet(Counting(i)')
  BY <1>1, <1>2, FS_Subset
<1>4. QED
  BY <1>3, FS_CardinalityType

LEMMA OneMore ==
    ASSUME NEW S, IsFiniteSet(S), NEW x
    PROVE  Cardinality(S \cup {x}) <= Cardinality(S) + 1
<1>1. Cardinality(S) \in Nat
  BY FS_CardinalityType
<1>2. Cardinality(S \cup {x}) =
        IF x \in S THEN Cardinality(S) ELSE Cardinality(S) + 1
  BY FS_AddElement, Zenon
<1>3. QED
  BY <1>1, <1>2

LEMMA OneLess ==
    ASSUME NEW S, IsFiniteSet(S), NEW x \in S
    PROVE  Cardinality(S \ {x}) = Cardinality(S) - 1
<1>1. Cardinality(S \ {x}) =
        IF x \in S THEN Cardinality(S) - 1 ELSE Cardinality(S)
  BY FS_RemoveElement, Zenon
<1>2. QED
  BY <1>1

LEMMA AcceptedIds == TypeOK => Accepted \subseteq ReminderIds
  BY ParametersAssumption DEF TypeOK, Accepted, ReminderIds

LEMMA NothingLostInit == Init => NothingLostInductive
<1>1. SUFFICES ASSUME Init PROVE NothingLostInductive
  OBVIOUS
<1>2. TypeOK
  BY <1>1, InitTypeOK
<1>3. FileSound
  BY <1>1 DEF Init, FileSound
<1>4. CopiesSound /\ RemovesOnlySent
  BY <1>1 DEF Init, CopiesSound, RemovesOnlySent
<1>5. NothingLost
  BY <1>1 DEF Init, NothingLost, Accepted
<1>6. QED
  BY <1>2, <1>3, <1>4, <1>5 DEF NothingLostInductive

(* Steps that touch neither the file nor a copy nor the history.           *)
LEMMA NothingLostQuiet ==
    ASSUME NothingLostInductive, TypeOK', now' >= now,
           UNCHANGED <<reminders, nextId, stage, due, dueOf, sent, failed, cancelled>>
    PROVE  NothingLostInductive'
<1>1. \A i : Counting(i)' = Counting(i)
  BY DEF Counting
<1>2. FileSound'
  BY <1>1 DEF NothingLostInductive, FileSound
<1>3. CopiesSound'
  BY DEF NothingLostInductive, CopiesSound, TypeOK, Reminder
<1>4. RemovesOnlySent'
  BY DEF NothingLostInductive, RemovesOnlySent
<1>5. NothingLost'
  BY DEF NothingLostInductive, NothingLost, Accepted
<1>6. QED
  BY <1>2, <1>3, <1>4, <1>5 DEF NothingLostInductive

(* The process ends: the failures its loops had still to count are lost.   *)
LEMMA NothingLostGone ==
    ASSUME NothingLostInductive, TypeOK', ProcessGone
    PROVE  NothingLostInductive'
<1>1. \A i : Counting(i)' = {}
  BY DEF Counting, ProcessGone
<1>u. UNCHANGED <<reminders, nextId, dueOf, sent, failed, cancelled>>
  BY DEF ProcessGone
<1>2. FileSound'
  <2>1. SUFFICES ASSUME NEW r \in reminders
        PROVE  r.sendAttempts + 0 <= failed[r.id] /\ r.id < nextId /\ r.dueAt = dueOf[r.id]
    BY <1>1, <1>u, FS_EmptySet DEF FileSound
  <2>2. r.id \in ReminderIds /\ r.sendAttempts \in Nat /\ failed[r.id] \in Nat
    BY DEF NothingLostInductive, TypeOK, Reminder
  <2>3. QED
    BY <2>2, CountingFinite DEF NothingLostInductive, FileSound
<1>3. CopiesSound' /\ RemovesOnlySent'
  BY DEF CopiesSound, RemovesOnlySent, ProcessGone
<1>4. NothingLost'
  BY <1>u DEF NothingLostInductive, NothingLost, Accepted
<1>5. QED
  BY <1>2, <1>3, <1>4 DEF NothingLostInductive

LEMMA NothingLostTick ==
    ASSUME NothingLostInductive, TypeOK', NEW l \in Loops, Tick(l)
    PROVE  NothingLostInductive'
<1>1. stage[l] = "pick"
  BY DEF Tick, NothingLostInductive, TypeOK, CopiesSound
<1>2. \A i : Counting(i)' = Counting(i)
  <2>1. SUFFICES ASSUME NEW i, NEW k \in Loops
        PROVE  (k \in Counting(i))' <=> k \in Counting(i)
    BY DEF Counting
  <2>2. stage' = stage /\ (k # l => due'[k] = due[k])
    BY DEF Tick, NothingLostInductive, TypeOK
  <2>3. QED
    BY <1>1, <2>2 DEF Counting
<1>3. FileSound'
  BY <1>2 DEF NothingLostInductive, FileSound, Tick
<1>4. CopiesSound'
  <2>1. SUFFICES ASSUME NEW k \in Loops
        PROVE  /\ stage[k] # "pick" => due'[k] # {}
               /\ \A r \in due'[k] :
                    /\ r.id < nextId
                    /\ r.dueAt = dueOf[r.id]
                    /\ r.dueAt <= now
                    /\ r.sendAttempts <= failed[r.id]
    BY DEF CopiesSound, Tick
  <2>2. CASE k # l
    BY <2>2 DEF NothingLostInductive, CopiesSound, Tick, TypeOK
  <2>3. CASE k = l
    <3>1. due'[l] = Due(reminders, now)
      BY DEF Tick, NothingLostInductive, TypeOK
    <3>2. ASSUME NEW r \in reminders PROVE r.sendAttempts <= failed[r.id]
      <4>1. r.sendAttempts \in Nat /\ failed[r.id] \in Nat
        BY DEF NothingLostInductive, TypeOK, Reminder
      <4>2. QED
        BY <4>1, CountingFinite DEF NothingLostInductive, FileSound
    <3>3. QED
      BY <1>1, <2>3, <3>1, <3>2 DEF Due, NothingLostInductive, FileSound
  <2>4. QED
    BY <2>2, <2>3
<1>5. RemovesOnlySent'
  <2>1. SUFFICES ASSUME NEW k \in Loops, stage[k] = "sent",
                        NEW r \in due'[k], IsFirst(r, due'[k])
        PROVE  sent[r.id] > 0
    BY DEF RemovesOnlySent, Tick
  <2>2. due'[k] = due[k]
    BY <1>1, <2>1 DEF Tick, NothingLostInductive, TypeOK
  <2>3. QED
    BY <2>1, <2>2 DEF NothingLostInductive, RemovesOnlySent
<1>6. NothingLost'
  BY DEF NothingLostInductive, NothingLost, Accepted, Tick
<1>7. QED
  BY <1>3, <1>4, <1>5, <1>6 DEF NothingLostInductive

(* The loop starts the request that posts the message of r.                *)
LEMMA NothingLostBegins ==
    ASSUME NothingLostInductive, TypeOK', NEW l \in Loops, NEW r \in due[l],
           BeginSend(l, r)
    PROVE  NothingLostInductive'
<1>u. UNCHANGED <<now, reminders, nextId, due, dueOf, sent, failed, cancelled>>
  BY DEF BeginSend
<1>t. /\ stage \in [Loops -> {"pick", "sending", "sent", "failed"}]
      /\ stage[l] = "pick" /\ stage' = [stage EXCEPT ![l] = "sending"]
  BY DEF NothingLostInductive, TypeOK, BeginSend, Firing
<1>1. \A i : Counting(i)' = Counting(i)
  BY <1>u, <1>t DEF Counting
<1>2. FileSound'
  BY <1>1, <1>u DEF NothingLostInductive, FileSound
<1>3. CopiesSound'
  BY <1>u, <1>t DEF NothingLostInductive, CopiesSound
<1>4. RemovesOnlySent'
  BY <1>u, <1>t DEF NothingLostInductive, RemovesOnlySent
<1>5. NothingLost'
  BY <1>u DEF NothingLostInductive, NothingLost, Accepted
<1>6. QED
  BY <1>2, <1>3, <1>4, <1>5 DEF NothingLostInductive

(* The loop posts the message of r.                                        *)
LEMMA NothingLostSendOK ==
    ASSUME NothingLostInductive, TypeOK', NEW l \in Loops, NEW r \in due[l],
           SendOK(l, r)
    PROVE  NothingLostInductive'
<1>u. UNCHANGED <<now, reminders, nextId, due, dueOf, failed, cancelled>>
  BY DEF SendOK
<1>t. /\ r.id \in ReminderIds /\ sent \in [ReminderIds -> Nat]
      /\ stage \in [Loops -> {"pick", "sending", "sent", "failed"}]
  BY DEF NothingLostInductive, TypeOK, Reminder
<1>1. \A i : Counting(i)' = Counting(i)
  BY <1>u, <1>t DEF Counting, SendOK, Firing
<1>2. FileSound'
  BY <1>1, <1>u DEF NothingLostInductive, FileSound
<1>3. CopiesSound'
  BY <1>u, <1>t DEF NothingLostInductive, CopiesSound, SendOK, Firing, IsFirst
<1>4. \A i \in ReminderIds : sent'[i] >= sent[i]
  BY <1>t DEF SendOK
<1>5. RemovesOnlySent'
  <2>1. SUFFICES ASSUME NEW k \in Loops, stage'[k] = "sent",
                        NEW s \in due[k], IsFirst(s, due[k])
        PROVE  sent'[s.id] > 0
    BY <1>u DEF RemovesOnlySent
  <2>2. s.id \in ReminderIds
    BY DEF NothingLostInductive, TypeOK, Reminder
  <2>3. CASE k = l
    <3>1. s.id = r.id
      BY <1>t, <2>1, <2>2, <2>3 DEF SendOK, Firing, IsFirst, ReminderIds
    <3>2. QED
      BY <3>1, <1>t DEF SendOK
  <2>4. CASE k # l
    <3>1. sent[s.id] > 0
      BY <2>1, <2>4, <1>t DEF SendOK, NothingLostInductive, RemovesOnlySent
    <3>2. QED
      BY <3>1, <1>t, <2>2 DEF SendOK
  <2>5. QED
    BY <2>3, <2>4
<1>6. NothingLost'
  <2>1. SUFFICES ASSUME NEW i \in Accepted
        PROVE  \/ i \in Ids(reminders) \/ sent'[i] > 0
               \/ i \in cancelled \/ failed[i] >= MaxSendAttempts
    BY <1>u DEF NothingLost, Accepted
  <2>2. i \in ReminderIds
    BY AcceptedIds DEF NothingLostInductive
  <2>3. sent[i] \in Nat /\ sent'[i] \in Nat /\ sent'[i] >= sent[i]
    BY <2>2, <1>4, <1>t DEF TypeOK
  <2>4. QED
    BY <2>3 DEF NothingLostInductive, NothingLost
<1>7. QED
  BY <1>2, <1>3, <1>5, <1>6 DEF NothingLostInductive

(* A send of r fails, whether or not its message was posted.               *)
LEMMA NothingLostSendFails ==
    ASSUME NothingLostInductive, TypeOK', NEW l \in Loops, NEW r \in due[l],
           SendFails(l, r)
    PROVE  NothingLostInductive'
<1>u. UNCHANGED <<now, reminders, nextId, due, dueOf, cancelled>>
  BY DEF SendFails
<1>t. /\ r.id \in ReminderIds
      /\ sent \in [ReminderIds -> Nat] /\ failed \in [ReminderIds -> Nat]
      /\ sent' \in [ReminderIds -> Nat] /\ failed' \in [ReminderIds -> Nat]
      /\ stage \in [Loops -> {"pick", "sending", "sent", "failed"}]
  BY DEF NothingLostInductive, TypeOK, Reminder
<1>1. /\ stage[l] \in {"pick", "sending"} /\ IsFirst(r, due[l])
      /\ stage' = [stage EXCEPT ![l] = "failed"]
  BY DEF SendFails, Firing
<1>2. \A s \in due[l] : IsFirst(s, due[l]) => s.id = r.id
  <2>1. SUFFICES ASSUME NEW s \in due[l], IsFirst(s, due[l]) PROVE s.id = r.id
    OBVIOUS
  <2>2. s.id \in ReminderIds
    BY DEF NothingLostInductive, TypeOK, Reminder
  <2>3. QED
    BY <2>1, <2>2, <1>1, <1>t DEF IsFirst, ReminderIds
<1>3. failed' = [failed EXCEPT ![r.id] = @ + 1]
  BY DEF SendFails
<1>4. \A i \in ReminderIds : sent'[i] >= sent[i] /\ failed'[i] >= failed[i]
  BY <1>t, <1>3 DEF SendFails
<1>5. \A i : i = r.id => Counting(i)' = Counting(i) \cup {l}
  BY <1>t, <1>u, <1>1 DEF Counting
<1>6. \A i : i # r.id => Counting(i)' = Counting(i)
  BY <1>t, <1>u, <1>1, <1>2 DEF Counting
<1>7. FileSound'
  <2>1. SUFFICES ASSUME NEW s \in reminders
        PROVE  /\ s.id < nextId
               /\ s.dueAt = dueOf[s.id]
               /\ s.sendAttempts + Cardinality(Counting(s.id)') <= failed'[s.id]
    BY <1>u DEF FileSound
  <2>2. /\ s.id < nextId
        /\ s.dueAt = dueOf[s.id]
        /\ s.sendAttempts + Cardinality(Counting(s.id)) <= failed[s.id]
    BY DEF NothingLostInductive, FileSound
  <2>3. s.id \in ReminderIds /\ s.sendAttempts \in Nat
    BY DEF NothingLostInductive, TypeOK, Reminder
  <2>4. CASE s.id = r.id
    <3>1. IsFiniteSet(Counting(s.id)) /\ Cardinality(Counting(s.id)) \in Nat
      BY CountingFinite
    <3>2. Cardinality(Counting(s.id)') <= Cardinality(Counting(s.id)) + 1
      <4>1. Counting(s.id)' = Counting(s.id) \cup {l}
        BY <2>4, <1>5
      <4>2. Cardinality(Counting(s.id) \cup {l}) <= Cardinality(Counting(s.id)) + 1
        BY <3>1, OneMore
      <4>3. QED
        BY <4>1, <4>2
    <3>3. failed'[s.id] = failed[s.id] + 1
      BY <2>4, <1>3, <1>t
    <3>4. Cardinality(Counting(s.id)') \in Nat
      BY CountingFiniteNext
    <3>5. QED
      BY <2>2, <2>3, <3>1, <3>2, <3>3, <3>4, <1>t
  <2>5. CASE s.id # r.id
    BY <2>2, <2>3, <2>5, <1>3, <1>6, <1>t
  <2>6. QED
    BY <2>4, <2>5
<1>8. CopiesSound'
  <2>1. SUFFICES ASSUME NEW k \in Loops
        PROVE  /\ stage'[k] # "pick" => due[k] # {}
               /\ \A s \in due[k] :
                    /\ s.id < nextId
                    /\ s.dueAt = dueOf[s.id]
                    /\ s.dueAt <= now
                    /\ s.sendAttempts <= failed'[s.id]
    BY <1>u DEF CopiesSound
  <2>2. stage'[k] # "pick" => due[k] # {}
    BY <1>1, <1>t DEF NothingLostInductive, CopiesSound
  <2>3. ASSUME NEW s \in due[k] PROVE s.sendAttempts <= failed'[s.id]
    <3>1. s.id \in ReminderIds /\ s.sendAttempts \in Nat
      BY DEF NothingLostInductive, TypeOK, Reminder
    <3>2. s.sendAttempts <= failed[s.id] /\ failed'[s.id] >= failed[s.id]
      BY <1>4, <3>1 DEF NothingLostInductive, CopiesSound
    <3>3. QED
      BY <3>1, <3>2, <1>t
  <2>4. QED
    BY <2>2, <2>3 DEF NothingLostInductive, CopiesSound
<1>9. RemovesOnlySent'
  <2>1. SUFFICES ASSUME NEW k \in Loops, stage'[k] = "sent",
                        NEW s \in due[k], IsFirst(s, due[k])
        PROVE  sent'[s.id] > 0
    BY <1>u DEF RemovesOnlySent
  <2>2. s.id \in ReminderIds
    BY DEF NothingLostInductive, TypeOK, Reminder
  <2>3. stage[k] = "sent"
    BY <2>1, <1>1, <1>t
  <2>4. sent[s.id] > 0 /\ sent'[s.id] >= sent[s.id]
    BY <2>1, <2>2, <2>3, <1>4 DEF NothingLostInductive, RemovesOnlySent
  <2>5. QED
    BY <2>2, <2>4, <1>t
<1>10. NothingLost'
  <2>1. SUFFICES ASSUME NEW i \in Accepted
        PROVE  \/ i \in Ids(reminders) \/ sent'[i] > 0
               \/ i \in cancelled \/ failed'[i] >= MaxSendAttempts
    BY <1>u DEF NothingLost, Accepted
  <2>2. i \in ReminderIds
    BY AcceptedIds DEF NothingLostInductive
  <2>3. /\ sent[i] \in Nat /\ sent'[i] \in Nat /\ sent'[i] >= sent[i]
        /\ failed[i] \in Nat /\ failed'[i] \in Nat /\ failed'[i] >= failed[i]
    BY <2>2, <1>4, <1>t
  <2>4. QED
    BY <2>3, ParametersAssumption DEF NothingLostInductive, NothingLost
<1>11. QED
  BY <1>7, <1>8, <1>9, <1>10 DEF NothingLostInductive

(***************************************************************************)
(* The loop is done with r: nothing of its copy but r goes.                *)
(***************************************************************************)
LEMMA AfterFireReturns ==
    ASSUME NothingLostInductive, NEW l \in Loops, NEW r \in due[l],
           IsFirst(r, due[l]), FireReturns(l, r),
           UNCHANGED <<now, nextId, dueOf, sent, failed, cancelled>>
    PROVE  /\ CopiesSound'
           /\ RemovesOnlySent'
           /\ \A i : i # r.id => Counting(i)' = Counting(i)
           /\ stage[l] # "failed" => \A i : Counting(i)' = Counting(i)
           /\ stage[l] = "failed" =>
                \A i : i = r.id => l \in Counting(i) /\ Counting(i)' = Counting(i) \ {l}
<1>t. /\ stage \in [Loops -> {"pick", "sending", "sent", "failed"}]
      /\ due \in [Loops -> SUBSET Reminder]
  BY DEF NothingLostInductive, TypeOK
<1>1. /\ stage'[l] = "pick" /\ due'[l] = due[l] \ {r}
      /\ \A k \in Loops \ {l} : stage'[k] = stage[k] /\ due'[k] = due[k]
  BY <1>t DEF FireReturns
<1>2. \A s \in due[l] : IsFirst(s, due[l]) => s.id = r.id
  <2>1. SUFFICES ASSUME NEW s \in due[l], IsFirst(s, due[l]) PROVE s.id = r.id
    OBVIOUS
  <2>2. s.id \in ReminderIds /\ r.id \in ReminderIds
    BY <1>t DEF Reminder
  <2>3. QED
    BY <2>1, <2>2 DEF IsFirst, ReminderIds
<1>3. CopiesSound'
  BY <1>1 DEF NothingLostInductive, CopiesSound
<1>4. RemovesOnlySent'
  <2>1. SUFFICES ASSUME NEW k \in Loops, stage'[k] = "sent",
                        NEW s \in due'[k], IsFirst(s, due'[k])
        PROVE  sent[s.id] > 0
    BY DEF RemovesOnlySent
  <2>2. k # l /\ stage[k] = "sent" /\ due'[k] = due[k]
    BY <1>1, <2>1
  <2>3. QED
    BY <2>1, <2>2 DEF NothingLostInductive, RemovesOnlySent
<1>5. \A i : i # r.id => Counting(i)' = Counting(i)
  BY <1>1, <1>2 DEF Counting
<1>6. stage[l] # "failed" => \A i : Counting(i)' = Counting(i)
  BY <1>1 DEF Counting
<1>7. stage[l] = "failed" =>
        \A i : i = r.id => l \in Counting(i) /\ Counting(i)' = Counting(i) \ {l}
  BY <1>1 DEF Counting
<1>8. QED
  BY <1>3, <1>4, <1>5, <1>6, <1>7

(* A reminder goes: it was posted, or its sends are exhausted.             *)
LEMMA NothingLostRemoves ==
    ASSUME NothingLostInductive, TypeOK', NEW l \in Loops, NEW r \in due[l],
           DropExhausted(l, r) \/ RemoveSent(l, r)
    PROVE  NothingLostInductive'
<1>u. /\ UNCHANGED <<now, nextId, dueOf, sent, failed, cancelled>>
      /\ stage[l] # "failed" /\ IsFirst(r, due[l]) /\ FireReturns(l, r)
      /\ reminders' \in {reminders, Remove(reminders, r.id)}
  BY DEF DropExhausted, RemoveSent, Firing, Write
<1>1. CopiesSound' /\ RemovesOnlySent' /\ \A i : Counting(i)' = Counting(i)
  BY <1>u, AfterFireReturns
<1>2. FileSound'
  BY <1>u, <1>1 DEF NothingLostInductive, FileSound, Remove
<1>3. sent[r.id] > 0 \/ failed[r.id] >= MaxSendAttempts
  <2>1. CASE RemoveSent(l, r)
    BY <2>1 DEF RemoveSent, Firing, NothingLostInductive, RemovesOnlySent
  <2>2. CASE DropExhausted(l, r)
    <3>1. r.sendAttempts <= failed[r.id] /\ r.sendAttempts >= MaxSendAttempts
      BY <2>2 DEF DropExhausted, NothingLostInductive, CopiesSound
    <3>2. r.sendAttempts \in Nat /\ failed[r.id] \in Nat
      BY DEF NothingLostInductive, TypeOK, Reminder
    <3>3. QED
      BY <3>1, <3>2, ParametersAssumption
  <2>3. QED
    BY <2>1, <2>2
<1>4. NothingLost'
  <2>1. SUFFICES ASSUME NEW i \in Accepted
        PROVE  \/ i \in Ids(reminders') \/ sent[i] > 0
               \/ i \in cancelled \/ failed[i] >= MaxSendAttempts
    BY <1>u DEF NothingLost, Accepted
  <2>2. CASE i = r.id
    BY <2>2, <1>3
  <2>3. CASE i # r.id
    BY <2>3, <1>u DEF NothingLostInductive, NothingLost, Ids, Remove
  <2>4. QED
    BY <2>2, <2>3
<1>5. QED
  BY <1>1, <1>2, <1>4 DEF NothingLostInductive

(* IncrementSendAttempts changes a count, and nothing else in the file.    *)
LEMMA IncrementsOne ==
    ASSUME NEW file \in SUBSET Reminder, NEW i
    PROVE  /\ \A s \in IncrementSendAttempts(file, i) : \E o \in file :
                /\ s.id = o.id /\ s.dueAt = o.dueAt
                /\ \/ s.sendAttempts = o.sendAttempts
                   \/ s.id = i /\ s.sendAttempts = o.sendAttempts + 1
           /\ Ids(IncrementSendAttempts(file, i)) = Ids(file)
<1> DEFINE Bump(o) == IF o.id = i THEN [o EXCEPT !.sendAttempts = @ + 1] ELSE o
<1>1. ASSUME NEW o \in file
      PROVE  /\ Bump(o).id = o.id /\ Bump(o).dueAt = o.dueAt
             /\ \/ Bump(o).sendAttempts = o.sendAttempts
                \/ o.id = i /\ Bump(o).sendAttempts = o.sendAttempts + 1
  <2>1. o \in [id : ReminderIds, user : Users, dueAt : Nat, sendAttempts : Nat]
    BY DEF Reminder
  <2>2. CASE o.id = i
    <3>1. Bump(o) = [o EXCEPT !.sendAttempts = @ + 1]
      BY <2>2
    <3>2. QED
      BY <2>1, <2>2, <3>1
  <2>3. CASE o.id # i
    BY <2>3
  <2>4. QED
    BY <2>2, <2>3
<1>2. IncrementSendAttempts(file, i) = {Bump(o) : o \in file}
  BY DEF IncrementSendAttempts
<1> HIDE DEF Bump
<1>3. QED
  BY <1>1, <1>2 DEF Ids

(* The loop counts a failed send in the file, or cannot.                   *)
LEMMA NothingLostCountFailure ==
    ASSUME NothingLostInductive, TypeOK', NEW l \in Loops, NEW r \in due[l],
           CountFailure(l, r)
    PROVE  NothingLostInductive'
<1>u. /\ UNCHANGED <<now, nextId, dueOf, sent, failed, cancelled>>
      /\ stage[l] = "failed" /\ IsFirst(r, due[l]) /\ FireReturns(l, r)
      /\ reminders' \in {reminders, IncrementSendAttempts(reminders, r.id)}
  BY DEF CountFailure, Firing, Write
<1>1. /\ CopiesSound' /\ RemovesOnlySent'
      /\ \A i : i # r.id => Counting(i)' = Counting(i)
      /\ \A i : i = r.id => l \in Counting(i) /\ Counting(i)' = Counting(i) \ {l}
  BY <1>u, AfterFireReturns
<1>2. ASSUME NEW s \in reminders'
      PROVE  \E o \in reminders :
                /\ s.id = o.id /\ s.dueAt = o.dueAt
                /\ \/ s.sendAttempts = o.sendAttempts
                   \/ s.id = r.id /\ s.sendAttempts = o.sendAttempts + 1
  <2>1. CASE s \in reminders
    BY <2>1
  <2>2. CASE s \in IncrementSendAttempts(reminders, r.id)
    <3>1. reminders \in SUBSET Reminder
      BY DEF NothingLostInductive, TypeOK
    <3>2. QED
      BY <2>2, <3>1, IncrementsOne
  <2>3. QED
    BY <1>u, <2>1, <2>2
<1>3. FileSound'
  <2>1. SUFFICES ASSUME NEW s \in reminders'
        PROVE  /\ s.id < nextId
               /\ s.dueAt = dueOf[s.id]
               /\ s.sendAttempts + Cardinality(Counting(s.id)') <= failed[s.id]
    BY <1>u DEF FileSound
  <2>2. PICK o \in reminders :
                /\ s.id = o.id /\ s.dueAt = o.dueAt
                /\ \/ s.sendAttempts = o.sendAttempts
                   \/ s.id = r.id /\ s.sendAttempts = o.sendAttempts + 1
    BY <1>2
  <2>3. /\ s.id < nextId
        /\ s.dueAt = dueOf[s.id]
        /\ o.sendAttempts + Cardinality(Counting(s.id)) <= failed[s.id]
    BY <2>2 DEF NothingLostInductive, FileSound
  <2>4. s.id \in ReminderIds /\ o.sendAttempts \in Nat /\ failed[s.id] \in Nat
    BY <2>2 DEF NothingLostInductive, TypeOK, Reminder
  <2>5. IsFiniteSet(Counting(s.id)) /\ Cardinality(Counting(s.id)) \in Nat
    BY CountingFinite
  <2>6. CASE s.id = r.id
    <3>1. l \in Counting(s.id) /\ Counting(s.id)' = Counting(s.id) \ {l}
      BY <1>1, <2>6
    <3>2. Cardinality(Counting(s.id) \ {l}) = Cardinality(Counting(s.id)) - 1
      BY <3>1, <2>5, OneLess
    <3>3. QED
      BY <2>2, <2>3, <2>4, <2>5, <3>1, <3>2
  <2>7. CASE s.id # r.id
    BY <1>1, <2>2, <2>3, <2>7
  <2>8. QED
    BY <2>6, <2>7
<1>4. Ids(reminders') = Ids(reminders)
  BY <1>u, IncrementsOne DEF NothingLostInductive, TypeOK
<1>5. NothingLost'
  BY <1>u, <1>4 DEF NothingLostInductive, NothingLost, Accepted
<1>6. QED
  BY <1>1, <1>3, <1>5 DEF NothingLostInductive

LEMMA NothingLostAdd ==
    ASSUME NothingLostInductive, TypeOK', NEW h \in Handlers, AddReminder(h)
    PROVE  NothingLostInductive'
<1> DEFINE new == [id |-> nextId, user |-> request[h].user,
                   dueAt |-> request[h].dueAt, sendAttempts |-> 0]
<1>u. /\ UNCHANGED <<now, stage, due, sent, failed, cancelled>>
      /\ reminders' = reminders \cup {new}
      /\ dueOf' = [dueOf EXCEPT ![nextId] = request[h].dueAt]
      /\ nextId' = nextId + 1
      /\ nextId <= NumReminders
  BY DEF AddReminder, Add
<1>n. nextId \in ReminderIds /\ nextId \in Nat
  BY <1>u, ParametersAssumption DEF NothingLostInductive, TypeOK, ReminderIds
<1>t. dueOf \in [ReminderIds -> Nat] /\ nextId \in Nat /\ failed[nextId] \in Nat
  BY <1>n DEF NothingLostInductive, TypeOK
<1>1. \A i : Counting(i)' = Counting(i)
  BY <1>u DEF Counting
<1>2. \A i \in ReminderIds : i < nextId => dueOf'[i] = dueOf[i]
  BY <1>u, <1>n, <1>t DEF ReminderIds
<1>3. FileSound'
  <2>1. SUFFICES ASSUME NEW s \in reminders'
        PROVE  /\ s.id < nextId + 1
               /\ s.dueAt = dueOf'[s.id]
               /\ s.sendAttempts + Cardinality(Counting(s.id)) <= failed[s.id]
    BY <1>u, <1>1 DEF FileSound
  <2>2. CASE s \in reminders
    <3>1. s.id \in ReminderIds /\ s.id \in Nat
      BY <2>2 DEF NothingLostInductive, TypeOK, Reminder, ReminderIds
    <3>2. QED
      BY <2>2, <3>1, <1>2, <1>t DEF NothingLostInductive, FileSound
  <2>3. CASE s = new
    <3>1. s.id = nextId /\ s.dueAt = request[h].dueAt /\ s.sendAttempts = 0
      BY <2>3
    <3>2. s.dueAt = dueOf'[s.id]
      BY <3>1, <1>u, <1>n, <1>t
    <3>3. Counting(s.id) = {}
      BY <3>1, <1>t DEF Counting, NothingLostInductive, CopiesSound
    <3>4. Cardinality(Counting(s.id)) = 0
      BY <3>3, FS_EmptySet
    <3>5. QED
      BY <3>1, <3>2, <3>4, <1>t
  <2>4. QED
    BY <1>u, <2>2, <2>3
<1>4. CopiesSound'
  <2>1. SUFFICES ASSUME NEW k \in Loops, NEW s \in due[k]
        PROVE  s.id < nextId + 1 /\ s.dueAt = dueOf'[s.id]
    BY <1>u DEF NothingLostInductive, CopiesSound
  <2>2. s.id \in ReminderIds /\ s.id \in Nat
    BY DEF NothingLostInductive, TypeOK, Reminder, ReminderIds
  <2>3. QED
    BY <2>2, <1>2, <1>t DEF NothingLostInductive, CopiesSound
<1>5. RemovesOnlySent'
  BY <1>u DEF NothingLostInductive, RemovesOnlySent
<1>6. NothingLost'
  <2>1. SUFFICES ASSUME NEW i \in 1..nextId
        PROVE  \/ i \in Ids(reminders') \/ sent[i] > 0
               \/ i \in cancelled \/ failed[i] >= MaxSendAttempts
    <3>1. Accepted' = 1..nextId
      BY <1>u, <1>t DEF Accepted
    <3>2. QED
      BY <1>u, <3>1 DEF NothingLost
  <2>2. CASE i = nextId
    <3>1. new \in reminders' /\ new.id = i
      BY <2>2, <1>u
    <3>2. QED
      BY <3>1 DEF Ids
  <2>3. CASE i # nextId
    <3>1. i \in Accepted
      BY <2>3, <1>t DEF Accepted
    <3>2. QED
      BY <3>1, <1>u DEF NothingLostInductive, NothingLost, Ids
  <2>4. QED
    BY <2>2, <2>3
<1>7. QED
  BY <1>3, <1>4, <1>5, <1>6 DEF NothingLostInductive

LEMMA NothingLostCancel ==
    ASSUME NothingLostInductive, TypeOK', NEW h \in Handlers, CancelAll(h)
    PROVE  NothingLostInductive'
<1>u. /\ UNCHANGED <<now, nextId, stage, due, dueOf, sent, failed>>
      /\ reminders' = RemoveAllForUser(reminders, request[h].user)
      /\ cancelled' = cancelled \cup Ids(OfUser(reminders, request[h].user))
  BY DEF CancelAll
<1>1. \A i : Counting(i)' = Counting(i)
  BY <1>u DEF Counting
<1>2. FileSound'
  BY <1>u, <1>1 DEF NothingLostInductive, FileSound, RemoveAllForUser
<1>3. CopiesSound' /\ RemovesOnlySent'
  BY <1>u DEF NothingLostInductive, CopiesSound, RemovesOnlySent
<1>4. NothingLost'
  <2>1. Ids(reminders) \subseteq Ids(reminders') \cup cancelled'
    BY <1>u DEF Ids, RemoveAllForUser
  <2>2. QED
    BY <1>u, <2>1 DEF NothingLostInductive, NothingLost, Accepted
<1>5. QED
  BY <1>2, <1>3, <1>4 DEF NothingLostInductive

(***************************************************************************)
(* Every step keeps the inductive invariant.                               *)
(***************************************************************************)
LEMMA NothingLostLoop ==
    ASSUME NothingLostInductive, TypeOK', NEW l \in Loops,
           Tick(l) \/ LoopExit(l) \/ Fire(l)
    PROVE  NothingLostInductive'
<1>1. CASE Tick(l)
  BY <1>1, NothingLostTick
<1>2. CASE LoopExit(l)
  <2>1. now' >= now /\ UNCHANGED <<reminders, nextId, stage, due, dueOf, sent, failed, cancelled>>
    BY <1>2 DEF LoopExit, NothingLostInductive, TypeOK
  <2>2. QED
    BY <2>1, NothingLostQuiet
<1>3. CASE Fire(l)
  <2>1. PICK r \in due[l] :
            DropExhausted(l, r) \/ BeginSend(l, r) \/ SendOK(l, r)
              \/ SendFails(l, r) \/ CountFailure(l, r) \/ RemoveSent(l, r)
    BY <1>3 DEF Fire
  <2>2. QED
    BY <2>1, NothingLostBegins, NothingLostSendOK, NothingLostSendFails,
       NothingLostRemoves, NothingLostCountFailure
<1>4. QED
  BY <1>1, <1>2, <1>3

LEMMA NothingLostHandler ==
    ASSUME NothingLostInductive, TypeOK', NEW h \in Handlers,
           Handle(h) \/ (\E u \in Users : Receive(h, u))
    PROVE  NothingLostInductive'
<1>1. CASE AddReminder(h)
  BY <1>1, NothingLostAdd
<1>2. CASE CancelAll(h)
  BY <1>2, NothingLostCancel
<1>3. CASE \/ \E u \in Users : Receive(h, u)
           \/ ParsedSchedule(h) \/ ParsedCancel(h) \/ ParsedNone(h)
           \/ StoreError(h) \/ Confirm(h)
  <2>1. now' = now /\ UNCHANGED <<reminders, nextId, stage, due, dueOf, sent, failed, cancelled>>
    BY <1>3 DEF Receive, ParsedSchedule, ParsedCancel, ParsedNone, StoreError, Confirm
  <2>2. now' >= now
    BY <2>1 DEF NothingLostInductive, TypeOK
  <2>3. QED
    BY <2>1, <2>2, NothingLostQuiet
<1>4. QED
  BY <1>1, <1>2, <1>3 DEF Handle

LEMMA NothingLostProcess ==
    ASSUME NothingLostInductive, TypeOK',
           Advance \/ RunApp \/ OpenFails \/ OpenGateway \/ MarkReady
             \/ Crash \/ Restart \/ Shutdown \/ Exit
    PROVE  NothingLostInductive'
<1>1. CASE Crash \/ Exit
  BY <1>1, NothingLostGone DEF Crash, Exit
<1>2. CASE Advance \/ RunApp \/ OpenFails \/ OpenGateway \/ MarkReady
             \/ Restart \/ Shutdown
  <2>1. UNCHANGED <<reminders, nextId, stage, due, dueOf, sent, failed, cancelled>>
    BY <1>2 DEF Advance, RunApp, OpenFails, OpenGateway, MarkReady, Restart, Shutdown
  <2>2. now' = now \/ now' = now + 1
    BY <1>2 DEF Advance, RunApp, OpenFails, OpenGateway, MarkReady, Restart, Shutdown
  <2>3. now' >= now
    BY <2>2 DEF NothingLostInductive, TypeOK
  <2>4. QED
    BY <2>1, <2>3, NothingLostQuiet
<1>3. QED
  BY <1>1, <1>2

LEMMA NothingLostStep ==
    ASSUME NothingLostInductive, TypeOK', [Next]_vars
    PROVE  NothingLostInductive'
<1>1. CASE UNCHANGED vars
  <2>1. now' = now /\ UNCHANGED <<reminders, nextId, stage, due, dueOf, sent, failed, cancelled>>
    BY <1>1 DEF vars
  <2>2. now' >= now
    BY <2>1 DEF NothingLostInductive, TypeOK
  <2>3. QED
    BY <2>1, <2>2, NothingLostQuiet
<1>2. CASE Advance \/ RunApp \/ OpenFails \/ OpenGateway \/ MarkReady
             \/ Crash \/ Restart \/ Shutdown \/ Exit
  BY <1>2, NothingLostProcess
<1>3. ASSUME NEW l \in Loops, Tick(l) \/ LoopExit(l) \/ Fire(l)
      PROVE  NothingLostInductive'
  BY <1>3, NothingLostLoop
<1>4. ASSUME NEW h \in Handlers,
             Handle(h) \/ (\E u \in Users : Receive(h, u))
      PROVE  NothingLostInductive'
  BY <1>4, NothingLostHandler
<1>5. QED
  BY <1>1, <1>2, <1>3, <1>4 DEF Next

(* The inductive invariant below NothingLost holds of the specification.   *)
THEOREM NothingLostInductiveHolds == Spec => []NothingLostInductive
<1>1. Init => NothingLostInductive
  BY NothingLostInit
<1>2. NothingLostInductive /\ TypeOK' /\ [Next]_vars => NothingLostInductive'
  BY NothingLostStep
<1>3. QED
  BY <1>1, <1>2, TypeCorrect, PTL DEF Spec

(* What the user was promised: an accepted reminder is in the file, or was *)
(* posted, or was cancelled, or was given up after maxSendAttempts failed  *)
(* sends, for every number of loops, faults and restarts.                  *)
THEOREM ReminderNeverLost == Spec => []NothingLost
<1>1. NothingLostInductive => NothingLost
  BY DEF NothingLostInductive
<1>2. QED
  BY <1>1, NothingLostInductiveHolds, PTL

(***************************************************************************)
(* A step writes to the file in one of three ways, and posts in one.       *)
(***************************************************************************)
Posts(l, r) == SendOK(l, r) \/ SendFails(l, r)

Closes(l, r) == DropExhausted(l, r) \/ RemoveSent(l, r)

Leaves ==
    UNCHANGED <<reminders, nextId, dueOf, sent, failed, cancelled>>

LEMMA StepKinds ==
    ASSUME [Next]_vars
    PROVE  \/ Leaves
           \/ \E l \in Loops : \E r \in due[l] :
                 Posts(l, r) \/ Closes(l, r) \/ CountFailure(l, r)
           \/ \E h \in Handlers : AddReminder(h) \/ CancelAll(h)
<1>1. CASE UNCHANGED vars
  BY <1>1 DEF vars, Leaves
<1>2. CASE Advance \/ RunApp \/ OpenFails \/ OpenGateway \/ MarkReady
             \/ Restart \/ Shutdown
  BY <1>2 DEF Advance, RunApp, OpenFails, OpenGateway, MarkReady, Restart, Shutdown, Leaves
<1>3. CASE Crash \/ Exit
  BY <1>3 DEF Crash, Exit, ProcessGone, Leaves
<1>4. ASSUME NEW l \in Loops, Tick(l) \/ LoopExit(l)
      PROVE  Leaves
  BY <1>4 DEF Tick, LoopExit, Leaves
<1>5. ASSUME NEW l \in Loops, Fire(l)
      PROVE  \/ Leaves
             \/ \E r \in due[l] : Posts(l, r) \/ Closes(l, r) \/ CountFailure(l, r)
  BY <1>5 DEF Fire, BeginSend, Leaves, Posts, Closes
<1>6. ASSUME NEW h \in Handlers, NEW u \in Users, Receive(h, u)
      PROVE  Leaves
  BY <1>6 DEF Receive, Leaves
<1>7. ASSUME NEW h \in Handlers,
             \/ ParsedSchedule(h) \/ ParsedCancel(h) \/ ParsedNone(h)
             \/ StoreError(h) \/ Confirm(h)
      PROVE  Leaves
  BY <1>7 DEF ParsedSchedule, ParsedCancel, ParsedNone, StoreError, Confirm, Leaves
<1>8. QED
  BY <1>1, <1>2, <1>3, <1>4, <1>5, <1>6, <1>7 DEF Next, Handle

(* No reminder is posted before its time.                                  *)
THEOREM ReminderNeverEarly == Spec => NeverEarly
<1> DEFINE OnTime == \A i \in ReminderIds : sent'[i] # sent[i] => dueOf[i] <= now
<1>1. NothingLostInductive /\ [Next]_vars => [OnTime]_vars
  <2>1. SUFFICES ASSUME NothingLostInductive, [Next]_vars,
                        NEW i \in ReminderIds, sent'[i] # sent[i]
        PROVE  dueOf[i] <= now
    OBVIOUS
  <2>2. PICK l \in Loops : \E r \in due[l] : Posts(l, r)
    BY <2>1, StepKinds DEF Leaves, Closes, DropExhausted, RemoveSent,
                           CountFailure, AddReminder, CancelAll
  <2>3. PICK r \in due[l] : Posts(l, r)
    BY <2>2
  <2>4. r.id = i
    BY <2>1, <2>3 DEF Posts, SendOK, SendFails, NothingLostInductive, TypeOK
  <2>5. QED
    BY <2>1, <2>4 DEF NothingLostInductive, CopiesSound
<1>2. QED
  BY <1>1, NothingLostInductiveHolds, PTL DEF Spec, NeverEarly

(* What left the file does not come back: only Add brings an identifier    *)
(* into the file, and it is a new one.                                     *)
LEMMA IdsGrowByAdd ==
    ASSUME TypeOK, [Next]_vars
    PROVE  Ids(reminders') \subseteq Ids(reminders) \cup {nextId}
<1>1. CASE Leaves
  BY <1>1 DEF Leaves
<1>2. ASSUME NEW l \in Loops, NEW r \in due[l],
             Posts(l, r) \/ Closes(l, r) \/ CountFailure(l, r)
      PROVE  Ids(reminders') \subseteq Ids(reminders)
  <2>1. CASE Posts(l, r)
    BY <2>1 DEF Posts, SendOK, SendFails
  <2>2. CASE Closes(l, r)
    BY <2>2 DEF Closes, DropExhausted, RemoveSent, Write, Remove, Ids
  <2>3. CASE CountFailure(l, r)
    <3>1. reminders' \in {reminders, IncrementSendAttempts(reminders, r.id)}
      BY <2>3 DEF CountFailure, Write
    <3>2. Ids(IncrementSendAttempts(reminders, r.id)) = Ids(reminders)
      BY IncrementsOne DEF TypeOK
    <3>3. QED
      BY <3>1, <3>2
  <2>4. QED
    BY <1>2, <2>1, <2>2, <2>3
<1>3. ASSUME NEW h \in Handlers, AddReminder(h) \/ CancelAll(h)
      PROVE  Ids(reminders') \subseteq Ids(reminders) \cup {nextId}
  BY <1>3 DEF AddReminder, CancelAll, Add, RemoveAllForUser, Ids
<1>4. QED
  BY <1>1, <1>2, <1>3, StepKinds

(* A reminder that left the file never comes back, although the scheduler  *)
(* writes to the file from a copy it read earlier.                         *)
THEOREM ReminderNoResurrection == Spec => NoResurrection
<1> DEFINE StaysOut ==
        \A i \in Accepted \ Ids(reminders) : i \notin Ids(reminders')
<1>1. TypeOK /\ [Next]_vars => [StaysOut]_vars
  BY IdsGrowByAdd, ParametersAssumption DEF Accepted, TypeOK
<1>2. QED
  BY <1>1, TypeCorrect, PTL DEF Spec, NoResurrection

(***************************************************************************)
(* An identifier names one reminder of the file.                           *)
(***************************************************************************)
LEMMA UniqueIdsStep ==
    ASSUME NothingLostInductive, UniqueIds, [Next]_vars
    PROVE  UniqueIds'
<1>1. CASE reminders' \subseteq reminders
  BY <1>1 DEF UniqueIds
<1>2. ASSUME NEW h \in Handlers, AddReminder(h)
      PROVE  UniqueIds'
  <2>1. /\ reminders' = Add(reminders, nextId, request[h].user, request[h].dueAt)
        /\ nextId \in Nat
    BY <1>2 DEF AddReminder, NothingLostInductive, TypeOK
  <2>2. \A r \in reminders : r.id # nextId
    BY <2>1 DEF NothingLostInductive, FileSound
  <2>3. QED
    BY <2>1, <2>2 DEF UniqueIds, Add
<1>3. ASSUME NEW l \in Loops, NEW r \in due[l], CountFailure(l, r)
      PROVE  UniqueIds'
  <2> DEFINE Bump(o) == IF o.id = r.id THEN [o EXCEPT !.sendAttempts = @ + 1] ELSE o
  <2>1. \A o \in reminders : Bump(o).id = o.id
    <3>1. SUFFICES ASSUME NEW o \in reminders PROVE Bump(o).id = o.id
      OBVIOUS
    <3>2. o \in [id : ReminderIds, user : Users, dueAt : Nat, sendAttempts : Nat]
      BY DEF NothingLostInductive, TypeOK, Reminder
    <3>3. QED
      BY <3>2
  <2>2. reminders' = reminders \/ reminders' = {Bump(o) : o \in reminders}
    BY <1>3 DEF CountFailure, Write, IncrementSendAttempts
  <2> HIDE DEF Bump
  <2>3. QED
    BY <2>1, <2>2 DEF UniqueIds
<1>4. QED
  <2>1. ASSUME NEW l \in Loops, NEW r \in due[l], Posts(l, r) \/ Closes(l, r)
        PROVE  reminders' \subseteq reminders
    BY <2>1 DEF Posts, Closes, SendOK, SendFails, DropExhausted, RemoveSent, Write, Remove
  <2>2. ASSUME NEW h \in Handlers, CancelAll(h)
        PROVE  reminders' \subseteq reminders
    BY <2>2 DEF CancelAll, RemoveAllForUser
  <2>3. Leaves => reminders' \subseteq reminders
    BY DEF Leaves
  <2>4. QED
    BY <1>1, <1>2, <1>3, <2>1, <2>2, <2>3, StepKinds

(* Add never hands out an identifier that is still in the file.            *)
THEOREM UniqueIdsHold == Spec => []UniqueIds
<1>1. Init => UniqueIds
  BY DEF Init, UniqueIds
<1>2. NothingLostInductive /\ UniqueIds /\ [Next]_vars => UniqueIds'
  BY UniqueIdsStep
<1>3. QED
  BY <1>1, <1>2, NothingLostInductiveHolds, PTL DEF Spec

(***************************************************************************)
(* Refinement: the scheduler, its file and its faults implement the        *)
(* promise.                                                                *)
(***************************************************************************)
Delivered == {i \in ReminderIds : sent[i] > 0}
Exhausted == {i \in ReminderIds : failed[i] >= MaxSendAttempts}

USE DEF Delivered, Exhausted

LEMMA PromiseInit == Init => Promise!Init
<1>1. SUFFICES ASSUME Init PROVE Promise!Init
  OBVIOUS
<1>2. Accepted = {}
  BY <1>1 DEF Init, Accepted
<1>3. Ids(reminders) = {}
  BY <1>1 DEF Init, Ids
<1>4. Delivered = {} /\ Exhausted = {}
  BY <1>1, ParametersAssumption DEF Init
<1>5. QED
  BY <1>1, <1>2, <1>3, <1>4 DEF Init, Promise!Init

(* A send is an attempt to deliver.                                        *)
LEMMA PostsIsAttempt ==
    ASSUME NothingLostInductive, TypeOK', NEW l \in Loops, NEW r \in due[l], Posts(l, r)
    PROVE  Promise!Next
<1>1. UNCHANGED <<reminders, nextId, cancelled>>
  BY DEF Posts, SendOK, SendFails
<1>a. TypeOK /\ CopiesSound
  BY DEF NothingLostInductive
<1>2. r.id \in Accepted /\ r.id \in ReminderIds
  <2>1. r \in Reminder /\ nextId \in Nat
    BY <1>a DEF TypeOK
  <2>2. r.id < nextId
    BY <1>a DEF CopiesSound
  <2>3. QED
    BY <2>1, <2>2 DEF Reminder, Accepted, ReminderIds
<1>t. /\ sent \in [ReminderIds -> Nat] /\ sent' \in [ReminderIds -> Nat]
      /\ failed \in [ReminderIds -> Nat] /\ failed' \in [ReminderIds -> Nat]
  BY <1>a DEF TypeOK
<1>3. sent' \in {sent, [sent EXCEPT ![r.id] = @ + 1]}
  BY DEF Posts, SendOK, SendFails
<1>4. failed' \in {failed, [failed EXCEPT ![r.id] = @ + 1]}
  BY DEF Posts, SendOK, SendFails
<1>5. Delivered' \in {Delivered, Delivered \cup {r.id}}
  BY <1>2, <1>3, <1>t
<1>6. Exhausted' \in {Exhausted, Exhausted \cup {r.id}}
  <2>1. ASSUME NEW i \in ReminderIds
        PROVE  (i # r.id => failed'[i] = failed[i]) /\ failed'[i] >= failed[i]
    BY <1>2, <1>4, <1>t
  <2>2. ASSUME NEW i \in Exhausted PROVE i \in Exhausted'
    BY <2>1, <1>t, ParametersAssumption
  <2>3. ASSUME NEW i \in Exhausted', i # r.id PROVE i \in Exhausted
    BY <2>1, <2>3
  <2>4. QED
    BY <2>2, <2>3
<1>7. Promise!Attempt
  BY <1>1, <1>2, <1>5, <1>6 DEF Promise!Attempt, Accepted
<1>8. QED
  BY <1>7 DEF Promise!Next

(* A removal settles the reminder, or finds it gone already.               *)
LEMMA ClosesIsSettle ==
    ASSUME NothingLostInductive, NEW l \in Loops, NEW r \in due[l], Closes(l, r)
    PROVE  [Promise!Next]_Promise!vars
<1>1. UNCHANGED <<nextId, cancelled, sent, failed>>
  BY DEF Closes, DropExhausted, RemoveSent
<1>2. Ids(reminders') \in {Ids(reminders), Ids(reminders) \ {r.id}}
  BY DEF Closes, DropExhausted, RemoveSent, Write, Remove, Ids
<1>3. r.id \in Delivered \cup Exhausted
  <2>1. r.id \in ReminderIds /\ r.sendAttempts \in Nat /\ failed[r.id] \in Nat
    BY DEF NothingLostInductive, TypeOK, Reminder
  <2>2. CASE RemoveSent(l, r)
    BY <2>1, <2>2 DEF RemoveSent, Firing, NothingLostInductive, RemovesOnlySent
  <2>3. CASE DropExhausted(l, r)
    <3>1. r.sendAttempts <= failed[r.id] /\ r.sendAttempts >= MaxSendAttempts
      BY <2>3 DEF DropExhausted, NothingLostInductive, CopiesSound
    <3>2. QED
      BY <2>1, <3>1, ParametersAssumption
  <2>4. QED
    BY <2>2, <2>3 DEF Closes
<1>4. Accepted' = Accepted /\ Delivered' = Delivered /\ Exhausted' = Exhausted
  BY <1>1 DEF Accepted
<1>5. CASE Ids(reminders') = Ids(reminders)
  BY <1>1, <1>4, <1>5 DEF Promise!vars
<1>6. CASE Ids(reminders') = Ids(reminders) \ {r.id} /\ r.id \in Ids(reminders)
  <2>1. Promise!Settle
    BY <1>1, <1>3, <1>4, <1>6 DEF Promise!Settle
  <2>2. QED
    BY <2>1 DEF Promise!Next
<1>7. QED
  BY <1>2, <1>5, <1>6

LEMMA AddIsAccept ==
    ASSUME NothingLostInductive, NEW h \in Handlers, AddReminder(h)
    PROVE  Promise!Next
<1>1. UNCHANGED <<cancelled, sent, failed>> /\ nextId' = nextId + 1 /\ nextId <= NumReminders
  BY DEF AddReminder
<1>2. nextId \in Nat /\ nextId >= 1 /\ nextId \in ReminderIds
  BY <1>1, ParametersAssumption DEF NothingLostInductive, TypeOK, ReminderIds
<1>3. Accepted' = Accepted \cup {nextId} /\ nextId \notin Accepted
  BY <1>1, <1>2 DEF Accepted
<1>4. Ids(reminders') = Ids(reminders) \cup {nextId}
  <2> DEFINE new == [id |-> nextId, user |-> request[h].user,
                     dueAt |-> request[h].dueAt, sendAttempts |-> 0]
  <2>1. reminders' = reminders \cup {new}
    BY DEF AddReminder, Add
  <2>2. new.id = nextId
    OBVIOUS
  <2> HIDE DEF new
  <2>3. QED
    BY <2>1, <2>2 DEF Ids
<1>5. Delivered' = Delivered /\ Exhausted' = Exhausted
  BY <1>1
<1>6. Promise!Accept
  BY <1>1, <1>2, <1>3, <1>4, <1>5 DEF Promise!Accept
<1>7. QED
  BY <1>6 DEF Promise!Next

LEMMA CancelIsCancel ==
    ASSUME UniqueIds, NEW h \in Handlers, CancelAll(h)
    PROVE  Promise!Next
<1> DEFINE S == Ids(OfUser(reminders, request[h].user))
<1>1. UNCHANGED <<nextId, sent, failed>> /\ cancelled' = cancelled \cup S
  BY DEF CancelAll
<1>2. S \subseteq Ids(reminders)
  BY DEF Ids, OfUser
<1>3. Ids(reminders') = Ids(reminders) \ S
  BY DEF CancelAll, RemoveAllForUser, OfUser, Ids, UniqueIds
<1>4. Accepted' = Accepted /\ Delivered' = Delivered /\ Exhausted' = Exhausted
  BY <1>1 DEF Accepted
<1>5. Promise!Cancel
  BY <1>1, <1>2, <1>3, <1>4 DEF Promise!Cancel
<1>6. QED
  BY <1>5 DEF Promise!Next

LEMMA PromiseStep ==
    ASSUME NothingLostInductive, UniqueIds, TypeOK', [Next]_vars
    PROVE  [Promise!Next]_Promise!vars
<1>1. CASE Leaves
  BY <1>1 DEF Leaves, Promise!vars, Accepted
<1>2. ASSUME NEW l \in Loops, NEW r \in due[l], CountFailure(l, r)
      PROVE  UNCHANGED Promise!vars
  <2>1. /\ UNCHANGED <<nextId, cancelled, sent, failed>>
        /\ reminders' \in {reminders, IncrementSendAttempts(reminders, r.id)}
    BY <1>2 DEF CountFailure, Write
  <2>2. Ids(reminders') = Ids(reminders)
    BY <2>1, IncrementsOne DEF NothingLostInductive, TypeOK
  <2>3. QED
    BY <2>1, <2>2 DEF Promise!vars, Accepted
<1>3. QED
  BY <1>1, <1>2, StepKinds, PostsIsAttempt, ClosesIsSettle, AddIsAccept, CancelIsCancel

(* Every behaviour of the reminders is one the promise allows.             *)
THEOREM RemindersKeepPromise == Spec => KeepsPromise
<1>1. Init => Promise!Init
  BY PromiseInit
<1>2. NothingLostInductive /\ UniqueIds /\ TypeOK' /\ [Next]_vars
        => [Promise!Next]_Promise!vars
  BY PromiseStep
<1>3. QED
  BY <1>1, <1>2, NothingLostInductiveHolds, UniqueIdsHold, TypeCorrect, PTL
     DEF Spec, KeepsPromise, Promise!Spec

(***************************************************************************)
(* With one scheduler loop, a reminder is posted once and attempted        *)
(* maxSendAttempts times, up to the number of faults and shutdowns: for    *)
(* every value of the other constants.  OneLoop is what App.Run breaks when it is retried *)
(* after a failed attempt to connect.                                      *)
(***************************************************************************)
OneLoop == \A l, k \in Loops : l = k

HIDE DEF Delivered, Exhausted

(***************************************************************************)
(* The process: what is being fired is fired by a loop App.Run waits for.  *)
(***************************************************************************)
LEMMA ProcessSoundStep ==
    ASSUME OneLoop, TypeOK, ProcessSound, [Next]_vars
    PROVE  ProcessSound'
<1>1. CASE UNCHANGED vars
  BY <1>1 DEF vars, ProcessSound
<1>2. CASE Advance
  BY <1>2 DEF Advance, ProcessSound
<1>3. CASE RunApp
  BY <1>3 DEF RunApp, ProcessSound, OneLoop, TypeOK
<1>4. CASE OpenFails
  BY <1>4 DEF OpenFails, ProcessSound
<1>5. CASE OpenGateway
  BY <1>5 DEF OpenGateway, ProcessSound
<1>6. CASE MarkReady
  BY <1>6 DEF MarkReady, ProcessSound
<1>7. CASE Crash \/ Exit
  BY <1>7 DEF Crash, Exit, ProcessGone, ProcessSound
<1>8. CASE Restart
  BY <1>8 DEF Restart, ProcessSound
<1>9. CASE Shutdown
  BY <1>9 DEF Shutdown, ProcessSound
<1>10. ASSUME NEW l \in Loops, Tick(l) PROVE ProcessSound'
  BY <1>10 DEF Tick, ProcessSound, TypeOK
<1>11. ASSUME NEW l \in Loops, LoopExit(l) PROVE ProcessSound'
  BY <1>11 DEF LoopExit, ProcessSound
<1>12. ASSUME NEW l \in Loops, Fire(l) PROVE ProcessSound'
  <2>1. UNCHANGED process /\ \A k \in Loops : due'[k] \subseteq due[k]
    BY <1>12 DEF Fire, DropExhausted, BeginSend, SendOK, SendFails, CountFailure, RemoveSent,
                 FireReturns, TypeOK
  <2>2. QED
    BY <2>1 DEF ProcessSound
<1>13. ASSUME NEW h \in Handlers, Handle(h) \/ (\E u \in Users : Receive(h, u))
       PROVE  ProcessSound'
  <2>1. UNCHANGED <<process, loops>>
    BY <1>13 DEF Handle, Receive, ParsedSchedule, ParsedCancel, ParsedNone,
                 AddReminder, CancelAll, StoreError, Confirm
  <2>2. QED
    BY <2>1 DEF ProcessSound
<1>14. QED
  BY <1>1, <1>2, <1>3, <1>4, <1>5, <1>6, <1>7, <1>8, <1>9, <1>10, <1>11, <1>12, <1>13
     DEF Next

(***************************************************************************)
(* The bounds.                                                             *)
(***************************************************************************)
Bounds == CopiesBounded /\ FileBounded /\ DeliveriesBounded /\ AttemptsBounded

(* What every step may use.                                                *)
Known == OneLoop /\ NothingLostInductive /\ UniqueIds /\ ProcessSound /\ Bounds

LEMMA KnownTypes ==
    ASSUME Known
    PROVE  /\ TypeOK
           /\ \A r \in reminders : r.id \in ReminderIds /\ r.sendAttempts \in Nat
           /\ \A l \in Loops : \A r \in due[l] : r.id \in ReminderIds /\ r.sendAttempts \in Nat
           /\ sent \in [ReminderIds -> Nat] /\ failed \in [ReminderIds -> Nat]
           /\ faults \in Nat /\ stops \in Nat
BY DEF Known, NothingLostInductive, TypeOK, Reminder

LEMMA BoundsQuiet ==
    ASSUME Known, faults' \in {faults, faults + 1},
           \/ stops' = stops /\ ctxDone' = ctxDone
           \/ stops' = stops + 1,
           UNCHANGED <<reminders, nextId, stage, due, sent, failed>>
    PROVE  Bounds'
<1>1. \A l, r, s : Firing(l, r, s)' <=> Firing(l, r, s)
  BY DEF Firing
<1>2. \A i, s : InStage(i, s)' <=> InStage(i, s)
  BY DEF InStage, Firing
<1>3. CopiesBounded'
  <2>1. SUFFICES ASSUME NEW l \in Loops, NEW r \in due[l]
        PROVE  /\ Firing(l, r, "sent") \/ sent[r.id] <= faults' + stops'
               /\ Firing(l, r, "sending") =>
                     /\ r.sendAttempts < MaxSendAttempts
                     /\ ctxDone' => sent[r.id] + 1 <= faults' + stops'
               /\ \/ failed[r.id] <= r.sendAttempts + faults'
                  \/ /\ Firing(l, r, "failed")
                     /\ r.sendAttempts < MaxSendAttempts
                     /\ failed[r.id] <= r.sendAttempts + 1 + faults'
    BY <1>1 DEF Known, Bounds, CopiesBounded
  <2>2. /\ Firing(l, r, "sent") \/ sent[r.id] <= faults + stops
        /\ Firing(l, r, "sending") =>
              /\ r.sendAttempts < MaxSendAttempts
              /\ ctxDone => sent[r.id] + 1 <= faults + stops
        /\ \/ failed[r.id] <= r.sendAttempts + faults
           \/ /\ Firing(l, r, "failed")
              /\ r.sendAttempts < MaxSendAttempts
              /\ failed[r.id] <= r.sendAttempts + 1 + faults
    BY DEF Known, Bounds, CopiesBounded
  <2>3. ~(Firing(l, r, "sent") /\ Firing(l, r, "sending"))
    BY DEF Firing
  <2>4. /\ sent[r.id] \in Nat /\ failed[r.id] \in Nat /\ r.sendAttempts \in Nat
        /\ faults \in Nat /\ stops \in Nat
    BY KnownTypes
  <2>5. QED
    BY <2>2, <2>3, <2>4
<1>4. FileBounded'
  BY <1>2, KnownTypes DEF Known, Bounds, FileBounded
<1>5. DeliveriesBounded' /\ AttemptsBounded'
  BY KnownTypes, ParametersAssumption DEF Known, Bounds, DeliveriesBounded, AttemptsBounded
<1>6. QED
  BY <1>3, <1>4, <1>5 DEF Bounds

(* A crash in the middle of fire is a fault, and every bound grows by one. *)
LEMMA BoundsCrash ==
    ASSUME Known, Crash
    PROVE  Bounds'
<1>u. UNCHANGED <<reminders, nextId, sent, failed, stops>> /\ faults' = faults + 1
  BY DEF Crash, ProcessGone, Fault
<1>1. CopiesBounded'
  BY DEF CopiesBounded, Crash, ProcessGone
<1>2. FileBounded'
  BY <1>u, KnownTypes DEF Known, Bounds, FileBounded, DeliveriesBounded
<1>3. DeliveriesBounded' /\ AttemptsBounded'
  BY <1>u, KnownTypes, ParametersAssumption DEF Known, Bounds, DeliveriesBounded, AttemptsBounded
<1>4. QED
  BY <1>1, <1>2, <1>3 DEF Bounds

(* An orderly exit has waited for the loop: nothing is being fired.        *)
LEMMA BoundsExit ==
    ASSUME Known, Exit
    PROVE  Bounds'
<1>u. UNCHANGED <<reminders, nextId, sent, failed, faults, stops>>
  BY DEF Exit, ProcessGone
<1>1. \A l \in Loops : due[l] = {}
  BY DEF Exit, Known, ProcessSound
<1>2. \A i, s : ~InStage(i, s)
  BY <1>1 DEF InStage
<1>3. CopiesBounded'
  BY DEF CopiesBounded, Exit, ProcessGone
<1>4. FileBounded'
  BY <1>u, <1>2 DEF Known, Bounds, FileBounded
<1>5. DeliveriesBounded' /\ AttemptsBounded'
  BY <1>u DEF Known, Bounds, DeliveriesBounded, AttemptsBounded
<1>6. QED
  BY <1>3, <1>4, <1>5 DEF Bounds

LEMMA BoundsTick ==
    ASSUME Known, NEW l \in Loops, Tick(l)
    PROVE  Bounds'
<1>u. UNCHANGED <<reminders, nextId, stage, sent, failed, faults, stops>>
  BY DEF Tick
<1>1. \A k \in Loops : k = l /\ due[k] = {}
  BY DEF Tick, Known, OneLoop
<1>2. stage[l] = "pick"
  BY <1>1 DEF Known, NothingLostInductive, CopiesSound
<1>3. due'[l] \subseteq reminders
  BY DEF Tick, Known, NothingLostInductive, TypeOK, Due
<1>4. \A i, s : ~InStage(i, s)
  BY <1>1 DEF InStage
<1>5. CopiesBounded'
  <2>1. SUFFICES ASSUME NEW r \in due'[l]
        PROVE  /\ \A s \in due'[l] : r.id = s.id => r = s
               /\ sent[r.id] <= faults + stops
               /\ failed[r.id] <= r.sendAttempts + faults
    BY <1>u, <1>1, <1>2 DEF CopiesBounded, Firing
  <2>2. QED
    BY <1>3, <1>4 DEF Known, UniqueIds, Bounds, FileBounded
<1>6. FileBounded'
  BY <1>u, <1>4 DEF Known, Bounds, FileBounded
<1>7. DeliveriesBounded' /\ AttemptsBounded'
  BY <1>u DEF Known, Bounds, DeliveriesBounded, AttemptsBounded
<1>8. QED
  BY <1>5, <1>6, <1>7 DEF Bounds

(* Only the first of a copy is being fired.                                *)
LEMMA FirstIsOne ==
    ASSUME Known, NEW l \in Loops, NEW r \in due[l], IsFirst(r, due[l]), NEW s \in due[l]
    PROVE  s.id = r.id <=> s = r
  BY DEF Known, Bounds, CopiesBounded

(* The request has started, after at most as many messages as faults and   *)
(* shutdowns: the shutdown that may cut it short is one more.              *)
LEMMA BoundsBegins ==
    ASSUME Known, NEW l \in Loops, NEW r \in due[l], BeginSend(l, r)
    PROVE  Bounds'
<1>u. /\ UNCHANGED <<reminders, nextId, due, sent, failed, faults, stops, ctxDone>>
      /\ stage[l] = "pick" /\ IsFirst(r, due[l]) /\ stage'[l] = "sending"
      /\ r.sendAttempts < MaxSendAttempts /\ ~ctxDone
  BY DEF BeginSend, Firing, Known, NothingLostInductive, TypeOK
<1>1. \A k \in Loops : k = l
  BY DEF Known, OneLoop
<1>2. \A i : ~InStage(i, "sent") /\ ~InStage(i, "failed")
  BY <1>u, <1>1 DEF InStage, Firing
<1>3. CopiesBounded'
  <2>1. SUFFICES ASSUME NEW s \in due[l]
        PROVE  /\ \A o \in due[l] : s.id = o.id => s = o
               /\ sent[s.id] <= faults + stops
               /\ Firing(l, s, "sending")' => s.sendAttempts < MaxSendAttempts
               /\ failed[s.id] <= s.sendAttempts + faults
    BY <1>u, <1>1 DEF CopiesBounded
  <2>2. Firing(l, s, "sending")' => s = r
    BY <1>u, FirstIsOne, KnownTypes DEF Firing, IsFirst, ReminderIds
  <2>3. QED
    BY <2>2, <1>u DEF Known, Bounds, CopiesBounded, Firing
<1>4. FileBounded'
  BY <1>u, <1>2 DEF Known, Bounds, FileBounded
<1>5. DeliveriesBounded' /\ AttemptsBounded'
  BY <1>u DEF Known, Bounds, DeliveriesBounded, AttemptsBounded
<1>6. QED
  BY <1>3, <1>4, <1>5 DEF Bounds

LEMMA BoundsSendOK ==
    ASSUME Known, NEW l \in Loops, NEW r \in due[l], SendOK(l, r)
    PROVE  Bounds'
<1>u. /\ UNCHANGED <<reminders, nextId, due, failed, faults, stops>>
      /\ stage[l] = "sending" /\ IsFirst(r, due[l])
      /\ sent' = [sent EXCEPT ![r.id] = @ + 1]
      /\ stage'[l] = "sent"
  BY DEF SendOK, Firing, Known, NothingLostInductive, TypeOK
<1>1. \A k \in Loops : k = l
  BY DEF Known, OneLoop
<1>2. sent[r.id] <= faults + stops /\ failed[r.id] <= r.sendAttempts + faults
  BY <1>u DEF Known, Bounds, CopiesBounded, Firing
<1>3. Firing(l, r, "sent")'
  BY <1>u DEF Firing
<1>4. CopiesBounded'
  <2>1. SUFFICES ASSUME NEW s \in due[l]
        PROVE  /\ \A o \in due[l] : s.id = o.id => s = o
               /\ Firing(l, s, "sent")' \/ sent'[s.id] <= faults + stops
               /\ failed[s.id] <= s.sendAttempts + faults
    BY <1>u, <1>1 DEF CopiesBounded, Firing
  <2>2. CASE s = r
    BY <2>2, <1>2, <1>3 DEF Known, Bounds, CopiesBounded
  <2>3. CASE s # r
    <3>1. s.id # r.id
      BY <2>3, <1>u, FirstIsOne
    <3>2. sent'[s.id] = sent[s.id]
      BY <3>1, <1>u, KnownTypes
    <3>3. QED
      BY <3>2, <1>u DEF Known, Bounds, CopiesBounded, Firing
  <2>4. QED
    BY <2>2, <2>3
<1>5. FileBounded'
  <2>1. \A i \in ReminderIds : i >= nextId => i # r.id
    BY KnownTypes DEF Known, NothingLostInductive, CopiesSound, TypeOK, ReminderIds
  <2>2. \A i \in ReminderIds : i >= nextId => sent'[i] = 0 /\ failed'[i] = 0
    BY <2>1, <1>u, KnownTypes DEF Known, Bounds, FileBounded
  <2>3. ASSUME NEW s \in reminders
        PROVE  /\ InStage(s.id, "sent")' \/ sent'[s.id] <= faults + stops
               /\ failed[s.id] <= s.sendAttempts + faults
    <3>1. ~InStage(s.id, "sent") /\ ~InStage(s.id, "failed")
      BY <1>u, <1>1 DEF InStage, Firing
    <3>2. sent[s.id] <= faults + stops /\ failed[s.id] <= s.sendAttempts + faults
      BY <3>1 DEF Known, Bounds, FileBounded
    <3>3. CASE s.id = r.id
      BY <3>2, <3>3, <1>3, <1>u DEF InStage
    <3>4. CASE s.id # r.id
      BY <3>2, <3>4, <1>u, KnownTypes
    <3>5. QED
      BY <3>3, <3>4
  <2>4. QED
    BY <2>2, <2>3, <1>u DEF FileBounded
<1>6. DeliveriesBounded'
  BY <1>2, <1>u, KnownTypes DEF Known, Bounds, DeliveriesBounded
<1>7. AttemptsBounded'
  BY <1>u DEF Known, Bounds, AttemptsBounded
<1>8. QED
  BY <1>4, <1>5, <1>6, <1>7 DEF Bounds

LEMMA BoundsSendFails ==
    ASSUME Known, NEW l \in Loops, NEW r \in due[l], SendFails(l, r)
    PROVE  Bounds'
<1>u. /\ UNCHANGED <<reminders, nextId, due, stops>>
      /\ stage[l] \in {"pick", "sending"} /\ IsFirst(r, due[l])
      /\ failed' = [failed EXCEPT ![r.id] = @ + 1]
      /\ stage'[l] = "failed"
  BY DEF SendFails, Firing, Known, NothingLostInductive, TypeOK
<1>a. r.sendAttempts < MaxSendAttempts
  BY DEF SendFails, Known, Bounds, CopiesBounded
<1>p. \/ sent' = sent /\ faults' = faults
      \/ sent' = [sent EXCEPT ![r.id] = @ + 1] /\ faults' = faults + 1
      \/ /\ sent' = [sent EXCEPT ![r.id] = @ + 1] /\ faults' = faults
         /\ sent[r.id] + 1 <= faults + stops
  BY DEF SendFails, Fault, Known, Bounds, CopiesBounded
<1>1. \A k \in Loops : k = l
  BY DEF Known, OneLoop
<1>2. sent[r.id] <= faults + stops /\ failed[r.id] <= r.sendAttempts + faults
  BY <1>u DEF Known, Bounds, CopiesBounded, Firing
<1>3. Firing(l, r, "failed")'
  BY <1>u DEF Firing
<1>t. faults' \in Nat /\ faults' >= faults
  BY <1>p, KnownTypes
<1>4. CopiesBounded'
  <2>1. SUFFICES ASSUME NEW s \in due[l]
        PROVE  /\ \A o \in due[l] : s.id = o.id => s = o
               /\ sent'[s.id] <= faults' + stops'
               /\ \/ failed'[s.id] <= s.sendAttempts + faults'
                  \/ /\ Firing(l, s, "failed")'
                     /\ s.sendAttempts < MaxSendAttempts
                     /\ failed'[s.id] <= s.sendAttempts + 1 + faults'
    BY <1>u, <1>1 DEF CopiesBounded, Firing
  <2>2. CASE s = r
    <3>1. sent'[r.id] <= faults' + stops' /\ failed'[r.id] <= r.sendAttempts + 1 + faults'
      BY <1>2, <1>u, <1>p, <1>t, KnownTypes
    <3>2. QED
      BY <2>2, <3>1, <1>3, <1>a, <1>u DEF Known, Bounds, CopiesBounded
  <2>3. CASE s # r
    <3>1. s.id # r.id
      BY <2>3, <1>u, FirstIsOne
    <3>2. sent'[s.id] = sent[s.id] /\ failed'[s.id] = failed[s.id]
      BY <3>1, <1>u, <1>p, KnownTypes
    <3>3. sent[s.id] <= faults + stops /\ failed[s.id] <= s.sendAttempts + faults
      BY <1>u DEF Known, Bounds, CopiesBounded, Firing
    <3>4. QED
      BY <3>2, <3>3, <1>t, <1>u, KnownTypes DEF Known, Bounds, CopiesBounded
  <2>4. QED
    BY <2>2, <2>3
<1>5. FileBounded'
  <2>1. \A i \in ReminderIds : i >= nextId => i # r.id
    BY KnownTypes DEF Known, NothingLostInductive, CopiesSound, TypeOK, ReminderIds
  <2>2. \A i \in ReminderIds : i >= nextId => sent'[i] = 0 /\ failed'[i] = 0
    BY <2>1, <1>u, <1>p, KnownTypes DEF Known, Bounds, FileBounded
  <2>3. ASSUME NEW s \in reminders
        PROVE  /\ sent'[s.id] <= faults' + stops'
               /\ \/ failed'[s.id] <= s.sendAttempts + faults'
                  \/ /\ InStage(s.id, "failed")'
                     /\ failed'[s.id] <= s.sendAttempts + 1 + faults'
    <3>1. ~InStage(s.id, "sent") /\ ~InStage(s.id, "failed")
      BY <1>u, <1>1 DEF InStage, Firing
    <3>2. sent[s.id] <= faults + stops /\ failed[s.id] <= s.sendAttempts + faults
      BY <3>1 DEF Known, Bounds, FileBounded
    <3>3. CASE s.id = r.id
      <4>1. InStage(s.id, "failed")'
        BY <3>3, <1>3, <1>u DEF InStage
      <4>2. QED
        BY <4>1, <3>2, <3>3, <1>u, <1>p, <1>t, KnownTypes
    <3>4. CASE s.id # r.id
      BY <3>2, <3>4, <1>u, <1>p, <1>t, KnownTypes
    <3>5. QED
      BY <3>3, <3>4
  <2>4. QED
    BY <2>2, <2>3, <1>u DEF FileBounded
<1>6. DeliveriesBounded'
  BY <1>2, <1>u, <1>p, <1>t, KnownTypes DEF Known, Bounds, DeliveriesBounded
<1>7. AttemptsBounded'
  <2>1. SUFFICES ASSUME NEW i \in ReminderIds PROVE failed'[i] <= MaxSendAttempts + faults'
    BY DEF AttemptsBounded
  <2>2. CASE i = r.id
    BY <2>2, <1>2, <1>a, <1>u, <1>t, KnownTypes, ParametersAssumption
  <2>3. CASE i # r.id
    BY <2>3, <1>u, <1>t, KnownTypes, ParametersAssumption DEF Known, Bounds, AttemptsBounded
  <2>4. QED
    BY <2>2, <2>3
<1>8. QED
  BY <1>4, <1>5, <1>6, <1>7 DEF Bounds

(***************************************************************************)
(* fire returns: what is left of the copy is as good as before, and the    *)
(* file has to make up for the stage the loop leaves.                      *)
(***************************************************************************)
LEMMA BoundsFireReturns ==
    ASSUME Known, NEW l \in Loops, NEW r \in due[l], IsFirst(r, due[l]), FireReturns(l, r),
           UNCHANGED <<nextId, sent, failed, stops>>, faults' \in {faults, faults + 1},
           \A s \in reminders' : sent[s.id] <= faults' + stops' /\ failed[s.id] <= s.sendAttempts + faults'
    PROVE  Bounds'
<1>1. \A k \in Loops : k = l
  BY DEF Known, OneLoop
<1>2. due'[l] = due[l] \ {r} /\ stage'[l] = "pick"
  BY KnownTypes DEF FireReturns, TypeOK
<1>3. CopiesBounded'
  <2>1. SUFFICES ASSUME NEW s \in due[l], s # r
        PROVE  /\ \A o \in due[l] : s.id = o.id => s = o
               /\ sent[s.id] <= faults' + stops'
               /\ failed[s.id] <= s.sendAttempts + faults'
    BY <1>1, <1>2 DEF CopiesBounded, Firing
  <2>2. \A t : ~Firing(l, s, t)
    <3>1. s.id # r.id
      BY <2>1, FirstIsOne
    <3>2. ~IsFirst(s, due[l])
      BY <3>1, KnownTypes DEF IsFirst, ReminderIds
    <3>3. QED
      BY <3>2 DEF Firing
  <2>3. sent[s.id] <= faults + stops /\ failed[s.id] <= s.sendAttempts + faults
    BY <2>2 DEF Known, Bounds, CopiesBounded
  <2>4. QED
    BY <2>3, KnownTypes DEF Known, Bounds, CopiesBounded
<1>4. FileBounded'
  BY DEF Known, Bounds, FileBounded
<1>5. DeliveriesBounded' /\ AttemptsBounded'
  BY KnownTypes, ParametersAssumption DEF Known, Bounds, DeliveriesBounded, AttemptsBounded
<1>6. QED
  BY <1>3, <1>4, <1>5 DEF Bounds

(* While the loop fires r, the file is exact about every other reminder.   *)
LEMMA FileElsewhere ==
    ASSUME Known, NEW l \in Loops, NEW r \in due[l], IsFirst(r, due[l]),
           NEW s \in reminders, s.id # r.id
    PROVE  sent[s.id] <= faults + stops /\ failed[s.id] <= s.sendAttempts + faults
<1>1. \A k \in Loops : \A o \in due[k] : IsFirst(o, due[k]) => k = l /\ o.id = r.id
  BY KnownTypes DEF Known, OneLoop, IsFirst, ReminderIds
<1>2. \A t : ~InStage(s.id, t)
  BY <1>1 DEF InStage, Firing
<1>3. QED
  BY <1>2 DEF Known, Bounds, FileBounded

LEMMA BoundsRemove ==
    ASSUME Known, NEW l \in Loops, NEW r \in due[l], DropExhausted(l, r) \/ RemoveSent(l, r)
    PROVE  Bounds'
<1>u. /\ IsFirst(r, due[l]) /\ FireReturns(l, r) /\ UNCHANGED <<nextId, sent, failed>>
      /\ stage[l] \in {"pick", "sent"} /\ UNCHANGED stops
      /\ Write(Remove(reminders, r.id))
  BY DEF DropExhausted, RemoveSent, Firing
<1>1. CASE reminders' = Remove(reminders, r.id) /\ faults' = faults
  <2>1. \A s \in reminders' : s \in reminders /\ s.id # r.id
    BY <1>1 DEF Remove
  <2>2. QED
    BY <2>1, <1>1, <1>u, FileElsewhere, BoundsFireReturns
<1>2. CASE reminders' = reminders /\ faults' = faults + 1
  <2>1. SUFFICES ASSUME NEW s \in reminders
        PROVE  sent[s.id] <= faults + 1 + stops /\ failed[s.id] <= s.sendAttempts + (faults + 1)
    BY <1>2, <1>u, BoundsFireReturns
  <2>2. sent[s.id] <= faults + 1 + stops
    BY KnownTypes DEF Known, Bounds, DeliveriesBounded
  <2>3. ~InStage(s.id, "failed")
    BY <1>u DEF InStage, Firing, Known, OneLoop
  <2>4. QED
    BY <2>2, <2>3, KnownTypes DEF Known, Bounds, FileBounded
<1>3. QED
  BY <1>1, <1>2, <1>u DEF Write, Fault

LEMMA BoundsCountFailure ==
    ASSUME Known, NEW l \in Loops, NEW r \in due[l], CountFailure(l, r)
    PROVE  Bounds'
<1>u. /\ IsFirst(r, due[l]) /\ FireReturns(l, r) /\ UNCHANGED <<nextId, sent, failed>>
      /\ stage[l] = "failed" /\ UNCHANGED stops
      /\ Write(IncrementSendAttempts(reminders, r.id))
  BY DEF CountFailure, Firing
<1>1. \A s \in reminders :
        sent[s.id] <= faults + stops /\ failed[s.id] <= s.sendAttempts + 1 + faults
  <2>1. TAKE s \in reminders
  <2>2. ~InStage(s.id, "sent")
    BY <1>u DEF InStage, Firing, Known, OneLoop
  <2>3. QED
    BY <2>2, KnownTypes DEF Known, Bounds, FileBounded
<1>2. CASE reminders' = IncrementSendAttempts(reminders, r.id) /\ faults' = faults
  <2>1. SUFFICES ASSUME NEW s \in reminders'
        PROVE  sent[s.id] <= faults + stops /\ failed[s.id] <= s.sendAttempts + faults
    BY <1>2, <1>u, BoundsFireReturns
  <2>2. PICK o \in reminders : s = IF o.id = r.id THEN [o EXCEPT !.sendAttempts = @ + 1] ELSE o
    BY <1>2 DEF IncrementSendAttempts
  <2>3. o \in Reminder
    BY DEF Known, NothingLostInductive, TypeOK
  <2>4. CASE o.id = r.id
    <3>1. s.id = o.id /\ s.sendAttempts = o.sendAttempts + 1
      BY <2>2, <2>3, <2>4 DEF Reminder
    <3>2. QED
      BY <3>1, <1>1
  <2>5. CASE o.id # r.id
    BY <2>2, <2>5, <1>u, FileElsewhere
  <2>6. QED
    BY <2>4, <2>5
<1>3. CASE reminders' = reminders /\ faults' = faults + 1
  <2>1. \A s \in reminders :
          sent[s.id] <= faults + 1 + stops /\ failed[s.id] <= s.sendAttempts + (faults + 1)
    BY <1>1, KnownTypes
  <2>2. QED
    BY <2>1, <1>3, <1>u, BoundsFireReturns
<1>4. QED
  BY <1>2, <1>3, <1>u DEF Write, Fault

(***************************************************************************)
(* The handlers: a new reminder has neither been sent nor failed.          *)
(***************************************************************************)
LEMMA BoundsAdd ==
    ASSUME Known, NEW h \in Handlers, AddReminder(h)
    PROVE  Bounds'
<1>u. /\ UNCHANGED <<stage, due, sent, failed, faults, stops, ctxDone>> /\ nextId' = nextId + 1
      /\ nextId \in ReminderIds
      /\ reminders' = Add(reminders, nextId, request[h].user, request[h].dueAt)
  BY KnownTypes DEF AddReminder, TypeOK, ReminderIds
<1>1. CopiesBounded'
  BY <1>u DEF Known, Bounds, CopiesBounded, Firing
<1>2. sent[nextId] = 0 /\ failed[nextId] = 0
  BY <1>u DEF Known, Bounds, FileBounded, ReminderIds
<1>3. \A i, s : InStage(i, s)' <=> InStage(i, s)
  BY <1>u DEF InStage, Firing
<1>4. FileBounded'
  <2>1. \A i \in ReminderIds : i >= nextId' => sent'[i] = 0 /\ failed'[i] = 0
    BY <1>u DEF Known, Bounds, FileBounded, ReminderIds
  <2>2. ASSUME NEW s \in reminders'
        PROVE  /\ InStage(s.id, "sent")' \/ sent[s.id] <= faults + stops
               /\ \/ failed[s.id] <= s.sendAttempts + faults
                  \/ /\ InStage(s.id, "failed")'
                     /\ failed[s.id] <= s.sendAttempts + 1 + faults
    <3>1. CASE s \in reminders
      BY <3>1, <1>3 DEF Known, Bounds, FileBounded
    <3>2. CASE s \notin reminders
      <4>1. s.id = nextId /\ s.sendAttempts = 0
        BY <3>2, <1>u DEF Add
      <4>2. QED
        BY <4>1, <1>2, KnownTypes
    <3>3. QED
      BY <3>1, <3>2
  <2>3. QED
    BY <2>1, <2>2, <1>u DEF FileBounded
<1>5. DeliveriesBounded' /\ AttemptsBounded'
  BY <1>u DEF Known, Bounds, DeliveriesBounded, AttemptsBounded
<1>6. QED
  BY <1>1, <1>4, <1>5 DEF Bounds

LEMMA BoundsCancel ==
    ASSUME Known, NEW h \in Handlers, CancelAll(h)
    PROVE  Bounds'
<1>u. UNCHANGED <<nextId, stage, due, sent, failed, faults, stops, ctxDone>> /\ reminders' \subseteq reminders
  BY DEF CancelAll, RemoveAllForUser
<1>1. CopiesBounded'
  BY <1>u DEF Known, Bounds, CopiesBounded, Firing
<1>2. \A i, s : InStage(i, s)' <=> InStage(i, s)
  BY <1>u DEF InStage, Firing
<1>3. FileBounded'
  BY <1>u, <1>2 DEF Known, Bounds, FileBounded
<1>4. DeliveriesBounded' /\ AttemptsBounded'
  BY <1>u DEF Known, Bounds, DeliveriesBounded, AttemptsBounded
<1>5. QED
  BY <1>1, <1>3, <1>4 DEF Bounds

LEMMA BoundsStep ==
    ASSUME Known, [Next]_vars
    PROVE  Bounds'
<1>1. CASE UNCHANGED vars
  BY <1>1, BoundsQuiet DEF vars
<1>2. CASE Advance \/ RunApp \/ OpenFails \/ OpenGateway \/ MarkReady \/ Restart \/ Shutdown
  BY <1>2, BoundsQuiet
     DEF Advance, RunApp, OpenFails, OpenGateway, MarkReady, Restart, Shutdown
<1>3. CASE Crash
  BY <1>3, BoundsCrash
<1>4. CASE Exit
  BY <1>4, BoundsExit
<1>5. ASSUME NEW l \in Loops, Tick(l) \/ LoopExit(l) \/ Fire(l) PROVE Bounds'
  <2>1. CASE Tick(l)
    BY <2>1, BoundsTick
  <2>2. CASE LoopExit(l)
    BY <2>2, BoundsQuiet DEF LoopExit
  <2>3. CASE Fire(l)
    BY <2>3, BoundsRemove, BoundsBegins, BoundsSendOK, BoundsSendFails, BoundsCountFailure
       DEF Fire
  <2>4. QED
    BY <1>5, <2>1, <2>2, <2>3
<1>6. ASSUME NEW h \in Handlers, Handle(h) \/ (\E u \in Users : Receive(h, u)) PROVE Bounds'
  <2>1. CASE AddReminder(h)
    BY <2>1, BoundsAdd
  <2>2. CASE CancelAll(h)
    BY <2>2, BoundsCancel
  <2>3. CASE ParsedSchedule(h) \/ ParsedCancel(h) \/ ParsedNone(h) \/ StoreError(h) \/ Confirm(h)
             \/ (\E u \in Users : Receive(h, u))
    BY <2>3, BoundsQuiet
       DEF ParsedSchedule, ParsedCancel, ParsedNone, StoreError, Confirm, Receive, Fault
  <2>4. QED
    BY <1>6, <2>1, <2>2, <2>3 DEF Handle
<1>7. QED
  BY <1>1, <1>2, <1>3, <1>4, <1>5, <1>6 DEF Next

LEMMA OneLoopInit == Init => ProcessSound /\ Bounds
BY ParametersAssumption
   DEF Init, ProcessSound, Bounds, CopiesBounded, FileBounded, DeliveriesBounded,
       AttemptsBounded

(* The inductive invariant of the bounds holds with one scheduler loop.    *)
THEOREM OneLoopInductiveHolds ==
    ASSUME OneLoop
    PROVE  Spec => []OneLoopInductive
<1>1. Init => ProcessSound /\ Bounds
  BY OneLoopInit
<1>2. /\ NothingLostInductive /\ UniqueIds /\ ProcessSound /\ Bounds
      /\ [Next]_vars
      => ProcessSound' /\ Bounds'
  <2>1. SUFFICES ASSUME NothingLostInductive, UniqueIds, ProcessSound, Bounds, [Next]_vars
                 PROVE  ProcessSound' /\ Bounds'
    OBVIOUS
  <2>2. TypeOK
    BY <2>1 DEF NothingLostInductive
  <2>3. ProcessSound'
    BY <2>1, <2>2, ProcessSoundStep
  <2>4. Known
    BY <2>1 DEF Known
  <2>5. Bounds'
    BY <2>1, <2>4, BoundsStep
  <2>6. QED
    BY <2>3, <2>5
<1>3. ProcessSound /\ Bounds => OneLoopInductive
  BY DEF Bounds, OneLoopInductive
<1>4. QED
  BY <1>1, <1>2, <1>3, NothingLostInductiveHolds, UniqueIdsHold, PTL DEF Spec

(* With one scheduler loop, a reminder is posted once, and once more only  *)
(* for every crash, I/O error or lost response and for every shutdown.     *)
THEOREM ReminderDeliveredOnce ==
    ASSUME OneLoop
    PROVE  Spec => []DeliveriesBounded
<1>1. OneLoopInductive => DeliveriesBounded
  BY DEF OneLoopInductive
<1>2. QED
  BY <1>1, OneLoopInductiveHolds, PTL

(* With one scheduler loop, maxSendAttempts bounds the failed sends, but   *)
(* for those whose count was lost.                                         *)
THEOREM ReminderAttemptsBounded ==
    ASSUME OneLoop
    PROVE  Spec => []AttemptsBounded
<1>1. OneLoopInductive => AttemptsBounded
  BY DEF OneLoopInductive
<1>2. QED
  BY <1>1, OneLoopInductiveHolds, PTL
=============================================================================
