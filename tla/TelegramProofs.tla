--------------------------- MODULE TelegramProofs ---------------------------
(***************************************************************************)
(* No update is answered twice, or after it has been dropped, whatever     *)
(* fails, the service keeps its retry schedule, and the process waits for  *)
(* all of its services: proved for every number of updates, answers of     *)
(* every length, every retry schedule, every number of failures and of     *)
(* other services, over both transports.                                   *)
(***************************************************************************)
EXTENDS Trishna, TLAPS

(* While the service polls, everything that it has answered, and everything*)
(* that was there before it connected, comes before the next update that it*)
(* will look at.                                                           *)
Behind ==
    pc \in {"polling", "handling"} =>
        /\ backlog < First
        /\ \A i \in 1..MaxUpdates : answers[i] > 0 => i < First

OnlyWritten == \A i \in 1..MaxUpdates : answers[i] > 0 => i <= Len(updates)

(* The failures that retryOrGiveUp counts are the connections refused in a *)
(* row, and perhaps the break of a connection before them.                 *)
Counted ==
    /\ refused <= failures /\ failures <= refused + 1
    /\ pc \in Connected => failures = 0
    /\ pc \notin {"gaveUp", "stopped"} => failures <= MaxRetries
    /\ pc = "gaveUp" => failures = MaxRetries + 1

TelegramInductive == TypeOK /\ AnsweredOnce /\ OnlyWritten /\ Behind /\ Counted

USE TelegramAssumption

(* The first and the last update of an answer.                             *)
LEMMA PageBounds ==
    ASSUME TypeOK
    PROVE  /\ First \in 1..(Len(updates) + 1)
           /\ kept <= First
           /\ offset <= First
           /\ Last \in 0..Len(updates)
           /\ pc = "handling" => First = offset
<1>1. Len(updates) \in Nat
  BY DEF TypeOK
<1> QED
  BY <1>1 DEF TypeOK, First, Last

(* What Fault and NoFault leave of the bounds.                             *)
LEMMA BoundsTyped ==
    ASSUME TypeOK, Fault \/ NoFault
    PROVE  faults' \in Nat /\ stops' \in Nat
BY DEF TypeOK, Fault, NoFault, bounds

(* retryOrGiveUp counts no further than one past the schedule.             *)
LEMMA RetryTyped ==
    ASSUME TypeOK, NEW n \in 0..MaxRetries, Retry(n + 1)
    PROVE  /\ failures' \in 0..(MaxRetries + 1)
           /\ pc' \in {"retrying", "gaveUp"}
           /\ health' \in {"retrying", "gaveUp"}
BY DEF TypeOK, Retry

LEMMA TelegramInit == Init => TelegramInductive
<1> SUFFICES ASSUME Init PROVE TelegramInductive
  OBVIOUS
<1>1. TypeOK
  <2>1. updates \in Seq({"command", "other"}) /\ Len(updates) = 0
    BY DEF Init
  <2>2. updates \in Seq({"command", "other"}) /\ Len(updates) <= MaxUpdates
    BY <2>1
  <2>3. kept \in 1..(Len(updates) + 1) /\ last \in 0..Len(updates) /\ backlog \in 0..Len(updates)
    BY <2>1 DEF Init
  <2>4. failures \in 0..(MaxRetries + 1) /\ offset \in 0..(Len(updates) + 1)
    BY <2>1 DEF Init
  <2>5. answers \in [1..MaxUpdates -> Nat]
    BY DEF Init
  <2> QED
    BY <2>2, <2>3, <2>4, <2>5 DEF Init, TypeOK
<1>2. AnsweredOnce /\ OnlyWritten /\ Behind
  BY DEF Init, AnsweredOnce, OnlyWritten, Behind
<1>3. Counted
  BY DEF Init, Counted, Connected
<1> QED
  BY <1>1, <1>2, <1>3 DEF TelegramInductive

(***************************************************************************)
(* Every action keeps the type, ...                                        *)
(***************************************************************************)
LEMMA TelegramTypeStep == TelegramInductive /\ [Next]_vars => TypeOK'
<1> SUFFICES ASSUME TelegramInductive, [Next]_vars PROVE TypeOK'
  OBVIOUS
<1>0. TypeOK /\ Counted
  BY DEF TelegramInductive
<1>1. Len(updates) \in Nat
  BY <1>0 DEF TypeOK
<1>2. CASE Write
  <2>1. PICK kind \in {"command", "other"} : updates' = Append(updates, kind)
    BY <1>2 DEF Write
  <2>2. /\ updates' \in Seq({"command", "other"})
        /\ Len(updates') = Len(updates) + 1
    BY <1>0, <2>1 DEF TypeOK
  <2>3. Len(updates) < MaxUpdates
    BY <1>2 DEF Write
  <2>4. UNCHANGED <<kept, pc, failures, offset, last, health, ctxDone, answers, backlog,
                    refused, faults, stops>>
    BY <1>2 DEF Write, bounds
  <2>5. Len(updates') <= MaxUpdates
    BY <1>1, <2>2, <2>3
  <2>6. kept' \in 1..(Len(updates') + 1) /\ offset' \in 0..(Len(updates') + 1)
    BY <1>0, <1>1, <2>2, <2>4 DEF TypeOK
  <2>7. last' \in 0..Len(updates') /\ backlog' \in 0..Len(updates')
    BY <1>0, <1>1, <2>2, <2>4 DEF TypeOK
  <2> QED
    BY <1>0, <2>2, <2>4, <2>5, <2>6, <2>7 DEF TypeOK
<1>3. CASE StopWaiting \/ TimerFires \/ Shutdown \/ Restart \/ AnswerCancelled
  <2>1. CASE StopWaiting \/ AnswerCancelled
    BY <1>0, <2>1 DEF TypeOK, StopWaiting, AnswerCancelled, Stop, telegram, bounds
  <2>2. CASE TimerFires \/ Restart
    BY <1>0, <2>2 DEF TypeOK, TimerFires, Restart, telegram, bounds
  <2>3. CASE Shutdown
    BY <1>0, <2>3 DEF TypeOK, Shutdown, telegram
  <2> QED
    BY <1>3, <2>1, <2>2, <2>3
<1>4. CASE Connect
  BY <1>0, <1>1, <1>4 DEF TypeOK, Connect, telegram, bounds, Connected
<1>5. CASE ConnectFails \/ PollFails
  <2>1. failures \in 0..MaxRetries
    BY <1>0, <1>5 DEF TypeOK, Counted, ConnectFails, PollFails
  <2>2. Retry(failures + 1) /\ Fault
    BY <1>5 DEF ConnectFails, PollFails
  <2>3. /\ failures' \in 0..(MaxRetries + 1)
        /\ pc' \in {"retrying", "gaveUp"}
        /\ health' \in {"retrying", "gaveUp"}
    BY <1>0, <2>1, <2>2, RetryTyped
  <2>4. faults' \in Nat /\ stops' \in Nat
    BY <1>0, <2>2, BoundsTyped
  <2>5. kept' \in 1..(Len(updates) + 1) /\ updates' = updates
    BY <1>0, <1>1, <1>5, PageBounds DEF TypeOK, ConnectFails, PollFails, telegram
  <2>6. UNCHANGED <<updates, offset, last, ctxDone, answers, backlog>>
    BY <1>5 DEF ConnectFails, PollFails, telegram
  <2>7. refused' \in Nat
    BY <1>0, <1>5 DEF TypeOK, ConnectFails, PollFails
  <2> QED
    BY <1>0, <2>3, <2>4, <2>5, <2>6, <2>7 DEF TypeOK
<1>6. CASE Drop
  <2>1. kept' \in 1..(Len(updates) + 1) /\ offset' \in 0..(Len(updates) + 1)
    BY <1>0, <1>1, <1>6 DEF TypeOK, Drop
  <2>2. pc' = "polling" /\ backlog' \in 0..Len(updates)
    BY <1>1, <1>6 DEF Drop
  <2>3. UNCHANGED <<updates, failures, last, health, ctxDone, answers, refused, faults, stops>>
    BY <1>6 DEF Drop, bounds
  <2> QED
    BY <1>0, <2>1, <2>2, <2>3 DEF TypeOK, Connected
<1>7. CASE DropFails
  <2>1. failures \in 0..MaxRetries
    BY <1>0, <1>7 DEF TypeOK, Counted, DropFails
  <2>2. /\ failures' \in 0..(MaxRetries + 1)
        /\ pc' \in {"retrying", "gaveUp", "stopped"}
        /\ health' \in {"retrying", "gaveUp", "stopped"}
    <3>1. CASE ctxDone
      BY <1>0, <1>7, <3>1 DEF TypeOK, DropFails
    <3>2. CASE ~ctxDone
      <4>1. Retry(failures + 1)
        BY <1>7, <3>2 DEF DropFails
      <4> QED
        BY <1>0, <2>1, <4>1, RetryTyped
    <3> QED
      BY <3>1, <3>2
  <2>3. faults' \in Nat /\ stops' \in Nat
    BY <1>0, <1>7, BoundsTyped DEF DropFails
  <2>4. kept' \in 1..(Len(updates) + 1)
    BY <1>0, <1>1, <1>7 DEF TypeOK, DropFails
  <2> QED
    BY <1>0, <1>7, <2>2, <2>3, <2>4 DEF TypeOK, DropFails
<1>8. CASE Poll
  BY <1>0, <1>1, <1>8, PageBounds DEF TypeOK, Poll, bounds, Connected
<1>9. CASE Ignore \/ Answer
  <2>1. /\ Advance
        /\ pc = "handling"
        /\ offset \in kept..last
    BY <1>0, <1>9 DEF Ignore, Answer, TypeOK
  <2>2. faults' \in Nat /\ stops' \in Nat
    <3>1. Fault \/ NoFault
      BY <1>9 DEF Ignore, Answer, NoFault
    <3> QED
      BY <1>0, <3>1, BoundsTyped
  <2>3. answers' \in [1..MaxUpdates -> Nat]
    <3>1. answers' = answers \/ answers' = [answers EXCEPT ![offset] = answers[offset] + 1]
      BY <1>9 DEF Ignore, Answer
    <3>2. answers \in [1..MaxUpdates -> Nat] /\ offset \in 1..MaxUpdates
      BY <1>0, <1>1, <2>1 DEF TypeOK
    <3> QED
      BY <3>1, <3>2
  <2>4. /\ offset' \in 0..(Len(updates) + 1)
        /\ pc' \in {"polling", "handling"}
        /\ pc' = "handling" => offset' \in kept..last
    BY <1>0, <1>1, <2>1 DEF TypeOK, Advance
  <2>5. UNCHANGED <<updates, kept, failures, last, health, ctxDone, backlog, refused>>
    BY <2>1 DEF Advance, telegram
  <2> QED
    BY <1>0, <2>2, <2>3, <2>4, <2>5 DEF TypeOK, Connected
<1>10. CASE Exit \/ Crash
  <2>1. ProcessGone
    BY <1>10 DEF Exit, Crash
  <2>2. faults' \in Nat /\ stops' \in Nat
    BY <1>0, <1>10, BoundsTyped DEF Exit, Crash
  <2>3. 0 \in 0..(MaxRetries + 1) /\ 0 \in 0..(Len(updates) + 1) /\ 0 \in 0..Len(updates)
    BY <1>1
  <2>4. UNCHANGED <<updates, kept, answers, backlog>>
    BY <2>1 DEF ProcessGone, telegram
  <2> QED
    BY <1>0, <2>1, <2>2, <2>3, <2>4 DEF TypeOK, ProcessGone
<1>11. CASE UNCHANGED vars
  BY <1>0, <1>11 DEF TypeOK, vars, telegram, bounds
<1> QED
  BY <1>2, <1>3, <1>4, <1>5, <1>6, <1>7, <1>8, <1>9, <1>10, <1>11 DEF Next, Service

(***************************************************************************)
(* ... and what was answered and dropped behind the next update.           *)
(***************************************************************************)
LEMMA AnswersStep == TelegramInductive /\ [Next]_vars => (AnsweredOnce /\ OnlyWritten)'
<1> SUFFICES ASSUME TelegramInductive, [Next]_vars PROVE (AnsweredOnce /\ OnlyWritten)'
  OBVIOUS
<1>0. TypeOK /\ AnsweredOnce /\ OnlyWritten /\ Behind
  BY DEF TelegramInductive
<1>1. Len(updates) \in Nat
  BY <1>0 DEF TypeOK
<1>2. CASE answers' = answers
  <2>1. Len(updates') >= Len(updates)
    <3>1. CASE Write
      <4>1. PICK kind \in {"command", "other"} : updates' = Append(updates, kind)
        BY <3>1 DEF Write
      <4> QED
        BY <1>0, <1>1, <4>1 DEF TypeOK
    <3>2. CASE ~Write
      <4>1. updates' = updates
        BY <3>2 DEF Next, Service, StopWaiting, Stop, TimerFires, Connect, ConnectFails, Drop,
                    DropFails, Poll, PollFails, Ignore, Answer, AnswerCancelled, Advance,
                    Exit, Crash, ProcessGone, Restart, Shutdown, vars, telegram
      <4> QED
        BY <1>1, <4>1
    <3> QED
      BY <3>1, <3>2
  <2>2. Len(updates') \in Nat
    BY <1>0, TelegramTypeStep DEF TypeOK
  <2> QED
    BY <1>0, <1>1, <1>2, <2>1, <2>2 DEF AnsweredOnce, OnlyWritten, TypeOK
<1>3. CASE answers' # answers
  <2>1. Answer /\ answers' = [answers EXCEPT ![offset] = answers[offset] + 1]
    BY <1>3 DEF Next, Service, StopWaiting, Stop, TimerFires, Connect, ConnectFails, Drop,
                DropFails, Poll, PollFails, Ignore, Answer, AnswerCancelled, Advance,
                Exit, Crash, ProcessGone, Restart, Shutdown, Write, vars, telegram
  <2>2. /\ pc = "handling" /\ offset \in kept..last
        /\ updates' = updates
    BY <1>0, <2>1 DEF Answer, Advance, TypeOK, telegram
  <2>3. First = offset /\ offset \in 1..MaxUpdates /\ offset <= Len(updates)
    BY <1>0, <1>1, <2>2, PageBounds DEF TypeOK
  <2>4. answers[offset] = 0
    BY <1>0, <2>2, <2>3 DEF Behind, TypeOK
  <2>5. answers' = [answers EXCEPT ![offset] = 1]
    BY <2>1, <2>4
  <2> QED
    BY <1>0, <1>1, <2>2, <2>3, <2>5 DEF AnsweredOnce, OnlyWritten, TypeOK
<1> QED
  BY <1>2, <1>3

LEMMA BehindStep == TelegramInductive /\ [Next]_vars => Behind'
<1> SUFFICES ASSUME TelegramInductive, [Next]_vars, pc' \in {"polling", "handling"}
             PROVE  /\ backlog' < First'
                    /\ \A i \in 1..MaxUpdates : answers'[i] > 0 => i < First'
  BY DEF Behind
<1>0. TypeOK /\ OnlyWritten /\ Behind
  BY DEF TelegramInductive
<1>1. Len(updates) \in Nat /\ kept \in Nat /\ offset \in Nat /\ backlog \in Nat
  BY <1>0 DEF TypeOK
<1>2. CASE Drop
  <2>1. First' >= Len(updates) + 1
    BY <1>1, <1>2 DEF Drop, First
  <2>2. backlog' = Len(updates) /\ answers' = answers
    BY <1>2 DEF Drop
  <2>3. First' \in Nat
    BY <1>1, <1>2 DEF Drop, First
  <2> QED
    BY <1>0, <1>1, <2>1, <2>2, <2>3 DEF OnlyWritten, TypeOK
<1>3. CASE Poll
  <2>1. First' = First
    BY <1>1, <1>3 DEF Poll, First
  <2>2. pc = "polling" /\ answers' = answers /\ backlog' = backlog
    BY <1>3 DEF Poll
  <2> QED
    BY <1>0, <2>1, <2>2 DEF Behind
<1>4. CASE Ignore \/ Answer
  <2>1. /\ pc = "handling" /\ Advance
        /\ offset >= kept
    BY <1>0, <1>4 DEF Ignore, Answer, TypeOK
  <2>2. First = offset /\ First' = offset + 1
    BY <1>1, <2>1 DEF First, Advance, telegram
  <2>3. backlog' = backlog
    BY <2>1 DEF Advance
  <2>4. \A i \in 1..MaxUpdates : answers'[i] = answers[i] \/ i = offset
    BY <1>0, <1>4 DEF Ignore, Answer, TypeOK
  <2> QED
    BY <1>0, <1>1, <2>1, <2>2, <2>3, <2>4 DEF Behind, TypeOK
<1>5. CASE Write \/ Shutdown \/ UNCHANGED vars
  <2>1. UNCHANGED <<pc, kept, offset, answers, backlog>>
    BY <1>5 DEF Write, Shutdown, vars, telegram
  <2> QED
    BY <1>0, <2>1 DEF Behind, First
<1> QED
  <2>1. \/ Drop \/ Poll \/ Ignore \/ Answer \/ Write \/ Shutdown \/ UNCHANGED vars
    BY DEF Next, Service, StopWaiting, Stop, TimerFires, Connect, ConnectFails, DropFails, Retry,
           PollFails, AnswerCancelled, Exit, Crash, ProcessGone, Restart
  <2> QED
    BY <1>2, <1>3, <1>4, <1>5, <2>1

LEMMA CountedStep == TelegramInductive /\ [Next]_vars => Counted'
<1> SUFFICES ASSUME TelegramInductive, [Next]_vars PROVE Counted'
  OBVIOUS
<1>0. TypeOK /\ Counted
  BY DEF TelegramInductive
<1>1. failures \in Nat /\ refused \in Nat
  BY <1>0 DEF TypeOK
<1>2. CASE ConnectFails
  BY <1>0, <1>1, <1>2 DEF Counted, ConnectFails, Retry, Connected
<1>3. CASE PollFails
  BY <1>0, <1>1, <1>3 DEF Counted, PollFails, Retry, Connected
<1>4. CASE DropFails
  BY <1>0, <1>1, <1>4 DEF Counted, DropFails, Retry, Connected
<1>5. CASE Connect \/ Drop \/ Poll
  BY <1>0, <1>1, <1>5 DEF Counted, Connect, Drop, Poll, Connected
<1>6. CASE Ignore \/ Answer \/ AnswerCancelled
  BY <1>0, <1>1, <1>6 DEF Counted, Ignore, Answer, AnswerCancelled, Advance, Stop, Connected
<1>7. CASE StopWaiting \/ TimerFires \/ Restart
  BY <1>0, <1>1, <1>7 DEF Counted, StopWaiting, Stop, TimerFires, Restart, Connected
<1>8. CASE Exit \/ Crash
  BY <1>0, <1>1, <1>8 DEF Counted, Exit, Crash, ProcessGone, Connected
<1>9. CASE Write \/ Shutdown \/ UNCHANGED vars
  BY <1>0, <1>1, <1>9 DEF Counted, Write, Shutdown, vars
<1> QED
  BY <1>2, <1>3, <1>4, <1>5, <1>6, <1>7, <1>8, <1>9 DEF Next, Service

(***************************************************************************)
(* The theorems.                                                           *)
(***************************************************************************)
LEMMA TelegramInductiveHolds == Spec => []TelegramInductive
<1>1. TelegramInductive /\ [Next]_vars => TelegramInductive'
  BY TelegramTypeStep, AnswersStep, BehindStep, CountedStep DEF TelegramInductive
<1> QED
  BY TelegramInit, <1>1, PTL DEF Spec

(* The service's variables have their types.                               *)
THEOREM TelegramTypeCorrect == Spec => []TypeOK
<1>1. TelegramInductive => TypeOK
  BY DEF TelegramInductive
<1> QED
  BY TelegramInductiveHolds, <1>1, PTL

(* The service gives up only when it is refused as often in a row as the   *)
(* schedule allows, and then it does.                                      *)
THEOREM TelegramGivesUpWhenRefused == Spec => []GivesUpWhenRefused
<1>1. TelegramInductive => GivesUpWhenRefused
  BY DEF TelegramInductive, Counted, GivesUpWhenRefused, TypeOK
<1> QED
  BY TelegramInductiveHolds, <1>1, PTL
(***************************************************************************)
(* Both transports.  Over the Bot API the process takes the steps of       *)
(* TelegramService; over MTProto an update is handed over once, and what   *)
(* has been handed over comes before kept.                                 *)
(***************************************************************************)
HandedOnce ==
    /\ updates \in Seq({"command", "other"}) /\ Len(updates) <= MaxUpdates
    /\ kept \in Nat \ {0}
    /\ answers \in [1..MaxUpdates -> Nat]
    /\ \A i \in 1..MaxUpdates : answers[i] <= 1 /\ (answers[i] > 0 => i < kept)
    /\ backlog = 0
    /\ failures \in Nat
    /\ pc \notin Connected

TrishnaInductive ==
    /\ transport \in Transports
    /\ transport = "botapi" => TelegramInductive /\ botUsername = "unset"
    /\ transport = "mtproto" => HandedOnce

LEMMA TrishnaStarts == TrishnaInit => TrishnaInductive
<1> SUFFICES ASSUME TrishnaInit PROVE TrishnaInductive
  OBVIOUS
<1>1. TelegramInductive
  BY TelegramInit DEF TrishnaInit, TransportsInit
<1>2. HandedOnce
  BY <1>1 DEF TelegramInductive, TypeOK, AnsweredOnce, HandedOnce, Connected,
              TrishnaInit, TransportsInit, Init
<1> QED
  BY <1>1, <1>2 DEF TrishnaInductive, TrishnaInit, TransportsInit

(* A step over the Bot API is one of TelegramService.                      *)
LEMMA BotAPIStep ==
    ASSUME transport = "botapi", botUsername = "unset", [TrishnaNext]_trishnaVars
    PROVE  [Next]_vars /\ transport' = "botapi" /\ botUsername' = "unset"
<1>1. CASE TelegramRuns
  <2>1. Waiting \/ BotAPI
    BY <1>1 DEF TelegramRuns, MTProto, Link, Authorize, SetUsername, RecordRunning, LinkFails,
                Break, StopRunning, Receive, ReceiveIgnored, ReceiveAnswered, Lose, TornRead, MTStep
  <2> QED
    BY <2>1 DEF Waiting, BotAPI, Unheard, Next, Service
<1>2. CASE Outside
  BY <1>2 DEF Outside, WriteHeard, Unheard, Next
<1>3. CASE ExitWithAll \/ RestartAll
  BY <1>3 DEF ExitWithAll, RestartAll, Unheard, Next, Service
<1>4. CASE UNCHANGED transportVars
  BY <1>4 DEF transportVars
<1> QED
  BY <1>1, <1>2, <1>3, <1>4 DEF TrishnaNext, Returns, trishnaVars

(* What MTProto changes, and what it leaves as it is.                      *)
LEMMA MTProtoStep ==
    ASSUME transport = "mtproto", [TrishnaNext]_trishnaVars
    PROVE  \/ MTProto \/ Waiting \/ WriteHeard
           \/ Shutdown /\ Unheard
           \/ (Crash \/ Exit \/ Restart) /\ Unheard
           \/ UNCHANGED transportVars
BY DEF TrishnaNext, TelegramRuns, BotAPI, Returns, Outside, ExitWithAll, RestartAll, trishnaVars

LEMMA MTProtoKeepsTransport ==
    ASSUME transport = "mtproto", [TrishnaNext]_trishnaVars
    PROVE  transport' = "mtproto"
BY MTProtoStep
DEF MTProto, Waiting, WriteHeard, Unheard, transportVars, Link, Authorize, SetUsername,
    RecordRunning, LinkFails, Break, StopRunning, Receive, ReceiveIgnored, ReceiveAnswered,
    Lose, TornRead, MTStep

LEMMA HandedOnceStays ==
    ASSUME transport = "mtproto", HandedOnce, [TrishnaNext]_trishnaVars
    PROVE  HandedOnce'
<1>0. Len(updates) \in Nat
  BY DEF HandedOnce
<1>1. CASE ReceiveAnswered
  <2>1. /\ kept' = kept + 1
        /\ UNCHANGED <<updates, pc, failures, backlog>>
    BY <1>1 DEF ReceiveAnswered, Receive, MTStep
  <2>2. kept \in 1..MaxUpdates
    BY <1>0, <1>1, TelegramAssumption DEF ReceiveAnswered, Receive, HandedOnce
  <2>3. answers' = answers \/ answers' = [answers EXCEPT ![kept] = answers[kept] + 1]
    BY <1>1 DEF ReceiveAnswered
  <2>4. answers[kept] = 0
    BY <2>2 DEF HandedOnce
  <2>5. answers' = answers \/ answers' = [answers EXCEPT ![kept] = 1]
    BY <2>3, <2>4
  <2>6. answers' \in [1..MaxUpdates -> Nat] /\ kept' \in Nat \ {0}
    BY <2>1, <2>5 DEF HandedOnce
  <2>7. ASSUME NEW i \in 1..MaxUpdates
        PROVE  answers'[i] <= 1 /\ (answers'[i] > 0 => i < kept')
    <3>1. answers'[i] = answers[i] \/ (i = kept /\ answers'[i] = 1)
      BY <2>2, <2>5 DEF HandedOnce
    <3> QED
      BY <2>1, <2>2, <3>1 DEF HandedOnce
  <2> QED
    BY <2>1, <2>6, <2>7 DEF HandedOnce
<1>2. CASE ReceiveIgnored \/ Lose
  <2>1. /\ kept' = kept + 1
        /\ UNCHANGED <<updates, pc, failures, backlog, answers>>
    BY <1>2 DEF ReceiveIgnored, Lose, Receive, MTStep
  <2> QED
    BY <2>1 DEF HandedOnce
<1>3. CASE LinkFails \/ Break
  <2>1. UNCHANGED <<updates, kept, answers, backlog>>
    BY <1>3 DEF LinkFails, Break, MTStep, telegram
  <2>2. Retry(failures + 1) \/ Retry(1)
    BY <1>3 DEF LinkFails, Break
  <2>3. failures' \in Nat /\ pc' \in {"retrying", "gaveUp"}
    BY <2>2 DEF Retry, HandedOnce
  <2> QED
    BY <2>1, <2>3 DEF HandedOnce, Connected
<1>4. CASE Link \/ Authorize \/ SetUsername \/ RecordRunning \/ StopRunning
  <2>1. /\ UNCHANGED <<updates, kept, answers, backlog, failures>>
        /\ pc' \notin Connected
    BY <1>4 DEF Link, Authorize, SetUsername, RecordRunning, StopRunning, Stop, MTStep,
                telegram, Connected
  <2> QED
    BY <2>1 DEF HandedOnce
<1>5. CASE TornRead
  <2>1. /\ UNCHANGED <<updates, answers, backlog>>
        /\ kept' = kept + 1 /\ failures' = 0 /\ pc' = "down"
    BY <1>5 DEF TornRead
  <2> QED
    BY <2>1 DEF HandedOnce, Connected
<1>6. CASE WriteHeard
  <2>1. PICK kind \in {"command", "other"} : updates' = Append(updates, kind)
    BY <1>6 DEF WriteHeard, Write
  <2>2. Len(updates) < MaxUpdates /\ UNCHANGED <<kept, answers, backlog, failures, pc>>
    BY <1>6 DEF WriteHeard, Write
  <2>3. updates' \in Seq({"command", "other"}) /\ Len(updates') = Len(updates) + 1
    BY <2>1 DEF HandedOnce
  <2> QED
    BY <1>0, <2>2, <2>3, TelegramAssumption DEF HandedOnce
<1>7. CASE Waiting \/ Restart
  <2>1. /\ UNCHANGED <<updates, kept, answers, backlog, failures>>
        /\ pc' \notin Connected
    BY <1>7 DEF Waiting, TimerFires, StopWaiting, Stop, Restart, telegram, Connected
  <2> QED
    BY <2>1 DEF HandedOnce
<1>8. CASE Crash \/ Exit
  <2>1. /\ UNCHANGED <<updates, kept, answers, backlog>>
        /\ failures' = 0 /\ pc' = "down"
    BY <1>8 DEF Crash, Exit, ProcessGone, telegram
  <2> QED
    BY <2>1 DEF HandedOnce, Connected
<1>9. CASE Shutdown \/ UNCHANGED transportVars
  <2>1. UNCHANGED <<updates, kept, answers, backlog, failures, pc>>
    BY <1>9 DEF Shutdown, transportVars, vars, telegram
  <2> QED
    BY <2>1 DEF HandedOnce
<1> QED
  BY MTProtoStep, <1>1, <1>2, <1>3, <1>4, <1>5, <1>6, <1>7, <1>8, <1>9 DEF MTProto

LEMMA TrishnaStepKeeps == TrishnaInductive /\ [TrishnaNext]_trishnaVars => TrishnaInductive'
<1> SUFFICES ASSUME TrishnaInductive, [TrishnaNext]_trishnaVars PROVE TrishnaInductive'
  OBVIOUS
<1>1. CASE transport = "botapi"
  <2>1. [Next]_vars /\ transport' = "botapi" /\ botUsername' = "unset"
    BY <1>1, BotAPIStep DEF TrishnaInductive
  <2>2. TelegramInductive'
    BY <1>1, <2>1, TelegramTypeStep, AnswersStep, BehindStep, CountedStep
    DEF TrishnaInductive, TelegramInductive
  <2> QED
    BY <2>1, <2>2 DEF TrishnaInductive, Transports
<1>2. CASE transport = "mtproto"
  BY <1>2, HandedOnceStays, MTProtoKeepsTransport DEF TrishnaInductive, Transports
<1> QED
  BY <1>1, <1>2 DEF TrishnaInductive, Transports

LEMMA TrishnaInductiveHolds == TrishnaSpec => []TrishnaInductive
BY TrishnaStarts, TrishnaStepKeeps, PTL DEF TrishnaSpec

(* No update is answered twice over either transport, whatever call fails, *)
(* whenever a connection breaks and wherever the process dies.             *)
THEOREM TrishnaAnsweredOnce == TrishnaSpec => []AnsweredOnce
<1>1. TrishnaInductive => AnsweredOnce
  BY DEF TrishnaInductive, TelegramInductive, HandedOnce, AnsweredOnce, Transports
<1> QED
  BY TrishnaInductiveHolds, <1>1, PTL

(* Over the Bot API nothing is answered that was written before the        *)
(* service last connected and dropped what it found.                       *)
THEOREM TrishnaStaleNotAnswered == TrishnaSpec => StaleNotAnswered
<1>1. TrishnaInductive /\ [TrishnaNext]_trishnaVars =>
          [transport = "botapi" =>
              \A i \in 1..MaxUpdates : answers'[i] # answers[i] => i > backlog]_transportVars
  <2> SUFFICES ASSUME TrishnaInductive, [TrishnaNext]_trishnaVars, NEW i \in 1..MaxUpdates,
                      transport = "botapi", answers'[i] # answers[i]
               PROVE  i > backlog
    OBVIOUS
  <2>1. TypeOK /\ Behind /\ [Next]_vars
    BY BotAPIStep DEF TrishnaInductive, TelegramInductive
  <2>2. Answer /\ answers' = [answers EXCEPT ![offset] = answers[offset] + 1]
    BY <2>1 DEF Next, Service, StopWaiting, Stop, TimerFires, Connect, ConnectFails, Drop,
           DropFails, Poll, PollFails, Ignore, Answer, AnswerCancelled, Advance,
           Exit, Crash, ProcessGone, Restart, Shutdown, Write, vars, telegram
  <2>3. i = offset
    BY <2>1, <2>2 DEF TypeOK
  <2>4. First = offset /\ backlog < First
    BY <2>1, <2>2, PageBounds DEF Answer, Behind
  <2> QED
    BY <2>1, <2>3, <2>4 DEF TypeOK
<1> QED
  BY TrishnaInductiveHolds, <1>1, PTL DEF TrishnaSpec, StaleNotAnswered

(***************************************************************************)
(* The retry loop.                                                         *)
(***************************************************************************)
LEMMA TransportsFollowSchedule ==
    ASSUME TrishnaInductive, [TrishnaNext]_trishnaVars
    PROVE  [Schedule!Next]_Schedule!schedule
<1> USE DEF Schedule!schedule, Mode, Connected
<1>0. failures \in Nat /\ MaxRetries \in Nat /\ (pc \in Connected => failures = 0)
  BY TelegramAssumption
  DEF TrishnaInductive, HandedOnce, TelegramInductive, TypeOK, Counted, Transports
<1>1. \/ TelegramRuns \/ WriteHeard \/ Shutdown \/ Crash \/ Exit \/ Restart
      \/ UNCHANGED transportVars
  BY DEF TrishnaNext, Returns, Outside, ExitWithAll, RestartAll, trishnaVars
<1>2. ASSUME NEW n \in Nat, n = (IF Mode = "working" THEN 0 ELSE failures),
             Retry(n + 1), Mode \in {"trying", "working"}, UNCHANGED ctxDone
      PROVE  Schedule!Fail
  <2>1. n + 1 <= MaxRetries <=> n < MaxRetries
    BY <1>0, <1>2
  <2> QED
    BY <1>2, <2>1 DEF Retry, Schedule!Fail
<1>3. CASE ConnectFails \/ LinkFails
  <2>1. Schedule!Fail
    BY <1>0, <1>2, <1>3 DEF ConnectFails, LinkFails, MTStep
  <2> QED
    BY <2>1 DEF Schedule!Next
<1>4. CASE PollFails \/ Break
  <2>1. Retry(0 + 1) /\ Mode = "working" /\ UNCHANGED ctxDone
    BY <1>0, <1>4 DEF PollFails, Break, MTStep
  <2>2. Schedule!Fail
    BY <1>2, <2>1
  <2> QED
    BY <2>2 DEF Schedule!Next
<1>5. CASE DropFails
  <2>1. CASE ctxDone
    <3>1. Schedule!Stop
      BY <1>5, <2>1 DEF DropFails, Schedule!Stop
    <3> QED
      BY <3>1 DEF Schedule!Next
  <2>2. CASE ~ctxDone
    <3>1. Retry(0 + 1) /\ Mode = "working" /\ UNCHANGED ctxDone
      BY <1>0, <1>5, <2>2 DEF DropFails
    <3>2. Schedule!Fail
      BY <1>2, <3>1
    <3> QED
      BY <3>2 DEF Schedule!Next
  <2> QED
    BY <2>1, <2>2
<1>6. CASE Connect \/ RecordRunning
  <2>1. Schedule!Work
    BY <1>6 DEF Connect, RecordRunning, MTStep, Schedule!Work
  <2> QED
    BY <2>1 DEF Schedule!Next
<1>7. CASE TimerFires
  <2>1. Schedule!TryAgain
    BY <1>7 DEF TimerFires, Schedule!TryAgain
  <2> QED
    BY <2>1 DEF Schedule!Next
<1>8. CASE StopWaiting \/ AnswerCancelled \/ StopRunning
  <2>1. Schedule!Stop
    BY <1>8 DEF StopWaiting, AnswerCancelled, StopRunning, Stop, Schedule!Stop
  <2> QED
    BY <2>1 DEF Schedule!Next
<1>9. CASE Shutdown
  <2>1. Schedule!Tell
    BY <1>9 DEF Shutdown, Schedule!Tell
  <2> QED
    BY <2>1 DEF Schedule!Next
<1>10. CASE Crash \/ Exit \/ TornRead
  <2>1. Schedule!Gone
    BY <1>10 DEF Crash, Exit, TornRead, ProcessGone, Schedule!Gone
  <2> QED
    BY <2>1 DEF Schedule!Next
<1>11. CASE Restart
  <2>1. Schedule!Restart
    BY <1>11 DEF Restart, Schedule!Restart
  <2> QED
    BY <2>1 DEF Schedule!Next
<1>12. CASE Drop \/ Poll \/ Ignore \/ Answer
  BY <1>12 DEF Drop, Poll, Ignore, Answer, Advance
<1>13. CASE Link \/ Authorize \/ SetUsername
  BY <1>13 DEF Link, Authorize, SetUsername, MTStep
<1>14. CASE ReceiveIgnored \/ ReceiveAnswered \/ Lose
  BY <1>14 DEF ReceiveIgnored, ReceiveAnswered, Lose, Receive, MTStep
<1>15. CASE WriteHeard \/ UNCHANGED transportVars
  BY <1>15 DEF WriteHeard, Write, transportVars, vars
<1> QED
  BY <1>1, <1>3, <1>4, <1>5, <1>6, <1>7, <1>8, <1>9, <1>10, <1>11, <1>12, <1>13, <1>14, <1>15
  DEF TelegramRuns, Waiting, BotAPI, MTProto

(* Over either transport the attempts of the service are a retry loop: it  *)
(* gives up only when a whole schedule of attempts in a row did not get to *)
(* run, whatever has failed before it last ran.                            *)
THEOREM TrishnaKeepsSchedule == TrishnaSpec => KeepsSchedule
<1>1. TrishnaInit => Schedule!Init
  BY DEF TrishnaInit, TransportsInit, Init, Schedule!Init, Mode, Connected
<1>2. TrishnaInductive /\ [TrishnaNext]_trishnaVars => [Schedule!Next]_Schedule!schedule
  BY TransportsFollowSchedule
<1> QED
  BY <1>1, <1>2, TrishnaInductiveHolds, PTL DEF TrishnaSpec, KeepsSchedule, Schedule!Spec

(***************************************************************************)
(* What is sent while the service is serving.  The name of the bot is      *)
(* known from before the service says that it runs; and as long as nothing *)
(* has failed and nobody has stopped the service, it serves from the first *)
(* update that was heard on, and those it has passed it has answered.      *)
(***************************************************************************)
NameKnown ==
    transport = "mtproto" =>
        /\ botUsername = "half" => pc = "naming"
        /\ pc \in {"named", "running"} => botUsername = "set"

Quiet == faults = 0 /\ stops = 0

\* The updates before it were handed to the service.
Frontier == IF transport = "botapi" THEN First ELSE kept

HeardTyped ==
    /\ faults \in Nat /\ stops \in Nat
    /\ heard \subseteq 1..Len(updates)
    /\ kept <= Len(updates) + 1

HeardInOrder ==
    Quiet =>
        /\ ~ctxDone
        /\ heard # {} => Serving
        /\ \A i \in heard : updates[i] = "command" /\ i < Frontier => answers[i] = 1

HeardInductive == TrishnaInductive /\ NameKnown /\ HeardTyped /\ HeardInOrder

LEMMA NameKnownStays ==
    ASSUME NameKnown, transport \in Transports, [TrishnaNext]_trishnaVars
    PROVE  NameKnown' /\ transport' = transport
<1>1. transport' = transport
  BY DEF TrishnaNext, TelegramRuns, Waiting, BotAPI, MTProto, MTStep, Link, Authorize, SetUsername,
         RecordRunning, LinkFails, Break, StopRunning, Receive, ReceiveIgnored, ReceiveAnswered,
         Lose, TornRead, Unheard, Returns, Outside, WriteHeard, ExitWithAll, RestartAll,
         trishnaVars, transportVars
<1> SUFFICES ASSUME transport = "mtproto" PROVE NameKnown'
  BY <1>1 DEF NameKnown
<1> USE DEF NameKnown
<1>2. CASE Link \/ Authorize \/ SetUsername \/ RecordRunning
  BY <1>2 DEF Link, Authorize, SetUsername, RecordRunning
<1>3. CASE LinkFails \/ Break \/ StopRunning \/ TornRead
  BY <1>3 DEF LinkFails, Break, StopRunning, Stop, TornRead, Retry
<1>4. CASE ReceiveIgnored \/ ReceiveAnswered \/ Lose
  BY <1>4 DEF ReceiveIgnored, ReceiveAnswered, Receive, Lose
<1>5. CASE Waiting
  BY <1>5 DEF Waiting, TimerFires, StopWaiting, Stop
<1>6. CASE WriteHeard \/ (Shutdown /\ UNCHANGED botUsername)
  BY <1>6 DEF WriteHeard, Write, Shutdown
<1>7. CASE (Crash \/ Exit) /\ botUsername' = "unset"
  BY <1>7 DEF Crash, Exit, ProcessGone
<1>8. CASE Restart /\ UNCHANGED botUsername
  BY <1>8 DEF Restart
<1>9. CASE UNCHANGED transportVars
  BY <1>9 DEF transportVars, vars
<1> QED
  BY <1>2, <1>3, <1>4, <1>5, <1>6, <1>7, <1>8, <1>9
  DEF TrishnaNext, TelegramRuns, BotAPI, MTProto, Returns, Outside, ExitWithAll, RestartAll,
      trishnaVars

(* A step that nothing has failed in, or before, over either transport.    *)
LEMMA QuietSteps ==
    ASSUME HeardTyped, [TrishnaNext]_trishnaVars
    PROVE  /\ faults' \in Nat /\ stops' \in Nat
           /\ Quiet' => Quiet /\ ~Fault /\ ~Shutdown
<1> USE DEF HeardTyped, Quiet, Fault, NoFault, bounds
<1>1. UNCHANGED bounds \/ Fault \/ Shutdown
  BY DEF TrishnaNext, TelegramRuns, Waiting, TimerFires, StopWaiting, Stop, BotAPI, Connect,
         ConnectFails, Drop, DropFails, Poll, PollFails, Ignore, Answer, AnswerCancelled, Advance,
         MTProto, MTStep, Link, Authorize, SetUsername, RecordRunning, LinkFails, Break,
         StopRunning, Receive, ReceiveIgnored, ReceiveAnswered, Lose, TornRead, Returns, Outside,
         WriteHeard, Write, ExitWithAll, Exit, Crash, RestartAll, Restart, trishnaVars,
         transportVars, vars
<1>2. CASE UNCHANGED bounds
  <2>1. ~Fault /\ ~Shutdown
    BY <1>2 DEF Shutdown
  <2> QED
    BY <1>2, <2>1
<1>3. CASE Fault
  BY <1>3
<1>4. CASE Shutdown
  BY <1>4 DEF Shutdown
<1> QED
  BY <1>1, <1>2, <1>3, <1>4

(* What is heard was written, and an update that was asked for exists.     *)
LEMMA HeardTypedStays ==
    ASSUME TrishnaInductive, HeardTyped, [TrishnaNext]_trishnaVars
    PROVE  /\ HeardTyped'
           /\ \A i \in heard : i \in heard' /\ updates'[i] = updates[i]
           /\ \A i \in heard' : i \in heard \/ (Write /\ Serving /\ i = Len(updates) + 1)
<1>1. faults' \in Nat /\ stops' \in Nat
  BY QuietSteps
<1>2. /\ updates \in Seq({"command", "other"}) /\ Len(updates) \in Nat /\ kept \in Nat \ {0}
  <2>1. updates \in Seq({"command", "other"}) /\ kept \in Nat \ {0}
    <3>1. CASE transport = "botapi"
      <4>1. TypeOK
        BY <3>1 DEF TrishnaInductive, TelegramInductive
      <4>2. updates \in Seq({"command", "other"}) /\ kept \in 1..(Len(updates) + 1)
        BY <4>1 DEF TypeOK
      <4> QED
        BY <4>2
    <3>2. CASE transport = "mtproto"
      BY <3>2 DEF TrishnaInductive, HandedOnce
    <3> QED
      BY <3>1, <3>2 DEF TrishnaInductive, Transports
  <2> QED
    BY <2>1
<1>3. TrishnaInductive'
  BY TrishnaStepKeeps
<1>4. CASE WriteHeard
  <2>1. PICK kind \in {"command", "other"} : updates' = Append(updates, kind)
    BY <1>4 DEF WriteHeard, Write
  <2>2. /\ Len(updates') = Len(updates) + 1
        /\ \A i \in 1..Len(updates) : updates'[i] = updates[i]
    BY <1>2, <2>1
  <2>3. kept' = kept /\ Write /\ heard' = IF Serving THEN heard \cup {Len(updates')} ELSE heard
    BY <1>4 DEF WriteHeard, Write
  <2>4. ASSUME NEW i \in heard
        PROVE  i \in heard' /\ i \in 1..Len(updates') /\ updates'[i] = updates[i]
    BY <1>2, <2>2, <2>3 DEF HeardTyped
  <2>5. ASSUME NEW i \in heard'
        PROVE  /\ i \in heard \/ (Write /\ Serving /\ i = Len(updates) + 1)
               /\ i \in 1..Len(updates')
    BY <1>2, <2>2, <2>3, <2>4
  <2>6. kept' <= Len(updates') + 1
    BY <1>2, <2>2, <2>3 DEF HeardTyped
  <2> QED
    BY <1>1, <2>4, <2>5, <2>6 DEF HeardTyped
<1>5. CASE ~WriteHeard
  <2>1. updates' = updates /\ heard' = heard
    BY <1>5
    DEF TrishnaNext, TelegramRuns, Waiting, TimerFires, StopWaiting, Stop, BotAPI, Connect,
        ConnectFails, Drop, DropFails, Poll, PollFails, Ignore, Answer, AnswerCancelled, Advance,
        MTProto, MTStep, Link, Authorize, SetUsername, RecordRunning, LinkFails, Break,
        StopRunning, Receive, ReceiveIgnored, ReceiveAnswered, Lose, TornRead, Returns, Outside,
        Shutdown, ExitWithAll, Exit, Crash, ProcessGone, RestartAll, Restart, Unheard, telegram,
        trishnaVars, transportVars, vars
  <2>2. kept' <= Len(updates') + 1
    <3>1. CASE transport = "botapi"
      <4>1. TypeOK'
        BY <1>3, <3>1, BotAPIStep DEF TrishnaInductive, TelegramInductive
      <4> QED
        BY <4>1, <1>2, <2>1 DEF TypeOK
    <3>2. CASE transport = "mtproto"
      <4>1. kept' = kept \/ (kept' = kept + 1 /\ kept <= Len(updates))
        BY <3>2, MTProtoStep
        DEF Waiting, TimerFires, StopWaiting, Stop, MTProto, MTStep, Link, Authorize, SetUsername,
            RecordRunning, LinkFails, Break, StopRunning, Receive, ReceiveIgnored, ReceiveAnswered,
            Lose, TornRead, WriteHeard, Write, Shutdown, Exit, Crash, ProcessGone, Restart,
            telegram, transportVars, vars
      <4> QED
        BY <4>1, <1>2, <2>1 DEF HeardTyped
    <3> QED
      BY <3>1, <3>2 DEF TrishnaInductive, Transports
  <2> QED
    BY <1>1, <2>1, <2>2 DEF HeardTyped
<1> QED
  BY <1>4, <1>5

LEMMA BotAPIHeardInOrder ==
    ASSUME TrishnaInductive, transport = "botapi", HeardTyped, HeardInOrder,
           [TrishnaNext]_trishnaVars
    PROVE  HeardInOrder'
<1> SUFFICES ASSUME Quiet'
             PROVE  /\ ~ctxDone'
                    /\ heard' # {} => Serving'
                    /\ \A i \in heard' : updates'[i] = "command" /\ i < Frontier'
                                            => answers'[i] = 1
  BY DEF HeardInOrder
<1>1. Quiet /\ ~Fault /\ ~Shutdown
  BY QuietSteps
<1>2. /\ ~ctxDone
      /\ heard # {} => Serving
      /\ \A i \in heard : updates[i] = "command" /\ i < Frontier => answers[i] = 1
  BY <1>1 DEF HeardInOrder
<1>3. /\ TypeOK /\ Behind /\ [Next]_vars /\ transport' = "botapi" /\ Frontier = First
      /\ Len(updates) \in Nat
  BY BotAPIStep DEF TrishnaInductive, TelegramInductive, Frontier, TypeOK
<1>4. TypeOK' /\ First' = Frontier'
  BY <1>3, TelegramTypeStep DEF TrishnaInductive, TelegramInductive, Frontier
<1>5. /\ HeardTyped'
      /\ \A i \in heard : i \in heard' /\ updates'[i] = updates[i]
      /\ \A i \in heard' : i \in heard \/ (Write /\ Serving /\ i = Len(updates) + 1)
  BY HeardTypedStays
<1>6. First \in 1..(Len(updates) + 1)
  BY <1>3, PageBounds
<1> USE DEF Serving
\* Nothing has been heard yet: the service does not serve.
<1>7. CASE TimerFires \/ Connect \/ Drop \/ Exit \/ Restart
  <2>1. ~Serving /\ ~Write /\ ~ctxDone'
    BY <1>2, <1>7 DEF TimerFires, Connect, Drop, Exit, ProcessGone, Restart, Write
  <2> QED
    BY <1>2, <1>5, <2>1
<1>8. CASE Write
  <2>1. UNCHANGED <<pc, kept, offset, ctxDone, answers>>
    BY <1>8 DEF Write
  <2>2. First' = First /\ Serving' = Serving
    BY <2>1, <1>3 DEF First
  <2>3. ASSUME NEW i \in heard', updates'[i] = "command", i < First PROVE answers[i] = 1
    BY <1>2, <1>3, <1>5, <1>6, <2>3
  <2> QED
    BY <1>2, <1>4, <1>5, <2>1, <2>2, <2>3
<1>9. CASE Poll
  <2>1. /\ UNCHANGED <<updates, answers, ctxDone>> /\ ~Write
        /\ Serving' /\ kept' = First /\ (offset' = offset \/ offset' = First)
    BY <1>3, <1>9 DEF Poll, Write
  <2>2. offset <= First /\ offset \in Nat
    BY <1>3, PageBounds DEF TypeOK
  <2>3. First' = First
    BY <1>6, <2>1, <2>2 DEF First
  <2> QED
    BY <1>2, <1>3, <1>4, <1>5, <2>1, <2>3
<1>10. CASE Ignore \/ Answer
  <2>1. /\ UNCHANGED <<updates, kept, ctxDone>> /\ ~Write
        /\ pc = "handling" /\ Serving' /\ offset' = offset + 1
    BY <1>3, <1>10 DEF Ignore, Answer, Advance, Write, telegram
  <2>2. First = offset /\ offset \in Nat /\ kept \in Nat /\ kept <= offset
    BY <1>3, <2>1, PageBounds DEF TypeOK
  <2>3. First' = offset + 1
    BY <2>1, <2>2 DEF First
  <2>4. offset \in 1..MaxUpdates
    BY <1>3, <2>1 DEF TypeOK
  <2>5. /\ updates[offset] = "command" => answers'[offset] = 1
        /\ \A i \in 1..MaxUpdates : i # offset => answers'[i] = answers[i]
    <3>1. CASE Ignore
      BY <3>1 DEF Ignore
    <3>2. CASE Answer
      <4>1. answers' = [answers EXCEPT ![offset] = answers[offset] + 1]
        BY <1>1, <3>2 DEF Answer
      <4>2. answers[offset] = 0
        BY <1>3, <2>1, <2>2, <2>4 DEF Behind, TypeOK
      <4>3. answers' = [answers EXCEPT ![offset] = 1]
        BY <4>1, <4>2
      <4> QED
        BY <1>3, <2>4, <4>3 DEF TypeOK
    <3> QED
      BY <1>10, <3>1, <3>2
  <2>6. ASSUME NEW i \in heard', updates'[i] = "command", i < First' PROVE answers'[i] = 1
    <3>1. i \in heard /\ i \in 1..Len(updates) /\ updates[i] = "command"
      BY <1>5, <2>1, <2>6 DEF HeardTyped
    <3>2. i \in 1..MaxUpdates /\ (i = offset \/ i < First)
      BY <1>3, <2>2, <2>3, <2>6, <3>1 DEF TypeOK
    <3> QED
      BY <1>2, <1>3, <2>5, <3>1, <3>2
  <2> QED
    BY <1>2, <1>3, <1>4, <2>1, <2>6
<1>11. CASE UNCHANGED vars
  <2>1. UNCHANGED <<updates, kept, offset, answers, pc, ctxDone>> /\ ~Write
    BY <1>3, <1>11 DEF vars, telegram, Write, TypeOK
  <2>2. First' = First
    BY <2>1 DEF First
  <2> QED
    BY <1>2, <1>3, <1>4, <1>5, <2>1, <2>2
<1>12. ~StopWaiting /\ ~ConnectFails /\ ~DropFails /\ ~PollFails /\ ~AnswerCancelled /\ ~Crash
  BY <1>1, <1>2 DEF StopWaiting, ConnectFails, DropFails, PollFails, AnswerCancelled, Crash
<1> QED
  BY <1>1, <1>3, <1>7, <1>8, <1>9, <1>10, <1>11, <1>12 DEF Next, Service

LEMMA MTProtoHeardInOrder ==
    ASSUME TrishnaInductive, transport = "mtproto", NameKnown, HeardTyped, HeardInOrder,
           [TrishnaNext]_trishnaVars
    PROVE  HeardInOrder'
<1> SUFFICES ASSUME Quiet'
             PROVE  /\ ~ctxDone'
                    /\ heard' # {} => Serving'
                    /\ \A i \in heard' : updates'[i] = "command" /\ i < Frontier'
                                            => answers'[i] = 1
  BY DEF HeardInOrder
<1>1. Quiet /\ ~Fault /\ ~Shutdown
  BY QuietSteps
<1>2. /\ ~ctxDone
      /\ heard # {} => pc = "running"
      /\ \A i \in heard : updates[i] = "command" /\ i < kept => answers[i] = 1
  BY <1>1 DEF HeardInOrder, Serving, Frontier
<1>3. /\ HandedOnce /\ transport' = "mtproto" /\ Frontier' = kept'
      /\ Serving' <=> pc' = "running"
  BY MTProtoKeepsTransport DEF TrishnaInductive, Frontier, Serving
<1>4. /\ HeardTyped'
      /\ \A i \in heard : i \in heard' /\ updates'[i] = updates[i]
      /\ \A i \in heard' : i \in heard \/ (Write /\ pc = "running" /\ i = Len(updates) + 1)
  BY HeardTypedStays DEF Serving
<1>5. kept \in Nat /\ Len(updates) \in Nat
  BY <1>3 DEF HandedOnce
\* Nothing has been heard yet: the service does not run.
<1>6. CASE \/ Link \/ Authorize \/ SetUsername \/ RecordRunning \/ TornRead
           \/ TimerFires \/ Exit \/ Restart
  <2>1. pc # "running" /\ ~Write /\ ~ctxDone'
    BY <1>2, <1>6 DEF Link, Authorize, SetUsername, RecordRunning, TornRead, TimerFires,
           Exit, ProcessGone, Restart, Write, MTStep, NameKnown
  <2> QED
    BY <1>2, <1>4, <2>1
<1>7. CASE Lose
  <2>1. pc # "running" /\ ~Write /\ ~ctxDone'
    BY <1>1, <1>2, <1>7 DEF Lose, Linked, MTStep, Write
  <2> QED
    BY <1>2, <1>4, <2>1
<1>8. CASE WriteHeard
  <2>1. Write /\ UNCHANGED <<pc, kept, ctxDone, answers>>
    BY <1>8 DEF WriteHeard, Write
  <2>2. ASSUME NEW i \in heard', updates'[i] = "command", i < kept PROVE answers[i] = 1
    BY <1>2, <1>4, <1>5, <2>2 DEF HeardTyped
  <2> QED
    BY <1>2, <1>3, <1>4, <2>1, <2>2
<1>9. CASE ReceiveIgnored \/ ReceiveAnswered
  <2>1. /\ UNCHANGED <<updates, pc, ctxDone>> /\ kept' = kept + 1 /\ kept <= Len(updates)
        /\ ~Write
    BY <1>9 DEF ReceiveIgnored, ReceiveAnswered, Receive, MTStep, Write
  <2>2. kept \in 1..MaxUpdates
    BY <1>3, <1>5, <2>1 DEF HandedOnce
  <2>3. /\ updates[kept] = "command" /\ kept \in heard => answers'[kept] = 1
        /\ \A i \in 1..MaxUpdates : i # kept => answers'[i] = answers[i]
    <3>1. CASE ReceiveIgnored
      <4>1. kept \in heard => updates[kept] = "other"
        BY <1>2, <3>1 DEF ReceiveIgnored, NameKnown
      <4> QED
        BY <3>1, <4>1 DEF ReceiveIgnored
    <3>2. CASE ReceiveAnswered
      <4>1. answers' = [answers EXCEPT ![kept] = answers[kept] + 1]
        BY <1>1, <3>2 DEF ReceiveAnswered
      <4>2. answers[kept] = 0
        BY <1>3, <2>2 DEF HandedOnce
      <4>3. answers' = [answers EXCEPT ![kept] = 1]
        BY <4>1, <4>2
      <4> QED
        BY <1>3, <2>2, <4>3 DEF HandedOnce
    <3> QED
      BY <1>9, <3>1, <3>2
  <2>4. ASSUME NEW i \in heard', updates'[i] = "command", i < kept' PROVE answers'[i] = 1
    <3>1. i \in heard /\ i \in 1..Len(updates) /\ updates[i] = "command"
      BY <1>4, <2>1, <2>4 DEF HeardTyped
    <3>2. i \in 1..MaxUpdates /\ (i = kept \/ i < kept)
      BY <1>3, <1>5, <2>1, <2>4, <3>1 DEF HandedOnce
    <3> QED
      BY <1>2, <2>3, <3>1, <3>2
  <2> QED
    BY <1>2, <1>3, <1>4, <2>1, <2>4
<1>10. CASE UNCHANGED transportVars
  <2>1. UNCHANGED <<updates, kept, answers, pc, ctxDone>> /\ ~Write
    BY <1>3, <1>10 DEF transportVars, vars, telegram, Write, HandedOnce
  <2> QED
    BY <1>2, <1>3, <1>4, <2>1
<1>11. ~StopWaiting /\ ~LinkFails /\ ~Break /\ ~StopRunning /\ ~Crash
  BY <1>1, <1>2 DEF StopWaiting, LinkFails, Break, StopRunning, Crash
<1> QED
  BY <1>1, <1>6, <1>7, <1>8, <1>9, <1>10, <1>11, MTProtoStep DEF MTProto, Waiting

LEMMA HeardInductiveHolds == TrishnaSpec => []HeardInductive
<1>1. TrishnaInit => NameKnown /\ HeardTyped /\ HeardInOrder
  BY DEF TrishnaInit, TransportsInit, Init, NameKnown, HeardTyped, HeardInOrder
<1>2. HeardInductive /\ [TrishnaNext]_trishnaVars => HeardInductive'
  <2> SUFFICES ASSUME HeardInductive, [TrishnaNext]_trishnaVars PROVE HeardInductive'
    OBVIOUS
  <2>1. TrishnaInductive' /\ HeardTyped'
    BY TrishnaStepKeeps, HeardTypedStays DEF HeardInductive
  <2>2. NameKnown'
    BY NameKnownStays DEF HeardInductive, TrishnaInductive
  <2>3. HeardInOrder'
    BY BotAPIHeardInOrder, MTProtoHeardInOrder DEF HeardInductive, TrishnaInductive, Transports
  <2> QED
    BY <2>1, <2>2, <2>3 DEF HeardInductive
<1> QED
  BY <1>1, <1>2, TrishnaStarts, PTL DEF TrishnaSpec, HeardInductive

(* A command sent while the service was serving is answered once it has    *)
(* been passed, over either transport, unless a call failed or the service *)
(* was stopped: not dropped as stale, nor taken for another bot's before   *)
(* the name is known; however many there are and however they are paged.   *)
THEOREM TrishnaHeardIsAnswered == TrishnaSpec => []HeardIsAnswered
<1>1. HeardInductive => HeardIsAnswered
  <2> SUFFICES ASSUME HeardInductive, Quiet, NEW i \in heard, updates[i] = "command",
                      i < (IF pc = "handling" THEN offset ELSE kept)
               PROVE  answers[i] = 1
    BY DEF HeardIsAnswered, Quiet
  <2>1. i < Frontier
    <3>0. i \in Nat
      BY DEF HeardInductive, HeardTyped
    <3>1. CASE transport = "botapi"
      <4>1. TypeOK
        BY <3>1 DEF HeardInductive, TrishnaInductive, TelegramInductive
      <4>2. /\ First \in Nat /\ kept \in Nat /\ offset \in Nat
            /\ kept <= First /\ offset <= First
        BY <4>1, PageBounds DEF TypeOK
      <4> QED
        BY <3>0, <3>1, <4>2 DEF Frontier
    <3>2. CASE transport = "mtproto"
      BY <3>2 DEF HeardInductive, TrishnaInductive, HandedOnce, Connected, Frontier
    <3> QED
      BY <3>1, <3>2 DEF HeardInductive, TrishnaInductive, Transports
  <2> QED
    BY <2>1 DEF HeardInductive, HeardInOrder
<1> QED
  BY <1>1, HeardInductiveHolds, PTL
=============================================================================
