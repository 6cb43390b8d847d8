----------------------------- MODULE YouTubeChat ----------------------------
(***************************************************************************)
(* The stream bot in the live chat of a YouTube broadcast: the chat        *)
(* service, which finds the broadcast, reads its chat page by page and     *)
(* answers (internal/modules/youtube/chat_service.go, api.go), and the bot *)
(* with its cooldowns and its state file (internal/streambot).             *)
(*                                                                         *)
(* A message is its place in the chat.  Its text is "ask" (a command that  *)
(* anyone may give, answered with one of Replies), a game (the owner's     *)
(* command !setgame), or the text of an answer.  One broadcast is modelled.*)
(***************************************************************************)
EXTENDS Naturals, Sequences, Functions

CONSTANTS
    Games,         \* the games the bot knows
    Replies,       \* the bot's answers: "reply", and "ask" where a response file holds a command
    SeenLimit,     \* how many messages alreadySeen remembers
    PageSize,      \* maxResults, a bound on the messages of one page
    MaxMessages,   \* bound on the messages of others
    MaxFaults,     \* bound on failed calls, repeated pages and crashes
    MaxMinutes,    \* bound on texts that are forgotten a minute after they were sent
    MaxHalfHours,  \* bound on half hours
    MaxStops       \* bound on orderly shutdowns

ASSUME YouTubeChatAssumption ==
    /\ Replies \subseteq {"ask", "reply"} /\ Replies # {}
    /\ SeenLimit \in Nat /\ PageSize \in Nat \ {0} /\ PageSize <= SeenLimit
    /\ MaxMessages \in Nat /\ MaxFaults \in Nat
    /\ MaxMinutes \in Nat /\ MaxHalfHours \in Nat /\ MaxStops \in Nat

VARIABLES
    live, detected, chat,     \* YouTube: the broadcast, the game its title tells, its chat
    file,                     \* the game in state.json, "unset", or "torn"
    pc,                       \* where ChatService.Run is
    token,                    \* page token: the first message of the next page, 0 when empty
    baseline,                 \* the next page is only remembered
    todo,                     \* messages of the page still to be handled
    seen, sent, cooling, due, \* seenOrder, sent texts, lastUsed commands, announcement due
    health,                   \* [detail, failed]
    ctxDone,
    lately,                   \* answers to viewers since the cooldown passed (history)
    promos,                   \* announcements (history)
    recent,                   \* messages of the bot whose text is known from less than a minute ago (history)
    awaited,                  \* messages of others since the first page, not handled yet (history)
    faults, minutes, halfHours, stops

youtube == <<live, detected, chat>>
reader == <<token, baseline, todo, seen>>
memory == <<sent, cooling, due>>
history == <<lately, promos, recent, awaited>>
bounds == <<faults, minutes, halfHours, stops>>
vars == <<youtube, file, pc, reader, memory, health, ctxDone, history, bounds>>

Message == [by : {"viewer", "owner", "bot"}, text : {"ask", "reply", "promo"} \cup Games,
            answers : Nat]

Connected == pc \in {"polling", "handling", "setting", "promo"}

TypeOK ==
    /\ live \in BOOLEAN /\ detected \in Games
    /\ chat \in Seq(Message)
    /\ file \in Games \cup {"unset", "torn"}
    /\ pc \in {"looking", "detecting", "polling", "handling", "setting", "promo",
               "stopped", "down"}
    /\ token \in 0..(Len(chat) + 1)
    /\ baseline \in BOOLEAN
    /\ todo \in Seq(1..Len(chat))
    /\ pc \in {"handling", "setting"} => todo # <<>>
    /\ seen \in Seq(1..Len(chat)) /\ Len(seen) <= SeenLimit
    /\ sent \subseteq {"ask", "reply", "promo"}
    /\ cooling \subseteq {"ask"}
    /\ due \in BOOLEAN
    /\ health \in [detail : {"starting", "waiting", "connected", "offline", "stopped"},
                  failed : BOOLEAN]
    /\ ctxDone \in BOOLEAN
    /\ lately \in Nat /\ promos \in Nat
    /\ recent \subseteq 1..Len(chat) /\ awaited \subseteq 1..Len(chat)
    /\ faults \in 0..MaxFaults /\ minutes \in 0..MaxMinutes
    /\ halfHours \in 0..MaxHalfHours /\ stops \in 0..MaxStops

Init ==
    /\ live = TRUE
    /\ detected \in Games
    /\ chat = <<>>
    /\ file \in {"unset"} \cup Games
    /\ pc = "looking"
    /\ token = 0 /\ baseline = FALSE /\ todo = <<>> /\ seen = <<>>
    /\ sent = {} /\ cooling = {} /\ due = FALSE
    /\ health = [detail |-> "starting", failed |-> FALSE]
    /\ ctxDone = FALSE
    /\ lately = 0 /\ promos = 0 /\ recent = {} /\ awaited = {}
    /\ faults = 0 /\ minutes = 0 /\ halfHours = 0 /\ stops = 0

Fault == faults < MaxFaults /\ faults' = faults + 1 /\ UNCHANGED <<minutes, halfHours, stops>>
NoFault == UNCHANGED bounds

Failed == health' = [health EXCEPT !.failed = TRUE]

(***************************************************************************)
(* YouTube and the clock.                                                  *)
(***************************************************************************)
Written(by, text) == [by |-> by, text |-> text, answers |-> 0]

(* What is said from now on is on the pages that follow.                   *)
Followed == Connected /\ token > 0

Say ==
    /\ live
    /\ Len(SelectSeq(chat, LAMBDA m : m.by # "bot")) < MaxMessages
    /\ \E by \in {"viewer", "owner"}, text \in {"ask"} \cup Games :
           chat' = Append(chat, Written(by, text))
    /\ awaited' = IF Followed THEN awaited \cup {Len(chat) + 1} ELSE awaited
    /\ UNCHANGED <<live, detected, file, pc, reader, memory, health, ctxDone, lately, promos,
                   recent, bounds>>

StreamEnds ==
    /\ live
    /\ live' = FALSE
    /\ UNCHANGED <<detected, chat, file, pc, reader, memory, health, ctxDone, history, bounds>>

(* Five seconds.                                                           *)
CooldownPasses ==
    /\ cooling # {}
    /\ cooling' = {} /\ lately' = 0
    /\ UNCHANGED <<youtube, file, pc, reader, sent, due, health, ctxDone,
                   promos, recent, awaited, bounds>>

(* A minute since a text was sent, wherever the bot is in its pages.       *)
TextExpires ==
    /\ minutes < MaxMinutes
    /\ minutes' = minutes + 1
    /\ \E text \in sent :
           /\ sent' = sent \ {text}
           /\ recent' = {i \in recent : chat[i].text # text}
    /\ UNCHANGED <<youtube, file, pc, reader, cooling, due, health, ctxDone,
                   lately, promos, awaited, faults, halfHours, stops>>

HalfHourPasses ==
    /\ halfHours < MaxHalfHours
    /\ halfHours' = halfHours + 1
    /\ sent' = {} /\ cooling' = {} /\ lately' = 0 /\ recent' = {}
    /\ due' = TRUE
    /\ UNCHANGED <<youtube, file, pc, reader, health, ctxDone, promos, awaited,
                   faults, minutes, stops>>

(***************************************************************************)
(* streambot: the state file, which is truncated and then written, and     *)
(* which cannot be read in between.                                        *)
(***************************************************************************)
Readable == file # "torn"

(***************************************************************************)
(* ChatService.Run: find the broadcast, set its game, enter its chat.      *)
(***************************************************************************)
LookupFails ==
    /\ pc = "looking"
    /\ Fault \/ (ctxDone /\ NoFault)
    /\ Failed
    /\ UNCHANGED <<youtube, file, pc, reader, memory, ctxDone, history>>

NotLive ==
    /\ pc = "looking"
    /\ ~live /\ ~ctxDone
    /\ health' = [health EXCEPT !.detail = "waiting"]
    /\ UNCHANGED <<youtube, file, pc, reader, memory, ctxDone, history, bounds>>

EnterChat ==
    /\ pc' = "polling"
    /\ token' = 0 /\ todo' = <<>>
    /\ baseline' = TRUE
    /\ due' = TRUE
    /\ awaited' = {}
    /\ UNCHANGED <<youtube, seen, sent, cooling, ctxDone, lately, promos, recent>>

(* detectAndSetGame: its file cannot be read or opened ...                 *)
DetectFails ==
    /\ pc = "looking"
    /\ live /\ ~ctxDone
    /\ Fault \/ (~Readable /\ NoFault)
    /\ health' = [detail |-> "connected", failed |-> TRUE]
    /\ EnterChat
    /\ UNCHANGED file

(* ... or is truncated, and then written.                                  *)
Detect ==
    /\ pc = "looking"
    /\ live /\ ~ctxDone /\ Readable
    /\ pc' = "detecting"
    /\ file' = "torn"
    /\ UNCHANGED <<youtube, reader, memory, health, ctxDone, history, bounds>>

WriteDetected ==
    /\ pc = "detecting"
    /\ \/ file' = detected /\ NoFault
          /\ health' = [health EXCEPT !.detail = "connected"]
       \/ Fault /\ UNCHANGED file
          /\ health' = [detail |-> "connected", failed |-> TRUE]
    /\ EnterChat

(***************************************************************************)
(* runChat: one page after the other.                                      *)
(***************************************************************************)
\* Faulty: the error is not recorded.
PollFailsQuietly ==
    /\ pc = "polling"
    /\ Fault \/ (ctxDone /\ NoFault)
    /\ pc' = "looking"
    /\ UNCHANGED <<youtube, file, reader, memory, health, ctxDone, history>>

PollFails ==
    /\ pc = "polling"
    /\ \/ Fault /\ Failed
       \/ ctxDone /\ NoFault /\ UNCHANGED health
    /\ pc' = "looking"
    /\ UNCHANGED <<youtube, file, reader, memory, ctxDone, history>>

(* The messages of the last page are not looked at.                        *)
PollOffline ==
    /\ pc = "polling"
    /\ ~live /\ ~ctxDone
    /\ pc' = "looking"
    /\ health' = [detail |-> "offline", failed |-> FALSE]
    /\ UNCHANGED <<youtube, file, reader, memory, ctxDone, history, bounds>>

Least(a, b) == IF a < b THEN a ELSE b

(* Without a token YouTube returns its latest messages, with one those     *)
(* that follow.                                                            *)
First == IF token > 0 THEN token
         ELSE IF Len(chat) > PageSize THEN Len(chat) - PageSize + 1 ELSE 1
Last == Least(First + PageSize - 1, Len(chat))
Page == [k \in 1..(Last + 1 - First) |-> First + k - 1]

(* After its last message; that of the first page was only remembered.     *)
PageHandled ==
    /\ pc' = IF todo' = <<>> THEN "promo" ELSE "handling"
    /\ baseline' = (baseline /\ todo' # <<>>)

\* Faulty: leaves out the first message after each page.
PollSkipsOne ==
    /\ pc = "polling"
    /\ live /\ ~ctxDone
    /\ \/ token' = Last + 2 /\ NoFault
       \/ token' = token /\ Fault
    /\ health' = [detail |-> "connected", failed |-> FALSE]
    /\ todo' = Page
    /\ PageHandled
    /\ UNCHANGED <<youtube, file, seen, memory, ctxDone, history>>

(* The answer names the token of the next page, or none: then the same     *)
(* page is asked for again.                                                *)
Poll ==
    /\ pc = "polling"
    /\ live /\ ~ctxDone
    /\ \/ token' = Last + 1 /\ NoFault
       \/ token' = token /\ Fault
    /\ health' = [detail |-> "connected", failed |-> FALSE]
    /\ todo' = Page
    /\ PageHandled
    /\ UNCHANGED <<youtube, file, seen, memory, ctxDone, history>>

(***************************************************************************)
(* handleMessage and Bot.Handle.                                           *)
(***************************************************************************)
Message1 == Head(todo)
Text == chat[Message1].text
ByOwner == chat[Message1].by # "viewer"
OwnerCommand == Text \in Games
Command == Text = "ask" \/ OwnerCommand
\* Faulty: answers what it has just written itself.
RefusedOthers == ~ctxDone /\ (~Command \/ (~ByOwner /\ (OwnerCommand \/ Text \in cooling)))

Refused ==
    \/ Text \in sent
    \/ ~ctxDone /\ (~Command \/ (~ByOwner /\ (OwnerCommand \/ Text \in cooling)))

Handled ==
    /\ todo' = Tail(todo)
    /\ PageHandled

SkipSeen ==
    /\ pc = "handling"
    /\ Message1 \in Range(seen)
    /\ Handled
    /\ UNCHANGED <<youtube, file, token, seen, memory, health, ctxDone, history, bounds>>

\* Faulty: remembers one message less than the limit.
KeepTooFew(list) == IF Len(list) >= SeenLimit THEN Tail(list) ELSE list

Keep(list) == IF Len(list) > SeenLimit THEN Tail(list) ELSE list

(* alreadySeen.                                                            *)
Remember ==
    /\ pc = "handling"
    /\ Message1 \notin Range(seen)
    /\ seen' = Keep(Append(seen, Message1))

PassOver ==
    /\ Remember
    /\ baseline
    /\ Handled
    /\ UNCHANGED <<youtube, file, token, memory, health, ctxDone, history, bounds>>

New == Remember /\ ~baseline /\ awaited' = awaited \ {Message1}

Ignore ==
    /\ New
    /\ Refused
    /\ Handled
    /\ UNCHANGED <<youtube, file, token, memory, health, ctxDone, lately, promos, recent, bounds>>

(* Handle returns the error of the context, or the error of reading or     *)
(* opening the file; a viewer's command has started its cooldown by then.  *)
HandleFails ==
    /\ New
    /\ ~Refused
    /\ Fault \/ ((ctxDone \/ ~Readable) /\ NoFault)
    /\ cooling' = IF ctxDone \/ ByOwner THEN cooling ELSE cooling \cup {Text}
    /\ Failed
    /\ Handled
    /\ UNCHANGED <<youtube, file, token, sent, due, ctxDone, lately, promos, recent>>

(* SendChatMessage: posted, refused, or posted although it failed.  The    *)
(* text is recorded, for wasSentRecently, when it is known to be posted.   *)
Post(log, text) ==
    \/ /\ chat' = Append(log, Written("bot", text))
       /\ sent' = sent \cup {text}
       /\ recent' = recent \cup {Len(chat) + 1}
       /\ health' = [health EXCEPT !.failed = FALSE]
       /\ NoFault
    \/ /\ chat' = Append(log, Written("bot", text))
       /\ Failed
       /\ Fault
       /\ UNCHANGED <<sent, recent>>

Refuse ==
    /\ Failed
    /\ IF live THEN Fault ELSE NoFault
    /\ UNCHANGED <<chat, sent, recent>>

Answered == [chat EXCEPT ![Message1].answers = @ + 1]

Reply == (\E text \in Replies : Post(Answered, text)) \/ Refuse

\* Faulty: a command does not start its cooldown.
AnswerUncooled ==
    /\ New
    /\ ~Refused /\ ~ctxDone /\ ~OwnerCommand /\ Readable
    /\ lately' = IF ByOwner THEN lately ELSE lately + 1
    /\ Reply
    /\ Handled
    /\ UNCHANGED <<live, detected, file, token, cooling, due, ctxDone,
                   promos>>

Answer ==
    /\ New
    /\ ~Refused /\ ~ctxDone /\ ~OwnerCommand /\ Readable
    /\ cooling' = IF ByOwner THEN cooling ELSE cooling \cup {Text}
    /\ lately' = IF ByOwner THEN lately ELSE lately + 1
    /\ Reply
    /\ Handled
    /\ UNCHANGED <<live, detected, file, token, due, ctxDone,
                   promos>>

(* Store.Update, in two steps.                                             *)
SetGame ==
    /\ New
    /\ ~Refused /\ ~ctxDone /\ OwnerCommand /\ Readable
    /\ file' = "torn"
    /\ pc' = "setting"
    /\ UNCHANGED <<youtube, token, baseline, todo, memory, health, ctxDone, lately, promos,
                   recent, bounds>>

WriteGame ==
    /\ pc = "setting"
    /\ \/ file' = Text /\ Reply
       \/ Fault /\ Failed /\ UNCHANGED <<file, chat, sent, recent>>
    /\ Handled
    /\ UNCHANGED <<live, detected, token, seen, cooling, due, ctxDone,
                   lately, promos, awaited>>

(* The announcement of a page that is done, if one is due.                 *)
NoPromo ==
    /\ pc = "promo"
    /\ pc' = "polling"
    /\ due' = FALSE
    /\ due => ctxDone \/ ~Readable \/ file = "unset"
    /\ IF due /\ (ctxDone \/ ~Readable) THEN Failed ELSE UNCHANGED health
    /\ UNCHANGED <<youtube, file, reader, sent, cooling, ctxDone, history, bounds>>

Announce ==
    \/ /\ Post(chat, "promo")
       /\ promos' = promos + 1
    \/ Refuse /\ UNCHANGED promos

\* Faulty: the next announcement is not put off.
PromoEveryPage ==
    /\ pc = "promo"
    /\ due /\ ~ctxDone /\ file \in Games
    /\ pc' = "polling"
    /\ Announce
    /\ UNCHANGED <<live, detected, file, reader, cooling, due, ctxDone, lately,
                   awaited>>

Promo ==
    /\ pc = "promo"
    /\ due /\ ~ctxDone /\ file \in Games
    /\ pc' = "polling"
    /\ due' = FALSE
    /\ Announce
    /\ UNCHANGED <<live, detected, file, reader, cooling, ctxDone, lately, awaited>>

(***************************************************************************)
(* The process.                                                            *)
(***************************************************************************)
Shutdown ==
    /\ pc \notin {"down", "stopped"}
    /\ ~ctxDone
    /\ stops < MaxStops
    /\ stops' = stops + 1
    /\ ctxDone' = TRUE
    /\ UNCHANGED <<youtube, file, pc, reader, memory, health, history, faults, minutes,
                   halfHours>>

Stop ==
    /\ pc = "looking"
    /\ ctxDone
    /\ pc' = "stopped"
    /\ health' = [health EXCEPT !.detail = "stopped"]
    /\ UNCHANGED <<youtube, file, reader, memory, ctxDone, history, bounds>>

ProcessGone ==
    /\ pc' = "down"
    /\ token' = 0 /\ baseline' = FALSE /\ todo' = <<>> /\ seen' = <<>>
    /\ sent' = {} /\ cooling' = {} /\ due' = FALSE
    /\ health' = [detail |-> "starting", failed |-> FALSE]
    /\ ctxDone' = FALSE
    /\ lately' = 0
    /\ UNCHANGED <<youtube, file, promos, recent, awaited>>

Exit == pc = "stopped" /\ ProcessGone /\ NoFault

Crash == pc # "down" /\ Fault /\ ProcessGone

Restart ==
    /\ pc = "down"
    /\ pc' = "looking"
    /\ UNCHANGED <<youtube, file, reader, memory, health, ctxDone, history, bounds>>

Environment ==
    Say \/ StreamEnds \/ CooldownPasses \/ TextExpires \/ HalfHourPasses \/ Shutdown \/ Crash

Service ==
    \/ LookupFails \/ NotLive \/ DetectFails \/ Detect \/ WriteDetected
    \/ PollFails \/ PollOffline \/ Poll
    \/ SkipSeen \/ PassOver \/ Ignore \/ HandleFails \/ Answer \/ SetGame \/ WriteGame
    \/ NoPromo \/ Promo
    \/ Stop \/ Exit \/ Restart

Next == Environment \/ Service

Spec == Init /\ [][Next]_vars

(* The one goroutine of the service never rests, and launchd restarts the  *)
(* process.                                                                *)
FairSpec == Spec /\ WF_vars(Service)

(***************************************************************************)
(* Properties.                                                             *)
(***************************************************************************)
(* No message is answered twice, whatever is read again: the same page, the*)
(* first page of another connection, of another process.                   *)
AnsweredOnce == \A i \in 1..Len(chat) : chat[i].answers <= 1

(* For a minute after the bot has written a text it does not answer its    *)
(* message, even if a response file holds a command: neither on the next   *)
(* page nor on the first page of another connection or process, which      *)
(* knows nothing of what was sent.                                         *)
NeverAnswersItself == \A i \in recent : chat[i].answers = 0

(* Viewers get one answer to a command per cooldown.                       *)
RateLimited == lately <= 1

(* One announcement at first and one per half hour, however many pages are *)
(* read, and one more for each failed call, crash or shutdown: each of     *)
(* these can make the bot enter the chat again, and announce at once.      *)
PromosSpaced == promos <= 1 + halfHours + faults + stops

(* Health that says "connected" and no error is that of a service that is, *)
(* or that is shutting down.                                               *)
HealthHonest == health.detail = "connected" /\ ~health.failed => Connected \/ ctxDone

(* What others say after the first page of a connection, if that named the *)
(* token of the next, is given to the bot, once and whatever pages are     *)
(* repeated, unless the broadcast ends or the chat is entered again.       *)
MaxLength == 1 + 2 * MaxMessages + MaxHalfHours + MaxFaults + MaxStops

CatchesUp == \A i \in 1..MaxLength : i \in awaited ~> i \notin awaited \/ ~live
=============================================================================
