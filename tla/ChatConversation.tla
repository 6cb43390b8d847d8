--------------------------- MODULE ChatConversation ---------------------------
(***************************************************************************)
(* The chat of shawnb: what handleMessageCreate does with a message, and   *)
(* handleReset with a /reset (internal/modules/chat/chat.go).  ChatReply   *)
(* is the answer of the language model on its way to the user.             *)
(*                                                                         *)
(* The Discord client hands over one event after the other, so a handler   *)
(* is not disturbed by the next one; the process can die in any of them.   *)
(* A history is kept for every user in every channel.  Its entries are the *)
(* role of who spoke and the number of the user's message.                 *)
(***************************************************************************)
EXTENDS ChatReply

CONSTANTS
    AllowedUsers,     \* deps.AllowedUserIDs
    AllowedChannels,  \* deps.AllowedChannelIDs
    Direct,           \* stands for the channel of direct messages of a user
    HistoryLimit,     \* deps.HistoryLimit
    DirectWriters,    \* bound on those who write direct messages
    MaxMessages       \* bound on the messages that are written

ASSUME ChatAssumption ==
    /\ Direct \notin AllowedChannels
    /\ HistoryLimit \in Nat \ {0}
    /\ MaxMessages \in Nat

VARIABLES
    byKey,      \* the histories
    talk,       \* whom the handler serves where, <<>> when it serves nobody
    number,     \* messages handed over so far
    given,      \* the history that the model is given
    cooldown,   \* users that have an entry in llmCooldown
    exchanged   \* what was written and read since the last /reset (history)

chatVars == <<vars, byKey, talk, number, given, cooldown, exchanged>>

(* allowedUser and allowedLocation.  Other messages leave nothing behind.  *)
Talks == AllowedUsers \X (AllowedChannels \cup {Direct})

\* Faulty: one history for a user wherever they write.
UserKey(t) == <<t[1], Direct>>

historyKey(t) == <<t[1], t[2]>>

User(n) == <<"user", n>>
Assistant(n) == <<"assistant", n>>

TypeOK ==
    /\ pc \in {"idle", "scheduling", "asking", "splitting", "sending", "done"}
    /\ byKey \in [Talks -> Seq({"user", "assistant"} \X (1..MaxMessages))]
    /\ talk \in Talks \cup {<<>>}
    /\ number \in 0..MaxMessages
    /\ cooldown \subseteq AllowedUsers

ChatInit ==
    /\ pc = "idle"
    /\ replies = <<>> /\ text = <<>> /\ runes = <<>>
    /\ queue = <<>> /\ posted = <<>>
    /\ failed = FALSE
    /\ talk = <<>> /\ given = <<>>
    /\ byKey = [k \in Talks |-> <<>>]
    /\ cooldown = {}
    /\ number = 0
    /\ exchanged = [t \in Talks |-> <<>>]
    /\ faults = 0

LastOf(s, n) == IF Len(s) <= n THEN s ELSE SubSeq(s, Len(s) - n + 1, Len(s))

appendHistory(t, entry) ==
    byKey' = [byKey EXCEPT ![historyKey(t)] = LastOf(Append(@, entry), HistoryLimit)]

snapshotHistory(t) == byKey[historyKey(t)]

clearHistory(t) == byKey' = [byKey EXCEPT ![historyKey(t)] = <<>>]

(***************************************************************************)
(* handleMessageCreate, up to the call of the model.                       *)
(***************************************************************************)
Listen(t) ==
    /\ pc = "idle"
    /\ t[2] = Direct => t[1] \in DirectWriters
    /\ number < MaxMessages
    /\ number' = number + 1
    /\ talk' = t
    /\ pc' = "scheduling"
    /\ appendHistory(t, User(number'))
    /\ exchanged' = [exchanged EXCEPT ![t] = Append(@, User(number'))]
    /\ UNCHANGED <<replies, text, runes, queue, posted, failed, faults, given, cooldown>>

(* A fixed text, with a blank in it.                                       *)
Say(fixed) ==
    /\ pc' = "splitting"
    /\ replies' = <<fixed>> /\ text' = fixed /\ runes' = fixed
    /\ UNCHANGED <<queue, posted, failed, faults, talk, number, given, exchanged>>

(* TrySchedule has handled the message.                                    *)
Confirm ==
    /\ pc = "scheduling"
    /\ appendHistory(talk, Assistant(number))
    /\ Say(Fallback)
    /\ UNCHANGED cooldown

(* TrySchedule has not, or has failed: llmCooldown.Allow.  Nothing is said *)
(* of the time; a user with an entry may have to wait or not.              *)
Refuse ==
    /\ pc = "scheduling"
    /\ talk[1] \in cooldown
    /\ appendHistory(talk, Assistant(number))
    /\ Say(Fallback)
    /\ UNCHANGED cooldown

Ask ==
    /\ pc = "scheduling"
    /\ given' = snapshotHistory(talk)
    /\ cooldown' = cooldown \cup {talk[1]}
    /\ pc' = "asking"
    /\ UNCHANGED <<replies, text, runes, queue, posted, failed, faults, byKey, talk, number,
                   exchanged>>

(***************************************************************************)
(* The answer is recorded, and then sent.  A user has read it when a part  *)
(* of it was posted.                                                       *)
(***************************************************************************)
Handling == UNCHANGED <<talk, number, given, cooldown>>

GoOn == Continue /\ Handling /\ UNCHANGED <<byKey, exchanged>>

\* Faulty: records only what the model has said.
RecordAnswer ==
    /\ \/ Answer /\ appendHistory(talk, Assistant(number))
       \/ AskFails /\ UNCHANGED byKey
    /\ Handling
    /\ UNCHANGED exchanged

Record ==
    /\ Answer \/ AskFails
    /\ appendHistory(talk, Assistant(number))
    /\ Handling
    /\ UNCHANGED exchanged

Deliver ==
    /\ Replying
    /\ exchanged' = IF posted = <<>> /\ posted' # <<>>
                    THEN [exchanged EXCEPT ![talk] = Append(@, Assistant(number))]
                    ELSE exchanged
    /\ Handling
    /\ UNCHANGED byKey

HandlerGone ==
    /\ pc' = "idle"
    /\ replies' = <<>> /\ text' = <<>> /\ runes' = <<>>
    /\ queue' = <<>> /\ posted' = <<>>
    /\ failed' = FALSE
    /\ talk' = <<>> /\ given' = <<>>

Return ==
    /\ pc = "done"
    /\ HandlerGone
    /\ UNCHANGED <<faults, byKey, number, cooldown, exchanged>>

(***************************************************************************)
(* handleReset, and the death of the process.                              *)
(***************************************************************************)
Reset(t) ==
    /\ pc = "idle"
    /\ clearHistory(t)
    /\ exchanged' = [exchanged EXCEPT ![t] = <<>>]
    /\ UNCHANGED <<vars, talk, number, given, cooldown>>

Crash ==
    /\ faults < MaxFaults
    /\ faults' = faults + 1
    /\ HandlerGone
    /\ byKey' = [k \in Talks |-> <<>>]
    /\ exchanged' = [t \in Talks |-> <<>>]
    /\ cooldown' = {}
    /\ UNCHANGED number

Handler ==
    \/ Confirm \/ Refuse \/ Ask
    \/ GoOn \/ Record \/ Deliver
    \/ Return

ChatNext ==
    \/ \E t \in Talks : Listen(t) \/ Reset(t)
    \/ Handler
    \/ Crash

ChatSpec == ChatInit /\ [][ChatNext]_chatVars

(* A handler does not rest, and every call it makes returns: they have     *)
(* timeouts.                                                               *)
FairChatSpec == ChatSpec /\ WF_chatVars(Handler)

(***************************************************************************)
(* Properties.                                                             *)
(***************************************************************************)
(* What the model is given was written or answered in this conversation    *)
(* since its last /reset: nothing of another user, or of the same user in  *)
(* another channel, and nothing the user has had forgotten.                *)
KeepsApart ==
    pc = "asking" =>
        \A i \in 1..Len(given) : User(given[i][2]) \in ToSet(exchanged[talk])

(* The model is given all that was written and read in this conversation   *)
(* since then, or as much of its end as a history holds.  Besides, it may  *)
(* be given answers that nobody has read.                                  *)
Remembers ==
    pc = "asking" =>
        LET read == Only(given, ToSet(exchanged[talk])) IN
        /\ IsSuffix(read, exchanged[talk])
        /\ Len(given) = HistoryLimit \/ read = exchanged[talk]

(* Every message is done with: an answer is not split or sent for ever, and*)
(* the next event is handed over.                                          *)
MessageSettled == []<>(pc = "idle")
=============================================================================
