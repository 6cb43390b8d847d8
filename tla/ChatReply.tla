------------------------------ MODULE ChatReply ------------------------------
(***************************************************************************)
(* An answer of shawnb on its way: the language model is asked, and asked  *)
(* to go on when it stopped too early (Client.Chat); the answer is split   *)
(* into messages that Discord accepts (splitForDiscord); the messages are  *)
(* posted until one fails (sendDiscordMessages).                           *)
(*                                                                         *)
(* A text is a sequence of numbers: Space, Newline, and every other number *)
(* for another character, mentions replaced.                               *)
(***************************************************************************)
EXTENDS Naturals, Sequences, FiniteSetsExt, SequencesExt

CONSTANTS
    MaxDiscord,        \* maxDiscordMessage
    MaxContinuations,  \* maxChatContinuations
    ReplyLengths,      \* bound on what the model says in one call: its lengths ...
    MaxBlanks,         \* ... and the blanks in it
    MaxFaults          \* bound on failed calls

ASSUME ReplyAssumption ==
    /\ MaxDiscord \in Nat \ {0}
    /\ MaxContinuations \in Nat
    /\ ReplyLengths \subseteq Nat \ {0} /\ IsFiniteSet(ReplyLengths)
    /\ MaxBlanks \in Nat
    /\ MaxFaults \in Nat

VARIABLES
    pc,      \* "asking", "splitting", "sending", "done"; the others are for the
             \* modules that use this one
    replies, \* parts of completeChatMessages
    text,    \* the answer, or fallbackReply
    runes,   \* what is left to be split
    queue,   \* messages still to be posted
    posted,  \* messages posted
    failed,  \* a call has failed (history)
    faults

vars == <<pc, replies, text, runes, queue, posted, failed, faults>>

Space == 0
Newline == 1
Blank == {Space, Newline}
Text == Seq(Nat)

(* What a sequence holds of a set, in its order.                           *)
Only(s, S) == FlattenSeq([k \in 1..Len(s) |-> IF s[k] \in S THEN <<s[k]>> ELSE <<>>])

Letters(s) == Only(s, Nat \ Blank)
Solid(s) == {k \in 1..Len(s) : s[k] \notin Blank}

(* strings.TrimSpace.                                                      *)
Trim(s) == IF Solid(s) = {} THEN <<>> ELSE SubSeq(s, Min(Solid(s)), Max(Solid(s)))

(* strings.Join(parts, "\n").                                              *)
Join(parts) ==
    FlattenSeq([n \in 1..Len(parts) |-> IF n = 1 THEN parts[n] ELSE <<Newline>> \o parts[n]])

Fault == faults < MaxFaults /\ faults' = faults + 1 /\ failed' = TRUE
NoFault == UNCHANGED <<failed, faults>>

(***************************************************************************)
(* completeChatMessages.  The model answers with a text that is not blank, *)
(* in which the k-th character of the n-th answer is told from all others. *)
(***************************************************************************)
Character(n, k) == n * Max(ReplyLengths) + k + Newline

FewOf(S) == UNION {kSubset(k, S) : k \in 0..MaxBlanks}

Reply ==
    \E length \in ReplyLengths : \E blanks \in FewOf(1..length) : \E newlines \in SUBSET blanks :
        LET n == Len(replies)
            said == Trim([k \in 1..length |-> IF k \in newlines THEN Newline
                                             ELSE IF k \in blanks THEN Space
                                             ELSE Character(n, k)])
        IN  said # <<>> /\ replies' = Append(replies, said)

(* needsContinuation says yes or no, by the answer and its reason to end.  *)
Continue ==
    /\ pc = "asking"
    /\ Len(replies) < MaxContinuations
    /\ Reply
    /\ NoFault
    /\ UNCHANGED <<pc, text, runes, queue, posted>>

\* Faulty: answers with the last part.
AnswerWithLast ==
    /\ pc = "asking"
    /\ Reply
    /\ pc' = "splitting"
    /\ text' = Last(replies')
    /\ runes' = text'
    /\ NoFault
    /\ UNCHANGED <<queue, posted>>

Answer ==
    /\ pc = "asking"
    /\ Reply
    /\ pc' = "splitting"
    /\ text' = Trim(Join(replies'))
    /\ runes' = text'
    /\ NoFault
    /\ UNCHANGED <<queue, posted>>

Fallback == <<Newline + 1, Space, Newline + 2>>

(* What the model said before is left out.                                 *)
AskFails ==
    /\ pc = "asking"
    /\ Fault
    /\ pc' = "splitting"
    /\ text' = Fallback
    /\ runes' = Fallback
    /\ UNCHANGED <<replies, queue, posted>>

(***************************************************************************)
(* splitForDiscord: messages end at the last newline, or else at the last  *)
(* space, in their last quarter.                                           *)
(***************************************************************************)
MinUsefulCut == (MaxDiscord * 3) \div 4
Breaks(c) == {k \in (MinUsefulCut + 1)..MaxDiscord : runes[k] = c}

\* Faulty: nowhere to cut.
CutNowhere ==
    IF Breaks(Newline) # {} THEN Max(Breaks(Newline))
    ELSE IF Breaks(Space) # {} THEN Max(Breaks(Space))
    ELSE 0

\* Faulty: one character too many.
CutTooLate ==
    IF Breaks(Newline) # {} THEN Max(Breaks(Newline)) + 1
    ELSE IF Breaks(Space) # {} THEN Max(Breaks(Space)) + 1
    ELSE MaxDiscord + 1

Cut ==
    IF Breaks(Newline) # {} THEN Max(Breaks(Newline))
    ELSE IF Breaks(Space) # {} THEN Max(Breaks(Space))
    ELSE MaxDiscord

(* A part that is blank is left out.                                       *)
Enqueue(part) == queue' = IF part = <<>> THEN queue ELSE Append(queue, part)

Split ==
    /\ pc = "splitting"
    /\ Len(runes) > MaxDiscord
    /\ Enqueue(Trim(SubSeq(runes, 1, Cut)))
    /\ runes' = Trim(SubSeq(runes, Cut + 1, Len(runes)))
    /\ UNCHANGED <<pc, replies, text, posted, failed, faults>>

SplitEnd ==
    /\ pc = "splitting"
    /\ Len(runes) <= MaxDiscord
    /\ Enqueue(runes)
    /\ runes' = <<>>
    /\ pc' = "sending"
    /\ UNCHANGED <<replies, text, posted, failed, faults>>

(***************************************************************************)
(* sendDiscordMessages.  A message may be posted although the call fails.  *)
(***************************************************************************)
Send ==
    /\ pc = "sending"
    /\ queue # <<>>
    /\ posted' = Append(posted, Head(queue))
    /\ queue' = Tail(queue)
    /\ NoFault
    /\ UNCHANGED <<pc, replies, text, runes>>

SendFails ==
    /\ pc = "sending"
    /\ queue # <<>>
    /\ Fault
    /\ posted' \in {posted, Append(posted, Head(queue))}
    /\ pc' = "done"
    /\ UNCHANGED <<replies, text, runes, queue>>

SendEnd ==
    /\ pc = "sending"
    /\ queue = <<>>
    /\ pc' = "done"
    /\ UNCHANGED <<replies, text, runes, queue, posted, failed, faults>>

Replying ==
    \/ Split \/ SplitEnd
    \/ Send \/ SendFails \/ SendEnd

(***************************************************************************)
(* Properties.                                                             *)
(***************************************************************************)
(* Discord accepts every message: none is empty or too long.               *)
MessagesFit ==
    \A message \in ToSet(queue) \cup ToSet(posted) : Len(message) \in 1..MaxDiscord

(* The user reads what the model said, or the fallback, from its beginning *)
(* without a gap, and all that it said, in however many calls, unless a    *)
(* call fails.                                                             *)
AllSaid ==
    LET read == Letters(FlattenSeq(posted)) IN
    /\ IsPrefix(read, Letters(text))
    /\ pc = "done" /\ ~failed => read = Letters(FlattenSeq(replies))
=============================================================================
