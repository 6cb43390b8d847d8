-------------------------- MODULE YouTubeChatProofs --------------------------
(***************************************************************************)
(* The live chat: no message is answered twice, and the bot does not       *)
(* answer what it has written in the last minute, for every size of a page *)
(* and every limit of what is remembered.                                  *)
(*                                                                         *)
(* What is remembered is forgotten again, so it is not enough to say that  *)
(* every message that was answered is in seen.  What is not in it any more *)
(* lies a page or more behind something that is (NoGap), and no page that  *)
(* can still be read reaches back that far (TokenFits).                    *)
(***************************************************************************)
EXTENDS YouTubeChat, TLAPS

USE DEF youtube, reader, memory, history, bounds

(***************************************************************************)
(* Lists of messages.                                                      *)
(***************************************************************************)
Rising(list) ==
    \A i, j \in 1..Len(list) : i <= j => list[i] + (j - i) <= list[j]

Consecutive(list) == \A k \in 1..Len(list) : list[k] = list[1] + (k - 1)

Before(S, m) == \A k \in S : k < m

LEMMA RangeOfList ==
    ASSUME NEW S, NEW list \in Seq(S)
    PROVE  /\ \A i \in 1..Len(list) : list[i] \in Range(list)
           /\ \A k \in Range(list) : k \in S /\ \E i \in 1..Len(list) : list[i] = k
BY DEF Range

(* A message later than all that are remembered is remembered; only what   *)
(* lies a page behind it can be forgotten for it.                          *)
LEMMA KeepsRising ==
    ASSUME NEW n \in Nat, NEW list \in Seq(1..n), Len(list) <= SeenLimit,
           NEW m \in 1..n, Rising(list), Before(Range(list), m),
           NEW kept, kept = Keep(Append(list, m))
    PROVE  /\ kept \in Seq(1..n)
           /\ Len(kept) <= SeenLimit
           /\ Rising(kept)
           /\ m \in Range(kept)
           /\ \A k \in Range(kept) : k \in Range(list) \/ k = m
           /\ \A k \in Range(list) : k \in Range(kept) \/ k + PageSize <= m
<1>0. PICK longer : longer = Append(list, m)
  OBVIOUS
<1>1. /\ longer \in Seq(1..n)
      /\ Len(longer) = Len(list) + 1
      /\ \A i \in 1..Len(list) : longer[i] = list[i] /\ list[i] < m
      /\ longer[Len(list) + 1] = m
  BY <1>0 DEF Before, Range
<1>2. Rising(longer)
  <2> SUFFICES ASSUME NEW i \in 1..Len(longer), NEW j \in 1..Len(longer), i <= j
               PROVE  longer[i] + (j - i) <= longer[j]
    BY DEF Rising
  <2>1. CASE j <= Len(list)
    <3>1. i \in 1..Len(list) /\ j \in 1..Len(list)
      BY <1>1, <2>1
    <3>2. list[i] + (j - i) <= list[j]
      BY <3>1 DEF Rising
    <3>3. QED
      BY <1>1, <3>1, <3>2
  <2>2. CASE j = Len(list) + 1 /\ i = j
    BY <1>1, <2>2
  <2>3. CASE j = Len(list) + 1 /\ i <= Len(list)
    <3>1. list[i] + (Len(list) - i) <= list[Len(list)]
      BY <2>3 DEF Rising
    <3>2. list[Len(list)] < m
      BY <1>1, <2>3
    <3>3. list[i] \in 1..n /\ list[Len(list)] \in 1..n
      BY <2>3
    <3>4. PICK x \in 1..n, y \in 1..n : x = list[i] /\ y = list[Len(list)]
      BY <3>3
    <3>5. x + (Len(list) - i) <= y /\ y < m /\ Len(list) \in Nat
      BY <3>1, <3>2, <3>4
    <3>6. x + ((Len(list) + 1) - i) <= m
      BY <3>5
    <3>7. longer[i] = x /\ longer[j] = m
      BY <1>1, <2>3, <3>4
    <3>8. QED
      BY <2>3, <3>6, <3>7
  <2>4. QED
    BY <1>1, <2>1, <2>2, <2>3
<1>3. Range(longer) = Range(list) \cup {m}
  <2>1. ASSUME NEW i \in 1..Len(longer)
        PROVE  longer[i] \in Range(list) \cup {m}
    <3>1. CASE i \in 1..Len(list)
      BY <1>1, <3>1, RangeOfList
    <3>2. CASE i = Len(list) + 1
      BY <1>1, <3>2
    <3>3. QED
      BY <1>1, <3>1, <3>2
  <2>2. ASSUME NEW i \in 1..Len(list)
        PROVE  list[i] \in Range(longer)
    <3>1. i \in 1..Len(longer) /\ longer[i] = list[i]
      BY <1>1
    <3>2. QED
      BY <1>1, <3>1, RangeOfList
  <2>3. m \in Range(longer)
    <3>1. Len(longer) \in 1..Len(longer) /\ longer[Len(longer)] = m
      BY <1>1
    <3>2. QED
      BY <1>1, <3>1, RangeOfList
  <2>4. ASSUME NEW k \in Range(longer)
        PROVE  k \in Range(list) \cup {m}
    <3>1. PICK i \in 1..Len(longer) : longer[i] = k
      BY <1>1, RangeOfList
    <3>2. QED
      BY <2>1, <3>1
  <2>5. \A k \in Range(list) : k \in Range(longer)
    BY <2>2, RangeOfList
  <2>6. QED
    BY <2>3, <2>4, <2>5
<1>4. CASE Len(longer) <= SeenLimit
  <2>1. kept = longer
    BY <1>0, <1>1, <1>4, YouTubeChatAssumption DEF Keep
  <2>2. QED
    BY <1>1, <1>2, <1>3, <1>4, <2>1
<1>5. CASE Len(longer) > SeenLimit
  <2>1. kept = Tail(longer) /\ Len(list) = SeenLimit
    <3>1. kept = Tail(longer)
      BY <1>0, <1>5 DEF Keep
    <3>2. Len(list) \in Nat /\ SeenLimit \in Nat
      BY YouTubeChatAssumption
    <3>3. QED
      BY <1>1, <1>5, <3>1, <3>2
  <2>2. /\ kept \in Seq(1..n)
        /\ Len(kept) = Len(list)
        /\ \A i \in 1..Len(kept) : kept[i] = longer[i + 1]
    BY <1>1, <2>1
  <2>3. Rising(kept)
    <3> SUFFICES ASSUME NEW i \in 1..Len(kept), NEW j \in 1..Len(kept), i <= j
                 PROVE  kept[i] + (j - i) <= kept[j]
      BY DEF Rising
    <3>1. i + 1 \in 1..Len(longer) /\ j + 1 \in 1..Len(longer) /\ i + 1 <= j + 1
      BY <1>1, <2>2
    <3>2. longer[i + 1] + ((j + 1) - (i + 1)) <= longer[j + 1]
      BY <1>2, <3>1 DEF Rising
    <3>3. QED
      BY <2>2, <3>2
  <2>4. m \in Range(kept)
    <3>1. Len(kept) \in 1..Len(kept) /\ kept[Len(kept)] = m
      BY <1>1, <2>1, <2>2, YouTubeChatAssumption
    <3>2. QED
      BY <2>2, <3>1, RangeOfList
  <2>5. \A k \in Range(kept) : k \in Range(list) \/ k = m
    <3>1. ASSUME NEW i \in 1..Len(kept)
          PROVE  kept[i] \in Range(longer)
      <4>1. i + 1 \in 1..Len(longer)
        BY <1>1, <2>2
      <4>2. longer[i + 1] \in Range(longer)
        BY <1>1, <4>1, RangeOfList
      <4>3. QED
        BY <2>2, <4>2
    <3>2. \A k \in Range(kept) : \E i \in 1..Len(kept) : kept[i] = k
      <4>1. kept \in Seq(1..n)
        BY <2>2
      <4>2. QED
        BY ONLY <4>1, RangeOfList
    <3>3. QED
      BY <1>3, <3>1, <3>2
  <2>6. ASSUME NEW k \in Range(list)
        PROVE  k \in Range(kept) \/ k + PageSize <= m
    <3>1. PICK i \in 1..Len(list) : list[i] = k
      BY RangeOfList
    <3>2. CASE i > 1
      <4>1. kept[i - 1] = k /\ i - 1 \in 1..Len(kept)
        <5>1. i - 1 \in 1..Len(kept) /\ (i - 1) + 1 = i
          BY <1>1, <2>2, <3>2
        <5>2. QED
          BY <1>1, <2>2, <3>1, <5>1
      <4>2. QED
        BY <2>2, <4>1, RangeOfList
    <3>3. CASE i = 1
      <4>1. longer[1] + SeenLimit <= longer[SeenLimit + 1]
        BY <1>1, <1>2, <2>1, YouTubeChatAssumption DEF Rising
      <4>2. k \in 1..n /\ k + SeenLimit <= m
        BY <1>1, <2>1, <3>1, <3>3, <4>1
      <4>3. QED
        BY <4>2, YouTubeChatAssumption
    <3>4. QED
      BY <3>1, <3>2, <3>3
  <2>7. QED
    BY <2>1, <2>2, <2>3, <2>4, <2>5, <2>6
<1>6. QED
  BY <1>1, <1>4, <1>5, YouTubeChatAssumption

LEMMA Offset ==
    ASSUME NEW i \in Int, NEW first \in Int
    PROVE  \E q \in Int : i = first + (q - 1)
<1>1. (i - first) + 1 \in Int /\ i = first + (((i - first) + 1) - 1)
  OBVIOUS
<1>2. QED
  BY <1>1

LEMMA RangeOfRest ==
    ASSUME NEW S, NEW list \in Seq(S), NEW rest \in Seq(S),
           Len(list) = Len(rest) + 1,
           \A k \in 1..Len(rest) : rest[k] = list[k + 1]
    PROVE  /\ \A p \in 2..Len(list) : list[p] \in Range(rest)
           /\ \A k \in Range(rest) : \E p \in 2..Len(list) : list[p] = k
<1>1. ASSUME NEW p \in 2..Len(list)
      PROVE  list[p] \in Range(rest)
  <2>1. p - 1 \in 1..Len(rest) /\ (p - 1) + 1 = p
    OBVIOUS
  <2>2. rest[p - 1] = list[p]
    BY <2>1
  <2>3. QED
    BY <2>1, <2>2, RangeOfList
<1>2. ASSUME NEW k \in Range(rest)
      PROVE  \E p \in 2..Len(list) : list[p] = k
  <2>1. PICK q \in 1..Len(rest) : rest[q] = k
    BY RangeOfList
  <2>2. q + 1 \in 2..Len(list) /\ list[q + 1] = k
    BY <2>1
  <2>3. QED
    BY <2>2
<1>3. QED
  BY <1>1, <1>2

(* The messages of a page, and those after its first.                      *)
LEMMA RestOfPage ==
    ASSUME NEW n \in Nat, NEW list \in Seq(1..n), list # <<>>, Consecutive(list)
    PROVE  /\ Head(list) \in Range(list) /\ Head(list) \in 1..n
           /\ Tail(list) \in Seq(1..n)
           /\ Consecutive(Tail(list))
           /\ \A k \in Range(list) : k = Head(list) \/ k \in Range(Tail(list))
           /\ \A k \in Range(Tail(list)) : k \in Range(list) /\ Head(list) < k
           /\ \A i \in 1..n : \A j \in Range(list) :
                  i <= j => i \in Range(list) \/ i < Head(list)
<1>1. /\ Len(list) \in Nat \ {0}
      /\ Head(list) = list[1]
      /\ \A k \in 1..Len(list) : list[k] \in 1..n
      /\ Tail(list) \in Seq(1..n)
      /\ Len(list) = Len(Tail(list)) + 1
      /\ \A k \in 1..Len(Tail(list)) : Tail(list)[k] = list[k + 1]
  OBVIOUS
<1>2. Consecutive(Tail(list))
  <2> SUFFICES ASSUME NEW k \in 1..Len(Tail(list))
               PROVE  Tail(list)[k] = Tail(list)[1] + (k - 1)
    BY DEF Consecutive
  <2>1. list[k + 1] = list[1] + k /\ list[2] = list[1] + 1
    BY <1>1 DEF Consecutive
  <2>2. QED
    BY <1>1, <2>1
<1>3. /\ \A p \in 2..Len(list) : list[p] \in Range(Tail(list))
      /\ \A k \in Range(Tail(list)) : \E p \in 2..Len(list) : list[p] = k
  <2> PICK rest \in Seq(1..n) : rest = Tail(list)
    BY <1>1
  <2>1. Len(list) = Len(rest) + 1 /\ \A k \in 1..Len(rest) : rest[k] = list[k + 1]
    BY <1>1
  <2>2. /\ \A p \in 2..Len(list) : list[p] \in Range(rest)
        /\ \A k \in Range(rest) : \E p \in 2..Len(list) : list[p] = k
    BY ONLY <2>1, RangeOfRest, rest \in Seq(1..n), list \in Seq(1..n)
  <2>3. QED
    BY <2>2
<1>4. ASSUME NEW k \in Range(list), k # Head(list)
      PROVE  k \in Range(Tail(list))
  <2>1. PICK p \in 1..Len(list) : list[p] = k
    BY RangeOfList
  <2>2. p \in 2..Len(list)
    BY <1>1, <1>4, <2>1
  <2>3. QED
    BY <1>3, <2>1, <2>2
<1>5. \A k \in Range(Tail(list)) : k \in Range(list) /\ Head(list) < k
  <2>1. ASSUME NEW p \in 2..Len(list)
        PROVE  list[p] \in Range(list) /\ Head(list) < list[p]
    BY <1>1, RangeOfList DEF Consecutive
  <2>2. QED
    BY <1>3, <2>1
<1>6. ASSUME NEW i \in 1..n, NEW j \in Range(list), i <= j, ~(i < Head(list))
      PROVE  i \in Range(list)
  <2>1. PICK p \in 1..Len(list) : j = list[p]
    BY RangeOfList
  <2>2. PICK first \in 1..n : first = list[1]
    BY <1>1
  <2>3. j = first + (p - 1)
    BY <2>1, <2>2 DEF Consecutive
  <2>4. Len(list) \in Nat /\ first <= i /\ i <= first + (p - 1)
    BY <1>1, <1>6, <2>2, <2>3
  <2>5. i \in Int /\ first \in Int
    OBVIOUS
  <2>6. PICK q \in Int : i = first + (q - 1)
    BY <2>5, Offset
  <2>7. 1 <= q /\ q <= p
    BY <2>4, <2>5, <2>6
  <2>8. q \in 1..Len(list)
    BY <2>4, <2>7
  <2>9. list[q] = i
    BY <2>2, <2>6, <2>8 DEF Consecutive
  <2>10. QED
    BY <2>8, <2>9, RangeOfList
<1>7. QED
  BY <1>1, <1>2, <1>4, <1>5, <1>6, RangeOfList

(***************************************************************************)
(* The chat of others, and the page that is read of it.                    *)
(***************************************************************************)
LEMMA PageIsInterval ==
    ASSUME TypeOK
    PROVE  /\ First \in 1..(Len(chat) + 1) /\ Last \in 0..Len(chat) /\ First <= Last + 1
           /\ Last < First + PageSize
           /\ token > 0 => First = token
           /\ token = 0 => Last = Len(chat) /\ \A k \in Nat : k < First /\ k > 0 => k + PageSize <= Last
           /\ First + PageSize <= Len(chat) => Last = First + PageSize - 1
           /\ Page \in Seq(1..Len(chat)) /\ Consecutive(Page)
           /\ Range(Page) = First..Last
<1>1. /\ token \in Nat /\ token <= Len(chat) + 1
      /\ Len(chat) \in Nat /\ PageSize \in Nat \ {0}
  BY YouTubeChatAssumption DEF TypeOK
<1>2. /\ First \in 1..(Len(chat) + 1)
      /\ token > 0 => First = token
      /\ token = 0 => First = 1 \/ First = Len(chat) - PageSize + 1
      /\ token = 0 => Len(chat) < First + PageSize
  BY <1>1 DEF First
<1>3. /\ Last \in 0..Len(chat) /\ First <= Last + 1
      /\ Last < First + PageSize
      /\ Len(chat) < First + PageSize => Last = Len(chat)
      /\ First + PageSize <= Len(chat) => Last = First + PageSize - 1
  BY <1>1, <1>2 DEF Last, Least
<1>4. PICK first \in 1..(Len(chat) + 1), last \in 0..Len(chat) :
          first = First /\ last = Last /\ first <= last + 1
  BY <1>2, <1>3
<1>5. Page = [k \in 1..(last + 1 - first) |-> first + k - 1]
  BY <1>4 DEF Page
<1>6. last + 1 - first \in Nat
  BY <1>1, <1>4
<1>7. Page \in Seq(1..Len(chat)) /\ Len(Page) = last + 1 - first
  <2>1. \A k \in 1..(last + 1 - first) : first + k - 1 \in 1..Len(chat)
    BY <1>1, <1>4
  <2>2. QED
    BY <1>5, <1>6, <2>1
<1>8. Consecutive(Page)
  <2> SUFFICES ASSUME NEW k \in 1..Len(Page)
               PROVE  Page[k] = Page[1] + (k - 1)
    BY DEF Consecutive
  <2>1. 1 \in 1..(last + 1 - first) /\ k \in 1..(last + 1 - first)
    BY <1>7
  <2>2. Page[k] = first + k - 1 /\ Page[1] = first + 1 - 1
    BY <1>5, <2>1
  <2>3. QED
    BY <2>2
<1>9. Range(Page) = first..last
  <2>1. \A k \in 1..(last + 1 - first) : first + k - 1 \in first..last
    BY <1>1
  <2>2. \A m \in first..last : /\ m - first + 1 \in 1..(last + 1 - first)
                               /\ first + (m - first + 1) - 1 = m
    BY <1>1
  <2>3. QED
    BY <1>5, <2>1, <2>2 DEF Range
<1>10. ASSUME token = 0, NEW k \in Nat, k < First, k > 0
       PROVE  k + PageSize <= Last
  <2>1. first = Len(chat) - PageSize + 1 /\ last = Len(chat) /\ k < first
    BY <1>1, <1>2, <1>3, <1>4, <1>10
  <2>2. k + PageSize <= last
    BY <1>1, <2>1
  <2>3. QED
    BY <1>4, <2>2
<1>11. QED
  BY <1>1, <1>2, <1>3, <1>4, <1>7, <1>8, <1>9, <1>10

HealthTypes == [detail : {"starting", "waiting", "connected", "offline", "stopped"},
                failed : BOOLEAN]

LEMMA FailureTypes ==
    ASSUME TypeOK
    PROVE  /\ Fault \/ NoFault => faults' \in 0..MaxFaults /\ UNCHANGED <<minutes, halfHours, stops>>
           /\ Failed => health' \in HealthTypes /\ health'.detail = health.detail
                        /\ health'.failed
<1>1. faults \in 0..MaxFaults /\ MaxFaults \in Nat /\ health \in HealthTypes
  BY YouTubeChatAssumption DEF TypeOK, HealthTypes
<1>2. ASSUME Fault
      PROVE  faults' \in 0..MaxFaults
  BY <1>1, <1>2 DEF Fault
<1>3. ASSUME Failed
      PROVE  health' \in HealthTypes /\ health'.detail = health.detail /\ health'.failed
  BY <1>1, <1>3 DEF Failed, HealthTypes
<1>4. QED
  BY <1>1, <1>2, <1>3 DEF Fault, NoFault

(* The chat in a step in which message i may be answered.                  *)
ChatGrows(i) ==
    /\ chat' \in Seq(Message)
    /\ Len(chat) <= Len(chat')
    /\ \A k \in 1..Len(chat) :
           /\ chat'[k].by = chat[k].by /\ chat'[k].text = chat[k].text
           /\ \/ chat'[k].answers = chat[k].answers
              \/ k = i /\ chat'[k].answers = chat[k].answers + 1
    /\ \A k \in (Len(chat) + 1)..Len(chat') : chat'[k].answers = 0

(* A text that is posted is remembered with its message.                   *)
Recorded ==
    /\ recent' \subseteq 1..Len(chat')
    /\ \A k \in recent' : k \in recent \/ (k > Len(chat) /\ chat'[k].text \in sent')

(* The messages of the chat, one of which may have been answered.          *)
Copies(log, i) ==
    /\ log \in Seq(Message) /\ Len(log) = Len(chat)
    /\ \A k \in 1..Len(chat) :
           /\ log[k].by = chat[k].by /\ log[k].text = chat[k].text
           /\ \/ log[k].answers = chat[k].answers
              \/ k = i /\ log[k].answers = chat[k].answers + 1

LEMMA SameChat ==
    ASSUME TypeOK, UNCHANGED chat, NEW i
    PROVE  /\ ChatGrows(i)
           /\ recent' \subseteq recent => Recorded
<1>1. ChatGrows(i)
  BY DEF TypeOK, ChatGrows
<1>2. recent' \subseteq recent => Recorded
  BY DEF TypeOK, Recorded
<1>3. QED
  BY <1>1, <1>2

LEMMA AppendGrows ==
    ASSUME TypeOK, NEW i, NEW log, Copies(log, i),
           NEW by \in {"viewer", "owner", "bot"},
           NEW text \in {"ask", "reply", "promo"} \cup Games,
           chat' = Append(log, Written(by, text))
    PROVE  /\ ChatGrows(i) /\ Len(chat) \in Nat /\ Len(chat') = Len(chat) + 1
           /\ chat'[Len(chat) + 1].text = text
<1>1. PICK m \in Message : m = Written(by, text)
  BY DEF Written, Message
<1>2. m.by = by /\ m.text = text /\ m.answers = 0
  BY <1>1 DEF Written
<1>3. /\ chat' \in Seq(Message) /\ Len(chat') = Len(chat) + 1
      /\ \A k \in 1..Len(chat) : chat'[k] = log[k]
      /\ chat'[Len(chat) + 1] = m
      /\ Len(chat) \in Nat
  BY <1>1 DEF TypeOK, Copies
<1>4. \A k \in (Len(chat) + 1)..Len(chat') : k = Len(chat) + 1
  BY <1>3
<1>5. QED
  BY <1>2, <1>3, <1>4 DEF ChatGrows, Copies

LEMMA PostGrows ==
    ASSUME TypeOK, NEW i, NEW log, Copies(log, i),
           NEW text \in {"ask", "reply", "promo"},
           Post(log, text)
    PROVE  /\ ChatGrows(i) /\ Recorded
           /\ sent \subseteq sent' /\ sent' \subseteq {"ask", "reply", "promo"}
           /\ health'.detail = health.detail
           /\ health' \in HealthTypes
           /\ UNCHANGED <<minutes, halfHours, stops>> /\ faults' \in 0..MaxFaults
<1>1. CASE /\ chat' = Append(log, Written("bot", text))
           /\ sent' = sent \cup {text}
           /\ recent' = recent \cup {Len(chat) + 1}
           /\ health' = [health EXCEPT !.failed = FALSE]
           /\ NoFault
  <2>1. /\ ChatGrows(i) /\ Len(chat) \in Nat /\ Len(chat') = Len(chat) + 1
        /\ chat'[Len(chat) + 1].text = text
    <3>1. "bot" \in {"viewer", "owner", "bot"}
          /\ text \in {"ask", "reply", "promo"} \cup Games
      OBVIOUS
    <3>2. QED
      BY <1>1, <3>1, AppendGrows
  <2>2. Recorded
    BY <1>1, <2>1 DEF Recorded, TypeOK
  <2>3. QED
    BY <1>1, <2>1, <2>2 DEF TypeOK, NoFault, HealthTypes
<1>2. CASE /\ chat' = Append(log, Written("bot", text))
           /\ Failed
           /\ Fault
           /\ UNCHANGED <<sent, recent>>
  <2>1. ChatGrows(i) /\ Len(chat) \in Nat /\ Len(chat') = Len(chat) + 1
    <3>1. "bot" \in {"viewer", "owner", "bot"}
          /\ text \in {"ask", "reply", "promo"} \cup Games
      OBVIOUS
    <3>2. QED
      BY <1>2, <3>1, AppendGrows
  <2>2. Recorded
    BY <1>2, <2>1 DEF Recorded, TypeOK
  <2>3. QED
    BY <1>2, <2>1, <2>2, FailureTypes DEF TypeOK
<1>3. QED
  BY <1>1, <1>2 DEF Post

(***************************************************************************)
(* Types, and where a page is while it is read.                            *)
(***************************************************************************)
Reading ==
    /\ pc \notin {"handling", "setting"} => todo = <<>>
    /\ pc = "setting" => ~baseline /\ Text \in Games /\ Message1 \in Range(seen)
    /\ pc = "promo" => ~baseline
    /\ pc = "polling" /\ baseline => token = 0
    /\ Consecutive(todo)

Shape == TypeOK /\ Reading

Page1 == pc \in {"handling", "setting"}

LEMMA OneMoreAnswer ==
    ASSUME NEW m \in Message, NEW answered, answered = [m EXCEPT !.answers = @ + 1]
    PROVE  /\ answered \in Message
           /\ answered.by = m.by /\ answered.text = m.text
           /\ answered.answers = m.answers + 1
BY DEF Message

LEMMA MessageTypes ==
    ASSUME Shape, Page1
    PROVE  /\ Message1 \in 1..Len(chat) /\ chat[Message1] \in Message
           /\ Copies(chat, Message1) /\ Copies(Answered, Message1)
<1>1. todo \in Seq(1..Len(chat)) /\ todo # <<>> /\ chat \in Seq(Message)
  BY DEF Shape, TypeOK, Page1
<1>2. Message1 \in 1..Len(chat) /\ chat[Message1] \in Message
  BY <1>1 DEF Message1
<1>3. Copies(chat, Message1)
  BY <1>1 DEF Copies
<1>4. Copies(Answered, Message1)
  <2>1. PICK m \in Message : m = [chat[Message1] EXCEPT !.answers = @ + 1]
    BY <1>2, OneMoreAnswer
  <2>2. /\ m.by = chat[Message1].by /\ m.text = chat[Message1].text
        /\ m.answers = chat[Message1].answers + 1
    BY <1>2, <2>1, OneMoreAnswer
  <2>3. Answered = [chat EXCEPT ![Message1] = m]
    BY <2>1 DEF Answered
  <2>4. /\ Answered \in Seq(Message) /\ Len(Answered) = Len(chat)
        /\ \A k \in 1..Len(chat) : Answered[k] = IF k = Message1 THEN m ELSE chat[k]
    BY <1>1, <1>2, <2>3
  <2>5. QED
    BY <1>2, <2>2, <2>4 DEF Copies
<1>5. QED
  BY <1>2, <1>3, <1>4

LEMMA ReplyGrows ==
    ASSUME Shape, Page1, Reply
    PROVE  /\ ChatGrows(Message1) /\ Recorded
           /\ sent \subseteq sent' /\ sent' \subseteq {"ask", "reply", "promo"}
           /\ health' \in HealthTypes /\ health'.detail = health.detail
           /\ UNCHANGED <<minutes, halfHours, stops>> /\ faults' \in 0..MaxFaults
<1>1. CASE Refuse
  BY <1>1, SameChat, FailureTypes DEF Refuse, Shape, TypeOK
<1>2. ASSUME NEW text \in Replies, Post(Answered, text)
      PROVE  /\ ChatGrows(Message1) /\ Recorded
             /\ sent \subseteq sent' /\ sent' \subseteq {"ask", "reply", "promo"}
             /\ health' \in HealthTypes /\ health'.detail = health.detail
             /\ UNCHANGED <<minutes, halfHours, stops>> /\ faults' \in 0..MaxFaults
  <2>1. text \in {"ask", "reply", "promo"}
    BY YouTubeChatAssumption
  <2>2. QED
    BY <1>2, <2>1, MessageTypes, PostGrows DEF Shape
<1>3. QED
  BY <1>1, <1>2 DEF Reply

LEMMA RememberTypes ==
    ASSUME Shape, Remember
    PROVE  /\ seen' \in Seq(1..Len(chat)) /\ Len(seen') <= SeenLimit
           /\ Message1 \in Range(seen')
<1>1. PICK longer : longer = Append(seen, Message1)
  OBVIOUS
<1>2. /\ longer \in Seq(1..Len(chat)) /\ Len(longer) = Len(seen) + 1
      /\ longer[Len(longer)] = Message1
      /\ Len(seen) \in Nat /\ Len(seen) <= SeenLimit /\ SeenLimit \in Nat /\ SeenLimit > 0
  BY <1>1, MessageTypes, YouTubeChatAssumption DEF Shape, TypeOK, Remember, Page1
<1>3. CASE Len(longer) <= SeenLimit
  <2>1. seen' = longer
    BY <1>1, <1>2, <1>3 DEF Remember, Keep
  <2>2. Len(longer) \in 1..Len(longer)
    BY <1>2
  <2>3. QED
    BY <1>2, <1>3, <2>1, <2>2, RangeOfList
<1>4. CASE Len(longer) > SeenLimit
  <2>1. seen' = Tail(longer)
    BY <1>1, <1>2, <1>4 DEF Remember, Keep
  <2>2. PICK rest : rest = Tail(longer)
    OBVIOUS
  <2>3. /\ rest \in Seq(1..Len(chat))
        /\ Len(longer) = Len(rest) + 1
        /\ \A k \in 1..Len(rest) : rest[k] = longer[k + 1]
    BY <1>2, <1>4, <2>2
  <2>4. Len(longer) \in 2..Len(longer)
    BY <1>2, <1>4
  <2>5. longer[Len(longer)] \in Range(rest)
    BY ONLY <1>2, <2>3, <2>4, RangeOfRest
  <2>6. QED
    BY <1>2, <2>1, <2>2, <2>3, <2>5
<1>5. QED
  BY <1>2, <1>3, <1>4

LEMMA HandledTypes ==
    ASSUME Shape, Page1, Handled
    PROVE  /\ todo' \in Seq(1..Len(chat)) /\ Consecutive(todo')
           /\ pc' \in {"handling", "promo"}
           /\ pc' = "handling" <=> todo' # <<>>
           /\ baseline' \in BOOLEAN /\ baseline' = (baseline /\ pc' = "handling")
<1>1. todo' \in Seq(1..Len(chat)) /\ Consecutive(todo')
  BY RestOfPage DEF Shape, TypeOK, Reading, Page1, Handled
<1>2. QED
  BY <1>1 DEF Handled, PageHandled, Shape, TypeOK

LEMMA LaterMessages ==
    ASSUME NEW n \in Nat, NEW m \in Nat, n <= m, NEW list \in Seq(1..n)
    PROVE  list \in Seq(1..m)
OBVIOUS

LEMMA ReaderTypesKept ==
    ASSUME Shape, UNCHANGED reader, \E i \in Nat : ChatGrows(i)
    PROVE  /\ chat' \in Seq(Message) /\ token' \in 0..(Len(chat') + 1)
           /\ todo' \in Seq(1..Len(chat'))
           /\ seen' \in Seq(1..Len(chat')) /\ Len(seen') <= SeenLimit
           /\ recent \subseteq 1..Len(chat') /\ awaited \subseteq 1..Len(chat')
<1>1. /\ Len(chat) \in Nat /\ Len(chat') \in Nat /\ Len(chat) <= Len(chat')
      /\ chat' \in Seq(Message)
  BY DEF ChatGrows, Shape, TypeOK
<1>2. seen \in Seq(1..Len(chat)) /\ todo \in Seq(1..Len(chat)) /\ token \in 0..(Len(chat) + 1)
  BY DEF Shape, TypeOK
<1>3. seen \in Seq(1..Len(chat')) /\ todo \in Seq(1..Len(chat'))
  BY <1>1, <1>2, LaterMessages
<1>4. recent \subseteq 1..Len(chat') /\ awaited \subseteq 1..Len(chat')
  BY <1>1 DEF Shape, TypeOK
<1>5. QED
  BY <1>1, <1>2, <1>3, <1>4 DEF Shape, TypeOK

(* A page is read on while the chat grows by an answer.                    *)
LEMMA ReplyTypes ==
    ASSUME Shape, Page1, Handled, Reply,
           seen' \in Seq(1..Len(chat)) /\ Len(seen') <= SeenLimit,
           UNCHANGED token, awaited' \subseteq awaited
    PROVE  /\ recent' \subseteq 1..Len(chat') /\ awaited' \subseteq 1..Len(chat')
           /\ chat' \in Seq(Message) /\ token' \in 0..(Len(chat') + 1)
           /\ todo' \in Seq(1..Len(chat')) /\ seen' \in Seq(1..Len(chat'))
           /\ sent' \subseteq {"ask", "reply", "promo"}
           /\ health' \in [detail : {"starting", "waiting", "connected", "offline", "stopped"},
                           failed : BOOLEAN]
           /\ UNCHANGED <<minutes, halfHours, stops>> /\ faults' \in 0..MaxFaults
           /\ pc' \in {"handling", "promo"} /\ (pc' = "handling" <=> todo' # <<>>)
           /\ baseline' \in BOOLEAN
           /\ Reading'
<1>1. /\ chat' \in Seq(Message) /\ Len(chat') \in Nat /\ Len(chat) \in Nat
      /\ Len(chat) <= Len(chat')
  BY ReplyGrows DEF ChatGrows, Shape, TypeOK
<1>2. todo' \in Seq(1..Len(chat'))
  BY <1>1, HandledTypes, LaterMessages
<1>3. seen' \in Seq(1..Len(chat'))
  BY <1>1, LaterMessages
<1>4. token' \in 0..(Len(chat') + 1)
  BY <1>1 DEF Shape, TypeOK
<1>5. Reading'
  BY HandledTypes DEF Reading
<1>6. recent' \subseteq 1..Len(chat') /\ awaited' \subseteq 1..Len(chat')
  <2>1. recent' \subseteq 1..Len(chat')
    BY ReplyGrows DEF Recorded
  <2>2. awaited \subseteq 1..Len(chat)
    BY DEF Shape, TypeOK
  <2>3. QED
    BY <1>1, <2>1, <2>2
<1>7. QED
  BY <1>1, <1>2, <1>3, <1>4, <1>5, <1>6, ReplyGrows, HandledTypes DEF HealthTypes

LEMMA SayGrows ==
    ASSUME TypeOK, Say
    PROVE  ChatGrows(0) /\ Len(chat) \in Nat /\ Len(chat') = Len(chat) + 1
<1>1. PICK by \in {"viewer", "owner"}, text \in {"ask"} \cup Games :
          chat' = Append(chat, Written(by, text))
  BY DEF Say
<1>2. Copies(chat, 0)
  BY DEF Copies, TypeOK
<1>3. QED
  BY <1>1, <1>2, AppendGrows

LEMMA PromoGrows ==
    ASSUME TypeOK, Promo
    PROVE  /\ ChatGrows(0) /\ Recorded
           /\ sent \subseteq sent' /\ sent' \subseteq {"ask", "reply", "promo"}
           /\ health' \in HealthTypes
           /\ UNCHANGED <<minutes, halfHours, stops>> /\ faults' \in 0..MaxFaults
<1>1. CASE Post(chat, "promo")
  <2>1. Copies(chat, 0) /\ "promo" \in {"ask", "reply", "promo"}
    BY DEF Copies, TypeOK
  <2>2. QED
    BY <1>1, <2>1, PostGrows
<1>2. CASE Refuse
  BY <1>2, SameChat, FailureTypes DEF Refuse, TypeOK
<1>3. QED
  BY <1>1, <1>2 DEF Promo, Announce

LEMMA ShapeNext == Shape /\ [Next]_vars => Shape'
<1> SUFFICES ASSUME Shape, [Next]_vars
             PROVE  Shape'
  OBVIOUS
<1>1. CASE UNCHANGED vars
  BY <1>1 DEF Shape, TypeOK, Reading, vars, Text, Message1
<1>2. CASE Say
  <2>1. ChatGrows(0) /\ Len(chat) \in Nat /\ Len(chat') = Len(chat) + 1
    BY <1>2, SayGrows DEF Shape
  <2>2. TypeOK'
    <3>1. UNCHANGED reader /\ \E i \in Nat : ChatGrows(i)
      BY <1>2, <2>1 DEF Say
    <3>2. /\ chat' \in Seq(Message) /\ token' \in 0..(Len(chat') + 1)
          /\ todo' \in Seq(1..Len(chat'))
          /\ seen' \in Seq(1..Len(chat')) /\ Len(seen') <= SeenLimit
          /\ recent \subseteq 1..Len(chat') /\ awaited \subseteq 1..Len(chat')
      BY <3>1, ReaderTypesKept
    <3>3. UNCHANGED <<live, detected, file, pc, reader, memory, health, ctxDone, lately, promos,
                      recent, bounds>>
      BY <1>2 DEF Say
    <3>4. awaited' \subseteq 1..Len(chat')
      <4>1. awaited' \subseteq awaited \cup {Len(chat) + 1}
        BY <1>2 DEF Say
      <4>2. QED
        BY <2>1, <3>2, <4>1
    <3>5. QED
      BY <3>2, <3>3, <3>4 DEF Shape, TypeOK
  <2>3. Reading'
    BY <1>2, <2>1, MessageTypes DEF Say, Shape, Reading, Page1, Text, Message1, ChatGrows
  <2>4. QED
    BY <2>2, <2>3 DEF Shape
<1>3. CASE StreamEnds \/ CooldownPasses \/ TextExpires \/ HalfHourPasses
  <2>1. TypeOK'
    <3>1. CASE StreamEnds
      <4>1. live' \in BOOLEAN
        BY <3>1 DEF StreamEnds
      <4>2. QED
        BY <3>1, <4>1 DEF StreamEnds, Shape, TypeOK
    <3>2. CASE CooldownPasses
      BY <3>2 DEF CooldownPasses, Shape, TypeOK
    <3>3. CASE TextExpires
      <4>1. minutes' \in 0..MaxMinutes
        BY <3>3, YouTubeChatAssumption DEF TextExpires, Shape, TypeOK
      <4>2. sent' \subseteq {"ask", "reply", "promo"} /\ recent' \subseteq 1..Len(chat)
        BY <3>3 DEF TextExpires, Shape, TypeOK
      <4>3. UNCHANGED <<youtube, file, pc, reader, cooling, due, health, ctxDone, lately, promos,
                        awaited, faults, halfHours, stops>>
        BY <3>3 DEF TextExpires
      <4>4. QED
        BY <4>1, <4>2, <4>3 DEF Shape, TypeOK
    <3>4. CASE HalfHourPasses
      BY <3>4, YouTubeChatAssumption DEF HalfHourPasses, Shape, TypeOK
    <3>5. QED
      BY <1>3, <3>1, <3>2, <3>3, <3>4
  <2>2. Reading'
    BY <1>3 DEF StreamEnds, CooldownPasses, TextExpires, HalfHourPasses, Shape, Reading, Text,
                Message1
  <2>3. QED
    BY <2>1, <2>2 DEF Shape
<1>4. CASE Shutdown
  BY <1>4, YouTubeChatAssumption DEF Shutdown, Shape, TypeOK, Reading, Text, Message1
<1>5. CASE LookupFails \/ PollFails
  <2>1. /\ (Fault \/ NoFault) /\ (Failed \/ UNCHANGED health)
        /\ pc' = "looking" /\ pc \in {"looking", "polling"}
        /\ UNCHANGED <<youtube, file, reader, memory, ctxDone, history>>
    BY <1>5 DEF LookupFails, PollFails
  <2>2. /\ faults' \in 0..MaxFaults /\ UNCHANGED <<minutes, halfHours, stops>>
        /\ health' \in HealthTypes
    BY <2>1, FailureTypes DEF Shape, TypeOK, HealthTypes
  <2>3. TypeOK'
    BY <2>1, <2>2 DEF Shape, TypeOK, HealthTypes
  <2>4. Reading'
    BY <2>1 DEF Shape, Reading
  <2>5. QED
    BY <2>3, <2>4 DEF Shape
<1>6. CASE NotLive \/ PollOffline \/ Stop \/ Detect
  <2>1. CASE NotLive
    BY <2>1 DEF NotLive, Shape, TypeOK, Reading
  <2>2. CASE PollOffline
    BY <2>2 DEF PollOffline, Shape, TypeOK, Reading
  <2>3. CASE Stop
    BY <2>3 DEF Stop, Shape, TypeOK, Reading
  <2>4. CASE Detect
    BY <2>4 DEF Detect, Shape, TypeOK, Reading
  <2>5. QED
    BY <1>6, <2>1, <2>2, <2>3, <2>4
<1>7. CASE DetectFails \/ WriteDetected
  <2>1. EnterChat /\ (Fault \/ NoFault)
    BY <1>7 DEF DetectFails, WriteDetected
  <2>2. /\ health' \in HealthTypes
        /\ file' \in Games \cup {"unset", "torn"}
    <3>1. health \in HealthTypes /\ detected \in Games /\ file \in Games \cup {"unset", "torn"}
      BY DEF HealthTypes, Shape, TypeOK
    <3>2. \/ health' = [health EXCEPT !.detail = "connected"]
          \/ health' = [detail |-> "connected", failed |-> TRUE]
      BY <1>7 DEF DetectFails, WriteDetected
    <3>3. health' \in HealthTypes
      <4>1. CASE health' = [health EXCEPT !.detail = "connected"]
        BY <3>1, <4>1 DEF HealthTypes
      <4>2. CASE health' = [detail |-> "connected", failed |-> TRUE]
        BY <4>2 DEF HealthTypes
      <4>3. QED
        BY <3>2, <4>1, <4>2
    <3>4. file' = detected \/ file' = file
      BY <1>7 DEF DetectFails, WriteDetected
    <3>5. QED
      BY <3>1, <3>3, <3>4
  <2>3. TypeOK'
    <3>1. faults' \in 0..MaxFaults /\ UNCHANGED <<minutes, halfHours, stops>>
      BY <2>1, FailureTypes DEF Shape
    <3>2. todo' \in Seq(1..Len(chat)) /\ token' \in 0..(Len(chat) + 1) /\ awaited' = {}
      <4>1. token' = 0 /\ todo' = <<>> /\ awaited' = {} /\ Len(chat) \in Nat
        BY <2>1 DEF EnterChat, Shape, TypeOK
      <4>2. QED
        BY <4>1
    <3>3. /\ baseline' = TRUE /\ due' = TRUE /\ pc' = "polling"
          /\ UNCHANGED <<youtube, seen, sent, cooling, ctxDone, lately, promos, recent>>
      BY <2>1 DEF EnterChat
    <3>4. QED
      BY <2>2, <3>1, <3>2, <3>3 DEF Shape, TypeOK, HealthTypes
  <2>4. Reading'
    BY <2>1 DEF EnterChat, Reading, Consecutive
  <2>5. QED
    BY <2>3, <2>4 DEF Shape
<1>8. CASE Poll
  <2>1. /\ (Fault \/ NoFault) /\ token' \in {Last + 1, token} /\ todo' = Page /\ PageHandled
        /\ health' = [detail |-> "connected", failed |-> FALSE]
        /\ UNCHANGED <<youtube, file, seen, memory, ctxDone, history>>
    BY <1>8 DEF Poll
  <2>2. /\ faults' \in 0..MaxFaults /\ UNCHANGED <<minutes, halfHours, stops>>
        /\ health' \in HealthTypes
    BY <2>1, FailureTypes DEF Shape, HealthTypes
  <2>3. /\ todo' \in Seq(1..Len(chat)) /\ Consecutive(todo')
        /\ token' \in 0..(Len(chat) + 1)
    <3>1. /\ Last \in 0..Len(chat) /\ Page \in Seq(1..Len(chat)) /\ Consecutive(Page)
      BY PageIsInterval DEF Shape
    <3>2. token \in 0..(Len(chat) + 1) /\ Len(chat) \in Nat
      BY DEF Shape, TypeOK
    <3>3. token' \in 0..(Len(chat) + 1)
      BY <2>1, <3>1, <3>2
    <3>4. QED
      BY <2>1, <3>1, <3>3
  <2>4. /\ pc' \in {"handling", "promo"} /\ (pc' = "handling" <=> todo' # <<>>)
        /\ baseline' \in BOOLEAN /\ (pc' = "promo" => ~baseline')
    BY <2>1 DEF PageHandled, Shape, TypeOK
  <2>5. TypeOK'
    BY <2>1, <2>2, <2>3, <2>4 DEF Shape, TypeOK, HealthTypes
  <2>6. Reading'
    BY <2>3, <2>4 DEF Reading
  <2>7. QED
    BY <2>5, <2>6 DEF Shape
<1>9. CASE SkipSeen \/ PassOver \/ Ignore
  <2>1. /\ Page1 /\ Handled /\ awaited' \subseteq awaited
        /\ UNCHANGED <<youtube, file, token, memory, health, ctxDone, lately, promos, recent, bounds>>
    BY <1>9 DEF SkipSeen, PassOver, Ignore, New, Remember, Page1
  <2>2. seen' \in Seq(1..Len(chat)) /\ Len(seen') <= SeenLimit
    BY <1>9, RememberTypes DEF SkipSeen, PassOver, Ignore, New, Shape, TypeOK
  <2>3. /\ todo' \in Seq(1..Len(chat)) /\ Consecutive(todo')
        /\ pc' \in {"handling", "promo"} /\ (pc' = "handling" <=> todo' # <<>>)
        /\ baseline' \in BOOLEAN /\ (pc' = "promo" => ~baseline')
    BY <2>1, HandledTypes
  <2>4. TypeOK'
    BY <2>1, <2>2, <2>3 DEF Shape, TypeOK
  <2>5. Reading'
    BY <2>3 DEF Reading
  <2>6. QED
    BY <2>4, <2>5 DEF Shape
<1>10. CASE HandleFails
  <2>1. New /\ Handled /\ Page1
    BY <1>10 DEF HandleFails, New, Remember, Page1
  <2>2. cooling' \subseteq {"ask"}
    BY <1>10, <2>1, MessageTypes DEF HandleFails, Refused, Command, OwnerCommand, ByOwner, Shape, TypeOK
  <2>3. /\ Failed /\ (Fault \/ NoFault) /\ awaited' \subseteq awaited
        /\ UNCHANGED <<youtube, file, token, sent, due, ctxDone, lately, promos, recent>>
    BY <1>10 DEF HandleFails, New
  <2>4. /\ faults' \in 0..MaxFaults /\ UNCHANGED <<minutes, halfHours, stops>>
        /\ health' \in HealthTypes
    BY <2>3, FailureTypes DEF Shape
  <2>5. seen' \in Seq(1..Len(chat)) /\ Len(seen') <= SeenLimit
    BY <2>1, RememberTypes DEF New
  <2>6. /\ todo' \in Seq(1..Len(chat)) /\ Consecutive(todo')
        /\ pc' \in {"handling", "promo"} /\ (pc' = "handling" <=> todo' # <<>>)
        /\ baseline' \in BOOLEAN /\ (pc' = "promo" => ~baseline')
    BY <2>1, HandledTypes
  <2>7. TypeOK'
    BY <2>2, <2>3, <2>4, <2>5, <2>6 DEF Shape, TypeOK, HealthTypes
  <2>8. Reading'
    BY <2>6 DEF Reading
  <2>9. QED
    BY <2>7, <2>8 DEF Shape
<1>11. CASE Answer
  <2>1. New /\ Handled /\ Page1 /\ Reply
    BY <1>11 DEF Answer, New, Remember, Page1
  <2>2. cooling' \subseteq {"ask"}
    BY <1>11, <2>1, MessageTypes DEF Answer, Refused, Command, OwnerCommand, ByOwner, Shape, TypeOK
  <2>3. seen' \in Seq(1..Len(chat)) /\ Len(seen') <= SeenLimit
    BY <2>1, RememberTypes DEF New
  <2>4. /\ lately' \in Nat /\ awaited' \subseteq awaited
        /\ UNCHANGED <<live, detected, file, token, due, ctxDone, promos>>
    BY <1>11 DEF Answer, New, Shape, TypeOK
  <2>5. QED
    BY <2>1, <2>2, <2>3, <2>4, ReplyTypes DEF Shape, TypeOK
<1>12. CASE SetGame
  BY <1>12, RememberTypes DEF SetGame, New, Remember, Shape, TypeOK, Reading, Text, Message1, OwnerCommand
<1>13. CASE WriteGame
  <2>1. Handled /\ Page1 /\ file' \in Games \cup {"unset", "torn"}
    BY <1>13 DEF WriteGame, Page1, Shape, Reading, TypeOK
  <2>2. CASE Reply
    BY <1>13, <2>1, <2>2, ReplyTypes DEF WriteGame, Shape, TypeOK
  <2>3. CASE Fault /\ Failed /\ UNCHANGED <<file, chat, sent, recent>>
    BY <1>13, <2>1, <2>3, HandledTypes, FailureTypes
    DEF WriteGame, Shape, TypeOK, Reading, HealthTypes
  <2>4. QED
    BY <1>13, <2>2, <2>3 DEF WriteGame
<1>14. CASE NoPromo
  BY <1>14, FailureTypes DEF NoPromo, Shape, TypeOK, Reading, HealthTypes
<1>15. CASE Promo
  <2>1. UNCHANGED reader /\ \E i \in Nat : ChatGrows(i)
    BY <1>15, PromoGrows DEF Promo, Shape
  <2>2. promos' \in Nat /\ due' = FALSE
    BY <1>15 DEF Promo, Announce, Shape, TypeOK
  <2>3. /\ chat' \in Seq(Message) /\ token' \in 0..(Len(chat') + 1)
        /\ todo' \in Seq(1..Len(chat'))
        /\ seen' \in Seq(1..Len(chat')) /\ Len(seen') <= SeenLimit
        /\ awaited \subseteq 1..Len(chat')
    BY <2>1, ReaderTypesKept
  <2>4. /\ pc = "promo" /\ pc' = "polling"
        /\ UNCHANGED <<live, detected, file, reader, cooling, ctxDone, lately, awaited>>
    BY <1>15 DEF Promo
  <2>5. TypeOK'
    BY <1>15, <2>2, <2>3, <2>4, PromoGrows DEF Recorded, Shape, TypeOK, HealthTypes
  <2>6. Reading'
    BY <2>4 DEF Shape, Reading
  <2>7. QED
    BY <2>5, <2>6 DEF Shape
<1>16. CASE Exit \/ Crash
  <2>1. ProcessGone /\ (Fault \/ NoFault)
    BY <1>16 DEF Exit, Crash
  <2>2. TypeOK'
    <3>1. todo' \in Seq(1..Len(chat)) /\ seen' \in Seq(1..Len(chat)) /\ Len(seen') <= SeenLimit
      BY <2>1, YouTubeChatAssumption DEF ProcessGone
    <3>2. token' \in 0..(Len(chat') + 1) /\ Len(chat) \in Nat
      BY <2>1 DEF ProcessGone, Shape, TypeOK
    <3>3. faults' \in 0..MaxFaults /\ UNCHANGED <<minutes, halfHours, stops>>
      BY <2>1, FailureTypes DEF Shape
    <3>4. health' \in [detail : {"starting", "waiting", "connected", "offline", "stopped"},
                       failed : BOOLEAN]
      BY <2>1 DEF ProcessGone
    <3>5. /\ baseline' \in BOOLEAN /\ due' \in BOOLEAN /\ ctxDone' \in BOOLEAN
          /\ sent' = {} /\ cooling' = {} /\ lately' = 0 /\ pc' = "down"
          /\ UNCHANGED <<live, detected, chat, file, promos, recent, awaited>>
      BY <2>1 DEF ProcessGone
    <3>6. QED
      BY <3>1, <3>2, <3>3, <3>4, <3>5 DEF Shape, TypeOK
  <2>3. Reading'
    BY <2>1 DEF ProcessGone, Reading, Consecutive
  <2>4. QED
    BY <2>2, <2>3 DEF Shape
<1>17. CASE Restart
  BY <1>17 DEF Restart, Shape, TypeOK, Reading
<1>18. QED
  BY <1>1, <1>2, <1>3, <1>4, <1>5, <1>6, <1>7, <1>8, <1>9, <1>10, <1>11, <1>12, <1>13,
     <1>14, <1>15, <1>16, <1>17
  DEF Next, Environment, Service

LEMMA ShapeInit == Init => Shape
<1> SUFFICES ASSUME Init PROVE Shape
  OBVIOUS
<1>1. /\ chat \in Seq(Message) /\ Len(chat) = 0
      /\ todo = <<>> /\ todo \in Seq(1..Len(chat))
      /\ seen \in Seq(1..Len(chat)) /\ Len(seen) <= SeenLimit
  BY YouTubeChatAssumption DEF Init
<1>2. file \in Games \cup {"unset", "torn"} /\ health \in HealthTypes
  BY DEF Init, HealthTypes
<1>3. faults \in 0..MaxFaults /\ minutes \in 0..MaxMinutes /\ halfHours \in 0..MaxHalfHours /\ stops \in 0..MaxStops
  BY YouTubeChatAssumption DEF Init
<1>4. /\ live \in BOOLEAN /\ baseline \in BOOLEAN /\ due \in BOOLEAN /\ ctxDone \in BOOLEAN
      /\ detected \in Games
  <2>1. live = TRUE /\ baseline = FALSE /\ due = FALSE /\ ctxDone = FALSE /\ detected \in Games
    BY DEF Init
  <2>2. QED
    BY <2>1
<1>5. TypeOK
  BY <1>1, <1>2, <1>3, <1>4 DEF Init, TypeOK, HealthTypes
<1>6. Reading
  BY <1>1 DEF Init, Reading, Consecutive
<1>7. QED
  BY <1>5, <1>6 DEF Shape

LEMMA ShapeAlways == Spec => []Shape
BY ShapeInit, ShapeNext, PTL DEF Spec

(* The chat, the page and what is remembered of it keep their types: what  *)
(* is on a page or in the list of the messages seen has been said.         *)
THEOREM TypesKept == Spec => []TypeOK
<1>1. Shape => TypeOK
  BY DEF Shape
<1>2. QED
  BY <1>1, ShapeAlways, PTL

(***************************************************************************)
(* Cooldowns, announcements, health.                                       *)
(***************************************************************************)
Cooled == RateLimited /\ (lately > 0 => "ask" \in cooling)

LEMMA CooledNext == Shape /\ Cooled /\ [Next]_vars => Cooled'
<1> SUFFICES ASSUME Shape, Cooled, [Next]_vars
             PROVE  Cooled'
  OBVIOUS
<1> lately \in Nat /\ cooling \subseteq {"ask"}
  BY DEF Shape, TypeOK
<1>1. CASE lately' = 0
  BY <1>1 DEF Cooled, RateLimited
<1>2. CASE lately' = lately /\ cooling \subseteq cooling'
  BY <1>2 DEF Cooled, RateLimited
<1>3. CASE HandleFails
  <2>1. lately' = lately /\ cooling \subseteq cooling'
    BY <1>3 DEF HandleFails
  <2>2. QED
    BY <1>2, <2>1
<1>4. CASE Answer
  <2>1. CASE ByOwner
    BY <1>2, <1>4, <2>1 DEF Answer
  <2>2. CASE ~ByOwner
    <3>1. Text = "ask" /\ "ask" \notin cooling
      BY <1>4, <2>2 DEF Answer, Refused, Command
    <3>2. lately = 0 /\ lately' = lately + 1 /\ "ask" \in cooling'
      BY <1>4, <2>2, <3>1 DEF Answer, Cooled
    <3>3. QED
      BY <3>2 DEF Cooled, RateLimited
  <2>3. QED
    BY <2>1, <2>2
<1>5. CASE UNCHANGED vars \/ Say \/ StreamEnds \/ TextExpires \/ Shutdown \/ LookupFails
             \/ NotLive \/ Detect
  <2>1. lately' = lately /\ cooling' = cooling
    BY <1>5 DEF vars, Say, StreamEnds, TextExpires, Shutdown, LookupFails, NotLive, Detect
  <2>2. QED
    BY <1>2, <2>1
<1>6. CASE DetectFails \/ WriteDetected \/ PollFails \/ PollOffline \/ Poll \/ SkipSeen \/ PassOver
  <2>1. lately' = lately /\ cooling' = cooling
    BY <1>6 DEF DetectFails, WriteDetected, EnterChat, PollFails, PollOffline, Poll, SkipSeen,
                PassOver
  <2>2. QED
    BY <1>2, <2>1
<1>7. CASE Ignore \/ SetGame \/ WriteGame \/ NoPromo \/ Promo \/ Stop \/ Restart
  <2>1. lately' = lately /\ cooling' = cooling
    BY <1>7 DEF Ignore, SetGame, WriteGame, NoPromo, Promo, Stop, Restart
  <2>2. QED
    BY <1>2, <2>1
<1>8. CASE CooldownPasses \/ HalfHourPasses \/ Exit \/ Crash
  <2>1. lately' = 0
    BY <1>8 DEF CooldownPasses, HalfHourPasses, Exit, Crash, ProcessGone
  <2>2. QED
    BY <1>1, <2>1
<1>9. QED
  BY <1>3, <1>4, <1>5, <1>6, <1>7, <1>8 DEF Next, Environment, Service

(* Viewers get one answer to a command per cooldown, whatever pages they   *)
(* are read on and whether the answer could be posted or not.              *)
THEOREM ViewersRateLimited == Spec => []RateLimited
<1>1. Init => Cooled
  BY DEF Init, Cooled, RateLimited
<1>2. Spec => []Cooled
  BY <1>1, ShapeAlways, CooledNext, PTL DEF Spec
<1>3. Cooled => RateLimited
  BY DEF Cooled
<1>4. QED
  BY <1>2, <1>3, PTL

(* The bot may announce again without a fault, a stop or half an hour.     *)
MayAnnounce ==
    \/ ctxDone
    \/ pc = "detecting"
    \/ Connected /\ due
    \/ ~Connected /\ live

(* Then one of the announcements that are allowed is left.                 *)
Announced == PromosSpaced /\ (MayAnnounce => promos <= halfHours + faults + stops)

LEMMA AnnouncedNext == Shape /\ Announced /\ [Next]_vars => Announced'
<1> SUFFICES ASSUME Shape, Announced, [Next]_vars
             PROVE  Announced'
  OBVIOUS
<1> /\ promos \in Nat /\ halfHours \in Nat /\ faults \in Nat /\ stops \in Nat
  BY YouTubeChatAssumption DEF Shape, TypeOK
<1> USE DEF Announced, PromosSpaced, MayAnnounce, Connected
<1>1. CASE UNCHANGED promos /\ bounds' = bounds /\ (MayAnnounce' => MayAnnounce)
  BY <1>1
<1>2. CASE UNCHANGED promos /\ Fault
  BY <1>2 DEF Fault
<1>3. CASE Promo
  <2>1. /\ promos <= halfHours + faults + stops
        /\ ~MayAnnounce'
        /\ promos' = promos + 1 \/ promos' = promos
    BY <1>3 DEF Promo, Announce
  <2>2. Fault \/ NoFault
    BY <1>3 DEF Promo, Announce, Post, Refuse
  <2>3. QED
    BY <2>1, <2>2 DEF Fault, NoFault
<1>4. CASE UNCHANGED vars \/ Say \/ StreamEnds \/ CooldownPasses
  BY <1>1, <1>4 DEF vars, Say, StreamEnds, CooldownPasses
<1>5. CASE TextExpires
  BY <1>5 DEF TextExpires
<1>6. CASE HalfHourPasses
  BY <1>6 DEF HalfHourPasses
<1>7. CASE Shutdown
  BY <1>7 DEF Shutdown
<1>8. CASE LookupFails \/ DetectFails \/ PollFails \/ HandleFails
  <2>1. UNCHANGED promos /\ (Fault \/ (NoFault /\ (MayAnnounce' => MayAnnounce)))
    <3>1. CASE LookupFails
      BY <3>1 DEF LookupFails
    <3>2. CASE DetectFails
      BY <3>2 DEF DetectFails, EnterChat
    <3>3. CASE PollFails
      BY <3>3 DEF PollFails
    <3>4. CASE HandleFails
      BY <3>4 DEF HandleFails, New, Remember, Handled, PageHandled
    <3>5. QED
      BY <1>8, <3>1, <3>2, <3>3, <3>4
  <2>2. QED
    BY <1>1, <1>2, <2>1 DEF NoFault
<1>9. CASE WriteDetected
  BY <1>1, <1>2, <1>9 DEF WriteDetected, EnterChat, NoFault
<1>10. CASE Poll
  <2>1. UNCHANGED promos /\ (Fault \/ (NoFault /\ (MayAnnounce' => MayAnnounce)))
    BY <1>10 DEF Poll, PageHandled
  <2>2. QED
    BY <1>1, <1>2, <2>1 DEF NoFault
<1>11. CASE SkipSeen \/ PassOver \/ Ignore \/ SetGame
  BY <1>1, <1>11
  DEF SkipSeen, PassOver, Ignore, SetGame, New, Remember, Handled, PageHandled
<1>12. CASE Answer \/ WriteGame
  <2>1. /\ UNCHANGED <<live, promos, due, ctxDone>>
        /\ pc \in {"handling", "setting"} /\ pc' \in {"handling", "promo"}
        /\ Fault \/ NoFault
    BY <1>12 DEF Answer, WriteGame, New, Remember, Handled, PageHandled, Reply, Post, Refuse
  <2>2. QED
    BY <1>1, <1>2, <2>1 DEF NoFault
<1>13. CASE NotLive \/ Detect \/ PollOffline \/ NoPromo
  BY <1>1, <1>13 DEF NotLive, Detect, PollOffline, NoPromo
<1>14. CASE Stop \/ Restart
  BY <1>1, <1>14 DEF Stop, Restart
<1>15. CASE Exit
  BY <1>15 DEF Exit, ProcessGone, NoFault
<1>16. CASE Crash
  BY <1>2, <1>16 DEF Crash, ProcessGone
<1>17. QED
  BY <1>3, <1>4, <1>5, <1>6, <1>7, <1>8, <1>9, <1>10, <1>11, <1>12, <1>13, <1>14, <1>15, <1>16
  DEF Next, Environment, Service

(* One announcement at first and one per half hour, and one for each       *)
(* failure, crash or shutdown, after which the chat is entered again: the  *)
(* time of the next is only kept by a connection.                          *)
THEOREM OnePromoEach == Spec => []PromosSpaced
<1>1. Init => Announced
  BY DEF Init, Announced, PromosSpaced
<1>2. Spec => []Announced
  BY <1>1, ShapeAlways, AnnouncedNext, PTL DEF Spec
<1>3. Announced => PromosSpaced
  BY DEF Announced
<1>4. QED
  BY <1>2, <1>3, PTL

LEMMA HonestNext == Shape /\ HealthHonest /\ [Next]_vars => HealthHonest'
<1> SUFFICES ASSUME Shape, HealthHonest, [Next]_vars
             PROVE  HealthHonest'
  OBVIOUS
<1> health \in HealthTypes
  BY DEF Shape, TypeOK, HealthTypes
<1>1. CASE health'.failed
  BY <1>1 DEF HealthHonest
<1>2. CASE health'.detail # "connected"
  BY <1>2 DEF HealthHonest
<1>3. CASE ctxDone' \/ pc' \in {"polling", "handling", "setting", "promo"}
  BY <1>3 DEF HealthHonest, Connected
<1>4. CASE health' = health /\ ctxDone' = ctxDone /\ ~Connected
  BY <1>4 DEF HealthHonest
<1>5. CASE UNCHANGED vars \/ Say \/ StreamEnds \/ CooldownPasses \/ TextExpires \/ HalfHourPasses
  <2>1. health' = health /\ ctxDone' = ctxDone /\ pc' = pc
    BY <1>5 DEF vars, Say, StreamEnds, CooldownPasses, TextExpires, HalfHourPasses
  <2>2. QED
    BY <2>1 DEF HealthHonest, Connected
<1>6. CASE Shutdown
  BY <1>3, <1>6 DEF Shutdown
<1>7. CASE LookupFails
  BY <1>1, <1>7, FailureTypes DEF LookupFails, Shape
<1>8. CASE NotLive \/ Stop
  <2>1. health' = [health EXCEPT !.detail = "waiting"] \/ health' = [health EXCEPT !.detail = "stopped"]
    BY <1>8 DEF NotLive, Stop
  <2>2. health'.detail # "connected"
    BY <2>1 DEF HealthTypes
  <2>3. QED
    BY <1>2, <2>2
<1>9. CASE Detect \/ Restart
  BY <1>4, <1>9 DEF Detect, Restart, Connected
<1>10. CASE DetectFails \/ WriteDetected \/ Poll \/ SetGame \/ NoPromo \/ Promo
  BY <1>3, <1>10 DEF DetectFails, WriteDetected, EnterChat, Poll, PageHandled, SetGame, NoPromo, Promo
<1>11. CASE PollFails
  <2>1. CASE Fault /\ Failed
    BY <1>1, <2>1, FailureTypes DEF Shape
  <2>2. CASE ctxDone /\ NoFault /\ UNCHANGED health
    BY <1>3, <1>11, <2>2 DEF PollFails
  <2>3. QED
    BY <1>11, <2>1, <2>2 DEF PollFails
<1>12. CASE PollOffline
  BY <1>2, <1>12 DEF PollOffline
<1>13. CASE SkipSeen \/ PassOver \/ Ignore \/ HandleFails \/ Answer \/ WriteGame
  <2>1. Handled
    BY <1>13 DEF SkipSeen, PassOver, Ignore, HandleFails, Answer, WriteGame
  <2>2. QED
    BY <1>3, <2>1 DEF Handled, PageHandled
<1>14. CASE Exit \/ Crash
  BY <1>2, <1>14 DEF Exit, Crash, ProcessGone
<1>15. QED
  BY <1>5, <1>6, <1>7, <1>8, <1>9, <1>10, <1>11, <1>12, <1>13, <1>14
  DEF Next, Environment, Service

(* A service whose health says "connected" and no error reads a chat, or   *)
(* is shutting down.                                                       *)
THEOREM HealthIsHonest == Spec => []HealthHonest
<1>1. Init => HealthHonest
  BY DEF Init, HealthHonest
<1>2. QED
  BY <1>1, ShapeAlways, HonestNext, PTL DEF Spec

(***************************************************************************)
(* What is remembered, and what the next page can hold.                    *)
(***************************************************************************)
Known == Range(seen) \cup Range(todo)

(* What is still to be handled is remembered already, or later than all    *)
(* that is.                                                                *)
InOrder == \A k \in Range(todo) : k \in Range(seen) \/ Before(Range(seen), k)

(* Of what has been read only what lies a page behind is forgotten.        *)
NoGap ==
    \A k \in 1..Len(chat) :
        k \in Known \/ Before(Known, k) \/ \E j \in Known : k + PageSize <= j

(* A page that is read with a token begins less than a page behind what is *)
(* remembered, and leaves nothing out.                                     *)
TokenFits ==
    /\ token > 0 => \A j \in Known : j < token + PageSize
    /\ token > 1 => \E j \in Known : token <= j + 1

Order == Rising(seen) /\ InOrder /\ NoGap /\ TokenFits

LEMMA KnownTypes ==
    ASSUME TypeOK
    PROVE  /\ Known \subseteq 1..Len(chat) /\ Len(chat) \in Nat
           /\ token \in Nat /\ token <= Len(chat) + 1
           /\ PageSize \in Nat \ {0}
           /\ Range(seen) \subseteq Known /\ Range(todo) \subseteq Known
<1>1. seen \in Seq(1..Len(chat)) /\ todo \in Seq(1..Len(chat)) /\ Len(chat) \in Nat
  BY DEF TypeOK
<1>2. /\ \A k \in Range(seen) : k \in 1..Len(chat)
      /\ \A k \in Range(todo) : k \in 1..Len(chat)
  BY <1>1, RangeOfList
<1>3. QED
  BY <1>1, <1>2, YouTubeChatAssumption DEF Known, TypeOK

LEMMA NothingListed == Range(<<>>) = {}
BY DEF Range

(* Messages are only forgotten for one that is a page later.               *)
LEMMA KnownKept ==
    ASSUME TypeOK, TypeOK', NoGap, TokenFits,
           Len(chat) <= Len(chat'), token' \in {0, token},
           \A k \in Known' : k \in Known,
           \A k \in Known : k \in Known' \/ \E m \in Known' : k + PageSize <= m
    PROVE  NoGap' /\ TokenFits'
<1>1. /\ \A k \in Known : k \in Nat /\ k <= Len(chat)
      /\ Len(chat) \in Nat /\ Len(chat') \in Nat /\ token \in Nat /\ PageSize \in Nat
      /\ \A k \in Known' : k \in Nat
  <2>1. \A k \in Known : k \in 1..Len(chat)
    BY KnownTypes
  <2>2. Len(chat) \in Nat /\ Len(chat') \in Nat /\ token \in Nat /\ PageSize \in Nat
    <3>1. chat \in Seq(Message) /\ chat' \in Seq(Message)
      BY DEF TypeOK
    <3>2. QED
      BY <3>1, KnownTypes
  <2>3. QED
    BY <2>1, <2>2
<1>2. ASSUME NEW k \in 1..Len(chat')
      PROVE  k \in Known' \/ (\A j \in Known' : j < k) \/ \E j \in Known' : k + PageSize <= j
  <2>1. CASE k > Len(chat)
    BY <1>1, <2>1
  <2>2. CASE k \in 1..Len(chat) /\ k \in Known
    BY <2>2
  <2>3. CASE k \in 1..Len(chat) /\ Before(Known, k)
    BY <2>3 DEF Before
  <2>4. ASSUME NEW j \in Known, k + PageSize <= j
        PROVE  \E m \in Known' : k + PageSize <= m
    <3>1. CASE j \in Known'
      BY <2>4, <3>1
    <3>2. ASSUME NEW m \in Known', j + PageSize <= m
          PROVE  k + PageSize <= m
      BY <1>1, <2>4, <3>2
    <3>3. QED
      BY <2>4, <3>1, <3>2
  <2>5. k \in 1..Len(chat) \/ k > Len(chat)
    BY <1>1
  <2>6. QED
    BY <2>1, <2>2, <2>3, <2>4, <2>5 DEF NoGap
<1>3. NoGap'
  BY <1>2 DEF NoGap, Before
<1>4. ASSUME token' > 1
      PROVE  \E j \in Known' : token' <= j + 1
  <2>1. token' = token /\ token > 1
    BY <1>1, <1>4
  <2>2. PICK j \in Known : token <= j + 1
    BY <2>1 DEF TokenFits
  <2>3. CASE j \in Known'
    BY <2>1, <2>2, <2>3
  <2>4. ASSUME NEW m \in Known', j + PageSize <= m
        PROVE  token' <= m + 1
    BY <1>1, <2>1, <2>2, <2>4
  <2>5. QED
    BY <2>3, <2>4
<1>5. TokenFits'
  BY <1>1, <1>4 DEF TokenFits
<1>6. QED
  BY <1>3, <1>5

(* A page is read: it goes on where the last one ended, repeats it, or     *)
(* begins with the latest messages, in another connection.                 *)
LEMMA PollOrder ==
    ASSUME Shape, Shape', Order, Poll
    PROVE  /\ Order'
           /\ token = 0 /\ chat # <<>> => Len(chat) \in Range(todo')
<1> TypeOK /\ TypeOK' /\ Rising(seen) /\ NoGap /\ TokenFits
  BY DEF Shape, Order
<1>1. /\ todo = <<>> /\ Known = Range(seen)
      /\ seen' = seen /\ chat' = chat
      /\ token' = Last + 1 \/ token' = token
  BY NothingListed DEF Poll, Shape, Reading, Known
<1> PICK n \in Nat : n = Len(chat)
  BY KnownTypes
<1>2. PICK first \in 1..(n + 1), last \in 0..n :
          /\ n = Len(chat) /\ first = First /\ last = Last
          /\ first <= last + 1 /\ last < first + PageSize
          /\ token > 0 => first = token
          /\ token = 0 => last = n /\ \A k \in Nat : k < first /\ k > 0 => k + PageSize <= last
  BY PageIsInterval, KnownTypes
<1>3. Range(todo') = first..last /\ Known' = Range(seen) \cup (first..last)
  BY <1>1, <1>2, PageIsInterval DEF Poll, Known
<1>4. /\ \A j \in Range(seen) : j \in 1..n
      /\ token \in Nat /\ PageSize \in Nat \ {0}
  BY <1>1, <1>2, KnownTypes
<1>5. /\ token > 0 => \A j \in Range(seen) : j < token + PageSize
      /\ token > 1 => \E j \in Range(seen) : token <= j + 1
  BY <1>1 DEF TokenFits
<1>6. \A j \in Range(seen) : j < first + PageSize
  BY <1>2, <1>4, <1>5
<1>7. ASSUME token = 0, n > 0
      PROVE  first <= last /\ last = n
  <2>1. CASE first = 1
    BY <1>2, <1>7, <2>1
  <2>2. CASE first > 1
    <3>1. first - 1 \in Nat /\ first - 1 < first /\ first - 1 > 0
      BY <2>2
    <3>2. (first - 1) + PageSize <= last
      BY <1>2, <1>7, <3>1
    <3>3. QED
      BY <1>2, <1>4, <1>7, <3>2
  <2>3. QED
    BY <2>1, <2>2
<1>8. InOrder'
  <2>1. ASSUME NEW k \in first..last
        PROVE  k \in Range(seen) \/ \A j \in Range(seen) : j < k
    <3>1. k \in 1..Len(chat)
      BY <1>2
    <3>2. k \in Range(seen) \/ (\A j \in Range(seen) : j < k)
             \/ \E j \in Range(seen) : k + PageSize <= j
      BY <1>1, <3>1 DEF NoGap, Before
    <3>3. ~ \E j \in Range(seen) : k + PageSize <= j
      BY <1>4, <1>6
    <3>4. QED
      BY <3>2, <3>3
  <2>2. QED
    BY <1>1, <1>3, <2>1 DEF InOrder, Before
<1>9. NoGap'
  <2>1. ASSUME NEW k \in 1..n
        PROVE  k \in Known' \/ (\A j \in Known' : j < k) \/ \E j \in Known' : k + PageSize <= j
    <3>1. CASE k \in Range(seen) \/ k \in first..last \/ \E j \in Range(seen) : k + PageSize <= j
      BY <1>3, <3>1
    <3>2. CASE (\A j \in Range(seen) : j < k) /\ k > last
      BY <1>3, <3>2
    <3>3. CASE k < first /\ token = 0
      <4>1. k + PageSize <= last /\ n > 0
        BY <1>2, <3>3
      <4>2. last \in first..last
        BY <1>7, <3>3, <4>1
      <4>3. QED
        BY <1>3, <4>1, <4>2
    <3>4. CASE (\A j \in Range(seen) : j < k) /\ k < first /\ token > 0
      <4>1. PICK j \in Range(seen) : token <= j + 1
        BY <1>2, <1>4, <1>5, <3>4
      <4>2. j < k /\ k < token /\ j \in Nat
        BY <1>2, <1>4, <3>4
      <4>3. QED
        BY <1>4, <4>1, <4>2
    <3>5. k \in Range(seen) \/ (\A j \in Range(seen) : j < k)
             \/ \E j \in Range(seen) : k + PageSize <= j
      BY <1>1, <1>2 DEF NoGap, Before
    <3>6. k \in first..last \/ k > last \/ (k < first /\ (token = 0 \/ token > 0))
      BY <1>4
    <3>7. QED
      BY <3>1, <3>2, <3>3, <3>4, <3>5, <3>6
  <2>2. QED
    BY <1>1, <1>2, <2>1 DEF NoGap, Before
<1>10. TokenFits'
  <2>1. CASE token' = last + 1
    <3>1. \A j \in Known' : j < token' + PageSize
      BY <1>2, <1>3, <1>4, <1>5, <2>1
    <3>2. ASSUME token' > 1
          PROVE  \E j \in Known' : token' <= j + 1
      <4>1. CASE first <= last
        <5>1. last \in first..last
          BY <4>1
        <5>2. last \in Known' /\ token' <= last + 1
          BY <1>3, <2>1, <5>1
        <5>3. QED
          BY <5>2
      <4>2. CASE first = last + 1
        <5>1. token > 1 /\ token' = token
          BY <1>2, <1>4, <1>7, <2>1, <3>2, <4>2
        <5>2. QED
          BY <1>3, <1>5, <5>1
      <4>3. QED
        BY <1>2, <4>1, <4>2
    <3>3. QED
      BY <3>1, <3>2 DEF TokenFits
  <2>2. CASE token' = token
    <3>1. token > 0 => \A j \in Known' : j < token + PageSize
      BY <1>2, <1>3, <1>4, <1>5
    <3>2. token > 1 => \E j \in Known' : token <= j + 1
      BY <1>3, <1>5
    <3>3. QED
      BY <2>2, <3>1, <3>2 DEF TokenFits
  <2>3. QED
    BY <1>1, <1>2, <2>1, <2>2
<1>11. ASSUME token = 0, chat # <<>>
       PROVE  Len(chat) \in Range(todo')
  <2>1. n > 0
    BY <1>2, <1>11 DEF TypeOK
  <2>2. n \in first..last
    BY <1>2, <1>7, <1>11, <2>1
  <2>3. QED
    BY <1>2, <1>3, <2>2
<1>12. QED
  BY <1>1, <1>8, <1>9, <1>10, <1>11 DEF Order

(* A message is handled, or the owner's game is about to be set for it.    *)
Onward ==
    /\ Shape /\ Page1
    /\ \/ Handled
       \/ todo' = todo /\ pc' = "setting" /\ ~baseline /\ ~baseline'

(* The message that is handled is remembered from now on, if it was not.   *)
Remembered == IF Message1 \in Range(seen) THEN UNCHANGED seen
              ELSE seen' = Keep(Append(seen, Message1))

LEMMA OnwardKnown ==
    ASSUME Onward, Rising(seen), InOrder, Remembered
    PROVE  /\ Message1 \in Nat /\ \A k \in Known : k \in Nat
           /\ Rising(seen') /\ Message1 \in Range(seen')
           /\ \A k \in Range(seen') : k \in Range(seen) \/ k = Message1
           /\ \A k \in Range(seen) : k \in Range(seen') \/ k + PageSize <= Message1
           /\ \A k \in Range(todo) : k = Message1 \/ k \in Range(todo')
           /\ \A k \in Range(todo') : k \in Range(todo) /\ Message1 <= k
           /\ Message1 \in Range(todo)
           /\ Message1 \in Range(seen) \/ Before(Range(seen), Message1)
<1> PICK n \in Nat : n = Len(chat)
  BY KnownTypes DEF Onward, Shape
<1>1. /\ todo \in Seq(1..n) /\ todo # <<>> /\ Consecutive(todo)
      /\ seen \in Seq(1..n) /\ Len(seen) <= SeenLimit
  BY DEF Onward, Shape, TypeOK, Reading, Page1
<1>2. PICK m \in 1..n : m = Message1
  BY MessageTypes DEF Onward
<1>3. /\ m \in Range(todo)
      /\ \A k \in Range(todo) : k = m \/ k \in Range(Tail(todo))
      /\ \A k \in Range(Tail(todo)) : k \in Range(todo) /\ m < k
  BY <1>1, <1>2, RestOfPage DEF Message1
<1>4. \A k \in Known : k \in Nat
  BY KnownTypes DEF Onward, Shape
<1>5. \A k \in Range(todo) : m <= k /\ k \in Nat
  BY <1>3, <1>4, KnownTypes DEF Onward, Shape
<1>6. /\ \A k \in Range(todo) : k = m \/ k \in Range(todo')
      /\ \A k \in Range(todo') : k \in Range(todo) /\ m <= k
  BY <1>3, <1>5 DEF Onward, Handled
<1>7. m \in Range(seen) \/ Before(Range(seen), m)
  BY <1>3 DEF InOrder
<1>8. CASE m \in Range(seen)
  BY <1>2, <1>3, <1>4, <1>6, <1>8 DEF Remembered
<1>9. CASE m \notin Range(seen)
  <2>1. seen' = Keep(Append(seen, m))
    BY <1>2, <1>9 DEF Remembered
  <2>2. /\ Rising(seen') /\ m \in Range(seen')
        /\ \A k \in Range(seen') : k \in Range(seen) \/ k = m
        /\ \A k \in Range(seen) : k \in Range(seen') \/ k + PageSize <= m
    BY <1>1, <1>7, <1>9, <2>1, KeepsRising
  <2>3. QED
    BY <1>2, <1>3, <1>4, <1>6, <1>7, <2>2
<1>10. QED
  BY <1>8, <1>9

LEMMA OnwardOrder ==
    ASSUME Onward, Shape', Order, Remembered, UNCHANGED token, Len(chat) <= Len(chat')
    PROVE  Order'
<1> /\ TypeOK /\ TypeOK' /\ Shape
    /\ Rising(seen) /\ InOrder /\ NoGap /\ TokenFits
  BY DEF Onward, Shape, Order
<1>1. PICK m \in Nat : m = Message1
  BY OnwardKnown
<1>2. /\ \A k \in Range(seen') : k \in Range(seen) \/ k = m
      /\ \A k \in Range(seen) : k \in Range(seen') \/ k + PageSize <= m
      /\ \A k \in Range(todo) : k = m \/ k \in Range(todo')
      /\ \A k \in Range(todo') : k \in Range(todo) /\ m <= k
      /\ m \in Range(todo) /\ m \in Range(seen')
      /\ m \in Range(seen) \/ Before(Range(seen), m)
      /\ Rising(seen')
  BY <1>1, OnwardKnown
<1>3. /\ \A k \in Known : k \in Nat
      /\ PageSize \in Nat
  BY OnwardKnown, YouTubeChatAssumption
<1>4. \A k \in Known' : k \in Known
  BY <1>2 DEF Known
<1>5. \A k \in Known : k \in Known' \/ \E j \in Known' : k + PageSize <= j
  BY <1>2 DEF Known
<1>6. NoGap' /\ TokenFits'
  <2>1. token' \in {0, token}
    OBVIOUS
  <2>2. QED
    BY <1>4, <1>5, <2>1, KnownKept
<1>7. ASSUME NEW k \in Range(todo')
      PROVE  k \in Range(seen') \/ \A j \in Range(seen') : j < k
  <2>1. k \in Range(todo) /\ m <= k /\ k \in Nat
    BY <1>2, <1>3 DEF Known
  <2>2. CASE k = m
    BY <1>2, <2>2
  <2>3. CASE m < k /\ \A j \in Range(seen) : j < k
    BY <1>2, <2>3
  <2>4. CASE m < k /\ k \in Range(seen)
    <3>1. m \in Range(seen)
      <4>1. ~Before(Range(seen), m)
        BY <2>1, <2>4 DEF Before
      <4>2. QED
        BY <1>2, <4>1
    <3>2. UNCHANGED seen
      BY <1>1, <3>1 DEF Remembered
    <3>3. QED
      BY <2>4, <3>2
  <2>5. QED
    BY <2>1, <2>2, <2>3, <2>4 DEF InOrder, Before
<1>8. InOrder'
  BY <1>7 DEF InOrder, Before
<1>9. QED
  BY <1>2, <1>6, <1>8 DEF Order

(* Nothing is read, and nothing that is on the page is dropped.            *)
LEMMA StillOrder ==
    ASSUME Shape, Shape', Order, UNCHANGED <<seen, todo>>, token' \in {0, token},
           Len(chat) <= Len(chat')
    PROVE  Order'
<1> TypeOK /\ TypeOK' /\ Rising(seen) /\ InOrder /\ NoGap /\ TokenFits
  BY DEF Shape, Order
<1>1. Known' = Known
  BY DEF Known
<1>2. NoGap' /\ TokenFits'
  BY <1>1, KnownKept
<1>3. Rising(seen') /\ InOrder'
  BY DEF InOrder
<1>4. QED
  BY <1>2, <1>3 DEF Order

(* Nothing is remembered when the process has gone.                        *)
LEMMA GoneOrder ==
    ASSUME ProcessGone
    PROVE  Order'
<1>1. seen' = <<>> /\ todo' = <<>> /\ token' = 0
  BY DEF ProcessGone
<1>2. Known' = {}
  BY <1>1, NothingListed DEF Known
<1>3. Rising(seen')
  BY <1>1 DEF Rising
<1>4. QED
  BY <1>1, <1>2, <1>3, NothingListed DEF Order, InOrder, NoGap, TokenFits, Before

(* Which steps handle a message.                                           *)
Handles == SkipSeen \/ PassOver \/ Ignore \/ HandleFails \/ Answer \/ SetGame \/ WriteGame

LEMMA HandlesOnward ==
    ASSUME Shape, Handles
    PROVE  /\ Onward /\ Remembered /\ UNCHANGED token
           /\ pc' \in {"handling", "promo", "setting"}
           /\ pc' = "setting" <=> SetGame
<1>1. CASE SkipSeen
  <2>1. Handled /\ Page1 /\ UNCHANGED <<seen, token>> /\ Message1 \in Range(seen)
    BY <1>1 DEF SkipSeen, Page1
  <2>2. pc' \in {"handling", "promo"}
    BY <2>1 DEF Handled, PageHandled
  <2>3. QED
    BY <2>1, <2>2 DEF Onward, Remembered, SetGame
<1>2. CASE PassOver \/ Ignore \/ HandleFails \/ Answer
  <2>1. Handled /\ Remember /\ Page1 /\ UNCHANGED token
    BY <1>2 DEF PassOver, Ignore, HandleFails, Answer, New, Remember, Page1
  <2>2. pc' \in {"handling", "promo"}
    BY <2>1 DEF Handled, PageHandled
  <2>3. QED
    BY <2>1, <2>2 DEF Onward, Remembered, Remember, SetGame
<1>3. CASE SetGame
  BY <1>3 DEF SetGame, New, Remember, Page1, Onward, Remembered
<1>4. CASE WriteGame
  <2>1. Handled /\ Page1 /\ UNCHANGED <<seen, token>> /\ Message1 \in Range(seen)
    BY <1>4 DEF WriteGame, Page1, Shape, Reading
  <2>2. pc' \in {"handling", "promo"}
    BY <2>1 DEF Handled, PageHandled
  <2>3. QED
    BY <2>1, <2>2 DEF Onward, Remembered, SetGame
<1>5. QED
  BY <1>1, <1>2, <1>3, <1>4 DEF Handles

(* The steps of the reader that neither read a page nor handle a message.  *)
Aside == /\ UNCHANGED <<seen, todo>> /\ token' \in {0, token}
         /\ \/ UNCHANGED <<baseline, pc>>
            \/ EnterChat
            \/ pc = "promo" /\ pc' = "polling" /\ UNCHANGED baseline
            \/ pc' \in {"looking", "detecting", "stopped"}

LEMMA StepKinds ==
    ASSUME Shape, [Next]_vars
    PROVE  Aside \/ Poll \/ Handles \/ ProcessGone
<1>1. CASE UNCHANGED vars \/ Say \/ StreamEnds \/ CooldownPasses \/ TextExpires \/ HalfHourPasses
             \/ Shutdown \/ LookupFails \/ NotLive
  BY <1>1
  DEF vars, Say, StreamEnds, CooldownPasses, TextExpires, HalfHourPasses, Shutdown, LookupFails,
      NotLive, Aside
<1>2. CASE DetectFails \/ WriteDetected
  <2>1. EnterChat /\ pc \in {"looking", "detecting"}
    BY <1>2 DEF DetectFails, WriteDetected
  <2>2. todo = <<>>
    BY <2>1 DEF Shape, Reading
  <2>3. token' = 0 /\ UNCHANGED <<seen, todo>>
    BY <2>1, <2>2 DEF EnterChat
  <2>4. QED
    BY <2>1, <2>3 DEF Aside
<1>3. CASE Detect \/ PollFails \/ PollOffline \/ NoPromo \/ Promo \/ Stop \/ Restart
  BY <1>3 DEF Detect, PollFails, PollOffline, NoPromo, Promo, Stop, Restart, Aside
<1>4. CASE Exit \/ Crash
  BY <1>4 DEF Exit, Crash
<1>5. QED
  BY <1>1, <1>2, <1>3, <1>4 DEF Next, Environment, Service, Handles

(* The message that a step may answer, 0 if it answers none.               *)
Answering == IF Answer \/ WriteGame THEN Message1 ELSE 0

LEMMA StepGrows ==
    ASSUME Shape, [Next]_vars
    PROVE  /\ ChatGrows(Answering) /\ Recorded
           /\ sent \subseteq sent' \/ TextExpires \/ HalfHourPasses \/ ProcessGone
<1> TypeOK
  BY DEF Shape
<1>1. CASE UNCHANGED vars \/ StreamEnds \/ CooldownPasses \/ TextExpires \/ HalfHourPasses
             \/ Shutdown \/ LookupFails \/ NotLive
  <2>1. UNCHANGED chat
    BY <1>1
    DEF vars, StreamEnds, CooldownPasses, TextExpires, HalfHourPasses, Shutdown, LookupFails, NotLive
  <2>2. sent' = sent \/ TextExpires \/ HalfHourPasses
    BY <1>1 DEF vars, StreamEnds, CooldownPasses, Shutdown, LookupFails, NotLive
  <2>3. recent' \subseteq recent
    BY <1>1
    DEF vars, StreamEnds, CooldownPasses, TextExpires, HalfHourPasses, Shutdown, LookupFails, NotLive
  <2>4. QED
    BY <2>1, <2>2, <2>3, SameChat
<1>2. CASE DetectFails \/ WriteDetected \/ Detect \/ PollFails \/ PollOffline \/ Poll \/ NoPromo
             \/ Stop \/ Restart
  <2>1. UNCHANGED <<chat, sent, recent>>
    BY <1>2
    DEF DetectFails, WriteDetected, EnterChat, Detect, PollFails, PollOffline, Poll, NoPromo, Stop,
        Restart
  <2>2. QED
    BY <2>1, SameChat
<1>3. CASE SkipSeen \/ PassOver \/ Ignore \/ HandleFails \/ SetGame
  <2>1. UNCHANGED <<chat, sent, recent>>
    BY <1>3 DEF SkipSeen, PassOver, Ignore, HandleFails, SetGame
  <2>2. QED
    BY <2>1, SameChat
<1>4. CASE Exit \/ Crash
  <2>1. ProcessGone /\ UNCHANGED <<chat, recent>>
    BY <1>4 DEF Exit, Crash, ProcessGone
  <2>2. QED
    BY <2>1, SameChat
<1>5. CASE Say
  <2>1. sent' = sent /\ recent' = recent /\ ChatGrows(0)
        /\ Len(chat) \in Nat /\ Len(chat') = Len(chat) + 1
    BY <1>5, SayGrows DEF Say
  <2>2. ChatGrows(Answering) /\ Recorded
    BY <2>1 DEF ChatGrows, Recorded, TypeOK
  <2>3. QED
    BY <2>1, <2>2
<1>6. CASE Promo
  <2>1. ~(Answer \/ WriteGame)
    BY <1>6 DEF Promo, Answer, WriteGame, New, Remember
  <2>2. QED
    BY <1>6, <2>1, PromoGrows DEF Answering
<1>7. CASE Answer
  <2>1. Page1 /\ Reply
    BY <1>7 DEF Answer, New, Remember, Page1
  <2>2. QED
    BY <1>7, <2>1, ReplyGrows DEF Answering
<1>8. CASE WriteGame
  <2>1. Page1 /\ (Reply \/ UNCHANGED <<chat, sent, recent>>)
    BY <1>8 DEF WriteGame, Page1
  <2>2. QED
    BY <1>8, <2>1, ReplyGrows, SameChat DEF Answering
<1>9. QED
  BY <1>1, <1>2, <1>3, <1>4, <1>5, <1>6, <1>7, <1>8 DEF Next, Environment, Service

LEMMA OrderNext ==
    ASSUME Shape, Shape', Order, [Next]_vars
    PROVE  Order'
<1>1. Len(chat) <= Len(chat')
  BY StepGrows DEF ChatGrows
<1>2. CASE Aside
  BY <1>1, <1>2, StillOrder DEF Aside
<1>3. CASE Poll
  BY <1>3, PollOrder
<1>4. CASE Handles
  BY <1>1, <1>4, HandlesOnward, OnwardOrder
<1>5. CASE ProcessGone
  BY <1>5, GoneOrder
<1>6. QED
  BY <1>2, <1>3, <1>4, <1>5, StepKinds

(***************************************************************************)
(* No message is answered twice.                                           *)
(***************************************************************************)
(* Message i will not be answered any more in this connection: the first   *)
(* page is only remembered, and the pages after it only go on.             *)
Passed(i) ==
    \/ ~Connected
    \/ baseline /\ (pc = "polling" \/ \E j \in Known : i <= j)
    \/ ~baseline /\ ((todo # <<>> /\ i < Message1) \/ \E j \in Range(seen) : i <= j)

Unanswered(i) == chat[i].answers = 0 /\ i \notin recent

Answers ==
    /\ \A i \in 1..Len(chat) :
           /\ chat[i].answers \in {0, 1}
           /\ chat[i].answers = 1 => Passed(i)
           /\ i \in recent => chat[i].answers = 0 /\ (chat[i].text \in sent \/ Passed(i))
    /\ pc = "setting" => Unanswered(Message1)

Inv == Shape /\ Order /\ Answers

LEMMA PassedOnward ==
    ASSUME Shape', Order, Onward, Remembered, NEW i \in 1..Len(chat), Passed(i)
    PROVE  Passed(i)'
<1> Shape /\ Page1 /\ InOrder /\ Rising(seen)
  BY DEF Onward, Order
<1>1. PICK m \in Nat : m = Message1
  BY OnwardKnown
<1>2. /\ \A k \in Known : k \in Nat
      /\ m \in Range(seen') /\ PageSize \in Nat
      /\ \A k \in Range(seen) : k \in Range(seen') \/ k + PageSize <= m
      /\ \A k \in Range(todo) : k = m \/ k \in Range(todo')
  BY <1>1, OnwardKnown, YouTubeChatAssumption
<1>3. ASSUME NEW j \in Range(seen), i <= j
      PROVE  \E k \in Range(seen') : i <= k
  <2>1. j \in Range(seen') \/ j + PageSize <= m
    BY <1>2
  <2>2. j \in Nat
    BY <1>2 DEF Known
  <2>3. QED
    BY <1>2, <1>3, <2>1, <2>2
<1>4. ASSUME NEW j \in Range(todo), i <= j
      PROVE  (\E k \in Range(seen') : i <= k) \/ \E k \in Range(todo') : i <= k
  BY <1>2, <1>4
<1>5. ASSUME ~baseline
      PROVE  \E k \in Range(seen') : i <= k
  <2>1. i < m \/ \E j \in Range(seen) : i <= j
    BY <1>1, <1>5 DEF Passed, Connected, Page1
  <2>2. CASE i < m
    BY <1>2, <2>2
  <2>3. QED
    BY <1>3, <2>1, <2>2
<1>6. ASSUME baseline
      PROVE  \E k \in Known' : i <= k
  <2>1. \E j \in Known : i <= j
    BY <1>6 DEF Passed, Connected, Page1
  <2>2. QED
    BY <1>3, <1>4, <2>1 DEF Known
<1>7. CASE ~baseline'
  <2>1. CASE ~baseline
    BY <1>5, <1>7, <2>1 DEF Passed
  <2>2. CASE baseline
    <3>1. todo' = <<>>
      BY <1>7, <2>2 DEF Onward, Handled, PageHandled
    <3>2. \E k \in Range(seen') : i <= k
      BY <1>6, <2>2, <3>1, NothingListed DEF Known
    <3>3. QED
      BY <1>7, <3>2 DEF Passed
  <2>3. QED
    BY <2>1, <2>2
<1>8. CASE baseline'
  <2>1. baseline
    BY <1>8 DEF Onward, Handled, PageHandled
  <2>2. QED
    BY <1>6, <1>8, <2>1 DEF Passed
<1>9. QED
  BY <1>7, <1>8

LEMMA PassedPoll ==
    ASSUME Shape, Shape', Order, Poll, NEW i \in 1..Len(chat), Passed(i)
    PROVE  Passed(i)'
<1>1. /\ pc = "polling" /\ todo = <<>> /\ chat # <<>> /\ i <= Len(chat)
      /\ UNCHANGED <<chat, seen>>
  <2>1. pc = "polling" /\ UNCHANGED <<chat, seen>>
    BY DEF Poll
  <2>2. todo = <<>>
    BY <2>1 DEF Shape, Reading
  <2>3. chat \in Seq(Message)
    BY DEF Shape, TypeOK
  <2>4. chat # <<>> /\ i <= Len(chat)
    BY <2>3
  <2>5. QED
    BY <2>1, <2>2, <2>4
<1>2. CASE ~baseline
  <2>1. \E j \in Range(seen) : i <= j
    BY <1>1, <1>2 DEF Passed, Connected
  <2>2. ~baseline'
    BY <1>2 DEF Poll, PageHandled
  <2>3. QED
    BY <1>1, <2>1, <2>2 DEF Passed
<1>3. CASE baseline
  <2>1. token = 0
    BY <1>1, <1>3 DEF Shape, Reading
  <2>2. Len(chat) \in Range(todo')
    BY <1>1, <2>1, PollOrder
  <2>3. todo' # <<>>
    BY <2>2, NothingListed
  <2>4. baseline' /\ \E j \in Known' : i <= j
    BY <1>1, <1>3, <2>2, <2>3 DEF Poll, PageHandled, Known
  <2>5. QED
    BY <2>4 DEF Passed
<1>4. QED
  BY <1>2, <1>3

LEMMA PassedNext ==
    ASSUME Shape, Shape', Order, [Next]_vars, NEW i \in 1..Len(chat), Passed(i)
    PROVE  Passed(i)'
<1>1. CASE Aside
  <2>1. CASE UNCHANGED <<baseline, pc>>
    BY <1>1, <2>1 DEF Aside, Passed, Connected, Known, Message1
  <2>2. CASE EnterChat
    BY <2>2 DEF EnterChat, Passed
  <2>3. CASE pc = "promo" /\ pc' = "polling" /\ UNCHANGED baseline
    BY <1>1, <2>3 DEF Aside, Passed, Connected, Known, Message1, Shape, Reading
  <2>4. CASE pc' \in {"looking", "detecting", "stopped"}
    BY <2>4 DEF Passed, Connected
  <2>5. QED
    BY <1>1, <2>1, <2>2, <2>3, <2>4 DEF Aside
<1>2. CASE Poll
  BY <1>2, PassedPoll
<1>3. CASE Handles
  BY <1>3, HandlesOnward, PassedOnward
<1>4. CASE ProcessGone
  BY <1>4 DEF ProcessGone, Passed, Connected
<1>5. QED
  BY <1>1, <1>2, <1>3, <1>4, StepKinds

LEMMA NewUnanswered ==
    ASSUME Shape, Order, Answers, New, ~Refused
    PROVE  Unanswered(Message1)
<1> Page1 /\ TypeOK /\ InOrder
  BY DEF New, Remember, Page1, Shape, Order
<1>1. PICK m \in 1..Len(chat) : m = Message1
  BY MessageTypes
<1>2. \A j \in Range(seen) : j < m /\ j \in Nat
  <2>1. todo \in Seq(1..Len(chat)) /\ todo # <<>> /\ Consecutive(todo) /\ Len(chat) \in Nat
    BY KnownTypes DEF Shape, TypeOK, Reading, Page1
  <2>2. Message1 \in Range(todo)
    BY <2>1, RestOfPage DEF Message1
  <2>3. QED
    BY <1>1, <2>2, KnownTypes DEF InOrder, Before, New, Remember
<1>3. ~Passed(m)
  BY <1>1, <1>2, KnownTypes DEF Passed, Connected, New, Remember
<1>4. Text = chat[m].text /\ Text \notin sent
  BY <1>1 DEF Text, Refused
<1>5. QED
  BY <1>1, <1>3, <1>4 DEF Answers, Unanswered

LEMMA AnsweringNew ==
    ASSUME Shape, Shape', Order, Answers, [Next]_vars, Answer \/ WriteGame
    PROVE  /\ Message1 \in 1..Len(chat) /\ Unanswered(Message1)
           /\ \A i \in 1..Len(chat) : i = Message1 => Passed(i)'
<1> Handles /\ Page1 /\ Rising(seen) /\ InOrder
  BY DEF Handles, Answer, WriteGame, New, Remember, Page1, Order
<1>1. Message1 \in 1..Len(chat)
  BY MessageTypes
<1>2. Unanswered(Message1)
  <2>1. CASE Answer
    BY <2>1, NewUnanswered DEF Answer
  <2>2. CASE WriteGame
    BY <2>2 DEF WriteGame, Answers
  <2>3. QED
    BY <2>1, <2>2
<1>3. Message1 \in Range(seen') /\ Message1 \in Known'
  BY HandlesOnward, OnwardKnown DEF Known
<1>4. ASSUME NEW i \in 1..Len(chat), i = Message1
      PROVE  Passed(i)'
  <2>1. i <= i /\ i \in Range(seen') /\ i \in Known'
    BY <1>3, <1>4
  <2>2. (\E j \in Range(seen') : i <= j) /\ \E j \in Known' : i <= j
    BY <2>1
  <2>3. QED
    BY <2>2 DEF Passed
<1>5. QED
  BY <1>1, <1>2, <1>4

LEMMA AnswersNext ==
    ASSUME Shape, Shape', Order, Answers, [Next]_vars
    PROVE  Answers'
<1> TypeOK /\ TypeOK'
  BY DEF Shape
<1>1. ChatGrows(Answering) /\ Recorded /\ Len(chat) \in Nat /\ Len(chat') \in Nat
  <2>1. chat \in Seq(Message) /\ chat' \in Seq(Message)
    BY DEF TypeOK
  <2>2. QED
    BY <2>1, StepGrows
<1>2. ASSUME NEW i \in 1..Len(chat)
      PROVE  /\ chat'[i].answers \in {0, 1}
             /\ chat'[i].answers = 1 => Passed(i)'
             /\ i \in recent' =>
                    chat'[i].answers = 0 /\ (chat'[i].text \in sent' \/ Passed(i)')
  <2>1. /\ chat'[i].text = chat[i].text
        /\ \/ chat'[i].answers = chat[i].answers
           \/ i = Answering /\ chat'[i].answers = chat[i].answers + 1
        /\ i \in recent' => i \in recent
    BY <1>1 DEF ChatGrows, Recorded
  <2>2. CASE i = Answering /\ chat'[i].answers = chat[i].answers + 1
    <3>1. (Answer \/ WriteGame) /\ i = Message1
      BY <2>2 DEF Answering
    <3>2. Unanswered(i) /\ Passed(i)'
      BY <3>1, AnsweringNew
    <3>3. QED
      BY <2>1, <2>2, <3>2 DEF Unanswered
  <2>3. CASE chat'[i].answers = chat[i].answers
    <3>1. Passed(i) => Passed(i)'
      BY PassedNext
    <3>2. ASSUME i \in recent', chat[i].text \in sent
          PROVE  chat[i].text \in sent' \/ Passed(i)'
      <4>1. CASE sent \subseteq sent'
        BY <3>2, <4>1
      <4>2. CASE TextExpires \/ HalfHourPasses
        BY <3>2, <4>2 DEF TextExpires, HalfHourPasses
      <4>3. CASE ProcessGone
        BY <4>3 DEF ProcessGone, Passed, Connected
      <4>4. QED
        BY <4>1, <4>2, <4>3, StepGrows
    <3>3. QED
      BY <2>1, <2>3, <3>1, <3>2 DEF Answers
  <2>4. QED
    BY <2>1, <2>2, <2>3
<1>3. ASSUME NEW i \in (Len(chat) + 1)..Len(chat')
      PROVE  /\ chat'[i].answers = 0
             /\ i \in recent' => chat'[i].text \in sent'
  <2>1. i \notin recent
    <3>1. \A k \in recent : k <= Len(chat)
      BY DEF TypeOK
    <3>2. i > Len(chat) /\ ~(i <= Len(chat))
      BY <1>1
    <3>3. QED
      BY <3>1, <3>2
  <2>2. chat'[i].answers = 0
    BY <1>1 DEF ChatGrows
  <2>3. i \in recent' => chat'[i].text \in sent'
    BY <1>1, <2>1 DEF Recorded
  <2>4. QED
    BY <2>2, <2>3
<1>4. ASSUME pc' = "setting"
      PROVE  Unanswered(Message1)'
  <2>1. CASE Handles
    <3>1. SetGame
      BY <1>4, <2>1, HandlesOnward
    <3>2. Unanswered(Message1) /\ UNCHANGED <<chat, todo, recent>>
      BY <3>1, NewUnanswered DEF SetGame
    <3>3. QED
      BY <3>2 DEF Unanswered, Message1
  <2>2. CASE ~Handles /\ Aside
    <3>1. pc = "setting" /\ UNCHANGED todo
      BY <1>4, <2>2 DEF Aside, EnterChat
    <3>2. Message1 \in 1..Len(chat) /\ Unanswered(Message1)
      BY <3>1, MessageTypes DEF Answers, Page1
    <3>3. Answering = 0
      BY <2>2 DEF Answering, Handles
    <3>4. QED
      BY <1>1, <3>1, <3>2, <3>3 DEF ChatGrows, Recorded, Unanswered, Message1
  <2>3. CASE Poll \/ ProcessGone
    BY <1>4, <2>3 DEF Poll, PageHandled, ProcessGone
  <2>4. QED
    BY <2>1, <2>2, <2>3, StepKinds
<1>5. ASSUME NEW i \in 1..Len(chat')
      PROVE  /\ chat'[i].answers \in {0, 1}
             /\ chat'[i].answers = 1 => Passed(i)'
             /\ i \in recent' =>
                    chat'[i].answers = 0 /\ (chat'[i].text \in sent' \/ Passed(i)')
  <2>1. CASE i \in 1..Len(chat)
    BY <1>2, <2>1
  <2>2. CASE i \in (Len(chat) + 1)..Len(chat')
    BY <1>3, <2>2
  <2>3. QED
    BY <1>1, <2>1, <2>2
<1>6. QED
  BY <1>4, <1>5 DEF Answers

LEMMA InvAlways == Spec => []Inv
<1>1. Init => Inv
  <2> SUFFICES ASSUME Init PROVE Inv
    OBVIOUS
  <2>1. Shape
    BY ShapeInit
  <2>2. /\ chat = <<>> /\ seen = <<>> /\ todo = <<>> /\ token = 0 /\ pc = "looking"
        /\ recent = {}
    BY DEF Init
  <2>3. Known = {}
    BY <2>2, NothingListed DEF Known
  <2>4. Order
    BY <2>2, <2>3, NothingListed DEF Order, Rising, InOrder, NoGap, TokenFits, Before
  <2>5. Answers
    BY <2>2 DEF Answers
  <2>6. QED
    BY <2>1, <2>4, <2>5 DEF Inv
<1>2. Inv /\ [Next]_vars => Inv'
  BY ShapeNext, OrderNext, AnswersNext DEF Inv
<1>3. QED
  BY <1>1, <1>2, PTL DEF Spec

(* No message is answered twice, whatever pages are read again and however *)
(* often the chat is entered, for every limit of what is remembered that a *)
(* page does not exceed.                                                   *)
THEOREM NoSecondAnswer == Spec => []AnsweredOnce
<1>1. Inv => AnsweredOnce
  BY DEF Inv, Answers, AnsweredOnce
<1>2. QED
  BY <1>1, InvAlways, PTL

(* For a minute after a text was posted and recorded the bot does not      *)
(* answer its message, on whatever page and in whatever process it reads   *)
(* it; even if a response file holds a command.                            *)
THEOREM OwnUnanswered == Spec => []NeverAnswersItself
<1>1. Inv => NeverAnswersItself
  BY DEF Inv, Shape, TypeOK, Answers, NeverAnswersItself
<1>2. QED
  BY <1>1, InvAlways, PTL
=============================================================================
