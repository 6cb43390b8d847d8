-------------------------- MODULE OwnerNotifyProofs --------------------------
(***************************************************************************)
(* The cooldown bounds the questions about a user, in whatever order the   *)
(* goroutines read the clock and take the lock, and no urgent message is   *)
(* passed over without a reason: proved for every number of messages,      *)
(* users and slots, every cooldown and every number of failures.           *)
(***************************************************************************)
EXTENDS OwnerNotify, TLAPS, FiniteSetTheorems

(* Every message that Allow lets through moves Cooldown.last on by a       *)
(* cooldown at least, however late its goroutine comes for the lock.       *)
Counted ==
    \A u \in Users : Asked(u) # {} =>
        /\ last[u] # Never
        /\ (Cardinality(Asked(u)) - 1) * Cooldown <= last[u]

(* A message is admitted once, and its clock is not read again.            *)
Admitted ==
    /\ admitted \subseteq 1..Len(author)
    /\ \A m \in admitted : stage[m] \in {"allowed", "done"} \cup Working
    /\ \A m \in Messages : stage[m] # "none" => m <= Len(author)

NotifyTypes ==
    /\ now \in Nat
    /\ author \in Seq(Users) /\ Len(author) <= MaxMessages
    /\ stage \in [Messages -> {"none", "started", "clocked", "allowed", "done"} \cup Working]
    /\ clock \in [Messages -> Nat] /\ \A m \in Messages : clock[m] <= now
    /\ last \in [Users -> {Never} \cup Nat] /\ \A u \in Users : last[u] <= now

NotifyInductive == NotifyTypes /\ Admitted /\ Counted

USE NotifyAssumption DEF Messages

LEMMA NotifyStarts == Init => NotifyInductive
<1> SUFFICES ASSUME Init PROVE NotifyInductive
  OBVIOUS
<1>1. author \in Seq(Users) /\ Len(author) = 0
  BY DEF Init
<1>2. NotifyTypes
  BY <1>1 DEF Init, NotifyTypes, Working, Never
<1>3. Admitted
  BY <1>1 DEF Init, Admitted
<1> QED
  BY <1>2, <1>3 DEF Init, NotifyInductive, Counted, Asked

(* A step of a goroutine moves its stage only.                             *)
LEMMA StageMoves ==
    ASSUME NotifyInductive, NEW m \in Messages, stage[m] # "none",
           NEW s \in {"started", "clocked", "allowed", "done"} \cup Working,
           stage' = [stage EXCEPT ![m] = s],
           m \in admitted => s \in {"allowed", "done"} \cup Working,
           UNCHANGED <<now, author, clock, last, admitted>>
    PROVE  NotifyInductive'
<1>1. NotifyTypes /\ Admitted /\ Counted
  BY DEF NotifyInductive
<1>2. NotifyTypes'
  BY <1>1 DEF NotifyTypes
<1>3. Admitted'
  BY <1>1 DEF Admitted, NotifyTypes
<1>4. Counted'
  BY <1>1 DEF Counted, Asked
<1> QED
  BY <1>2, <1>3, <1>4 DEF NotifyInductive

LEMMA ReadClockKeeps ==
    ASSUME NotifyInductive, NEW m \in Messages, ReadClock(m)
    PROVE  NotifyInductive'
<1>1. NotifyTypes /\ Admitted /\ Counted
  BY DEF NotifyInductive
<1>2. /\ stage[m] = "started"
      /\ stage' = [stage EXCEPT ![m] = "clocked"]
      /\ clock' = [clock EXCEPT ![m] = now]
      /\ UNCHANGED <<now, author, last, admitted>>
  BY DEF ReadClock, incoming, history
<1>3. m \notin admitted
  BY <1>1, <1>2 DEF Admitted, Working
<1>4. NotifyTypes'
  BY <1>1, <1>2 DEF NotifyTypes
<1>5. Admitted'
  BY <1>1, <1>2, <1>3 DEF Admitted, NotifyTypes
<1>6. Counted'
  BY <1>1, <1>2 DEF Counted, Asked
<1> QED
  BY <1>4, <1>5, <1>6 DEF NotifyInductive

(* The messages of a user that were let through can be counted.            *)
LEMMA AskedFinite ==
    ASSUME NotifyTypes, Admitted, NEW u \in Users
    PROVE  IsFiniteSet(Asked(u)) /\ Cardinality(Asked(u)) \in Nat
<1>1. Len(author) \in Nat /\ Len(author) <= MaxMessages
  BY DEF NotifyTypes
<1>2. Asked(u) \in SUBSET Messages
  <2>1. admitted \subseteq Messages
    BY <1>1 DEF Admitted
  <2> QED
    BY <2>1, Zenon DEF Asked
<1>3. IsFiniteSet(Messages)
  BY FS_Interval
<1> QED
  BY <1>2, <1>3, FS_Subset, FS_CardinalityType

LEMMA OneMore ==
    ASSUME NEW n \in Nat, NEW x \in Nat, NEW y \in Nat,
           (n - 1) * Cooldown <= x, x + Cooldown <= y
    PROVE  n * Cooldown <= y
<1>1. n * Cooldown = (n - 1) * Cooldown + Cooldown
  OBVIOUS
<1> QED
  BY <1>1

(* The one step that adds to admitted: the clock of the message is a       *)
(* cooldown, at least, behind the last one of its author.                  *)
LEMMA AllowKeeps ==
    ASSUME NotifyInductive, NEW m \in Messages, Allow(m)
    PROVE  NotifyInductive'
<1>1. NotifyTypes /\ Admitted /\ Counted
  BY DEF NotifyInductive
<1>2. /\ stage[m] = "clocked"
      /\ stage' = [stage EXCEPT ![m] = "allowed"]
      /\ last' = [last EXCEPT ![author[m]] = clock[m]]
      /\ admitted' = admitted \cup {m}
      /\ UNCHANGED <<now, author, clock>>
      /\ ~TooSoon(m)
  BY DEF Allow, incoming
<1>3. m \in 1..Len(author) /\ Len(author) \in Nat
  BY <1>1, <1>2 DEF Admitted, NotifyTypes
<1>4. author[m] \in Users /\ clock[m] \in Nat /\ clock[m] <= now
  BY <1>1, <1>3 DEF NotifyTypes
<1>5. NotifyTypes'
  BY <1>1, <1>2, <1>4 DEF NotifyTypes
<1>6. Admitted'
  BY <1>1, <1>2, <1>3 DEF Admitted, NotifyTypes, Working
<1>7. m \notin admitted
  BY <1>1, <1>2 DEF Admitted, Working
<1>8. ASSUME NEW u \in Users, u # author[m]
      PROVE  Asked(u)' = Asked(u) /\ last'[u] = last[u]
  BY <1>1, <1>2, <1>8 DEF Asked, NotifyTypes
<1>9. last'[author[m]] = clock[m] /\ clock[m] # Never
  BY <1>1, <1>2, <1>4 DEF NotifyTypes, Never
<1>10. (Cardinality(Asked(author[m])') - 1) * Cooldown <= clock[m]
  <2>1. Asked(author[m])' = Asked(author[m]) \cup {m} /\ m \notin Asked(author[m])
    BY <1>2, <1>7 DEF Asked
  <2>2. PICK n \in Nat : n = Cardinality(Asked(author[m]))
    BY <1>1, <1>4, AskedFinite
  <2>3. Cardinality(Asked(author[m])') = n + 1
    BY <1>1, <1>4, <2>1, <2>2, AskedFinite, FS_AddElement
  <2>4. n * Cooldown <= clock[m]
    <3>1. CASE Asked(author[m]) = {}
      <4>1. n = 0
        BY <2>2, <3>1, FS_EmptySet
      <4> QED
        BY <1>4, <4>1
    <3>2. CASE Asked(author[m]) # {}
      <4>1. last[author[m]] # Never /\ (n - 1) * Cooldown <= last[author[m]]
        BY <1>1, <1>4, <2>2, <3>2 DEF Counted
      <4>2. last[author[m]] \in Nat /\ last[author[m]] + Cooldown <= clock[m]
        BY <1>1, <1>2, <1>4, <4>1 DEF TooSoon, NotifyTypes
      <4> QED
        BY <1>4, <4>1, <4>2, OneMore
    <3> QED
      BY <3>1, <3>2
  <2> QED
    BY <2>3, <2>4
<1>11. Counted'
  <2> SUFFICES ASSUME NEW u \in Users, Asked(u)' # {}
               PROVE  last'[u] # Never /\ (Cardinality(Asked(u)') - 1) * Cooldown <= last'[u]
    BY DEF Counted
  <2>1. CASE u = author[m]
    <3>1. Asked(u)' = Asked(author[m])'
      BY <1>2, <2>1 DEF Asked
    <3> QED
      BY <1>9, <1>10, <2>1, <3>1
  <2>2. CASE u # author[m]
    BY <1>1, <1>8, <2>2 DEF Counted
  <2> QED
    BY <2>1, <2>2
<1> QED
  BY <1>5, <1>6, <1>11 DEF NotifyInductive

LEMMA ReceiveKeeps ==
    ASSUME NotifyInductive, Receive
    PROVE  NotifyInductive'
<1>1. NotifyTypes /\ Admitted /\ Counted
  BY DEF NotifyInductive
<1> DEFINE new == Len(author) + 1
<1>2. Len(author) \in Nat /\ new <= MaxMessages
  BY <1>1 DEF NotifyTypes, Receive
<1>3. PICK u \in Users : author' = Append(author, u)
  BY DEF Receive
<1>4. /\ stage' = [stage EXCEPT ![new] = "started"]
      /\ UNCHANGED <<now, clock, last, admitted>>
  BY DEF Receive, history
<1>5. author' \in Seq(Users) /\ Len(author') = new
  BY <1>1, <1>3 DEF NotifyTypes
<1>6. \A k \in 1..Len(author) : author'[k] = author[k]
  BY <1>1, <1>2, <1>3 DEF NotifyTypes
<1>7. NotifyTypes'
  BY <1>1, <1>2, <1>4, <1>5 DEF NotifyTypes
<1>8. Admitted'
  BY <1>1, <1>2, <1>4, <1>5 DEF Admitted, NotifyTypes
<1>9. \A k \in admitted : author'[k] = author[k]
  BY <1>1, <1>6 DEF Admitted
<1>10. Counted'
  BY <1>1, <1>4, <1>9 DEF Counted, Asked
<1> QED
  BY <1>7, <1>8, <1>10 DEF NotifyInductive

LEMMA NotifyStep == NotifyInductive /\ [Next]_vars => NotifyInductive'
<1> SUFFICES ASSUME NotifyInductive, [Next]_vars PROVE NotifyInductive'
  OBVIOUS
<1>1. CASE Receive
  BY <1>1, ReceiveKeeps
<1>2. ASSUME NEW m \in Messages, MaybeNotify(m) PROVE NotifyInductive'
  <2>1. CASE ReadClock(m)
    BY <2>1, ReadClockKeeps
  <2>2. CASE Allow(m)
    BY <2>2, AllowKeeps
  <2>3. CASE Refuse(m) \/ TakeSlot(m) \/ ParseFails(m) \/ ParseUrgent(m) \/ OpenFails(m)
             \/ Open(m) \/ Post(m)
    <3>1. stage[m] # "none" /\ (m \in admitted => stage[m] # "clocked")
      BY <2>3 DEF Refuse, TakeSlot, ParseFails, ParseUrgent, OpenFails, Open, Post,
                  NotifyInductive, Admitted, Working
    <3>2. /\ \/ stage' = [stage EXCEPT ![m] = "done"]
             \/ stage' = [stage EXCEPT ![m] = "parsing"]
             \/ stage' = [stage EXCEPT ![m] = "opening"]
             \/ stage' = [stage EXCEPT ![m] = "posting"]
          /\ UNCHANGED <<now, author, clock, last, admitted>>
      BY <2>3 DEF Refuse, TakeSlot, ParseFails, ParseUrgent, OpenFails, Open, Post, Leave,
                  incoming, history
    <3> QED
      BY <3>1, <3>2, StageMoves DEF Working
  <2> QED
    BY <1>2, <2>1, <2>2, <2>3 DEF MaybeNotify
<1>3. CASE Advance \/ Bind \/ UNCHANGED vars
  <2>1. now' \in Nat /\ now <= now' /\ UNCHANGED <<author, stage, clock, last, admitted>>
    BY <1>3 DEF Advance, Bind, vars, incoming, history, NotifyInductive, NotifyTypes
  <2>2. NotifyTypes'
    BY <2>1 DEF NotifyInductive, NotifyTypes, Never
  <2> QED
    BY <2>1, <2>2 DEF NotifyInductive, Admitted, Counted, Asked
<1> QED
  BY <1>1, <1>2, <1>3 DEF Next

(* The language model is asked about the messages of one user at most once *)
(* and once per cooldown that has passed since the bot started, however    *)
(* the goroutines of Cooldown.Allow interleave.                            *)
THEOREM AlertsAreBounded == Spec => []AlertsBounded
<1>1. ASSUME NotifyInductive PROVE AlertsBounded
  <2> SUFFICES ASSUME NEW u \in Users
               PROVE  (Cardinality(Asked(u)) - 1) * Cooldown <= now
    BY DEF AlertsBounded
  <2>1. NotifyTypes /\ Admitted /\ Counted
    BY <1>1 DEF NotifyInductive
  <2>2. now \in Nat /\ last[u] \in {Never} \cup Nat /\ last[u] <= now
    BY <2>1 DEF NotifyTypes
  <2>3. CASE Asked(u) = {}
    <3>1. Cardinality(Asked(u)) = 0
      BY <2>3, FS_EmptySet
    <3> QED
      BY <2>2, <3>1
  <2>4. CASE Asked(u) # {}
    <3>1. PICK k \in Nat : k = Cardinality(Asked(u))
      BY <2>1, AskedFinite
    <3>2. last[u] \in Nat /\ (k - 1) * Cooldown <= last[u]
      BY <2>1, <2>2, <2>4, <3>1 DEF Counted
    <3>3. PICK x \in Int : x = (k - 1) * Cooldown
      BY <3>1
    <3>4. x <= now
      BY <2>2, <3>2, <3>3
    <3> QED
      BY <3>1, <3>3, <3>4
  <2> QED
    BY <2>3, <2>4
<1> QED
  BY <1>1, NotifyStarts, NotifyStep, PTL DEF Spec

(***************************************************************************)
(* No urgent message is passed over without a reason.                      *)
(***************************************************************************)
(* The slots that are taken are those of the goroutines at work.           *)
SlotsKept == held = Cardinality(AtWork)

(* What the cooldown knows, it knows from a message that was let through.  *)
LastIsSomeones ==
    \A u \in Users : last[u] # Never =>
        \E n \in admitted : author[n] = u /\ clock[n] = last[u]

Received ==
    /\ urgent \subseteq 1..Len(author)
    /\ connected \subseteq 1..Len(author)
    /\ connected # {} => bound
    /\ faults \in Nat

Excused(m) ==
    \/ m \in alerted \cup crowded
    \/ faults > 0
    \/ \E n \in admitted \ {m} :
           author[n] = author[m] /\ clock[m] - clock[n] < Cooldown

UrgentInductive ==
    NotifyInductive /\ SlotsKept /\ LastIsSomeones /\ Received /\ UrgentReaches

LEMMA UrgentStarts == Init => UrgentInductive
<1> SUFFICES ASSUME Init PROVE UrgentInductive
  OBVIOUS
<1>1. AtWork = {}
  BY DEF Init, AtWork, Working
<1>2. SlotsKept
  BY <1>1, FS_EmptySet DEF Init, SlotsKept
<1> QED
  BY <1>2, NotifyStarts DEF Init, UrgentInductive, LastIsSomeones, Received, UrgentReaches

LEMMA AtWorkFinite == IsFiniteSet(AtWork)
<1>1. IsFiniteSet(Messages) /\ AtWork \in SUBSET Messages
  BY FS_Interval DEF AtWork
<1> QED
  BY <1>1, FS_Subset

(* A goroutine that starts to work, that works, and that leaves.           *)
LEMMA SlotsStep == UrgentInductive /\ [Next]_vars => SlotsKept'
<1> SUFFICES ASSUME UrgentInductive, [Next]_vars PROVE SlotsKept'
  OBVIOUS
<1>0. NotifyTypes /\ Admitted /\ SlotsKept
  BY DEF UrgentInductive, NotifyInductive
<1>1. CASE AtWork' = AtWork /\ held' = held
  BY <1>0, <1>1 DEF SlotsKept
<1>2. ASSUME NEW m \in Messages, TakeSlot(m) PROVE SlotsKept'
  <2>1. CASE held < MaxConcurrent
    <3>1. stage[m] = "allowed" /\ stage' = [stage EXCEPT ![m] = "parsing"] /\ held' = held + 1
      BY <1>2, <2>1 DEF TakeSlot
    <3>2. AtWork' = AtWork \cup {m} /\ m \notin AtWork
      BY <1>0, <3>1 DEF AtWork, Working, NotifyTypes
    <3> QED
      BY <1>0, <3>1, <3>2, AtWorkFinite, FS_AddElement DEF SlotsKept
  <2>2. CASE ~(held < MaxConcurrent)
    <3>1. stage[m] = "allowed" /\ stage' = [stage EXCEPT ![m] = "done"] /\ held' = held
      BY <1>2, <2>2 DEF TakeSlot
    <3>2. AtWork' = AtWork
      BY <1>0, <3>1 DEF AtWork, Working, NotifyTypes
    <3> QED
      BY <1>0, <3>1, <3>2 DEF SlotsKept
  <2> QED
    BY <2>1, <2>2
<1>3. ASSUME NEW m \in Messages, ParseFails(m) \/ OpenFails(m) \/ Post(m) PROVE SlotsKept'
  <2>1. stage[m] \in Working /\ stage' = [stage EXCEPT ![m] = "done"] /\ held' = held - 1
    BY <1>3 DEF ParseFails, OpenFails, Post, Leave, Working
  <2>2. AtWork' = AtWork \ {m} /\ m \in AtWork
    BY <1>0, <2>1 DEF AtWork, Working, NotifyTypes
  <2> QED
    BY <1>0, <2>1, <2>2, AtWorkFinite, FS_RemoveElement DEF SlotsKept
<1>4. ASSUME NEW m \in Messages,
             ReadClock(m) \/ Refuse(m) \/ Allow(m) \/ ParseUrgent(m) \/ Open(m)
      PROVE  SlotsKept'
  <2>1. /\ held' = held
        /\ \/ stage[m] \notin Working /\ stage' = [stage EXCEPT ![m] = "clocked"]
           \/ stage[m] \notin Working /\ stage' = [stage EXCEPT ![m] = "done"]
           \/ stage[m] \notin Working /\ stage' = [stage EXCEPT ![m] = "allowed"]
           \/ stage[m] \in Working /\ stage' = [stage EXCEPT ![m] = "opening"]
           \/ stage[m] \in Working /\ stage' = [stage EXCEPT ![m] = "posting"]
    BY <1>4 DEF ReadClock, Refuse, Allow, ParseUrgent, Open, Working
  <2>2. AtWork' = AtWork
    BY <1>0, <2>1 DEF AtWork, Working, NotifyTypes
  <2> QED
    BY <1>1, <2>1, <2>2
<1>5. CASE Receive
  <2>1. held' = held /\ stage' = [stage EXCEPT ![Len(author) + 1] = "started"]
    BY <1>5 DEF Receive
  <2>2. Len(author) + 1 \in Messages /\ stage[Len(author) + 1] \notin Working
    BY <1>0, <1>5 DEF Receive, NotifyTypes, Admitted, Working
  <2>3. AtWork' = AtWork
    BY <1>0, <2>1, <2>2 DEF AtWork, Working, NotifyTypes
  <2> QED
    BY <1>1, <2>1, <2>3
<1>6. CASE Advance \/ Bind \/ UNCHANGED vars
  <2>1. held' = held /\ stage' = stage
    BY <1>6 DEF Advance, Bind, vars
  <2> QED
    BY <1>1, <2>1 DEF AtWork
<1> QED
  BY <1>2, <1>3, <1>4, <1>5, <1>6 DEF Next, MaybeNotify

(* What a step does to the messages there are, and to the reasons.         *)
LEMMA ReasonsStay ==
    ASSUME UrgentInductive, [Next]_vars
    PROVE  /\ admitted \subseteq admitted'
           /\ alerted \subseteq alerted' /\ crowded \subseteq crowded'
           /\ faults' \in Nat /\ faults <= faults'
           /\ \A n \in 1..Len(author) :
                  /\ author'[n] = author[n]
                  /\ stage[n] # "started" => clock'[n] = clock[n]
                  /\ n \in urgent' <=> n \in urgent
                  /\ n \in connected' <=> n \in connected
<1>0. NotifyTypes /\ Admitted /\ Received
  BY DEF UrgentInductive, NotifyInductive
<1>1. CASE Receive
  <2>1. PICK u \in Users : author' = Append(author, u)
    BY <1>1 DEF Receive
  <2>2. Len(author) \in Nat /\ \A n \in 1..Len(author) : author'[n] = author[n]
    BY <1>0, <2>1 DEF NotifyTypes
  <2>3. /\ UNCHANGED <<clock, admitted, alerted, crowded, faults>>
        /\ urgent' \in {urgent, urgent \cup {Len(author) + 1}}
        /\ connected' \in {connected, connected \cup {Len(author) + 1}}
    BY <1>1 DEF Receive, history
  <2> QED
    BY <1>0, <2>2, <2>3 DEF Received
<1>2. ASSUME NEW m \in Messages, MaybeNotify(m), author' = author, urgent' = urgent,
             connected' = connected
      PROVE  /\ admitted \subseteq admitted'
             /\ alerted \subseteq alerted' /\ crowded \subseteq crowded'
             /\ faults' \in Nat /\ faults <= faults'
             /\ \A n \in 1..Len(author) : stage[n] # "started" => clock'[n] = clock[n]
  <2>1. CASE ReadClock(m)
    <3>1. \A n \in 1..Len(author) : stage[n] # "started" => clock'[n] = clock[n]
      BY <1>0, <2>1 DEF ReadClock, NotifyTypes
    <3> QED
      BY <1>0, <2>1, <3>1 DEF ReadClock, Received, history
  <2>2. CASE Refuse(m) \/ Allow(m) \/ TakeSlot(m) \/ ParseUrgent(m) \/ Open(m)
    BY <1>0, <2>2 DEF Refuse, Allow, TakeSlot, ParseUrgent, Open, Received, history
  <2>3. CASE ParseFails(m) \/ OpenFails(m) \/ Post(m)
    BY <1>0, <2>3 DEF ParseFails, OpenFails, Post, Leave, Fault, Received
  <2> QED
    BY <1>2, <2>1, <2>2, <2>3 DEF MaybeNotify
<1>3. ASSUME NEW m \in Messages, MaybeNotify(m)
      PROVE  author' = author /\ urgent' = urgent /\ connected' = connected
  BY <1>3 DEF MaybeNotify, ReadClock, Refuse, Allow, TakeSlot, ParseFails, ParseUrgent,
              OpenFails, Open, Post, Leave, incoming
<1>4. CASE Advance \/ Bind \/ UNCHANGED vars
  BY <1>0, <1>4 DEF Advance, Bind, vars, incoming, history, Received
<1> QED
  BY <1>1, <1>2, <1>3, <1>4 DEF Next

LEMMA ReceivedStep == UrgentInductive /\ [Next]_vars => Received' /\ LastIsSomeones'
<1> SUFFICES ASSUME UrgentInductive, [Next]_vars PROVE Received' /\ LastIsSomeones'
  OBVIOUS
<1>0. NotifyTypes /\ Admitted /\ Received /\ LastIsSomeones
  BY DEF UrgentInductive, NotifyInductive
<1>1. faults' \in Nat
  BY ReasonsStay
<1>2. \A n \in admitted : author'[n] = author[n] /\ clock'[n] = clock[n]
  BY <1>0, ReasonsStay DEF Admitted, Working
<1>3. Received'
  <2>1. CASE Receive
    <3>1. Len(author') = Len(author) + 1 /\ Len(author) \in Nat
      BY <1>0, <2>1 DEF Receive, NotifyTypes
    <3>2. /\ urgent' \subseteq urgent \cup {Len(author) + 1}
          /\ connected' \subseteq connected \cup {Len(author) + 1}
          /\ bound' = bound /\ (connected' # connected => bound)
      BY <2>1 DEF Receive
    <3> QED
      BY <1>0, <1>1, <3>1, <3>2 DEF Received
  <2>2. CASE ~Receive
    <3>1. UNCHANGED <<author, urgent, connected>> /\ (bound => bound')
      BY <2>2 DEF Next, Advance, Bind, MaybeNotify, ReadClock, Refuse, Allow, TakeSlot, ParseFails,
                  ParseUrgent, OpenFails, Open, Post, Leave, vars, incoming
    <3> QED
      BY <1>0, <1>1, <3>1 DEF Received
  <2> QED
    BY <2>1, <2>2
<1>4. ASSUME NEW m \in Messages, Allow(m) PROVE LastIsSomeones'
  <2>1. /\ last' = [last EXCEPT ![author[m]] = clock[m]]
        /\ admitted' = admitted \cup {m}
        /\ UNCHANGED <<author, clock>>
    BY <1>4 DEF Allow, incoming
  <2> SUFFICES ASSUME NEW u \in Users, last'[u] # Never
               PROVE  \E n \in admitted' : author[n] = u /\ clock[n] = last'[u]
    BY <2>1 DEF LastIsSomeones
  <2>2. CASE u = author[m]
    BY <1>0, <2>1, <2>2 DEF NotifyTypes
  <2>3. CASE u # author[m]
    BY <1>0, <2>1, <2>3 DEF NotifyTypes, LastIsSomeones
  <2> QED
    BY <2>2, <2>3
<1>5. ASSUME last' = last, admitted' = admitted PROVE LastIsSomeones'
  <2>1. \A u \in Users : last[u] # Never =>
            \E n \in admitted : author'[n] = u /\ clock'[n] = last[u]
    BY <1>0, <1>2 DEF LastIsSomeones
  <2>2. \A u \in Users : last'[u] # Never =>
            \E n \in admitted' : author'[n] = u /\ clock'[n] = last'[u]
    BY <1>5, <2>1
  <2> QED
    BY <2>2 DEF LastIsSomeones
<1>6. (\E m \in Messages : Allow(m)) \/ (last' = last /\ admitted' = admitted)
  BY DEF Next, Advance, Bind, Receive, MaybeNotify, ReadClock, Refuse, TakeSlot, ParseFails,
         ParseUrgent, OpenFails, Open, Post, Leave, vars, history
<1> QED
  BY <1>3, <1>4, <1>5, <1>6

(* Whoever is done with a message has told the owner, or has a reason.     *)
LEMMA DoneIsExcused ==
    ASSUME UrgentInductive, NEW m \in Messages, MaybeNotify(m),
           m \in urgent, m \in connected, stage'[m] = "done", stage[m] # "done"
    PROVE  Excused(m)'
<1>0. NotifyTypes /\ Admitted /\ SlotsKept /\ LastIsSomeones /\ Received
  BY DEF UrgentInductive, NotifyInductive
<1>1. CASE Refuse(m)
  <2>1. /\ stage[m] = "clocked" /\ TooSoon(m)
        /\ UNCHANGED <<author, clock, admitted>>
    BY <1>1 DEF Refuse, incoming, history
  <2>2. author[m] \in Users
    BY <1>0 DEF NotifyTypes, Received
  <2>3. PICK n \in admitted : author[n] = author[m] /\ clock[n] = last[author[m]]
    BY <1>0, <2>1, <2>2 DEF LastIsSomeones, TooSoon
  <2>4. n # m
    BY <1>0, <2>1 DEF Admitted, Working
  <2> QED
    BY <2>1, <2>3, <2>4 DEF Excused, TooSoon
<1>2. CASE TakeSlot(m)
  <2>1. stage' # [stage EXCEPT ![m] = "parsing"]
    BY <1>0 DEF NotifyTypes
  <2>2. /\ ~(held < MaxConcurrent)
        /\ crowded' = IF Cardinality(AtWork) < MaxConcurrent THEN crowded ELSE crowded \cup {m}
    BY <1>2, <2>1 DEF TakeSlot
  <2> QED
    BY <1>0, <2>2 DEF SlotsKept, Excused
<1>3. CASE ParseFails(m) \/ OpenFails(m) \/ Post(m)
  <2>1. faults' = faults + 1 \/ m \in alerted'
    BY <1>0, <1>3 DEF ParseFails, OpenFails, Post, Fault, Received
  <2> QED
    BY <1>0, <2>1 DEF Excused, Received
<1>4. CASE ReadClock(m) \/ Allow(m) \/ ParseUrgent(m) \/ Open(m)
  <2>1. \/ stage' = [stage EXCEPT ![m] = "clocked"]
        \/ stage' = [stage EXCEPT ![m] = "allowed"]
        \/ stage' = [stage EXCEPT ![m] = "opening"]
        \/ stage' = [stage EXCEPT ![m] = "posting"]
    BY <1>4 DEF ReadClock, Allow, ParseUrgent, Open
  <2> QED
    BY <1>0, <2>1 DEF NotifyTypes
<1> QED
  BY <1>1, <1>2, <1>3, <1>4 DEF MaybeNotify

LEMMA UrgentStep == UrgentInductive /\ [Next]_vars => UrgentInductive'
<1> SUFFICES ASSUME UrgentInductive, [Next]_vars PROVE UrgentInductive'
  OBVIOUS
<1>0. NotifyTypes /\ Admitted /\ Received /\ UrgentReaches
  BY DEF UrgentInductive, NotifyInductive
<1>1. NotifyInductive' /\ SlotsKept' /\ Received' /\ LastIsSomeones'
  BY NotifyStep, SlotsStep, ReceivedStep DEF UrgentInductive
<1>2. ASSUME NEW k \in urgent' \cap connected', stage'[k] = "done"
      PROVE  Excused(k)'
  <2>1. CASE k \in 1..Len(author) /\ stage[k] = "done"
    <3>1. k \in urgent \cap connected
      BY <1>2, <2>1, ReasonsStay
    <3>2. Excused(k)
      BY <1>0, <2>1, <3>1 DEF UrgentReaches, Excused
    <3>3. author'[k] = author[k] /\ clock'[k] = clock[k]
      BY <2>1, ReasonsStay
    <3>4. \A n \in admitted : author'[n] = author[n] /\ clock'[n] = clock[n]
      BY <1>0, ReasonsStay DEF Admitted, Working
    <3>5. /\ admitted \subseteq admitted' /\ alerted \subseteq alerted' /\ crowded \subseteq crowded'
          /\ faults \in Nat /\ faults' \in Nat /\ faults <= faults'
      BY <1>0, ReasonsStay DEF Received
    <3> QED
      BY <3>2, <3>3, <3>4, <3>5 DEF Excused
  <2>2. CASE k \in 1..Len(author) /\ stage[k] # "done"
    <3>1. k \in urgent /\ k \in connected /\ k \in Messages
      BY <1>0, <1>2, <2>2, ReasonsStay DEF NotifyTypes
    <3>2. MaybeNotify(k)
      <4>1. CASE \E m \in Messages : MaybeNotify(m)
        <5>1. PICK m \in Messages : MaybeNotify(m)
          BY <4>1
        <5>2. \E s : stage' = [stage EXCEPT ![m] = s]
          BY <5>1 DEF MaybeNotify, ReadClock, Refuse, Allow, TakeSlot, ParseFails, ParseUrgent,
                      OpenFails, Open, Post, Leave
        <5>3. m = k
          BY <1>0, <1>2, <2>2, <3>1, <5>2 DEF NotifyTypes
        <5> QED
          BY <5>1, <5>3
      <4>2. CASE ~\E m \in Messages : MaybeNotify(m)
        <5>1. stage' = stage \/ stage' = [stage EXCEPT ![Len(author) + 1] = "started"]
          BY <4>2 DEF Next, Advance, Bind, Receive, vars
        <5> QED
          BY <1>0, <1>2, <2>2, <3>1, <5>1 DEF NotifyTypes
      <4> QED
        BY <4>1, <4>2
    <3> QED
      BY <1>2, <2>2, <3>1, <3>2, DoneIsExcused
  <2>3. CASE k \notin 1..Len(author)
    <3>1. Receive
      <4>1. \/ Receive
            \/ UNCHANGED <<urgent, connected>>
        BY DEF Next, Advance, Bind, MaybeNotify, ReadClock, Refuse, Allow, TakeSlot, ParseFails,
               ParseUrgent, OpenFails, Open, Post, Leave, vars, incoming
      <4> QED
        BY <1>0, <1>2, <2>3, <4>1 DEF Received
    <3>2. k = Len(author) + 1 /\ k \in Messages
      BY <1>0, <1>2, <2>3, <3>1 DEF Receive, Received, NotifyTypes
    <3>3. stage'[k] = "started"
      BY <1>0, <3>1, <3>2 DEF Receive, NotifyTypes
    <3> QED
      BY <1>2, <3>3
  <2> QED
    BY <2>1, <2>2, <2>3
<1>3. UrgentReaches'
  BY <1>2 DEF UrgentReaches, Excused
<1> QED
  BY <1>1, <1>3 DEF UrgentInductive

(* The owner hears of every urgent message that is written while the bot is*)
(* connected, but for the reasons of UrgentReaches; no slot is lost.       *)
THEOREM UrgentMessagesReach == Spec => []UrgentReaches
<1>1. UrgentInductive => UrgentReaches
  BY DEF UrgentInductive
<1> QED
  BY <1>1, UrgentStarts, UrgentStep, PTL DEF Spec
=============================================================================
