------------------------- MODULE YouTubeFeedProofs -------------------------
(***************************************************************************)
(* Theorems of the YouTube feed poller: no video is marked as seen before  *)
(* it is posted, and it is posted again only for a counted reason; for     *)
(* every number of videos, every size of the feed, faults and restarts.    *)
(***************************************************************************)
EXTENDS YouTubeFeed, FiniteSetTheorems, TLAPS

USE DEF channel, file, poll, history

(* What is newer than an entry of the feed, and still up, is in the feed.  *)
LEMMA FeedIsUpwardClosed ==
    ASSUME TypeOK, NEW v \in Feed, NEW w \in Visible, w > v
    PROVE  w \in Feed
<1>1. uploaded \in Nat /\ Visible \subseteq 1..uploaded
  BY FeedAssumption DEF TypeOK, Visible
<1>2. IsFiniteSet(Newer(v))
  <2>1. IsFiniteSet(1..uploaded)
    BY <1>1, FS_Interval
  <2>2. Newer(v) \subseteq 1..uploaded
    BY <1>1 DEF Newer
  <2>3. QED
    BY <2>1, <2>2, FS_Subset
<1>3. v \in Visible
  BY DEF Feed
<1>4. Newer(w) \subseteq Newer(v)
  <2>1. SUFFICES ASSUME NEW x \in Visible, x > w PROVE x > v
    BY DEF Newer
  <2>2. x \in Nat /\ v \in Nat /\ w \in Nat
    BY <1>1, <1>3
  <2>3. QED
    BY <2>1, <2>2
<1>5. /\ Cardinality(Newer(w)) \in Nat /\ Cardinality(Newer(v)) \in Nat
      /\ Cardinality(Newer(w)) <= Cardinality(Newer(v))
  <2>1. IsFiniteSet(Newer(w)) /\ Cardinality(Newer(w)) <= Cardinality(Newer(v))
    BY <1>2, <1>4, FS_Subset
  <2>2. Cardinality(Newer(w)) \in Nat /\ Cardinality(Newer(v)) \in Nat
    BY <1>2, <2>1, FS_CardinalityType
  <2>3. QED
    BY <2>1, <2>2
<1>6. Cardinality(Newer(v)) < FeedSize
  BY DEF Feed
<1>7. QED
  BY <1>5, <1>6, FeedAssumption DEF Feed

(* The newest entry of the feed is the newest video that is up.            *)
LEMMA FirstIsNewest ==
    ASSUME TypeOK, NEW v, First(Feed, v)
    PROVE  v \in 1..uploaded /\ \A w \in Visible : w <= v
<1>1. v \in Feed /\ \A w \in Feed : w <= v
  BY DEF First
<1>2. v \in Visible /\ Visible \subseteq 1..uploaded
  BY <1>1 DEF Feed, Visible
<1>3. ASSUME NEW w \in Visible PROVE w <= v
  <2>1. w > v => w <= v
    BY <1>1, <1>2, FeedIsUpwardClosed
  <2>2. w \in Nat /\ v \in Nat
    BY <1>2
  <2>3. QED
    BY <2>1, <2>2
<1>4. QED
  BY <1>2, <1>3

LEMMA InitFeed == Init => FeedInductive
<1>1. SUFFICES ASSUME Init PROVE FeedInductive
  OBVIOUS
<1>2. TypeOK /\ ProcessIdle /\ NewestIsNewest
  <2>1. posted \in [Videos -> Nat]
    BY <1>1 DEF Init
  <2>2. uploaded \in 0..MaxVideos /\ 0 \in 0..uploaded
    BY <1>1, FeedAssumption DEF Init
  <2>3. QED
    BY <1>1, <2>1, <2>2 DEF Init, TypeOK, ProcessIdle, NewestIsNewest
<1>3. SeenIsSettled /\ PollCoversFeed
  BY <1>1 DEF Init, SeenIsSettled, PollCoversFeed
<1>4. RepostsBounded /\ RepostsCounted
  BY <1>1 DEF Init, RepostsBounded, RepostsCounted
<1>5. QED
  BY <1>2, <1>3, <1>4 DEF FeedInductive

(***************************************************************************)
(* One lemma per kind of step.                                             *)
(***************************************************************************)
LEMMA Expand ==
    ASSUME FeedInductive
    PROVE  /\ uploaded \in Nat /\ uploaded <= MaxVideos /\ MaxVideos \in Nat
           /\ Videos = 1..MaxVideos
           /\ 1..uploaded \subseteq Videos
           /\ stored \in Nat /\ lastSeen \in Nat /\ newest \in Nat
           /\ faults \in Nat /\ stops \in Nat
           /\ \A v \in Videos : posted[v] \in Nat
           /\ TypeOK
BY FeedAssumption DEF FeedInductive, TypeOK, Videos

LEMMA UploadStep ==
    ASSUME FeedInductive, Upload
    PROVE  FeedInductive'
<1>t. TypeOK' /\ ProcessIdle' /\ NewestIsNewest'
  BY FeedAssumption DEF Upload, FeedInductive, TypeOK, ProcessIdle, NewestIsNewest
<1>1. SeenIsSettled' /\ PollCoversFeed' /\ RepostsBounded'
  BY DEF Upload, FeedInductive, SeenIsSettled, PollCoversFeed, RepostsBounded, Settled
<1>2. RepostsCounted'
  <2>1. uploaded' = uploaded + 1
    BY DEF Upload
  <2>2. \A v \in Videos : v > uploaded' => posted'[v] = 0
    BY Expand, <2>1 DEF Upload, FeedInductive, RepostsCounted
  <2>3. \A v \in Videos : ~MayPost(v) /\ MayPost(v)' => posted[v] <= faults + stops
    BY Expand, <2>1 DEF Upload, FeedInductive, RepostsCounted, MayPost, Visible
  <2>4. QED
    BY <2>2, <2>3 DEF Upload, FeedInductive, RepostsCounted
<1>3. QED
  BY <1>t, <1>1, <1>2 DEF FeedInductive

LEMMA TakeDownStep ==
    ASSUME FeedInductive, TakeDown
    PROVE  FeedInductive'
<1>u. /\ UNCHANGED <<uploaded, file, up, ctxDone, poll, history, faults, stops>>
      /\ deleted \subseteq deleted' /\ deleted' \subseteq 1..uploaded
  BY DEF TakeDown, FeedInductive, TypeOK
<1>t. TypeOK' /\ ProcessIdle' /\ NewestIsNewest'
  BY <1>u DEF FeedInductive, TypeOK, ProcessIdle, NewestIsNewest
<1>1. SeenIsSettled' /\ PollCoversFeed' /\ RepostsBounded'
  BY <1>u DEF FeedInductive, SeenIsSettled, PollCoversFeed, RepostsBounded, Settled
<1>2. RepostsCounted'
  BY <1>u DEF FeedInductive, RepostsCounted, MayPost, Visible
<1>3. QED
  BY <1>t, <1>1, <1>2 DEF FeedInductive

(* A process that ends leaves what is on disk, and every count is covered  *)
(* by the crash or the shutdown that ended it.                             *)
LEMMA GoneStep ==
    ASSUME FeedInductive, Crash \/ Exit
    PROVE  FeedInductive'
<1>u. /\ UNCHANGED <<channel, file, history, stops>> /\ up' = FALSE /\ ctxDone' = FALSE
      /\ pc' = "idle" /\ lastSeen' = 0 /\ newVideos' = {} /\ newest' = 0
  BY DEF Crash, Exit, ProcessGone
<1>f. faults' \in Nat
  BY Expand DEF Crash, Exit, Fault
<1>t. TypeOK' /\ ProcessIdle' /\ NewestIsNewest'
  <2>1. 0 \in 0..uploaded
    BY Expand
  <2>2. QED
    BY <1>u, <1>f, <2>1 DEF FeedInductive, TypeOK, ProcessIdle, NewestIsNewest
<1>1. SeenIsSettled' /\ PollCoversFeed'
  BY <1>u DEF FeedInductive, SeenIsSettled, PollCoversFeed, Settled
<1>2. \A v \in Videos : posted[v] <= faults' + stops
  <2>1. CASE Crash
    BY <2>1, Expand DEF Crash, Fault, FeedInductive, RepostsBounded
  <2>2. CASE Exit
    BY <2>2 DEF Exit, FeedInductive, RepostsCounted
  <2>3. QED
    BY <2>1, <2>2
<1>3. RepostsBounded'
  BY <1>2, <1>u, <1>f, Expand DEF RepostsBounded
<1>4. RepostsCounted'
  BY <1>2, <1>u DEF FeedInductive, RepostsCounted
<1>5. QED
  BY <1>t, <1>1, <1>3, <1>4 DEF FeedInductive

LEMMA StartStep ==
    ASSUME FeedInductive, Start
    PROVE  FeedInductive'
<1>u. /\ UNCHANGED <<channel, file, ctxDone, pc, newVideos, newest, history, faults, stops>>
      /\ ~up /\ up' /\ lastSeen' = stored
  BY DEF Start
<1>t. TypeOK' /\ ProcessIdle' /\ NewestIsNewest'
  BY <1>u DEF FeedInductive, TypeOK, ProcessIdle, NewestIsNewest, Start
<1>1. SeenIsSettled' /\ PollCoversFeed' /\ RepostsBounded'
  BY <1>u DEF FeedInductive, SeenIsSettled, PollCoversFeed, RepostsBounded, Settled, ProcessIdle
<1>2. RepostsCounted'
  BY <1>u DEF FeedInductive, RepostsCounted
<1>3. QED
  BY <1>t, <1>1, <1>2 DEF FeedInductive

LEMMA ShutdownStep ==
    ASSUME FeedInductive, Shutdown
    PROVE  FeedInductive'
<1>u. /\ UNCHANGED <<channel, file, up, poll, history, faults>> /\ stops' = stops + 1
      /\ up /\ ctxDone'
  BY DEF Shutdown
<1>t. TypeOK' /\ ProcessIdle' /\ NewestIsNewest'
  BY <1>u DEF FeedInductive, TypeOK, ProcessIdle, NewestIsNewest
<1>1. SeenIsSettled' /\ PollCoversFeed'
  BY <1>u DEF FeedInductive, SeenIsSettled, PollCoversFeed, Settled
<1>2. \A v \in Videos : posted'[v] <= faults' + stops'
  BY <1>u, Expand DEF FeedInductive, RepostsBounded
<1>3. RepostsBounded' /\ RepostsCounted'
  BY <1>2, <1>u, Expand DEF FeedInductive, RepostsBounded, RepostsCounted
<1>4. QED
  BY <1>t, <1>1, <1>3 DEF FeedInductive

(* A baseline passes over every video it does not count as posted.         *)
LEMMA BaselineStep ==
    ASSUME FeedInductive, Baseline
    PROVE  FeedInductive'
<1>1. PICK v \in Feed : /\ First(Feed, v)
                        /\ lastSeen' = v
                        /\ skipped' = skipped \cup {w \in 1..v : posted[w] = 0}
  BY DEF Baseline
<1>u. /\ UNCHANGED <<channel, file, up, ctxDone, newVideos, newest, posted, faults, stops>>
      /\ up /\ ~ctxDone /\ pc = "idle" /\ pc' = "saving"
  BY DEF Baseline, Polling
<1>2. v \in 1..uploaded /\ \A w \in Visible : w <= v
  BY <1>1, Expand, FirstIsNewest
<1>3. 1..v \subseteq 1..uploaded /\ v \in Nat
  BY <1>2, Expand
<1>t. TypeOK' /\ ProcessIdle' /\ NewestIsNewest'
  <2>1. newVideos = {} /\ newest \in 0..uploaded
    BY <1>u DEF FeedInductive, TypeOK, ProcessIdle
  <2>2. TypeOK'
    <3>1. lastSeen' \in 0..uploaded /\ skipped' \subseteq 1..uploaded
      BY <1>1, <1>2, <1>3, Expand DEF TypeOK
    <3>2. QED
      BY <1>u, <3>1, <2>1 DEF FeedInductive, TypeOK
  <2>3. QED
    BY <2>1, <2>2, <1>u DEF ProcessIdle, NewestIsNewest
<1>4. SeenIsSettled'
  <2>1. \A w \in 1..v : Settled(w)'
    BY <1>1, <1>3, <1>u, Expand DEF Settled
  <2>2. \A w \in 1..stored : Settled(w)'
    BY <1>1, <1>u DEF FeedInductive, SeenIsSettled, Settled
  <2>3. QED
    BY <2>1, <2>2, <1>1, <1>u DEF SeenIsSettled
<1>5. PollCoversFeed' /\ RepostsBounded'
  BY <1>u DEF FeedInductive, PollCoversFeed, RepostsBounded
<1>6. RepostsCounted'
  <2>1. \A w : ~MayPost(w)'
    <3>1. newVideos' = {}
      BY <1>u DEF FeedInductive, ProcessIdle
    <3>2. Visible' = Visible /\ \A w \in Visible : w \in Nat
      BY <1>u, Expand DEF Visible
    <3>3. \A w \in Visible : ~(w > v)
      BY <3>2, <1>2, <1>3
    <3>4. QED
      BY <3>1, <3>2, <3>3, <1>1 DEF MayPost
  <2>2. QED
    BY <2>1, <1>u DEF FeedInductive, RepostsCounted
<1>7. QED
  BY <1>t, <1>4, <1>5, <1>6 DEF FeedInductive

(* The poll that posts covers all that is newer than the last seen video.  *)
LEMMA FindNewStep ==
    ASSUME FeedInductive, FindNew
    PROVE  FeedInductive'
<1>u. /\ UNCHANGED <<channel, file, up, ctxDone, lastSeen, history, faults, stops>>
      /\ up /\ ~ctxDone /\ pc' = "posting" /\ pc = "idle"
      /\ lastSeen \in Feed /\ newVideos' = {v \in Feed : v > lastSeen}
      /\ First(Feed, newest')
  BY DEF FindNew, Polling
<1>1. newest' \in 1..uploaded /\ \A w \in Visible : w <= newest'
  BY <1>u, Expand, FirstIsNewest
<1>2. newVideos' \subseteq Visible /\ Visible \subseteq 1..uploaded
  BY <1>u DEF Feed, Visible
<1>t. TypeOK' /\ ProcessIdle' /\ NewestIsNewest'
  <2>1. TypeOK' /\ ProcessIdle'
    <3>1. newest' \in 0..uploaded /\ newVideos' \subseteq 1..uploaded
      BY <1>1, <1>2, Expand
    <3>2. QED
      BY <1>u, <3>1 DEF FeedInductive, TypeOK, ProcessIdle
  <2>2. lastSeen \in Visible
    BY <1>u DEF Feed
  <2>3. QED
    BY <2>1, <2>2, <1>u, <1>1, <1>2 DEF NewestIsNewest
<1>3. SeenIsSettled' /\ RepostsBounded'
  BY <1>u DEF FeedInductive, SeenIsSettled, Settled, RepostsBounded
<1>4. PollCoversFeed'
  <2>1. SUFFICES ASSUME NEW v \in 1..newest', ~Settled(v) PROVE v \in newVideos'
    BY <1>u DEF PollCoversFeed, Settled
  <2>2. v \in 1..uploaded
    BY <1>1, Expand
  <2>3. v \in Visible
    BY <2>1, <2>2 DEF Settled, Visible
  <2>4. v > lastSeen
    BY <2>1, <2>2, Expand DEF FeedInductive, SeenIsSettled
  <2>5. v \in Feed
    BY <2>3, <2>4, <1>u, Expand, FeedIsUpwardClosed
  <2>6. QED
    BY <2>4, <2>5, <1>u
<1>5. RepostsCounted'
  <2>1. SUFFICES ASSUME NEW v \in Videos, MayPost(v)' PROVE posted[v] <= faults + stops
    BY <1>u DEF FeedInductive, RepostsCounted
  <2>2. v \in Visible /\ v > lastSeen
    BY <2>1, <1>u, <1>2 DEF MayPost, Visible
  <2>3. MayPost(v)
    BY <2>2, <1>u DEF MayPost
  <2>4. QED
    BY <2>3 DEF FeedInductive, RepostsCounted
<1>6. QED
  BY <1>t, <1>3, <1>4, <1>5 DEF FeedInductive

LEMMA PostStep ==
    ASSUME FeedInductive, NEW v \in Videos, Post(v)
    PROVE  FeedInductive'
<1>u. /\ UNCHANGED <<channel, file, up, ctxDone, pc, lastSeen, newest, skipped, faults, stops>>
      /\ pc = "posting" /\ ~ctxDone /\ v \in newVideos
      /\ newVideos' = newVideos \ {v}
      /\ posted' = [posted EXCEPT ![v] = @ + 1]
  BY DEF Post, Oldest
<1>p. /\ posted'[v] = posted[v] + 1
      /\ \A w \in Videos : w # v => posted'[w] = posted[w]
  BY <1>u, Expand DEF TypeOK
<1>t. TypeOK' /\ ProcessIdle' /\ NewestIsNewest'
  BY <1>u, Expand DEF FeedInductive, TypeOK, ProcessIdle, NewestIsNewest
<1>1. \A w \in Videos : Settled(w) => Settled(w)'
  BY <1>p, <1>u, Expand DEF Settled
<1>2. Settled(v)'
  BY <1>p, Expand DEF Settled
<1>3. 1..stored \subseteq Videos /\ 1..lastSeen \subseteq Videos /\ 1..newest \subseteq Videos
  BY Expand DEF TypeOK
<1>4. SeenIsSettled' /\ PollCoversFeed'
  BY <1>1, <1>2, <1>3, <1>u DEF FeedInductive, SeenIsSettled, PollCoversFeed
<1>5. posted[v] <= faults + stops
  BY <1>u DEF FeedInductive, RepostsCounted, MayPost
<1>6. RepostsBounded'
  <2>1. \A w \in Videos : posted[w] <= 1 + faults + stops
    BY DEF FeedInductive, RepostsBounded
  <2>2. posted[v] \in Nat /\ posted[v] + 1 <= 1 + faults + stops
    BY <1>5, Expand
  <2>3. \A w \in Videos : posted'[w] <= 1 + faults + stops
    BY <2>1, <2>2, <1>p
  <2>4. QED
    BY <2>3, <1>u DEF RepostsBounded
<1>7. RepostsCounted'
  <2>1. v \in 1..uploaded /\ up
    BY <1>u DEF FeedInductive, TypeOK, ProcessIdle, NewestIsNewest
  <2>2. v <= newest
    BY <1>u DEF FeedInductive, NewestIsNewest
  <2>3. ~MayPost(v)'
    BY <2>1, <2>2, <1>u, Expand DEF MayPost
  <2>4. \A w \in Videos : MayPost(w)' => MayPost(w) /\ w # v
    BY <2>3, <1>u DEF MayPost, Visible
  <2>5. \A w \in Videos : w > uploaded' => posted'[w] = 0
    <3>1. SUFFICES ASSUME NEW w \in Videos, w > uploaded PROVE w # v /\ posted[w] = 0
      BY <1>p, <1>u
    <3>2. posted[w] = 0
      BY <3>1 DEF FeedInductive, RepostsCounted
    <3>3. w # v
      BY <3>1, <2>1, Expand
    <3>4. QED
      BY <3>2, <3>3
  <2>6. \A w \in Videos : MayPost(w)' => posted'[w] <= faults + stops
    BY <2>4, <1>p DEF FeedInductive, RepostsCounted
  <2>7. up' /\ ~ctxDone'
    BY <2>1, <1>u
  <2>8. QED
    BY <2>5, <2>6, <2>7, <1>u DEF RepostsCounted
<1>8. QED
  BY <1>t, <1>4, <1>6, <1>7 DEF FeedInductive

(* A failed post ends the poll and is counted.                             *)
LEMMA PostFailsStep ==
    ASSUME FeedInductive, PostFails
    PROVE  FeedInductive'
<1>u. /\ UNCHANGED <<channel, file, up, ctxDone, lastSeen, skipped, stops>>
      /\ faults' = faults + 1 /\ ~ctxDone /\ pc = "posting"
      /\ pc' = "idle" /\ newVideos' = {} /\ newest' = 0
  BY DEF PostFails, Fault
<1>p. PICK v \in newVideos : posted' = posted \/ posted' = [posted EXCEPT ![v] = @ + 1]
  BY DEF PostFails
<1>1. v \in Videos
  BY Expand DEF TypeOK
<1>2. /\ posted' \in [Videos -> Nat]
      /\ posted'[v] <= posted[v] + 1
      /\ \A w \in Videos : posted'[w] >= posted[w] /\ (w # v => posted'[w] = posted[w])
  <2>1. \A w \in Videos : posted[w] >= posted[w] /\ posted[w] <= posted[w] + 1
    BY Expand
  <2>2. CASE posted' = posted
    BY <2>1, <2>2, <1>1, Expand DEF TypeOK
  <2>3. CASE posted' = [posted EXCEPT ![v] = @ + 1]
    BY <2>1, <2>3, <1>1, Expand DEF TypeOK
  <2>4. QED
    BY <1>p, <2>2, <2>3
<1>t. TypeOK' /\ ProcessIdle' /\ NewestIsNewest'
  <2>1. TypeOK'
    BY <1>u, <1>2, Expand DEF TypeOK
  <2>2. ProcessIdle' /\ NewestIsNewest'
    BY <1>u DEF FeedInductive, ProcessIdle, NewestIsNewest
  <2>3. QED
    BY <2>1, <2>2
<1>3. \A w \in Videos : Settled(w) => Settled(w)'
  <2>1. \A w \in Videos : posted[w] > 0 => posted'[w] > 0
    <3>1. \A w \in Videos : posted[w] \in Nat /\ posted'[w] \in Nat
      BY <1>2, Expand
    <3>2. QED
      BY <3>1, <1>2
  <2>2. QED
    BY <2>1, <1>u DEF Settled
<1>4. SeenIsSettled' /\ PollCoversFeed'
  <2>1. 1..stored \subseteq Videos /\ 1..lastSeen \subseteq Videos
    BY Expand DEF TypeOK
  <2>2. QED
    BY <2>1, <1>3, <1>u DEF FeedInductive, SeenIsSettled, PollCoversFeed
<1>5. \A w \in Videos : posted'[w] <= faults' + stops
  <2>1. posted[v] <= faults + stops
    BY <1>1 DEF FeedInductive, RepostsCounted, MayPost
  <2>2. \A w \in Videos : posted[w] <= 1 + faults + stops
    BY DEF FeedInductive, RepostsBounded
  <2>3. posted'[v] <= faults' + stops
    BY <2>1, <1>1, <1>2, <1>u, Expand DEF TypeOK
  <2>4. \A w \in Videos : w # v => posted'[w] <= faults' + stops
    BY <2>2, <1>2, <1>u, Expand
  <2>5. QED
    BY <2>3, <2>4
<1>6. RepostsBounded'
  <2>1. \A w \in Videos : posted'[w] \in Nat
    BY <1>2
  <2>2. faults' \in Nat /\ stops \in Nat
    BY <1>u, Expand
  <2>3. \A w \in Videos : posted'[w] <= 1 + faults' + stops
    BY <2>1, <2>2, <1>5
  <2>4. QED
    BY <2>3, <1>u DEF RepostsBounded
<1>7. RepostsCounted'
  <2>1. v <= uploaded
    BY Expand DEF TypeOK
  <2>2. \A w \in Videos : w > uploaded' => posted'[w] = 0
    <3>1. SUFFICES ASSUME NEW w \in Videos, w > uploaded PROVE w # v /\ posted[w] = 0
      BY <1>2, <1>u
    <3>2. posted[w] = 0
      BY <3>1 DEF FeedInductive, RepostsCounted
    <3>3. w # v
      BY <3>1, <2>1, <1>1, Expand
    <3>4. QED
      BY <3>2, <3>3
  <2>3. QED
    BY <2>2, <1>5, <1>u DEF RepostsCounted
<1>8. QED
  BY <1>t, <1>4, <1>6, <1>7 DEF FeedInductive

LEMMA PostingStoppedStep ==
    ASSUME FeedInductive, PostingStopped
    PROVE  FeedInductive'
<1>u. /\ UNCHANGED <<channel, file, up, ctxDone, lastSeen, history, faults, stops>>
      /\ ctxDone /\ pc' = "idle" /\ newVideos' = {} /\ newest' = 0
  BY DEF PostingStopped
<1>t. TypeOK' /\ ProcessIdle' /\ NewestIsNewest'
  BY <1>u, Expand DEF FeedInductive, TypeOK, ProcessIdle, NewestIsNewest
<1>1. SeenIsSettled' /\ PollCoversFeed' /\ RepostsBounded'
  BY <1>u DEF FeedInductive, SeenIsSettled, PollCoversFeed, RepostsBounded, Settled
<1>2. RepostsCounted'
  BY <1>u DEF FeedInductive, RepostsCounted
<1>3. QED
  BY <1>t, <1>1, <1>2 DEF FeedInductive

LEMMA AllPostedStep ==
    ASSUME FeedInductive, AllPosted
    PROVE  FeedInductive'
<1>u. /\ UNCHANGED <<channel, file, up, ctxDone, newVideos, history, faults, stops>>
      /\ pc = "posting" /\ pc' = "saving" /\ newVideos = {}
      /\ lastSeen' = newest /\ newest' = 0
  BY DEF AllPosted
<1>t. TypeOK' /\ ProcessIdle' /\ NewestIsNewest'
  BY <1>u, Expand DEF FeedInductive, TypeOK, ProcessIdle, NewestIsNewest
<1>1. SeenIsSettled' /\ PollCoversFeed' /\ RepostsBounded'
  BY <1>u DEF FeedInductive, SeenIsSettled, PollCoversFeed, RepostsBounded, Settled
<1>2. RepostsCounted'
  <2>1. \A v : MayPost(v)' => v \in Visible /\ v > newest
    BY <1>u DEF MayPost, Visible
  <2>2. SUFFICES ASSUME NEW v \in Videos, v \in Visible, v > newest
        PROVE  posted[v] <= faults + stops
    BY <2>1, <1>u DEF FeedInductive, RepostsCounted
  <2>3. MayPost(v) \/ v <= lastSeen
    BY <2>2, Expand DEF MayPost
  <2>4. lastSeen <= newest
    BY <1>u DEF FeedInductive, NewestIsNewest
  <2>5. QED
    BY <2>2, <2>3, <2>4, Expand DEF FeedInductive, RepostsCounted
<1>3. QED
  BY <1>t, <1>1, <1>2 DEF FeedInductive

LEMMA SaveStep ==
    ASSUME FeedInductive, Truncate \/ Save \/ SaveFails
    PROVE  FeedInductive'
<1>u. /\ UNCHANGED <<channel, up, ctxDone, lastSeen, newVideos, newest, history, stops>>
      /\ stored' \in {stored, lastSeen} /\ torn' \in BOOLEAN
      /\ faults' \in {faults, faults + 1}
      /\ pc \in {"saving", "writing"} /\ pc' \in {"idle", "writing"}
      /\ pc' = "idle" \/ up
  BY Expand DEF Truncate, Save, SaveFails, Fault, TypeOK, FeedInductive, ProcessIdle
<1>t. TypeOK' /\ ProcessIdle' /\ NewestIsNewest'
  <2>1. stored' \in 0..uploaded /\ faults' \in Nat
    BY <1>u, Expand DEF TypeOK
  <2>2. QED
    BY <1>u, <2>1 DEF FeedInductive, TypeOK, ProcessIdle, NewestIsNewest
<1>1. SeenIsSettled' /\ PollCoversFeed'
  BY <1>u DEF FeedInductive, SeenIsSettled, PollCoversFeed, Settled
<1>2. RepostsBounded'
  BY <1>u, Expand DEF FeedInductive, RepostsBounded
<1>3. RepostsCounted'
  <2>1. \A v : MayPost(v)' => MayPost(v)
    BY <1>u DEF MayPost, Visible
  <2>2. QED
    BY <2>1, <1>u, Expand DEF FeedInductive, RepostsCounted
<1>4. QED
  BY <1>t, <1>1, <1>2, <1>3 DEF FeedInductive

LEMMA StutterStep ==
    ASSUME FeedInductive, UNCHANGED vars
    PROVE  FeedInductive'
BY DEF vars, FeedInductive, TypeOK, ProcessIdle, NewestIsNewest, SeenIsSettled, Settled,
       PollCoversFeed, RepostsBounded, RepostsCounted, MayPost, Visible

(* The inductive invariant holds of the specification.                     *)
THEOREM FeedInductiveHolds == Spec => []FeedInductive
<1>1. Init => FeedInductive
  BY InitFeed
<1>2. FeedInductive /\ [Next]_vars => FeedInductive'
  BY UploadStep, TakeDownStep, GoneStep, StartStep, ShutdownStep, BaselineStep,
     FindNewStep, PostStep, PostFailsStep, PostingStoppedStep, AllPostedStep,
     SaveStep, StutterStep
     DEF Next
<1>3. QED
  BY <1>1, <1>2, PTL DEF Spec

(* A crash, a failed post or an upload in the middle of a poll loses no    *)
(* video: what is marked as seen was posted, passed over or taken down.    *)
THEOREM NoVideoLost == Spec => []SeenIsSettled
<1>1. FeedInductive => SeenIsSettled
  BY DEF FeedInductive
<1>2. QED
  BY <1>1, FeedInductiveHolds, PTL

(* A video is posted once, and once more only for every failed post,       *)
(* failed save, crash or shutdown.                                         *)
THEOREM VideoRepostsBounded == Spec => []RepostsBounded
<1>1. FeedInductive => RepostsBounded
  BY DEF FeedInductive
<1>2. QED
  BY <1>1, FeedInductiveHolds, PTL

(***************************************************************************)
(* The order of the posts.  Nothing newer was posted than what the poller  *)
(* still owes: what is neither posted nor passed over and has not been     *)
(* taken down, or had been read before it was.                             *)
(***************************************************************************)
InOrder ==
    \A v \in Videos \ skipped :
        posted[v] = 0 /\ (v \notin deleted \/ v \in newVideos)
            => \A w \in Videos : w > v => posted[w] = 0

(* What is posted next is older than everything else that is owed.         *)
LEMMA OldestIsOwedFirst ==
    ASSUME FeedInductive, pc = "posting", NEW v \in newVideos, Oldest(v),
           NEW u \in Videos \ skipped, posted[u] = 0, u \notin deleted \/ u \in newVideos, u # v
    PROVE  v < u
<1>1. v \in Nat /\ u \in Nat /\ newest \in Nat /\ v <= newest
  <2>1. newVideos \subseteq 1..uploaded /\ Videos = 1..MaxVideos
    BY Expand DEF TypeOK
  <2>2. newest \in Nat /\ uploaded \in Nat /\ MaxVideos \in Nat
    BY Expand
  <2>3. v <= newest
    BY DEF FeedInductive, NewestIsNewest
  <2> QED
    BY <2>1, <2>2, <2>3
<1>2. CASE u \in newVideos
  BY <1>1, <1>2 DEF Oldest
<1>3. CASE u \notin newVideos
  <2>1. ~Settled(u)
    BY <1>3 DEF Settled
  <2>2. ~(u \in 1..newest)
    BY <1>3, <2>1 DEF FeedInductive, PollCoversFeed
  <2> QED
    BY <1>1, <2>2, Expand
<1> QED
  BY <1>2, <1>3

LEMMA InOrderStays == FeedInductive /\ InOrder /\ [Next]_vars => InOrder'
<1> SUFFICES ASSUME FeedInductive, InOrder, [Next]_vars PROVE InOrder'
  OBVIOUS
<1>1. CASE UNCHANGED posted
  <2>1. deleted \subseteq deleted' /\ skipped \subseteq skipped'
    BY DEF Next, Upload, TakeDown, Crash, Start, Shutdown, Exit, ProcessGone, Baseline, FindNew,
           Post, PostFails, PostingStopped, AllPosted, Truncate, Save, SaveFails, vars
  <2>2. ASSUME NEW v \in newVideos' PROVE v \in newVideos \/ v \notin deleted
    BY DEF Next, Upload, TakeDown, Crash, Start, Shutdown, Exit, ProcessGone, Baseline, FindNew,
           Post, PostFails, PostingStopped, AllPosted, Truncate, Save, SaveFails, vars, Feed,
           Visible
  <2> QED
    BY <1>1, <2>1, <2>2 DEF InOrder
<1>2. CASE ~UNCHANGED posted
  <2>1. PICK v \in newVideos : /\ Oldest(v) /\ pc = "posting"
                               /\ posted' = [posted EXCEPT ![v] = @ + 1]
    BY <1>2 DEF Next, Upload, TakeDown, Crash, Start, Shutdown, Exit, ProcessGone, Baseline,
                FindNew, Post, Oldest, PostFails, PostingStopped, AllPosted, Truncate, Save,
                SaveFails, vars
  <2>2. newVideos' \subseteq newVideos /\ UNCHANGED <<deleted, skipped>>
    BY <1>2 DEF Next, Upload, TakeDown, Crash, Start, Shutdown, Exit, ProcessGone, Baseline,
                FindNew, Post, PostFails, PostingStopped, AllPosted, Truncate, Save, SaveFails,
                vars
  <2>3. v \in Videos
    BY Expand DEF TypeOK
  <2>4. posted[v] \in Nat /\ posted'[v] = posted[v] + 1
    BY <2>1, <2>3, Expand DEF TypeOK
  <2>5. \A w \in Videos : w # v => posted'[w] = posted[w]
    BY <2>1, <2>3, Expand DEF TypeOK
  <2>6. ASSUME NEW u \in Videos \ skipped, posted'[u] = 0,
               u \notin deleted \/ u \in newVideos', NEW w \in Videos, w > u
        PROVE  posted'[w] = 0
    <3>1. u # v /\ posted[u] = 0 /\ (u \notin deleted \/ u \in newVideos)
      BY <2>2, <2>4, <2>5, <2>6
    <3>2. v < u
      BY <2>1, <3>1, OldestIsOwedFirst
    <3>3. w # v
      BY <2>3, <2>6, <3>2, Expand
    <3> QED
      BY <2>5, <2>6, <3>1, <3>3 DEF InOrder
  <2> QED
    BY <2>2, <2>6 DEF InOrder
<1> QED
  BY <1>1, <1>2

(* Videos are posted in the order of their upload, through failed posts,   *)
(* restarts and deletions: one that was not passed over is not posted for  *)
(* the first time after a newer one was.                                   *)
THEOREM VideosPostedInOrder == Spec => PostedInOrder
<1>1. Init => InOrder
  BY DEF Init, InOrder
<1>2. FeedInductive /\ InOrder /\ [Next]_vars =>
          [\A v \in Videos \ skipped :
              posted[v] = 0 /\ posted'[v] > 0
                  => \A w \in Videos : w > v => posted[w] = 0]_vars
  <2> SUFFICES ASSUME FeedInductive, InOrder, [Next]_vars, NEW v \in Videos \ skipped,
                      posted[v] = 0, posted'[v] > 0
               PROVE  \A w \in Videos : w > v => posted[w] = 0
    OBVIOUS
  <2>1. PICK u \in newVideos : posted' = [posted EXCEPT ![u] = @ + 1]
    BY DEF Next, Upload, TakeDown, Crash, Start, Shutdown, Exit, ProcessGone, Baseline,
           FindNew, Post, Oldest, PostFails, PostingStopped, AllPosted, Truncate, Save,
           SaveFails, vars
  <2>2. v = u
    BY <2>1, Expand DEF TypeOK
  <2> QED
    BY <2>2 DEF InOrder
<1> QED
  BY <1>1, <1>2, InOrderStays, FeedInductiveHolds, PTL DEF Spec, PostedInOrder

(***************************************************************************)
(* The baseline: a running process remembers the last seen video of the    *)
(* file, or a later one, or that video was taken down.                     *)
(***************************************************************************)
LEMMA RemembersAcrossSteps ==
    FeedInductive /\ RemembersStored /\ [Next]_vars => RemembersStored'
<1> SUFFICES ASSUME FeedInductive, RemembersStored, [Next]_vars PROVE RemembersStored'
  OBVIOUS
<1>1. CASE Upload \/ TakeDown \/ Shutdown \/ UNCHANGED vars
  BY <1>1 DEF Upload, TakeDown, Shutdown, vars, RemembersStored
<1>2. CASE Crash \/ Exit
  BY <1>2 DEF Crash, Exit, ProcessGone, RemembersStored
<1>3. CASE Start
  BY <1>3, Expand DEF Start, RemembersStored, FeedInductive, ProcessIdle
<1>4. CASE Baseline
  <2>1. PICK v \in Feed : First(Feed, v) /\ lastSeen' = v
    BY <1>4 DEF Baseline
  <2>2. v \in 1..uploaded /\ \A w \in Visible : w <= v
    BY <2>1, Expand, FirstIsNewest
  <2>3. stored <= v \/ stored \in deleted
    <3>1. CASE stored \in Visible
      BY <3>1, <2>2
    <3>2. CASE stored \notin Visible
      BY <3>2, <2>2, Expand DEF Visible, TypeOK
    <3> QED
      BY <3>1, <3>2
  <2>4. UNCHANGED <<stored, deleted>> /\ pc' # "posting"
    BY <1>4 DEF Baseline
  <2> QED
    BY <2>1, <2>2, <2>3, <2>4, Expand DEF RemembersStored
<1>5. CASE FindNew
  <2>1. newest' # 0
    BY <1>5, Expand, FirstIsNewest DEF FindNew
  <2> QED
    BY <1>5, <2>1 DEF FindNew, RemembersStored
<1>6. CASE \E v \in Videos : Post(v)
  BY <1>6 DEF Post, RemembersStored
<1>7. CASE PostFails \/ PostingStopped
  BY <1>7 DEF PostFails, PostingStopped, RemembersStored
<1>8. CASE AllPosted
  BY <1>8, Expand DEF AllPosted, RemembersStored, FeedInductive, NewestIsNewest
<1>9. CASE Truncate \/ Save \/ SaveFails
  BY <1>9, Expand DEF Truncate, Save, SaveFails, RemembersStored
<1> QED
  BY <1>1, <1>2, <1>3, <1>4, <1>5, <1>6, <1>7, <1>8, <1>9 DEF Next

(* Once a last seen video is on disk, videos are passed over only when the *)
(* one last seen has left the feed: not by a restart, a failed save or a   *)
(* poll that ends early.                                                   *)
THEOREM NeverSilentlyRebaselined == Spec => NoSilentRebaseline
<1>1. Init => RemembersStored
  BY DEF Init, RemembersStored
<1>2. FeedInductive /\ RemembersStored /\ [Next]_vars =>
          [skipped' # skipped =>
              \/ stored = 0
              \/ /\ lastSeen # 0 /\ LeftFeed(lastSeen)
                 /\ lastSeen >= stored \/ stored \in deleted]_vars
  <2> SUFFICES ASSUME FeedInductive, RemembersStored, [Next]_vars, skipped' # skipped,
                      stored # 0
               PROVE  /\ lastSeen # 0 /\ LeftFeed(lastSeen)
                      /\ lastSeen >= stored \/ stored \in deleted
    BY DEF FeedInductive
  <2>1. Baseline
    BY DEF Next, Upload, TakeDown, Crash, Start, Shutdown, Exit, ProcessGone, FindNew, Post,
           PostFails, PostingStopped, AllPosted, Truncate, Save, SaveFails, vars
  <2>2. /\ lastSeen \in 1..uploaded /\ lastSeen \notin Feed
        /\ lastSeen >= stored \/ stored \in deleted
    BY <2>1, Expand DEF Baseline, Polling, RemembersStored, TypeOK
  <2>3. Cardinality(Newer(lastSeen)) \in Nat
    <3>1. IsFiniteSet(1..uploaded) /\ Newer(lastSeen) \subseteq 1..uploaded
      BY Expand, FS_Interval DEF Newer, Visible
    <3> QED
      BY <3>1, FS_Subset, FS_CardinalityType
  <2>4. LeftFeed(lastSeen)
    BY <2>2, <2>3, FeedAssumption DEF LeftFeed, Feed, Visible
  <2> QED
    BY <2>2, <2>4, Expand
<1> QED
  BY <1>1, <1>2, RemembersAcrossSteps, FeedInductiveHolds, PTL
     DEF Spec, NoSilentRebaseline
=============================================================================
