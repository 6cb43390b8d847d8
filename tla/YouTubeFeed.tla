---------------------------- MODULE YouTubeFeed ----------------------------
(***************************************************************************)
(* The YouTube feed poller of trishna: it reads a channel's feed, posts    *)
(* what is newer than the last video it has seen to a webhook, and keeps   *)
(* that video in memory and in youtube-state.json (internal/modules/       *)
(* youtube: service.go, state.go, feed.go, webhook.go).                    *)
(*                                                                         *)
(* Videos are numbered in the order of their upload; 0 is no video.  The   *)
(* list of channels in the code has one channel.                           *)
(***************************************************************************)
EXTENDS Naturals, FiniteSets

CONSTANTS
    MaxVideos,   \* bound on the uploads
    FeedSize,    \* entries of a feed
    MaxFaults,   \* bound on crashes, I/O errors, failed posts
    MaxStops     \* bound on orderly shutdowns

ASSUME FeedAssumption ==
    /\ MaxVideos \in Nat
    /\ FeedSize \in Nat \ {0}
    /\ MaxFaults \in Nat
    /\ MaxStops \in Nat

VARIABLES
    uploaded,  \* the newest video of the channel
    deleted,   \* videos that were taken down
    stored,    \* last seen video in youtube-state.json
    torn,      \* the file is truncated and not written yet
    up,        \* the process runs
    ctxDone,   \* the process context is cancelled (SIGTERM)
    pc,        \* pollChannel: "idle", "posting", "saving" or "writing"
    lastSeen,  \* State.channels, in memory
    newVideos, \* what the poll has still to post
    newest,    \* videos[0] of the feed it read
    posted,    \* messages the webhook has posted for a video (history)
    skipped,   \* videos a baseline or rebaseline passed over (history)
    faults, stops

channel == <<uploaded, deleted>>
file    == <<stored, torn>>
poll    == <<pc, lastSeen, newVideos, newest>>
history == <<posted, skipped>>
vars == <<channel, file, up, ctxDone, poll, history, faults, stops>>

Videos == 1..MaxVideos

TypeOK ==
    /\ uploaded \in 0..MaxVideos
    /\ deleted \subseteq 1..uploaded
    /\ stored \in 0..uploaded
    /\ torn \in BOOLEAN
    /\ up \in BOOLEAN
    /\ ctxDone \in BOOLEAN
    /\ pc \in {"idle", "posting", "saving", "writing"}
    /\ lastSeen \in 0..uploaded
    /\ newVideos \subseteq 1..uploaded
    /\ newest \in 0..uploaded
    /\ posted \in [Videos -> Nat]
    /\ skipped \subseteq 1..uploaded
    /\ faults \in Nat
    /\ stops \in Nat

Init ==
    /\ uploaded \in 0..MaxVideos
    /\ deleted = {}
    /\ stored = 0
    /\ torn = FALSE
    /\ up = TRUE
    /\ ctxDone = FALSE
    /\ pc = "idle"
    /\ lastSeen = 0
    /\ newVideos = {}
    /\ newest = 0
    /\ posted = [v \in Videos |-> 0]
    /\ skipped = {}
    /\ faults = 0
    /\ stops = 0

Fault ==
    /\ faults < MaxFaults
    /\ faults' = faults + 1

(***************************************************************************)
(* The channel, and its feed: the latest videos that are still up.         *)
(***************************************************************************)
Upload ==
    /\ uploaded < MaxVideos
    /\ uploaded' = uploaded + 1
    /\ UNCHANGED <<deleted, file, up, ctxDone, poll, history, faults, stops>>

TakeDown ==
    /\ \E v \in (1..uploaded) \ deleted : deleted' = deleted \cup {v}
    /\ UNCHANGED <<uploaded, file, up, ctxDone, poll, history, faults, stops>>

Visible == (1..uploaded) \ deleted

Newer(v) == {w \in Visible : w > v}

Feed == {v \in Visible : Cardinality(Newer(v)) < FeedSize}

First(videos, v) == v \in videos /\ \A w \in videos : w <= v

(***************************************************************************)
(* The process: LoadState reads the file; when it cannot be parsed the     *)
(* process ends, and launchd starts it again with the same result.         *)
(***************************************************************************)
ProcessGone ==
    /\ up' = FALSE
    /\ ctxDone' = FALSE
    /\ pc' = "idle"
    /\ lastSeen' = 0
    /\ newVideos' = {}
    /\ newest' = 0
    /\ UNCHANGED <<channel, file, history, stops>>

Crash == up /\ Fault /\ ProcessGone

\* Faulty: the state of the last process is not read.
StartFresh ==
    /\ ~up
    /\ ~torn
    /\ up' = TRUE
    /\ UNCHANGED <<channel, file, ctxDone, poll, history, faults, stops>>

Start ==
    /\ ~up
    /\ ~torn
    /\ up' = TRUE
    /\ lastSeen' = stored
    /\ UNCHANGED <<channel, file, ctxDone, pc, newVideos, newest, history, faults, stops>>

Shutdown ==
    /\ up /\ ~ctxDone
    /\ stops < MaxStops
    /\ ctxDone' = TRUE
    /\ stops' = stops + 1
    /\ UNCHANGED <<channel, file, up, poll, history, faults>>

Exit ==
    /\ up /\ ctxDone
    /\ pc = "idle"
    /\ ProcessGone
    /\ UNCHANGED faults

(***************************************************************************)
(* pollChannel.  A fetch that fails, finds no video or finds nothing new   *)
(* changes nothing.                                                        *)
(***************************************************************************)
Polling == up /\ ~ctxDone /\ pc = "idle"

(* No last seen video, or it is not in the feed any more: the newest one   *)
(* becomes the baseline and nothing is posted.                             *)
Baseline ==
    /\ Polling
    /\ lastSeen \notin Feed
    /\ \E v \in Feed :
        /\ First(Feed, v)
        /\ lastSeen' = v
        /\ skipped' = skipped \cup {w \in 1..v : posted[w] = 0}
    /\ pc' = "saving"
    /\ UNCHANGED <<channel, file, up, ctxDone, newVideos, newest, posted, faults, stops>>

\* Faulty: posts only when one video is new.
FindNewSingle ==
    /\ Polling
    /\ lastSeen \in Feed
    /\ newVideos' = {v \in Feed : v > lastSeen}
    /\ Cardinality(newVideos') = 1
    /\ newest' \in newVideos'
    /\ pc' = "posting"
    /\ UNCHANGED <<channel, file, up, ctxDone, lastSeen, history, faults, stops>>

\* Faulty: the last seen video counts as new.
FindNewOrSame ==
    /\ Polling
    /\ lastSeen \in Feed
    /\ newVideos' = Newer(lastSeen) \cup {lastSeen}
    /\ newest' \in Feed
    /\ First(Feed, newest')
    /\ pc' = "posting"
    /\ UNCHANGED <<channel, file, up, ctxDone, lastSeen, history, faults, stops>>

(* findNewVideos: those above the last seen one in the feed.               *)
FindNew ==
    /\ Polling
    /\ lastSeen \in Feed
    /\ newVideos' = {v \in Feed : v > lastSeen}
    /\ newVideos' # {}
    /\ newest' \in Feed
    /\ First(Feed, newest')
    /\ pc' = "posting"
    /\ UNCHANGED <<channel, file, up, ctxDone, lastSeen, history, faults, stops>>

\* Faulty: the order of the feed.
NewestFirst(v) == v \in newVideos /\ \A w \in newVideos : v >= w

Oldest(v) == v \in newVideos /\ \A w \in newVideos : v <= w

Post(v) ==
    /\ pc = "posting" /\ ~ctxDone
    /\ Oldest(v)
    /\ posted' = [posted EXCEPT ![v] = @ + 1]
    /\ newVideos' = newVideos \ {v}
    /\ UNCHANGED <<channel, file, up, ctxDone, pc, lastSeen, newest, skipped, faults, stops>>

(* PostVideo returns an error, or times out although it was posted: the    *)
(* poll ends, and nothing is remembered of what it has posted.             *)
PostFails ==
    /\ pc = "posting" /\ ~ctxDone
    /\ Fault
    /\ \E v \in newVideos :
        /\ Oldest(v)
        /\ \/ UNCHANGED posted
           \/ posted' = [posted EXCEPT ![v] = @ + 1]
    /\ pc' = "idle"
    /\ newVideos' = {}
    /\ newest' = 0
    /\ UNCHANGED <<channel, file, up, ctxDone, lastSeen, skipped, stops>>

(* The context is checked before every post.                               *)
PostingStopped ==
    /\ pc = "posting" /\ ctxDone
    /\ newVideos # {}
    /\ pc' = "idle"
    /\ newVideos' = {}
    /\ newest' = 0
    /\ UNCHANGED <<channel, file, up, ctxDone, lastSeen, history, faults, stops>>

\* Faulty: remembers the newest video of the channel.
AllPostedMarksLatest ==
    /\ pc = "posting"
    /\ newVideos = {}
    /\ lastSeen' = uploaded
    /\ pc' = "saving"
    /\ newest' = 0
    /\ UNCHANGED <<channel, file, up, ctxDone, newVideos, history, faults, stops>>

(* SetLastSeen, with the newest video of the feed that was read.           *)
AllPosted ==
    /\ pc = "posting"
    /\ newVideos = {}
    /\ lastSeen' = newest
    /\ pc' = "saving"
    /\ newest' = 0
    /\ UNCHANGED <<channel, file, up, ctxDone, newVideos, history, faults, stops>>

(* save: os.WriteFile truncates the file, then writes it.                  *)
Truncate ==
    /\ pc = "saving"
    /\ torn' = TRUE
    /\ pc' = "writing"
    /\ UNCHANGED <<channel, stored, up, ctxDone, lastSeen, newVideos, newest, history, faults, stops>>

Save ==
    /\ pc = "writing"
    /\ stored' = lastSeen
    /\ torn' = FALSE
    /\ pc' = "idle"
    /\ UNCHANGED <<channel, up, ctxDone, lastSeen, newVideos, newest, history, faults, stops>>

(* The file cannot be opened, or the write fails.                          *)
SaveFails ==
    /\ pc \in {"saving", "writing"}
    /\ Fault
    /\ pc' = "idle"
    /\ UNCHANGED <<channel, file, up, ctxDone, lastSeen, newVideos, newest, history, stops>>

Next ==
    \/ Upload \/ TakeDown
    \/ Crash \/ Start \/ Shutdown \/ Exit
    \/ Baseline \/ FindNew
    \/ \E v \in Videos : Post(v)
    \/ PostFails \/ PostingStopped \/ AllPosted
    \/ Truncate \/ Save \/ SaveFails

Spec == Init /\ [][Next]_vars

(***************************************************************************)
(* The process is restarted, the feed can be read, and the poller runs.    *)
(***************************************************************************)
Fairness ==
    /\ WF_vars(Start) /\ WF_vars(Exit)
    /\ WF_vars(Baseline) /\ WF_vars(FindNew)
    /\ WF_vars(\E v \in Videos : Post(v))
    /\ WF_vars(PostingStopped) /\ WF_vars(AllPosted)
    /\ WF_vars(Truncate) /\ WF_vars(Save)

FairSpec == Spec /\ Fairness

(***************************************************************************)
(* Properties.                                                             *)
(***************************************************************************)
Settled(v) == posted[v] > 0 \/ v \in skipped \/ v \in deleted

(* What the poller has marked as seen, in memory or on disk, it has        *)
(* posted, unless a baseline passed over it or it was taken down: a crash, *)
(* a failed post or an upload in the middle of a poll loses no video.      *)
SeenIsSettled ==
    /\ \A v \in 1..stored : Settled(v)
    /\ \A v \in 1..lastSeen : Settled(v)

(* SeenIsSettled is not inductive: the poll that is posting has read every *)
(* video up to the one it will mark.                                       *)
PollCoversFeed ==
    pc = "posting" => \A v \in 1..newest : Settled(v) \/ v \in newVideos

(* Once a last seen video is on disk, videos are passed over only when the *)
(* one last seen has itself left the feed, by deletion or because a whole  *)
(* feed of newer ones came: never because a restart, a failed save or an   *)
(* ended poll made the process forget it, or go back to an older one than  *)
(* the file names (unless that one was taken down).                        *)
LeftFeed(v) == v \in deleted \/ Cardinality(Newer(v)) >= FeedSize

NoSilentRebaseline ==
    [][skipped' # skipped =>
          \/ stored = 0
          \/ /\ lastSeen # 0 /\ LeftFeed(lastSeen)
             /\ lastSeen >= stored \/ stored \in deleted]_vars

(* What it rests on.                                                       *)
RemembersStored ==
    /\ up /\ stored # 0 => lastSeen # 0
    /\ up => lastSeen >= stored \/ stored \in deleted
    /\ pc = "posting" => newest # 0

(* Videos are posted in the order of their upload: one that was not passed *)
(* over is not posted for the first time after a newer one was.            *)
PostedInOrder ==
    [][\A v \in Videos \ skipped :
          posted[v] = 0 /\ posted'[v] > 0
              => \A w \in Videos : w > v => posted[w] = 0]_vars

(* A video is posted once, and once more only for every failed post,       *)
(* failed save, crash or shutdown.                                         *)
RepostsBounded == \A v \in Videos : posted[v] <= 1 + faults + stops

(* What that bound rests on: what the next poll, or this one, may still    *)
(* post has been posted only for the reasons that were counted.            *)
MayPost(v) ==
    \/ v \in newVideos
    \/ v \in Visible /\ v > lastSeen /\ (pc = "posting" => v > newest)

RepostsCounted ==
    /\ \A v \in Videos : v > uploaded => posted[v] = 0
    /\ ~up \/ ctxDone => \A v \in Videos : posted[v] <= faults + stops
    /\ \A v \in Videos : MayPost(v) => posted[v] <= faults + stops

ProcessIdle ==
    /\ pc # "posting" => newVideos = {}
    /\ ~up => pc = "idle" /\ ~ctxDone /\ newVideos = {}

NewestIsNewest ==
    /\ \A v \in newVideos : v <= newest
    /\ pc = "posting" => lastSeen <= newest

FeedInductive ==
    /\ TypeOK /\ ProcessIdle /\ NewestIsNewest
    /\ SeenIsSettled /\ PollCoversFeed
    /\ RepostsBounded /\ RepostsCounted

(* Every upload is posted or passed over, whatever fails finitely often,   *)
(* unless a crash or a failed write has left half a file to the next       *)
(* process: it does not start.                                             *)
UploadsSettled ==
    \A v \in Videos : v <= uploaded ~> (Settled(v) \/ (torn /\ ~up))
=============================================================================
