# A verification development for trishna-go

TLA+ models of the bots of this repository, checked by TLC on small instances,
and theorems about them proved with TLAPS.

## The system

Two processes. **trishna** (`cmd/trishna`) runs four services side by side:
the Discord bot, the Telegram bot, the YouTube feed poller and the YouTube live
chat bot. **shawnb** (`cmd/shawnb`) is a Discord chat bot with two background
services, a heartbeat and a reminder scheduler. launchd restarts a process that
ends.

| part | state it keeps | operations | interacts with |
|---|---|---|---|
| reminders (`internal/reminder`) | `reminders.json`; per-user cooldown | `TrySchedule`, `tick`, `fire`, the store | chat calls it, Discord posts, App.Run starts the scheduler |
| Discord application (`internal/bot`) | health, failure count, `runtime.State` | `App.Run`, `Service.Run`, Ready events | starts the background services |
| heartbeat (`internal/shawnb`) | `heartbeat.json` | writer loop; reader with staleness | trishna's `/status` reads it |
| cooldowns (`internal/ratelimit`) | last time per key | `Allow` | chat, reminders |
| owner alerts (`internal/ownernotify`) | cooldown per user, two slots | `MaybeNotify` | chat starts it |
| Discord chat (`internal/modules/chat`) | history per user and channel | message, `/reset` | language model, reminders, alerts |
| YouTube feed (`internal/modules/youtube`) | last seen video per channel, on disk | `pollChannel` | webhook |
| YouTube live chat, stream bot | seen and sent messages; game, on disk | `runChat`, `Handle` | YouTube API |
| OAuth token | token file | `Token`, `SaveToken` | live chat, the command `trishna auth youtube` |
| Telegram (`internal/telegram`) | update offset, health | `poll`, `handleUpdate` | Bot API or MTProto |
| supervisor (`internal/runtime`) | – | `RunServices`, retry schedule | all services |

What makes them hard: several goroutines on one file or map, a copy that is
used after the lock is released, calls to a language model that take a minute
in the middle of an operation, retries that start something twice, shutdown in
the middle of any of it, and files that a crash can find half updated.

PROJECT.json lists every component and every hazard at its line.

## Modules

| module | what it is |
|---|---|
| `ReminderStore` | the operations of `store.go` as functions on the file |
| `Reminders` | coordinator, scheduler loops, process life: the state machine |
| `ReminderPromise` | abstract: reminders are accepted, pending, delivered, cancelled, exhausted |
| `MCReminders` | symmetry for TLC |
| `YouTubeFeed` | feed poller, its state file, the webhook |
| `RetryLoop` | abstract: work, wait and try again, give up when the retry schedule is used up |
| `DiscordService` | `Service.Run` and `App.Run` of a bot: retries, health, background services |
| `Heartbeat` | extends `DiscordService`: shawnb's heartbeat file, and the monitor that reads it |
| `YouTubeChat` | live chat service composed with the stream bot |
| `TelegramService` | the Telegram service over the Bot API |
| `TelegramTransports` | extends it by the transport over MTProto |
| `Trishna` | extends that by the process: `RunServices` with Telegram and other services |
| `OwnerNotify` | alerts of shawnb's owner, with the cooldown they pass |
| `ChatReply` | an answer on its way: model calls, splitting, posting |
| `ChatConversation` | extends it by what leads to an answer: histories, cooldown, `/reset` |
| `OAuthToken` | the stream bot and the command that share a token file |
| `ReminderProofs`, `YouTubeFeedProofs`, `YouTubeChatProofs`, `HeartbeatProofs`, `TelegramProofs`, `OwnerNotifyProofs`, `ChatProofs`, `OAuthTokenProofs` | theorems |

`DiscordService` and `TelegramTransports` both implement `RetryLoop`
(`KeepsSchedule`), as both call `RetryDelay`; `Reminders` implements
`ReminderPromise`. `Heartbeat`, `Trishna` and `ChatConversation` are
compositions: each extends the component it lets interact.

Definitions whose comment starts with *Faulty:* are mutated forms of the
definition that follows them. No specification uses them: they show that a
property notices the mistake they make (PROJECT.json, "mutants").

Conventions. What only a property reads is marked *history*; no guard of the
program reads it. What fails is a choice, counted by `faults` (failed calls,
I/O errors, crashes) up to `MaxFaults`; `stops` counts SIGTERMs. These bounds
make the instances finite; the theorems hold for every value of them. A wait of
unknown length is a step that may come at any time. A write with `os.WriteFile`
is two steps, truncation and writing, wherever the file is read again after a
crash; the heartbeat's and the reminders' files, which are renamed into place,
are one. `CHECK_DEADLOCK FALSE` is said where a run may really stop: all work is
done and the bounds are used up, or the service has given up.

### Reminders

`reminders` is the content of the JSON file, a set of records. The store's
mutex covers each operation from read to rename, so each is one function.
A handler goes through `TrySchedule` in steps (`request[h]`): the cooldown and
the clock (`Receive`), the model's answer (`Parsed...`), the store
(`AddReminder`, `CancelAll`, `StoreError`), the confirmation (`Confirm`). A
scheduler loop copies the due reminders (`Tick`) and takes the first of its
copy through `DropExhausted`, `BeginSend`, `SendOK` or `SendFails`,
`CountFailure`, `RemoveSent`; `stage[l]` says where it is. Between two of these steps
everything else may happen. `RunApp`, `OpenFails`, `OpenGateway`, `MarkReady`,
`Shutdown` and `Exit` are `App.Run`; a failed attempt leaves its loop in
`running`. `Crash` may happen at any step. A send may fail although the message
was posted: when the answer is lost, which is a fault, or when the shutdown
cancels the context it carries (scheduler.go:108), which is none. Time is counted
in scheduler ticks of 15 s.

`sent`, `failed`, `cancelled`, `cancelAcked`, `dueOf` and `faults` are history:
no guard of the program reads them.

| run | instance | shows |
|---|---|---|
| `reminders_one_loop` | 1 user, 1 loop, 2 reminders, clock to 3, 2 attempts, 2 faults, 1 shutdown | a reminder is posted at most once plus once per crash, I/O error, lost response or shutdown (which may cut short the request that posts it), never before its time; its failed sends are bounded by the attempts plus the faults |
| `reminders_shared` | 2 loops, 1 reminder, 1 fault, 1 shutdown, fair | nothing is lost with loops that share the store, the promise is kept, reminders are settled, shutdown completes |
| `reminders_duplicate` | 2 loops, no fault | *violated*: after a failed attempt to connect a reminder is posted by each loop |
| `reminders_cancel_race` | 1 loop, no fault | *violated*: a cancelled reminder is posted after the confirmation |

Two reminders are enough for a copy with something before and after the
reminder being fired; two attempts reach the limit with one count lost and one
kept; a clock to 3 has a reminder that is due, one that is not and a second
cooldown window. Fairness: the clock, launchd, a connection that eventually
succeeds, and every loop that can step; nothing is assumed of sends, which may
all fail, nor of users.

Proved for every number of users, handlers, loops and every bound
(`ParametersAssumption`: naturals, a finite set of loops, at least one
attempt): `TypeCorrect`, `ReminderNeverLost`, `ReminderNeverEarly`,
`ReminderNoResurrection` (a reminder that left the file does not come back),
`RemindersKeepPromise`; and for one loop (`OneLoop`)
`ReminderDeliveredOnce`, `ReminderAttemptsBounded`. `NothingLost` is not
inductive: a reminder may be dropped because an old copy says its attempts are
used up, so the proof needs that no count, in the file or in a copy, exceeds
the sends that failed. A loop counts a failure after it happened, in a file
others write as well, so `FileSound` adds to the file's count the loops that
have still to count (`Counting`); this is where the finite sets come in.
`NothingLostInductive` was checked with TLC before it was proved. The
refinement needs `UniqueIds` besides, for a cancellation to remove exactly the
user's identifiers.

The bounds of one loop rest on `Bounds`: what is posted and still in the file
was posted before a counted fault or shutdown, and the one copy agrees with the
file. `BeginSend` asks whether the context is done and the posting comes after
it, so a shutdown can come in between; the bound therefore counts shutdowns, and
it is reached.
Fairness properties (`EveryReminderSettled`, `ShutdownCompletes`) are only
model-checked.

### YouTube feed

Videos are numbered by upload; the feed has the newest `FeedSize` that were not
taken down. One channel, as in the code's list. `pollChannel` is `Baseline`
(nothing seen yet, or the video last seen has gone) or `FindNew`, then `Post`,
`PostFails`, `PostingStopped`, `AllPosted`, `Truncate`, `Save`, `SaveFails`.
Uploads and removals happen between any two of them. The feed is always
current: a delayed feed is a later upload.

| run | instance | shows |
|---|---|---|
| `youtube_feed` | 4 videos, feed of 3, 2 faults, 1 shutdown, fair | nothing is marked as seen that was not posted, passed over by a baseline, or taken down; a video is posted once, plus once per fault or shutdown; once a last seen video is on disk, others are passed over only when the one last seen was taken down or a whole feed of newer ones came, never because the process forgot it or fell back behind the file; posts are in order; every upload is settled, unless a torn state file is left |

Four videos and a feed of three let the last seen video fall out of the feed.
Fairness: of each step of the poller, of restart, and of its posts: failures
are finitely many. A post that fails is tried again at the next poll only.

Proved: `NoVideoLost`, `VideoRepostsBounded`. `SeenIsSettled` needs to know
what a batch in progress still holds: everything between `lastSeen` and
`newest` is settled or in `newVideos` (`FeedInductive`). That the feed holds
all that is newer than any of its entries is a lemma on cardinalities
(`FeedIsUpwardClosed`).

Proved besides: `VideosPostedInOrder` and `NeverSilentlyRebaselined`. That posts
are in order needs an account of the past as well: nothing newer was posted than
what the poller still owes (`InOrder`), so that a batch that is begun again
after a fault does not overtake what it left behind. That a video is passed
over only when the video last seen has left the feed, and not because the
poller forgot it or went back to an older one, needs that the memory of a running
process is not behind the file, unless the video the file names was taken down
(`RemembersStored`).

### Discord service, heartbeat and monitor

`DiscordService` has `Service.Run` (creating, retrying, giving up, stopping)
around `App.Run` (background services started, gateway opened, Ready,
shutdown); the service without a token, which only reports that it is disabled,
is left out. The health may be written by the retry loop and by gateway events.
A failed `Open` returns with the services it started still running
(`running` is larger than `waited`). `Heartbeat` extends it by a writer per
element of `running`, the file with its age, and `Online`, the monitor's
verdict. Time passes in refresh periods, ages stop at `StaleAfter + 1`; a writer
may write at any time (`Beat`), fail and end (`BeatFails`), and writes once
more when the context is cancelled (`LastBeat`).

| run | instance | shows |
|---|---|---|
| `heartbeat` | 4 loops, 2 retries, stale after 2, 1 crash, 1 shutdown, 1 write error, fair | health tells what the service does; the service implements the retry loop: it gives up only after a whole schedule of attempts in a row; the monitor calls the bot online only if it was ready within `staleAfter`; an orderly exit leaves "not ready", unless a write failed or the heartbeat of a failed attempt outlives it; a bot that is ready is found online again and again, unless all its heartbeats have ended |

Four loops are the attempts of two retries and a restart. Fairness: each step of
the service, its timers, time, the writers, launchd; of a connection only that
it succeeds or fails. The network may refuse for ever; then the service gives
up and waits for a manual restart, which is why no run asks it to serve.

Proved: `HealthIsTruthful`, `HeartbeatKeepsSchedule`, `NeverStaleOnline`,
`LeakIsBounded` and `HeartbeatLeakIsBounded` (attempts leave at most
`MaxRetries + 1` goroutines behind), for every retry schedule and every
`StaleAfter` (`ServiceAssumption`, `HeartbeatAssumption`). `LeakBounded` needs
that each goroutine left behind was a counted failure (`Counted`);
`OnlineOnlyRecently` that a file that says "ready" was true when it was written
(`FileWasTrue`). The type of both is part of these invariants. That the bot
stays online is a fairness property, model-checked.

`HeartbeatExitsOffline`: an orderly exit leaves a file that does not say
"ready", unless a write failed or the heartbeat of a failed attempt was still
running. `LastWord` says it of every moment from the start of an attempt: the
file does not say "ready", or there is a writer that has yet to write, or a
write has failed.

### YouTube live chat and stream bot

One broadcast. A message is its place in the chat; its text is a viewer's
command ("ask"), the owner's `!setgame`, or an answer of the bot, which it
reads like any other. `Replies` contains "ask" when a response file holds a
command. `ChatService.Run` finds the broadcast, detects the game and enters
`runChat`; the first page without a token is the latest `PageSize` messages and
is only remembered, one message a step as well; then pages are polled and
handled.
The bot's cooldowns, per command and in memory, and the half hours between
announcements end by `CooldownPasses` and `HalfHourPasses`. A text the bot has
sent is forgotten by `TextExpires`, each by itself and wherever the bot is then:
between the sending and the reading, in the middle of a page, without a
connection. `recent`, history, has the messages of the bot whose minute has not
passed; `awaited` those of others that were said after the first page of a
connection and were not given to the bot yet. `activeBroadcast` is one call.
`PageSize <= SeenLimit` is the code's 200 <= 1000.

| run | instance | shows |
|---|---|---|
| `youtube_chat` | 2 messages, 2 faults, page and memory of 2, 1 half hour | no message is answered twice whatever page is read again; a command is answered once per cooldown through reconnections; there is one announcement, one more per half hour, and one more for each failed call, crash or shutdown, as each can lead to another connection, which announces at once; health that says connected, without an error, is that of a service that is |
| `youtube_chat_live` | an answer that is itself a command, 1 message, 2 faults, 1 text forgotten, 1 shutdown, fair | the bot does not answer a message it has written within the minute; every single message that is said after the first page of a connection is given to the bot, unless the chat ends or is entered again |

Two messages and their answers fill and overflow pages and memory of two. The
texts of the second run need answers, not many messages. Fairness: the
service's goroutine steps (calls return, possibly with an error, of which there
are finitely many) and launchd restarts it. Nothing is assumed of when the
bot reads what it wrote: read after its minute, it is a message like any other.
"Given to the bot" is what `CatchesUp` promises; the bot may fail to answer (its
state file may be torn).

`YouTubeChatProofs` proves all of these safety properties for every page size,
memory and bound. `RateLimited` and `PromosSpaced` need a conjunct each (who has
an answer has started a cooldown; what is due has not been announced).
`AnsweredOnce` and `NeverAnswersItself` need an account of what is forgotten:
saying that what was answered is in `seen` is not inductive, since `seen` is
bounded and messages leave it.
The invariant is `Inv`:

- `Shape`: types, and a page is consecutive (`Reading`);
- `Order`: `seen` is rising; what is still on the page is in `seen` or later
  than all of it (`InOrder`); a message that was read and is forgotten lies
  `PageSize` or more behind one that is known (`NoGap`); a page read with a
  token begins less than a page behind what is known and leaves nothing out
  (`TokenFits`). So a page, which is shorter than `SeenLimit`, never reaches
  back to what is forgotten;
- `Answers`: a message that was answered is `Passed`, that is, behind what is
  remembered, or on the page that is only remembered; so is a message of the
  bot in `recent` whose text has left `sent`.

Every step is one of four kinds (`StepKinds`): it leaves the page alone, reads
one, handles a message of it (`Onward`), or ends the process; `Order` and
`Passed` have one lemma for each. The argument needs `PageSize <= SeenLimit`.

### Telegram, and the process of trishna

`TelegramService` is the service over the Bot API. Telegram keeps an update
until a higher offset is asked for; an offset of -1 returns the last one, and
what comes after that is kept. `TelegramTransports` adds MTProto: gotd's client
connects (`Link`), finds out who it is (`Authorize`), writes the user name
(`SetUsername`, after a moment in which a reader could see half of it), says
that it runs (`RecordRunning`) and waits; its dispatcher hands updates over from
the moment it is connected (`Receive...`). The transport is chosen at the
start. gotd is external and modelled from its use: it hands an update over at
most once, it forgets what comes when there is no connection, and `Run` fails
when the connection cannot be had or kept. `Trishna` is the process:
`RunServices` starts Telegram and `Others`, which may return at any time and are
then not started again; it ends when it was told to and all have returned.

| run | instance | shows |
|---|---|---|
| `telegram` | both transports, 1 other service, 3 updates, pages of 2, 2 retries, 4 faults, 1 shutdown, fair | no update is answered twice; over the Bot API none is answered that was there before the service connected (over MTProto nothing is dropped, and nothing is claimed); a command sent while the service serves is answered, unless a call failed or it was stopped; with either transport the service implements the retry loop; every update is handled, dropped or lost, unless the service gave up; SIGTERM ends the process wherever its services are |

Three updates make a full page and another; four faults exhaust the schedule
(three) and leave one. One other service is enough for one that returns before
Telegram, after it, or not at all. `heard`, history, collects the updates that
were sent while the service was serving: over the Bot API after the stale ones
were dropped, over MTProto after the service said that it runs. Fairness: the
Telegram service does not rest and its waits end, a service returns when its
context is done (`<-ctx.Done()` is in every loop of the code), launchd restarts
the process. `UpdatesSettled` and `ShutdownCompletes` have the form `[]<>`: what
is asked of the service is asked again and again.

Proved, for every page size, schedule, set of services and number of updates
and faults: `TrishnaAnsweredOnce`, `TrishnaStaleNotAnswered`,
`TrishnaKeepsSchedule`, and of the Bot API
alone `TelegramTypeCorrect` and `TelegramGivesUpWhenRefused`. The invariant of
the Bot API (`TelegramInductive`) says that all that was answered, and the
backlog, comes before the next update (`Behind`), and that the count of failures
is that of refusals, plus perhaps the break before them (`Counted`). With
MTProto the next update is what Telegram has still to send (`HandedOnce`), and
the count is one of a row that began when the service last ran
(`TrishnaInductive`).

`TrishnaHeardIsAnswered`: a command that was sent while the service serves is
answered, or still to be answered, over either transport, unless a call failed
or the service was stopped. Over MTProto the name of the bot is known from
before the service says that it runs (`NameKnown`), so a command sent to it by
its name is not taken for another's; and as long as nothing has failed, the
service serves from the first update that was heard on and has answered those
it has passed (`HeardInOrder`, with `Frontier` the next update of either
transport).

### Owner alerts and cooldown

Every accepted message starts a goroutine (`stage[m]`), which reads the clock,
passes `Cooldown.Allow` under its lock, takes a slot or is dropped, asks the
model, and writes to the owner. The model's verdict is fixed when the message
comes, as a free choice. The clock counts units of which `Cooldown` are one
cooldown; a goroutine may wait for the lock while the clock goes on.

| run | instance | shows |
|---|---|---|
| `owner_notify` | 3 messages, 2 users, 2 slots, clock to 2, cooldown 2, 1 fault | the model is asked about a user once, and once per cooldown that has passed, in whatever order goroutines take the lock; an urgent message is not delivered only because a call failed, its author was asked about within the cooldown, or as many goroutines as there are slots were really at work (`crowded`, so that a slot that is not given back shows) |

Three messages are one more than the slots. There is no liveness to ask for: a
goroutine ends with its calls. The questions, and so the alerts, are not a
cooldown apart: the clock is read before the lock and the call comes after both,
so two of them may come together, and only their number is bounded
(`AlertsBounded`).

Proved, for every number of slots, users and messages: `AlertsAreBounded` (every
message that passes moves what the cooldown remembers of its author on by a
cooldown at least, and never past the clock, `Counted`) and `UrgentMessagesReach` (each slot
is held by exactly one goroutine in a stage between taking and giving back,
which is a fact about cardinalities).

### Discord chat

The client hands over one event after the other, because `bot.go` gives disgo
no option that makes its events asynchronous; so a `/reset` comes before a
message or after its answer, never between (`Listen`, `Reset` need `pc =
"idle"`). A handler appends the message to the history of its user and channel
(`Listen`), lets the reminders have it (`Confirm`), refuses it for its cooldown
(`Refuse`) or asks the model with a copy of the history (`Ask`), records the
answer (`Record`), then splits and sends it (`Deliver`). `Crash` may come at
any step and empties the histories, which are not kept on disk. `ChatReply` has
the answer's calls with continuations, `splitForDiscord` and the posts. Texts
are sequences in which space and newline are told from the rest; whether an
answer was cut off (`needsContinuation`) is a free choice. Nothing is said of
time: a user with an entry in the cooldown may have to wait, or not. The typing
indicator, and the chat log, which nothing reads back, are left out; the start
of alerts is `OwnerNotify`.

| run | instance | shows |
|---|---|---|
| `chat` | 3 messages of 2 users, one of whom writes directly as well, a channel, histories of 3; answers of 6 characters with up to 1 blank, 1 continuation, messages of 5; 1 fault, fair | the model is given nothing of another user or channel, or from before a `/reset`; it is given all that was written and read since then, or as much of the end as a history holds; no message is empty or too long; all that was said is posted, from the beginning and without a gap; every message is done with |

Three messages and their answers overflow a history of three. An answer of six
characters, or two of them, is longer than a message of five, whose last quarter
(places 4 and 5) has a cut at a newline, at a space, or none. Two channels of
one user and two users of one channel are what a key could confuse. Fairness: a
handler is not interrupted, and each of its calls has a timeout.

The model may besides be given answers that nobody read, as an answer is
recorded before it is sent; `Remembers` says exactly that.

Proved, for all users, channels, limits and texts of any length:

- `ChatKeepsApart`: each history, and the copy the model is given, holds only
  what was exchanged in that conversation since it was cleared, or answers to
  such messages.
- `ChatRemembers`. A history without the answers nobody has read is the end of
  what was exchanged, and all of it unless the history is full (`Recalls`). It
  holds the answer before the first part of it is read, and is shortened in
  between, so `RecallInductive` follows the answer: nothing is known of a later
  message (`Earlier`), an answer is not in the history before it is recorded
  (`Unanswered`), and is its last entry from then on (`Recorded`).
- `ChatMessagesFit` and `ChatAllSaid`. `ReplyInductive` says that what is
  posted, queued and left to be split are the answer, in this order and but for
  blanks (`InPieces`), and that the answer is all the calls have returned
  (`Complete`). A cut is at least one character and at most a message
  (`CutFits`), and trimming and joining lose no letter (`TrimIs`, `JoinSays`).
- `ChatHandlerEnds`: each step of a handler takes it to a later stage, or
  leaves fewer calls, less text or fewer messages. This is the measure under
  the liveness of `MessageSettled`: no text is split for ever.
- `ChatTypeCorrect`.

The theorems assume that the lengths of what the model may say are a finite set
of positive numbers (`ReplyAssumption`), as `num_predict` bounds them; they do
not depend on the bound.

### OAuth token

The bot (`TokenSource.Token`: `Use`, `Load`, `Refresh`) and the command
(`Approve`, `ExchangeCode`) are two processes on one file. A grant is what a
refresh token stands for; grants are not revoked. A kill or a failed write after
the truncation leaves a torn file (`Crash`, `SaveFails`); two writes at once may
leave the end of the longer one (`overlaid`). `overtaken` records that the bot was
refreshing an older token while the command saved.

| run | instance | shows |
|---|---|---|
| `oauth_token` | 2 runs of the command, 2 faults, 2 crashes, fair | a refresh does not drop the refresh token, though Google's answers have none; a new token stays unless it was overtaken; tokens are had again and again unless the file is torn or the command was given no refresh token |

Fairness: the bot asks for tokens for ever. Proved: `RefreshTokenIsKept`,
`NewGrantIsKept`. A file is replaced by what a process holds, so
`TokenInductive` says the same of what is on its way (`OnItsWay`). Both are about
a file that can be read and a command that was given a refresh token: a torn
file has lost it, and the command saves a token without one over a token that
has it.

## Assumptions and limits of the proofs

Every theorem is about the specification without fairness and for all constants
that satisfy the module's named ASSUME: bounds are naturals, sets of loops
finite, sizes of pages and numbers of attempts positive. Every safety
invariant and action property of the runs that pass has a theorem. What is
model-checked only is liveness, for which the prover has no rule:
`EveryReminderSettled`, `ShutdownCompletes`, `UploadsSettled`, `StaysOnline`,
`CatchesUp`, `UpdatesSettled`, `MessageSettled` and `KeepsServing`; of these the
instance of the run is all that is known. `ENABLED` is not used in a proof.

What `FlattenSeq` makes of a sequence of messages is a fact about all sequences.
The prover cannot instantiate the library's induction rules, which take an
operator; `ChatProofs` derives its own from the existence of a least number
(`LeastNumber`): a set of sequences that has the empty one and is closed under
`Append` has all of them (`SeqInduction`).

## Not modelled

- The status report and the collectors of `internal/platform`: they read and
  format, and no state depends on them. `ollama/monitor.go` is one request for
  that report.
- The chat log: a file that is appended to and never read.
- Configuration, prompts, build info, the ping command, the scripts under
  `deploy/`: parsing and wording, done once at the start.
- Network reports of Telegram (`netreport.go`): the text of one answer.

## Where the code departs from its documentation

Runs that end in a counterexample:

- `reminders_duplicate`: each failed attempt to connect leaves a scheduler loop
  on the same file; a reminder is posted by each (`internal/bot/bot.go`).
- `reminders_cancel_race`: a reminder is posted after its user was told that it
  is cancelled (`internal/reminder/scheduler.go`).

Seen in the models, with a behaviour of the specification but no run:

| where | what |
|---|---|
| `reminder/scheduler.go:108` | the send carries the context of the shutdown: a request it cuts short may have posted, and the reminder is posted again after the restart |
| `reminder/parse.go:79` | the clock is read before the model is asked, so a reminder may be added after its time |
| `youtube/service.go:242` | a failed post stops the batch and what was posted of it is posted again (README.md:143) |
| `youtube/state.go:78`, `streambot/state.go:72` | a crash while the file is written leaves one that cannot be read; the feed's process then fails at start, the stream bot's commands fail |
| `telegram/mtproto.go:79` | a command sent to the bot by its name is ignored between the connection and the moment the name is known; the name is read and written without a lock, and half a string is one a process can die of |
| `telegram/mtproto.go:95` | health stays "running" while gotd reconnects: it is only written again when its `Run` fails |
| `chat/chat.go:213` | an answer is in the history although it could not be sent: the model believes it said what nobody read |
| `bot/bot.go:114` | the heartbeat of a failed attempt goes on, with the ready flag of its process |
| `shawnb/heartbeat/heartbeat.go:143` | readiness is never taken back: a gateway that was lost is not told to the monitor (README.md:89) |
| `shawnb/heartbeat/heartbeat.go:145` | one failed write ends the heartbeat of a bot that stays connected |
| `youtube/chat_service.go:166` | entering the chat again detects the game again, over the owner's `!setgame` (README.md:103) |
| `youtube/chat_service.go:218` | the time of the next announcement is forgotten with the connection, so announcements may be closer than half an hour (README.md:175) |
| `youtube/chat_service.go:360` | the bot knows its messages by their text for a minute: one that is read later, and holds a command, is answered |
| `ratelimit/cooldown.go:26` | the clock is read before the lock, so two alerts about a user may come together, and an old time is compared with a newer one |
| `ownernotify/notifier.go:78` | small talk uses the cooldown up, and an urgent message after it is not looked at (README.md:115) |
| `youtube/oauth.go:97` | a refresh that began before the command saved writes over the new token |
| `youtube/oauth.go:299` | a crash, a write cut short, or two writes at once leave a token file that cannot be read (README.md:97) |

## Plan

What may be added:

1. An abstract delivery of updates (an update is answered at most once, a stale
   one never) which both transports and the live chat implement.
2. Two broadcasts in `YouTubeChat`, and the feed and live chat as services of
   `Trishna` in full.
