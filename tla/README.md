# HubMQ, modelled in TLA+

HubMQ is a Rust daemon that sits between publishers (HTTP webhooks, agents,
timers, mailboxes, Telegram bots) and outlets (email, ntfy, Telegram), with NATS
JetStream as its only durable queue. This directory holds TLA+ modules of its
core, TLC configurations that check them on small instances, and theorems about
them that TLAPS checks. `PROJECT.json` maps every definition to the source lines
it stands for.

## 1. Inventory

| Component | State it keeps | Operations | Talks to |
|---|---|---|---|
| HTTP ingestion (`source/webhook.rs`) | none of its own | `ingest_generic`, `ingest_wazuh`, `ingest_forgejo`, `publish` | dedup cache, rate limiter, NATS, outbox, audit |
| Dedup cache (`filter/dedup.rs`) | map hash → instant, under a mutex, in memory | `check_and_record` | ingestion |
| Rate limiter (`filter/ratelimit.rs`) | a token bucket per (source, tier), under a mutex, in memory | `allow` | ingestion |
| Outbox and audit (`queue.rs`, `audit.rs`, SQLite) | rows on disk | `enqueue`, `mark_delivered`, `audit.log` | ingestion, dispatcher |
| NATS JetStream (external, set up in `nats_conn.rs`) | six streams with limits, durable pull consumers | publish, deliver, ack, ack wait | everybody |
| Severity routing (`filter/severity.rs`, `message.rs`) | the quiet hours | `route`, `is_quiet_hours`, `from_wazuh_level` | ingestion, dispatcher |
| Dispatcher, downstream (`dispatcher.rs`) | sinks per generation; a task per stream with a buffer of prefetched messages | `run_downstream`, `consume`, `route_and_deliver`, `select_telegram_sink` | AGENTS, CRON, sinks, outbox, audit |
| Upstream loop and bridge (`dispatcher.rs`, `bridge.rs`) | none | `run_upstream`, `forward_from_telegram` | USER_IN, msg-relay |
| LLM listener (`listener/llm_openai.rs`) | a durable consumer per agent | `run`, `handle_message`, `publish_response` | USER_IN, an LLM, AGENTS |
| Telegram and email sources | long-poll offset; the IMAP flag `\Seen` | `handle`; `poll_once`, `process_email` | USER_IN |
| Registry (`config.rs`, conf.d) | bots and agents under a lock | `load_conf_d`, `merge`, `find_bot`, `find_agent` | everything that main starts |
| Admin consumer (`admin.rs`) | credential files, `bots.toml` | `handle_bot_add`, `handle_bot_remove` | ADMIN, main by SIGHUP |
| Process (`main.rs`, systemd) | the handles of all the tasks | start, SIGHUP reload, shutdown, crash and restart | everything |
| Sinks | none | `deliver` | the world |
| BigBrother and its watchdog (`deploy/bigbrother-agent`) | the DONE lines of a log, the instant of the last message in a file | an hourly analysis; a check every half hour | ALERTS, Telegram |

How they interact: ingestion publishes on ALERTS; agents and jobs publish on
AGENTS and CRON, which the dispatcher's two consumer tasks pull from; users'
messages land on USER_IN, which the listeners and the upstream loop both read;
a listener answers on AGENTS, and the dispatcher carries the answer back. An
admin command edits conf.d and sends the process a SIGHUP, on which main builds
a new dispatcher, new pollers and listeners. No task of the daemon reads ALERTS:
BigBrother's analysis does, and the watchdog tells the user when it falls silent.

What is hard about it:

* **Concurrency.** Webhook handlers run in parallel around two mutexes; consumer
  tasks of several generations share one durable, because a reload aborts the
  task that waits in `Dispatcher::run` but not the tasks it spawned.
* **Failure.** Crash and restart at every await; the ack, the audit row, the
  outbox row and the server's answer to a publish can each be lost alone; the
  first error of a message stream ends its consumer; a write to conf.d may fail
  halfway; ntfy, Apprise and msg-relay are called without a timeout.
* **Ordering and time.** Redelivery after the ack wait while the first copy is
  still being sent; the clock of the dedup cache read before the lock; quiet hours
  that begin between a delivery and its redelivery.
* **Limits.** A full stream drops its oldest message; a bucket is capped.

What makes each component correct:

* routing: the quiet hours are the interval they look like; a message goes where
  one routing decision sends it, and stays in its thread;
* dispatcher: ack after routing, duplicates only by redelivery, an audit log that
  does not overclaim, progress;
* ingestion: the status codes tell the truth; two messages that pass with one key
  lie a window apart; an alert is silent only as long as it repeats; a refusal has a
  cause of its own kind;
* watchdog: an alert is heard of within a bound, at most one message an hour;
* limiter: at most the capacity and the refills get through in any stretch;
* registry and admin: the running bots converge to conf.d, one poller
  per bot, a credential for every declared bot, an end to reloads;
* conversation: what a user wrote is handed on, answered, and settled, or lost for
  a reason; it is asked and answered twice only where the protocol must; the answer
  returns to the conversation it came from.

## 2. Modules

| Module | Models |
|---|---|
| `SeverityRouting` | severities, channels, `route`, as pure operators |
| `JetStream` | one durable consumer on a limited stream, as HubMQ uses it; its actions are conjoined by the module that uses it |
| `Dispatcher` (extends both) | the downstream half, its generations, reload, crash, restart |
| `AtLeastOnce` | the abstract promise of a durable stream: a message is lost only by eviction, and settled only when it was served |
| `RateLimiter` | token buckets, in integers |
| `Ingest` (extends `RateLimiter`, `SeverityRouting`) | the webhook handlers, dedup cache and outbox |
| `BotAdmin` | conf.d, the registry, the admin consumer, SIGHUP and the reload of `main`, the polling tasks |
| `Conversation` | the Telegram and email sources, USER_IN with its readers (listeners, upstream loop and bridge), the answer |
| `MailText` | pure operators: the route a mail's subject names, the token in its body, the subject of the answer, with references over all short subjects and bodies |
| `Watchdog` | BigBrother's analysis and its watchdog, with their clocks |
| `MC*` | small instances for TLC |
| `*_proofs` | theorems |

### How the models correspond to the code

**One action per stretch between two awaits (or two locks).** tokio may run
anything else at an await, so the actions' interleavings are those of the runtime.

*Dispatcher.* `pc[t]` is the position of the task in `consume` and
`route_and_deliver`: `recv` (the `msgs.next().await`), `log` and `audit` (the
audit rows), `deliver` (before the next sink), `ack`. `cur[t]`, `todo[t]` are the
message in hand and the channels it has left; `buf[t]` is what the pull request
has prefetched. A *generation* is one call of `spawn_all`; a task is named by its
generation and its stream. `Receive` parses and routes in one step because
nothing awaits between `msgs.next()` and the first audit or delivery. A delivery
and the outbox update write nothing else. The audit row of a delivery follows it
as a step of its own, and either is written or is not (the code ignores the
error). `MarkDelivered` changes no outbox row: the rows come from
webhooks, which publish on ALERTS, and the dispatcher reads AGENTS and CRON.

A sink without a timeout that never answers is a `Deliver` that is never taken
(`Waits`).

*JetStream.* A message is `absent`, `due` (to be delivered), `out` (delivered, ack wait
running), `acked` or `evicted`; `redelivered` remembers those whose wait expired.
A publish into a full stream evicts the oldest (`DiscardPolicy::Old`).

*Ingest.* `pc[r]` is the position of the handler of request `r`. A retry of a
client is another request with the same key. `readAt[r]` is the clock that
`check_and_record` reads before it takes the lock. `PublishNats` is
`js.publish(..).await`, which hands the message to the client library;
`ServerAnswers` is the server's later decision that nobody awaits. `HangUp` is
hyper dropping the handler of a closed connection at an await.

*BotAdmin.* The file `bots.toml` and the credentials are functions and sets, the
registry is what the last reload read. A command walks through
`handle_bot_add` or `handle_bot_remove` one write at a time: `WriteCredential`,
`WriteTemp` (the temporary file in conf.d, under a new name each time, that `load_conf_d`'s
glob matches), `Rename`, `SendSighup`, `Ack`; `Fails` is a
write that fails, and `CutShort` the broken temporary file that one may leave: `Readable`
says whether a reload or a start gets past it (main.rs:69 and :263 give up on the
first file that does not parse). `StartAdmin` is the consumer's own start, which needs
NATS. main's reload is `ReceiveSighup`, `ReadTemps` and `ReadToml`
(two steps, so that a rename may fall between the two reads), `AbortPollers`,
`AbortAdmin`, `Respawn`. `Forgotten` and the history `damaged` mark the commands
whose effect a fault has cut short.

*Conversation.* All publishers and acks share one NATS client, and neither
`publish(..).await` nor `ack()` waits for the server: `wire` is the client's
queue, in order, emptied by a crash; `ServerTakes` and `ServerDrops` are what
becomes of it. `inbox[q]` is Telegram's or the mailbox's view of a message, and
`handlers`, `polled`, `mail` the daemon's. `sent[q][g]` counts how often generation `g` handed `q`
to the client, and the history `found[q]` the generations that began with update `q` fetched and not
confirmed. The daemon polls each bot once (`pollers` in section 4 is when it does not). Every publish makes a copy of its own, as
`Message::new` draws a new id, and `standing[r][c]` is the state of copy `c` in the durable
of reader `r`: USER_IN has one for each listener and one, without a
filter, for the upstream loop. `step[r]` is the position of a reader's
sequential loop; a reader is `dead` when its start failed, or, for the upstream
loop, when its message stream reported an error. Two facts come from outside the
repository: a teloxide handler runs in a task of its own that an abort of the
poller leaves alone, and FETCH of `RFC822` sets `\Seen` (RFC 3501, 6.4.5).

*MailText.* A subject is a sequence of the symbols the parsers look for. `MCConversation` takes
its mails from `FormOf` and `ParseSubject`, so that the questions of `talk` and `thread`
are what `process_email` makes of a subject and a body.

*Watchdog.* A tick is the watchdog's period, 30 minutes. Every instant the scripts compare
is kept as its age in ticks, up to the age beyond which no comparison tells it from an older one;
at a bound a script may find it on either side. One alert is followed, any of them (`waiting` is its
age): `ReadAlerts` collects it while it is no older than the six hours that the prompt of
bigbrother-analyze.sh:23 names (`Lookback`), and `Done` settles what was collected. `Done` is the DONE line, which is
written whenever Claude exits with 0: doing so without having read the streams is one of the
counted mishaps, as are an unanswered count, an unsent message and a reboot. Failing and
hanging runs are not counted.

*RateLimiter.* One token is worth `Cost` integer units, chosen such that a tick
refills an integer number of them; the f64 rounding of the code is abstracted.
`admitted` is history: the instants at which each bucket let something through.

## 3. Runs

| Run | Question | Bounds |
|---|---|---|
| `routes` | Where may a message of every kind end up, and when is it kept? | 6 headers, 2 bots that come and go, a day of 3 instants with quiet hours across midnight, 2 generations, 1 receive error, 1 lost ack |
| `copies` | Who acks when, who may send twice, is the promise kept? | 2 messages on a stream that holds one, buffers of 2, 2 generations, 1 receive error, 1 lost ack |
| `progress` | Is every message settled in the end, although sinks may hang? | 2 streams, 2 messages, ntfy on one stream, 2 generations, 1 receive error |
| `filters` | Who passes, who is suppressed, who is refused, what may a bucket let through? | 3 requests of both tiers, 2 keys, window of 3 ticks, minute of 2, 5 instants, lock delay 1, 1 crash |
| `answers` | What do the status codes mean? | 2 requests over every endpoint, all faults, 1 crash |
| `admin` | Do the running bots become those of conf.d, and does it come to an end? | 2 bots, an add and a remove on them, 2 faults (failing or half-done writes, consumers that do not start, crashes), aborts by the reloads they cause |
| `talk` | What becomes of a user's message and its answer, does each durable keep the promise? | one message of 7 kinds, 1 listener and the bridge, a client queue of 2, 2 generations, 1 drop |
| `watch` | How long may an alert go unheard, how often is the user told? | the deployed periods and lookback, 3 faults, any one of any number of alerts, runs and failures |
| `p0`, `retry`, `thread`, `pollers` | Does the code do what a doc or comment says? It does not: each ends in a counterexample | as small as the case |

Why the bounds are enough. Two generations are the least in which a reload, or a
crash and a restart, happens, and all interference between tasks is between two
of them: through the durable (a copy expired in one task and delivered to
another) or through the sinks. A buffer of two lets a copy wait behind the message in hand.
A stream that holds one message makes every second publish an eviction, in each
state of the first message. One lost ack already gives a message a second life, and
the ack wait may expire any number of times. The day of three
instants has one loud, and quiet ones on both sides of midnight. In `filters` three requests are the least for
an entry that a third request purges, renews or overwrites between the two that are compared, and the
five instants cover two full refill cycles. `watch` is complete: each age saturates one tick beyond the last bound it is compared with (the
lookback, for the alert), so that only the faults are bounded, and three let one fall on each of a count, a message and the reboot between them.
In `filters` the window is longer than twice the lock delay, or `PassesApart` would say nothing.
In `admin` two commands are the least for one to run
while the reload of the other does. Its stream holds both; that a full stream drops one of them is
left to the theorems, which hold for every capacity (section 5). In `talk` one message already
meets itself:
as two copies (an update fetched twice) and as deliveries of one copy before and
after an ack wait, in the buffer and in the hand of a reader; a queue of two is the
least in which an ack waits behind its answer. Interference between different
messages is left to a larger instance, which did not fit into a run of a few minutes (two
messages: the safety part was stopped after 14 million states without an error). Where theorems exist (section 5) the bounds are
lifted altogether.

Bounds that are constants of the models: `MaxGen`, `MaxReceiveErrors`,
`MaxLostAcks`, `Prefetch` (Dispatcher); `Prefetch`, `Channel`, `MaxGen`, `MaxDrops`
(Conversation); `Prefetch`, `MaxFaults` (BotAdmin); `MaxClock`, `MaxCrashes`, `Faults`
(Ingest, RateLimiter); `MaxFaults` (Watchdog). Deadlock checking is off where the system may come to rest:
all requests answered, all messages settled, bounds used up.

**Fairness** (`Dispatcher!Fairness`, used by `progress`). Weak
fairness of a task's own steps while it does not wait for an untimed sink: tokio polls every ready
task, SQLite answers, and lettre's SMTP transport has a timeout. ntfy's client
(`Client::new`, ntfy.rs:37) and the wait for `python3-apprise` (apprise.rs:99) have
none, so that no fairness ends them, and `EventuallySettled` promises something of a stream
only if not all of its consumers wait for a sink for ever (`Held`): an older generation may hang. Weak fairness of "some task gets message m": a
server with a due message answers one of the outstanding pull requests; which one
is not promised. Weak fairness of the ack wait: the server's timer. Weak fairness
of the restart: `Restart=always` in `deploy/hubmq.service`. Publishing, reloading,
crashing and failing are never obliged to happen, nor is it assumed that a
sink accepts anything.

`BotAdmin!Fairness` (`admin`): weak fairness of main's loop, of the restart, of
the file writes, of the ack wait and the deliveries; strong fairness of the consumer's steps
that follow an await. A reload may abort the consumer there, but main sleeps
500 ms before it does (main.rs:340), so that the consumer is not every time too slow for
a step that waits for nothing but the NATS client.

`Conversation!Fairness` (`talk`): weak fairness of the connection, of the
server's timer and its deliveries, and of a listener's loop, whose HTTP client has
a timeout. The bridge's client has none (`Client::new`, bridge.rs:47), so that no
fairness ends its call, and `EventuallyRead` promises of it only what holds if msg-relay keeps answering.

`EventuallySettled` has the exception the code forces: a stream whose consumer
died of a receive error (`let msg = msg?`, dispatcher.rs:129) stays unattended
until the next reload or restart. `EventuallyQuiet` has two: a consumer of commands whose start
found no NATS, and a conf.d with a broken temporary file.

`Watchdog!Fairness` (`watch`): time passes, the timers fire, and the watchdog's own script
goes on, all of whose calls have timeouts (curl `-m 10`, the nats CLI's default). No
fairness ends a run of the analysis: a oneshot service has no start timeout.

## 4. Where code and words differ

Each of the first four is a run that ends in a counterexample.

1. `p0`: a P0 is delivered to no sink. `DeliveryChannels::all()` sets `log_only`
   and `route_and_deliver` returns early on it. severity.rs:73 and
   dispatcher.rs:152 promise every channel.
2. `retry`: a retry after 503 or 429 within the window gets 202 and is never
   published; webhook.rs:11 says 202 means published or deduplicated.
3. `thread`: the answer to a mail carries no `meta.source` and leaves its thread
   for the default Telegram bot; CHANGELOG.md:18 and README.md:63 say it goes back to the
   thread.
4. `pollers`: a reload that meets the temporary file of `bots.toml` in conf.d starts two
   polling tasks for a bot; main.rs:328-331 is there to prevent that.

No run of their own have these:

* README.md:62 and email.rs:348 and :430 mark a mail as read after it was handled. The FETCH
  of `RFC822` (email.rs:361) does so before: a crash in between loses
  the mail (`LostOnlyByCrash` has the exception).
* docs/SUBJECTS.md:93 says unacked messages are redelivered after 30 s. After one
  receive error (dispatcher.rs:129) there is no consumer left in the process that would receive them
  (the exception in `EventuallySettled`).
* main.rs:25-28 says that a reload aborts the old dispatcher. Its consumers are
  detached tasks and go on with the old sinks (`copies` and `routes` have them).
* webhook.rs:164 says published; 202 is answered although the server
  may refuse the message, because its reply is not awaited (`AnswersAreTrue` speaks of the client library).
* main.rs:83 always adds the default agent and bot. A reload does not add them again
  (`Forgotten` in `BotAdmin`).
* admin.rs:452 calls the write of bots.toml atomic. The file that
  a full disk cuts short is not bots.toml, but it stays in conf.d under a name that the glob takes: every reload
  then keeps the old registry, and a restart ends in a loop (main.rs:69), until somebody removes it
  (`Jammed`).
* email_reply.rs:75 answers under `Re: [agent] ...`; a follow-up under that subject is
  parsed as a question to an agent named `Re` (email.rs:126), whose subject no listener reads
  (`RepliesAndFollowUps` in `MailText`).
* README.md:53-55 has a bot active after the mail, without a shell. A mail cannot
  give it chat ids (email.rs:473), so that it answers nobody and its Apprise sink has no URL.
* bigbrother-watchdog.sh:2 guarantees that no raw P0 stays silent. A message that could not be sent is
  noted as sent for an hour (:81-96), an unreachable NATS counts as an empty stream (:50),
  and Claude exiting with 0 without having read the streams counts as alive. `HeardInTime`
  excuses these three. None of them silences the watchdog for good (`ToldWhileSilent`), but an alert that
  one of them has delayed may be lost for good: beyond six hours no run reads it
  (bigbrother-analyze.sh:23), and the DONE lines of those runs keep the watchdog quiet. With
  `MaxFaults = 1` TLC finds an alert that neither a run nor the user ever hears of, with `MaxFaults = 0`
  none. ALERTS_LOOKBACK and HEARTBEAT_TS are set and not used.
* docs/ARCHITECTURE.md:410 says messages are
  queued locally with NATS down, while `publish` returns 503 before `enqueue` and
  nothing replays the outbox.
* docs/ARCHITECTURE.md:140-141 inserts into the dedup
  cache on a miss only, while the code (and dedup.rs:26) renews on a hit too, so an
  alert that repeats faster than the window stays suppressed.

## 5. Proofs

All are for every value of the constants that satisfies the named assumptions
(`DispatcherAssumption`, `StreamAssumption`, `RateAssumption`, `IngestAssumption`,
`BotAdminAssumption`, `ConversationAssumption`, `WatchdogAssumption`, `WindowAssumption`, `LookbackAssumption`). All but
the last two say only that traffic consists of headers and questions, that bounds and rates are natural
numbers, and that bots, agents and commands are not named like another outlet, reader or
token. `WindowAssumption`, that the window of the watchdog's messages is no longer than the
silence it looks for, holds of the script (:15, :17) and is needed: TLC finds `HeardInTime`
violated as soon as the window is one tick longer. `LookbackAssumption`, that the analysis reads back further
than the two silences of `Deadline`, holds of the six hours of bigbrother-analyze.sh:23 against five; with a lookback of
five hours TLC finds `HeardInTime` violated.

Every safety invariant and action property that a run checks and that holds is a theorem,
and so are both refinements of `AtLeastOnce` (`AckedAfterRouting` and `AckedMeansServed` say in
one line what the refinements say of settling). Each proof finds an inductive invariant
(`IInv` in the module of the component, checked by TLC on the instances before it was
proved), shows in one lemma per part that every action preserves it, and derives the
properties from it.

* `SeverityRouting_proofs` - `QuietInterval`: both branches of `is_quiet_hours`
  are `(t - start) mod day < (end - start) mod day`, so that a midnight crossing
  and equal bounds need no case of their own. `Dispatcher_proofs!QuietHours` carries it over to
  what the dispatcher keeps in the log.
* `JetStream_proofs` - what the steps of the streams preserve, for the modules that use them.
* `Dispatcher_proofs` - `TypeCorrect`, `AcksFollowRouting`,
  `NoSpontaneousDuplicates`, `AuditIsTrue`, `QuietHours`, `ThreadsKeptApart`, `SentAsPlanned`,
  `ImplementsPromise`. The inductive
  invariant is `IInv == TypeOK /\ Holders /\ RoutingProgress /\
  AckedAfterRouting /\ SingleCopy`. `AckedAfterRouting` is not inductive by
  itself: `Ack` needs to know that a task at `ack` has gone through all the
  channels of a plan, and that needs, one step back, that what is not in
  `todo` has been attempted (`RoutingProgress`); `Holders` says that only
  spawned generations hold published messages. `OnceUnlessRedelivered` needs
  `SingleCopy`: as long as the ack wait of a message never expired there is at
  most one copy of it in all buffers and hands, none while it is due, and no
  sink that its holder has still to visit has it. `SentOnlyAsPlanned` needs that
  what a task has left is part of one plan (`TodoPlanned`). `ImplementsPromise` maps every step
  to a step of `AtLeastOnce` or a stutter.
* `RateLimiter_proofs` - `RateBound`: in any stretch of time a bucket lets
  through at most its capacity and its refills. The invariant ties, for every
  earlier instant, what was let through since then to what the bucket has left.
  `RefusalsAreJust` is the bound from the other side (`BusyInv`): what was let through since
  an instant and what is left make up for the refills since then, or for a full bucket.
* `Ingest_proofs` - `UsesTheLimiter`: ingestion, crashes included, implements
  `RateSpec`; `IngestionWithinRate` and `IngestionRefusesJustly` carry the limiter's bounds over.
  `PassesLieApart` rests on `EntriesLast`: the cache remembers a message that passed, set back
  by a lock delay at most, until a window after that. The proof attempt with one lock delay failed, and
  TLC found why: a late duplicate sets the entry back by one delay, and the purge, by the clock of another
  thread, comes early by a second one. `SilenceIsEarned` rests on
  `EntriesCovered` (no gap of a window between the message that passed and the expiry of its key's entry),
  `StatusCodesAreTrue` on `Whereabouts`, `RefusedForOwnKind` on `AdmissionsCounted`, which
  counts the requests in the handlers against the admissions of the bucket; `IngestTypeCorrect`.
* `BotAdmin_proofs` - `BotAdminTypeCorrect`, `NoSecondPoller`, `NoBotWithoutCredential`,
  `ConvergedWhenCalm`. `Converging` says, for each stage of main's reload, why the difference
  between a running bot and the files is going to be seen: while main is idle a SIGHUP will come or an
  interrupted command comes back and is accepted; while main reads, what it has listed is as good
  as what is there; after that, the SIGHUP of whoever has changed the bot's files since is still to come. A
  reload that is given up because a listed file has vanished leaves the SIGHUP of the rename that took it
  (`Listing`). `CredentialForDeclared` rests on `Removal`: a removal cut in half is repeated by its
  redelivery, since the bot is still in the registry that the redelivered command is validated
  against. The proof showed that neither property held when a full stream drops the
  interrupted command (with `StreamCapacity = 1` TLC confirmed it), so that both now
  spare the command that was dropped as they do the one that is still due: what it leaves
  half done must not spread.
* `Conversation_proofs` - `TypeCorrect`, `AcksFollowAnswers`, `AskedAgainOnlyIfUnconfirmed`,
  `OnlyCrashesLose`, `NoSpontaneousRepeats`, `ImplementsPromise`. The inductive invariant is
  `Conversation!IInv`.
  `AckedMeansServed` speaks of what the server has settled, so the proof follows
  the wire back to the reader: an ack on the wire has its answer ahead of it
  (`AcksBehindAnswers`), and so has the one that a reader at `ack` is about to
  send (`AnsweredAtAck`); taking an item from the wire shifts both by one,
  and a crash empties the wire and the readers together.
  `AskedAgainOnlyUnconfirmed` needs `SourcesApart` (a mail in hand is read and
  was not published), `HandedOnce` (a generation takes an update up once) and
  `BegunAgainOnlyUnconfirmed`, which says of the handlers at work what the property says of
  the publishes, and that an update waiting to be fetched again was found unconfirmed since. `LostOnlyByCrash` is inductive from the fetch of an update
  on (`NothingLost`). `RepeatedOnlyIfRedelivered` needs that a copy is handed to the client
  once (`HandedOnce`), stored once (`StoredOnce`), held only when it is stored (`HeldIsStored`), and
  that up to its first expired ack wait a reader has one copy of it, unanswered (`SingleCopy`).
  `ImplementsPromise` uses all of these: every durable of USER_IN refines `AtLeastOnce`.
* `Watchdog_proofs` - `WatchdogTypeCorrect`; `NoNagging`: at most one message per window, for all
  periods. The
  invariant ties the note in the file to the last message: they are of one age, unless a message is
  being noted or a reboot came in between. `HeardWithinTwoSilences`: an alert waits for
  twice the heartbeat's bound at most. The invariant (`InTime`) adds to the age of the waiting alert the ticks
  until the watchdog surely sends a message if no run ends well (`Ahead`): the sum never exceeds the bound,
  and for an alert that the current run has not read never exceeds one silence, because a DONE line
  that puts the message off also settles every alert but those, as none in time is beyond the lookback.

Only model-checked: the liveness properties (`EventuallySettled`, `EventuallyQuiet`,
`EventuallyRead`, `ToldWhileSilent`: liveness under fairness is out of the prover's reach) and
the disagreements of section 4, which are counterexamples. What the parsers of `MailText` compute is
evaluated, against the references, for every subject of up to five symbols and every body of up to two
lines; for all lengths it would take an induction over data, which the prover cannot do.

## 6. Not modelled, and why

* Text but for `MailText`: TOML, JSON, MIME, formatting, subject builders. It has no state. Of
  MIME a reader should know that the boundary is taken from the lowercased header (email.rs:638-646),
  so that a multipart mail whose boundary has capitals is read as empty.
* The protocols of the sinks, of the LLM and of msg-relay: a call succeeds or fails.
* Age and byte limits of the streams; only the message count evicts.
* Stream MONITOR and SYSTEM: no consumer in this repository.
* The other shell scripts of `deploy/`: the fallback mail, the heartbeat, the installer, and the
  wrappers of the claude-hubmq agent, which subscribe without a durable and keep no state here.
* An operator's `kill -HUP`, which is a reload without a command; ctrl-c and SIGTERM, which are
  a crash for everything modelled here.
* Everything in the plan below, until it is done.

## 7. Plan

1. `SeverityRouting`, `JetStream`, `Dispatcher`, `AtLeastOnce`, with proofs. *Done.*
2. `RateLimiter`, `Ingest`, with proofs of all their safety properties. *Done.*
3. `BotAdmin`, with partial writes and starts that fail, and proofs of its safety. *Done.*
4. `Conversation`, with proofs of its safety, each durable as an instance of
   `AtLeastOnce`; `MailText`. *Done.*
5. `Watchdog`, with proofs of `OnceAnHour` and `HeardInTime`. *Done.*
6. Composition: an abstract `Exchange` (asked, answered or dropped with a cause)
   that `Conversation` implements, and its answers as the traffic of `Dispatcher`, so that a
   mail's answer is followed to the sink; the commands of mails as those of `BotAdmin`.
