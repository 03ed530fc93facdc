# Formal model of the whiterun music bot

TLA+ specifications of the parts of the bot in which order, failure and concurrency
decide whether it is right: the process-wide YouTube gate, the player of one guild,
progressive collections and the playlists they come from, the search cache, the stream
pipeline, the Discord voice session, and the queues, limiters and records around them. TLC
checks them on small instances; TLAPS proves their safety for every instance: each
invariant and each action property that a passing run checks, and the refinements of
`CircuitBreaker` and `QuotaLedger`. `PROJECT.json` is the index: components, runs, mutants, the map from
definitions to source lines, findings, hazards and theorems.

## The system

| part | state it keeps | operations | interacts with |
|---|---|---|---|
| provider admission gate (`internal/media/provider_admission.go`) | breaker status (blocked, exhausted, incident, attempts, retry time), epoch, outstanding trial, failure generation, start slots, pacing | `WaitRecovery`, `Admit`, `Observe`, `FinishTrial`, `SustainedMedia`, `Rearm` | one per process; called by every guild's scheduler, every collection worker, every `/play` search and every stream |
| guild player (`internal/player/player.go`, `queue.go`, `controls.go`, `previous.go`, `pause.go`, `lifecycle.go`, `resume.go`) | queue, current track, history, loop, generation, halted, retry and failure counters, wake channel | slash commands under `p.mu`; `run()` in a goroutine; frame callbacks of a stream | the Discord handlers, the stream, the store, the gate |
| voice recovery (`voice_recovery.go`) | incident, attempts, epoch | `SuspendVoice`, `recoverVoice`, cancellation by `/stop` and `/leave` | health checks, the Discord transport |
| provider recovery of a player (`provider_recovery.go`) | blocked, global, probe, incident, retries | `SuspendProvider`, `waitProvider`, `finishProviderLocked` | the gate |
| durable state (`durable.go`) | snapshot, visible error, retry worker | save on every mutation, checkpoint every five seconds of audio, restore | SQLite |
| collections (`collection.go`, `horizon.go`) | jobs, pending positions, prefetch horizon | resolve ahead, commit in place, suspend on provider failure | queue, resolver, gate |
| playlists without credentials (`media/spotify_public.go`, `spotify_anonymous.go`, `spotify_embed.go`) | session token, pages of one revision, hydration pool | public page, Embed, pages, hydration, last check | Spotify, collections |
| search cache and match limiter (`media/cache.go`, `progressive.go`) | entries, flights with their waiters, two token channels | look-up, single flight, eviction, acquire and release | resolver |
| stream (`stream.go`, `ogg.go`, `lifecycle.go`) | processes, pause gate, watchdogs | one attempt: extract, decode, send frames, tear down | gate, voice, player callbacks |
| voice session (`discord/bot.go`, `voice_join.go`, `idle.go`, `health.go`, `voice_recovery.go`) | connection of the guild, channel, grace, suspension | join, leave, health and idle checks, forced moves, recovery, shutdown | players, Discord |
| voice gateway (`discord/voice_gateway.go`) | websocket, reader and heartbeat goroutines | `Open`, `Close`, messages | voice session |
| announcements, REST limiter, `/queue` (`discord/announcements.go`, `rest_limiter.go`, `queue.go`) | bounded queue and channel; buckets and locks; deliveries of a channel | announce, send; `Wait`, `Unlock`, cleanup, `Close`; layout, deliver, supersede | players, Discord REST |
| physical quota (`storage/physical_linux.go`, `discord/catalog_alerts.go`) | two checksummed records, reservations, registry of open databases, alerts | VFS callbacks, save, reopen, poll and confirm alerts | SQLite, Discord |
| log store (`internal/logstore`) | bounded queue, batch, table, metrics | capture, flush, retention, close | disk |

What is hard: every handler shares one mutex with the scheduler, but searches, streams,
recoveries and waits for the gate run without it, and their results arrive after the
player has moved on; the gate is shared by guilds that stop, fail and are cancelled
independently; a process may die between two writes, and writes may fail; playlists and
voice channels change under the code that reads them; processes and servers hang.

What makes each part correct: one trial of an incident at a time, within a budget, and
the breaker closed by clean, new evidence only; no lost wake-up; a queue in which nothing
is lost, duplicated or brought back, whose snapshot is exact; transports closed after
their last user and never revived; pending positions that have an owner and are resolved;
searches that live exactly as long as somebody waits; failures blamed on whoever failed;
records that survive a torn write; and waits that end.

## Modules

| module | models |
|---|---|
| `ProviderAdmission` (`...Proofs`) | the gate and the goroutines that follow its protocol |
| `CircuitBreaker` | abstract specification that `ProviderAdmission` implements |
| `ProviderRecovery` (`...Proofs`) | guild schedulers composed with the gate (extends `ProviderAdmission`) |
| `GuildPlayer` (`...Proofs`) | one guild's player with its own provider policy, voice recovery and store |
| `CollectionJob` (`CollectionProofs`) | a progressive collection: reserved positions, coordinator, workers, horizon, queue commands, provider incidents |
| `SpotifyPlaylist` | the anonymous resolution of a playlist that is edited while it is read |
| `MatchSearch` (`...Proofs`) | match limiter, search cache and shared searches |
| `StreamPipeline` (`VoicePathProofs`) | one `Streamer.Play` |
| `VoiceSession` (`VoicePathProofs`) | the voice connection of a guild with idle watch, health checks and recovery |
| `IncidentGateway` (`DiscordProofs`) | one voice websocket session |
| `Announcements`, `RestLimiter`, `QueueReply` (`DiscordProofs`) | now-playing messages; REST buckets; layout and delivery of `/queue` |
| `PhysicalQuota` (`StorageProofs`) | quota of the operational database, its two records, its alerts |
| `QuotaLedger` | abstract specification that `PhysicalQuota` implements |
| `LogStore` (`StorageProofs`) | capture, writer, retention and close |
| `MCProviderAdmission`, `MCProviderRecovery`, `MCGuildPlayer`, `MCMatchSearch`, `MCPhysicalQuota`, `MCServices` | instances for TLC |

One action is one critical section of the mutex the code takes, or the code between two
points at which another goroutine, a process or the network may act. Data is reduced to
what the properties tell apart: a track is an id, a log record its number, audio is
counted in units, a text is its size, a clock is a boolean or a small counter.

### ProviderAdmission and CircuitBreaker

A caller (`pc[c]`) goes `idle` → `wait`
(`WaitRecovery`: `PassOpenGate`, `GrantTrial`, `Park`, `Tick`, `CancelWait`) → `admit` →
`slot` (`TakeSlot`) → `run` (`AdmitStart`, or `AdmitFails` → `done`) → `done` (`Exit`, which is
`Observe` and the deferred release) → `idle` (`Finish`, which is `FinishTrial`). `FirstFrame`
returns the slot early, `ConfirmTrial` reports success after five seconds of audio,
`SustainedMedia` ends the incident. Times are booleans: `retryDue` (RetryAt has passed) and
`paced` (before nextStart). A permit is `<<incident, attempt>>`, the two numbers of the
permit string; after a refund the same string is issued again, as in the code. `spent`
counts, for the property, the trials that reached the provider. `Rearm` has no caller in
the program and is switched by `OperatorRearms`.

`CircuitBreaker` says what this machinery is for: a breaker that is closed, open, or open with one
trial granted or started; who holds it; whether anybody failed since; who is at
the provider, and who of them started since the last incident began or ended. It knows no
permits, epochs, failure generations, slots, timers or notifications. `GateIsBreaker` is
`BreakerSpec` of the instance

    Breaker == INSTANCE CircuitBreaker WITH
        breaker <- BreakerState, holder <- TrialHolder, clean <- CleanSoFar,
        incident <- (incident # 0), starts <- spent, working <- AtProvider, fresh <- Fresh

in which the holder is the caller whose permit equals `probe`, a trial is clean while
`failures = probeFailures`, and an admission is fresh if it is of the current epoch.
A refund lets the same permit be issued again; for the breaker it is an answer, and
the next grant is a new trial.

### ProviderRecovery

The callers are guild schedulers. Each step that uses the gate is the conjunction of the
gate's action and the player's own change; `stage[g]` is where `run()` is. `Looks` and
`EnterWait` are separate because `waitProvider` reads the gate before it takes `p.mu`;
`Finishes`/`Settles`, `Confirms`/`ConfirmSettles` and `Observes`/`Reports` because the player
calls the gate twice while it holds `p.mu`. Kept of the queue: whether there is a head.
`Stops` and `StaleReads` switch two things members and schedulers can do, so that the
protocol is checked without them and the disagreements are shown with each alone.

### GuildPlayer

`run()` has a program counter
(`top`, `recover`/`attempt`/`dialing`, `provider`/`granted`, `sched`/`asleep`, `backoff`,
`playing`, `ended`, `exit`). Commands and callbacks interleave between its sections. A
track is an id and the offset it resumes from; `FiveSeconds` units of audio make a
checkpoint. `EndAttempt` is the whole section after `play()`, with one
named predicate per kind of end. `Persist` is the last conjunct of a handler and writes
the primed state, or fails. `Restart` is a crash, or the next start after a shutdown.
`enabled` names the commands and faults of a behaviour. `removed` is a history variable:
the ids a `/stop`, `/clear` or `/leave` took away.
Left out: wording, logging, autoplay (stored, never read), `/seek` (always an error),
metadata updates of the running track.

### CollectionJob and SpotifyPlaylist

A queue entry is a position of the collection and whether it is pending. The coordinator
(`jobPC`) resolves the first position, answers the command that waits on `First`, and then
runs batches; a worker (`at[i]`) asks for admission, searches, and leaves an outcome that
is committed in order. An incident cancels the searches it strikes (`struck`); the one
trial is the token `probing`, whose retry budget is in `ProviderRecovery`. Lengths are
counted in tracks, `Unknown` positions have no duration, `Live` ones resolve to a stream
that never ends; both are cases of `horizon.go`.

A playlist is a sequence of versions; `versions[v]` is revision `v`, an edit adds one. The
resolution (`spPC`) follows the code: public page, Embed with its session, one refresh of
an expired token, pages that must name one revision, hydration by a pool over an
unbuffered channel, and the last look at the first page. A fault answers a page with the
items of another one.

### MatchSearch

A caller takes its token or tokens, looks the key up, joins or starts a flight and waits.
`First` callers take a slot, `Background` ones a prefetch token and a slot, `Direct`
searches neither. A flight's goroutine goes on after its starter left, and is cancelled by
the last waiter. Whether an entry has expired is a choice.

### StreamPipeline

Producer and decoder are processes that run, hang, exit, fail or are killed; `Play` is a
program counter through start, first byte, header, frames, drain and the deferred tear-down
with its forced kill. The watchdogs tick while frames flow. `resumed` counts the ticks of
the idle watchdog since it last saw the gate closed.

### VoiceSession and IncidentGateway

Transports are numbered and have a state; `mu` says who holds `g.mu`. The grace period is
counted in checks, and a member's visit between two checks is an event that is handled
later. The recovery obtains a transport without the lock and looks whether it is
still wanted. The gateway has an opener, a reader and a heartbeat; the server may fall
silent or reset. The reader reports its error to `Open` and looks at `closed` in two steps, and a
state without a channel makes `Open` close the session it has just opened; `owner` remembers whether
the owner's close came before or after that look.

### Announcements, RestLimiter, QueueReply

`Announcements` has epochs of the guild's session and the channels agreed in each. A now-playing
message is dropped when something else plays by now, a notice of `SetOnSkip` is not.
`RestLimiter` keeps the lock in the bucket object and the route in the map, because
`Unlock` looks the bucket up again: it may find another object than the one its request
locked. The mutex does not know its holder, so unlocking it takes it from whoever holds it,
and is a fatal error (`limiter = "panicked"`, the end of the process) when nobody does.
`overtaken` remembers the routes on which a request locked a bucket that was no longer in the map.
Each section under `bucketsMu` is one action, the walk of `doCleanup` over the map and the snapshot of
Close too; the lock Close takes and returns at once on a bucket is one step. `QueueReply` builds the layout row by row under a text
and a component budget, both scaled down, and delivers with an id per channel.

### PhysicalQuota and QuotaLedger

A save is two steps, because a crash in between leaves the slot torn; a crash releases the
locks and keeps the disk. Sizes are blocks. `QuotaLedger` has one variable, the ledger, and
atomic changes; a crash is not among them. `DurableLedger` is `LedgerSpec` of the instance

    Ledger == INSTANCE QuotaLedger WITH ledger <- IF Readable THEN Content(best) ELSE NoLedger

where `best` is the slot a reader of the two would take. So a torn write is either the
old or the new ledger, an unconfirmed alert is never dropped, an episode begins only
after the previous one's alerts were confirmed.

### LogStore

`select`, `append`, `maintain`, `insert` and `settle` are the places of the writer; a flush may
fail before its commit, or be reported failed after it. `Room` is what retention leaves.
`landed` and `dropped` remember the accepted records that were committed, and those whose batch
failed or was discarded before its commit: after a Close that ended in time there are no others
(`CloseFlushes`), and without a counted failure none is dropped.

## Runs

| run | instance | shows |
|---|---|---|
| `admission_safety` | 3 callers, 2 slots, 2 trials, epoch ≤ 2, failures ≤ 3, operator | owner and budget of trials, slot conservation, exact exhausted flag, no sleeper without a cause, refinement of `CircuitBreaker` |
| `recovery_protocol` | 2 guilds, 2 trials, one incident, no `/stop`, fair | trials are reported on every path; the probe flag is honest; a waiting guild starts its track when the gate opens |
| `recovery_stops` | 2 guilds, 1 trial, `/stop`, stale looks | budget and slots survive both; nobody sleeps without a cause, of which a trial that a `/stop` leaked is one; only new media ends an incident |
| `player_commands` | ten scenarios, queue of 2, 2 recordings, in the crowded ones 3 | nothing removed comes back, nothing else is lost, progress never goes back; late recoveries are fenced; streams write to open transports; capacity; an error-free snapshot is exact; bounded replay; no lost signal |
| `player_liveness` | fair, voice, network and provider faults, shutdown | a playable head is played; Close ends |
| `collections` | a job of 3 tracks, 2 workers, 1 incident, 2 commands; fair | trials come back; pending positions have an owner, committed ones are left alone; an incident is not a failure; the caller is answered and the head resolves |
| `match_search` | groups of 3 callers, 2 keys, 2 slots, 1 prefetch, a cache of 1, fair | a search is cancelled exactly when nobody waits; one live search per key; room for the first track; every match ends |
| `physical_quota` | limits of 3 and 7 blocks, three files, 2 episodes, crashes, several owners | the limit holds, a checkpoint stays funded, no guessed limit, callbacks have an owner, confirmed alerts were sent, refinement of `QuotaLedger` |
| `services` | `LogStore`, `StreamPipeline`, `VoiceSession`, `IncidentGateway`, `Announcements`, `RestLimiter`, `QueueReply`, `SpotifyPlaylist` (≤ 4 occurrences, one edit, one mixed-up page); fair | each part's own properties; a paged playlist is one of its versions; nothing waits for ever |

Some of the checked invariants are conjunctions of named parts, each with its comment in
the module: `StatusHonest` of the gate, `TrialAccounted`
(types, `TrialCarried`, `ProbeFlagHonest`), `SoundUnderStops` (`BudgetHonoured`, `NoSlotKept`, `ParkedForCause`), `SnapshotFaithful` (types, `DurableExact`,
`BoundedReplay`), `JobSound` (types, `PendingHasOwner`, `IncidentIsNotFailure`, `CommittedStays`), `LimiterSound`
(`LockedMeansInFlight`, `OnlyTheHolderReleases`, `FatalOnlyIfOvertaken`), `MatchSound`, `QuotaSound`, `LogSound`,
`StreamSound`, `VoiceSound`, `GatewaySound`, `LayoutSound`. Their mutants break the parts other than the types one by one. `EveryWaitEnds` has a mutant in every
module whose waits it covers.

Several instances in one run. Modules that share no state are checked in one run by a
variable chosen in the initial state (`focus` in `MCServices`) that says which of
them takes steps; the states add up and do not multiply. Within one component the same
device keeps together the operations that meet in the same state: `MCGuildPlayer` chooses one
of `Scenarios`, sets of commands and faults, and requests one recording more in those that are `Crowded`; `MCMatchSearch` one of `Groups` of callers;
`MCPhysicalQuota` one of three `instance`s (file operations, alert delivery, registry); and the
voice session is in `MCServices` twice, with humans who come and go while every transport
works, and with every transport fault while somebody listens. `PhysicalQuota.cfg`
has a view that forgets what a dead process remembered.

Bounds. Two guilds or three callers are enough for one to hold the trial, one to fail
under it and one to wait; with two trials one can fail and the last one use up the budget. Epochs up to 2 give a new incident after an old stream was
admitted (the fair run `recovery_protocol` has one); three failures give one before, one during and one after a trial. A queue of two
reaches the limit and a reorder. The position beyond the limit, which a retained track takes when it is put back
before a full queue, needs three recordings: the crowded scenarios have them, with voice, network and provider
faults, and a crash that restarts from the snapshot with that position. A recording of three units has an odd half and, with checkpoints
every two, an unconfirmed rest. Two sessions and three generations give a stale ticket and a
stale recovery. A collection of three has a first position, a batch and a position outside
the horizon, one with unknown duration and one live. Four occurrences of a playlist make two
pages beyond the public page and Embed, with a short last one. Three `/queue` commands are
what a lost registration needs to show; budgets of 18 units and 11 components fit two
illustrated rows and a tail. Two playbacks and one notice on its way at a time
are what one message overtaken by another needs. Three requests for one route and two bucket objects let a bucket be replaced
under a waiting request, its lock be released by another one, and the fatal unlock. Four log records fill a queue and a batch, with one lost or late beyond what the table keeps. Three voice
connections give one lost, one recovered and one joined meanwhile.

Deadlock is checked where the system goes on for ever. It is not in `ProviderRecovery`, where an
exhausted budget waits for an operator by design, nor where a job, a stream or a closed
service has ended (`collections`, `services`). In `GuildPlayer` the states in which nothing
need happen are named (`AtRest`).

Fairness. Go runs every runnable goroutine, timers fire, a cancelled stream's processes
are killed and `Recover` has a 15 s deadline: weak fairness of the scheduler, of Leave's and
Close's goroutine, of clocks and of the return of a cancelled stream. Collection workers and
the coordinator are fair because a search has a deadline; the takers of the limiter's
channels are strongly fair because Go's channels queue their senders in order. An HTTP
request ends, by its client timeout: assumed for Spotify pages, and for the REST limiter once
Close has begun. Nothing is assumed of
members, of streams that play or are paused, of processes that hang, of the provider, of
the voice server, or of the scheduler's 30 s watchdog. In `services` one
weak fairness condition covers the module in focus, since the others have no fair action
enabled.

### Disagreements between code and documentation

Shown by a run that TLC refutes:

* `voice_retried`: after five failed voice attempts `/resume` resets the budget, but
  `schedulerWait` returns only for a ready track, so nobody dials again
  (`docs/qa/rel024/report.md:33` promises a new attempt). The same wait keeps
  a player that the provider blocked while its scheduler slept from `waitProvider`.
* `trial_canceled`: `/stop` while the scheduler waits for a trial leaks the trial that is
  granted later; no guild gets another one (`docs/optimizations/opt026-youtube-request-efficiency.md:47`).
* `incident_keeps_queue`: a provider incident between the resolution and the commit of a
  collection's first track, when it is the last position left, ends the job, which removes
  the position (`docs/bard-requirements.md:44`, `provider_recovery.go:160`).

Met while modelling, without a run of their own:

* a stale look at the gate leaks a trial without any `/stop`
  (`provider_recovery.go:33-38`); `recovery_protocol` runs without `StaleReads`;
* consecutive failures are counted and never halt the queue (`README.md:90`);
* while a job's first position is moved out of the horizon, the head that took its place is
  not resolved (`horizon.go:36-55`; `reorder_wakeup_test.go:41` expects a reordered head not
  to stall); `HeadResolves` excepts this state by name (`FirstMovedAway`);
* a recovery looks at the bot's membership once, confirms or dials without the lock and does
  not look again before it dials, so a removal in between is followed by a rejoin
  (`discord/voice_recovery.go:68-87`; the comment at line 46 says never to);
* `/summon` does nothing while the guild still has a connection object, also when the bot was
  removed from the channel (`discord/commands.go:183`; `README.md:84` says to summon again);
* cleanup may replace the bucket of a route between `getBucket` and `CLock` of a request that waits
  for its lock. That request then holds a bucket which is not in the map, while its `Unlock` finds the new
  one (`rest_limiter.go:203`, `209`; the comment at line 92 counts on `Unlock` finding "its bucket"): if nobody holds
  it, unlocking it is a fatal error of the mutex; if another request does, its lock is released under it and a third one may enter
  the bucket. `LimiterSound` says that this is the only way to either, and excepts
  it by name (`overtaken`); its own bucket stays locked: nobody finds it any more, but requests that obtained it before
  wait until their context ends;
* a voice gateway marks itself ready without looking whether it was closed, and the REST
  limiter's Close does not wait for a bucket that cleanup removed from the map: no property here
  depends on either.

## Proofs

Every theorem is about the unbounded family of instances: any finite set of guilds, callers,
members, keys or routes, any capacity, budget, length and number of sessions, any choice of
enabled commands and faults. Each rests only on the named assumption of its module, which TLC
evaluates on the runs, but for `TrialHasCarrier`, `GuildsKeepBreaker` and `PlaylistsAreExact`, whose extra
hypothesis is explained below. What these ask beyond types: sets of callers and guilds are
finite, since slots and waiters are counted; the three kinds of callers of `MatchSearch` are
disjoint; files have a positive greatest size; the text budget of `/queue` covers its heading and
its final line (`TextBudget >= 6`; in the code 4000 characters).

But for `NoLostWakeup`, none of the properties is inductive as the runs state it. Each proof module builds an inductive
invariant of named parts, shows that the initial states and every action keep it (one step per
action, under it one per part it can disturb), and derives the properties.

| module | theorems | inductive invariant |
|---|---|---|
| `ProviderAdmissionProofs` | `HonestStatus`, `OneTrialOwner`, `TrialBudget`, `SlotAccounting`, `CleanTrialCloses`, `NewMediaResets`, `SleepersHaveCause`, `GateImplementsBreaker` | `IInv`, `Recent` |
| `ProviderRecoveryProofs` | `GateSoundUnderStops`, `TrialHasCarrier`, `GuildsResetByNewMedia`, `GuildsSleepForCause`, `GuildsKeepBreaker` | `RecoveryInv`, `Recent` |
| `GuildPlayerProofs` | `TransportsOpen`, `WithinCapacity`, `NothingComesBack`, `SnapshotsFaithful`, `NothingEverLost`, `ProgressNeverLost`, `WatchdogNotNeeded` | `VoiceInv`; `CapacityInv`; `RemovalInv`; `SnapshotInv`, `CurrentPlays`, `TypeInv`; `CauseInv` |
| `CollectionProofs` | `JobsKeepTheirPositions`, `JobsReturnTrials`, `PlaylistsAreExact` | `JobInv`, `FrontierInv`; `PlaylistInv` |
| `MatchSearchProofs` | `SearchesAreShared` | `MatchInv` |
| `StorageProofs` | `QuotaHolds`, `CheckpointFunded`, `LedgerIsDurable`, `LogAccountsForAll` | `QuotaInv`; `LogInv` |
| `VoicePathProofs` | `StreamEndsCleanly`, `PauseNeverStalls`, `GuildOwnsItsVoice`, `GraceNeverCutShort` | `StreamInv`, `IdleSinceClosed`; `VoiceInv`, `GraceSince` |
| `DiscordProofs` | `OneDelivery`, `AnswerFits`, `NoRouteBlocked`, `LossToldOnce`, `AnnouncedWhereAgreed` | `DeliveryInv`; `LayoutInv`; `LockInv`, `LimiterInv`; `GatewayInv`; `AnnounceInv` |

**Gate.** The trial's single owner needs that permits of the current incident number at
most the attempts made, that a caller outside the protocol carries none, and that an old
caller's permit differs from any permit still to be issued; the budget needs that `spent` is
bounded by the attempts, one less while the outstanding trial is unspent; slot accounting
needs that only callers past `TakeSlot` hold a token, and reasons with the cardinality of
the set of holders. `GateInv`, the part of `IInv` that does not need callers who report,
is used again for the guilds.
`ParkedForCause` is what every wake-up at the gate rests on, without fairness: a sleeper has found the
breaker open, and could not be granted a trial if it set no timer. A step that could make one
of these false (the breaker closes, a trial is given back or refunded, the budget starts
anew) ends in `notifyLocked` and leaves nobody asleep (`NobodySleeps`); every other step keeps
`Quiet`, what sleepers look at. The clock may pass `RetryAt` under a sleeper, but
then this one has a timer.
`GateImplementsBreaker` maps `GrantTrial` to a grant, `AdmitStart` to a start, `Exit` and `ObserveLate` to
the end of somebody's work or a failure, `Finish` and `ConfirmTrial` of the holder to the
answer, `SustainedMedia` and `Rearm` to the end of the incident, and everything else to no
step. Beyond `GateInv` it needs `Recent`: admissions are not from a later epoch and the outstanding
trial not from a later failure generation, so that a new epoch makes all admissions
old and a failure makes the trial unclean.

**Guilds at the gate.** A player's step is a step of the gate, leaves the gate without a
report, sets its own flag, or does not touch it, so `GateInv` is carried over; `GuildInv`
relates a guild's stage and provider state to its place in the gate. `SoundUnderStops` and
`ResetOnlyByNewMedia` hold whatever `Stops` and `StaleReads` are, and so does
`ParkedForCause`: a guild that leaves the gate without a report leaves the breaker as it was. None of this
says that a `/stop` is harmless: the trial it leaks is a cause for which all others sleep. `TrialAccounted` is proved
for `Undisturbed` runs (neither of the two): with either it is false, which
`trial_canceled` shows for stops. So is `GateIsBreaker` (`GuildsKeepBreaker`): a guild that then
leaves without a report holds no trial, since the trial has a carrier after the step too, and
permits differ.

**Player.** Seven properties, each with an argument of its own.

* `VoiceOpen`: `LeaveCloses` closes a transport and `RecoverEnds` stores one. `VoiceInv` adds
  that a player under Leave has no transport, that a stream writes to the player's transport
  or to the one Leave closes after it, and that a recovery whose epoch is current still works
  for the player's session. Dropping the wait for `trackDone` or the epoch comparison breaks
  one of these.
* `Capacity`: a restart builds the queue from the snapshot, so `CapacityInv` bounds the
  snapshot too; `StoreWrites` shows that every section writes the player's state before or
  after it and nothing else.
* `NoResurrection`: a removed track could come back from a search in flight, from the history
  or from the snapshot. `RemovalInv`: ids are given out in order (`IdsKnown`); a search that lost
  tracks has an old ticket (`TicketsRevoked`); what is gone is not held (`Gone`), nor in a
  snapshot that was reported as saved (`GoneFromStore`). Its lemmas say what each list operation
  (`Join`, `Without`, move, shuffle, stretch) does to the set of ids.
* `SnapshotFaithful`: `SnapshotInv` says which of three saves the snapshot is (no current
  track, the one from before a fresh head was taken, one made while it played) and how far
  it is behind the audio (`CheckpointNear`); that every section saves or shows an error is
  `StepSaves`. `TypeInv` is its type part.
* `NothingLost`: commands keep the ids they do not remove, for a shuffle because an injective
  map of a finite set to itself is onto (`Permutes`). The end of an attempt drops its track only if it
  was not cancelled: `CauseInv` says that an attempt whose cause is "canceled" has
  forgotten its track or the process is closed, and that one which returned "canceled" has a cause.
* `ProgressKept`: `Resumes` is the set of entries with the offset each resumes from. Every entry
  after a step comes from one with the same id that was not further (`Onward`), but for the
  commands that go back; an id held once has one offset (`OneOffset`), so its offset did not fall.
* `NoLostWakeup`: `schedulerWait` looks for a ready track under the lock before it sleeps, and a
  section that changes what it looks at (`readyVars`, which decide `Reason`) either fills the wake
  channel or runs while the scheduler does not sleep. It is the safety core of `HeadIsPlayed`.

**Collections.** A queue is sound if it has each position once; every command and commit
picks entries of the queue before it, each at most once (`Picked`), so soundness is one lemma
for all of them. A position owns its work while the job runs (`BatchShape`, `RestShape`: tasks no
worker has taken are idle, between batches all are). `SearchAge` is what makes an incident not
a failure: a search that an incident struck began before the current generation, so its
error is discarded as superseded. `TrialReturned` needs that a shown probe implies a
blocked latch and so a positive generation, the one in the holder's permit. `FrontierInv` is why what is committed
stays: a batch names unresolved positions, each once, and the frontier passes each once;
before the first commit every position is unresolved.

**Playlists.** What was read so far is the head of one version (`Exactly`), or a page was
mixed up and holds an occurrence still to be read (`Mixed`): one already read would repeat at
once, and this one will when its own page comes, so a list that is complete is exact
(`PageAdds`). The pool has fetched, or has in hand, what it was sent (`PoolShape`), and when it
returns without an error no worker has anything in hand. The theorem assumes `MaxFaults <= 1`.

**Search cache.** Tokens in the channels are the cardinalities of the sets of their
holders, a flight's counter that of its waiters; a flight is cancelled with its last
waiter, and only then gives up its key (`Ownership`).

**Storage.** The two slots hold sequence numbers of their own parity, a save goes to the
slot that is not the best one, and what is being saved follows the best one by one change
(`LedgerShape`). From this, a torn write leaves the best slot in force and the final one is one step of
the ledger, which is the refinement: initial states map to `LedgerInit`, every action to a ledger
step or a stutter. Space is granted before it is used (`GrantShape`), and a new base
is saved only when its checkpoint is paid for (`FundShape`). `LogInv` says where the writer holds a
record in its hand, and that an accepted record is on disk or in exactly one place on its way.

**Voice path.** `StreamInv` gives the processes that may run in each phase, so that the returned
phase has none; the idle counter never exceeds the ticks since the pause gate was seen closed.
`VoiceInv` says what each holder of `mu` has already done to the session, and that a recovery
that may still be applied belongs to the suspended transport. The grace clock never runs
ahead of the real silence (`GraceSince`).

**Discord.** `/queue`: identifiers come from the sequence, and a live delivery is the
registered one; comparing channels alone would not be enough. Layout: the components counted are the
ones rendered, one is in reserve until the shared text exists, and after it no row stands
alone. REST: on a route that is not overtaken a request past `Lock` holds the bucket in the map
(`LimiterInv`), since cleanup removes no locked bucket; on any route a locked bucket in the map has a request in
flight, because an ended request's bucket is unlocked or gone from the map (`LockInv`). Gateway: a closed session is its
owner's until the reader closed it itself, and the reader tells at its end only.
Announcements: an item of this session names an agreed channel, one of an earlier session is
never sent.

Only model-checked is liveness, which needs ENABLED and fairness: `GuildRecovers`,
`HeadIsPlayed`, `CloseEnds`, `HeadResolves`, `FirstAnswered`, `MatchEnds`,
`EveryWaitEnds`.

## Limits of what is shown

* `PlaylistExact` is claimed, checked and proved for playlists read page by page. A playlist that Embed alone
  covers is accepted by its count, so an edit that keeps the count may mix two
  versions. One mixed-up page is refused; two that are exchanged for each other would not
  be noticed.
* `GraceIsWhole` does not count a visit whose event has not been handled yet.
* `QuotaLedger` is refined without errors of `fsync` itself.
* Queue commands and media failures are checked in groups, and so are the callers of the
  search cache and the faults of the voice session; TLC explores no behaviour that needs operations of two
  groups. The theorems cover these, since they hold for any choice.

## Plan

1. done: `ProviderAdmission` implementing `CircuitBreaker`, `ProviderRecovery`, `GuildPlayer`.
2. done: `CollectionJob`, `SpotifyPlaylist`, `MatchSearch`, `StreamPipeline`.
3. done: `VoiceSession`, `IncidentGateway`, `Announcements`, `RestLimiter`, `QueueReply`.
4. done: `PhysicalQuota` refining `QuotaLedger`, `LogStore`.
5. done: proofs of the safety and action properties of all of them.
6. left, model: the partial write of one resolved position (`SaveResolvedGuild`) in the
   durable state, and the save transactions of `storage/sqlite.go` below it.

## Not modelled

Ranking, fidelity and identity heuristics of the resolver and the Spotify API client: scores
over strings and HTTP requests, with no state that outlives a call but a token; TLC could
only enumerate invented metadata. Local audio commands and most command handlers: permission
checks, one call of a modelled operation, and formatting. SQLite statements: each is one
transaction, which the players see as a write that succeeds or fails. Command sync: a
sequence of REST calls that is read back at its end. The process entry point and the quality,
soak and profiling tools: wiring, and tooling that is not part of the running bot.
