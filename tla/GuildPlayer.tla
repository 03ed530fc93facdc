---------------------------- MODULE GuildPlayer ----------------------------
(***************************************************************************)
(* One guild's player (internal/player): the queue, the scheduler          *)
(* goroutine run(), the slash commands that share its mutex, voice         *)
(* recovery, the guild's own provider policy and the durable snapshot.     *)
(*                                                                         *)
(* One action is one critical section of p.mu.  run() is a process with a  *)
(* program counter; everything else is a command or callback that may      *)
(* interleave between its critical sections.                               *)
(*                                                                         *)
(* A track is [id, off]: which recording, and the ResumeOffset it starts   *)
(* from, in audio units.  current and a stored current are sequences of    *)
(* length at most 1 (nil is <<>>), so that "what the player holds" is      *)
(* current \o queue.  Every queue position here is resolved (collections   *)
(* have a module of their own), and the process-wide gate is not blocked:  *)
(* provider failures are of the kinds each guild handles by itself.        *)
(***************************************************************************)
EXTENDS Integers, Sequences, FiniteSets

CONSTANTS
    Users,           \* members whose /play requests are in flight
    MaxQueueTracks,  \* MaxQueueTracks
    Duration,        \* length of every recording, in audio units
    FiveSeconds,     \* units of audio between checkpoints and to confirm a recovery
    VoiceTries,      \* 5: voice recovery attempts per incident
    ProviderTries,   \* providerAutomaticRetries
    NetworkTries,    \* 2: media retries before the queue is halted
    HistoryLimit,    \* 100: entries of p.history
    Local,           \* ids of recordings with RequestedSource "local"
    MaxTracks,       \* bound: recordings ever requested
    MaxBatch,        \* bound: tracks of one request
    MaxGeneration,   \* bound: p.generation
    MaxSessions,     \* bound: voice sessions ever attached
    MaxIncidents,    \* bound: p.providerGeneration and p.voiceEpoch
    MaxFailures,     \* bound: p.failures
    MaxRestarts      \* bound: process crashes

ASSUME PlayerAssumption ==
    /\ MaxQueueTracks \in Nat \ {0} /\ Duration \in Nat \ {0} /\ FiveSeconds \in Nat \ {0}
    /\ VoiceTries \in Nat \ {0} /\ ProviderTries \in Nat \ {0} /\ NetworkTries \in Nat
    /\ HistoryLimit \in Nat \ {0} /\ Local \subseteq Nat
    /\ MaxTracks \in Nat /\ MaxBatch \in Nat /\ MaxGeneration \in Nat /\ MaxSessions \in Nat
    /\ MaxIncidents \in Nat /\ MaxFailures \in Nat /\ MaxRestarts \in Nat

VARIABLES
    closed,              \* p.ctx.Err() != nil
    closer,              \* how far Close() is
    storeOn,             \* p.store != nil
    voice,               \* p.voice: a session number, 0 is nil
    sessions,            \* sessions attached so far
    open,                \* sessions whose transport is not closed
    leaving, leaveVoice, \* Leave() waits for trackDone, then closes leaveVoice
    queue, loop, history, generation,
    current, confirmed, checkpoint,   \* p.current, confirmedOffset, checkpointOffset
    started,             \* startedSequence = sequence
    paused,              \* p.pause.paused()
    cause,               \* why the attempt's ctx was cancelled: none, canceled, voice
    once,                \* startVoice.once: todo, due (start is running), done
    outcome,             \* what play() returned
    playVoice,           \* the transport the attempt writes to
    playbackProviderID,
    pc, wake, permit, rec,            \* run(): where it is, p.wake, providerPermit, recoverVoice's locals
    recoveryPaused, halted, networkAttempts, backoff, failures,  \* backoff: retryAt is ahead
    voiceBlocked, voiceIncident, voiceAttempts, voiceEpoch,
    providerBlocked, providerProbe, providerRetries, providerDue,
    providerIncident, providerGeneration,
    store, persistenceError, retry,   \* the saved snapshot; retryPersistence's attempt (0: no worker)
    request, nextId,     \* each user's ticket and tracks; ids are given out in order
    removed,             \* history: ids a /stop, /clear or /leave before shutdown removed or revoked
    restarts,
    enabled              \* the commands and faults that may happen now; not part of vars, since
                         \* nothing in the player determines or constrains it

lifeVars    == <<closed, closer, storeOn, restarts>>
voiceVars   == <<voice, sessions, open, leaving, leaveVoice>>
queueVars   == <<queue, loop, history, generation>>
trackVars   == <<current, confirmed, checkpoint, started, paused, cause, once, outcome, playVoice>>
runVars     == <<pc, permit, rec>>
retryVars   == <<recoveryPaused, halted, networkAttempts, backoff, failures>>
recoverVars == <<voiceBlocked, voiceIncident, voiceAttempts, voiceEpoch>>
provVars    == <<providerBlocked, providerProbe, providerRetries, providerDue,
                 providerIncident, providerGeneration>>
storeVars   == <<store, persistenceError, retry>>
reqVars     == <<request, nextId, removed>>
vars == <<lifeVars, voiceVars, queueVars, trackVars, playbackProviderID, runVars, wake, retryVars,
          recoverVars, provVars, storeVars, reqVars>>

Track(i, o) == [id |-> i, off |-> o]
IdSeq(s) == [k \in DOMAIN s |-> s[k].id]
IdSet(s) == {s[k].id : k \in DOMAIN s}

Held == current \o queue   \* every position the player is responsible for

Playing == pc \in {"playing", "ended"}   \* trackDone is open

\* ctx.Err() of the running attempt.
Interrupted == closed \/ cause # "none"

\* Mutant of advanceInterrupted: the position is lost one unit early.
advanceEarly(t) == t.off + 1 >= (Duration + 1) \div 2

\* advanceInterrupted: half of the recording was heard, so it is not taken up again.
advanceInterrupted(t) == t.off >= (Duration + 1) \div 2
-----------------------------------------------------------------------------
(***************************************************************************)
(* Durable state (durable.go).                                             *)
(***************************************************************************)
Empty == [cur |-> <<>>, started |-> FALSE, q |-> <<>>, hist |-> <<>>, loop |-> "off"]

\* durableLocked
Durable ==
    [cur     |-> IF current = <<>> THEN <<>> ELSE <<Track(current[1].id, confirmed)>>,
     started |-> current # <<>> /\ started,
     q       |-> queue,
     hist    |-> history,
     loop    |-> loop]

\* The queue and the history that ConfigureStore rebuilds from a snapshot.
RestoredQueue(s) ==
    (IF s.cur # <<>> /\ ~advanceInterrupted(s.cur[1]) THEN s.cur ELSE <<>>) \o s.q

RestoredHistory(s) ==
    IF /\ s.started /\ s.cur # <<>> /\ s.hist # <<>>
       /\ s.cur[1].off = 0 /\ ~advanceInterrupted(s.cur[1])
      THEN SubSeq(s.hist, 1, Len(s.hist) - 1)
      ELSE s.hist

\* Mutant of SaveFails: the failure is not reported.
SaveFailsQuietly == "store" \in enabled /\ UNCHANGED storeVars

\* A write fails: the error is shown and one retry worker runs.
SaveFails ==
    /\ "store" \in enabled
    /\ persistenceError' = "queue"
    /\ retry' = IF retry = 0 THEN 1 ELSE retry
    /\ UNCHANGED store

\* Mutant of Persist: a handler that forgets to save.
PersistNot == UNCHANGED storeVars

\* persistLocked.  Uses the primed state: it is the last conjunct of a handler.
Persist ==
    IF storeOn /\ ~closed
      THEN \/ store' = Durable' /\ persistenceError' = "" /\ UNCHANGED retry
           \/ SaveFails
      ELSE UNCHANGED storeVars

\* retryPersistence: up to three more attempts, each of the latest state.
RetryPersistence ==
    /\ retry > 0
    /\ IF closed \/ ~storeOn \/ persistenceError = ""
         THEN retry' = 0 /\ UNCHANGED <<store, persistenceError>>
         ELSE \/ store' = Durable /\ persistenceError' = "" /\ retry' = 0
              \/ /\ "store" \in enabled
                 /\ persistenceError' = "queue" /\ retry' = IF retry = 3 THEN 0 ELSE retry + 1
                 /\ UNCHANGED store
    /\ UNCHANGED <<lifeVars, voiceVars, queueVars, trackVars, playbackProviderID, runVars, wake,
                   retryVars, recoverVars, provVars, reqVars>>

Init ==
    /\ store = Empty /\ sessions = 0 /\ nextId = 0 /\ removed = {} /\ restarts = 0
    /\ closed = FALSE /\ closer = "none" /\ storeOn = TRUE
    /\ voice = 0 /\ leaving = FALSE /\ leaveVoice = 0 /\ open = {}
    /\ queue = <<>> /\ loop = "off" /\ history = <<>> /\ generation = 0
    /\ current = <<>> /\ confirmed = 0 /\ checkpoint = 0 /\ started = FALSE /\ paused = FALSE
    /\ cause = "none" /\ once = "todo" /\ outcome = "eof" /\ playVoice = 0 /\ playbackProviderID = 0
    /\ pc = "top" /\ wake = FALSE /\ permit = 0 /\ rec = [epoch |-> 0, session |-> 0]
    /\ recoveryPaused = FALSE /\ halted = FALSE /\ networkAttempts = 0 /\ backoff = FALSE /\ failures = 0
    /\ voiceBlocked = FALSE /\ voiceIncident = FALSE /\ voiceAttempts = 0 /\ voiceEpoch = 0
    /\ providerBlocked = FALSE /\ providerProbe = FALSE /\ providerRetries = 0 /\ providerDue = TRUE
    /\ providerIncident = 0 /\ providerGeneration = 0
    /\ persistenceError = "" /\ retry = 0
    /\ request = [u \in Users |-> <<>>]

\* The process dies or, once closed, ends; New and ConfigureStore make a player from
\* the snapshot.
Restart ==
    /\ "crash" \in enabled \/ closer = "done"
    /\ restarts < MaxRestarts /\ restarts' = restarts + 1
    /\ removed' = IF persistenceError # "" THEN {} ELSE removed
    /\ queue' = RestoredQueue(store) /\ loop' = store.loop /\ history' = RestoredHistory(store)
    /\ closed' = FALSE /\ closer' = "none" /\ storeOn' = TRUE
    /\ voice' = 0 /\ leaving' = FALSE /\ leaveVoice' = 0 /\ open' = {} /\ generation' = 0
    /\ current' = <<>> /\ confirmed' = 0 /\ checkpoint' = 0 /\ started' = FALSE /\ paused' = FALSE
    /\ cause' = "none" /\ once' = "todo" /\ outcome' = "eof" /\ playVoice' = 0 /\ playbackProviderID' = 0
    /\ pc' = "top" /\ wake' = FALSE /\ permit' = 0 /\ rec' = [epoch |-> 0, session |-> 0]
    /\ recoveryPaused' = FALSE /\ halted' = FALSE /\ networkAttempts' = 0 /\ backoff' = FALSE /\ failures' = 0
    /\ voiceBlocked' = FALSE /\ voiceIncident' = FALSE /\ voiceAttempts' = 0 /\ voiceEpoch' = 0
    /\ providerBlocked' = FALSE /\ providerProbe' = FALSE /\ providerRetries' = 0 /\ providerDue' = TRUE
    /\ providerIncident' = 0 /\ providerGeneration' = 0
    /\ persistenceError' = "" /\ retry' = 0
    /\ request' = [u \in Users |-> <<>>]
    /\ UNCHANGED <<store, sessions, nextId>>
-----------------------------------------------------------------------------
(***************************************************************************)
(* Pieces that several handlers share, all under p.mu.                     *)
(***************************************************************************)
\* Mutant of signal: the notification is lost.
signalLost == UNCHANGED wake

signal == wake' = TRUE

\* cancelTrackLocked: the attempt's ctx is cancelled and its track forgotten at once;
\* run() tears the stream down later.
cancelTrack ==
    /\ current' = <<>> /\ paused' = FALSE
    /\ cause' = IF pc = "playing" /\ cause = "none" THEN "canceled" ELSE cause
    /\ UNCHANGED <<confirmed, checkpoint, started, once, outcome, playVoice>>

resetProvider ==
    IF ~providerBlocked /\ providerIncident = 0
      THEN UNCHANGED provVars
      ELSE /\ providerBlocked' = FALSE /\ providerIncident' = 0 /\ providerProbe' = FALSE
           /\ providerRetries' = 0
           /\ UNCHANGED <<providerDue, providerGeneration>>

\* blockProviderLocked, the shared gate not being blocked.
blockProvider ==
    IF providerBlocked
      THEN UNCHANGED <<provVars, wake>>
      ELSE /\ providerGeneration < MaxIncidents
           /\ providerBlocked' = TRUE
           /\ IF providerIncident = 0
                THEN /\ providerGeneration' = providerGeneration + 1
                     /\ providerIncident' = providerGeneration + 1
                     /\ providerRetries' = 0
                ELSE UNCHANGED <<providerGeneration, providerIncident, providerRetries>>
           /\ providerDue' = FALSE
           /\ UNCHANGED providerProbe
           /\ signal

\* finishProviderLocked(err, incident) for a permit of the guild's own policy.
finishProvider(err, incident) ==
    IF ~providerProbe \/ incident # providerIncident
      THEN UNCHANGED <<provVars, wake>>
      ELSE /\ signal
           /\ IF err \notin {"provider", "canceled"}
                THEN resetProvider
                ELSE /\ providerProbe' = FALSE
                     /\ providerRetries' = IF err = "canceled" /\ providerRetries > 0
                                             THEN providerRetries - 1 ELSE providerRetries
                     /\ providerDue' = FALSE
                     /\ UNCHANGED <<providerBlocked, providerIncident, providerGeneration>>

suspendVoice ==
    /\ voiceBlocked' = TRUE
    /\ voiceIncident' = (voiceIncident \/ ~voiceBlocked)
    /\ voiceAttempts' = IF ~voiceBlocked /\ ~voiceIncident THEN 0 ELSE voiceAttempts
    /\ UNCHANGED voiceEpoch

\* completeRecoveryLocked
completeRecovery ==
    /\ networkAttempts' = 0
    /\ voiceIncident' = FALSE
    /\ voiceAttempts' = IF voiceIncident THEN 0 ELSE voiceAttempts
    /\ UNCHANGED <<voiceBlocked, voiceEpoch>>

\* The ids of requests that are still searching: /stop, /clear and /leave revoke them.
Asked == UNION {IdSet(request[u][1].tracks) : u \in {v \in Users : request[v] # <<>>}}
-----------------------------------------------------------------------------
(***************************************************************************)
(* Requests: a member's /play takes a Ticket, searches without the lock    *)
(* and enqueues with the ticket it took.                                   *)
(***************************************************************************)
Ask(u, n) ==   \* Ticket()
    /\ "play" \in enabled
    /\ request[u] = <<>> /\ voice # 0 /\ ~closed /\ nextId + n <= MaxTracks
    /\ request' = [request EXCEPT ![u] =
            <<[ticket |-> generation, tracks |-> [k \in 1..n |-> Track(nextId + k, 0)]]>>]
    /\ nextId' = nextId + n
    /\ UNCHANGED <<lifeVars, voiceVars, queueVars, trackVars, playbackProviderID, runVars, wake,
                   retryVars, recoverVars, provVars, storeVars, removed>>

Accepted(r) ==
    /\ ~closed /\ voice # 0 /\ r.ticket = generation
    /\ Len(r.tracks) <= MaxQueueTracks - Len(queue)

\* A rejected request is saved as well: persistLocked is deferred.
EnqueueMany(u) ==
    /\ request[u] # <<>>
    /\ request' = [request EXCEPT ![u] = <<>>]
    /\ IF Accepted(request[u][1])
         THEN /\ queue' = queue \o request[u][1].tracks
              /\ halted' = FALSE /\ failures' = 0
              /\ signal
         ELSE UNCHANGED <<queue, halted, failures, wake>>
    /\ UNCHANGED <<lifeVars, voiceVars, loop, history, generation, trackVars, playbackProviderID, runVars,
                   recoveryPaused, networkAttempts, backoff, recoverVars, provVars, nextId, removed>>
    /\ Persist
-----------------------------------------------------------------------------
(***************************************************************************)
(* Commands that end a session's work: Stop, Clear, Leave, and Close.      *)
(***************************************************************************)
\* Mutant of revokeTickets: searches in flight keep a valid ticket.
keepTickets == UNCHANGED generation

revokeTickets == generation' = generation + 1

\* What Stop and Leave have in common.
EndSession ==
    /\ voiceEpoch' = voiceEpoch + 1 /\ UNCHANGED <<voiceBlocked, voiceIncident, voiceAttempts>>
    /\ resetProvider
    /\ queue' = <<>> /\ loop' = "off" /\ UNCHANGED history
    /\ halted' = FALSE /\ failures' = 0 /\ networkAttempts' = 0 /\ recoveryPaused' = FALSE /\ backoff' = FALSE
    /\ revokeTickets
    /\ cancelTrack
    /\ signal
    /\ removed' = IF closed THEN removed ELSE removed \union IdSet(Held) \union Asked
    /\ UNCHANGED <<playbackProviderID, runVars, request, nextId>>

SessionBounds == generation < MaxGeneration /\ voiceEpoch < MaxIncidents

Stop ==
    /\ "stop" \in enabled /\ SessionBounds
    /\ EndSession
    /\ UNCHANGED <<lifeVars, voiceVars>>
    /\ Persist

Clear ==
    /\ "clear" \in enabled /\ generation < MaxGeneration
    /\ revokeTickets
    /\ queue' = <<>> /\ loop' = "off" /\ UNCHANGED history
    /\ halted' = FALSE /\ failures' = 0 /\ networkAttempts' = 0 /\ backoff' = FALSE
    /\ signal
    /\ removed' = IF closed THEN removed ELSE (removed \union IdSet(queue) \union Asked) \ IdSet(current)
    /\ UNCHANGED <<lifeVars, voiceVars, trackVars, playbackProviderID, runVars, recoveryPaused, recoverVars,
                   provVars, request, nextId>>
    /\ Persist

\* Leave's critical section: detach, then wait for trackDone without the lock.
Detach ==
    /\ voice' = 0 /\ leaving' = TRUE /\ leaveVoice' = voice
    /\ UNCHANGED <<sessions, open>>
    /\ EndSession

Leave ==
    /\ "leave" \in enabled /\ SessionBounds /\ ~leaving
    /\ Detach
    /\ UNCHANGED lifeVars
    /\ Persist

\* Mutant of trackDone: nobody waits for the stream.
trackDoneIgnored == TRUE

trackDone == ~Playing

\* <-trackDone, then v.Close: the transport goes after the stream that writes to it.
LeaveCloses ==
    /\ leaving /\ trackDone
    /\ leaving' = FALSE /\ leaveVoice' = 0 /\ open' = open \ {leaveVoice}
    /\ UNCHANGED <<lifeVars, voice, sessions, queueVars, trackVars, playbackProviderID, runVars, wake,
                   retryVars, recoverVars, provVars, storeVars, reqVars>>

\* Bot.Close cancels the context every player derives from, waits for the handlers
\* that are running, and closes the player.  From the cancellation on nothing is saved.
Shutdown ==
    /\ "close" \in enabled /\ closer = "none" /\ ~leaving /\ SessionBounds
    /\ closer' = "cancel" /\ closed' = TRUE
    /\ UNCHANGED <<storeOn, restarts, voiceVars, queueVars, trackVars, playbackProviderID, runVars, wake,
                   retryVars, recoverVars, provVars, storeVars, reqVars>>

\* Close: the store is dropped (and saved first, had the context been alive), then Leave.
Close ==
    /\ closer = "cancel" /\ ~leaving
    /\ closer' = "leave" /\ storeOn' = FALSE
    /\ UNCHANGED <<closed, restarts, voiceVars, queueVars, trackVars, playbackProviderID, runVars, wake,
                   retryVars, recoverVars, provVars, reqVars>>
    /\ Persist

CloseLeaves ==
    /\ closer = "leave" /\ closer' = "wait"
    /\ Detach
    /\ UNCHANGED <<closed, storeOn, restarts>>
    /\ Persist

CloseReturns ==
    /\ closer = "wait" /\ ~leaving /\ pc = "exit" /\ retry = 0
    /\ closer' = "done"
    /\ UNCHANGED <<closed, storeOn, restarts, voiceVars, queueVars, trackVars, playbackProviderID, runVars, wake,
                   retryVars, recoverVars, provVars, storeVars, reqVars>>
-----------------------------------------------------------------------------
(***************************************************************************)
(* Queue commands.                                                         *)
(***************************************************************************)
\* Everything a queue command never touches.
QueueCommandFrame ==
    UNCHANGED <<lifeVars, voiceVars, generation, playbackProviderID, runVars, recoveryPaused, recoverVars,
                provVars, request, nextId>>

SkipN(n) ==
    LET skips == IF current # <<>> THEN 1 ELSE 0
        drop  == IF n - skips < Len(queue) THEN n - skips ELSE Len(queue)
    IN
    /\ "skip" \in enabled
    /\ IF networkAttempts > 0
         THEN networkAttempts' = 0 /\ backoff' = FALSE /\ halted' = FALSE
         ELSE UNCHANGED <<networkAttempts, backoff, halted>>
    /\ IF current # <<>> THEN cancelTrack ELSE UNCHANGED trackVars
    /\ queue' = SubSeq(queue, drop + 1, Len(queue))
    /\ signal
    /\ UNCHANGED <<loop, history, failures, removed>> /\ QueueCommandFrame
    /\ Persist

\* Remove, Move and Shuffle: another order of the queue, saved and signalled.
Reordered(q) ==
    /\ queue' = q
    /\ signal
    /\ UNCHANGED <<loop, history, trackVars, halted, networkAttempts, backoff, failures, removed>>
    /\ QueueCommandFrame
    /\ Persist

Without(s, k) == SubSeq(s, 1, k - 1) \o SubSeq(s, k + 1, Len(s))

Remove(k) == "remove" \in enabled /\ Reordered(Without(queue, k))

\* Move the whole entry at position i to position j.
Move(i, j) ==
    LET rest == Without(queue, i) IN
    "move" \in enabled /\ Reordered(SubSeq(rest, 1, j - 1) \o <<queue[i]>> \o SubSeq(rest, j, Len(rest)))

Shuffle ==
    /\ "shuffle" \in enabled /\ queue # <<>>
    /\ \E p \in {f \in [DOMAIN queue -> DOMAIN queue] : \A i, j \in DOMAIN queue : f[i] = f[j] => i = j} :
          Reordered([k \in DOMAIN queue |-> queue[p[k]]])

\* Jump and Replay: the current track is cancelled and the queue goes on with q.
GoesOnWith(q) ==
    /\ queue' = q
    /\ cancelTrack
    /\ signal
    /\ UNCHANGED <<loop, history, halted, networkAttempts, backoff, failures, removed>>
    /\ QueueCommandFrame
    /\ Persist

Jump(k) == "jump" \in enabled /\ GoesOnWith(SubSeq(queue, k, Len(queue)))

\* Mutant of RoomFor: off by two.
RoomForMore(n) == Len(queue) + n <= MaxQueueTracks + 2

RoomFor(n) == Len(queue) + n <= MaxQueueTracks

Replay ==
    /\ "replay" \in enabled /\ current # <<>> /\ RoomFor(1)
    /\ GoesOnWith(<<Track(current[1].id, 0)>> \o queue)

SetLoop(mode) ==
    /\ "loop" \in enabled
    /\ loop' = mode
    /\ UNCHANGED <<queue, history, trackVars, wake, halted, networkAttempts, backoff, failures, removed>>
    /\ QueueCommandFrame
    /\ Persist

\* Previous: the last recording that started, then the interrupted one, then the queue.
Previous ==
    LET n == IF current # <<>> /\ started THEN Len(history) - 1 ELSE Len(history) IN
    /\ "previous" \in enabled
    /\ n > 0 /\ ~closed /\ voice # 0
    /\ RoomFor(1 + Len(current))
    /\ queue' = <<Track(history[n], 0)>> \o current \o queue
    /\ history' = SubSeq(history, 1, n - 1)
    /\ cancelTrack
    /\ halted' = FALSE /\ failures' = 0
    /\ signal
    /\ removed' = removed \ {history[n]}
    /\ UNCHANGED <<loop, networkAttempts, backoff>> /\ QueueCommandFrame
    /\ Persist
-----------------------------------------------------------------------------
(***************************************************************************)
(* SetPaused: /pause and /resume.  The first case that applies answers.    *)
(***************************************************************************)
PauseFrame == UNCHANGED <<lifeVars, voiceVars, queueVars, current, confirmed, checkpoint, started, cause, once,
                          outcome, playVoice, playbackProviderID, runVars, storeVars, reqVars>>

PauseVoiceSuspended(on) ==
    /\ voiceBlocked /\ queue # <<>>
    /\ recoveryPaused' = on
    /\ IF on THEN UNCHANGED <<voiceAttempts, wake>>
             ELSE /\ voiceAttempts' = IF voiceAttempts >= VoiceTries THEN 0 ELSE voiceAttempts
                  /\ signal
    /\ UNCHANGED <<paused, halted, networkAttempts, backoff, failures, voiceBlocked, voiceIncident, voiceEpoch,
                   provVars>>

ResumeProvider ==
    /\ ~(voiceBlocked /\ queue # <<>>) /\ providerBlocked /\ ~providerProbe
    /\ IF queue = <<>>
         THEN resetProvider /\ UNCHANGED failures
         ELSE /\ providerRetries' = 0 /\ providerDue' = TRUE /\ failures' = 0
              /\ UNCHANGED <<providerBlocked, providerProbe, providerIncident, providerGeneration>>
    /\ signal
    /\ UNCHANGED <<paused, recoveryPaused, halted, networkAttempts, backoff, recoverVars>>

ResumeHalted ==
    /\ ~(voiceBlocked /\ queue # <<>>) /\ ~providerBlocked /\ halted
    /\ halted' = FALSE /\ networkAttempts' = 0 /\ backoff' = FALSE /\ failures' = 0
    /\ signal
    /\ UNCHANGED <<paused, recoveryPaused, recoverVars, provVars>>

SetGate(on) ==
    /\ ~(voiceBlocked /\ queue # <<>>) /\ (~on => ~providerBlocked /\ ~halted)
    /\ current # <<>> /\ ~closed
    /\ paused' = on
    /\ UNCHANGED <<wake, retryVars, recoverVars, provVars>>

SetPaused(on) ==
    /\ "pause" \in enabled
    /\ \/ PauseVoiceSuspended(on)
       \/ ~on /\ (ResumeProvider \/ ResumeHalted)
       \/ SetGate(on)
    /\ PauseFrame
-----------------------------------------------------------------------------
(***************************************************************************)
(* Voice and provider events from the Discord side.                        *)
(***************************************************************************)
\* Discord serialises joins and leaves of a guild, so no Leave is under way.
Attach ==
    /\ ~closed /\ voice = 0 /\ ~leaving
    /\ sessions < MaxSessions /\ generation < MaxGeneration
    /\ sessions' = sessions + 1 /\ voice' = sessions + 1 /\ open' = open \union {sessions + 1}
    /\ voiceBlocked' = FALSE /\ voiceIncident' = FALSE /\ voiceAttempts' = 0
    /\ generation' = generation + 1
    /\ signal
    /\ UNCHANGED <<lifeVars, leaving, leaveVoice, queue, loop, history, trackVars, playbackProviderID, runVars,
                   retryVars, voiceEpoch, provVars, storeVars, reqVars>>

\* The health check found the transport dead.
SuspendVoice ==
    /\ "voice" \in enabled /\ voice # 0 /\ ~closed
    /\ suspendVoice
    /\ cause' = IF pc = "playing" /\ current # <<>> /\ cause = "none" THEN "voice" ELSE cause
    /\ signal
    /\ UNCHANGED <<lifeVars, voiceVars, queueVars, current, confirmed, checkpoint, started, paused, once, outcome,
                   playVoice, playbackProviderID, runVars, retryVars, provVars, storeVars, reqVars>>

\* The search of a /play met a provider failure.
SuspendProvider ==
    /\ "provider" \in enabled /\ ~closed /\ ~providerBlocked
    /\ blockProvider
    /\ UNCHANGED <<lifeVars, voiceVars, queueVars, trackVars, playbackProviderID, runVars, retryVars, recoverVars,
                   storeVars, reqVars>>
-----------------------------------------------------------------------------
(***************************************************************************)
(* run(): the scheduler.                                                   *)
(***************************************************************************)
RunFrame == UNCHANGED <<lifeVars, sessions, open, leaving, leaveVoice, loop, generation, reqVars>>

NeedsVoice == voiceBlocked /\ voiceAttempts < VoiceTries /\ queue # <<>> /\ voice # 0
headLocal  == queue # <<>> /\ queue[1].id \in Local
NeedsProvider == providerBlocked /\ ~headLocal /\ queue # <<>> /\ voice # 0 /\ ~halted

\* schedulerReasonAllowProviderLocked; every queue position is resolved here.
Reason(probe) ==
    IF closed THEN "canceled"
    ELSE IF voice = 0 THEN "voice_detached"
    ELSE IF voiceBlocked THEN "voice_suspended"
    ELSE IF providerBlocked /\ ~probe THEN "provider_blocked"
    ELSE IF halted THEN "halted"
    ELSE IF queue = <<>> THEN "queue_empty"
    ELSE "ready"

\* A step of run() that only moves it.
Goto(p) ==
    /\ pc' = p
    /\ RunFrame
    /\ UNCHANGED <<voice, queue, history, trackVars, playbackProviderID, retryVars, storeVars>>

RunTop ==   \* lines 256-270: exit, voice recovery or a provider permit first
    /\ pc = "top"
    /\ \/ closed /\ Goto("exit")
       \/ ~closed /\ NeedsVoice /\ Goto("recover")
       \/ ~closed /\ ~NeedsVoice /\ NeedsProvider /\ Goto("provider")
    /\ UNCHANGED <<permit, rec, wake, recoverVars, provVars>>

TrialDue == providerRetries < ProviderTries /\ providerDue

\* waitProvider(p.ctx, nil) of the guild's own policy.
WaitProvider ==
    /\ pc = "provider"
    /\ \/ closed /\ Goto("exit") /\ UNCHANGED <<permit, provVars>>
       \/ ~closed /\ ~providerBlocked /\ Goto("granted") /\ permit' = 0 /\ UNCHANGED provVars
       \/ /\ ~closed /\ providerBlocked /\ ~providerProbe
          /\ TrialDue
          /\ providerProbe' = TRUE /\ providerRetries' = providerRetries + 1
          /\ permit' = providerIncident
          /\ Goto("granted")
          /\ UNCHANGED <<providerBlocked, providerDue, providerIncident, providerGeneration>>
    /\ UNCHANGED <<rec, wake, recoverVars>>

AtSchedule == pc = "granted" \/ (pc = "top" /\ ~closed /\ ~NeedsVoice /\ ~NeedsProvider)
\* headLocal is read before the wait for a permit; a head that waited was not local.
Allow == permit # 0 \/ (pc = "top" /\ headLocal)

\* Not ready, or a media retry is not due yet: the permit is given back.
Defer ==
    /\ AtSchedule
    /\ \/ Reason(Allow) # "ready" /\ Goto("sched")
       \/ Reason(Allow) = "ready" /\ backoff /\ Goto("backoff")
    /\ IF permit # 0 THEN finishProvider("canceled", permit) ELSE UNCHANGED <<provVars, wake>>
    /\ permit' = 0
    /\ UNCHANGED <<rec, recoverVars>>

\* The head becomes current.  A fresh head is saved with its first frame only: the
\* snapshot already holds it as the head of the queue.
Select ==
    /\ AtSchedule /\ Reason(Allow) = "ready" /\ ~backoff
    /\ current' = <<queue[1]>> /\ queue' = Tail(queue)
    /\ confirmed' = queue[1].off /\ checkpoint' = queue[1].off
    /\ started' = FALSE /\ cause' = "none" /\ once' = "todo" /\ playVoice' = voice
    /\ paused' = recoveryPaused /\ recoveryPaused' = FALSE
    /\ playbackProviderID' = permit
    /\ pc' = "playing"
    /\ RunFrame
    /\ UNCHANGED <<voice, history, outcome, permit, rec, wake, halted, networkAttempts, backoff, failures,
                   recoverVars, provVars>>
    /\ IF persistenceError # "" \/ queue[1].off # 0 THEN Persist ELSE UNCHANGED storeVars

\* schedulerWait: return when ready, else sleep until signalled.
SchedulerWait ==
    /\ pc = "sched"
    /\ IF Reason(FALSE) = "ready" THEN Goto("top") ELSE Goto("asleep")
    /\ UNCHANGED <<permit, rec, wake, recoverVars, provVars>>

Wakeup ==   \* <-p.wake in schedulerWait or in the backoff select
    /\ pc \in {"asleep", "backoff"} /\ wake
    /\ wake' = FALSE
    /\ Goto(IF pc = "asleep" THEN "sched" ELSE "top")
    /\ UNCHANGED <<permit, rec, recoverVars, provVars>>

\* Mutant of WaitCanceled: schedulerWait goes on waiting after ctx.Done().
WaitCanceledLoops ==
    /\ pc \in {"asleep", "backoff"} /\ closed
    /\ Goto(IF pc = "asleep" THEN "sched" ELSE "top")
    /\ UNCHANGED <<permit, rec, wake, recoverVars, provVars>>

WaitCanceled ==
    /\ pc \in {"asleep", "backoff"} /\ closed
    /\ Goto(IF pc = "asleep" THEN "exit" ELSE "top")
    /\ UNCHANGED <<permit, rec, wake, recoverVars, provVars>>

\* The 30 s watchdog rechecks a missed notification.
Watchdog ==
    /\ pc = "asleep" /\ Reason(FALSE) = "ready"
    /\ Goto("sched")
    /\ UNCHANGED <<permit, rec, wake, recoverVars, provVars>>

\* Clocks: retryAt and providerRetryAt pass.
BackoffElapses ==
    /\ backoff /\ backoff' = FALSE
    /\ pc' = IF pc = "backoff" THEN "top" ELSE pc
    /\ RunFrame
    /\ UNCHANGED <<voice, queue, history, trackVars, playbackProviderID, recoveryPaused, halted, networkAttempts,
                   failures, storeVars, permit, rec, wake, recoverVars, provVars>>

ProviderElapses ==
    /\ ~providerDue /\ providerDue' = TRUE
    /\ Goto(pc)
    /\ UNCHANGED <<permit, rec, wake, recoverVars, providerBlocked, providerProbe, providerRetries,
                   providerIncident, providerGeneration>>
-----------------------------------------------------------------------------
(***************************************************************************)
(* recoverVoice.                                                           *)
(***************************************************************************)
\* Mutant of Fenced: the epoch is not compared after the attempt.
FencedByClose == closed

\* ctx.Err() # nil or a newer epoch: cancelVoiceRecoveryLocked does both.
Fenced == closed \/ rec.epoch # voiceEpoch

RecoverBegins ==
    /\ pc = "recover"
    /\ IF NeedsVoice
         THEN Goto("attempt") /\ rec' = [epoch |-> voiceEpoch, session |-> voice]
         ELSE Goto("top") /\ UNCHANGED rec
    /\ UNCHANGED <<permit, wake, recoverVars, provVars>>

RecoverAttempt ==   \* take one of the attempts, then sleep its backoff
    /\ pc = "attempt"
    /\ IF Fenced \/ voiceAttempts >= VoiceTries
         THEN Goto("top") /\ UNCHANGED voiceAttempts
         ELSE Goto("dialing") /\ voiceAttempts' = voiceAttempts + 1
    /\ UNCHANGED <<permit, rec, wake, voiceBlocked, voiceIncident, voiceEpoch, provVars>>

\* Recover(ctx) returned; ok: it produced a usable transport.
RecoverEnds(ok) ==
    /\ pc = "dialing" /\ (ok \/ "redial" \in enabled)
    /\ IF Fenced
         THEN pc' = "top" /\ UNCHANGED <<voice, voiceBlocked, wake>>
         ELSE IF ok
           THEN pc' = "top" /\ voice' = rec.session /\ voiceBlocked' = FALSE /\ signal
           ELSE /\ pc' = IF voiceAttempts >= VoiceTries THEN "top" ELSE "attempt"
                /\ UNCHANGED <<voice, voiceBlocked, wake>>
    /\ RunFrame
    /\ UNCHANGED <<queue, history, trackVars, playbackProviderID, retryVars, storeVars,
                   permit, rec, voiceIncident, voiceAttempts, voiceEpoch, provVars>>
-----------------------------------------------------------------------------
(***************************************************************************)
(* One playback attempt: startVoice.WriteFrame's callbacks, then what run  *)
(* does with the result of play().                                         *)
(***************************************************************************)
\* Mutant of persistAudioCheckpoint: no periodic checkpoint.
NoAudioCheckpoint == UNCHANGED storeVars

\* persistAudioCheckpointLocked: no retry worker, and it clears only its own error.
persistAudioCheckpoint ==
    IF ~storeOn \/ closed
      THEN UNCHANGED storeVars
      ELSE \/ /\ store' = Durable'
              /\ persistenceError' = IF persistenceError = "checkpoint" THEN "" ELSE persistenceError
              /\ UNCHANGED retry
           \/ /\ "store" \in enabled
              /\ persistenceError' = IF persistenceError = "" THEN "checkpoint" ELSE persistenceError
              /\ UNCHANGED <<store, retry>>

AttemptFrame == UNCHANGED <<lifeVars, voiceVars, queue, loop, generation, runVars, reqVars>>

\* A frame was sent.  Audio is confirmed (confirmFrame); the first frame, audio or
\* silence, makes announceStart due.  A frame in flight when /pause arrives commutes
\* with it, so none is sent while paused.
ConfirmFrame ==
    /\ pc = "playing" /\ once # "due" /\ ~paused
    /\ once' = IF once = "todo" THEN "due" ELSE once
    /\ AttemptFrame
    /\ UNCHANGED <<current, started, paused, cause, outcome, playVoice, history,
                   recoveryPaused, halted, backoff, failures>>
    /\ IF Interrupted \/ current = <<>>
         THEN /\ once = "todo"
              /\ UNCHANGED <<confirmed, checkpoint, playbackProviderID, wake, networkAttempts,
                             recoverVars, provVars, storeVars>>
         ELSE /\ confirmed < Duration
              /\ confirmed' = confirmed + 1
              /\ IF confirmed + 1 - current[1].off >= FiveSeconds
                   THEN /\ completeRecovery
                        /\ IF playbackProviderID # 0
                             THEN finishProvider("ok", playbackProviderID) ELSE UNCHANGED <<provVars, wake>>
                        /\ playbackProviderID' = 0
                   ELSE UNCHANGED <<playbackProviderID, wake, networkAttempts, recoverVars, provVars>>
              /\ IF confirmed + 1 - checkpoint >= FiveSeconds
                   THEN checkpoint' = confirmed + 1 /\ persistAudioCheckpoint
                   ELSE UNCHANGED <<checkpoint, storeVars>>

SilenceFrame ==
    /\ pc = "playing" /\ once = "todo" /\ ~paused
    /\ once' = "due"
    /\ AttemptFrame
    /\ UNCHANGED <<current, confirmed, checkpoint, started, paused, cause, outcome, playVoice, history,
                   playbackProviderID, wake, retryVars, recoverVars, provVars, storeVars>>

Recent(h) == IF Len(h) > HistoryLimit THEN SubSeq(h, Len(h) - HistoryLimit + 1, Len(h)) ELSE h

\* persistPlaybackLocked(record), and RecordPlayback when a dirty snapshot took the
\* repair path: its failure leaves an error that no worker retries.
persistStart ==
    \/ Persist
    \/ /\ "store" \in enabled /\ storeOn /\ ~closed /\ persistenceError # "" /\ current[1].off = 0
       /\ persistenceError' = "history"
       /\ \/ store' = Durable' /\ UNCHANGED retry
          \/ UNCHANGED store /\ retry' = IF retry = 0 THEN 1 ELSE retry

announceStart ==
    /\ pc = "playing" /\ once = "due" /\ once' = "done"
    /\ AttemptFrame
    /\ UNCHANGED <<current, confirmed, checkpoint, paused, cause, outcome, playVoice, playbackProviderID, wake,
                   retryVars, recoverVars, provVars>>
    /\ IF Interrupted \/ current = <<>>
         THEN UNCHANGED <<started, history, storeVars>>
         ELSE /\ started' = TRUE
              /\ history' = IF current[1].off > 0 THEN history ELSE Recent(Append(history, current[1].id))
              /\ persistStart

\* Results of play(): "stream" is ffmpeg_exit, yt_dlp_exit or source_http_403; "network"
\* is source_network, audio_stall or a deadline; "fail" is any other error.
Results == {"eof", "voice", "provider", "network", "stream", "fail", "canceled"}

\* play() returns.  ctx.Err() and its cause are read before the lock is taken again.
PlayReturns(o) ==
    /\ pc = "playing" /\ once # "due"
    /\ \/ o = "eof" /\ ~paused
       \/ o = "canceled" /\ Interrupted
       \/ o \notin {"eof", "canceled"} /\ o \in enabled
    /\ outcome' = o
    /\ cause' = IF closed /\ cause = "none" THEN "canceled" ELSE cause
    /\ pc' = "ended"
    /\ UNCHANGED <<lifeVars, voiceVars, queueVars, current, confirmed, checkpoint, started, paused, once, playVoice,
                   playbackProviderID, permit, rec, wake, retryVars, recoverVars, provVars, storeVars, reqVars>>

Retained == Track(current[1].id, confirmed)

\* Mutants of Kept: an interrupted track restarts from zero; is dropped.
KeptFromZero == IF advanceInterrupted(Retained) THEN queue ELSE <<Track(current[1].id, 0)>> \o queue
KeptNever    == queue

\* The queue with the interrupted track back at its head, unless half of it was heard.
Kept == IF advanceInterrupted(Retained) THEN queue ELSE <<Retained>> \o queue

TransportFailure == (outcome = "voice" \/ cause = "voice") /\ current # <<>> /\ ~closed
ExpectedCancel   == cause # "none" \/ current = <<>> \/ closed
ProviderFailure  == ~TransportFailure /\ ~ExpectedCancel /\ outcome = "provider"
NetworkRetry     == /\ ~TransportFailure /\ ~ExpectedCancel
                    /\ outcome = "network" \/ (outcome = "stream" /\ started)
\* A failed resume keeps its position, whatever was heard of it.
ResumeFailed     == /\ ~TransportFailure /\ ~ExpectedCancel /\ ~NetworkRetry
                    /\ outcome \in {"stream", "fail"} /\ current[1].off > 0
Advances         == ~TransportFailure /\ ~ExpectedCancel /\ ~ProviderFailure /\ ~NetworkRetry /\ ~ResumeFailed
Failed           == Advances /\ outcome # "eof"

\* /loop puts a finished track back when there is room for it.
Looped ==
    LET again == <<Track(current[1].id, 0)>> IN
    IF outcome # "eof" \/ ~started \/ Len(queue) >= MaxQueueTracks \/ loop = "off" THEN queue
    ELSE IF loop = "track" THEN again \o queue ELSE queue \o again

\* The critical section after play(), lines 368-495.
EndAttempt ==
    /\ pc = "ended" /\ pc' = "top"
    /\ current' = <<>> /\ paused' = FALSE
    /\ RunFrame
    /\ UNCHANGED <<voice, history, confirmed, checkpoint, started, cause, once, outcome, playVoice,
                   playbackProviderID, rec>>
    /\ permit' = 0
    /\ queue' = CASE TransportFailure \/ ProviderFailure \/ NetworkRetry -> Kept
                  [] ResumeFailed -> <<Retained>> \o queue
                  [] Advances -> Looped
                  [] OTHER -> queue
    /\ recoveryPaused' = IF TransportFailure \/ ProviderFailure \/ NetworkRetry THEN paused ELSE recoveryPaused
    /\ IF TransportFailure THEN suspendVoice /\ UNCHANGED networkAttempts
       ELSE IF Advances /\ outcome = "eof" THEN completeRecovery
       ELSE /\ UNCHANGED recoverVars
            /\ networkAttempts' = IF NetworkRetry THEN networkAttempts + 1 ELSE networkAttempts
    /\ halted' = (halted \/ ResumeFailed \/ (NetworkRetry /\ networkAttempts >= NetworkTries))
    /\ backoff' = (backoff \/ (NetworkRetry /\ networkAttempts < NetworkTries))
    /\ failures' = IF Failed THEN (IF failures < MaxFailures THEN failures + 1 ELSE failures) ELSE 0
    /\ IF ProviderFailure /\ ~providerBlocked THEN blockProvider
       ELSE IF permit # 0 THEN finishProvider(outcome, permit)
       ELSE UNCHANGED <<provVars, wake>>
    /\ Persist
-----------------------------------------------------------------------------
\* Where nothing need happen: a closed process that is not started again, a scheduler
\* that sleeps or waits for /resume, a paused stream.
AtRest ==
    /\ closer = "done" \/ (closer = "none" /\ (pc \in {"asleep", "provider"} \/ paused))
    /\ UNCHANGED vars

Commands ==
    \/ \E u \in Users : EnqueueMany(u) \/ \E n \in 1..MaxBatch : Ask(u, n)
    \/ Stop \/ Clear \/ Leave \/ Attach
    \/ \E n \in 1..2 : SkipN(n)
    \/ \E k \in DOMAIN queue : Remove(k) \/ Jump(k) \/ \E j \in DOMAIN queue : Move(k, j)
    \/ Shuffle \/ Replay \/ Previous
    \/ \E m \in {"off", "track", "queue"} : SetLoop(m)
    \/ \E on \in BOOLEAN : SetPaused(on)
    \/ Shutdown

Background == LeaveCloses \/ Close \/ CloseLeaves \/ CloseReturns \/ RetryPersistence
Events     == SuspendVoice \/ SuspendProvider
Clocks     == BackoffElapses \/ ProviderElapses

\* The goroutine of run(), while it is not inside play().
Scheduler ==
    \/ RunTop \/ WaitProvider \/ Defer \/ Select \/ SchedulerWait \/ Wakeup \/ WaitCanceled
    \/ RecoverBegins \/ RecoverAttempt \/ (\E ok \in BOOLEAN : RecoverEnds(ok))
    \/ EndAttempt

Attempt == ConfirmFrame \/ SilenceFrame \/ announceStart \/ \E o \in Results : PlayReturns(o)

Next ==
    \/ closer \in {"none", "cancel"} /\ Commands
    \/ closer # "done" /\ (Background \/ Events \/ Clocks \/ Scheduler \/ Watchdog \/ Attempt)
    \/ Restart
    \/ AtRest

Spec == Init /\ [][Next]_vars

(***************************************************************************)
(* run() and the goroutine of Leave and Close are scheduled, timers fire,  *)
(* a stream whose ctx was cancelled returns (its processes are killed) and *)
(* Recover returns within its 15 s.  The watchdog is not needed.           *)
(***************************************************************************)
Fairness ==
    /\ WF_vars(closer # "done" /\ Scheduler)
    /\ WF_vars(closer # "done" /\ Background)
    /\ WF_vars(closer # "done" /\ BackoffElapses)
    /\ WF_vars(closer # "done" /\ ProviderElapses)
    /\ WF_vars(closer # "done" /\ (announceStart \/ PlayReturns("canceled")))

FairSpec == Spec /\ Fairness
-----------------------------------------------------------------------------
(***************************************************************************)
(* Properties.                                                             *)
(***************************************************************************)
Tracks == [id : 1..MaxTracks, off : 0..Duration]

\* Every variable of the player keeps its type.
TypeOK ==
    /\ closed \in BOOLEAN /\ storeOn \in BOOLEAN /\ closer \in {"none", "cancel", "leave", "wait", "done"}
    /\ voice \in 0..MaxSessions /\ sessions \in 0..MaxSessions /\ open \subseteq 1..MaxSessions
    /\ leaving \in BOOLEAN /\ leaveVoice \in 0..MaxSessions
    /\ queue \in Seq(Tracks) /\ current \in Seq(Tracks) /\ Len(current) <= 1
    /\ loop \in {"off", "track", "queue"} /\ history \in Seq(1..MaxTracks) /\ generation \in Nat
    /\ confirmed \in 0..Duration /\ checkpoint \in 0..Duration /\ started \in BOOLEAN /\ paused \in BOOLEAN
    /\ cause \in {"none", "canceled", "voice"} /\ once \in {"todo", "due", "done"} /\ outcome \in Results
    /\ playVoice \in 0..MaxSessions
    /\ pc \in {"top", "recover", "attempt", "dialing", "provider", "granted", "sched", "asleep", "backoff",
               "playing", "ended", "exit"}
    /\ wake \in BOOLEAN /\ permit \in Nat /\ playbackProviderID \in Nat
    /\ rec \in [epoch : Nat, session : 0..MaxSessions]
    /\ recoveryPaused \in BOOLEAN /\ halted \in BOOLEAN /\ networkAttempts \in Nat
    /\ backoff \in BOOLEAN /\ failures \in Nat
    /\ voiceBlocked \in BOOLEAN /\ voiceIncident \in BOOLEAN /\ voiceAttempts \in 0..VoiceTries
    /\ voiceEpoch \in Nat
    /\ providerBlocked \in BOOLEAN /\ providerProbe \in BOOLEAN /\ providerRetries \in 0..ProviderTries
    /\ providerDue \in BOOLEAN /\ providerIncident \in Nat /\ providerGeneration \in Nat
    /\ persistenceError \in {"", "queue", "checkpoint", "history"} /\ retry \in 0..3
    /\ nextId \in 0..MaxTracks /\ removed \subseteq 1..MaxTracks /\ restarts \in Nat

\* The player never holds more than a full queue and one track, in any mix of
\* retries, replays, loops and requests, so that ConfigureStore accepts every
\* snapshot a player can write (durable.go:57 refuses more).
Capacity == Len(queue) + Len(current) <= MaxQueueTracks + 1

\* A snapshot that was reported as saved restores what the player holds: the same
\* positions in the same order, but for a current track of which half was heard.
DurableExact ==
    storeOn /\ ~closed /\ persistenceError \in {"", "checkpoint"} =>
        /\ store.loop = loop
        /\ \/ IdSeq(RestoredQueue(store)) = IdSeq(Held)
           \/ /\ current # <<>> /\ 2 * confirmed >= Duration
              /\ IdSeq(RestoredQueue(store)) = IdSeq(queue)

\* What a /stop, /clear or /leave before shutdown removed never comes back: not from a
\* search in flight, not from a stream still being torn down, not from a retry and
\* not from the snapshot after a crash.
NoResurrection == removed \intersect IdSet(Held) = {}

\* The player's transport, and the one a running stream writes to, is open: Leave
\* waits for the stream, and a late recovery cannot bring back a closed session.
VoiceOpen ==
    /\ voice # 0 => voice \in open
    /\ Playing => playVoice \in open

\* Unless a save failed, a crash repeats less than five seconds of confirmed audio
\* of the current track: the snapshot resumes it near the confirmed position or, when
\* half of it was heard, drops it.
BoundedReplay ==
    storeOn /\ ~closed /\ persistenceError = "" /\ current # <<>> =>
        \E saved \in {RestoredQueue(store), store.cur} :
            /\ saved # <<>> /\ saved[1].id = current[1].id
            /\ confirmed - saved[1].off < FiveSeconds

\* A position disappears only because a member removed it, because it was played
\* to its end or to its half, or because its recording failed on its own.
Removal == Stop \/ Clear \/ Leave \/ CloseLeaves \/ Restart \/ (\E n \in 1..2 : SkipN(n))
           \/ (\E k \in DOMAIN queue : Remove(k) \/ Jump(k))
NothingLost ==
    [][\A i \in IdSet(Held) \ IdSet(Held') :
          \/ Removal \/ closed
          \/ /\ pc = "ended" /\ current # <<>> /\ current[1].id = i /\ cause # "voice"
             /\ outcome \in {"eof", "fail", "stream"}
          \/ pc = "ended" /\ current # <<>> /\ current[1].id = i /\ 2 * confirmed >= Duration]_vars

\* Resuming never goes back: while a track is held, the position it will resume
\* from only grows, but for an explicit /replay or /previous, /loop or a crash.
OffsetOf(i) == IF current # <<>> /\ current[1].id = i THEN confirmed
               ELSE LET k == CHOOSE n \in DOMAIN queue : queue[n].id = i IN queue[k].off
OnceHeld(i) == Cardinality({k \in DOMAIN Held : Held[k].id = i}) = 1
ProgressKept ==
    [][\A i \in IdSet(Held) \intersect IdSet(Held') :
          OnceHeld(i) /\ OnceHeld(i)' /\ OffsetOf(i)' < OffsetOf(i) =>
              Replay \/ Previous \/ Restart \/ (EndAttempt /\ loop # "off")]_vars

\* A head that can be played is played, without the help of the watchdog.
HeadIsPlayed == (~Playing /\ Reason(FALSE) = "ready") ~> (Playing \/ Reason(FALSE) # "ready")

\* No notification is missed: run() sleeps in schedulerWait with a playable head, or in
\* the wait for a media retry that is no longer pending, only if p.wake is filled, so
\* that the 30 s watchdog is never needed.
NoLostWakeup ==
    /\ pc = "asleep" /\ Reason(FALSE) = "ready" => wake
    /\ pc = "backoff" /\ ~backoff => wake

\* Close ends: the stream is torn down, the transport closed and run() has returned.
CloseEnds == closed ~> closer = "done"

\* A member repeats /resume as long as it can change anything.
ResumesForever == WF_vars(closer = "none" /\ SetPaused(FALSE))

\* "Esgotamento preserva a fila; /resume ... permite nova tentativa": after the last
\* attempt of a voice recovery failed, /resume makes the player dial again.
VoiceExhausted ==
    voiceBlocked /\ voiceAttempts >= VoiceTries /\ queue # <<>> /\ voice # 0 /\ ~closed /\ ~Playing
VoiceRetried == ResumesForever => (VoiceExhausted ~> (pc = "dialing" \/ queue = <<>> \/ voice = 0 \/ closed))

\* What a crash at any moment leaves: an exact snapshot, unless an error is shown, from
\* which less than a checkpoint interval is repeated.
SnapshotFaithful == TypeOK /\ DurableExact /\ BoundedReplay
=============================================================================
