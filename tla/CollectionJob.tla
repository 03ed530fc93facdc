--------------------------- MODULE CollectionJob ---------------------------
(***************************************************************************)
(* A progressive collection (internal/player/collection.go, horizon.go):   *)
(* BeginCollection reserves a Pending queue position per track, the job's  *)
(* coordinator resolves the first one and then batches of the positions    *)
(* inside the prefetch horizon with a few workers, and commits what they   *)
(* find, while commands edit the queue, playback consumes it and provider  *)
(* incidents cancel searches.  The trial of an incident is a token; its    *)
(* retry budget and the shared gate are ProviderRecovery's.  p.mu makes    *)
(* each action one critical section.                                       *)
(***************************************************************************)
EXTENDS Naturals, SequencesExt

CONSTANTS
  Tracks,            \* length of the collection
  CollectionWorkers, \* searches of one batch that run at once
  CollectionPrefetch,\* positions of the job a batch looks at
  Horizon,           \* prefetch horizon, in track lengths
  Unknown,           \* positions whose metadata has no duration
  Live,              \* positions that resolve to a live stream
  MaxIncidents,      \* bound: provider incidents in a behaviour
  MaxEdits           \* bound: commands in a behaviour

ASSUME CollectionAssumption ==
  /\ Tracks \in Nat \ {0} /\ CollectionWorkers \in Nat \ {0} /\ CollectionPrefetch \in Nat \ {0}
  /\ Horizon \in Nat \ {0} /\ MaxIncidents \in Nat /\ MaxEdits \in Nat
  /\ Unknown \subseteq 1..Tracks /\ Live \subseteq 1..Tracks

Positions == 1..Tracks

VARIABLES
  queue,     \* upcoming entries of the job: position, Pending
  current,   \* the playing track: "none", "fresh", "late", "live"
  paused,    \* its gate
  jobPC,     \* where the coordinator is
  canceled,  \* the job's context
  wake,      \* a token in j.wake
  wanted,    \* j.wanted
  index,     \* the position of the first phase, the frontier of a batch
  batch,     \* indexes of the batch
  tasks,     \* the channel of tasks
  at,        \* where the resolution of a position is
  outcome,   \* what it returned
  permit,    \* the incident whose trial it holds, 0 without one
  started,   \* providerGeneration when its search started
  searchDone,\* the context of its search is cancelled
  first,     \* what First was told
  blocked, probing, generation, \* the player's provider latch
  edits,     \* commands so far
  struck     \* history: an incident cancelled the running search

collectionVars == <<queue, current, paused, jobPC, canceled, wake, wanted, index, batch, tasks, at,
                    outcome, permit, started, searchDone, first, blocked, probing,
                    generation, edits, struck>>
playback == <<current, paused>>
coordinator == <<jobPC, index, batch, first>>
searches == <<at, outcome, permit, started, searchDone, struck>>
latch == <<blocked, probing, generation>>

Entry(i) == [position |-> i, pending |-> TRUE]
Place(i) == CHOOSE k \in 1..Len(queue) : queue[k].position = i
Queued(i) == \E k \in 1..Len(queue) : queue[k].position = i
Publish(what) == first' = IF first = "none" THEN what ELSE first
Running == jobPC \notin {"none", "gone"}
Active == {i \in Positions : at[i] \in {"admit", "admitted", "match"}}

\* Live and unknown durations are a barrier for everything behind them.
Barrier(e) == e.position \in Live \/ (e.pending /\ e.position \in Unknown)

\* resolutionHorizonLocked.
Within(i) ==
  /\ ~paused /\ current # "live" /\ Queued(i)
  /\ LET k == Place(i)
     IN  /\ \A h \in 1..(k - 1) : ~Barrier(queue[h])
         /\ (IF current = "fresh" THEN 1 ELSE 0) + (k - 1) < Horizon

-----------------------------------------------------------------------------
\* The provider latch, as resolve and commit see it.

Incident == IF blocked THEN generation ELSE 0

\* blockProviderLocked: a new incident cancels every running search.
Block ==
  /\ blocked' = TRUE
  /\ IF blocked THEN UNCHANGED <<generation, searchDone, struck>>
     ELSE /\ generation' = generation + 1
          /\ searchDone' = [i \in Positions |-> searchDone[i] \/ at[i] = "match"]
          /\ struck' = [i \in Positions |-> struck[i] \/ at[i] = "match"]

\* finishProviderLocked: the answer of a trial.  Anything but a provider
\* failure or a cancellation ends the incident.
Finish(i, failed) ==
  IF ~probing \/ permit[i] # Incident THEN UNCHANGED <<blocked, probing>>
  ELSE probing' = FALSE /\ blocked' = failed

-----------------------------------------------------------------------------
\* BeginCollection and the player's commands.

BeginCollection ==
  /\ jobPC = "none"
  /\ queue' = [i \in Positions |-> Entry(i)]
  /\ jobPC' = "first" /\ index' = 1 /\ wake' = TRUE
  /\ wanted' = [i \in Positions |-> TRUE]
  /\ UNCHANGED <<playback, canceled, batch, tasks, searches, first, latch>>

\* discardEntryLocked for a set of positions.
Discard(gone) ==
  /\ wanted' = [i \in Positions |-> wanted[i] /\ i \notin gone]
  /\ searchDone' = [i \in Positions |-> searchDone[i] \/ (i \in gone /\ at[i] = "match")]
  /\ canceled' = (canceled \/ (Running /\ gone # {} /\ \A i \in Positions : ~wanted'[i]))
  /\ wake' = Running

RemoveEntry ==
  /\ \E k \in 1..Len(queue) :
       /\ queue' = RemoveAt(queue, k)
       /\ Discard({queue[k].position})
  /\ UNCHANGED <<playback, coordinator, tasks, at, outcome, permit, started, struck, latch>>

\* Move and Shuffle keep whole entries.
Move ==
  /\ \E from, to \in 1..Len(queue) :
       from # to /\ queue' = InsertAt(RemoveAt(queue, from), to, queue[from])
  /\ wake' = Running
  /\ UNCHANGED <<playback, coordinator, canceled, tasks, wanted, searches, latch>>

\* Jump and SkipN drop a prefix and cancel the current track.
Jump ==
  /\ \E k \in 1..Len(queue) :
       /\ queue' = SubSeq(queue, k, Len(queue))
       /\ Discard({queue[h].position : h \in 1..(k - 1)})
  /\ current' = "none" /\ paused' = FALSE
  /\ UNCHANGED <<coordinator, tasks, at, outcome, permit, started, struck, latch>>

\* Stop, Clear and Leave cancel the jobs and empty the queue; Stop and Leave
\* also forget the incident.  Close cancels them through the player's context.
Stop ==
  /\ Running /\ ~canceled /\ canceled' = TRUE
  /\ \/ queue' = <<>> /\ wake' = TRUE
        /\ \/ current' = "none" /\ paused' = FALSE /\ blocked' = FALSE /\ probing' = FALSE
           \/ UNCHANGED <<playback, blocked, probing>>
     \/ UNCHANGED <<queue, wake, playback, blocked, probing>>
  /\ searchDone' = [i \in Positions |-> searchDone[i] \/ at[i] = "match"]
  /\ UNCHANGED <<coordinator, tasks, wanted, at, outcome, permit, started, struck, generation>>

SetPaused ==
  /\ current # "none"
  /\ paused' = ~paused /\ wake' = Running
  /\ UNCHANGED <<queue, current, coordinator, canceled, tasks, wanted, searches, latch>>

\* The scheduler takes a ready head (releaseEntryLocked).
Advance ==
  /\ current = "none" /\ ~blocked /\ queue # <<>> /\ ~Head(queue).pending
  /\ current' = IF Head(queue).position \in Live THEN "live" ELSE "fresh"
  /\ queue' = Tail(queue)
  /\ wanted' = [wanted EXCEPT ![Head(queue).position] = FALSE]
  /\ wake' = Running
  /\ UNCHANGED <<paused, coordinator, canceled, tasks, searches, latch>>

\* Confirmed audio moves the horizon every five seconds; a track ends.
PlaybackMoves ==
  /\ \/ current = "fresh" /\ ~paused /\ current' = "late" /\ UNCHANGED paused
     \/ current # "none" /\ current' = "none" /\ paused' = FALSE
  /\ wake' = Running
  /\ UNCHANGED <<queue, coordinator, canceled, tasks, wanted, searches, latch>>

\* schedulerWait's timer repeats the notification for a Pending head.
Watchdog ==
  /\ current = "none" /\ ~blocked /\ queue # <<>> /\ Head(queue).pending
  /\ wake' = Running
  /\ UNCHANGED <<queue, playback, coordinator, canceled, tasks, wanted, searches, latch>>

\* An incident starts outside the job, or ends outside it.
ProviderFails ==
  /\ ~blocked /\ generation < MaxIncidents
  /\ Block /\ wake' = Running
  /\ UNCHANGED <<queue, playback, coordinator, canceled, tasks, wanted, at, outcome, permit, started, probing>>
ProviderRecovers ==
  /\ blocked
  /\ blocked' = FALSE /\ probing' = FALSE /\ wake' = Running
  /\ UNCHANGED <<queue, playback, coordinator, canceled, tasks, wanted, searches, generation>>

-----------------------------------------------------------------------------
\* resolve: what a worker, or the coordinator for the first track, does.

\* resolve returns: its context and its permit are gone.
Resolved(i, o) ==
  /\ at' = [at EXCEPT ![i] = "result"] /\ outcome' = [outcome EXCEPT ![i] = o]
  /\ permit' = [permit EXCEPT ![i] = 0] /\ started' = [started EXCEPT ![i] = 0]
Moves(i, pc) == at' = [at EXCEPT ![i] = pc] /\ UNCHANGED <<outcome, permit, started>>

\* A worker takes a task and looks at the horizon; one that finds the job
\* cancelled leaves the tasks alone.
TakeTask ==
  /\ jobPC \in {"collect", "prefix", "commit"} /\ tasks # <<>> /\ ~canceled
  /\ Cardinality(Active) < CollectionWorkers
  /\ tasks' = Tail(tasks)
  /\ IF Within(Head(tasks)) THEN Moves(Head(tasks), "admit") ELSE Resolved(Head(tasks), "blocked")
  /\ UNCHANGED <<queue, playback, coordinator, canceled, wake, wanted, searchDone, struck, latch>>

\* Mutant of Admit: only a caller that waits for another trial says so.
AdmitSilently(i) ==
  /\ at[i] = "admit"
  /\ \/ canceled /\ Resolved(i, "skipped") /\ UNCHANGED first
     \/ ~canceled /\ ~blocked /\ Moves(i, "admitted") /\ UNCHANGED first
     \/ ~canceled /\ blocked /\ probing /\ first = "none" /\ Publish("suspended") /\ Moves(i, "admit")
  /\ UNCHANGED <<queue, playback, jobPC, index, batch, canceled, wake, tasks, wanted, searchDone, struck, latch>>

\* waitProvider: admitted at once, or a wait that the job's context ends.
Admit(i) ==
  /\ at[i] = "admit"
  /\ \/ canceled /\ Resolved(i, "skipped") /\ UNCHANGED first
     \/ ~canceled /\ ~blocked /\ Moves(i, "admitted") /\ UNCHANGED first
     \/ ~canceled /\ blocked /\ first = "none" /\ Publish("suspended") /\ Moves(i, "admit")
  /\ UNCHANGED <<queue, playback, jobPC, index, batch, canceled, wake, tasks, wanted, searchDone, struck, latch>>

\* waitProvider gives one caller the trial, when the backoff is over and the
\* budget lasts.
TakeTrial(i) ==
  /\ at[i] = "admit" /\ ~canceled /\ blocked /\ ~probing
  /\ probing' = TRUE /\ permit' = [permit EXCEPT ![i] = Incident]
  /\ at' = [at EXCEPT ![i] = "admitted"] /\ Publish("suspended")
  /\ UNCHANGED <<queue, playback, jobPC, index, batch, canceled, wake, tasks, wanted, outcome,
                 started, searchDone, struck, blocked, generation>>

\* Mutant of GiveUp: a position that was removed keeps its trial.
GiveUpKeepsTrial(i) ==
  IF permit[i] # 0 /\ wanted[i] THEN Finish(i, TRUE) /\ wake' = Running ELSE UNCHANGED <<blocked, probing, wake>>

\* An unused trial is handed back as cancelled.
GiveUp(i) ==
  IF permit[i] # 0 THEN Finish(i, TRUE) /\ wake' = Running ELSE UNCHANGED <<blocked, probing, wake>>

\* Under the lock again: the incident, the position, the context and the
\* horizon may have changed during the wait.
StartSearch(i) ==
  /\ at[i] = "admitted"
  /\ \/ /\ blocked /\ permit[i] = 0 /\ Resolved(i, "blocked")
        /\ UNCHANGED <<searchDone, struck, blocked, probing, wake>>
     \/ /\ ~(blocked /\ permit[i] = 0) /\ ~(wanted[i] /\ ~canceled /\ Within(i))
        /\ Resolved(i, IF wanted[i] /\ ~canceled THEN "blocked" ELSE "skipped")
        /\ GiveUp(i) /\ UNCHANGED <<searchDone, struck>>
     \/ /\ ~(blocked /\ permit[i] = 0) /\ wanted[i] /\ ~canceled /\ Within(i)
        /\ at' = [at EXCEPT ![i] = "match"] /\ started' = [started EXCEPT ![i] = generation]
        /\ searchDone' = [searchDone EXCEPT ![i] = FALSE] /\ struck' = [struck EXCEPT ![i] = FALSE]
        /\ UNCHANGED <<outcome, permit, blocked, probing, wake>>
  /\ UNCHANGED <<queue, playback, coordinator, canceled, tasks, wanted, generation>>

\* Mutant of Superseded: only an incident that is still open discards results.
SupersededNow(i, o) == o = "provider" \/ (blocked' /\ permit[i] = 0)

\* A result of another incident's time says nothing about the track.
Superseded(i, o) == o = "provider" \/ (blocked' /\ permit[i] = 0) \/ generation' # started[i]

\* The matcher returns: a track, no reliable match (or the search's timeout),
\* a provider failure; a cancelled search reports its cancellation.
MatchReturns(i) ==
  /\ at[i] = "match"
  /\ \E found \in IF searchDone[i] THEN {"canceled"} ELSE {"ok", "err", "provider"} :
       LET o == IF found = "provider" /\ (canceled \/ ~wanted[i]) THEN "err" ELSE found IN
       /\ o = "provider" => blocked \/ generation < MaxIncidents
       /\ \/ o = "provider" /\ Block /\ wake' = Running
             /\ probing' = (probing /\ ~(permit[i] # 0 /\ permit[i] = Incident))
          \/ o # "provider" /\ UNCHANGED <<generation, searchDone, struck>>
             /\ IF permit[i] = 0 THEN UNCHANGED <<blocked, probing, wake>>
                ELSE Finish(i, found \in {"provider", "canceled"}) /\ wake' = Running
       /\ Resolved(i, IF Superseded(i, o) THEN "blocked"
                      ELSE IF ~wanted[i] THEN "skipped" ELSE IF o = "ok" THEN "ok" ELSE "err")
  /\ UNCHANGED <<queue, playback, coordinator, canceled, tasks, wanted>>

-----------------------------------------------------------------------------
\* run: the first track.

Goes(pc) == jobPC' = pc
Clears(i) ==
  /\ at' = [at EXCEPT ![i] = "idle"] /\ outcome' = [outcome EXCEPT ![i] = "none"]
  /\ searchDone' = [searchDone EXCEPT ![i] = FALSE] /\ struck' = [struck EXCEPT ![i] = FALSE]

\* Mutant of FirstHorizon: it waits for a position that was removed.
FirstHorizonOfAny ==
  /\ jobPC = "first"
  /\ \/ canceled /\ Goes("exit") /\ UNCHANGED <<at, outcome, permit, started, first>>
     \/ ~canceled /\ Within(index) /\ Goes("firstResult") /\ Moves(index, "admit") /\ UNCHANGED first
     \/ /\ ~canceled /\ ~Within(index) /\ Goes("firstWait") /\ Publish("deferred")
        /\ UNCHANGED <<at, outcome, permit, started>>
  /\ UNCHANGED <<queue, playback, canceled, wake, wanted, index, batch, tasks, searchDone, struck, latch>>

FirstHorizon ==
  /\ jobPC = "first"
  /\ \/ canceled /\ Goes("exit") /\ UNCHANGED <<at, outcome, permit, started, first>>
     \/ ~canceled /\ ~wanted[index] /\ Goes("firstResult") /\ Resolved(index, "skipped") /\ UNCHANGED first
     \/ /\ ~canceled /\ wanted[index] /\ Within(index) /\ Goes("firstResult")
        /\ Moves(index, "admit") /\ UNCHANGED first
     \/ /\ ~canceled /\ wanted[index] /\ ~Within(index) /\ Goes("firstWait") /\ Publish("deferred")
        /\ UNCHANGED <<at, outcome, permit, started>>
  /\ UNCHANGED <<queue, playback, canceled, wake, wanted, index, batch, tasks, searchDone, struck, latch>>

\* <-j.wake or the context, in waitHorizon and between batches.
Wakes ==
  /\ jobPC \in {"firstWait", "wait"} /\ (wake \/ canceled)
  /\ Goes(IF jobPC = "wait" THEN IF canceled THEN "exit" ELSE "select" ELSE "first")
  /\ wake' = FALSE
  /\ UNCHANGED <<queue, playback, canceled, wanted, index, batch, tasks, searches, first, latch>>

FirstResult ==
  /\ jobPC = "firstResult" /\ at[index] = "result"
  /\ \/ canceled /\ Goes("exit") /\ Clears(index) /\ UNCHANGED <<first>>
     \/ /\ ~canceled /\ outcome[index] = "blocked"
        /\ Publish("suspended") /\ Goes("first") /\ Clears(index)
     \/ /\ ~canceled /\ outcome[index] # "blocked"
        /\ Goes("firstCommit") /\ UNCHANGED <<at, outcome, searchDone, struck, first>>
  /\ UNCHANGED <<queue, playback, canceled, wake, wanted, index, batch, tasks, permit, started, latch>>

\* commit writes one resolution into its position, if it still has one; during
\* an incident it writes nothing.
Commit(i) ==
  IF blocked THEN UNCHANGED <<queue, wanted, wake>>
  ELSE /\ queue' = IF ~Queued(i) THEN queue
                   ELSE IF outcome[i] = "ok" THEN [queue EXCEPT ![Place(i)].pending = FALSE]
                   ELSE RemoveAt(queue, Place(i))
       /\ wanted' = IF Queued(i) /\ outcome[i] # "ok" THEN [wanted EXCEPT ![i] = FALSE] ELSE wanted
       /\ wake' = TRUE

FirstCommit ==
  /\ jobPC = "firstCommit"
  /\ Clears(index)
  /\ \/ /\ canceled /\ ~blocked /\ Goes("exit") /\ UNCHANGED <<queue, wanted, wake, index, first>>
     \/ /\ ~canceled \/ blocked
        /\ Commit(index)
        /\ IF outcome[index] = "ok"
           THEN /\ Publish("track") /\ UNCHANGED index
                /\ Goes(IF index = Tracks THEN "exit" ELSE "select")
           ELSE /\ index' = index + 1 /\ UNCHANGED first
                /\ Goes(IF index = Tracks THEN "exit" ELSE "first")
  /\ UNCHANGED <<playback, canceled, batch, tasks, permit, started, latch>>

-----------------------------------------------------------------------------
\* run: the batches.

\* A set of places, gone through from the front (there is one such order).
Ascending(places) ==
  {f \in [1..Cardinality(places) -> places] : \A a, b \in DOMAIN f : a < b => f[a] < f[b]}

\* Mutant of Ready: a position counts as unresolved for as long as it is wanted.
ReadyWanted == {k \in 1..Len(queue) : /\ k <= CollectionPrefetch
                                     /\ wanted[queue[k].position] /\ Within(queue[k].position)}

\* Pending, wanted and within the horizon, among the job's first positions.
Ready == {k \in 1..Len(queue) : /\ k <= CollectionPrefetch /\ queue[k].pending
                               /\ wanted[queue[k].position] /\ Within(queue[k].position)}

SelectBatch ==
  /\ jobPC = "select"
  /\ \/ (\A k \in 1..Len(queue) : ~queue[k].pending) /\ Goes("exit") /\ UNCHANGED <<batch, tasks, index>>
     \/ /\ \E k \in 1..Len(queue) : queue[k].pending
        /\ \E f \in Ascending(Ready) : batch' = [n \in DOMAIN f |-> queue[f[n]].position]
        /\ tasks' = batch' /\ index' = 1
        /\ Goes(IF Ready = {} THEN "wait" ELSE "collect")
  /\ UNCHANGED <<queue, playback, canceled, wake, wanted, searches, first, latch>>

\* The coordinator receives one result of the batch.
Collect ==
  /\ jobPC = "collect" /\ ~canceled
  /\ \E i \in Range(batch) :
       /\ at[i] = "result"
       /\ \/ outcome[i] = "blocked" /\ Clears(i) /\ UNCHANGED jobPC
          \/ /\ outcome[i] # "blocked" /\ Goes("prefix")
             /\ at' = [at EXCEPT ![i] = "ready"] /\ UNCHANGED <<outcome, searchDone, struck>>
  /\ UNCHANGED <<queue, playback, canceled, wake, wanted, index, batch, tasks, permit, started, first, latch>>

\* The frontier: committed in the batch's order, and not during an incident.
Prefix ==
  /\ jobPC = "prefix"
  /\ Goes(IF index <= Len(batch) /\ at[batch[index]] = "ready" /\ ~blocked THEN "commit" ELSE "collect")
  /\ UNCHANGED <<queue, playback, canceled, wake, wanted, index, batch, tasks, searches, first, latch>>

CommitPrefix ==
  /\ jobPC = "commit"
  /\ \/ canceled /\ ~blocked /\ Goes("drain") /\ UNCHANGED <<queue, wanted, wake, index>>
     \/ (~canceled \/ blocked) /\ Commit(batch[index]) /\ index' = index + 1 /\ Goes("prefix")
  /\ UNCHANGED <<playback, canceled, batch, tasks, searches, first, latch>>

\* The locals of a batch, and of the job, are gone.
Forget ==
  /\ at' = [i \in Positions |-> "idle"] /\ outcome' = [i \in Positions |-> "none"]
  /\ permit' = [i \in Positions |-> 0] /\ started' = [i \in Positions |-> 0]
  /\ searchDone' = [i \in Positions |-> FALSE] /\ struck' = [i \in Positions |-> FALSE]
  /\ batch' = <<>> /\ tasks' = <<>> /\ index' = 1

\* All results received: the workers have returned, the next batch is chosen.
BatchEnds ==
  /\ jobPC = "collect" /\ ~canceled /\ tasks = <<>>
  /\ \A i \in Positions : at[i] \in {"idle", "ready"}
  /\ Goes("select") /\ Forget
  /\ UNCHANGED <<queue, playback, canceled, wake, wanted, first, latch>>

BatchCanceled ==
  /\ jobPC = "collect" /\ canceled /\ Goes("drain")
  /\ UNCHANGED <<queue, playback, canceled, wake, wanted, index, batch, tasks, searches, first, latch>>

\* workers.Wait of a cancelled batch.
Drain ==
  /\ jobPC = "drain" /\ Active = {} /\ Goes("exit")
  /\ UNCHANGED <<queue, playback, canceled, wake, wanted, index, batch, tasks, searches, first, latch>>

\* Mutant of Unresolved: only cancellation discards the unresolved positions.
UnresolvedCanceled == IF canceled THEN {e \in Range(queue) : e.pending} ELSE {}

\* What the job leaves behind.
Unresolved == {e \in Range(queue) : e.pending}

\* The deferred end of run: unresolved positions leave the queue.
Exit ==
  /\ jobPC = "exit" /\ Goes("gone")
  /\ \E f \in Ascending({k \in 1..Len(queue) : queue[k] \notin Unresolved}) :
       queue' = [n \in DOMAIN f |-> queue[f[n]]]
  /\ canceled' = TRUE /\ wake' = FALSE /\ wanted' = [i \in Positions |-> FALSE] /\ Publish("error") /\ Forget
  /\ UNCHANGED <<playback, latch>>

-----------------------------------------------------------------------------
CollectionInit ==
  /\ queue = <<>> /\ current \in {"none", "fresh"} /\ paused = FALSE
  /\ jobPC = "none" /\ canceled = FALSE /\ wake = FALSE
  /\ wanted = [i \in Positions |-> FALSE] /\ index = 1 /\ batch = <<>> /\ tasks = <<>>
  /\ at = [i \in Positions |-> "idle"] /\ outcome = [i \in Positions |-> "none"]
  /\ permit = [i \in Positions |-> 0] /\ started = [i \in Positions |-> 0]
  /\ searchDone = [i \in Positions |-> FALSE] /\ struck = [i \in Positions |-> FALSE]
  /\ first = "none"
  /\ blocked = FALSE /\ probing = FALSE /\ generation = 0 /\ edits = 0

Coordinate ==
  /\ \/ FirstHorizon \/ Wakes \/ FirstResult \/ FirstCommit \/ SelectBatch \/ Collect \/ Prefix
     \/ CommitPrefix \/ BatchEnds \/ BatchCanceled \/ Drain \/ Exit
  /\ UNCHANGED edits
Work(i) == (Admit(i) \/ StartSearch(i) \/ MatchReturns(i)) /\ UNCHANGED edits
Takes == TakeTask /\ UNCHANGED edits
Commands ==
  /\ edits < MaxEdits /\ edits' = edits + 1
  /\ RemoveEntry \/ Move \/ Jump \/ Stop \/ SetPaused
Surroundings ==
  /\ \/ BeginCollection \/ Advance \/ PlaybackMoves \/ Watchdog \/ ProviderFails \/ ProviderRecovers
     \/ \E i \in Positions : TakeTrial(i)
  /\ UNCHANGED edits

CollectionNext == Commands \/ Surroundings \/ Takes \/ (\E i \in Positions : Work(i)) \/ Coordinate

\* Goroutines run and every search ends (CollectionResolveTimeout); nobody has
\* to press a button, no trial has to be granted and no incident has to end.
CollectionFairness ==
  /\ WF_collectionVars(Coordinate) /\ WF_collectionVars(Takes)
  /\ \A i \in Positions : WF_collectionVars(Work(i))
CollectionSpec == CollectionInit /\ [][CollectionNext]_collectionVars /\ CollectionFairness

-----------------------------------------------------------------------------
CollectionTypeOK ==
  /\ queue \in Seq([position : Positions, pending : BOOLEAN]) /\ Len(queue) <= Tracks
  /\ \A k, l \in 1..Len(queue) : queue[k].position = queue[l].position => k = l
  /\ current \in {"none", "fresh", "late", "live"}
  /\ wanted \in [Positions -> BOOLEAN] /\ index \in 1..(Tracks + 1)
  /\ at \in [Positions -> {"idle", "admit", "admitted", "match", "result", "ready"}]
  /\ outcome \in [Positions -> {"none", "ok", "err", "skipped", "blocked"}]
  /\ permit \in [Positions -> 0..MaxIncidents] /\ started \in [Positions -> 0..MaxIncidents]
  /\ generation \in 0..MaxIncidents
  /\ first \in {"none", "deferred", "suspended", "track", "error"}

(* The one trial of an incident is never lost: while the latch says that a *)
(* trial runs, some resolution of the job holds the permit of this very    *)
(* incident and will answer it, although its position may have been        *)
(* removed, moved out of the horizon or cancelled during the wait.         *)
TrialReturned ==
  probing => \E i \in Active : permit[i] = generation /\ at[i] # "admit"

(* A Pending entry has a running job that will resolve or remove it: a     *)
(* Pending head without one would stop the guild's playback for good.      *)
PendingHasOwner == (\E k \in 1..Len(queue) : queue[k].pending) => Running

(* "Its cancellation is not a per-track failure": a search that an         *)
(* incident cancelled is never reported as a track that has no match, even *)
(* when it returns after the incident is over.                             *)
IncidentIsNotFailure == \A i \in Positions : at[i] = "result" /\ outcome[i] = "err" => ~struck[i]

(* An incident may suspend a job, but it ends without cancellation only    *)
(* when it has no unresolved position left: "The queue and confirmed       *)
(* progress are preserved".                                                *)
IncidentKeepsQueue ==
  [][jobPC = "exit" /\ jobPC' = "gone" /\ ~canceled
     => \A k \in 1..Len(queue) : ~queue[k].pending]_collectionVars

(* The command that waits on First is always answered: with the track, a   *)
(* failure, or the news that the collection is deferred or suspended,      *)
(* whatever the horizon and the provider do.                               *)
FirstAnswered == jobPC # "none" ~> first # "none"

\* The first phase waits for one position, which a command moved away.
FirstMovedAway ==
  jobPC \in {"first", "firstWait", "firstResult", "firstCommit"} /\ Queued(index) /\ ~Within(index)

(* A Pending head that playback waits for is resolved or removed, unless   *)
(* an incident suspends the job, or the first phase waits for a position   *)
(* that left the horizon.                                                  *)
HeadResolves ==
  (current = "none" /\ queue # <<>> /\ Head(queue).pending)
  ~> (blocked \/ current # "none" \/ queue = <<>> \/ ~Head(queue).pending \/ FirstMovedAway)

\* The position, if the queue still has it, is not resolved yet.
Open(i) == \A k \in 1..Len(queue) : queue[k].position = i => queue[k].pending

(* "valid committed tracks stay": a position is committed once.  Whatever  *)
(* the coordinator has still to commit is unresolved or has left the       *)
(* queue, so that no result, however late and after whatever commands and  *)
(* incidents, overwrites or removes a track that playback may take.        *)
CommittedStays ==
  /\ jobPC \in {"first", "firstWait", "firstResult", "firstCommit"} => \A i \in Positions : Open(i)
  /\ jobPC \in {"collect", "prefix", "commit"} => \A n \in index..Len(batch) : Open(batch[n])

(* Pending positions have a job, a job takes an incident for what it is,   *)
(* and it leaves what it committed alone.                                  *)
JobSound == CollectionTypeOK /\ PendingHasOwner /\ IncidentIsNotFailure /\ CommittedStays
=============================================================================
