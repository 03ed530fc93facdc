--------------------------- MODULE Announcements ---------------------------
(***************************************************************************)
(* "Now playing" messages and skip notices of one guild                    *)
(* (internal/discord/announcements.go, the play handler of commands.go,    *)
(* guild.leave in idle.go, settings.go).                                   *)
(* The latest accepted /play chooses the channel.  announcementMu covers   *)
(* the choice together with the enqueue that may reject it; the player's   *)
(* callback takes its snapshot under the same mutex and puts it into a     *)
(* bounded queue without it; one worker sends.  The callbacks of a guild   *)
(* are taken one at a time: they share nothing but the queue.              *)
(***************************************************************************)
EXTENDS Naturals, SequencesExt

CONSTANTS
  Channels,      \* text channels
  QueueLimit,    \* capacity of g.announcements (32)
  MaxSequence,   \* bound: playbacks started in a behaviour
  MaxEpoch       \* bound: leaves and restarts in a behaviour

ASSUME AnnouncementAssumption == QueueLimit \in Nat \ {0} /\ 0 \notin Channels

VARIABLES
  chosen,    \* announcementChannel, 0 if none
  epoch,     \* announcementEpoch
  playing,   \* the /play between choosing and enqueueing: channel and previous one
  sequence,  \* the playback the player is at
  event,     \* the callback of a playback or a skip: the item it prepares, NoItem if none
  posts,     \* g.announcements
  sending,      \* the item the worker is sending, NoItem if none
  stored,    \* the announcement_channel setting on disk
  agreed,    \* channels of this session's accepted /play, and the one it began with
  working    \* the worker runs

announceVars == <<chosen, epoch, playing, sequence, event, posts, sending, stored, agreed, working>>

NoPlay == [channel |-> 0, previous |-> 0]
NoItem == [channel |-> 0, epoch |-> 0, sequence |-> 0, skip |-> FALSE]
Unlocked == playing = NoPlay

-----------------------------------------------------------------------------
\* /play has resolved: under g.mu and announcementMu it stores its channel...
PlayChooses(c) ==
  /\ Unlocked
  /\ playing' = [channel |-> c, previous |-> chosen] /\ chosen' = c
  /\ UNCHANGED <<epoch, sequence, event, posts, sending, stored, agreed, working>>

\* ... and the player takes the tracks: the setting is saved (a failed write is
\* only logged)...
PlayAccepted ==
  /\ ~Unlocked
  /\ playing' = NoPlay /\ agreed' = agreed \cup {playing.channel}
  /\ stored' \in {stored, chosen}
  /\ UNCHANGED <<chosen, epoch, sequence, event, posts, sending, working>>

\* ... or refuses them.
PlayRejected ==
  /\ ~Unlocked
  /\ playing' = NoPlay /\ chosen' = playing.previous
  /\ UNCHANGED <<epoch, sequence, event, posts, sending, stored, agreed, working>>

\* A /play whose preparation failed because the provider is unavailable lends
\* its channel to the notice when there is none.
ProviderNotice(c) ==
  /\ Unlocked /\ chosen = 0
  /\ chosen' = c /\ agreed' = agreed \cup {c}
  /\ UNCHANGED <<epoch, playing, sequence, event, posts, sending, stored, working>>

\* guild.leave.
LeaveResets ==
  /\ Unlocked /\ epoch < MaxEpoch
  /\ chosen' = 0 /\ epoch' = epoch + 1 /\ agreed' = {}
  /\ UNCHANGED <<playing, sequence, event, posts, sending, stored, working>>

\* The process ends at any point; the next one restores the setting.  (Its epoch
\* starts at 0 with an empty queue; a new number is the same thing.)
RestartRestores ==
  /\ epoch < MaxEpoch
  /\ chosen' = stored /\ agreed' = {stored} \ {0} /\ epoch' = epoch + 1
  /\ playing' = NoPlay /\ event' = NoItem /\ posts' = <<>> /\ sending' = NoItem /\ working' = TRUE
  /\ UNCHANGED <<sequence, stored>>

-----------------------------------------------------------------------------
\* A playback starts and calls onStart (a resumed one returns at once).
Starts ==
  /\ event = NoItem /\ sequence < MaxSequence
  /\ sequence' = sequence + 1
  /\ event' = [NoItem EXCEPT !.sequence = sequence + 1]
  /\ UNCHANGED <<chosen, epoch, playing, posts, sending, stored, agreed, working>>

\* Bound: one notice at a time is on its way.
NoticeBound == \A item \in {sending} \cup ToSet(posts) : ~item.skip

\* A track is given up or a recovery begins, and onSkip is called.
Skips ==
  /\ event = NoItem /\ NoticeBound
  /\ event' = [NoItem EXCEPT !.skip = TRUE]
  /\ UNCHANGED <<chosen, epoch, playing, sequence, posts, sending, stored, agreed, working>>

\* Mutant of SnapshotAllowed: the callback does not take announcementMu.
SnapshotUnlocked == TRUE

\* The callback takes its snapshot under announcementMu.
SnapshotAllowed == Unlocked
Snapshot ==
  /\ event # NoItem /\ event.channel = 0 /\ SnapshotAllowed
  /\ event' = IF chosen = 0 THEN NoItem ELSE [event EXCEPT !.channel = chosen, !.epoch = epoch]
  /\ UNCHANGED <<chosen, epoch, playing, sequence, posts, sending, stored, agreed, working>>

\* The item is queued; a full queue drops it.
Post ==
  /\ event.channel # 0
  /\ posts' = IF Len(posts) < QueueLimit THEN Append(posts, event) ELSE posts
  /\ event' = NoItem
  /\ UNCHANGED <<chosen, epoch, playing, sequence, sending, stored, agreed, working>>

\* A notice of this session is sent whatever plays by now, a now-playing message
\* only for the present playback.
Wanted(item) == item.epoch = epoch /\ (item.skip \/ item.sequence = sequence)

\* Mutant of WorkerTakes: an item that is no longer wanted ends the worker.
WorkerTakesReturns ==
  /\ working /\ sending = NoItem /\ posts # <<>>
  /\ posts' = Tail(posts)
  /\ IF Wanted(Head(posts)) THEN sending' = Head(posts) /\ UNCHANGED working
                            ELSE working' = FALSE /\ UNCHANGED sending
  /\ UNCHANGED <<chosen, epoch, playing, sequence, event, stored, agreed>>

\* The worker sends an item that is wanted and drops every other one.
WorkerTakes ==
  /\ working /\ sending = NoItem /\ posts # <<>>
  /\ posts' = Tail(posts)
  /\ sending' = IF Wanted(Head(posts)) THEN Head(posts) ELSE NoItem
  /\ UNCHANGED <<chosen, epoch, playing, sequence, event, stored, agreed, working>>

\* CreateMessage returns within its five seconds, with an error or without.
Delivered ==
  /\ sending # NoItem /\ sending' = NoItem
  /\ UNCHANGED <<chosen, epoch, playing, sequence, event, posts, stored, agreed, working>>

-----------------------------------------------------------------------------
AnnounceInit ==
  /\ chosen = 0 /\ epoch = 0 /\ playing = NoPlay /\ sequence = 0 /\ event = NoItem
  /\ posts = <<>> /\ sending = NoItem /\ stored = 0 /\ agreed = {} /\ working = TRUE

AnnounceNext ==
  \/ \E c \in Channels : PlayChooses(c) \/ ProviderNotice(c)
  \/ PlayAccepted \/ PlayRejected \/ LeaveResets \/ RestartRestores
  \/ Starts \/ Skips \/ Snapshot \/ Post \/ WorkerTakes \/ Delivered

\* The worker is a goroutine of its own and its REST call has a deadline.
AnnounceProgress == WorkerTakes \/ Delivered
AnnounceFairness == WF_announceVars(AnnounceProgress)

AnnounceSpec == AnnounceInit /\ [][AnnounceNext]_announceVars /\ AnnounceFairness

-----------------------------------------------------------------------------
\* A message of the present session goes to a channel in which a /play of this
\* session was accepted (or the restored or borrowed one), never to the channel
\* of a /play that the player refused.
ChannelAccepted ==
  \A item \in {event, sending} \cup ToSet(posts) :
    item.channel # 0 /\ item.epoch = epoch => item.channel \in agreed

\* A now-playing message of the present playback is in the queue, behind any
\* number of stale ones and notices.
AnnounceWaits == \E i \in DOMAIN posts : Wanted(posts[i]) /\ ~posts[i].skip
=============================================================================
