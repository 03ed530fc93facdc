------------------------- MODULE GuildPlayerProofs -------------------------
(***************************************************************************)
(* Proofs about GuildPlayer, for every set of members, capacity, retry     *)
(* budget and choice of enabled commands and faults.                       *)
(***************************************************************************)
EXTENDS GuildPlayer, SequenceTheorems, FiniteSetTheorems, TLAPS

(***************************************************************************)
(* Transports.  VoiceOpen is not inductive: LeaveCloses keeps it because   *)
(* the player has let go of the transport before, and a recovery that was  *)
(* not fenced off keeps it because its session is still the player's.      *)
(***************************************************************************)
\* The types the argument rests on.
EpochsOK == leaving \in BOOLEAN /\ voiceEpoch \in Nat /\ rec.epoch \in Nat

\* Leave let go of the transport that it is going to close, and Close begins its own
\* Leave only after every other one.
LeaveDetached == (leaving => voice = 0) /\ (closer = "leave" => ~leaving)

\* A stream writes to the player's transport or to the one Leave closes after it.
StreamOwner ==
    Playing => /\ playVoice \in open
               /\ \/ voice # 0 /\ playVoice = voice
                  \/ leaving /\ playVoice = leaveVoice

\* A recovery that the epoch does not fence off works for the player's session.
RecoveryOwner ==
    pc \in {"attempt", "dialing"} =>
        /\ rec.epoch <= voiceEpoch
        /\ rec.epoch = voiceEpoch => voice # 0 /\ rec.session = voice

VoiceInv ==
    /\ EpochsOK
    /\ voice # 0 => voice \in open
    /\ LeaveDetached
    /\ StreamOwner
    /\ RecoveryOwner

\* What VoiceInv is about; most critical sections leave all of it alone.
heldVars == <<voice, open, leaving, leaveVoice, pc, playVoice, rec, voiceEpoch, closer>>

\* A section that leaves all of it alone keeps the invariant.
LEMMA HeldStutter == VoiceInv /\ UNCHANGED heldVars => VoiceInv'
  BY DEF VoiceInv, EpochsOK, LeaveDetached, StreamOwner, RecoveryOwner, heldVars, Playing

\* So does one that only moves run() out of or past an attempt or a recovery.
LEMMA HeldMove ==
    ASSUME VoiceInv, pc' \notin {"attempt", "dialing", "playing", "ended"},
           UNCHANGED <<voice, open, leaving, leaveVoice, playVoice, rec, voiceEpoch, closer>>
    PROVE  VoiceInv'
  BY DEF VoiceInv, EpochsOK, LeaveDetached, StreamOwner, RecoveryOwner, Playing

\* The queue commands never touch a transport.
LEMMA QueueCommandsQuiet ==
    ASSUME \/ \E u \in Users : EnqueueMany(u) \/ \E n \in 1..MaxBatch : Ask(u, n)
           \/ Clear
           \/ \E n \in 1..2 : SkipN(n)
           \/ \E k \in DOMAIN queue : Remove(k) \/ Jump(k) \/ \E j \in DOMAIN queue : Move(k, j)
           \/ Shuffle \/ Replay \/ Previous
           \/ \E m \in {"off", "track", "queue"} : SetLoop(m)
           \/ \E on \in BOOLEAN : SetPaused(on)
    PROVE  UNCHANGED heldVars
  <1> USE DEF heldVars, lifeVars, voiceVars, runVars
  <1>1. ASSUME NEW u \in Users, EnqueueMany(u) PROVE UNCHANGED heldVars
    BY <1>1 DEF EnqueueMany, trackVars, recoverVars
  <1>2. ASSUME NEW u \in Users, NEW n \in 1..MaxBatch, Ask(u, n) PROVE UNCHANGED heldVars
    BY <1>2 DEF Ask, trackVars, recoverVars
  <1>3. CASE Clear
    BY <1>3 DEF Clear, trackVars, recoverVars
  <1>4. ASSUME NEW n \in 1..2, SkipN(n) PROVE UNCHANGED heldVars
    BY <1>4 DEF SkipN, QueueCommandFrame, cancelTrack, trackVars, recoverVars
  <1>5. ASSUME NEW q, Reordered(q) PROVE UNCHANGED heldVars
    BY <1>5 DEF Reordered, QueueCommandFrame, trackVars, recoverVars
  <1>6. ASSUME NEW q, GoesOnWith(q) PROVE UNCHANGED heldVars
    BY <1>6 DEF GoesOnWith, QueueCommandFrame, cancelTrack, recoverVars
  <1>7. CASE Previous
    BY <1>7 DEF Previous, QueueCommandFrame, cancelTrack, recoverVars
  <1>8. ASSUME NEW m \in {"off", "track", "queue"}, SetLoop(m) PROVE UNCHANGED heldVars
    BY <1>8 DEF SetLoop, QueueCommandFrame, trackVars, recoverVars
  <1>9. ASSUME NEW on \in BOOLEAN, SetPaused(on) PROVE UNCHANGED heldVars
    BY <1>9 DEF SetPaused, PauseFrame, PauseVoiceSuspended, ResumeProvider, ResumeHalted, SetGate, recoverVars
  <1> QED
    BY <1>1, <1>2, <1>3, <1>4, <1>5, <1>6, <1>7, <1>8, <1>9 DEF Remove, Jump, Move, Shuffle, Replay

\* Nor do the events, the retry worker, the provider's clock and the frames of a stream.
LEMMA EventsQuiet ==
    ASSUME RetryPersistence \/ SuspendVoice \/ SuspendProvider \/ ProviderElapses
           \/ ConfirmFrame \/ SilenceFrame \/ announceStart \/ AtRest
    PROVE  UNCHANGED heldVars
  <1> USE DEF heldVars, lifeVars, voiceVars, runVars
  <1>1. CASE RetryPersistence BY <1>1 DEF RetryPersistence, trackVars, recoverVars
  <1>2. CASE SuspendVoice BY <1>2 DEF SuspendVoice, suspendVoice
  <1>3. CASE SuspendProvider BY <1>3 DEF SuspendProvider, trackVars, recoverVars
  <1>4. CASE ProviderElapses BY <1>4 DEF ProviderElapses, Goto, RunFrame, trackVars, recoverVars
  <1>5. CASE ConfirmFrame BY <1>5 DEF ConfirmFrame, AttemptFrame, completeRecovery, recoverVars
  <1>6. CASE SilenceFrame BY <1>6 DEF SilenceFrame, AttemptFrame, recoverVars
  <1>7. CASE announceStart BY <1>7 DEF announceStart, AttemptFrame, recoverVars
  <1>8. CASE AtRest BY <1>8 DEF AtRest, vars, trackVars, recoverVars
  <1> QED BY <1>1, <1>2, <1>3, <1>4, <1>5, <1>6, <1>7, <1>8

\* The steps that move run() without touching a transport.
LEMMA MovesKeepVoice ==
    ASSUME VoiceInv,
           RunTop \/ WaitProvider \/ Defer \/ SchedulerWait \/ Wakeup \/ WaitCanceled \/ Watchdog
           \/ BackoffElapses \/ EndAttempt
    PROVE  VoiceInv'
  <1> USE DEF lifeVars, trackVars
  <1> DEFINE Moved == /\ pc' \notin {"attempt", "dialing", "playing", "ended"}
                      /\ UNCHANGED <<voice, open, leaving, leaveVoice, playVoice, rec,
                                     voiceEpoch, closer>>
  <1>1. CASE RunTop \/ WaitProvider \/ Defer \/ SchedulerWait
    <2> Moved BY <1>1 DEF RunTop, WaitProvider, Defer, SchedulerWait, Goto, RunFrame, recoverVars
    <2> QED BY HeldMove
  <1>2. CASE Wakeup \/ WaitCanceled \/ Watchdog
    <2> Moved BY <1>2 DEF Wakeup, WaitCanceled, Watchdog, Goto, RunFrame, recoverVars
    <2> QED BY HeldMove
  <1>3. CASE BackoffElapses
    <2>1. CASE pc = "backoff"
      <3> Moved BY <1>3, <2>1 DEF BackoffElapses, RunFrame, recoverVars
      <3> QED BY HeldMove
    <2>2. CASE pc # "backoff"
      <3> UNCHANGED heldVars BY <1>3, <2>2 DEF BackoffElapses, RunFrame, recoverVars, heldVars
      <3> QED BY HeldStutter
    <2> QED BY <2>1, <2>2
  <1>4. CASE EndAttempt
    <2>1. voiceEpoch' = voiceEpoch
      BY <1>4 DEF EndAttempt, suspendVoice, completeRecovery, recoverVars
    <2> Moved BY <1>4, <2>1 DEF EndAttempt, RunFrame
    <2> QED BY HeldMove
  <1> QED BY <1>1, <1>2, <1>3, <1>4

\* The invariant holds initially.
LEMMA VoiceInit == Init => VoiceInv
  <1> SUFFICES ASSUME Init PROVE VoiceInv
    OBVIOUS
  <1>1. EpochsOK
    BY DEF Init, EpochsOK
  <1>2. voice = 0 /\ pc = "top" /\ ~leaving
    BY DEF Init
  <1> QED
    BY <1>1, <1>2 DEF VoiceInv, LeaveDetached, StreamOwner, RecoveryOwner, Playing

\* Every step keeps it; the actions below are those that move or close a transport.
LEMMA VoiceStep == VoiceInv /\ [Next]_vars => VoiceInv'
  <1> SUFFICES ASSUME VoiceInv, [Next]_vars PROVE VoiceInv'
    OBVIOUS
  <1> USE DEF VoiceInv, EpochsOK, LeaveDetached, StreamOwner, RecoveryOwner, Playing, lifeVars
  <1>1. CASE Stop
    BY <1>1 DEF Stop, EndSession, cancelTrack, voiceVars, runVars
  <1>2. ASSUME Detach, closer' # "leave", ~leaving PROVE VoiceInv'
    BY <1>2 DEF Detach, EndSession, cancelTrack, runVars
  <1>3. CASE closer \in {"none", "cancel"} /\ Leave
    BY <1>2, <1>3 DEF Leave
  <1>4. CASE CloseLeaves
    BY <1>2, <1>4 DEF CloseLeaves
  <1>5. CASE LeaveCloses
    BY <1>5 DEF LeaveCloses, trackDone, trackVars, runVars, recoverVars
  <1>6. CASE Attach
    BY <1>6 DEF Attach, trackVars, runVars
  <1>7. CASE Shutdown \/ CloseReturns
    BY <1>7 DEF Shutdown, CloseReturns, voiceVars, trackVars, runVars, recoverVars
  <1>8. CASE Close
    BY <1>8 DEF Close, voiceVars, trackVars, runVars, recoverVars
  <1>9. CASE Select
    BY <1>9 DEF Select, Reason, RunFrame, recoverVars
  <1>10. CASE RecoverBegins
    BY <1>10 DEF RecoverBegins, NeedsVoice, Goto, RunFrame, trackVars, recoverVars
  <1>11. CASE RecoverAttempt
    BY <1>11 DEF RecoverAttempt, Goto, RunFrame, trackVars
  <1>12. ASSUME NEW ok \in BOOLEAN, RecoverEnds(ok) PROVE VoiceInv'
    BY <1>12 DEF RecoverEnds, Fenced, RunFrame, trackVars
  <1>13. ASSUME NEW o \in Results, PlayReturns(o) PROVE VoiceInv'
    BY <1>13 DEF PlayReturns, voiceVars, recoverVars
  <1>14. CASE Restart
    BY <1>14 DEF Restart
  <1>15. CASE UNCHANGED vars
    BY <1>15, HeldStutter DEF vars, heldVars, voiceVars, trackVars, runVars, recoverVars
  <1> HIDE DEF VoiceInv
  <1>16. CASE closer \in {"none", "cancel"} /\ Commands
    BY <1>1, <1>3, <1>6, <1>7, <1>16, QueueCommandsQuiet, HeldStutter DEF Commands
  <1>17. CASE Background \/ Events \/ Clocks \/ Watchdog
    BY <1>4, <1>5, <1>7, <1>8, <1>17, EventsQuiet, MovesKeepVoice, HeldStutter DEF Background, Events, Clocks
  <1>18. CASE Scheduler
    BY <1>9, <1>10, <1>11, <1>12, <1>18, MovesKeepVoice DEF Scheduler
  <1>19. CASE Attempt
    BY <1>13, <1>19, EventsQuiet, HeldStutter DEF Attempt
  <1> QED
    BY <1>14, <1>15, <1>16, <1>17, <1>18, <1>19, EventsQuiet, HeldStutter DEF Next

\* The player's transport, and the one a stream writes to, is open in every state:
\* Leave waits for trackDone, recoverVoice compares the epoch before it stores a
\* transport, and joins are serialised with leaves.
THEOREM TransportsOpen == Spec => []VoiceOpen
  <1>1. VoiceInv => VoiceOpen
    BY DEF VoiceInv, StreamOwner, VoiceOpen
  <1> QED
    BY VoiceInit, VoiceStep, <1>1, PTL DEF Spec
-----------------------------------------------------------------------------
(***************************************************************************)
(* Capacity.  It is not inductive because a restart builds the queue from  *)
(* the snapshot: the snapshot has to respect it as well, and it does since *)
(* every write is of the player's state before or after the section.       *)
(***************************************************************************)
Request == [ticket : Nat, tracks : Seq(Tracks)]

\* What the player holds is a bounded list of tracks.
PlayerOK ==
    /\ queue \in Seq(Tracks) /\ current \in Seq(Tracks) /\ Len(current) <= 1
    /\ confirmed \in 0..Duration /\ generation \in Nat /\ nextId \in 0..MaxTracks /\ history \in Seq(1..MaxTracks)
    /\ request \in [Users -> Seq(Request)]
    /\ Len(queue) + Len(current) <= MaxQueueTracks + 1

\* So is a snapshot, as durable.go:57 demands of it.
SnapshotOK(s) ==
    /\ s.q \in Seq(Tracks) /\ s.cur \in Seq(Tracks) /\ Len(s.cur) <= 1 /\ s.hist \in Seq(1..MaxTracks)
    /\ Len(s.q) + Len(s.cur) <= MaxQueueTracks + 1

CapacityInv == PlayerOK /\ SnapshotOK(store)

\* What PlayerOK is about, and the ids that were removed.
keptVars == <<queue, current, confirmed, generation, nextId, history, request, removed>>

\* A section that leaves these alone keeps it.
LEMMA KeptStutter == PlayerOK /\ UNCHANGED keptVars => PlayerOK'
  BY DEF PlayerOK, keptVars

\* A one-element list; the empty list.
LEMMA ShortLists ==
    ASSUME NEW S
    PROVE  /\ <<>> \in Seq(S) /\ Len(<<>>) = 0
           /\ \A x \in S : <<x>> \in Seq(S) /\ Len(<<x>>) = 1
  OBVIOUS

\* A stretch of a list.
LEMMA Stretch ==
    ASSUME NEW S, NEW s \in Seq(S), NEW m \in 1..(Len(s) + 1), NEW n \in 0..Len(s)
    PROVE  /\ SubSeq(s, m, n) \in Seq(S)
           /\ Len(SubSeq(s, m, n)) = IF m <= n THEN n - m + 1 ELSE 0
  <1>1. \A i \in m..n : s[i] \in S
    BY LenProperties
  <1> QED
    BY <1>1, SubSeqProperties

\* A list of at most one element, when it is not empty.
LEMMA Single ==
    ASSUME NEW S, NEW s \in Seq(S), Len(s) <= 1, s # <<>>
    PROVE  Len(s) = 1 /\ s[1] \in S
  <1>1. Len(s) \in Nat \ {0}
    BY EmptySeq
  <1>2. \A n \in Nat \ {0} : n <= 1 => n = 1
    OBVIOUS
  <1>3. Len(s) = 1
    BY <1>1, <1>2
  <1> QED
    BY <1>3, ElementOfSeq

\* The current track at its confirmed position is a track.
LEMMA CurrentTrack ==
    ASSUME PlayerOK, current # <<>>
    PROVE  Len(current) = 1 /\ current[1] \in Tracks /\ Retained \in Tracks /\ Track(current[1].id, 0) \in Tracks
  <1>1. Len(current) = 1 /\ current[1] \in Tracks
    BY Single DEF PlayerOK
  <1>2. current[1].id \in 1..MaxTracks
    BY <1>1 DEF Tracks
  <1>3. 0 \in 0..Duration
    BY PlayerAssumption DEF PlayerAssumption
  <1> QED
    BY <1>1, <1>2, <1>3 DEF PlayerOK, Retained, Track, Tracks

\* durableLocked writes a snapshot that ConfigureStore accepts.
LEMMA DurableOK == PlayerOK => SnapshotOK(Durable)
  <1> SUFFICES ASSUME PlayerOK PROVE SnapshotOK(Durable)
    OBVIOUS
  <1>1. Durable.q = queue /\ Durable.hist = history
    BY DEF Durable
  <1>2. CASE current = <<>>
    <2>1. Durable.cur = <<>>
      BY <1>2 DEF Durable
    <2> QED
      BY <1>1, <1>2, <2>1, ShortLists DEF SnapshotOK, PlayerOK
  <1>3. CASE current # <<>>
    <2>1. Durable.cur = <<Retained>>
      BY <1>3 DEF Durable, Retained
    <2> QED
      BY <1>1, <1>3, <2>1, CurrentTrack, ShortLists DEF SnapshotOK, PlayerOK
  <1> QED BY <1>2, <1>3

\* How the player saves.
Saves == Persist \/ persistAudioCheckpoint \/ persistStart \/ RetryPersistence \/ Restart \/ UNCHANGED storeVars

\* Every step saves in one of these ways or does not touch the store.
LEMMA StepSaves ==
    ASSUME [Next]_vars
    PROVE  Saves
  <1> USE DEF storeVars, Saves
  <1>1. ASSUME Persist PROVE Saves
    BY <1>1
  <1>2. ASSUME persistAudioCheckpoint PROVE Saves
    BY <1>2
  <1>3. ASSUME persistStart PROVE Saves
    BY <1>3
  <1>4. ASSUME NEW p, Goto(p) PROVE Saves
    BY <1>4 DEF Goto
  <1>5. CASE Commands
    <2>1. ASSUME NEW q, Reordered(q) \/ GoesOnWith(q) PROVE Saves
      BY <1>1, <2>1 DEF Reordered, GoesOnWith
    <2>2. ASSUME NEW k \in DOMAIN queue, Remove(k) \/ Jump(k) PROVE Saves
      BY <2>1, <2>2 DEF Remove, Jump
    <2>10. ASSUME NEW k \in DOMAIN queue, NEW j \in DOMAIN queue, Move(k, j) PROVE Saves
      BY <2>1, <2>10 DEF Move
    <2>3. CASE Shuffle \/ Replay
      BY <2>1, <2>3 DEF Shuffle, Replay
    <2>4. ASSUME NEW u \in Users, NEW n \in 1..MaxBatch, Ask(u, n) PROVE Saves
      BY <2>4 DEF Ask
    <2>5. ASSUME NEW u \in Users, EnqueueMany(u) PROVE Saves
      BY <1>1, <2>5 DEF EnqueueMany
    <2>6. CASE Stop \/ Clear \/ Leave \/ Attach \/ Previous \/ Shutdown
      BY <1>1, <2>6 DEF Stop, Clear, Leave, Attach, Previous, Shutdown
    <2>7. ASSUME NEW n \in 1..2, SkipN(n) PROVE Saves
      BY <1>1, <2>7 DEF SkipN
    <2>8. ASSUME NEW m \in {"off", "track", "queue"}, SetLoop(m) PROVE Saves
      BY <1>1, <2>8 DEF SetLoop
    <2>9. ASSUME NEW on \in BOOLEAN, SetPaused(on) PROVE Saves
      BY <2>9 DEF SetPaused, PauseFrame
    <2> HIDE DEF Saves
    <2> QED
      BY <1>5, <2>2, <2>3, <2>4, <2>5, <2>6, <2>7, <2>8, <2>9, <2>10 DEF Commands
  <1>6. CASE Background \/ Events \/ Clocks \/ Watchdog
    BY <1>1, <1>4, <1>6 DEF Background, Events, Clocks, LeaveCloses, Close, CloseLeaves, CloseReturns,
          RetryPersistence, SuspendVoice, SuspendProvider, BackoffElapses, ProviderElapses, Watchdog
  <1>7. CASE Scheduler
    <2>1. CASE RunTop \/ WaitProvider \/ Defer \/ SchedulerWait \/ Wakeup \/ WaitCanceled
      BY <1>4, <2>1 DEF RunTop, WaitProvider, Defer, SchedulerWait, Wakeup, WaitCanceled
    <2>2. CASE RecoverBegins \/ RecoverAttempt \/ \E ok \in BOOLEAN : RecoverEnds(ok)
      BY <1>4, <2>2 DEF RecoverBegins, RecoverAttempt, RecoverEnds
    <2>3. CASE Select
      BY <1>1, <2>3 DEF Select
    <2>4. CASE EndAttempt
      BY <1>1, <2>4 DEF EndAttempt
    <2> QED
      BY <1>7, <2>1, <2>2, <2>3, <2>4 DEF Scheduler
  <1>8. CASE Attempt
    BY <1>2, <1>3, <1>8 DEF Attempt, ConfirmFrame, SilenceFrame, announceStart, PlayReturns
  <1>9. CASE Restart
    BY <1>9
  <1>10. CASE UNCHANGED vars
    BY <1>10 DEF vars
  <1> QED
    BY <1>5, <1>6, <1>7, <1>8, <1>9, <1>10 DEF Next, AtRest

\* Every write, of whatever section, saves the player's state before or after it, and
\* an error stays until a write succeeds or the process is started again.
StoreWritten ==
    \/ store' = store /\ (persistenceError' # "" \/ UNCHANGED persistenceError \/ Restart)
    \/ store' = Durable
    \/ store' = Durable'

\* These write nothing else.
LEMMA StoreWrites ==
    ASSUME [Next]_vars
    PROVE  StoreWritten
  <1> USE DEF storeVars, StoreWritten
  <1>1. ASSUME Persist PROVE StoreWritten
    BY <1>1 DEF Persist, SaveFails
  <1>2. ASSUME persistAudioCheckpoint PROVE StoreWritten
    BY <1>2 DEF persistAudioCheckpoint
  <1>3. ASSUME persistStart PROVE StoreWritten
    BY <1>1, <1>3 DEF persistStart
  <1>4. CASE RetryPersistence
    BY <1>4 DEF RetryPersistence
  <1>5. CASE Restart
    <2>1. store' = store
      BY <1>5 DEF Restart
    <2> QED BY <1>5, <2>1
  <1>6. CASE UNCHANGED storeVars
    BY <1>6
  <1> HIDE DEF StoreWritten
  <1> QED
    BY <1>1, <1>2, <1>3, <1>4, <1>5, <1>6, StepSaves DEF Saves

\* The sections that leave every list alone.
LEMMA QuietKeepsLists ==
    ASSUME \/ \E m \in {"off", "track", "queue"} : SetLoop(m)
           \/ \E on \in BOOLEAN : SetPaused(on)
           \/ Shutdown \/ LeaveCloses \/ Close \/ CloseReturns \/ RetryPersistence
           \/ SuspendVoice \/ SuspendProvider \/ BackoffElapses \/ ProviderElapses \/ Watchdog
           \/ RunTop \/ WaitProvider \/ Defer \/ SchedulerWait \/ Wakeup \/ WaitCanceled
           \/ RecoverBegins \/ RecoverAttempt \/ (\E ok \in BOOLEAN : RecoverEnds(ok))
           \/ SilenceFrame \/ (\E o \in Results : PlayReturns(o))
           \/ UNCHANGED vars
    PROVE  UNCHANGED keptVars
  <1> USE DEF keptVars, queueVars, trackVars, reqVars
  <1>1. ASSUME NEW m \in {"off", "track", "queue"}, SetLoop(m) PROVE UNCHANGED keptVars
    BY <1>1 DEF SetLoop, QueueCommandFrame
  <1>2. ASSUME NEW on \in BOOLEAN, SetPaused(on) PROVE UNCHANGED keptVars
    BY <1>2 DEF SetPaused, PauseFrame
  <1>3. CASE Shutdown \/ LeaveCloses \/ Close \/ CloseReturns \/ RetryPersistence
    BY <1>3 DEF Shutdown, LeaveCloses, Close, CloseReturns, RetryPersistence
  <1>4. CASE SuspendVoice \/ SuspendProvider
    BY <1>4 DEF SuspendVoice, SuspendProvider
  <1>5. ASSUME NEW p, Goto(p) PROVE UNCHANGED keptVars
    BY <1>5 DEF Goto, RunFrame
  <1>6. CASE BackoffElapses
    BY <1>6 DEF BackoffElapses, RunFrame
  <1>7. ASSUME NEW ok \in BOOLEAN, RecoverEnds(ok) PROVE UNCHANGED keptVars
    BY <1>7 DEF RecoverEnds, RunFrame
  <1>8. CASE SilenceFrame
    BY <1>8 DEF SilenceFrame, AttemptFrame
  <1>9. ASSUME NEW o \in Results, PlayReturns(o) PROVE UNCHANGED keptVars
    BY <1>9 DEF PlayReturns
  <1>10. CASE UNCHANGED vars
    BY <1>10 DEF vars
  <1> HIDE DEF keptVars
  <1>11. CASE ProviderElapses \/ Watchdog \/ RunTop \/ WaitProvider \/ Defer
    BY <1>5, <1>11 DEF ProviderElapses, Watchdog, RunTop, WaitProvider, Defer
  <1>12. CASE SchedulerWait \/ Wakeup \/ WaitCanceled \/ RecoverBegins \/ RecoverAttempt
    BY <1>5, <1>12 DEF SchedulerWait, Wakeup, WaitCanceled, RecoverBegins, RecoverAttempt
  <1> QED
    BY <1>1, <1>2, <1>3, <1>4, <1>6, <1>7, <1>8, <1>9, <1>10, <1>11, <1>12

\* A request is typed when it is asked, and enqueued only if there is room for it.
LEMMA RequestsKeepLists ==
    ASSUME PlayerOK, NEW u \in Users
    PROVE  /\ \A n \in 1..MaxBatch : Ask(u, n) => PlayerOK'
           /\ EnqueueMany(u) => PlayerOK'
  <1> USE PlayerAssumption DEF PlayerAssumption
  <1>1. ASSUME NEW n \in 1..MaxBatch, Ask(u, n) PROVE PlayerOK'
    <2> DEFINE ts == [k \in 1..n |-> Track(nextId + k, 0)]
    <2>1. ts \in Seq(Tracks)
      <3>1. \A k \in 1..n : nextId + k \in 1..MaxTracks
        BY <1>1 DEF Ask, PlayerOK
      <3>2. \A k \in 1..n : Track(nextId + k, 0) \in Tracks
        BY <3>1 DEF Track, Tracks
      <3> QED BY <3>2
    <2>2. <<[ticket |-> generation, tracks |-> ts]>> \in Seq(Request)
      BY <2>1, ShortLists DEF PlayerOK, Request
    <2>3. request' = [request EXCEPT ![u] = <<[ticket |-> generation, tracks |-> ts]>>]
      BY <1>1 DEF Ask
    <2>4. request' \in [Users -> Seq(Request)]
      BY <2>2, <2>3 DEF PlayerOK
    <2> QED
      BY <1>1, <2>4 DEF Ask, PlayerOK, queueVars, trackVars
  <1>2. ASSUME EnqueueMany(u) PROVE PlayerOK'
    <2> DEFINE ts == request[u][1].tracks
    <2>1. request[u] \in Seq(Request) /\ request[u] # <<>>
      BY <1>2 DEF EnqueueMany, PlayerOK
    <2>2. ts \in Seq(Tracks)
      <3>1. Len(request[u]) \in Nat \ {0}
        BY <2>1, EmptySeq
      <3>2. request[u][1] \in Request
        BY <2>1, <3>1, ElementOfSeq
      <3> QED
        BY <3>2 DEF Request
    <2>3. request' \in [Users -> Seq(Request)]
      BY <1>2, ShortLists DEF EnqueueMany, PlayerOK
    <2>4. UNCHANGED <<current, confirmed, generation, nextId, history>>
      BY <1>2 DEF EnqueueMany, trackVars
    <2>5. CASE Accepted(request[u][1])
      <3>1. queue' = queue \o ts /\ Len(ts) <= MaxQueueTracks - Len(queue)
        BY <1>2, <2>5 DEF EnqueueMany, Accepted
      <3>2. queue' \in Seq(Tracks) /\ Len(queue') = Len(queue) + Len(ts)
        BY <2>2, <3>1, ConcatProperties DEF PlayerOK
      <3>3. Len(ts) \in Nat /\ Len(queue) \in Nat /\ Len(current) \in Nat
        BY <2>2, LenProperties DEF PlayerOK
      <3> QED
        BY <2>3, <2>4, <3>1, <3>2, <3>3 DEF PlayerOK
    <2>6. CASE ~Accepted(request[u][1])
      BY <1>2, <2>3, <2>4, <2>6 DEF EnqueueMany, PlayerOK
    <2> QED BY <2>5, <2>6
  <1> QED BY <1>1, <1>2

\* A list without one of its elements.
LEMMA WithoutOne ==
    ASSUME NEW S, NEW s \in Seq(S), NEW k \in 1..Len(s)
    PROVE  Without(s, k) \in Seq(S) /\ Len(Without(s, k)) = Len(s) - 1
  <1> DEFINE left == SubSeq(s, 1, k - 1)
             right == SubSeq(s, k + 1, Len(s))
  <1>0. Len(s) \in Nat
    BY LenProperties
  <1>1. left \in Seq(S) /\ Len(left) = k - 1
    BY <1>0, Stretch
  <1>2. right \in Seq(S) /\ Len(right) = Len(s) - k
    BY <1>0, Stretch
  <1>3. left \o right \in Seq(S) /\ Len(left \o right) = Len(left) + Len(right)
    BY <1>1, <1>2, ConcatProperties
  <1> HIDE DEF left, right
  <1>4. Len(left \o right) = Len(s) - 1
    BY <1>0, <1>1, <1>2, <1>3
  <1> QED
    BY <1>3, <1>4 DEF Without, left, right

\* Part of the queue goes, and with it the current track or not.
LEMMA Shrinks ==
    ASSUME PlayerOK, queue' \in Seq(Tracks), Len(queue') <= Len(queue),
           current' = <<>> \/ current' = current, generation' \in Nat,
           UNCHANGED <<confirmed, nextId, history, request>>
    PROVE  PlayerOK'
  <1>1. Len(queue) \in Nat /\ Len(queue') \in Nat /\ Len(current) \in Nat
    BY LenProperties DEF PlayerOK
  <1>2. current' \in Seq(Tracks) /\ Len(current') <= Len(current)
    <2>1. CASE current' = current
      BY <1>1, <2>1 DEF PlayerOK
    <2>2. CASE current' = <<>>
      BY <1>1, <2>2, ShortLists
    <2> QED BY <2>1, <2>2
  <1>3. Len(current') \in Nat
    BY <1>2, LenProperties
  <1>4. Len(queue') + Len(current') <= MaxQueueTracks + 1 /\ Len(current') <= 1
    <2>1. Len(queue) + Len(current) <= MaxQueueTracks + 1 /\ Len(current) <= 1 /\ MaxQueueTracks \in Nat
      BY PlayerAssumption DEF PlayerOK, PlayerAssumption
    <2>2. \A a, b, c, d, m \in Nat :
             a + b <= m + 1 /\ b <= 1 /\ c <= a /\ d <= b => c + d <= m + 1 /\ d <= 1
      OBVIOUS
    <2> QED
      BY <1>1, <1>2, <1>3, <2>1, <2>2
  <1> QED
    BY <1>2, <1>4 DEF PlayerOK

\* The commands that end a session or shorten the queue.
LEMMA EndingsKeepLists ==
    ASSUME PlayerOK,
           Stop \/ Leave \/ CloseLeaves \/ Clear \/ Attach
           \/ (\E n \in 1..2 : SkipN(n)) \/ \E k \in DOMAIN queue : Remove(k) \/ Jump(k)
    PROVE  PlayerOK'
  <1> USE DEF reqVars
  <1>0. queue \in Seq(Tracks) /\ Len(queue) \in Nat /\ DOMAIN queue = 1..Len(queue) /\ generation \in Nat
    BY LenProperties DEF PlayerOK
  <1>1. CASE Stop \/ Leave \/ CloseLeaves
    <2>1. EndSession
      BY <1>1 DEF Stop, Leave, CloseLeaves, Detach
    <2> QED
      BY <1>0, <2>1, Shrinks, ShortLists DEF EndSession, cancelTrack, revokeTickets
  <1>2. CASE Clear
    BY <1>0, <1>2, Shrinks, ShortLists DEF Clear, revokeTickets, trackVars
  <1>3. CASE Attach
    BY <1>0, <1>3, Shrinks DEF Attach, trackVars
  <1>4. ASSUME NEW n \in 1..2, SkipN(n) PROVE PlayerOK'
    <2>1. PICK d \in 0..Len(queue) : queue' = SubSeq(queue, d + 1, Len(queue))
      <3> DEFINE skips == IF current # <<>> THEN 1 ELSE 0
                 drop  == IF n - skips < Len(queue) THEN n - skips ELSE Len(queue)
      <3>1. drop \in 0..Len(queue)
        BY <1>0
      <3>2. queue' = SubSeq(queue, drop + 1, Len(queue))
        BY <1>4 DEF SkipN
      <3> QED BY <3>1, <3>2
    <2>2. queue' \in Seq(Tracks) /\ Len(queue') <= Len(queue)
      BY <1>0, <2>1, Stretch
    <2>3. current' = <<>> \/ current' = current
      BY <1>4 DEF SkipN, cancelTrack, trackVars
    <2>4. UNCHANGED <<confirmed, generation, nextId, history, request>>
      BY <1>4 DEF SkipN, cancelTrack, trackVars, QueueCommandFrame
    <2> QED
      BY <1>0, <2>2, <2>3, <2>4, Shrinks
  <1>5. ASSUME NEW k \in DOMAIN queue, Remove(k) PROVE PlayerOK'
    <2>1. queue' = SubSeq(queue, 1, k - 1) \o SubSeq(queue, k + 1, Len(queue))
      BY <1>5 DEF Remove, Reordered, Without
    <2>2. queue' \in Seq(Tracks) /\ Len(queue') = Len(queue) - 1
      BY <1>0, <2>1, WithoutOne DEF Without
    <2> QED
      BY <1>0, <1>5, <2>2, Shrinks DEF Remove, Reordered, QueueCommandFrame, trackVars
  <1>6. ASSUME NEW k \in DOMAIN queue, Jump(k) PROVE PlayerOK'
    <2>1. queue' \in Seq(Tracks) /\ Len(queue') <= Len(queue)
      BY <1>0, <1>6, Stretch DEF Jump, GoesOnWith
    <2> QED
      BY <1>0, <1>6, <2>1, Shrinks DEF Jump, GoesOnWith, QueueCommandFrame, cancelTrack
  <1> QED
    BY <1>1, <1>2, <1>3, <1>4, <1>5, <1>6

\* The commands that reorder the queue or put a track at its head: Replay and Previous
\* look for room first.
LEMMA ReordersKeepLists ==
    ASSUME PlayerOK,
           (\E i \in DOMAIN queue : \E j \in DOMAIN queue : Move(i, j)) \/ Shuffle \/ Replay \/ Previous
    PROVE  PlayerOK'
  <1>0. queue \in Seq(Tracks) /\ Len(queue) \in Nat /\ DOMAIN queue = 1..Len(queue) /\ generation \in Nat
    BY LenProperties DEF PlayerOK
  <1>1. ASSUME NEW q \in Seq(Tracks), Len(q) = Len(queue), Reordered(q) PROVE PlayerOK'
    BY <1>0, <1>1, Shrinks DEF Reordered, QueueCommandFrame, trackVars
  <1>2. ASSUME NEW i \in DOMAIN queue, NEW j \in DOMAIN queue, Move(i, j) PROVE PlayerOK'
    <2> DEFINE rest  == Without(queue, i)
               left  == SubSeq(rest, 1, j - 1)
               right == SubSeq(rest, j, Len(rest))
               moved == left \o <<queue[i]>> \o right
    <2>1. rest \in Seq(Tracks) /\ Len(rest) = Len(queue) - 1
      BY <1>0, WithoutOne
    <2>2. left \in Seq(Tracks) /\ Len(left) = j - 1
      BY <1>0, <2>1, Stretch
    <2>3. right \in Seq(Tracks) /\ Len(right) = Len(queue) - j
      BY <1>0, <2>1, Stretch
    <2>4. <<queue[i]>> \in Seq(Tracks) /\ Len(<<queue[i]>>) = 1
      BY <1>0, ElementOfSeq, ShortLists
    <2> HIDE DEF left, right
    <2>5. left \o <<queue[i]>> \in Seq(Tracks) /\ Len(left \o <<queue[i]>>) = j
      BY <1>0, <2>2, <2>4, ConcatProperties
    <2>6. moved \in Seq(Tracks) /\ Len(moved) = Len(queue)
      <3>1. moved \in Seq(Tracks) /\ Len(moved) = Len(left \o <<queue[i]>>) + Len(right)
        BY <2>3, <2>5, ConcatProperties
      <3>2. Len(moved) = j + (Len(queue) - j)
        BY <2>3, <2>5, <3>1
      <3>3. j + (Len(queue) - j) = Len(queue)
        BY <1>0
      <3> QED BY <3>1, <3>2, <3>3
    <2>7. Reordered(moved)
      BY <1>2 DEF Move, left, right
    <2> QED
      BY <1>1, <2>6, <2>7
  <1>3. CASE Shuffle
    <2>1. PICK p \in [DOMAIN queue -> DOMAIN queue] : Reordered([k \in DOMAIN queue |-> queue[p[k]]])
      BY <1>3 DEF Shuffle
    <2> DEFINE q == [k \in DOMAIN queue |-> queue[p[k]]]
    <2>2. \A k \in 1..Len(queue) : p[k] \in 1..Len(queue) /\ queue[p[k]] \in Tracks
      BY <1>0, <2>1, ElementOfSeq
    <2>3. q \in Seq(Tracks) /\ Len(q) = Len(queue)
      BY <1>0, <2>2
    <2> QED
      BY <1>1, <2>1, <2>3
  <1>4. CASE Replay
    <2> DEFINE t == Track(current[1].id, 0)
    <2>1. t \in Tracks
      BY <1>4, CurrentTrack DEF Replay
    <2>2. queue' = <<t>> \o queue /\ current' = <<>> /\ Len(queue) + 1 <= MaxQueueTracks
      BY <1>4 DEF Replay, GoesOnWith, cancelTrack, RoomFor
    <2> HIDE DEF t
    <2>3. queue' \in Seq(Tracks) /\ Len(queue') = Len(queue) + 1
      BY <1>0, <2>1, <2>2, ShortLists, ConcatProperties
    <2>4. UNCHANGED <<confirmed, generation, nextId, history, request>>
      BY <1>4 DEF Replay, GoesOnWith, QueueCommandFrame, cancelTrack
    <2> QED
      BY <1>0, <2>2, <2>3, <2>4, ShortLists, PlayerAssumption DEF PlayerOK, PlayerAssumption
  <1>5. CASE Previous
    <2> DEFINE n == IF current # <<>> /\ started THEN Len(history) - 1 ELSE Len(history)
               t == Track(history[n], 0)
    <2>1. history \in Seq(1..MaxTracks) /\ Len(history) \in Nat /\ n \in 1..Len(history)
      BY <1>5, LenProperties DEF PlayerOK, Previous
    <2>2. t \in Tracks
      <3>1. history[n] \in 1..MaxTracks /\ 0 \in 0..Duration
        BY <2>1, ElementOfSeq, PlayerAssumption DEF PlayerAssumption
      <3> QED BY <3>1 DEF Track, Tracks
    <2>3. /\ queue' = <<t>> \o current \o queue /\ current' = <<>>
          /\ Len(queue) + (1 + Len(current)) <= MaxQueueTracks
          /\ history' = SubSeq(history, 1, n - 1)
      BY <1>5 DEF Previous, cancelTrack, RoomFor
    <2>4. history' \in Seq(1..MaxTracks)
      <3> DEFINE ids == 1..MaxTracks
      <3>1. history \in Seq(ids) /\ n - 1 \in 0..Len(history) /\ 1 \in 1..(Len(history) + 1)
        BY <2>1
      <3> HIDE DEF ids, n
      <3>2. SubSeq(history, 1, n - 1) \in Seq(ids)
        BY <3>1, Stretch
      <3> QED BY <2>3, <3>2 DEF ids
    <2>5. UNCHANGED <<confirmed, generation, nextId, request>>
      BY <1>5 DEF Previous, QueueCommandFrame, cancelTrack
    <2> HIDE DEF t, n
    <2>6. current \in Seq(Tracks) /\ Len(current) \in Nat
      BY LenProperties DEF PlayerOK
    <2>7. <<t>> \o current \in Seq(Tracks) /\ Len(<<t>> \o current) = 1 + Len(current)
      BY <2>2, <2>6, ShortLists, ConcatProperties
    <2>8. queue' \in Seq(Tracks) /\ Len(queue') = 1 + Len(current) + Len(queue)
      BY <1>0, <2>3, <2>7, ConcatProperties
    <2> QED
      BY <1>0, <2>3, <2>4, <2>5, <2>6, <2>8, ShortLists, PlayerAssumption DEF PlayerOK, PlayerAssumption
  <1> QED
    BY <1>2, <1>3, <1>4, <1>5

\* A track goes back into the queue when run() lets go of it: in its place, there is room.
LEMMA PutsBack ==
    ASSUME PlayerOK, current # <<>>, NEW t \in Tracks, NEW q \in {<<t>> \o queue, queue \o <<t>>}
    PROVE  q \in Seq(Tracks) /\ Len(q) <= MaxQueueTracks + 1
  <1>0. queue \in Seq(Tracks) /\ Len(queue) \in Nat /\ Len(queue) + 1 <= MaxQueueTracks + 1
    BY CurrentTrack, LenProperties DEF PlayerOK
  <1>1. <<t>> \in Seq(Tracks) /\ Len(<<t>>) = 1
    BY ShortLists
  <1>2. q \in Seq(Tracks) /\ Len(q) = 1 + Len(queue)
    <2>1. CASE q = <<t>> \o queue
      BY <1>0, <1>1, <2>1, ConcatProperties
    <2>2. CASE q = queue \o <<t>>
      <3>1. q \in Seq(Tracks) /\ Len(q) = Len(queue) + Len(<<t>>)
        BY <1>0, <1>1, <2>2, ConcatProperties
      <3> QED BY <1>0, <1>1, <3>1
    <2> QED BY <2>1, <2>2
  <1> QED
    BY <1>0, <1>2

\* The section after play().
LEMMA EndKeepsLists ==
    ASSUME PlayerOK, EndAttempt
    PROVE  PlayerOK'
  <1>0. queue \in Seq(Tracks) /\ Len(queue) \in Nat /\ Len(queue) <= MaxQueueTracks + 1
    BY LenProperties, PlayerAssumption DEF PlayerOK, PlayerAssumption
  <1>1. current' = <<>> /\ UNCHANGED <<confirmed, generation, nextId, history, request>>
    BY DEF EndAttempt, RunFrame, reqVars
  <1>2. \/ queue' = queue
        \/ current # <<>> /\ queue' \in {Kept, <<Retained>> \o queue, Looped}
    BY DEF EndAttempt, TransportFailure, ExpectedCancel, ProviderFailure, NetworkRetry, ResumeFailed, Advances
  <1>3. queue' \in Seq(Tracks) /\ Len(queue') <= MaxQueueTracks + 1
    <2>1. CASE queue' = queue
      BY <1>0, <2>1
    <2>2. CASE current # <<>> /\ queue' \in {Kept, <<Retained>> \o queue}
      BY <1>0, <2>2, PutsBack, CurrentTrack DEF Kept
    <2>3. CASE current # <<>> /\ queue' = Looped
      BY <1>0, <2>3, PutsBack, CurrentTrack DEF Looped
    <2> QED BY <1>2, <2>1, <2>2, <2>3
  <1>4. Len(queue') \in Nat
    BY <1>3, LenProperties
  <1> QED
    BY <1>1, <1>3, <1>4, ShortLists DEF PlayerOK

\* Taking the head, confirming audio, recording a start, and a restart.
LEMMA PlaybackKeepsLists ==
    ASSUME CapacityInv, Select \/ ConfirmFrame \/ announceStart \/ Restart
    PROVE  PlayerOK'
  <1> USE PlayerAssumption DEF PlayerAssumption, CapacityInv
  <1>0. queue \in Seq(Tracks) /\ Len(queue) \in Nat /\ generation \in Nat
    BY LenProperties DEF PlayerOK
  <1>1. CASE Select
    <2>1. queue # <<>>
      BY <1>1 DEF Select, Reason
    <2>2. Len(queue) \in Nat \ {0}
      BY <1>0, <2>1, EmptySeq
    <2>3. queue[1] \in Tracks /\ queue[1].off \in 0..Duration
      <3>1. queue[1] \in Tracks
        BY <1>0, <2>2, ElementOfSeq
      <3> QED BY <3>1 DEF Tracks
    <2>4. current' \in Seq(Tracks) /\ Len(current') = 1 /\ confirmed' \in 0..Duration
      BY <1>1, <2>3, ShortLists DEF Select
    <2>5. queue' \in Seq(Tracks) /\ Len(queue') = Len(queue) - 1
      BY <1>0, <1>1, <2>1, HeadTailProperties DEF Select
    <2>6. UNCHANGED <<generation, nextId, history, request>>
      BY <1>1 DEF Select, RunFrame, reqVars
    <2>7. Len(queue) <= MaxQueueTracks + 1
      BY <1>0, LenProperties DEF PlayerOK
    <2> QED
      BY <1>0, <2>4, <2>5, <2>6, <2>7 DEF PlayerOK
  <1>2. CASE ConfirmFrame
    <2>1. confirmed' \in 0..Duration
      BY <1>2 DEF ConfirmFrame, PlayerOK
    <2> QED
      BY <1>2, <2>1 DEF ConfirmFrame, AttemptFrame, reqVars, PlayerOK
  <1>3. CASE announceStart
    <2>1. history' \in Seq(1..MaxTracks)
      <3>1. CASE history' = history
        BY <3>1 DEF PlayerOK
      <3>2. CASE current # <<>> /\ history' = Recent(Append(history, current[1].id))
        <4> DEFINE h == Append(history, current[1].id)
        <4>1. current[1].id \in 1..MaxTracks
          BY <3>2, CurrentTrack DEF Tracks
        <4>2. h \in Seq(1..MaxTracks) /\ Len(h) \in Nat
          BY <4>1, AppendProperties, LenProperties DEF PlayerOK
        <4> HIDE DEF h
        <4>3. Len(h) > HistoryLimit => SubSeq(h, Len(h) - HistoryLimit + 1, Len(h)) \in Seq(1..MaxTracks)
          BY <4>2, Stretch
        <4> QED
          BY <3>2, <4>2, <4>3 DEF Recent, h
      <3> QED
        BY <1>3, <3>1, <3>2 DEF announceStart
    <2> QED
      BY <1>3, <2>1 DEF announceStart, AttemptFrame, reqVars, PlayerOK
  <1>4. CASE Restart
    <2>0. /\ store.q \in Seq(Tracks) /\ store.cur \in Seq(Tracks) /\ store.hist \in Seq(1..MaxTracks)
          /\ Len(store.q) + Len(store.cur) <= MaxQueueTracks + 1
          /\ Len(store.q) \in Nat /\ Len(store.cur) \in Nat /\ Len(store.hist) \in Nat
      BY LenProperties DEF SnapshotOK
    <2> DEFINE c == IF store.cur # <<>> /\ ~advanceInterrupted(store.cur[1]) THEN store.cur ELSE <<>>
    <2>1. c \in Seq(Tracks) /\ Len(c) \in Nat /\ Len(c) <= Len(store.cur)
      BY <2>0, ShortLists
    <2>2. queue' = c \o store.q
      BY <1>4 DEF Restart, RestoredQueue
    <2> HIDE DEF c
    <2>3. queue' \in Seq(Tracks) /\ Len(queue') = Len(c) + Len(store.q)
      BY <2>0, <2>1, <2>2, ConcatProperties
    <2>4. RestoredHistory(store) \in Seq(1..MaxTracks)
      <3>1. ASSUME store.hist # <<>> PROVE SubSeq(store.hist, 1, Len(store.hist) - 1) \in Seq(1..MaxTracks)
        <4>1. Len(store.hist) \in Nat \ {0}
          BY <2>0, <3>1, EmptySeq
        <4> QED BY <2>0, <4>1, Stretch
      <3> QED
        BY <2>0, <3>1 DEF RestoredHistory
    <2>5. /\ current' = <<>> /\ confirmed' = 0 /\ generation' = 0 /\ nextId' = nextId
          /\ history' = RestoredHistory(store) /\ request' = [u \in Users |-> <<>>]
      BY <1>4 DEF Restart
    <2>6. request' \in [Users -> Seq(Request)]
      BY <2>5, ShortLists
    <2>7. Len(queue') + Len(current') <= MaxQueueTracks + 1 /\ Len(current') = 0 /\ current' \in Seq(Tracks)
      <3>1. Len(queue') <= MaxQueueTracks + 1 /\ Len(queue') \in Nat
        <4>1. \A a, b, d, m \in Nat : b + d <= m + 1 /\ a <= d => a + b <= m + 1 /\ a + b \in Nat
          OBVIOUS
        <4>2. MaxQueueTracks \in Nat
          OBVIOUS
        <4>3. Len(c) + Len(store.q) <= MaxQueueTracks + 1 /\ Len(c) + Len(store.q) \in Nat
          BY <2>0, <2>1, <4>1, <4>2
        <4> QED BY <2>3, <4>3
      <3> QED BY <2>5, <3>1, ShortLists
    <2> QED
      BY <2>3, <2>4, <2>5, <2>6, <2>7 DEF PlayerOK
  <1> QED
    BY <1>1, <1>2, <1>3, <1>4

\* A new player and an empty snapshot are within the capacity.
LEMMA CapacityInit == Init => CapacityInv
  <1> SUFFICES ASSUME Init PROVE CapacityInv
    OBVIOUS
  <1>1. request \in [Users -> Seq(Request)]
    BY ShortLists DEF Init
  <1>2. SnapshotOK(store)
    <2>1. store.q = <<>> /\ store.cur = <<>> /\ store.hist = <<>>
      BY DEF Init, Empty
    <2> QED
      BY <2>1, ShortLists, PlayerAssumption DEF SnapshotOK, PlayerAssumption
  <1>3. /\ queue = <<>> /\ current = <<>> /\ confirmed = 0 /\ generation = 0 /\ nextId = 0 /\ history = <<>>
    BY DEF Init
  <1> QED
    BY <1>1, <1>2, <1>3, ShortLists, PlayerAssumption DEF CapacityInv, PlayerOK, PlayerAssumption

\* Every step keeps the lists within it, hence every snapshot.
LEMMA CapacityStep == CapacityInv /\ [Next]_vars => CapacityInv'
  <1> SUFFICES ASSUME CapacityInv, [Next]_vars PROVE CapacityInv'
    OBVIOUS
  <1>1. PlayerOK
    BY DEF CapacityInv
  <1>2. PlayerOK'
    <2>1. CASE Commands
      BY <1>1, <2>1, RequestsKeepLists, EndingsKeepLists, ReordersKeepLists, QuietKeepsLists, KeptStutter
         DEF Commands
    <2>2. CASE Background \/ Events \/ Clocks \/ Watchdog
      BY <1>1, <2>2, EndingsKeepLists, QuietKeepsLists, KeptStutter DEF Background, Events, Clocks
    <2>3. CASE Scheduler
      BY <1>1, <2>3, EndKeepsLists, PlaybackKeepsLists, QuietKeepsLists, KeptStutter DEF Scheduler
    <2>4. CASE Attempt
      BY <1>1, <2>4, PlaybackKeepsLists, QuietKeepsLists, KeptStutter DEF Attempt
    <2>5. CASE Restart
      BY <2>5, PlaybackKeepsLists
    <2>6. CASE UNCHANGED vars
      BY <1>1, <2>6, QuietKeepsLists, KeptStutter
    <2> QED
      BY <2>1, <2>2, <2>3, <2>4, <2>5, <2>6 DEF Next, AtRest
  <1>3. SnapshotOK(Durable) /\ SnapshotOK(Durable)'
    BY <1>1, <1>2, DurableOK, PTL
  <1>4. SnapshotOK(store)'
    BY <1>3, StoreWrites DEF StoreWritten, CapacityInv, SnapshotOK
  <1> QED
    BY <1>2, <1>4 DEF CapacityInv

\* The player and every snapshot it writes stay within the size ConfigureStore accepts,
\* whatever mix of requests, retries, replays, loops, crashes and failing writes occurs.
THEOREM WithinCapacity == Spec => []Capacity
  <1>1. CapacityInv => Capacity
    BY DEF CapacityInv, PlayerOK, Capacity
  <1> QED
    BY CapacityInit, CapacityStep, <1>1, PTL DEF Spec

-----------------------------------------------------------------------------
(***************************************************************************)
(* Removal.  NoResurrection is not inductive: what was removed could come  *)
(* back from a search in flight, from the history or from the snapshot.    *)
(* A removal revokes the tickets of the searches, saves the shorter lists  *)
(* or shows an error, and every id a later /play brings is a new one.      *)
(***************************************************************************)
Members(s)  == {s[k] : k \in DOMAIN s}
HeldIds     == IdSet(queue) \cup IdSet(current)
SavedIds(s) == IdSet(s.q) \cup IdSet(s.cur)

\* Nothing is saved only once the process shuts down.
SavesWhileOpen == (closer # "none" => closed) /\ (~closed => storeOn)

\* Ids are given out in order.
IdsKnown ==
    /\ HeldIds \subseteq 1..nextId /\ Asked \subseteq 1..nextId /\ Members(history) \subseteq 1..nextId
    /\ SavedIds(store) \subseteq 1..nextId /\ Members(store.hist) \subseteq 1..nextId
    /\ removed \subseteq 1..nextId

\* A search that lost tracks to a removal has an old ticket.
TicketsRevoked ==
    \A u \in Users : request[u] # <<>> =>
        /\ request[u][1].ticket <= generation
        /\ request[u][1].ticket = generation => removed \cap IdSet(request[u][1].tracks) = {}

\* What is gone is not held, and not in a snapshot that was reported as saved.
Gone == removed \cap HeldIds = {}
GoneFromStore == persistenceError = "" => removed \cap SavedIds(store) = {}

RemovalInv == SavesWhileOpen /\ IdsKnown /\ TicketsRevoked /\ Gone /\ GoneFromStore

\* The ids of two lists together.
LEMMA IdsOfJoin ==
    ASSUME NEW s \in Seq(Tracks), NEW t \in Seq(Tracks)
    PROVE  IdSet(s \o t) = IdSet(s) \cup IdSet(t)
  <1>1. /\ DOMAIN s = 1..Len(s) /\ DOMAIN t = 1..Len(t) /\ DOMAIN (s \o t) = 1..(Len(s) + Len(t))
        /\ Len(s) \in Nat /\ Len(t) \in Nat
        /\ \A i \in 1..(Len(s) + Len(t)) : (s \o t)[i] = IF i <= Len(s) THEN s[i] ELSE t[i - Len(s)]
    BY ConcatProperties, LenProperties
  <1>2. ASSUME NEW i \in DOMAIN (s \o t) PROVE (s \o t)[i].id \in IdSet(s) \cup IdSet(t)
    <2>1. CASE i <= Len(s)
      BY <1>1, <2>1 DEF IdSet
    <2>2. CASE i > Len(s)
      <3>1. i - Len(s) \in DOMAIN t /\ (s \o t)[i] = t[i - Len(s)]
        BY <1>1, <2>2
      <3> QED BY <3>1 DEF IdSet
    <2> QED BY <1>1, <2>1, <2>2
  <1>3. ASSUME NEW i \in DOMAIN s PROVE s[i].id \in IdSet(s \o t)
    <2>1. i \in DOMAIN (s \o t) /\ (s \o t)[i] = s[i]
      BY <1>1
    <2> QED BY <2>1 DEF IdSet
  <1>4. ASSUME NEW i \in DOMAIN t PROVE t[i].id \in IdSet(s \o t)
    <2>1. i + Len(s) \in DOMAIN (s \o t) /\ (s \o t)[i + Len(s)] = t[i]
      BY <1>1
    <2> QED BY <2>1 DEF IdSet
  <1> QED BY <1>2, <1>3, <1>4 DEF IdSet

\* The ids of a stretch of a list.
LEMMA IdsOfStretch ==
    ASSUME NEW s \in Seq(Tracks), NEW m \in 1..(Len(s) + 1), NEW n \in 0..Len(s)
    PROVE  /\ SubSeq(s, m, n) \in Seq(Tracks)
           /\ IdSet(SubSeq(s, m, n)) = {s[i].id : i \in m..n}
           /\ IdSet(SubSeq(s, m, n)) \subseteq IdSet(s)
  <1>1. DOMAIN s = 1..Len(s) /\ Len(s) \in Nat
    BY LenProperties
  <1>2. \A i \in m..n : s[i] \in Tracks
    BY <1>1, LenProperties
  <1>3. DOMAIN SubSeq(s, m, n) = 1..(IF m <= n THEN n - m + 1 ELSE 0)
    BY <1>2, SubSeqProperties, Stretch, LenProperties
  <1>4. ASSUME NEW i \in DOMAIN SubSeq(s, m, n)
        PROVE  m + i - 1 \in m..n /\ SubSeq(s, m, n)[i] = s[m + i - 1]
    <2>1. m <= n /\ i \in 1..(n - m + 1)
      BY <1>1, <1>3
    <2>2. SubSeq(s, m, n)[i] = s[m + i - 1]
      BY <1>1, <1>2, <2>1, SubSeqProperties
    <2> QED BY <1>1, <2>1, <2>2
  <1>5. ASSUME NEW i \in m..n
        PROVE  i - m + 1 \in DOMAIN SubSeq(s, m, n) /\ SubSeq(s, m, n)[i - m + 1] = s[i]
    <2>1. i - m + 1 \in DOMAIN SubSeq(s, m, n)
      BY <1>1, <1>3
    <2>2. m + (i - m + 1) - 1 = i
      BY <1>1
    <2> QED BY <1>4, <2>1, <2>2
  <1>6. IdSet(SubSeq(s, m, n)) = {s[i].id : i \in m..n}
    <2> DEFINE q == SubSeq(s, m, n)
    <2>1. \A i \in DOMAIN q : m + i - 1 \in m..n /\ q[i] = s[m + i - 1]
      BY <1>4
    <2>2. \A i \in m..n : i - m + 1 \in DOMAIN q /\ q[i - m + 1] = s[i]
      BY <1>5
    <2> HIDE DEF q
    <2>3. {q[i].id : i \in DOMAIN q} \subseteq {s[i].id : i \in m..n}
      BY <2>1
    <2>4. {s[i].id : i \in m..n} \subseteq {q[i].id : i \in DOMAIN q}
      BY <2>2
    <2> QED BY <2>3, <2>4 DEF q, IdSet
  <1>7. {s[i].id : i \in m..n} \subseteq IdSet(s)
    BY <1>1 DEF IdSet
  <1> QED BY <1>6, <1>7, Stretch

\* The ids of the shortest lists, and of an element.
LEMMA IdsOfFew ==
    /\ IdSet(<<>>) = {}
    /\ \A t : IdSet(<<t>>) = {t.id}
    /\ \A s \in Seq(Tracks) : \A k \in DOMAIN s : s[k].id \in IdSet(s)
  <1>1. IdSet(<<>>) = {}
    BY DEF IdSet
  <1>2. ASSUME NEW t PROVE IdSet(<<t>>) = {t.id}
    BY DEF IdSet
  <1>3. \A s \in Seq(Tracks) : \A k \in DOMAIN s : s[k].id \in IdSet(s)
    BY DEF IdSet
  <1> QED BY <1>1, <1>2, <1>3

\* A list and its element at k are the list without it and the element.
LEMMA IdsWithout ==
    ASSUME NEW s \in Seq(Tracks), NEW k \in 1..Len(s)
    PROVE  IdSet(s) = IdSet(Without(s, k)) \cup {s[k].id}
  <1> DEFINE a == SubSeq(s, 1, k - 1)
             b == SubSeq(s, k + 1, Len(s))
  <1>1. DOMAIN s = 1..Len(s) /\ Len(s) \in Nat
    BY LenProperties
  <1>2. 1 \in 1..(Len(s) + 1) /\ k - 1 \in 0..Len(s) /\ k + 1 \in 1..(Len(s) + 1) /\ Len(s) \in 0..Len(s)
    BY <1>1
  <1>3. a \in Seq(Tracks) /\ IdSet(a) = {s[i].id : i \in 1..(k - 1)}
    BY <1>2, IdsOfStretch
  <1>4. b \in Seq(Tracks) /\ IdSet(b) = {s[i].id : i \in (k + 1)..Len(s)}
    BY <1>2, IdsOfStretch
  <1>5. Without(s, k) = a \o b
    BY DEF Without
  <1> HIDE DEF a, b
  <1>6. IdSet(Without(s, k)) = IdSet(a) \cup IdSet(b)
    BY <1>3, <1>4, <1>5, IdsOfJoin
  <1>7. IdSet(s) = {s[i].id : i \in 1..Len(s)}
    BY <1>1 DEF IdSet
  <1>8. 1..Len(s) = (1..(k - 1)) \cup {k} \cup ((k + 1)..Len(s))
    BY <1>1
  <1> QED BY <1>3, <1>4, <1>6, <1>7, <1>8

\* An element put somewhere else in the list: the same ids.
LEMMA IdsInserted ==
    ASSUME NEW s \in Seq(Tracks), NEW t \in Tracks, NEW j \in 1..(Len(s) + 1)
    PROVE  IdSet(SubSeq(s, 1, j - 1) \o <<t>> \o SubSeq(s, j, Len(s))) = IdSet(s) \cup {t.id}
  <1> DEFINE a == SubSeq(s, 1, j - 1)
             b == SubSeq(s, j, Len(s))
             e == <<t>>
  <1>1. DOMAIN s = 1..Len(s) /\ Len(s) \in Nat
    BY LenProperties
  <1>2. 1 \in 1..(Len(s) + 1) /\ j - 1 \in 0..Len(s) /\ Len(s) \in 0..Len(s)
    BY <1>1
  <1>3. a \in Seq(Tracks) /\ IdSet(a) = {s[i].id : i \in 1..(j - 1)}
    BY <1>2, IdsOfStretch
  <1>4. b \in Seq(Tracks) /\ IdSet(b) = {s[i].id : i \in j..Len(s)}
    BY <1>2, IdsOfStretch
  <1>5. e \in Seq(Tracks) /\ IdSet(e) = {t.id}
    BY ShortLists, IdsOfFew
  <1> HIDE DEF a, b, e
  <1>6. a \o e \in Seq(Tracks) /\ IdSet(a \o e) = IdSet(a) \cup IdSet(e)
    BY <1>3, <1>5, IdsOfJoin, ConcatProperties
  <1>7. IdSet(a \o e \o b) = IdSet(a \o e) \cup IdSet(b)
    BY <1>4, <1>6, IdsOfJoin
  <1>8. IdSet(s) = {s[i].id : i \in 1..Len(s)}
    BY <1>1 DEF IdSet
  <1>9. 1..Len(s) = (1..(j - 1)) \cup (j..Len(s))
    BY <1>1
  <1>10. IdSet(a \o e \o b) = IdSet(s) \cup {t.id}
    BY <1>3, <1>4, <1>5, <1>6, <1>7, <1>8, <1>9
  <1> QED BY <1>10 DEF a, b, e

\* The current track's id.
LEMMA IdsOfCurrent ==
    ASSUME PlayerOK, current # <<>>
    PROVE  IdSet(current) = {current[1].id}
  <1>1. Len(current) = 1 /\ DOMAIN current = 1..1
    BY CurrentTrack, LenProperties DEF PlayerOK
  <1>2. DOMAIN current = {1}
    BY <1>1
  <1> QED BY <1>2 DEF IdSet

\* What the player is responsible for.
LEMMA HeldIsIds == PlayerOK => IdSet(Held) = HeldIds
  BY IdsOfJoin DEF PlayerOK, Held, HeldIds

\* A snapshot has the ids the player holds.
LEMMA DurableIds == PlayerOK => SavedIds(Durable) = HeldIds /\ Durable.hist = history
  <1> SUFFICES ASSUME PlayerOK PROVE SavedIds(Durable) = HeldIds /\ Durable.hist = history
    OBVIOUS
  <1>1. Durable.q = queue /\ Durable.hist = history
    BY DEF Durable
  <1>2. CASE current = <<>>
    <2>1. Durable.cur = <<>>
      BY <1>2 DEF Durable
    <2> QED BY <1>1, <1>2, <2>1 DEF SavedIds, HeldIds
  <1>3. CASE current # <<>>
    <2>1. Durable.cur = <<Retained>> /\ Retained.id = current[1].id
      BY <1>3 DEF Durable, Retained, Track
    <2>2. IdSet(Durable.cur) = IdSet(current)
      BY <1>3, <2>1, IdsOfFew, IdsOfCurrent
    <2> QED BY <1>1, <2>2 DEF SavedIds, HeldIds
  <1> QED BY <1>2, <1>3

\* The snapshot, after any step that removes nothing more.
LEMMA StoreKeepsGone ==
    ASSUME CapacityInv, CapacityInv', RemovalInv, [Next]_vars, ~Restart,
           nextId' \in Nat, nextId <= nextId', removed' \subseteq removed,
           HeldIds' \subseteq 1..nextId', Members(history)' \subseteq 1..nextId', Gone'
    PROVE  /\ SavedIds(store)' \subseteq 1..nextId' /\ Members(store.hist)' \subseteq 1..nextId'
           /\ GoneFromStore'
  <1>1. SavedIds(Durable) = HeldIds /\ Durable.hist = history
    BY DurableIds DEF CapacityInv
  <1>2. SavedIds(Durable)' = HeldIds' /\ Durable.hist' = history'
    <2>1. PlayerOK'
      BY DEF CapacityInv
    <2>2. (SavedIds(Durable) = HeldIds /\ Durable.hist = history)'
      BY <2>1, DurableIds, PTL
    <2> QED BY <2>2
  <1>3. 1..nextId \subseteq 1..nextId'
    BY DEF CapacityInv, PlayerOK
  <1>4. StoreWritten
    BY StoreWrites
  <1>5. CASE store' = store /\ (persistenceError' # "" \/ UNCHANGED persistenceError)
    BY <1>3, <1>5 DEF RemovalInv, IdsKnown, GoneFromStore, SavedIds, Members
  <1>6. CASE store' = Durable
    <2>1. SavedIds(store)' = HeldIds /\ Members(store.hist)' = Members(history)
      BY <1>1, <1>6 DEF SavedIds, Members
    <2> QED BY <1>3, <2>1 DEF RemovalInv, IdsKnown, Gone, GoneFromStore
  <1>7. CASE store' = Durable'
    <2>1. SavedIds(store)' = HeldIds' /\ Members(store.hist)' = Members(history)'
      BY <1>2, <1>7 DEF SavedIds, Members
    <2> QED BY <2>1 DEF Gone, GoneFromStore
  <1> QED BY <1>4, <1>5, <1>6, <1>7 DEF StoreWritten

\* The searches in flight.
LEMMA AskedBy == ASSUME NEW u \in Users, request[u] # <<>> PROVE IdSet(request[u][1].tracks) \subseteq Asked
  BY DEF Asked

\* A request of a member who has one.
LEMMA RequestOf ==
    ASSUME PlayerOK, NEW u \in Users, request[u] # <<>>
    PROVE  request[u][1] \in Request /\ request[u][1].ticket \in Nat /\ request[u][1].tracks \in Seq(Tracks)
  <1>1. request[u] \in Seq(Request) /\ Len(request[u]) \in Nat \ {0}
    BY EmptySeq DEF PlayerOK
  <1>2. request[u][1] \in Request
    BY <1>1, ElementOfSeq
  <1> QED BY <1>2 DEF Request

\* A step that asks and removes nothing, and holds no other ids.
LEMMA FewerKeep ==
    ASSUME CapacityInv, CapacityInv', RemovalInv, [Next]_vars, ~Restart, SavesWhileOpen',
           HeldIds' \subseteq HeldIds, Members(history)' \subseteq Members(history) \cup IdSet(current),
           UNCHANGED <<request, nextId, removed>>, generation <= generation'
    PROVE  RemovalInv'
  <1>1. Gone'
    BY DEF RemovalInv, Gone
  <1>2. Asked' = Asked
    BY DEF Asked
  <1>3. HeldIds' \subseteq 1..nextId' /\ Members(history)' \subseteq 1..nextId'
    BY DEF RemovalInv, IdsKnown, HeldIds
  <1>4. /\ SavedIds(store)' \subseteq 1..nextId' /\ Members(store.hist)' \subseteq 1..nextId'
        /\ GoneFromStore'
    BY <1>1, <1>3, StoreKeepsGone DEF CapacityInv, PlayerOK
  <1>5. IdsKnown'
    BY <1>2, <1>3, <1>4 DEF RemovalInv, IdsKnown
  <1>6. TicketsRevoked'
    <2> SUFFICES ASSUME NEW u \in Users, request[u] # <<>>
                 PROVE  /\ request[u][1].ticket <= generation'
                        /\ request[u][1].ticket = generation' => removed \cap IdSet(request[u][1].tracks) = {}
      BY DEF TicketsRevoked
    <2>1. request[u][1].ticket \in Nat /\ generation \in Nat /\ generation' \in Nat
      BY RequestOf DEF CapacityInv, PlayerOK
    <2> QED BY <2>1 DEF RemovalInv, TicketsRevoked
  <1> QED BY <1>1, <1>4, <1>5, <1>6 DEF RemovalInv

\* The commands that shorten or reorder the queue bring in no other ids.
LEMMA CommandsFewer ==
    ASSUME PlayerOK,
           \/ \E n \in 1..2 : SkipN(n)
           \/ \E k \in DOMAIN queue : Remove(k) \/ Jump(k) \/ \E j \in DOMAIN queue : Move(k, j)
           \/ Shuffle \/ Replay
    PROVE  /\ HeldIds' \subseteq HeldIds
           /\ UNCHANGED <<history, request, nextId, removed, generation, closed, closer, storeOn>>
  <1> USE DEF QueueCommandFrame, lifeVars
  <1>0. queue \in Seq(Tracks) /\ Len(queue) \in Nat /\ DOMAIN queue = 1..Len(queue)
    BY LenProperties DEF PlayerOK
  <1>1. ASSUME NEW q, IdSet(q) \subseteq IdSet(queue), Reordered(q)
        PROVE  HeldIds' \subseteq HeldIds
    <2>1. queue' = q /\ current' = current
      BY <1>1 DEF Reordered, trackVars
    <2> QED BY <1>1, <2>1 DEF HeldIds
  <1>2. ASSUME NEW q, IdSet(q) \subseteq HeldIds, GoesOnWith(q)
        PROVE  HeldIds' \subseteq HeldIds
    <2>1. queue' = q /\ current' = <<>>
      BY <1>2 DEF GoesOnWith, cancelTrack
    <2> QED BY <1>2, <2>1, IdsOfFew DEF HeldIds
  <1>3. ASSUME NEW q, Reordered(q) \/ GoesOnWith(q)
        PROVE  UNCHANGED <<history, request, nextId, removed, generation, closed, closer, storeOn>>
    BY <1>3 DEF Reordered, GoesOnWith
  <1>4. ASSUME NEW n \in 1..2, SkipN(n)
        PROVE  /\ HeldIds' \subseteq HeldIds
               /\ UNCHANGED <<history, request, nextId, removed, generation, closed, closer, storeOn>>
    <2> DEFINE skips == IF current # <<>> THEN 1 ELSE 0
               drop  == IF n - skips < Len(queue) THEN n - skips ELSE Len(queue)
    <2>1. drop \in 0..Len(queue)
      BY <1>0
    <2>2. queue' = SubSeq(queue, drop + 1, Len(queue))
      BY <1>4 DEF SkipN
    <2>3. current' = <<>> \/ current' = current
      BY <1>4 DEF SkipN, cancelTrack, trackVars
    <2> HIDE DEF drop
    <2>4. IdSet(queue') \subseteq IdSet(queue)
      <3>1. drop + 1 \in 1..(Len(queue) + 1) /\ Len(queue) \in 0..Len(queue)
        BY <1>0, <2>1
      <3> QED BY <1>0, <2>2, <3>1, IdsOfStretch
    <2>5. UNCHANGED <<history, request, nextId, removed, generation, closed, closer, storeOn>>
      BY <1>4 DEF SkipN
    <2> QED BY <2>3, <2>4, <2>5, IdsOfFew DEF HeldIds
  <1>5. ASSUME NEW k \in DOMAIN queue
        PROVE  /\ Without(queue, k) \in Seq(Tracks) /\ Len(Without(queue, k)) = Len(queue) - 1
               /\ IdSet(queue) = IdSet(Without(queue, k)) \cup {queue[k].id}
    BY <1>0, <1>5, WithoutOne, IdsWithout
  <1>6. ASSUME NEW k \in DOMAIN queue, Remove(k) \/ Jump(k)
        PROVE  /\ HeldIds' \subseteq HeldIds
               /\ UNCHANGED <<history, request, nextId, removed, generation, closed, closer, storeOn>>
    <2>1. CASE Remove(k)
      BY <1>1, <1>3, <1>5, <2>1 DEF Remove
    <2>2. CASE Jump(k)
      <3> DEFINE q == SubSeq(queue, k, Len(queue))
      <3>1. IdSet(q) \subseteq HeldIds
        BY <1>0, <1>6, IdsOfStretch DEF HeldIds
      <3>2. GoesOnWith(q)
        BY <2>2 DEF Jump
      <3> QED BY <1>2, <1>3, <3>1, <3>2
    <2> QED BY <1>6, <2>1, <2>2
  <1>7. ASSUME NEW i \in DOMAIN queue, NEW j \in DOMAIN queue, Move(i, j)
        PROVE  /\ HeldIds' \subseteq HeldIds
               /\ UNCHANGED <<history, request, nextId, removed, generation, closed, closer, storeOn>>
    <2> DEFINE rest == Without(queue, i)
               moved == SubSeq(rest, 1, j - 1) \o <<queue[i]>> \o SubSeq(rest, j, Len(rest))
    <2>1. rest \in Seq(Tracks) /\ Len(rest) = Len(queue) - 1 /\ IdSet(queue) = IdSet(rest) \cup {queue[i].id}
      BY <1>5
    <2>2. Reordered(moved)
      BY <1>7 DEF Move
    <2>3. queue[i] \in Tracks /\ j \in 1..(Len(rest) + 1)
      BY <1>0, <2>1, ElementOfSeq
    <2> HIDE DEF rest
    <2>4. IdSet(moved) = IdSet(queue)
      BY <2>1, <2>3, IdsInserted
    <2> QED BY <1>1, <1>3, <2>2, <2>4
  <1>8. ASSUME Shuffle
        PROVE  /\ HeldIds' \subseteq HeldIds
               /\ UNCHANGED <<history, request, nextId, removed, generation, closed, closer, storeOn>>
    <2>1. PICK p \in [DOMAIN queue -> DOMAIN queue] : Reordered([k \in DOMAIN queue |-> queue[p[k]]])
      BY <1>8 DEF Shuffle
    <2>2. IdSet([k \in DOMAIN queue |-> queue[p[k]]]) \subseteq IdSet(queue)
      BY <2>1 DEF IdSet
    <2> QED BY <1>1, <1>3, <2>1, <2>2
  <1>9. ASSUME Replay
        PROVE  /\ HeldIds' \subseteq HeldIds
               /\ UNCHANGED <<history, request, nextId, removed, generation, closed, closer, storeOn>>
    <2> DEFINE t == Track(current[1].id, 0)
    <2>1. t \in Tracks /\ current # <<>> /\ t.id = current[1].id
      BY <1>9, CurrentTrack DEF Replay, Track
    <2>2. GoesOnWith(<<t>> \o queue)
      BY <1>9 DEF Replay
    <2> HIDE DEF t
    <2>3. <<t>> \in Seq(Tracks) /\ IdSet(<<t>>) = IdSet(current)
      BY <2>1, ShortLists, IdsOfFew, IdsOfCurrent
    <2>4. IdSet(<<t>> \o queue) \subseteq HeldIds
      BY <1>0, <2>3, IdsOfJoin DEF HeldIds
    <2> QED BY <1>2, <1>3, <2>2, <2>4
  <1> QED BY <1>4, <1>6, <1>7, <1>8, <1>9

\* So do the steps of a playback; what starts is added to the history.
LEMMA PlaybackFewer ==
    ASSUME PlayerOK, Select \/ EndAttempt \/ ConfirmFrame \/ announceStart
    PROVE  /\ HeldIds' \subseteq HeldIds /\ Members(history)' \subseteq Members(history) \cup IdSet(current)
           /\ UNCHANGED <<request, nextId, removed, generation, closed, closer, storeOn>>
  <1> USE DEF lifeVars, reqVars
  <1>0. queue \in Seq(Tracks) /\ Len(queue) \in Nat /\ DOMAIN queue = 1..Len(queue)
    BY LenProperties DEF PlayerOK
  <1>1. UNCHANGED <<request, nextId, removed, generation, closed, closer, storeOn>>
    BY DEF Select, EndAttempt, ConfirmFrame, announceStart, RunFrame, AttemptFrame
  <1>2. CASE Select
    <2>1. queue # <<>> /\ current' = <<queue[1]>> /\ queue' = Tail(queue) /\ history' = history
      BY <1>2 DEF Select, Reason
    <2>2. Len(queue) \in Nat \ {0} /\ 1 \in DOMAIN queue
      BY <1>0, <2>1, EmptySeq
    <2>3. IdSet(current') = {queue[1].id} /\ queue[1].id \in IdSet(queue)
      BY <1>0, <2>1, <2>2, IdsOfFew
    <2>4. IdSet(queue') \subseteq IdSet(queue)
      <3>1. /\ Tail(queue) \in Seq(Tracks) /\ DOMAIN Tail(queue) = 1..(Len(queue) - 1)
            /\ \A i \in 1..(Len(queue) - 1) : Tail(queue)[i] = queue[i + 1]
        BY <1>0, <2>1, HeadTailProperties
      <3> QED BY <1>0, <2>1, <2>2, <3>1 DEF IdSet
    <2> QED BY <1>1, <2>1, <2>3, <2>4 DEF HeldIds, Members
  <1>3. CASE EndAttempt
    <2>1. current' = <<>> /\ history' = history
      BY <1>3 DEF EndAttempt
    <2>2. \/ queue' = queue
          \/ current # <<>> /\ queue' \in {Kept, <<Retained>> \o queue, Looped}
      BY <1>3 DEF EndAttempt, TransportFailure, ExpectedCancel, ProviderFailure, NetworkRetry, ResumeFailed, Advances
    <2>3. ASSUME current # <<>>, NEW t \in Tracks, t.id = current[1].id
          PROVE  IdSet(<<t>> \o queue) = HeldIds /\ IdSet(queue \o <<t>>) = HeldIds
      <3>1. <<t>> \in Seq(Tracks) /\ IdSet(<<t>>) = IdSet(current)
        BY <2>3, ShortLists, IdsOfFew, IdsOfCurrent
      <3> DEFINE e == <<t>>
      <3> HIDE DEF e
      <3>2. IdSet(e \o queue) = IdSet(e) \cup IdSet(queue) /\ IdSet(queue \o e) = IdSet(queue) \cup IdSet(e)
        BY <1>0, <3>1, IdsOfJoin DEF e
      <3>3. IdSet(e \o queue) = HeldIds /\ IdSet(queue \o e) = HeldIds
        BY <3>1, <3>2 DEF HeldIds, e
      <3> QED BY <3>3 DEF e
    <2>4. Retained.id = current[1].id /\ Track(current[1].id, 0).id = current[1].id
      BY DEF Retained, Track
    <2>5. ASSUME current # <<>>, queue' \in {Kept, <<Retained>> \o queue, Looped} PROVE IdSet(queue') \subseteq HeldIds
      <3>1. IdSet(<<Retained>> \o queue) = HeldIds
        BY <2>3, <2>4, <2>5, CurrentTrack
      <3>2. IdSet(<<Track(current[1].id, 0)>> \o queue) = HeldIds /\ IdSet(queue \o <<Track(current[1].id, 0)>>) = HeldIds
        BY <2>3, <2>4, <2>5, CurrentTrack
      <3>3. IdSet(queue) \subseteq HeldIds
        BY DEF HeldIds
      <3> QED BY <2>5, <3>1, <3>2, <3>3 DEF Kept, Looped
    <2>6. IdSet(queue') \subseteq HeldIds
      BY <2>2, <2>5 DEF HeldIds
    <2> QED BY <1>1, <2>1, <2>6, IdsOfFew DEF HeldIds, Members
  <1>4. CASE ConfirmFrame
    BY <1>1, <1>4 DEF ConfirmFrame, AttemptFrame, HeldIds, Members
  <1>5. CASE announceStart
    <2>1. UNCHANGED <<queue, current>>
      BY <1>5 DEF announceStart, AttemptFrame
    <2>2. Members(history)' \subseteq Members(history) \cup IdSet(current)
      <3>1. CASE history' = history
        BY <3>1 DEF Members
      <3>2. CASE current # <<>> /\ history' = Recent(Append(history, current[1].id))
        <4> DEFINE h == Append(history, current[1].id)
                   n == Len(history) + 1
        <4>1. history \in Seq(1..MaxTracks) /\ Len(history) \in Nat /\ DOMAIN history = 1..Len(history)
          BY LenProperties DEF PlayerOK
        <4>2. /\ current[1].id \in 1..MaxTracks /\ IdSet(current) = {current[1].id}
          BY <3>2, CurrentTrack, IdsOfCurrent DEF Tracks
        <4>3. /\ h \in Seq(1..MaxTracks) /\ Len(h) = n /\ DOMAIN h = 1..n
              /\ \A i \in 1..n : h[i] \in Members(history) \cup IdSet(current)
          <5>1. h \in Seq(1..MaxTracks) /\ Len(h) = n /\ h[n] = current[1].id /\ \A i \in 1..Len(history) : h[i] = history[i]
            BY <4>1, <4>2, AppendProperties
          <5> HIDE DEF h
          <5>2. \A i \in 1..n : i = n \/ i \in 1..Len(history)
            BY <4>1
          <5>3. \A i \in 1..n : h[i] \in Members(history) \cup IdSet(current)
            <6> TAKE i \in 1..n
            <6>1. CASE i = n
              BY <4>2, <5>1, <6>1
            <6>2. CASE i \in 1..Len(history)
              BY <4>1, <5>1, <6>2 DEF Members
            <6> QED BY <5>2, <6>1, <6>2
          <5>4. DOMAIN h = 1..n
            BY <5>1, LenProperties
          <5> QED BY <5>1, <5>3, <5>4
        <4> HIDE DEF h
        <4>4. n \in Nat /\ HistoryLimit \in Nat \ {0}
          BY <4>1, PlayerAssumption DEF PlayerAssumption
        <4>5. CASE Len(h) > HistoryLimit
          <5> DEFINE q == SubSeq(h, Len(h) - HistoryLimit + 1, Len(h))
          <5>1. DOMAIN q = 1..HistoryLimit /\ \A i \in 1..HistoryLimit : q[i] = h[n - HistoryLimit + i]
            BY <4>3, <4>4, <4>5
          <5>2. \A i \in 1..HistoryLimit : n - HistoryLimit + i \in 1..n
            BY <4>3, <4>4, <4>5
          <5>3. history' = q
            BY <3>2, <4>5 DEF Recent, h
          <5> HIDE DEF q
          <5> QED BY <4>3, <5>1, <5>2, <5>3 DEF Members
        <4>6. CASE ~(Len(h) > HistoryLimit)
          BY <3>2, <4>3, <4>6 DEF Recent, Members, h
        <4> QED BY <4>5, <4>6
      <3> QED BY <1>5, <3>1, <3>2 DEF announceStart
    <2> QED BY <1>1, <2>1, <2>2 DEF HeldIds
  <1> QED BY <1>2, <1>3, <1>4, <1>5

\* The steps that leave the lists alone, an Attach included.
LEMMA RestFewer ==
    ASSUME PlayerOK, Attach \/ UNCHANGED keptVars
    PROVE  /\ HeldIds' \subseteq HeldIds /\ Members(history)' \subseteq Members(history) \cup IdSet(current)
           /\ UNCHANGED <<request, nextId, removed>> /\ generation <= generation'
  <1>1. UNCHANGED <<queue, current, history, request, nextId, removed>> /\ generation <= generation'
    BY DEF Attach, keptVars, trackVars, reqVars, PlayerOK
  <1> QED BY <1>1 DEF HeldIds, Members

\* When the process is open it saves.
LEMMA SavesStep == SavesWhileOpen /\ [Next]_vars => SavesWhileOpen'
  <1> SUFFICES ASSUME SavesWhileOpen, [Next]_vars PROVE SavesWhileOpen'
    OBVIOUS
  <1> USE DEF SavesWhileOpen, lifeVars
  <1>1. ASSUME NEW q, Reordered(q) \/ GoesOnWith(q) PROVE UNCHANGED lifeVars
    BY <1>1 DEF Reordered, GoesOnWith, QueueCommandFrame
  <1>2. ASSUME Commands, ~Shutdown PROVE UNCHANGED lifeVars
    <2>1. ASSUME NEW u \in Users, EnqueueMany(u) \/ \E n \in 1..MaxBatch : Ask(u, n) PROVE UNCHANGED lifeVars
      BY <2>1 DEF EnqueueMany, Ask
    <2>2. CASE Stop \/ Clear \/ Leave \/ Attach \/ Previous
      BY <2>2 DEF Stop, Clear, Leave, Attach, Previous, QueueCommandFrame
    <2>3. ASSUME NEW n \in 1..2, SkipN(n) PROVE UNCHANGED lifeVars
      BY <2>3 DEF SkipN, QueueCommandFrame
    <2>4. ASSUME NEW k \in DOMAIN queue, Remove(k) \/ Jump(k) PROVE UNCHANGED lifeVars
      BY <1>1, <2>4 DEF Remove, Jump
    <2>5. ASSUME NEW k \in DOMAIN queue, NEW j \in DOMAIN queue, Move(k, j) PROVE UNCHANGED lifeVars
      BY <1>1, <2>5 DEF Move
    <2>6. CASE Shuffle \/ Replay
      BY <1>1, <2>6 DEF Shuffle, Replay
    <2>7. ASSUME NEW m \in {"off", "track", "queue"}, SetLoop(m) PROVE UNCHANGED lifeVars
      BY <2>7 DEF SetLoop, QueueCommandFrame
    <2>8. ASSUME NEW on \in BOOLEAN, SetPaused(on) PROVE UNCHANGED lifeVars
      BY <2>8 DEF SetPaused, PauseFrame
    <2> QED BY <1>2, <2>1, <2>2, <2>3, <2>4, <2>5, <2>6, <2>7, <2>8 DEF Commands
  <1>3. CASE Shutdown
    BY <1>3 DEF Shutdown
  <1>4. CASE Close \/ CloseLeaves \/ CloseReturns
    BY <1>4 DEF Close, CloseLeaves, CloseReturns
  <1>5. CASE LeaveCloses \/ RetryPersistence \/ Events
    BY <1>5 DEF LeaveCloses, RetryPersistence, Events, SuspendVoice, SuspendProvider
  <1>6. ASSUME NEW p, Goto(p) PROVE UNCHANGED lifeVars
    BY <1>6 DEF Goto, RunFrame
  <1>7. CASE Clocks \/ Watchdog
    BY <1>6, <1>7 DEF Clocks, BackoffElapses, ProviderElapses, Watchdog, RunFrame
  <1>8. CASE Scheduler
    <2>1. CASE RunTop \/ WaitProvider \/ Defer \/ SchedulerWait \/ Wakeup \/ WaitCanceled
      BY <1>6, <2>1 DEF RunTop, WaitProvider, Defer, SchedulerWait, Wakeup, WaitCanceled
    <2>2. CASE RecoverBegins \/ RecoverAttempt \/ \E ok \in BOOLEAN : RecoverEnds(ok)
      BY <1>6, <2>2 DEF RecoverBegins, RecoverAttempt, RecoverEnds, RunFrame
    <2>3. CASE Select \/ EndAttempt
      BY <2>3 DEF Select, EndAttempt, RunFrame
    <2> QED BY <1>8, <2>1, <2>2, <2>3 DEF Scheduler
  <1>9. CASE Attempt
    BY <1>9 DEF Attempt, ConfirmFrame, SilenceFrame, announceStart, PlayReturns, AttemptFrame
  <1>10. CASE Restart
    BY <1>10 DEF Restart
  <1>11. CASE UNCHANGED vars
    BY <1>11 DEF vars
  <1> QED
    BY <1>2, <1>3, <1>4, <1>5, <1>7, <1>8, <1>9, <1>10, <1>11 DEF Next, Background, AtRest

\* A new request has new ids; an old one is enqueued with the current ticket only.
LEMMA RequestsKeepGone ==
    ASSUME CapacityInv, CapacityInv', RemovalInv, SavesWhileOpen', [Next]_vars, ~Restart, NEW u \in Users
    PROVE  /\ \A n \in 1..MaxBatch : Ask(u, n) => RemovalInv'
           /\ EnqueueMany(u) => RemovalInv'
  <1>0. PlayerOK /\ PlayerOK' /\ nextId \in Nat /\ nextId' \in Nat /\ request \in [Users -> Seq(Request)]
    BY DEF CapacityInv, PlayerOK
  <1>1. ASSUME NEW n \in 1..MaxBatch, Ask(u, n) PROVE RemovalInv'
    <2> DEFINE ts == [k \in 1..n |-> Track(nextId + k, 0)]
    <2>1. /\ request' = [request EXCEPT ![u] = <<[ticket |-> generation, tracks |-> ts]>>] /\ nextId' = nextId + n
          /\ UNCHANGED <<queue, history, generation, current, store, persistenceError, removed>>
      BY <1>1 DEF Ask, queueVars, trackVars, storeVars
    <2>2. IdSet(ts) \subseteq 1..nextId' /\ IdSet(ts) \cap 1..nextId = {}
      BY <1>0, <2>1 DEF IdSet, Track
    <2>3. /\ request'[u] # <<>> /\ request'[u][1].ticket = generation /\ request'[u][1].tracks = ts
          /\ \A v \in Users \ {u} : request'[v] = request[v]
      BY <1>0, <2>1
    <2> HIDE DEF ts
    <2>4. 1..nextId \subseteq 1..nextId'
      BY <1>0, <2>1
    <2>5. Asked' \subseteq 1..nextId'
      <3> SUFFICES ASSUME NEW v \in Users, request'[v] # <<>> PROVE IdSet(request'[v][1].tracks) \subseteq 1..nextId'
        BY DEF Asked
      <3>1. CASE v = u
        BY <2>2, <2>3, <3>1
      <3>2. CASE v # u
        BY <2>3, <2>4, <3>2, AskedBy DEF RemovalInv, IdsKnown
      <3> QED BY <3>1, <3>2
    <2>6. IdsKnown'
      BY <2>1, <2>4, <2>5 DEF RemovalInv, IdsKnown, HeldIds, SavedIds, Members
    <2>7. TicketsRevoked'
      <3> SUFFICES ASSUME NEW v \in Users, request'[v] # <<>>
                   PROVE  /\ request'[v][1].ticket <= generation'
                          /\ request'[v][1].ticket = generation' => removed' \cap IdSet(request'[v][1].tracks) = {}
        BY DEF TicketsRevoked
      <3>1. CASE v = u
        BY <1>0, <2>1, <2>2, <2>3, <3>1 DEF RemovalInv, IdsKnown, PlayerOK
      <3>2. CASE v # u
        BY <2>1, <2>3, <3>2 DEF RemovalInv, TicketsRevoked
      <3> QED BY <3>1, <3>2
    <2>8. Gone' /\ GoneFromStore'
      BY <2>1 DEF RemovalInv, Gone, GoneFromStore, HeldIds, SavedIds
    <2> QED BY <2>6, <2>7, <2>8 DEF RemovalInv
  <1>2. ASSUME EnqueueMany(u) PROVE RemovalInv'
    <2> DEFINE r == request[u][1]
    <2>1. /\ request[u] # <<>> /\ request' = [request EXCEPT ![u] = <<>>]
          /\ UNCHANGED <<current, history, generation, nextId, removed>>
      BY <1>2 DEF EnqueueMany, trackVars
    <2>2. \A v \in Users : request'[v] # <<>> => request'[v] = request[v] /\ request[v] # <<>>
      BY <1>0, <2>1
    <2>3. r.tracks \in Seq(Tracks) /\ IdSet(r.tracks) \subseteq Asked
      BY <1>0, <2>1, RequestOf, AskedBy
    <2>4. /\ HeldIds' \subseteq HeldIds \cup IdSet(r.tracks)
          /\ r.ticket # generation => HeldIds' \subseteq HeldIds
      <3>1. CASE Accepted(r)
        <4>1. queue' = queue \o r.tracks /\ r.ticket = generation
          BY <1>2, <3>1 DEF EnqueueMany, Accepted
        <4>2. queue \in Seq(Tracks)
          BY <1>0 DEF PlayerOK
        <4> HIDE DEF r
        <4>3. IdSet(queue') = IdSet(queue) \cup IdSet(r.tracks)
          BY <2>3, <4>1, <4>2, IdsOfJoin
        <4> QED BY <2>1, <4>1, <4>3 DEF HeldIds
      <3>2. CASE ~Accepted(r)
        BY <1>2, <2>1, <3>2 DEF EnqueueMany, HeldIds
      <3> QED BY <3>1, <3>2
    <2>5. Gone'
      BY <2>1, <2>4 DEF RemovalInv, Gone, TicketsRevoked
    <2> HIDE DEF r
    <2>6. HeldIds' \subseteq 1..nextId' /\ Members(history)' \subseteq 1..nextId'
      BY <2>1, <2>3, <2>4 DEF RemovalInv, IdsKnown, Members
    <2>7. /\ SavedIds(store)' \subseteq 1..nextId' /\ Members(store.hist)' \subseteq 1..nextId'
          /\ GoneFromStore'
      BY <1>0, <2>1, <2>5, <2>6, StoreKeepsGone
    <2>8. Asked' \subseteq Asked
      BY <2>2 DEF Asked
    <2>9. IdsKnown'
      BY <2>1, <2>6, <2>7, <2>8 DEF RemovalInv, IdsKnown
    <2>10. TicketsRevoked'
      BY <2>1, <2>2 DEF RemovalInv, TicketsRevoked
    <2> QED BY <2>5, <2>7, <2>9, <2>10 DEF RemovalInv
  <1> QED BY <1>1, <1>2

\* /stop, /clear and /leave: what they remove is revoked, and saved or shown as not saved.
LEMMA EndingsKeepGone ==
    ASSUME CapacityInv, CapacityInv', RemovalInv, SavesWhileOpen', [Next]_vars, ~Restart,
           Stop \/ Clear \/ Leave \/ CloseLeaves
    PROVE  RemovalInv'
  <1>0. /\ PlayerOK /\ PlayerOK' /\ generation \in Nat /\ generation' = generation + 1
        /\ UNCHANGED <<history, request, nextId>> /\ queue' = <<>> /\ (current' = <<>> \/ current' = current)
    BY DEF CapacityInv, PlayerOK, Stop, Clear, Leave, CloseLeaves, Detach, EndSession, cancelTrack, revokeTickets, trackVars
  <1>1. HeldIds' \subseteq HeldIds /\ HeldIds' = IdSet(current')
    BY <1>0, IdsOfFew DEF HeldIds
  <1>2. CASE closed
    <2>1. removed' = removed
      BY <1>2 DEF Stop, Clear, Leave, CloseLeaves, Detach, EndSession
    <2> QED BY <1>0, <1>1, <2>1, FewerKeep DEF Members
  <1>3. CASE ~closed
    <2>1. storeOn /\ ~CloseLeaves /\ UNCHANGED <<storeOn, closed>>
      BY <1>3 DEF RemovalInv, SavesWhileOpen, CloseLeaves, Stop, Clear, Leave, lifeVars
    <2>2. Persist
      BY DEF Stop, Clear, Leave, CloseLeaves
    <2>3. store' = Durable' \/ (store' = store /\ persistenceError' # "")
      BY <1>3, <2>1, <2>2 DEF Persist, SaveFails
    <2>4. /\ removed' \cap HeldIds' = {}
          /\ removed' \subseteq removed \cup HeldIds \cup Asked
      <3>1. CASE Clear
        <4>1. removed' = (removed \cup IdSet(queue) \cup Asked) \ IdSet(current) /\ current' = current
          BY <1>3, <3>1 DEF Clear, trackVars
        <4> QED BY <1>1, <4>1 DEF HeldIds
      <3>2. CASE Stop \/ Leave
        <4>1. removed' = removed \cup IdSet(Held) \cup Asked /\ current' = <<>>
          BY <1>3, <3>2 DEF Stop, Leave, Detach, EndSession, cancelTrack
        <4> QED BY <1>0, <1>1, <4>1, HeldIsIds, IdsOfFew
      <3> QED BY <2>1, <3>1, <3>2
    <2>5. removed' \subseteq 1..nextId' /\ HeldIds' \subseteq 1..nextId' /\ Asked' \subseteq 1..nextId'
      BY <1>0, <1>1, <2>4 DEF RemovalInv, IdsKnown, Asked
    <2>6. Members(history)' \subseteq 1..nextId'
      BY <1>0 DEF RemovalInv, IdsKnown, Members
    <2>7. /\ SavedIds(store)' \subseteq 1..nextId' /\ Members(store.hist)' \subseteq 1..nextId'
          /\ GoneFromStore'
      <3>1. CASE store' = store /\ persistenceError' # ""
        BY <1>0, <3>1 DEF RemovalInv, IdsKnown, SavedIds, Members, GoneFromStore
      <3>2. CASE store' = Durable'
        <4>1. (SavedIds(Durable) = HeldIds /\ Durable.hist = history)'
          BY <1>0, DurableIds, PTL
        <4>2. SavedIds(store)' = HeldIds' /\ Members(store.hist)' = Members(history)'
          BY <3>2, <4>1 DEF SavedIds, Members
        <4> QED BY <2>4, <2>5, <2>6, <4>2 DEF GoneFromStore
      <3> QED BY <2>3, <3>1, <3>2
    <2>8. IdsKnown'
      BY <2>5, <2>6, <2>7 DEF IdsKnown
    <2>9. TicketsRevoked'
      <3> SUFFICES ASSUME NEW v \in Users, request[v] # <<>> PROVE request[v][1].ticket < generation'
        BY <1>0, RequestOf DEF TicketsRevoked
      <3>1. request[v][1].ticket <= generation /\ request[v][1].ticket \in Nat
        BY <1>0, RequestOf DEF RemovalInv, TicketsRevoked
      <3> QED BY <1>0, <3>1
    <2>10. Gone'
      BY <2>4 DEF Gone
    <2> QED BY <2>7, <2>8, <2>9, <2>10 DEF RemovalInv
  <1> QED BY <1>2, <1>3

\* /previous asks for a recording again: it is not removed any more.
LEMMA PreviousKeepsGone ==
    ASSUME CapacityInv, CapacityInv', RemovalInv, SavesWhileOpen', [Next]_vars, ~Restart, Previous
    PROVE  RemovalInv'
  <1> DEFINE n == IF current # <<>> /\ started THEN Len(history) - 1 ELSE Len(history)
             t == Track(history[n], 0)
  <1>0. PlayerOK /\ PlayerOK' /\ queue \in Seq(Tracks) /\ current \in Seq(Tracks)
    BY DEF CapacityInv, PlayerOK
  <1>1. /\ history \in Seq(1..MaxTracks) /\ Len(history) \in Nat /\ DOMAIN history = 1..Len(history)
        /\ n \in 1..Len(history)
    BY LenProperties DEF CapacityInv, PlayerOK, Previous
  <1>2. t \in Tracks /\ t.id = history[n]
    <2>1. history[n] \in 1..MaxTracks /\ 0 \in 0..Duration
      BY <1>1, ElementOfSeq, PlayerAssumption DEF PlayerAssumption
    <2> QED BY <2>1 DEF Track, Tracks
  <1>3. /\ queue' = <<t>> \o current \o queue /\ current' = <<>> /\ history' = SubSeq(history, 1, n - 1)
        /\ removed' = removed \ {history[n]} /\ UNCHANGED <<generation, request, nextId>>
    BY DEF Previous, cancelTrack, QueueCommandFrame
  <1> HIDE DEF t, n
  <1>4. HeldIds' = HeldIds \cup {history[n]}
    <2> DEFINE e == <<t>>
    <2>1. e \in Seq(Tracks) /\ IdSet(e) = {history[n]}
      BY <1>2, ShortLists, IdsOfFew
    <2> HIDE DEF e
    <2>2. e \o current \in Seq(Tracks) /\ IdSet(e \o current) = IdSet(e) \cup IdSet(current)
      BY <1>0, <2>1, IdsOfJoin, ConcatProperties
    <2>3. IdSet(e \o current \o queue) = IdSet(e \o current) \cup IdSet(queue)
      BY <1>0, <2>2, IdsOfJoin
    <2>4. IdSet(queue') = IdSet(e \o current \o queue) /\ IdSet(current') = {}
      BY <1>3, IdsOfFew DEF e
    <2> QED BY <2>1, <2>2, <2>3, <2>4 DEF HeldIds
  <1>5. Gone'
    BY <1>3, <1>4 DEF RemovalInv, Gone
  <1>6. Members(history)' \subseteq Members(history)
    <2>1. DOMAIN history' = 1..(n - 1) /\ \A i \in 1..(n - 1) : history'[i] = history[i] /\ i \in DOMAIN history
      BY <1>1, <1>3
    <2> QED BY <2>1 DEF Members
  <1>7. history[n] \in Members(history)
    BY <1>1 DEF Members
  <1>8. HeldIds' \subseteq 1..nextId' /\ Members(history)' \subseteq 1..nextId' /\ removed' \subseteq 1..nextId' /\ Asked' \subseteq 1..nextId'
    BY <1>3, <1>4, <1>6, <1>7 DEF RemovalInv, IdsKnown, Asked
  <1>9. /\ SavedIds(store)' \subseteq 1..nextId' /\ Members(store.hist)' \subseteq 1..nextId'
        /\ GoneFromStore'
    <2>1. nextId' \in Nat /\ nextId <= nextId' /\ removed' \subseteq removed
      BY <1>0, <1>3 DEF PlayerOK
    <2> QED BY <1>5, <1>8, <2>1, StoreKeepsGone
  <1>10. IdsKnown'
    BY <1>8, <1>9 DEF IdsKnown
  <1>11. TicketsRevoked'
    BY <1>3 DEF RemovalInv, TicketsRevoked
  <1> QED BY <1>5, <1>9, <1>10, <1>11 DEF RemovalInv

\* A restart holds what the snapshot has, and remembers the removals it was told of.
LEMMA RestartKeepsGone ==
    ASSUME CapacityInv, CapacityInv', RemovalInv, SavesWhileOpen', Restart
    PROVE  RemovalInv'
  <1>1. /\ queue' = RestoredQueue(store) /\ history' = RestoredHistory(store) /\ current' = <<>>
        /\ request' = [u \in Users |-> <<>>] /\ UNCHANGED <<store, nextId>>
        /\ removed' \subseteq removed
        /\ persistenceError # "" => removed' = {}
    BY DEF Restart
  <1>2. /\ store.q \in Seq(Tracks) /\ store.cur \in Seq(Tracks)
        /\ store.hist \in Seq(1..MaxTracks) /\ Len(store.hist) \in Nat /\ DOMAIN store.hist = 1..Len(store.hist)
    BY LenProperties DEF CapacityInv, SnapshotOK
  <1>3. HeldIds' \subseteq SavedIds(store)
    <2> DEFINE c == IF store.cur # <<>> /\ ~advanceInterrupted(store.cur[1]) THEN store.cur ELSE <<>>
    <2>1. c \in Seq(Tracks) /\ IdSet(c) \subseteq IdSet(store.cur)
      BY <1>2, ShortLists, IdsOfFew
    <2>2. queue' = c \o store.q
      BY <1>1 DEF RestoredQueue
    <2> HIDE DEF c
    <2>3. IdSet(queue') = IdSet(c) \cup IdSet(store.q)
      BY <1>2, <2>1, <2>2, IdsOfJoin
    <2> QED BY <1>1, <2>1, <2>3, IdsOfFew DEF HeldIds, SavedIds
  <1>4. Members(history)' \subseteq Members(store.hist)
    <2>1. CASE history' = store.hist
      BY <2>1 DEF Members
    <2>2. CASE store.hist # <<>> /\ history' = SubSeq(store.hist, 1, Len(store.hist) - 1)
      <3>1. Len(store.hist) \in Nat \ {0}
        BY <1>2, <2>2, EmptySeq
      <3>2. /\ DOMAIN history' = 1..(Len(store.hist) - 1)
            /\ \A i \in 1..(Len(store.hist) - 1) : history'[i] = store.hist[i] /\ i \in DOMAIN store.hist
        BY <1>2, <2>2, <3>1
      <3> QED BY <3>2 DEF Members
    <2> QED BY <1>1, <2>1, <2>2 DEF RestoredHistory
  <1>5. \A u \in Users : request'[u] = <<>>
    BY <1>1
  <1>6. Asked' = {}
    BY <1>5 DEF Asked
  <1>7. /\ SavedIds(store)' = SavedIds(store) /\ Members(store.hist)' = Members(store.hist)
    BY <1>1 DEF SavedIds, Members
  <1>8. IdsKnown'
    BY <1>1, <1>3, <1>4, <1>6, <1>7 DEF RemovalInv, IdsKnown
  <1>9. removed' \cap SavedIds(store) = {}
    BY <1>1 DEF RemovalInv, GoneFromStore
  <1>10. Gone' /\ GoneFromStore' /\ TicketsRevoked'
    BY <1>3, <1>5, <1>7, <1>9 DEF Gone, GoneFromStore, TicketsRevoked
  <1> QED BY <1>8, <1>10 DEF RemovalInv

\* The initial state.
LEMMA RemovalInit == Init => RemovalInv
  <1> SUFFICES ASSUME Init PROVE RemovalInv
    OBVIOUS
  <1>1. /\ queue = <<>> /\ current = <<>> /\ history = <<>> /\ removed = {} /\ closer = "none" /\ storeOn
        /\ \A u \in Users : request[u] = <<>>
    BY DEF Init
  <1>2. store.q = <<>> /\ store.cur = <<>> /\ store.hist = <<>>
    BY DEF Init, Empty
  <1>3. HeldIds = {} /\ SavedIds(store) = {} /\ Members(history) = {} /\ Members(store.hist) = {} /\ Asked = {}
    BY <1>1, <1>2, IdsOfFew DEF HeldIds, SavedIds, Members, Asked
  <1> QED BY <1>1, <1>3 DEF RemovalInv, SavesWhileOpen, IdsKnown, TicketsRevoked, Gone, GoneFromStore

\* Every step keeps it.
LEMMA RemovalStep == CapacityInv /\ CapacityInv' /\ RemovalInv /\ [Next]_vars => RemovalInv'
  <1> SUFFICES ASSUME CapacityInv, CapacityInv', RemovalInv, [Next]_vars PROVE RemovalInv'
    OBVIOUS
  <1>1. SavesWhileOpen' /\ PlayerOK
    BY SavesStep DEF RemovalInv, CapacityInv
  <1>2. CASE Restart
    BY <1>1, <1>2, RestartKeepsGone
  <1>3. ASSUME ~Restart, UNCHANGED keptVars \/ Attach PROVE RemovalInv'
    BY <1>1, <1>3, RestFewer, FewerKeep
  <1>4. ASSUME ~Restart, Select \/ EndAttempt \/ ConfirmFrame \/ announceStart PROVE RemovalInv'
    BY <1>1, <1>4, PlaybackFewer, FewerKeep DEF PlayerOK
  <1>5. ASSUME ~Restart,
               \/ \E n \in 1..2 : SkipN(n)
               \/ \E k \in DOMAIN queue : Remove(k) \/ Jump(k) \/ \E j \in DOMAIN queue : Move(k, j)
               \/ Shuffle \/ Replay
        PROVE  RemovalInv'
    <2>1. /\ HeldIds' \subseteq HeldIds
          /\ UNCHANGED <<history, request, nextId, removed, generation, closed, closer, storeOn>>
      BY <1>1, <1>5, CommandsFewer
    <2> QED BY <1>1, <1>5, <2>1, FewerKeep DEF PlayerOK, Members
  <1>6. ASSUME ~Restart, Commands PROVE RemovalInv'
    BY <1>1, <1>3, <1>5, <1>6, RequestsKeepGone, EndingsKeepGone, PreviousKeepsGone, QuietKeepsLists DEF Commands
  <1>7. ASSUME ~Restart, Background \/ Events \/ Clocks \/ Watchdog PROVE RemovalInv'
    BY <1>1, <1>3, <1>7, EndingsKeepGone, QuietKeepsLists DEF Background, Events, Clocks
  <1>8. ASSUME ~Restart, Scheduler PROVE RemovalInv'
    BY <1>3, <1>4, <1>8, QuietKeepsLists DEF Scheduler
  <1>9. ASSUME ~Restart, Attempt PROVE RemovalInv'
    BY <1>3, <1>4, <1>9, QuietKeepsLists DEF Attempt
  <1>10. ASSUME ~Restart, UNCHANGED vars PROVE RemovalInv'
    BY <1>3, <1>10, QuietKeepsLists
  <1> QED BY <1>2, <1>6, <1>7, <1>8, <1>9, <1>10 DEF Next, AtRest

\* What a /stop, /clear or /leave removed never comes back, from a search in flight, the
\* stream being torn down, a retry or the snapshot after a crash: revokeTickets, the saves
\* and the error that is shown when one fails suffice for it.
THEOREM NothingComesBack == Spec => []NoResurrection
  <1>1. CapacityInv /\ RemovalInv => NoResurrection
    BY HeldIsIds DEF CapacityInv, RemovalInv, Gone, NoResurrection
  <1>2. Spec => []CapacityInv
    BY CapacityInit, CapacityStep, PTL DEF Spec
  <1>3. Spec => []RemovalInv
    BY <1>2, RemovalInit, RemovalStep, PTL DEF Spec
  <1> QED BY <1>1, <1>2, <1>3, PTL

-----------------------------------------------------------------------------
(***************************************************************************)
(* The snapshot.  What a crash would restore is not enough to know: the    *)
(* invariant says which of three saves the snapshot is, the one without a  *)
(* current track, the one from before a fresh head was taken, or one made  *)
(* while the track was played, and how far it is behind the audio.         *)
(***************************************************************************)
\* The snapshot was reported as saved, and is going to be used.
Clean == storeOn /\ ~closed /\ persistenceError \in {"", "checkpoint"}

\* The last checkpoint, done or tried, is less than five seconds behind.
CheckpointNear == checkpoint \in 0..confirmed /\ confirmed - checkpoint < FiveSeconds

Mirrored ==
    \/ current = <<>> /\ RestoredQueue(store) = queue
    \/ /\ current # <<>> /\ RestoredQueue(store) = current \o queue /\ current[1].off = 0
       /\ persistenceError = "" => checkpoint = 0
    \/ /\ current # <<>> /\ store.cur # <<>> /\ store.q = queue
       /\ store.cur[1].id = current[1].id /\ store.cur[1].off <= confirmed
       /\ persistenceError = "" => checkpoint <= store.cur[1].off

SnapshotInv == CheckpointNear /\ (Clean => store.loop = loop /\ Mirrored)

\* What SnapshotInv is about.
savedVars == <<queue, current, loop, confirmed, checkpoint, store, persistenceError>>

\* A snapshot of the present state.
LEMMA SavedMirrors ==
    PlayerOK /\ CheckpointNear /\ store = Durable => store.loop = loop /\ Mirrored
  <1> SUFFICES ASSUME PlayerOK, CheckpointNear, store = Durable PROVE store.loop = loop /\ Mirrored
    OBVIOUS
  <1>1. store.loop = loop /\ store.q = queue
    BY DEF Durable
  <1>2. CASE current = <<>>
    <2>1. store.cur = <<>>
      BY <1>2 DEF Durable
    <2>2. RestoredQueue(store) = <<>> \o queue
      BY <1>1, <2>1 DEF RestoredQueue
    <2>3. RestoredQueue(store) = queue
      BY <2>2, ConcatEmptySeq DEF PlayerOK
    <2> QED BY <1>1, <1>2, <2>3 DEF Mirrored
  <1>3. CASE current # <<>>
    <2>1. store.cur = <<Retained>> /\ Retained.id = current[1].id /\ Retained.off = confirmed
      BY <1>3 DEF Durable, Retained, Track
    <2>2. store.cur # <<>> /\ store.cur[1] = Retained
      BY <2>1
    <2>3. confirmed <= confirmed /\ checkpoint <= confirmed
      BY DEF PlayerOK, CheckpointNear
    <2> QED BY <1>1, <1>3, <2>1, <2>2, <2>3 DEF Mirrored
  <1> QED BY <1>2, <1>3

\* A section that leaves all of it alone.
LEMMA SavedStutter ==
    ASSUME SnapshotInv, UNCHANGED savedVars, Clean' => Clean
    PROVE  SnapshotInv'
  BY DEF SnapshotInv, savedVars, CheckpointNear, Mirrored, RestoredQueue

\* A write that succeeded.
LEMMA WrittenMirrors ==
    ASSUME PlayerOK', CheckpointNear', store' = Durable'
    PROVE  SnapshotInv'
  <1>1. (store = Durable)'
    OBVIOUS
  <1>2. (store.loop = loop /\ Mirrored)'
    BY <1>1, SavedMirrors, PTL
  <1> QED BY <1>2 DEF SnapshotInv

\* persistLocked at the end of a section.
LEMMA PersistMirrors ==
    ASSUME PlayerOK', CheckpointNear', Persist, UNCHANGED <<closed, storeOn>>
    PROVE  SnapshotInv'
  <1>1. CASE store' = Durable'
    BY <1>1, WrittenMirrors
  <1>2. CASE store' # Durable'
    <2>1. ~Clean'
      BY <1>2 DEF Persist, SaveFails, Clean
    <2> QED BY <2>1 DEF SnapshotInv
  <1> QED BY <1>1, <1>2

\* The commands that save.
LEMMA CommandsMirror ==
    ASSUME PlayerOK', SnapshotInv,
           \/ \E u \in Users : EnqueueMany(u)
           \/ Stop \/ Clear \/ Leave \/ CloseLeaves
           \/ \E n \in 1..2 : SkipN(n)
           \/ \E k \in DOMAIN queue : Remove(k) \/ Jump(k) \/ \E j \in DOMAIN queue : Move(k, j)
           \/ Shuffle \/ Replay \/ Previous
           \/ \E m \in {"off", "track", "queue"} : SetLoop(m)
           \/ EndAttempt
    PROVE  SnapshotInv'
  <1> DEFINE Written == Persist /\ UNCHANGED <<closed, storeOn, confirmed, checkpoint>>
  <1> USE DEF lifeVars, trackVars, cancelTrack
  <1>1. ASSUME Written PROVE SnapshotInv'
    BY <1>1, PersistMirrors DEF SnapshotInv, CheckpointNear
  <1>2. ASSUME NEW q, Reordered(q) \/ GoesOnWith(q) PROVE Written
    BY <1>2 DEF Reordered, GoesOnWith, QueueCommandFrame
  <1>3. ASSUME NEW u \in Users, EnqueueMany(u) PROVE Written
    BY <1>3 DEF EnqueueMany
  <1>4. CASE Stop \/ Clear \/ Leave \/ CloseLeaves
    <2>1. Written
      BY <1>4 DEF Stop, Clear, Leave, CloseLeaves, Detach, EndSession
    <2> QED BY <1>1, <2>1
  <1>5. ASSUME NEW n \in 1..2, SkipN(n) PROVE Written
    BY <1>5 DEF SkipN, QueueCommandFrame
  <1>6. ASSUME NEW k \in DOMAIN queue, Remove(k) \/ Jump(k) PROVE Written
    BY <1>2, <1>6 DEF Remove, Jump
  <1>7. ASSUME NEW k \in DOMAIN queue, NEW j \in DOMAIN queue, Move(k, j) PROVE Written
    BY <1>2, <1>7 DEF Move
  <1>8. CASE Shuffle \/ Replay
    <2>1. Written
      BY <1>2, <1>8 DEF Shuffle, Replay
    <2> QED BY <1>1, <2>1
  <1>9. CASE Previous \/ EndAttempt
    <2>1. Written
      BY <1>9 DEF Previous, QueueCommandFrame, EndAttempt, RunFrame
    <2> QED BY <1>1, <2>1
  <1>10. ASSUME NEW m \in {"off", "track", "queue"}, SetLoop(m) PROVE Written
    BY <1>10 DEF SetLoop, QueueCommandFrame
  <1> HIDE DEF Written
  <1> QED BY <1>1, <1>3, <1>4, <1>5, <1>6, <1>7, <1>8, <1>9, <1>10

\* The sections that neither save nor change anything that is saved.
LEMMA QuietMirror ==
    ASSUME SavesWhileOpen, SnapshotInv,
           \/ \E u \in Users : \E n \in 1..MaxBatch : Ask(u, n)
           \/ \E on \in BOOLEAN : SetPaused(on)
           \/ Attach \/ Shutdown \/ Close \/ LeaveCloses \/ CloseReturns
           \/ SuspendVoice \/ SuspendProvider \/ BackoffElapses \/ ProviderElapses \/ Watchdog
           \/ RunTop \/ WaitProvider \/ Defer \/ SchedulerWait \/ Wakeup \/ WaitCanceled
           \/ RecoverBegins \/ RecoverAttempt \/ (\E ok \in BOOLEAN : RecoverEnds(ok))
           \/ SilenceFrame \/ (\E o \in Results : PlayReturns(o))
           \/ UNCHANGED vars
    PROVE  SnapshotInv'
  <1> DEFINE Quiet == UNCHANGED savedVars /\ (Clean' => Clean)
  <1> USE DEF savedVars, Clean, lifeVars, queueVars, trackVars, storeVars
  <1>1. ASSUME NEW u \in Users, NEW n \in 1..MaxBatch, Ask(u, n) PROVE Quiet
    BY <1>1 DEF Ask
  <1>2. ASSUME NEW on \in BOOLEAN, SetPaused(on) PROVE Quiet
    BY <1>2 DEF SetPaused, PauseFrame
  <1>3. ASSUME Attach \/ Shutdown \/ LeaveCloses \/ CloseReturns \/ SuspendVoice \/ SuspendProvider PROVE Quiet
    <2>1. CASE Attach
      BY <2>1 DEF Attach
    <2>5. CASE LeaveCloses
      BY <2>5 DEF LeaveCloses
    <2>2. CASE Shutdown
      BY <2>2 DEF Shutdown
    <2>3. CASE CloseReturns
      BY <2>3 DEF CloseReturns
    <2>4. CASE SuspendVoice
      BY <2>4 DEF SuspendVoice
    <2>6. CASE SuspendProvider
      BY <2>6 DEF SuspendProvider
    <2> QED BY <1>3, <2>1, <2>2, <2>3, <2>4, <2>5, <2>6
  <1>4. ASSUME Close PROVE Quiet
    BY <1>4 DEF Close, Persist, SavesWhileOpen
  <1>5. ASSUME NEW p, Goto(p) PROVE Quiet
    BY <1>5 DEF Goto, RunFrame
  <1>6. ASSUME BackoffElapses PROVE Quiet
    BY <1>6 DEF BackoffElapses, RunFrame
  <1>7. ASSUME NEW ok \in BOOLEAN, RecoverEnds(ok) PROVE Quiet
    BY <1>7 DEF RecoverEnds, RunFrame
  <1>8. ASSUME SilenceFrame PROVE Quiet
    BY <1>8 DEF SilenceFrame, AttemptFrame
  <1>9. ASSUME NEW o \in Results, PlayReturns(o) PROVE Quiet
    BY <1>9 DEF PlayReturns
  <1>10. ASSUME UNCHANGED vars PROVE Quiet
    BY <1>10 DEF vars
  <1> HIDE DEF Quiet
  <1>11. ASSUME ProviderElapses \/ Watchdog \/ RunTop \/ WaitProvider \/ Defer PROVE Quiet
    BY <1>5, <1>11 DEF ProviderElapses, Watchdog, RunTop, WaitProvider, Defer
  <1>12. ASSUME SchedulerWait \/ Wakeup \/ WaitCanceled \/ RecoverBegins \/ RecoverAttempt PROVE Quiet
    BY <1>5, <1>12 DEF SchedulerWait, Wakeup, WaitCanceled, RecoverBegins, RecoverAttempt
  <1>13. Quiet
    BY <1>1, <1>2, <1>3, <1>4, <1>6, <1>7, <1>8, <1>9, <1>10, <1>11, <1>12
  <1> HIDE DEF savedVars, Clean
  <1> QED BY <1>13, SavedStutter DEF Quiet

\* The retry worker.
LEMMA RetryMirrors ==
    ASSUME PlayerOK', SnapshotInv, RetryPersistence
    PROVE  SnapshotInv'
  <1>1. UNCHANGED <<queue, current, loop, confirmed, checkpoint, history, started, closed, storeOn>>
    BY DEF RetryPersistence, lifeVars, queueVars, trackVars
  <1>2. CheckpointNear'
    BY <1>1 DEF SnapshotInv, CheckpointNear
  <1>3. CASE store' = Durable
    <2>1. store' = Durable'
      BY <1>1, <1>3 DEF Durable
    <2> QED BY <1>2, <2>1, WrittenMirrors
  <1>4. CASE UNCHANGED <<store, persistenceError>>
    BY <1>1, <1>4, SavedStutter DEF savedVars, Clean
  <1>5. CASE persistenceError' = "queue"
    BY <1>2, <1>5 DEF SnapshotInv, Clean
  <1> QED BY <1>3, <1>4, <1>5 DEF RetryPersistence

\* A current track belongs to an attempt.
CurrentPlays == current # <<>> => Playing

\* It is set when an attempt begins and forgotten when the attempt ends, if not before.
LEMMA CurrentStep == CurrentPlays /\ [Next]_vars => CurrentPlays'
  <1> SUFFICES ASSUME CurrentPlays, [Next]_vars PROVE CurrentPlays'
    OBVIOUS
  <1> DEFINE Same == pc' = pc /\ (current' = current \/ current' = <<>>)
  <1> USE DEF CurrentPlays, Playing, runVars
  <1>1. ASSUME NEW q, Reordered(q) \/ GoesOnWith(q) PROVE Same
    BY <1>1 DEF Reordered, GoesOnWith, QueueCommandFrame, cancelTrack, trackVars
  <1>2. ASSUME Commands PROVE Same
    <2>1. ASSUME NEW u \in Users, EnqueueMany(u) \/ \E n \in 1..MaxBatch : Ask(u, n) PROVE Same
      BY <2>1 DEF EnqueueMany, Ask, trackVars
    <2>2. CASE Stop \/ Clear \/ Leave
      BY <2>2 DEF Stop, Clear, Leave, Detach, EndSession, cancelTrack, trackVars
    <2>3. CASE Attach \/ Previous \/ Shutdown
      BY <2>3 DEF Attach, Previous, Shutdown, cancelTrack, QueueCommandFrame, trackVars
    <2>4. ASSUME NEW n \in 1..2, SkipN(n) PROVE Same
      BY <2>4 DEF SkipN, QueueCommandFrame, cancelTrack, trackVars
    <2>5. ASSUME NEW k \in DOMAIN queue, Remove(k) \/ Jump(k) PROVE Same
      BY <1>1, <2>5 DEF Remove, Jump
    <2>6. ASSUME NEW k \in DOMAIN queue, NEW j \in DOMAIN queue, Move(k, j) PROVE Same
      BY <1>1, <2>6 DEF Move
    <2>7. CASE Shuffle \/ Replay
      BY <1>1, <2>7 DEF Shuffle, Replay
    <2>8. ASSUME NEW m \in {"off", "track", "queue"}, SetLoop(m) PROVE Same
      BY <2>8 DEF SetLoop, QueueCommandFrame, trackVars
    <2>9. ASSUME NEW on \in BOOLEAN, SetPaused(on) PROVE Same
      BY <2>9 DEF SetPaused, PauseFrame
    <2> HIDE DEF Same
    <2> QED BY <1>2, <2>1, <2>2, <2>3, <2>4, <2>5, <2>6, <2>7, <2>8, <2>9 DEF Commands
  <1>3. ASSUME Background \/ Events PROVE Same
    BY <1>3 DEF Background, Events, LeaveCloses, Close, CloseLeaves, CloseReturns, RetryPersistence,
                SuspendVoice, SuspendProvider, Detach, EndSession, cancelTrack, trackVars
  <1>4. ASSUME NEW p, Goto(p) PROVE UNCHANGED current /\ pc' = p
    BY <1>4 DEF Goto, trackVars
  <1>5. CASE Clocks
    BY <1>4, <1>5 DEF Clocks, BackoffElapses, ProviderElapses, trackVars
  <1>6. CASE Watchdog
    BY <1>4, <1>6 DEF Watchdog
  <1>7. CASE Scheduler
    <2>1. CASE RunTop \/ WaitProvider \/ Defer \/ SchedulerWait \/ Wakeup \/ WaitCanceled
      BY <1>4, <2>1 DEF RunTop, WaitProvider, Defer, SchedulerWait, Wakeup, WaitCanceled, AtSchedule
    <2>2. CASE RecoverBegins \/ RecoverAttempt \/ \E ok \in BOOLEAN : RecoverEnds(ok)
      BY <1>4, <2>2 DEF RecoverBegins, RecoverAttempt, RecoverEnds, trackVars
    <2>3. CASE Select \/ EndAttempt
      BY <2>3 DEF Select, EndAttempt
    <2> QED BY <1>7, <2>1, <2>2, <2>3 DEF Scheduler
  <1>8. CASE Attempt
    BY <1>8 DEF Attempt, ConfirmFrame, SilenceFrame, announceStart, PlayReturns, AttemptFrame
  <1>9. CASE Restart
    BY <1>9 DEF Restart
  <1>10. CASE UNCHANGED vars
    BY <1>10 DEF vars, trackVars
  <1> QED BY <1>2, <1>3, <1>5, <1>6, <1>7, <1>8, <1>9, <1>10 DEF Next, AtRest

\* The head is taken: a fresh one is in the snapshot as the head of the queue.
LEMMA SelectMirrors ==
    ASSUME PlayerOK, PlayerOK', CurrentPlays, SnapshotInv, Select
    PROVE  SnapshotInv'
  <1>1. /\ queue # <<>> /\ ~closed /\ current' = <<queue[1]>> /\ queue' = Tail(queue)
        /\ confirmed' = queue[1].off /\ checkpoint' = queue[1].off /\ UNCHANGED <<closed, storeOn, loop>>
    BY DEF Select, Reason, RunFrame, lifeVars
  <1>2. queue \in Seq(Tracks) /\ Len(queue) \in Nat \ {0} /\ queue[1] \in Tracks
    <2>1. queue \in Seq(Tracks) /\ Len(queue) \in Nat \ {0}
      BY <1>1, EmptySeq DEF PlayerOK
    <2> QED BY <2>1, ElementOfSeq
  <1>3. queue[1].off \in 0..Duration
    BY <1>2 DEF Tracks
  <1>4. CheckpointNear'
    BY <1>1, <1>3, PlayerAssumption DEF CheckpointNear, PlayerAssumption
  <1>5. CASE persistenceError # "" \/ queue[1].off # 0
    <2>1. Persist
      BY <1>5 DEF Select
    <2> QED BY <1>1, <1>4, <2>1, PersistMirrors
  <1>6. CASE persistenceError = "" /\ queue[1].off = 0
    <2>1. UNCHANGED <<store, persistenceError>>
      BY <1>6 DEF Select, storeVars
    <2>2. ASSUME Clean' PROVE store'.loop = loop' /\ Mirrored'
      <3>1. current = <<>>
        BY DEF Select, AtSchedule, CurrentPlays, Playing
      <3>2. store.loop = loop /\ RestoredQueue(store) = queue
        BY <1>1, <2>1, <2>2, <3>1 DEF Clean, SnapshotInv, Mirrored
      <3>3. <<queue[1]>> \o Tail(queue) = queue
        BY <1>1, <1>2, HeadTailProperties
      <3>4. RestoredQueue(store)' = current' \o queue' /\ current' # <<>> /\ current'[1] = queue[1]
        BY <1>1, <2>1, <3>2, <3>3 DEF RestoredQueue
      <3> QED BY <1>1, <1>6, <2>1, <3>2, <3>4 DEF Mirrored
    <2> QED BY <1>4, <2>2 DEF SnapshotInv
  <1> QED BY <1>5, <1>6

\* The position of a stored current track.
LEMMA SavedOffset == ASSUME CapacityInv, store.cur # <<>> PROVE store.cur[1].off \in Nat /\ store.cur[1] \in Tracks
  <1>1. store.cur[1] \in Tracks
    BY Single DEF CapacityInv, SnapshotOK
  <1> QED BY <1>1 DEF Tracks

\* A frame: the audio moves on, and a checkpoint follows it.
LEMMA FrameMirrors ==
    ASSUME CapacityInv, PlayerOK', SnapshotInv, ConfirmFrame
    PROVE  SnapshotInv'
  <1>1. UNCHANGED <<queue, current, loop, closed, storeOn>>
    BY DEF ConfirmFrame, AttemptFrame, lifeVars
  <1>2. confirmed \in 0..Duration /\ checkpoint \in 0..confirmed /\ confirmed - checkpoint < FiveSeconds /\ FiveSeconds \in Nat \ {0}
    BY PlayerAssumption DEF CapacityInv, PlayerOK, SnapshotInv, CheckpointNear, PlayerAssumption
  <1>3. \/ UNCHANGED <<confirmed, checkpoint, storeVars>>
        \/ /\ confirmed' = confirmed + 1
           /\ IF confirmed + 1 - checkpoint >= FiveSeconds
                THEN checkpoint' = confirmed + 1 /\ persistAudioCheckpoint
                ELSE UNCHANGED <<checkpoint, storeVars>>
    BY DEF ConfirmFrame
  <1>4. CASE UNCHANGED <<confirmed, checkpoint, storeVars>>
    BY <1>1, <1>4, SavedStutter DEF savedVars, storeVars, Clean
  <1>5. ASSUME confirmed' = confirmed + 1, confirmed + 1 - checkpoint < FiveSeconds, UNCHANGED <<checkpoint, storeVars>>
        PROVE  SnapshotInv'
    <2>1. CheckpointNear'
      BY <1>2, <1>5 DEF CheckpointNear
    <2>2. UNCHANGED <<store, persistenceError>> /\ Clean' = Clean
      BY <1>1, <1>5 DEF storeVars, Clean
    <2>3. ASSUME Clean' PROVE store'.loop = loop' /\ Mirrored'
      <3>1. store.loop = loop /\ Mirrored
        BY <2>2, <2>3 DEF SnapshotInv
      <3>2. CASE current = <<>> /\ RestoredQueue(store) = queue
        BY <1>1, <2>2, <3>1, <3>2 DEF Mirrored, RestoredQueue
      <3>3. CASE /\ current # <<>> /\ RestoredQueue(store) = current \o queue /\ current[1].off = 0
                 /\ persistenceError = "" => checkpoint = 0
        BY <1>1, <1>5, <2>2, <3>1, <3>3 DEF Mirrored, RestoredQueue
      <3>4. CASE /\ current # <<>> /\ store.cur # <<>> /\ store.q = queue
                 /\ store.cur[1].id = current[1].id /\ store.cur[1].off <= confirmed
                 /\ persistenceError = "" => checkpoint <= store.cur[1].off
        <4>1. store.cur[1].off <= confirmed + 1
          <5>1. store.cur[1].off \in Nat /\ store.cur[1].off <= confirmed
            BY <3>4, SavedOffset
          <5> QED BY <1>2, <5>1
        <4> QED BY <1>1, <1>5, <2>2, <3>1, <3>4, <4>1 DEF Mirrored
      <3> QED BY <3>1, <3>2, <3>3, <3>4 DEF Mirrored
    <2> QED BY <2>1, <2>3 DEF SnapshotInv
  <1>6. ASSUME confirmed' = confirmed + 1, checkpoint' = confirmed + 1, persistAudioCheckpoint
        PROVE  SnapshotInv'
    <2>1. CheckpointNear'
      BY <1>2, <1>6 DEF CheckpointNear
    <2>2. CASE store' = Durable'
      BY <2>1, <2>2, WrittenMirrors
    <2>3. CASE store' # Durable' /\ ~Clean'
      BY <2>1, <2>3 DEF SnapshotInv
    <2>4. CASE store' # Durable' /\ Clean'
      <3>1. /\ store' = store /\ persistenceError' = "checkpoint" /\ Clean
        BY <1>1, <1>6, <2>4 DEF persistAudioCheckpoint, Clean
      <3>2. store.loop = loop /\ Mirrored
        BY <3>1 DEF SnapshotInv
      <3>3. CASE current = <<>> /\ RestoredQueue(store) = queue
        BY <1>1, <2>1, <3>1, <3>2, <3>3 DEF SnapshotInv, Mirrored, RestoredQueue
      <3>4. CASE current # <<>> /\ RestoredQueue(store) = current \o queue /\ current[1].off = 0
        BY <1>1, <2>1, <3>1, <3>2, <3>4 DEF SnapshotInv, Mirrored, RestoredQueue
      <3>5. CASE /\ current # <<>> /\ store.cur # <<>> /\ store.q = queue
                 /\ store.cur[1].id = current[1].id /\ store.cur[1].off <= confirmed
        <4>1. store.cur[1].off <= confirmed + 1
          BY <1>2, <3>5, SavedOffset
        <4> QED BY <1>1, <1>6, <2>1, <3>1, <3>2, <3>5, <4>1 DEF SnapshotInv, Mirrored
      <3> QED BY <3>2, <3>3, <3>4, <3>5 DEF Mirrored
    <2> QED BY <2>2, <2>3, <2>4
  <1> QED BY <1>2, <1>3, <1>4, <1>5, <1>6

\* The first frame of a track records that it started.
LEMMA StartMirrors ==
    ASSUME PlayerOK', SnapshotInv, announceStart
    PROVE  SnapshotInv'
  <1>1. UNCHANGED <<queue, current, loop, confirmed, checkpoint, closed, storeOn>>
    BY DEF announceStart, AttemptFrame, lifeVars
  <1>2. CheckpointNear'
    BY <1>1 DEF SnapshotInv, CheckpointNear
  <1>3. CASE UNCHANGED storeVars
    BY <1>1, <1>3, SavedStutter DEF savedVars, storeVars, Clean
  <1>4. CASE Persist
    BY <1>1, <1>2, <1>4, PersistMirrors
  <1>5. CASE persistenceError' = "history"
    BY <1>2, <1>5 DEF SnapshotInv, Clean
  <1> QED BY <1>3, <1>4, <1>5 DEF announceStart, persistStart

\* A restart holds what the snapshot restores.
LEMMA RestartMirrors == ASSUME Restart PROVE SnapshotInv'
  <1>1. /\ queue' = RestoredQueue(store) /\ loop' = store.loop /\ current' = <<>> /\ store' = store
        /\ confirmed' = 0 /\ checkpoint' = 0
    BY DEF Restart
  <1>2. RestoredQueue(store)' = RestoredQueue(store)
    BY <1>1 DEF RestoredQueue
  <1> QED BY <1>1, <1>2, PlayerAssumption DEF SnapshotInv, CheckpointNear, Mirrored, PlayerAssumption

\* The initial state.
LEMMA SnapshotInit == Init => SnapshotInv /\ CurrentPlays
  <1> SUFFICES ASSUME Init PROVE SnapshotInv /\ CurrentPlays
    OBVIOUS
  <1>1. queue = <<>> /\ loop = "off" /\ current = <<>> /\ confirmed = 0 /\ checkpoint = 0
    BY DEF Init
  <1>2. store.loop = "off" /\ store.cur = <<>> /\ store.q = <<>>
    BY DEF Init, Empty
  <1>3. RestoredQueue(store) = <<>>
    BY <1>2 DEF RestoredQueue
  <1> QED BY <1>1, <1>2, <1>3, PlayerAssumption DEF SnapshotInv, CheckpointNear, Mirrored, CurrentPlays, PlayerAssumption

\* Every step keeps the snapshot a faithful one.
LEMMA SnapshotStep ==
    CapacityInv /\ CapacityInv' /\ SavesWhileOpen /\ CurrentPlays /\ SnapshotInv /\ [Next]_vars => SnapshotInv'
  <1> SUFFICES ASSUME CapacityInv, CapacityInv', SavesWhileOpen, CurrentPlays, SnapshotInv, [Next]_vars
               PROVE  SnapshotInv'
    OBVIOUS
  <1>1. PlayerOK /\ PlayerOK'
    BY DEF CapacityInv
  <1>2. CASE Commands
    BY <1>1, <1>2, CommandsMirror, QuietMirror DEF Commands
  <1>3. CASE Background \/ Events \/ Clocks \/ Watchdog
    BY <1>1, <1>3, CommandsMirror, QuietMirror, RetryMirrors DEF Background, Events, Clocks
  <1>4. CASE Scheduler
    BY <1>1, <1>4, CommandsMirror, QuietMirror, SelectMirrors DEF Scheduler
  <1>5. CASE Attempt
    BY <1>1, <1>5, QuietMirror, FrameMirrors, StartMirrors DEF Attempt
  <1>6. CASE Restart
    BY <1>6, RestartMirrors
  <1>7. CASE UNCHANGED vars
    BY <1>7, QuietMirror
  <1> QED BY <1>2, <1>3, <1>4, <1>5, <1>6, <1>7 DEF Next, AtRest

\* A track and then the queue.
LEMMA OneThenMore ==
    ASSUME NEW s \in Seq(Tracks), NEW q \in Seq(Tracks), Len(s) = 1
    PROVE  /\ s \o q # <<>> /\ DOMAIN (s \o q) = 1..(Len(q) + 1) /\ (s \o q)[1] = s[1]
           /\ \A i \in 2..(Len(q) + 1) : (s \o q)[i] = q[i - 1]
  <1>1. Len(q) \in Nat
    BY LenProperties
  <1>2. /\ Len(s \o q) = Len(s) + Len(q) /\ s \o q \in Seq(Tracks)
        /\ \A i \in 1..(Len(s) + Len(q)) : (s \o q)[i] = IF i <= Len(s) THEN s[i] ELSE q[i - Len(s)]
    BY ConcatProperties
  <1> DEFINE r == s \o q
  <1> HIDE DEF r
  <1>3. /\ Len(r) = Len(q) + 1 /\ r \in Seq(Tracks)
        /\ \A i \in 1..(Len(q) + 1) : r[i] = IF i <= 1 THEN s[i] ELSE q[i - 1]
    BY <1>1, <1>2 DEF r
  <1>4. r # <<>> /\ DOMAIN r = 1..(Len(q) + 1)
    BY <1>1, <1>3, EmptySeq, LenProperties
  <1>5. r[1] = s[1] /\ \A i \in 2..(Len(q) + 1) : r[i] = q[i - 1]
    BY <1>1, <1>3
  <1> QED BY <1>4, <1>5 DEF r

\* A later position is no further behind.
LEMMA StillNear ==
    ASSUME NEW c \in Int, NEW k \in Int, NEW o \in Int, NEW f \in Int, c - k < f, k <= o
    PROVE  c - o < f
  OBVIOUS

\* The invariant gives both promises of a snapshot.
LEMMA SnapshotImplies == CapacityInv /\ SnapshotInv => DurableExact /\ BoundedReplay
  <1> SUFFICES ASSUME CapacityInv, SnapshotInv PROVE DurableExact /\ BoundedReplay
    OBVIOUS
  <1>1. /\ queue \in Seq(Tracks) /\ current \in Seq(Tracks) /\ store.cur \in Seq(Tracks) /\ store.q \in Seq(Tracks)
        /\ confirmed \in 0..Duration /\ checkpoint \in 0..confirmed /\ confirmed - checkpoint < FiveSeconds
        /\ Duration \in Nat /\ FiveSeconds \in Nat
    BY PlayerAssumption DEF CapacityInv, PlayerOK, SnapshotOK, SnapshotInv, CheckpointNear, PlayerAssumption
  <1>2. <<>> \o queue = queue
    BY <1>1, ConcatEmptySeq
  <1>3. DurableExact
    <2> SUFFICES ASSUME Clean, Mirrored, store.loop = loop
                 PROVE  \/ IdSeq(RestoredQueue(store)) = IdSeq(Held)
                        \/ /\ current # <<>> /\ 2 * confirmed >= Duration
                           /\ IdSeq(RestoredQueue(store)) = IdSeq(queue)
      BY DEF DurableExact, Clean, SnapshotInv
    <2>1. CASE RestoredQueue(store) = Held
      BY <2>1
    <2>2. CASE /\ current # <<>> /\ store.cur # <<>> /\ store.q = queue
               /\ store.cur[1].id = current[1].id /\ store.cur[1].off <= confirmed
      <3>1. store.cur[1].off \in Nat
        BY <2>2, SavedOffset
      <3>2. CASE advanceInterrupted(store.cur[1])
        <4>1. RestoredQueue(store) = queue
          BY <1>2, <2>2, <3>2 DEF RestoredQueue
        <4>2. store.cur[1].off >= (Duration + 1) \div 2
          BY <3>2 DEF advanceInterrupted
        <4>3. confirmed >= (Duration + 1) \div 2
          BY <1>1, <2>2, <3>1, <4>2
        <4>4. 2 * confirmed >= Duration
          BY <1>1, <4>3
        <4> QED BY <2>2, <4>1, <4>4
      <3>3. CASE ~advanceInterrupted(store.cur[1])
        <4>1. RestoredQueue(store) = store.cur \o queue
          BY <2>2, <3>3 DEF RestoredQueue
        <4>2. Len(store.cur) = 1 /\ Len(current) = 1
          BY <2>2, Single DEF CapacityInv, PlayerOK, SnapshotOK
        <4>3. /\ DOMAIN (store.cur \o queue) = 1..(Len(queue) + 1) /\ (store.cur \o queue)[1] = store.cur[1]
              /\ \A i \in 2..(Len(queue) + 1) : (store.cur \o queue)[i] = queue[i - 1]
              /\ DOMAIN (current \o queue) = 1..(Len(queue) + 1) /\ (current \o queue)[1] = current[1]
              /\ \A i \in 2..(Len(queue) + 1) : (current \o queue)[i] = queue[i - 1]
          BY <1>1, <4>2, OneThenMore
        <4>4. /\ DOMAIN (store.cur \o queue) = DOMAIN (current \o queue)
              /\ \A i \in DOMAIN (current \o queue) : (store.cur \o queue)[i].id = (current \o queue)[i].id
          <5>1. \A i \in 1..(Len(queue) + 1) : i = 1 \/ i \in 2..(Len(queue) + 1)
            BY <1>1, LenProperties
          <5> QED BY <2>2, <4>3, <5>1
        <4>5. IdSeq(store.cur \o queue) = IdSeq(current \o queue)
          BY <4>4 DEF IdSeq
        <4> QED BY <4>1, <4>5 DEF Held
      <3> QED BY <3>2, <3>3
    <2>3. CASE current = <<>> /\ RestoredQueue(store) = queue
      BY <1>2, <2>1, <2>3 DEF Held
    <2> QED BY <2>1, <2>2, <2>3 DEF Mirrored, Held
  <1>4. BoundedReplay
    <2> SUFFICES ASSUME current # <<>>,
                        \/ RestoredQueue(store) = current \o queue /\ current[1].off = 0 /\ checkpoint = 0
                        \/ store.cur # <<>> /\ store.cur[1].id = current[1].id /\ checkpoint <= store.cur[1].off
                 PROVE  \E saved \in {RestoredQueue(store), store.cur} :
                            /\ saved # <<>> /\ saved[1].id = current[1].id
                            /\ confirmed - saved[1].off < FiveSeconds
      BY DEF BoundedReplay, Clean, SnapshotInv, Mirrored
    <2>1. CASE RestoredQueue(store) = current \o queue /\ current[1].off = 0 /\ checkpoint = 0
      <3>1. Len(current) = 1
        BY CurrentTrack DEF CapacityInv
      <3>2. current \o queue # <<>> /\ (current \o queue)[1] = current[1]
        BY <1>1, <3>1, OneThenMore
      <3>3. confirmed - 0 < FiveSeconds
        BY <1>1, <2>1
      <3> QED BY <2>1, <3>2, <3>3
    <2>2. CASE store.cur # <<>> /\ store.cur[1].id = current[1].id /\ checkpoint <= store.cur[1].off
      <3>1. store.cur[1].off \in Nat
        BY <2>2, SavedOffset
      <3>2. confirmed - store.cur[1].off < FiveSeconds
        BY <1>1, <2>2, <3>1, StillNear
      <3> QED BY <2>2, <3>2
    <2> QED BY <2>1, <2>2
  <1> QED BY <1>3, <1>4

-----------------------------------------------------------------------------
(***************************************************************************)
(* Types.  The lists and the ids are bounded above; these are the other    *)
(* variables, in parts that the sections disturb separately.               *)
(***************************************************************************)
LifeTypes ==
    /\ closed \in BOOLEAN /\ storeOn \in BOOLEAN /\ restarts \in Nat
    /\ closer \in {"none", "cancel", "leave", "wait", "done"}
lifeTypeVars == <<closed, closer, storeOn, restarts>>

SessionTypes ==
    /\ voice \in 0..MaxSessions /\ sessions \in 0..MaxSessions /\ open \subseteq 1..MaxSessions
    /\ leaveVoice \in 0..MaxSessions /\ playVoice \in 0..MaxSessions
    /\ rec \in [epoch : Nat, session : 0..MaxSessions] /\ voiceEpoch \in Nat
sessionTypeVars == <<voice, sessions, open, leaveVoice, playVoice, rec, voiceEpoch>>

RecoveryTypes ==
    /\ leaving \in BOOLEAN /\ voiceBlocked \in BOOLEAN /\ voiceIncident \in BOOLEAN
recoveryTypeVars == <<leaving, voiceBlocked, voiceIncident>>

RetryTypes ==
    /\ recoveryPaused \in BOOLEAN /\ halted \in BOOLEAN /\ backoff \in BOOLEAN /\ paused \in BOOLEAN
retryTypeVars == <<recoveryPaused, halted, backoff, paused>>

CountTypes ==
    /\ networkAttempts \in Nat /\ failures \in Nat /\ voiceAttempts \in 0..VoiceTries
countTypeVars == <<networkAttempts, failures, voiceAttempts>>

PolicyTypes ==
    /\ providerBlocked \in BOOLEAN /\ providerProbe \in BOOLEAN /\ providerDue \in BOOLEAN
policyTypeVars == <<providerBlocked, providerProbe, providerDue>>

IncidentTypes ==
    /\ providerRetries \in 0..ProviderTries /\ providerIncident \in Nat /\ providerGeneration \in Nat
    /\ permit \in Nat /\ playbackProviderID \in Nat
incidentTypeVars == <<providerRetries, providerIncident, providerGeneration, permit, playbackProviderID>>

ModeTypes ==
    /\ loop \in {"off", "track", "queue"}
modeTypeVars == <<loop>>

RunTypes ==
    /\ wake \in BOOLEAN /\ started \in BOOLEAN /\ once \in {"todo", "due", "done"}
    /\ cause \in {"none", "canceled", "voice"} /\ outcome \in Results
    /\ pc \in {"top", "recover", "attempt", "dialing", "provider", "granted", "sched", "asleep", "backoff",
               "playing", "ended", "exit"}
runTypeVars == <<pc, wake, started, cause, once, outcome>>

\* What the end of an attempt does to the numbers of the provider's incident.
ProviderStep ==
    /\ providerRetries' = providerRetries \/ providerRetries' = 0
       \/ (providerRetries > 0 /\ providerRetries' = providerRetries - 1)
    /\ providerIncident' \in {providerIncident, 0, providerGeneration'}
    /\ providerGeneration' \in {providerGeneration, providerGeneration + 1}

\* The pieces of the provider policy that end an attempt take such a step.
LEMMA ProviderPieces ==
    /\ blockProvider => ProviderStep
    /\ \A err, incident : finishProvider(err, incident) => ProviderStep
    /\ UNCHANGED provVars => ProviderStep
  <1>1. blockProvider => ProviderStep
    BY DEF blockProvider, ProviderStep, provVars
  <1>2. ASSUME NEW err, NEW incident, finishProvider(err, incident) PROVE ProviderStep
    BY <1>2 DEF finishProvider, resetProvider, ProviderStep, provVars
  <1>3. UNCHANGED provVars => ProviderStep
    BY DEF ProviderStep, provVars
  <1> QED BY <1>1, <1>2, <1>3

\* The loop mode of the snapshot, which a restart takes up.
SavedMode == store.loop \in {"off", "track", "queue"}

Types ==
    /\ LifeTypes /\ SessionTypes /\ RecoveryTypes /\ RetryTypes /\ CountTypes
    /\ PolicyTypes /\ IncidentTypes /\ ModeTypes /\ RunTypes

\* A step that leaves a part alone keeps its type.
LEMMA PartsStutter ==
    /\ LifeTypes /\ UNCHANGED lifeTypeVars => LifeTypes'
    /\ SessionTypes /\ UNCHANGED sessionTypeVars => SessionTypes'
    /\ RecoveryTypes /\ UNCHANGED recoveryTypeVars => RecoveryTypes'
    /\ RetryTypes /\ UNCHANGED retryTypeVars => RetryTypes'
    /\ CountTypes /\ UNCHANGED countTypeVars => CountTypes'
    /\ PolicyTypes /\ UNCHANGED policyTypeVars => PolicyTypes'
    /\ IncidentTypes /\ UNCHANGED incidentTypeVars => IncidentTypes'
    /\ ModeTypes /\ UNCHANGED modeTypeVars => ModeTypes'
    /\ RunTypes /\ UNCHANGED runTypeVars => RunTypes'
  <1>1. LifeTypes /\ UNCHANGED lifeTypeVars => LifeTypes'
    BY DEF LifeTypes, lifeTypeVars
  <1>2. SessionTypes /\ UNCHANGED sessionTypeVars => SessionTypes'
    BY DEF SessionTypes, sessionTypeVars
  <1>3. RecoveryTypes /\ UNCHANGED recoveryTypeVars => RecoveryTypes'
    BY DEF RecoveryTypes, recoveryTypeVars
  <1>4. RetryTypes /\ UNCHANGED retryTypeVars => RetryTypes'
    BY DEF RetryTypes, retryTypeVars
  <1>5. CountTypes /\ UNCHANGED countTypeVars => CountTypes'
    BY DEF CountTypes, countTypeVars
  <1>6. PolicyTypes /\ UNCHANGED policyTypeVars => PolicyTypes'
    BY DEF PolicyTypes, policyTypeVars
  <1>7. IncidentTypes /\ UNCHANGED incidentTypeVars => IncidentTypes'
    BY DEF IncidentTypes, incidentTypeVars
  <1>8. ModeTypes /\ UNCHANGED modeTypeVars => ModeTypes'
    BY DEF ModeTypes, modeTypeVars
  <1>9. RunTypes /\ UNCHANGED runTypeVars => RunTypes'
    BY DEF RunTypes, runTypeVars
  <1> QED BY <1>1, <1>2, <1>3, <1>4, <1>5, <1>6, <1>7, <1>8, <1>9

\* Every step keeps the types; the snapshot's loop mode is what a restart takes up.
LEMMA TypesStep == Types /\ SavedMode /\ [Next]_vars => Types'
  <1> SUFFICES ASSUME Types, SavedMode, [Next]_vars PROVE Types'
    OBVIOUS
  <1> USE DEF lifeVars, voiceVars, queueVars, trackVars, runVars, retryVars, recoverVars, provVars
  <1>1. ASSUME NEW u \in Users, NEW n \in 1..MaxBatch, Ask(u, n) PROVE Types'
    <2>1. UNCHANGED <<lifeTypeVars, sessionTypeVars, recoveryTypeVars, retryTypeVars, countTypeVars,
                      policyTypeVars, incidentTypeVars, modeTypeVars, runTypeVars>>
      BY <1>1 DEF Ask, lifeTypeVars, sessionTypeVars, recoveryTypeVars, retryTypeVars, countTypeVars,
         policyTypeVars, incidentTypeVars, modeTypeVars, runTypeVars
    <2> QED BY <2>1, PartsStutter DEF Types
  <1>2. ASSUME NEW u \in Users, EnqueueMany(u) PROVE Types'
    <2>1. UNCHANGED <<lifeTypeVars, sessionTypeVars, recoveryTypeVars, policyTypeVars, incidentTypeVars,
                      modeTypeVars>>
      BY <1>2 DEF EnqueueMany, signal, lifeTypeVars, sessionTypeVars, recoveryTypeVars, policyTypeVars,
         incidentTypeVars, modeTypeVars
    <2>2. RetryTypes'
      BY <1>2 DEF EnqueueMany, signal, Types, RetryTypes
    <2>3. CountTypes'
      BY <1>2, PlayerAssumption DEF EnqueueMany, signal, Types, CountTypes, PlayerAssumption
    <2>4. RunTypes'
      BY <1>2 DEF EnqueueMany, signal, Types, RunTypes
    <2> QED BY <2>1, <2>2, <2>3, <2>4, PartsStutter DEF Types
  <1>3. ASSUME EndSession PROVE RetryTypes' /\ CountTypes' /\ PolicyTypes' /\ IncidentTypes' /\ ModeTypes' /\ RunTypes'
    <2>1. RetryTypes'
      BY <1>3 DEF EndSession, revokeTickets, resetProvider, cancelTrack, signal, Types, RetryTypes
    <2>2. CountTypes'
      BY <1>3, PlayerAssumption DEF EndSession, revokeTickets, resetProvider, cancelTrack, signal, Types,
         CountTypes, PlayerAssumption
    <2>3. PolicyTypes'
      BY <1>3 DEF EndSession, revokeTickets, resetProvider, cancelTrack, signal, Types, PolicyTypes
    <2>4. IncidentTypes'
      BY <1>3, PlayerAssumption DEF EndSession, revokeTickets, resetProvider, cancelTrack, signal, Types,
         IncidentTypes, PlayerAssumption
    <2>5. ModeTypes'
      BY <1>3 DEF EndSession, revokeTickets, resetProvider, cancelTrack, signal, Types, ModeTypes
    <2>6. RunTypes'
      BY <1>3 DEF EndSession, revokeTickets, resetProvider, cancelTrack, signal, Types, RunTypes
    <2> QED BY <2>1, <2>2, <2>3, <2>4, <2>5, <2>6
  <1>4. CASE Stop
    <2>1. UNCHANGED <<lifeTypeVars, recoveryTypeVars>>
      BY <1>4 DEF Stop, EndSession, cancelTrack, lifeTypeVars, recoveryTypeVars
    <2>2. SessionTypes'
      BY <1>4, PlayerAssumption DEF Stop, EndSession, cancelTrack, Types, SessionTypes, PlayerAssumption
    <2>3. EndSession
      BY <1>4 DEF Stop
    <2> QED BY <2>1, <2>2, <2>3, <1>3, PartsStutter DEF Types
  <1>5. CASE Leave
    <2>1. UNCHANGED <<lifeTypeVars>>
      BY <1>5 DEF Leave, Detach, EndSession, cancelTrack, lifeTypeVars
    <2>2. SessionTypes'
      BY <1>5, PlayerAssumption DEF Leave, Detach, EndSession, cancelTrack, Types, SessionTypes,
         PlayerAssumption
    <2>3. RecoveryTypes'
      BY <1>5 DEF Leave, Detach, EndSession, cancelTrack, Types, RecoveryTypes
    <2>4. EndSession
      BY <1>5 DEF Leave, Detach
    <2> QED BY <2>1, <2>2, <2>3, <2>4, <1>3, PartsStutter DEF Types
  <1>6. CASE CloseLeaves
    <2>1. LifeTypes'
      BY <1>6 DEF CloseLeaves, Detach, EndSession, cancelTrack, Types, LifeTypes
    <2>2. SessionTypes'
      BY <1>6, PlayerAssumption DEF CloseLeaves, Detach, EndSession, cancelTrack, Types, SessionTypes,
         PlayerAssumption
    <2>3. RecoveryTypes'
      BY <1>6 DEF CloseLeaves, Detach, EndSession, cancelTrack, Types, RecoveryTypes
    <2>4. EndSession
      BY <1>6 DEF CloseLeaves, Detach
    <2> QED BY <2>1, <2>2, <2>3, <2>4, <1>3, PartsStutter DEF Types
  <1>7. CASE Clear
    <2>1. UNCHANGED <<lifeTypeVars, sessionTypeVars, recoveryTypeVars, policyTypeVars, incidentTypeVars>>
      BY <1>7 DEF Clear, signal, lifeTypeVars, sessionTypeVars, recoveryTypeVars, policyTypeVars,
         incidentTypeVars
    <2>2. RetryTypes'
      BY <1>7 DEF Clear, signal, Types, RetryTypes
    <2>3. CountTypes'
      BY <1>7, PlayerAssumption DEF Clear, signal, Types, CountTypes, PlayerAssumption
    <2>4. RunTypes'
      BY <1>7 DEF Clear, signal, Types, RunTypes
    <2>5. ModeTypes'
      BY <1>7 DEF Clear, signal, Types, ModeTypes
    <2> QED BY <2>1, <2>2, <2>3, <2>4, <2>5, PartsStutter DEF Types
  <1>8. CASE Attach
    <2>1. UNCHANGED <<lifeTypeVars, retryTypeVars, policyTypeVars, incidentTypeVars, modeTypeVars>>
      BY <1>8 DEF Attach, signal, lifeTypeVars, retryTypeVars, policyTypeVars, incidentTypeVars, modeTypeVars
    <2>2. SessionTypes'
      BY <1>8, PlayerAssumption DEF Attach, signal, Types, SessionTypes, PlayerAssumption
    <2>3. RecoveryTypes'
      BY <1>8 DEF Attach, signal, Types, RecoveryTypes
    <2>4. CountTypes'
      BY <1>8, PlayerAssumption DEF Attach, signal, Types, CountTypes, PlayerAssumption
    <2>5. RunTypes'
      BY <1>8 DEF Attach, signal, Types, RunTypes
    <2> QED BY <2>1, <2>2, <2>3, <2>4, <2>5, PartsStutter DEF Types
  <1>9. ASSUME NEW n \in 1..2, SkipN(n) PROVE Types'
    <2>1. UNCHANGED <<lifeTypeVars, sessionTypeVars, recoveryTypeVars, policyTypeVars, incidentTypeVars,
                      modeTypeVars>>
      BY <1>9 DEF SkipN, QueueCommandFrame, cancelTrack, signal, lifeTypeVars, sessionTypeVars,
         recoveryTypeVars, policyTypeVars, incidentTypeVars, modeTypeVars
    <2>2. RetryTypes'
      BY <1>9 DEF SkipN, QueueCommandFrame, cancelTrack, signal, Types, RetryTypes
    <2>3. CountTypes'
      BY <1>9, PlayerAssumption DEF SkipN, QueueCommandFrame, cancelTrack, signal, Types, CountTypes,
         PlayerAssumption
    <2>4. RunTypes'
      BY <1>9 DEF SkipN, QueueCommandFrame, cancelTrack, signal, Types, RunTypes
    <2> QED BY <2>1, <2>2, <2>3, <2>4, PartsStutter DEF Types
  <1>10. ASSUME NEW q, Reordered(q) PROVE Types'
    <2>1. UNCHANGED <<lifeTypeVars, sessionTypeVars, recoveryTypeVars, retryTypeVars, countTypeVars,
                      policyTypeVars, incidentTypeVars, modeTypeVars>>
      BY <1>10 DEF Reordered, QueueCommandFrame, signal, lifeTypeVars, sessionTypeVars, recoveryTypeVars,
         retryTypeVars, countTypeVars, policyTypeVars, incidentTypeVars, modeTypeVars
    <2>2. RunTypes'
      BY <1>10 DEF Reordered, QueueCommandFrame, signal, Types, RunTypes
    <2> QED BY <2>1, <2>2, PartsStutter DEF Types
  <1>11. ASSUME NEW q, GoesOnWith(q) PROVE Types'
    <2>1. UNCHANGED <<lifeTypeVars, sessionTypeVars, recoveryTypeVars, countTypeVars, policyTypeVars,
                      incidentTypeVars, modeTypeVars>>
      BY <1>11 DEF GoesOnWith, QueueCommandFrame, cancelTrack, signal, lifeTypeVars, sessionTypeVars,
         recoveryTypeVars, countTypeVars, policyTypeVars, incidentTypeVars, modeTypeVars
    <2>2. RetryTypes'
      BY <1>11 DEF GoesOnWith, QueueCommandFrame, cancelTrack, signal, Types, RetryTypes
    <2>3. RunTypes'
      BY <1>11 DEF GoesOnWith, QueueCommandFrame, cancelTrack, signal, Types, RunTypes
    <2> QED BY <2>1, <2>2, <2>3, PartsStutter DEF Types
  <1>12. CASE Previous
    <2>1. UNCHANGED <<lifeTypeVars, sessionTypeVars, recoveryTypeVars, policyTypeVars, incidentTypeVars,
                      modeTypeVars>>
      BY <1>12 DEF Previous, QueueCommandFrame, cancelTrack, signal, lifeTypeVars, sessionTypeVars,
         recoveryTypeVars, policyTypeVars, incidentTypeVars, modeTypeVars
    <2>2. RetryTypes'
      BY <1>12 DEF Previous, QueueCommandFrame, cancelTrack, signal, Types, RetryTypes
    <2>3. CountTypes'
      BY <1>12, PlayerAssumption DEF Previous, QueueCommandFrame, cancelTrack, signal, Types, CountTypes,
         PlayerAssumption
    <2>4. RunTypes'
      BY <1>12 DEF Previous, QueueCommandFrame, cancelTrack, signal, Types, RunTypes
    <2> QED BY <2>1, <2>2, <2>3, <2>4, PartsStutter DEF Types
  <1>13. ASSUME NEW m \in {"off", "track", "queue"}, SetLoop(m) PROVE Types'
    <2>1. UNCHANGED <<lifeTypeVars, sessionTypeVars, recoveryTypeVars, retryTypeVars, countTypeVars,
                      policyTypeVars, incidentTypeVars, runTypeVars>>
      BY <1>13 DEF SetLoop, QueueCommandFrame, lifeTypeVars, sessionTypeVars, recoveryTypeVars,
         retryTypeVars, countTypeVars, policyTypeVars, incidentTypeVars, runTypeVars
    <2>2. ModeTypes'
      BY <1>13 DEF SetLoop, QueueCommandFrame, Types, ModeTypes
    <2> QED BY <2>1, <2>2, PartsStutter DEF Types
  <1>14. ASSUME NEW on \in BOOLEAN, PauseVoiceSuspended(on), PauseFrame PROVE Types'
    <2>1. UNCHANGED <<lifeTypeVars, sessionTypeVars, recoveryTypeVars, policyTypeVars, incidentTypeVars,
                      modeTypeVars>>
      BY <1>14 DEF PauseVoiceSuspended, PauseFrame, signal, lifeTypeVars, sessionTypeVars,
         recoveryTypeVars, policyTypeVars, incidentTypeVars, modeTypeVars
    <2>2. RetryTypes'
      BY <1>14 DEF PauseVoiceSuspended, PauseFrame, signal, Types, RetryTypes
    <2>3. CountTypes'
      BY <1>14, PlayerAssumption DEF PauseVoiceSuspended, PauseFrame, signal, Types, CountTypes,
         PlayerAssumption
    <2>4. RunTypes'
      BY <1>14 DEF PauseVoiceSuspended, PauseFrame, signal, Types, RunTypes
    <2> QED BY <2>1, <2>2, <2>3, <2>4, PartsStutter DEF Types
  <1>15. CASE ResumeProvider /\ PauseFrame
    <2>1. UNCHANGED <<lifeTypeVars, sessionTypeVars, recoveryTypeVars, retryTypeVars, modeTypeVars>>
      BY <1>15 DEF ResumeProvider, PauseFrame, resetProvider, signal, lifeTypeVars, sessionTypeVars,
         recoveryTypeVars, retryTypeVars, modeTypeVars
    <2>2. CountTypes'
      <3>1. networkAttempts' = networkAttempts /\ voiceAttempts' = voiceAttempts
        BY <1>15 DEF ResumeProvider, PauseFrame, resetProvider, signal
      <3>2. failures' = failures \/ failures' = 0
        BY Zenon, <1>15 DEF ResumeProvider, PauseFrame, resetProvider, signal
      <3> QED BY <3>1, <3>2, PlayerAssumption DEF Types, CountTypes, PlayerAssumption
    <2>3. PolicyTypes'
      BY <1>15 DEF ResumeProvider, PauseFrame, resetProvider, signal, Types, PolicyTypes
    <2>4. IncidentTypes'
      <3>1. permit' = permit /\ playbackProviderID' = playbackProviderID /\ providerGeneration' = providerGeneration
        BY <1>15 DEF ResumeProvider, PauseFrame, resetProvider, signal
      <3>2. providerRetries' = providerRetries \/ providerRetries' = 0
        BY <1>15 DEF ResumeProvider, PauseFrame, resetProvider, signal
      <3>3. providerIncident' = providerIncident \/ providerIncident' = 0
        BY <1>15 DEF ResumeProvider, PauseFrame, resetProvider, signal
      <3> QED BY <3>1, <3>2, <3>3, PlayerAssumption DEF Types, IncidentTypes, PlayerAssumption
    <2>5. RunTypes'
      BY <1>15 DEF ResumeProvider, PauseFrame, resetProvider, signal, Types, RunTypes
    <2> QED BY <2>1, <2>2, <2>3, <2>4, <2>5, PartsStutter DEF Types
  <1>16. CASE ResumeHalted /\ PauseFrame
    <2>1. UNCHANGED <<lifeTypeVars, sessionTypeVars, recoveryTypeVars, policyTypeVars, incidentTypeVars,
                      modeTypeVars>>
      BY <1>16 DEF ResumeHalted, PauseFrame, signal, lifeTypeVars, sessionTypeVars, recoveryTypeVars,
         policyTypeVars, incidentTypeVars, modeTypeVars
    <2>2. RetryTypes'
      BY <1>16 DEF ResumeHalted, PauseFrame, signal, Types, RetryTypes
    <2>3. CountTypes'
      BY <1>16, PlayerAssumption DEF ResumeHalted, PauseFrame, signal, Types, CountTypes, PlayerAssumption
    <2>4. RunTypes'
      BY <1>16 DEF ResumeHalted, PauseFrame, signal, Types, RunTypes
    <2> QED BY <2>1, <2>2, <2>3, <2>4, PartsStutter DEF Types
  <1>17. ASSUME NEW on \in BOOLEAN, SetGate(on), PauseFrame PROVE Types'
    <2>1. UNCHANGED <<lifeTypeVars, sessionTypeVars, recoveryTypeVars, countTypeVars, policyTypeVars,
                      incidentTypeVars, modeTypeVars, runTypeVars>>
      BY <1>17 DEF SetGate, PauseFrame, lifeTypeVars, sessionTypeVars, recoveryTypeVars, countTypeVars,
         policyTypeVars, incidentTypeVars, modeTypeVars, runTypeVars
    <2>2. RetryTypes'
      BY <1>17 DEF SetGate, PauseFrame, Types, RetryTypes
    <2> QED BY <2>1, <2>2, PartsStutter DEF Types
  <1>18. CASE Shutdown
    <2>1. UNCHANGED <<sessionTypeVars, recoveryTypeVars, retryTypeVars, countTypeVars, policyTypeVars,
                      incidentTypeVars, modeTypeVars, runTypeVars>>
      BY <1>18 DEF Shutdown, sessionTypeVars, recoveryTypeVars, retryTypeVars, countTypeVars,
         policyTypeVars, incidentTypeVars, modeTypeVars, runTypeVars
    <2>2. LifeTypes'
      BY <1>18 DEF Shutdown, Types, LifeTypes
    <2> QED BY <2>1, <2>2, PartsStutter DEF Types
  <1>19. CASE Close
    <2>1. UNCHANGED <<sessionTypeVars, recoveryTypeVars, retryTypeVars, countTypeVars, policyTypeVars,
                      incidentTypeVars, modeTypeVars, runTypeVars>>
      BY <1>19 DEF Close, sessionTypeVars, recoveryTypeVars, retryTypeVars, countTypeVars, policyTypeVars,
         incidentTypeVars, modeTypeVars, runTypeVars
    <2>2. LifeTypes'
      BY <1>19 DEF Close, Types, LifeTypes
    <2> QED BY <2>1, <2>2, PartsStutter DEF Types
  <1>20. CASE LeaveCloses
    <2>1. UNCHANGED <<lifeTypeVars, retryTypeVars, countTypeVars, policyTypeVars, incidentTypeVars,
                      modeTypeVars, runTypeVars>>
      BY <1>20 DEF LeaveCloses, lifeTypeVars, retryTypeVars, countTypeVars, policyTypeVars,
         incidentTypeVars, modeTypeVars, runTypeVars
    <2>2. SessionTypes'
      BY <1>20, PlayerAssumption DEF LeaveCloses, Types, SessionTypes, PlayerAssumption
    <2>3. RecoveryTypes'
      BY <1>20 DEF LeaveCloses, Types, RecoveryTypes
    <2> QED BY <2>1, <2>2, <2>3, PartsStutter DEF Types
  <1>21. CASE CloseReturns
    <2>1. UNCHANGED <<sessionTypeVars, recoveryTypeVars, retryTypeVars, countTypeVars, policyTypeVars,
                      incidentTypeVars, modeTypeVars, runTypeVars>>
      BY <1>21 DEF CloseReturns, sessionTypeVars, recoveryTypeVars, retryTypeVars, countTypeVars,
         policyTypeVars, incidentTypeVars, modeTypeVars, runTypeVars
    <2>2. LifeTypes'
      BY <1>21 DEF CloseReturns, Types, LifeTypes
    <2> QED BY <2>1, <2>2, PartsStutter DEF Types
  <1>22. CASE RetryPersistence
    <2>1. UNCHANGED <<lifeTypeVars, sessionTypeVars, recoveryTypeVars, retryTypeVars, countTypeVars,
                      policyTypeVars, incidentTypeVars, modeTypeVars, runTypeVars>>
      BY <1>22 DEF RetryPersistence, lifeTypeVars, sessionTypeVars, recoveryTypeVars, retryTypeVars,
         countTypeVars, policyTypeVars, incidentTypeVars, modeTypeVars, runTypeVars
    <2> QED BY <2>1, PartsStutter DEF Types
  <1>23. CASE SuspendVoice
    <2>1. UNCHANGED <<lifeTypeVars, sessionTypeVars, retryTypeVars, policyTypeVars, incidentTypeVars,
                      modeTypeVars>>
      BY <1>23 DEF SuspendVoice, suspendVoice, signal, lifeTypeVars, sessionTypeVars, retryTypeVars,
         policyTypeVars, incidentTypeVars, modeTypeVars
    <2>2. RecoveryTypes'
      BY <1>23 DEF SuspendVoice, suspendVoice, signal, Types, RecoveryTypes
    <2>3. CountTypes'
      BY <1>23, PlayerAssumption DEF SuspendVoice, suspendVoice, signal, Types, CountTypes, PlayerAssumption
    <2>4. RunTypes'
      BY <1>23 DEF SuspendVoice, suspendVoice, signal, Types, RunTypes
    <2> QED BY <2>1, <2>2, <2>3, <2>4, PartsStutter DEF Types
  <1>24. CASE SuspendProvider
    <2>1. UNCHANGED <<lifeTypeVars, sessionTypeVars, recoveryTypeVars, retryTypeVars, countTypeVars,
                      modeTypeVars>>
      BY <1>24 DEF SuspendProvider, blockProvider, signal, lifeTypeVars, sessionTypeVars, recoveryTypeVars,
         retryTypeVars, countTypeVars, modeTypeVars
    <2>2. PolicyTypes'
      BY <1>24 DEF SuspendProvider, blockProvider, signal, Types, PolicyTypes
    <2>3. IncidentTypes'
      BY <1>24, PlayerAssumption DEF SuspendProvider, blockProvider, signal, Types, IncidentTypes,
         PlayerAssumption
    <2>4. RunTypes'
      BY <1>24 DEF SuspendProvider, blockProvider, signal, Types, RunTypes
    <2> QED BY <2>1, <2>2, <2>3, <2>4, PartsStutter DEF Types
  <1>25. CASE BackoffElapses
    <2>1. UNCHANGED <<lifeTypeVars, sessionTypeVars, recoveryTypeVars, countTypeVars, policyTypeVars,
                      incidentTypeVars, modeTypeVars>>
      BY <1>25 DEF BackoffElapses, RunFrame, lifeTypeVars, sessionTypeVars, recoveryTypeVars,
         countTypeVars, policyTypeVars, incidentTypeVars, modeTypeVars
    <2>2. RetryTypes'
      BY <1>25 DEF BackoffElapses, RunFrame, Types, RetryTypes
    <2>3. RunTypes'
      BY <1>25 DEF BackoffElapses, RunFrame, Types, RunTypes
    <2> QED BY <2>1, <2>2, <2>3, PartsStutter DEF Types
  <1>26. CASE ProviderElapses
    <2>1. UNCHANGED <<lifeTypeVars, sessionTypeVars, recoveryTypeVars, retryTypeVars, countTypeVars,
                      incidentTypeVars, modeTypeVars, runTypeVars>>
      BY <1>26 DEF ProviderElapses, Goto, RunFrame, lifeTypeVars, sessionTypeVars, recoveryTypeVars,
         retryTypeVars, countTypeVars, incidentTypeVars, modeTypeVars, runTypeVars
    <2>2. PolicyTypes'
      BY <1>26 DEF ProviderElapses, Goto, RunFrame, Types, PolicyTypes
    <2> QED BY <2>1, <2>2, PartsStutter DEF Types
  <1>27. CASE RunTop
    <2>1. UNCHANGED <<lifeTypeVars, sessionTypeVars, recoveryTypeVars, retryTypeVars, countTypeVars,
                      policyTypeVars, incidentTypeVars, modeTypeVars>>
      BY <1>27 DEF RunTop, Goto, RunFrame, lifeTypeVars, sessionTypeVars, recoveryTypeVars, retryTypeVars,
         countTypeVars, policyTypeVars, incidentTypeVars, modeTypeVars
    <2>2. RunTypes'
      BY <1>27 DEF RunTop, Goto, RunFrame, Types, RunTypes
    <2> QED BY <2>1, <2>2, PartsStutter DEF Types
  <1>28. CASE WaitProvider
    <2>1. UNCHANGED <<lifeTypeVars, sessionTypeVars, recoveryTypeVars, retryTypeVars, countTypeVars,
                      modeTypeVars>>
      BY <1>28 DEF WaitProvider, TrialDue, Goto, RunFrame, lifeTypeVars, sessionTypeVars, recoveryTypeVars,
         retryTypeVars, countTypeVars, modeTypeVars
    <2>2. PolicyTypes'
      BY <1>28 DEF WaitProvider, TrialDue, Goto, RunFrame, Types, PolicyTypes
    <2>3. IncidentTypes'
      BY <1>28, PlayerAssumption DEF WaitProvider, TrialDue, Goto, RunFrame, Types, IncidentTypes,
         PlayerAssumption
    <2>4. RunTypes'
      BY <1>28 DEF WaitProvider, TrialDue, Goto, RunFrame, Types, RunTypes
    <2> QED BY <2>1, <2>2, <2>3, <2>4, PartsStutter DEF Types
  <1>29. CASE Defer
    <2>1. UNCHANGED <<lifeTypeVars, sessionTypeVars, recoveryTypeVars, retryTypeVars, countTypeVars,
                      modeTypeVars>>
      BY <1>29 DEF Defer, Goto, RunFrame, finishProvider, resetProvider, signal, lifeTypeVars,
         sessionTypeVars, recoveryTypeVars, retryTypeVars, countTypeVars, modeTypeVars
    <2>2. PolicyTypes'
      BY <1>29 DEF Defer, Goto, RunFrame, finishProvider, resetProvider, signal, Types, PolicyTypes
    <2>3. IncidentTypes'
      BY <1>29, PlayerAssumption DEF Defer, Goto, RunFrame, finishProvider, resetProvider, signal, Types,
         IncidentTypes, PlayerAssumption
    <2>4. RunTypes'
      BY <1>29 DEF Defer, Goto, RunFrame, finishProvider, resetProvider, signal, Types, RunTypes
    <2> QED BY <2>1, <2>2, <2>3, <2>4, PartsStutter DEF Types
  <1>30. CASE Select
    <2>1. UNCHANGED <<lifeTypeVars, recoveryTypeVars, countTypeVars, policyTypeVars, modeTypeVars>>
      BY <1>30 DEF Select, RunFrame, lifeTypeVars, recoveryTypeVars, countTypeVars, policyTypeVars,
         modeTypeVars
    <2>2. SessionTypes'
      BY <1>30, PlayerAssumption DEF Select, RunFrame, Types, SessionTypes, PlayerAssumption
    <2>3. RetryTypes'
      BY <1>30 DEF Select, RunFrame, Types, RetryTypes
    <2>4. IncidentTypes'
      BY <1>30, PlayerAssumption DEF Select, RunFrame, Types, IncidentTypes, PlayerAssumption
    <2>5. RunTypes'
      BY <1>30 DEF Select, RunFrame, Types, RunTypes
    <2> QED BY <2>1, <2>2, <2>3, <2>4, <2>5, PartsStutter DEF Types
  <1>31. CASE SchedulerWait
    <2>1. UNCHANGED <<lifeTypeVars, sessionTypeVars, recoveryTypeVars, retryTypeVars, countTypeVars,
                      policyTypeVars, incidentTypeVars, modeTypeVars>>
      BY <1>31 DEF SchedulerWait, Goto, RunFrame, lifeTypeVars, sessionTypeVars, recoveryTypeVars,
         retryTypeVars, countTypeVars, policyTypeVars, incidentTypeVars, modeTypeVars
    <2>2. RunTypes'
      BY <1>31 DEF SchedulerWait, Goto, RunFrame, Types, RunTypes
    <2> QED BY <2>1, <2>2, PartsStutter DEF Types
  <1>32. CASE Wakeup
    <2>1. UNCHANGED <<lifeTypeVars, sessionTypeVars, recoveryTypeVars, retryTypeVars, countTypeVars,
                      policyTypeVars, incidentTypeVars, modeTypeVars>>
      BY <1>32 DEF Wakeup, Goto, RunFrame, lifeTypeVars, sessionTypeVars, recoveryTypeVars, retryTypeVars,
         countTypeVars, policyTypeVars, incidentTypeVars, modeTypeVars
    <2>2. RunTypes'
      BY <1>32 DEF Wakeup, Goto, RunFrame, Types, RunTypes
    <2> QED BY <2>1, <2>2, PartsStutter DEF Types
  <1>33. CASE WaitCanceled
    <2>1. UNCHANGED <<lifeTypeVars, sessionTypeVars, recoveryTypeVars, retryTypeVars, countTypeVars,
                      policyTypeVars, incidentTypeVars, modeTypeVars>>
      BY <1>33 DEF WaitCanceled, Goto, RunFrame, lifeTypeVars, sessionTypeVars, recoveryTypeVars,
         retryTypeVars, countTypeVars, policyTypeVars, incidentTypeVars, modeTypeVars
    <2>2. RunTypes'
      BY <1>33 DEF WaitCanceled, Goto, RunFrame, Types, RunTypes
    <2> QED BY <2>1, <2>2, PartsStutter DEF Types
  <1>34. CASE Watchdog
    <2>1. UNCHANGED <<lifeTypeVars, sessionTypeVars, recoveryTypeVars, retryTypeVars, countTypeVars,
                      policyTypeVars, incidentTypeVars, modeTypeVars>>
      BY <1>34 DEF Watchdog, Goto, RunFrame, lifeTypeVars, sessionTypeVars, recoveryTypeVars,
         retryTypeVars, countTypeVars, policyTypeVars, incidentTypeVars, modeTypeVars
    <2>2. RunTypes'
      BY <1>34 DEF Watchdog, Goto, RunFrame, Types, RunTypes
    <2> QED BY <2>1, <2>2, PartsStutter DEF Types
  <1>35. CASE RecoverBegins
    <2>1. UNCHANGED <<lifeTypeVars, recoveryTypeVars, retryTypeVars, countTypeVars, policyTypeVars,
                      incidentTypeVars, modeTypeVars>>
      BY <1>35 DEF RecoverBegins, Goto, RunFrame, lifeTypeVars, recoveryTypeVars, retryTypeVars,
         countTypeVars, policyTypeVars, incidentTypeVars, modeTypeVars
    <2>2. SessionTypes'
      <3>1. UNCHANGED <<voice, sessions, open, leaveVoice, playVoice, voiceEpoch>>
        BY <1>35 DEF RecoverBegins, Goto, RunFrame
      <3>2. rec' = rec \/ rec' = [epoch |-> voiceEpoch, session |-> voice]
        BY Zenon, <1>35 DEF RecoverBegins, Goto, RunFrame
      <3> QED BY <3>1, <3>2, PlayerAssumption DEF Types, SessionTypes, PlayerAssumption
    <2>3. RunTypes'
      BY <1>35 DEF RecoverBegins, Goto, RunFrame, Types, RunTypes
    <2> QED BY <2>1, <2>2, <2>3, PartsStutter DEF Types
  <1>36. CASE RecoverAttempt
    <2>1. UNCHANGED <<lifeTypeVars, sessionTypeVars, recoveryTypeVars, retryTypeVars, policyTypeVars,
                      incidentTypeVars, modeTypeVars>>
      BY <1>36 DEF RecoverAttempt, Goto, RunFrame, lifeTypeVars, sessionTypeVars, recoveryTypeVars,
         retryTypeVars, policyTypeVars, incidentTypeVars, modeTypeVars
    <2>2. CountTypes'
      BY <1>36, PlayerAssumption DEF RecoverAttempt, Goto, RunFrame, Types, CountTypes, PlayerAssumption
    <2>3. RunTypes'
      BY <1>36 DEF RecoverAttempt, Goto, RunFrame, Types, RunTypes
    <2> QED BY <2>1, <2>2, <2>3, PartsStutter DEF Types
  <1>37. ASSUME NEW ok \in BOOLEAN, RecoverEnds(ok) PROVE Types'
    <2>1. UNCHANGED <<lifeTypeVars, retryTypeVars, countTypeVars, policyTypeVars, incidentTypeVars,
                      modeTypeVars>>
      BY <1>37 DEF RecoverEnds, RunFrame, signal, lifeTypeVars, retryTypeVars, countTypeVars,
         policyTypeVars, incidentTypeVars, modeTypeVars
    <2>2. SessionTypes'
      BY <1>37, PlayerAssumption DEF RecoverEnds, RunFrame, signal, Types, SessionTypes, PlayerAssumption
    <2>3. RecoveryTypes'
      BY <1>37 DEF RecoverEnds, RunFrame, signal, Types, RecoveryTypes
    <2>4. RunTypes'
      BY <1>37 DEF RecoverEnds, RunFrame, signal, Types, RunTypes
    <2> QED BY <2>1, <2>2, <2>3, <2>4, PartsStutter DEF Types
  <1>38. CASE ConfirmFrame
    <2>1. UNCHANGED <<lifeTypeVars, sessionTypeVars, retryTypeVars, modeTypeVars>>
      BY <1>38 DEF ConfirmFrame, AttemptFrame, completeRecovery, finishProvider, resetProvider, signal,
         lifeTypeVars, sessionTypeVars, retryTypeVars, modeTypeVars
    <2>2. RecoveryTypes'
      BY <1>38 DEF ConfirmFrame, AttemptFrame, completeRecovery, finishProvider, resetProvider, signal,
         Types, RecoveryTypes
    <2>3. CountTypes'
      BY <1>38, PlayerAssumption DEF ConfirmFrame, AttemptFrame, completeRecovery, finishProvider,
         resetProvider, signal, Types, CountTypes, PlayerAssumption
    <2>4. PolicyTypes'
      BY <1>38 DEF ConfirmFrame, AttemptFrame, completeRecovery, finishProvider, resetProvider, signal,
         Types, PolicyTypes
    <2>5. IncidentTypes'
      BY <1>38, PlayerAssumption DEF ConfirmFrame, AttemptFrame, completeRecovery, finishProvider,
         resetProvider, signal, Types, IncidentTypes, PlayerAssumption
    <2>6. RunTypes'
      BY <1>38 DEF ConfirmFrame, AttemptFrame, completeRecovery, finishProvider, resetProvider, signal,
         Types, RunTypes
    <2> QED BY <2>1, <2>2, <2>3, <2>4, <2>5, <2>6, PartsStutter DEF Types
  <1>39. CASE SilenceFrame
    <2>1. UNCHANGED <<lifeTypeVars, sessionTypeVars, recoveryTypeVars, retryTypeVars, countTypeVars,
                      policyTypeVars, incidentTypeVars, modeTypeVars>>
      BY <1>39 DEF SilenceFrame, AttemptFrame, lifeTypeVars, sessionTypeVars, recoveryTypeVars,
         retryTypeVars, countTypeVars, policyTypeVars, incidentTypeVars, modeTypeVars
    <2>2. RunTypes'
      BY <1>39 DEF SilenceFrame, AttemptFrame, Types, RunTypes
    <2> QED BY <2>1, <2>2, PartsStutter DEF Types
  <1>40. CASE announceStart
    <2>1. UNCHANGED <<lifeTypeVars, sessionTypeVars, recoveryTypeVars, retryTypeVars, countTypeVars,
                      policyTypeVars, incidentTypeVars, modeTypeVars>>
      BY <1>40 DEF announceStart, AttemptFrame, lifeTypeVars, sessionTypeVars, recoveryTypeVars,
         retryTypeVars, countTypeVars, policyTypeVars, incidentTypeVars, modeTypeVars
    <2>2. RunTypes'
      BY <1>40 DEF announceStart, AttemptFrame, Types, RunTypes
    <2> QED BY <2>1, <2>2, PartsStutter DEF Types
  <1>41. ASSUME NEW o \in Results, PlayReturns(o) PROVE Types'
    <2>1. UNCHANGED <<lifeTypeVars, sessionTypeVars, recoveryTypeVars, retryTypeVars, countTypeVars,
                      policyTypeVars, incidentTypeVars, modeTypeVars>>
      BY <1>41 DEF PlayReturns, lifeTypeVars, sessionTypeVars, recoveryTypeVars, retryTypeVars,
         countTypeVars, policyTypeVars, incidentTypeVars, modeTypeVars
    <2>2. RunTypes'
      BY <1>41 DEF PlayReturns, Types, RunTypes
    <2> QED BY <2>1, <2>2, PartsStutter DEF Types
  <1>42. CASE EndAttempt
    <2>1. UNCHANGED <<lifeTypeVars, sessionTypeVars, modeTypeVars>>
      BY <1>42 DEF EndAttempt, RunFrame, suspendVoice, completeRecovery, blockProvider, finishProvider,
         resetProvider, signal, lifeTypeVars, sessionTypeVars, modeTypeVars
    <2>2. RecoveryTypes'
      BY <1>42 DEF EndAttempt, RunFrame, suspendVoice, completeRecovery, blockProvider, finishProvider,
         resetProvider, signal, Types, RecoveryTypes
    <2>3. RetryTypes'
      BY <1>42 DEF EndAttempt, RunFrame, suspendVoice, completeRecovery, blockProvider, finishProvider,
         resetProvider, signal, Types, RetryTypes
    <2>4. CountTypes'
      <3>1. networkAttempts' \in {networkAttempts, networkAttempts + 1, 0}
        BY <1>42 DEF EndAttempt, RunFrame, suspendVoice, completeRecovery, blockProvider, finishProvider,
           resetProvider, signal
      <3>2. failures' \in {failures, failures + 1, 0}
        BY <1>42 DEF EndAttempt, RunFrame, suspendVoice, completeRecovery, blockProvider, finishProvider,
           resetProvider, signal
      <3>3. voiceAttempts' = voiceAttempts \/ voiceAttempts' = 0
        BY <1>42 DEF EndAttempt, RunFrame, suspendVoice, completeRecovery, blockProvider, finishProvider,
           resetProvider, signal
      <3> QED BY <3>1, <3>2, <3>3, PlayerAssumption DEF Types, CountTypes, PlayerAssumption
    <2>5. PolicyTypes'
      BY <1>42 DEF EndAttempt, RunFrame, suspendVoice, completeRecovery, blockProvider, finishProvider,
         resetProvider, signal, Types, PolicyTypes
    <2>6. IncidentTypes'
      <3>1. permit' = 0 /\ playbackProviderID' = playbackProviderID
        BY <1>42 DEF EndAttempt, RunFrame, suspendVoice, completeRecovery, blockProvider, finishProvider,
           resetProvider, signal
      <3>2. blockProvider \/ finishProvider(outcome, permit) \/ UNCHANGED provVars
        BY <1>42 DEF EndAttempt
      <3> HIDE DEF provVars
      <3>3. ProviderStep
        BY <3>2, ProviderPieces
      <3> QED BY <3>1, <3>2, <3>3, PlayerAssumption DEF Types, IncidentTypes, PlayerAssumption, ProviderStep
    <2>7. RunTypes'
      BY <1>42 DEF EndAttempt, RunFrame, suspendVoice, completeRecovery, blockProvider, finishProvider,
         resetProvider, signal, Types, RunTypes
    <2> QED BY <2>1, <2>2, <2>3, <2>4, <2>5, <2>6, <2>7, PartsStutter DEF Types
  <1>43. CASE Restart
    <2>1. LifeTypes'
      <3>1. closed' = FALSE /\ closer' = "none" /\ storeOn' = TRUE
        BY Zenon, <1>43 DEF Restart
      <3>2. restarts' = restarts + 1
        BY Zenon, <1>43 DEF Restart
      <3>3. restarts \in Nat
        BY DEF Types, LifeTypes
      <3>4. restarts' \in Nat
        BY <3>2, <3>3
      <3> QED BY <3>1, <3>4 DEF LifeTypes
    <2>2. SessionTypes'
      <3>1. voice' = 0 /\ leaveVoice' = 0 /\ playVoice' = 0 /\ open' = {} /\ sessions' = sessions /\ voiceEpoch' = 0
        BY Zenon, <1>43 DEF Restart
      <3>2. rec' = [epoch |-> 0, session |-> 0]
        BY Zenon, <1>43 DEF Restart
      <3> QED BY <3>1, <3>2, PlayerAssumption DEF Types, SessionTypes, PlayerAssumption
    <2>3. RecoveryTypes'
      BY <1>43 DEF Restart, Types, RecoveryTypes
    <2>4. RetryTypes'
      BY <1>43 DEF Restart, Types, RetryTypes
    <2>5. CountTypes'
      <3>1. networkAttempts' = 0 /\ failures' = 0 /\ voiceAttempts' = 0
        BY Zenon, <1>43 DEF Restart
      <3> QED BY <3>1, PlayerAssumption DEF Types, CountTypes, PlayerAssumption
    <2>6. PolicyTypes'
      BY <1>43 DEF Restart, Types, PolicyTypes
    <2>7. IncidentTypes'
      <3>1. providerRetries' = 0 /\ providerIncident' = 0 /\ providerGeneration' = 0 /\ permit' = 0 /\ playbackProviderID' = 0
        BY Zenon, <1>43 DEF Restart
      <3> QED BY <3>1, PlayerAssumption DEF Types, IncidentTypes, PlayerAssumption
    <2>8. ModeTypes'
      <3>1. loop' = store.loop
        BY Zenon, <1>43 DEF Restart
      <3> QED BY <3>1, PlayerAssumption DEF Types, ModeTypes, PlayerAssumption, SavedMode
    <2>9. RunTypes'
      <3>1. wake' = FALSE /\ started' = FALSE /\ once' = "todo" /\ cause' = "none" /\ outcome' = "eof" /\ pc' = "top"
        BY Zenon, <1>43 DEF Restart
      <3> QED BY <3>1, PlayerAssumption DEF Types, RunTypes, PlayerAssumption, Results
    <2> QED BY <2>1, <2>2, <2>3, <2>4, <2>5, <2>6, <2>7, <2>8, <2>9, PartsStutter DEF Types
  <1>44. CASE UNCHANGED vars
    <2>1. UNCHANGED <<lifeTypeVars, sessionTypeVars, recoveryTypeVars, retryTypeVars, countTypeVars,
                      policyTypeVars, incidentTypeVars, modeTypeVars, runTypeVars>>
      BY <1>44 DEF vars, lifeTypeVars, sessionTypeVars, recoveryTypeVars, retryTypeVars, countTypeVars,
         policyTypeVars, incidentTypeVars, modeTypeVars, runTypeVars
    <2> QED BY <2>1, PartsStutter DEF Types
  <1> HIDE DEF lifeVars, voiceVars, queueVars, trackVars, runVars, retryVars, recoverVars, provVars
  <1>45. ASSUME NEW on \in BOOLEAN, SetPaused(on) PROVE Types'
    BY <1>45, <1>14, <1>15, <1>16, <1>17 DEF SetPaused
  <1>46. CASE Commands
    BY <1>46, <1>45, <1>1, <1>2, <1>4, <1>7, <1>5, <1>8, <1>9, <1>10, <1>11, <1>12, <1>13,
       <1>18 DEF Commands, Remove, Jump, Move, Shuffle, Replay
  <1>47. CASE Background \/ Events \/ Clocks \/ Watchdog
    BY <1>47, <1>20, <1>19, <1>6, <1>21, <1>22, <1>23, <1>24, <1>25, <1>26, <1>34 DEF Background, Events,
       Clocks
  <1>48. CASE Scheduler \/ Attempt
    BY <1>48, <1>27, <1>28, <1>29, <1>30, <1>31, <1>32, <1>33, <1>35, <1>36, <1>37, <1>42, <1>38, <1>39,
       <1>40, <1>41 DEF Scheduler, Attempt
  <1> QED BY <1>43, <1>44, <1>46, <1>47, <1>48 DEF Next, AtRest

-----------------------------------------------------------------------------
(***************************************************************************)
(* The error that is shown and the worker that retries.                    *)
(***************************************************************************)
ErrorShown == persistenceError \in {"", "queue", "checkpoint", "history"}
RetryBound == retry \in 0..3

\* Whatever a section does to them.
ErrorMoves == persistenceError' = persistenceError \/ persistenceError' \in {"", "queue", "checkpoint", "history"}
RetryMoves == retry' \in {retry, 0, 1} \/ (retry \in {1, 2} /\ retry' = retry + 1)

\* A save sets one of the errors, and the worker makes at most three attempts.
LEMMA SavesReport ==
    ASSUME RetryBound, Saves
    PROVE  ErrorMoves /\ RetryMoves
  <1> USE DEF storeVars, ErrorMoves, RetryMoves
  <1>1. ASSUME Persist PROVE ErrorMoves /\ RetryMoves
    BY <1>1 DEF Persist, SaveFails
  <1>2. ASSUME persistAudioCheckpoint PROVE ErrorMoves /\ RetryMoves
    BY <1>2 DEF persistAudioCheckpoint
  <1>3. ASSUME persistStart PROVE ErrorMoves /\ RetryMoves
    BY <1>1, <1>3 DEF persistStart
  <1>4. CASE RetryPersistence
    <2>1. retry > 0 /\ (retry' = 0 \/ retry' = IF retry = 3 THEN 0 ELSE retry + 1)
      BY Zenon, <1>4 DEF RetryPersistence
    <2>2. RetryMoves
      BY <2>1 DEF RetryBound
    <2>3. ErrorMoves
      BY <1>4 DEF RetryPersistence
    <2> QED BY <2>2, <2>3
  <1>5. CASE Restart
    <2>1. retry' = 0 /\ persistenceError' = ""
      BY Zenon, <1>5 DEF Restart
    <2> QED BY <2>1
  <1>6. CASE UNCHANGED storeVars
    BY <1>6
  <1> HIDE DEF ErrorMoves, RetryMoves
  <1> QED BY <1>1, <1>2, <1>3, <1>4, <1>5, <1>6 DEF Saves

\* Every variable's type, but for the lists and the ids, which CapacityInv and
\* RemovalInv bound.
TypeInv == Types /\ SavedMode /\ ErrorShown /\ RetryBound

\* A new player is typed.
LEMMA TypeInit == Init => TypeInv
  <1> SUFFICES ASSUME Init PROVE TypeInv
    OBVIOUS
  <1>1. LifeTypes /\ RecoveryTypes /\ RetryTypes /\ PolicyTypes /\ ModeTypes /\ SavedMode
    BY DEF Init, LifeTypes, RecoveryTypes, RetryTypes, PolicyTypes, ModeTypes, SavedMode, Empty
  <1>2. RunTypes
    BY DEF Init, RunTypes, Results
  <1>3. SessionTypes /\ CountTypes /\ IncidentTypes
    <2>1. /\ voice = 0 /\ sessions = 0 /\ open = {} /\ leaveVoice = 0 /\ playVoice = 0 /\ voiceEpoch = 0
          /\ rec = [epoch |-> 0, session |-> 0]
          /\ networkAttempts = 0 /\ failures = 0 /\ voiceAttempts = 0
          /\ providerRetries = 0 /\ providerIncident = 0 /\ providerGeneration = 0
          /\ permit = 0 /\ playbackProviderID = 0
      BY Zenon DEF Init
    <2> QED
      BY <2>1, PlayerAssumption DEF SessionTypes, CountTypes, IncidentTypes, PlayerAssumption
  <1>4. ErrorShown
    BY DEF Init, ErrorShown
  <1>5. RetryBound
    <2>1. retry = 0
      BY Zenon DEF Init
    <2> QED BY <2>1 DEF RetryBound
  <1> QED BY <1>1, <1>2, <1>3, <1>4, <1>5 DEF TypeInv, Types

\* Every step keeps the types.
LEMMA TypeStep == TypeInv /\ [Next]_vars => TypeInv'
  <1> SUFFICES ASSUME TypeInv, [Next]_vars PROVE TypeInv'
    OBVIOUS
  <1>1. Types'
    BY TypesStep DEF TypeInv
  <1>2. SavedMode'
    <2>1. Durable.loop = loop /\ (Durable.loop = loop)'
      BY DEF Durable
    <2>2. store' = store \/ store' = Durable \/ store' = Durable'
      BY StoreWrites DEF StoreWritten
    <2>3. store'.loop = store.loop \/ store'.loop = loop \/ store'.loop = loop'
      BY <2>1, <2>2
    <2>4. SavedMode /\ ModeTypes /\ ModeTypes'
      BY <1>1 DEF TypeInv, Types
    <2> QED BY <2>3, <2>4 DEF SavedMode, ModeTypes
  <1>3. ErrorMoves /\ RetryMoves
    BY StepSaves, SavesReport DEF TypeInv
  <1>4. ErrorShown'
    BY <1>3 DEF TypeInv, ErrorShown, ErrorMoves
  <1>5. RetryBound'
    BY <1>3 DEF TypeInv, RetryBound, RetryMoves
  <1> QED BY <1>1, <1>2, <1>4, <1>5 DEF TypeInv

\* The parts together are the type of the player.
LEMMA TypesTogether == TypeInv /\ CapacityInv /\ RemovalInv /\ SnapshotInv => TypeOK
  <1> SUFFICES ASSUME TypeInv, CapacityInv, RemovalInv, SnapshotInv PROVE TypeOK
    OBVIOUS
  <1>1. checkpoint \in 0..Duration
    BY PlayerAssumption DEF SnapshotInv, CheckpointNear, CapacityInv, PlayerOK, PlayerAssumption
  <1>2. removed \subseteq 1..MaxTracks
    BY PlayerAssumption DEF RemovalInv, IdsKnown, CapacityInv, PlayerOK, PlayerAssumption
  <1>3. PlayerOK /\ Types /\ ErrorShown /\ RetryBound
    BY DEF TypeInv, CapacityInv
  <1> QED
    BY <1>1, <1>2, <1>3, Zenon DEF TypeOK, PlayerOK, Types, LifeTypes, SessionTypes, RecoveryTypes, RetryTypes,
       CountTypes, PolicyTypes, IncidentTypes, ModeTypes, RunTypes, ErrorShown, RetryBound

\* What a crash at any moment leaves: the snapshot restores exactly what the player
\* holds and less than five seconds of audio are repeated, unless an error is shown.
THEOREM SnapshotsFaithful == Spec => []SnapshotFaithful
  <1>1. Spec => []CapacityInv
    BY CapacityInit, CapacityStep, PTL DEF Spec
  <1>2. Spec => []RemovalInv
    BY <1>1, RemovalInit, RemovalStep, PTL DEF Spec
  <1>3. Spec => []CurrentPlays
    BY SnapshotInit, CurrentStep, PTL DEF Spec
  <1>4. RemovalInv => SavesWhileOpen
    BY DEF RemovalInv
  <1>5. Spec => []SnapshotInv
    BY <1>1, <1>2, <1>3, <1>4, SnapshotInit, SnapshotStep, PTL DEF Spec
  <1>6. Spec => []TypeInv
    BY TypeInit, TypeStep, PTL DEF Spec
  <1>7. TypeInv /\ CapacityInv /\ RemovalInv /\ SnapshotInv => SnapshotFaithful
    BY TypesTogether, SnapshotImplies DEF SnapshotFaithful
  <1> QED BY <1>1, <1>2, <1>5, <1>6, <1>7, PTL

-----------------------------------------------------------------------------
(***************************************************************************)
(* Losses and progress.  Resumes is what the player holds, each entry with *)
(* the position it resumes from.                                           *)
(***************************************************************************)
Resumes == Members(queue) \cup (IF current = <<>> THEN {} ELSE {Retained})

\* The members of a joined list, of a stretch of one, of the shortest ones.
LEMMA MembersOfJoin ==
    ASSUME NEW S, NEW s \in Seq(S), NEW t \in Seq(S)
    PROVE  Members(s \o t) = Members(s) \cup Members(t)
  <1>1. /\ DOMAIN s = 1..Len(s) /\ DOMAIN t = 1..Len(t) /\ DOMAIN (s \o t) = 1..(Len(s) + Len(t))
        /\ Len(s) \in Nat /\ Len(t) \in Nat
        /\ \A i \in 1..(Len(s) + Len(t)) : (s \o t)[i] = IF i <= Len(s) THEN s[i] ELSE t[i - Len(s)]
    BY ConcatProperties, LenProperties
  <1>2. ASSUME NEW i \in DOMAIN (s \o t) PROVE (s \o t)[i] \in Members(s) \cup Members(t)
    <2>1. CASE i <= Len(s)
      BY <1>1, <2>1 DEF Members
    <2>2. CASE i > Len(s)
      <3>1. i - Len(s) \in DOMAIN t /\ (s \o t)[i] = t[i - Len(s)]
        BY <1>1, <2>2
      <3> QED BY <3>1 DEF Members
    <2> QED BY <1>1, <2>1, <2>2
  <1>3. ASSUME NEW i \in DOMAIN s PROVE s[i] \in Members(s \o t)
    <2>1. i \in DOMAIN (s \o t) /\ (s \o t)[i] = s[i]
      BY <1>1
    <2> QED BY <2>1 DEF Members
  <1>4. ASSUME NEW i \in DOMAIN t PROVE t[i] \in Members(s \o t)
    <2>1. i + Len(s) \in DOMAIN (s \o t) /\ (s \o t)[i + Len(s)] = t[i]
      BY <1>1
    <2> QED BY <2>1 DEF Members
  <1> QED BY <1>2, <1>3, <1>4 DEF Members

LEMMA MembersOfStretch ==
    ASSUME NEW S, NEW s \in Seq(S), NEW m \in 1..(Len(s) + 1), NEW n \in 0..Len(s)
    PROVE  Members(SubSeq(s, m, n)) \subseteq Members(s)
  <1>1. DOMAIN s = 1..Len(s) /\ Len(s) \in Nat
    BY LenProperties
  <1>2. \A i \in m..n : s[i] \in S
    BY <1>1, LenProperties
  <1>3. DOMAIN SubSeq(s, m, n) = 1..(IF m <= n THEN n - m + 1 ELSE 0)
    BY <1>2, SubSeqProperties, Stretch, LenProperties
  <1>4. ASSUME NEW i \in DOMAIN SubSeq(s, m, n)
        PROVE  m + i - 1 \in DOMAIN s /\ SubSeq(s, m, n)[i] = s[m + i - 1]
    <2>1. m <= n /\ i \in 1..(n - m + 1)
      BY <1>1, <1>3
    <2>2. SubSeq(s, m, n)[i] = s[m + i - 1]
      BY <1>1, <1>2, <2>1, SubSeqProperties
    <2> QED BY <1>1, <2>1, <2>2
  <1> QED BY <1>4 DEF Members

LEMMA MembersOfFew ==
    /\ Members(<<>>) = {}
    /\ \A t : Members(<<t>>) = {t}
    /\ \A s : IdSet(s) = {t.id : t \in Members(s)}
  <1>1. Members(<<>>) = {}
    BY DEF Members
  <1>2. ASSUME NEW t PROVE Members(<<t>>) = {t}
    BY DEF Members
  <1>3. ASSUME NEW s PROVE IdSet(s) = {t.id : t \in Members(s)}
    BY DEF Members, IdSet
  <1> QED BY <1>1, <1>2, <1>3

\* A list, its first element and the rest.
LEMMA MembersOfTail ==
    ASSUME NEW s \in Seq(Tracks), s # <<>>
    PROVE  s[1] \in Tracks /\ s[1] \in Members(s) /\ Members(s) = {s[1]} \cup Members(Tail(s))
  <1>1. Len(s) \in Nat \ {0} /\ DOMAIN s = 1..Len(s)
    BY EmptySeq, LenProperties
  <1>2. s[1] \in Tracks /\ s[1] \in Members(s)
    BY <1>1, ElementOfSeq DEF Members
  <1>3. Tail(s) \in Seq(Tracks) /\ s = <<s[1]>> \o Tail(s)
    BY <1>1, HeadTailProperties
  <1> DEFINE e == <<s[1]>>
  <1>4. e \in Seq(Tracks) /\ Members(e) = {s[1]}
    <2>1. \A t \in Tracks : <<t>> \in Seq(Tracks) /\ Members(<<t>>) = {t}
      BY ShortLists, MembersOfFew
    <2> QED BY <1>2, <2>1, Zenon
  <1> HIDE DEF e
  <1>5. Members(e \o Tail(s)) = Members(e) \cup Members(Tail(s))
    <2>1. e \in Seq(Tracks) /\ Tail(s) \in Seq(Tracks)
      BY <1>3, <1>4, Zenon
    <2> QED BY <2>1, MembersOfJoin
  <1>6. s = e \o Tail(s)
    BY <1>3 DEF e
  <1> QED BY <1>2, <1>4, <1>5, <1>6

\* An entry taken out, and put somewhere else.
LEMMA MembersWithout ==
    ASSUME NEW s \in Seq(Tracks), NEW k \in 1..Len(s)
    PROVE  Members(Without(s, k)) \subseteq Members(s)
  <1> DEFINE a == SubSeq(s, 1, k - 1)
             b == SubSeq(s, k + 1, Len(s))
  <1>1. 1 \in 1..(Len(s) + 1) /\ k - 1 \in 0..Len(s) /\ k + 1 \in 1..(Len(s) + 1) /\ Len(s) \in 0..Len(s)
    BY LenProperties
  <1>2. a \in Seq(Tracks) /\ b \in Seq(Tracks)
    BY <1>1, Stretch
  <1>3. Members(a) \subseteq Members(s) /\ Members(b) \subseteq Members(s)
    BY <1>1, MembersOfStretch
  <1>4. Without(s, k) = a \o b
    BY DEF Without
  <1> HIDE DEF a, b
  <1>5. Members(a \o b) = Members(a) \cup Members(b)
    BY <1>2, MembersOfJoin
  <1> QED BY <1>3, <1>4, <1>5

LEMMA MembersInserted ==
    ASSUME NEW s \in Seq(Tracks), NEW t \in Tracks, NEW j \in 1..(Len(s) + 1)
    PROVE  Members(SubSeq(s, 1, j - 1) \o <<t>> \o SubSeq(s, j, Len(s))) \subseteq Members(s) \cup {t}
  <1> DEFINE a == SubSeq(s, 1, j - 1)
             b == SubSeq(s, j, Len(s))
             e == <<t>>
  <1>1. 1 \in 1..(Len(s) + 1) /\ j - 1 \in 0..Len(s) /\ Len(s) \in 0..Len(s)
    BY LenProperties
  <1>2. a \in Seq(Tracks) /\ b \in Seq(Tracks)
    BY <1>1, Stretch
  <1>3. Members(a) \subseteq Members(s) /\ Members(b) \subseteq Members(s)
    BY <1>1, MembersOfStretch
  <1>4. e \in Seq(Tracks) /\ Members(e) = {t}
    BY ShortLists, MembersOfFew
  <1> HIDE DEF a, b, e
  <1>5. a \o e \in Seq(Tracks)
    BY <1>2, <1>4, ConcatProperties
  <1>6. Members(a \o e \o b) = Members(a \o e) \cup Members(b)
    BY <1>2, <1>5, MembersOfJoin
  <1>7. Members(a \o e) \subseteq Members(s) \cup {t}
    <2>1. Members(a \o e) = Members(a) \cup Members(e)
      BY <1>2, <1>4, MembersOfJoin
    <2> QED BY <1>3, <1>4, <2>1
  <1>8. Members(a \o e \o b) \subseteq Members(s) \cup {t}
    BY <1>3, <1>6, <1>7
  <1> QED BY <1>8 DEF a, b, e

\* Every entry goes on from one with the same id that was not further.
Onward == \A t \in Resumes' : \E s \in Resumes : s.id = t.id /\ s.off <= t.off

\* The queue, the current track and how far it is.
resumeVars == <<queue, current, confirmed>>

\* The entries are tracks.
LEMMA ResumesOK == PlayerOK => Resumes \subseteq Tracks
  <1> SUFFICES ASSUME PlayerOK PROVE Resumes \subseteq Tracks
    OBVIOUS
  <1>1. Members(queue) \subseteq Tracks
    BY ElementOfSeq, LenProperties DEF PlayerOK, Members
  <1>2. current # <<>> => Retained \in Tracks
    BY CurrentTrack
  <1> QED BY <1>1, <1>2 DEF Resumes

\* An entry that is still there.
LEMMA StillThere == ASSUME PlayerOK, Resumes' \subseteq Resumes PROVE Onward
  <1> SUFFICES ASSUME NEW t \in Resumes' PROVE \E s \in Resumes : s.id = t.id /\ s.off <= t.off
    BY DEF Onward
  <1>1. t \in Resumes
    OBVIOUS
  <1>2. t.off \in 0..Duration
    BY <1>1, ResumesOK DEF Tracks
  <1>3. t.off <= t.off
    BY <1>2, PlayerAssumption DEF PlayerAssumption
  <1> QED BY <1>1, <1>3

\* A shorter or reordered queue, with the current track or without.
LEMMA FewerThere ==
    ASSUME PlayerOK, Members(queue') \subseteq Resumes,
           \/ current' = <<>>
           \/ UNCHANGED <<current, confirmed>>
    PROVE  Onward
  <1>1. CASE current' = <<>>
    <2>1. Resumes' \subseteq Resumes
      BY <1>1 DEF Resumes, Members
    <2> QED BY <2>1, StillThere
  <1>2. CASE UNCHANGED <<current, confirmed>>
    <2>1. Retained' = Retained
      BY <1>2 DEF Retained
    <2>2. Resumes' \subseteq Resumes
      BY <1>2, <2>1 DEF Resumes, Members
    <2> QED BY <2>2, StillThere
  <1> QED BY <1>1, <1>2

\* The commands that shorten or reorder the queue, and the ones that empty it.
LEMMA CommandsOnward ==
    ASSUME PlayerOK,
           \/ \E n \in 1..2 : SkipN(n)
           \/ \E k \in DOMAIN queue : Remove(k) \/ Jump(k) \/ \E j \in DOMAIN queue : Move(k, j)
           \/ Shuffle \/ Stop \/ Clear \/ Leave \/ CloseLeaves
    PROVE  Onward
  <1>0. /\ queue \in Seq(Tracks) /\ Len(queue) \in Nat /\ DOMAIN queue = 1..Len(queue)
        /\ Members(queue) \subseteq Resumes
    BY LenProperties DEF PlayerOK, Resumes
  <1>1. ASSUME NEW q, Members(q) \subseteq Members(queue), Reordered(q) \/ GoesOnWith(q) PROVE Onward
    <2>1. queue' = q /\ (current' = <<>> \/ UNCHANGED <<current, confirmed>>)
      BY <1>1 DEF Reordered, GoesOnWith, cancelTrack, trackVars
    <2> QED BY <1>0, <1>1, <2>1, FewerThere
  <1>2. ASSUME NEW n \in 1..2, SkipN(n) PROVE Onward
    <2> DEFINE skips == IF current # <<>> THEN 1 ELSE 0
               drop  == IF n - skips < Len(queue) THEN n - skips ELSE Len(queue)
    <2>1. drop \in 0..Len(queue)
      BY <1>0
    <2>2. queue' = SubSeq(queue, drop + 1, Len(queue))
      BY <1>2 DEF SkipN
    <2>3. current' = <<>> \/ UNCHANGED <<current, confirmed>>
      BY <1>2 DEF SkipN, cancelTrack, trackVars
    <2> HIDE DEF drop
    <2>4. drop + 1 \in 1..(Len(queue) + 1) /\ Len(queue) \in 0..Len(queue)
      BY <1>0, <2>1
    <2>5. Members(queue') \subseteq Members(queue)
      BY <1>0, <2>2, <2>4, MembersOfStretch
    <2> QED BY <1>0, <2>3, <2>5, FewerThere
  <1>3. ASSUME NEW k \in DOMAIN queue, Remove(k) PROVE Onward
    BY <1>0, <1>1, <1>3, MembersWithout DEF Remove
  <1>4. ASSUME NEW k \in DOMAIN queue, Jump(k) PROVE Onward
    <2>1. Members(SubSeq(queue, k, Len(queue))) \subseteq Members(queue)
      <3>1. k \in 1..(Len(queue) + 1) /\ Len(queue) \in 0..Len(queue)
        BY <1>0
      <3> QED BY <1>0, <3>1, MembersOfStretch
    <2>2. GoesOnWith(SubSeq(queue, k, Len(queue)))
      BY <1>4 DEF Jump
    <2> QED BY <1>1, <2>1, <2>2
  <1>5. ASSUME NEW i \in DOMAIN queue, NEW j \in DOMAIN queue, Move(i, j) PROVE Onward
    <2> DEFINE rest == Without(queue, i)
               moved == SubSeq(rest, 1, j - 1) \o <<queue[i]>> \o SubSeq(rest, j, Len(rest))
    <2>1. rest \in Seq(Tracks) /\ Len(rest) = Len(queue) - 1
      BY <1>0, WithoutOne
    <2>2. Members(rest) \subseteq Members(queue)
      BY <1>0, MembersWithout
    <2>3. Reordered(moved)
      BY <1>5 DEF Move
    <2>4. queue[i] \in Tracks /\ queue[i] \in Members(queue) /\ j \in 1..(Len(rest) + 1)
      BY <1>0, <2>1, ElementOfSeq DEF Members
    <2> HIDE DEF rest
    <2>5. Members(moved) \subseteq Members(rest) \cup {queue[i]}
      BY <2>1, <2>4, MembersInserted
    <2> HIDE DEF moved
    <2>6. Members(moved) \subseteq Members(queue)
      BY <2>2, <2>4, <2>5
    <2> QED BY <1>1, <2>3, <2>6
  <1>6. ASSUME Shuffle PROVE Onward
    <2>1. PICK p \in [DOMAIN queue -> DOMAIN queue] : Reordered([k \in DOMAIN queue |-> queue[p[k]]])
      BY <1>6 DEF Shuffle
    <2>2. Members([k \in DOMAIN queue |-> queue[p[k]]]) \subseteq Members(queue)
      BY <2>1 DEF Members
    <2> QED BY <1>1, <2>1, <2>2
  <1>7. ASSUME Stop \/ Clear \/ Leave \/ CloseLeaves PROVE Onward
    <2>1. queue' = <<>>
      BY <1>7 DEF Stop, Clear, Leave, CloseLeaves, Detach, EndSession
    <2>2. current' = <<>> \/ UNCHANGED <<current, confirmed>>
      BY <1>7 DEF Stop, Clear, Leave, CloseLeaves, Detach, EndSession, cancelTrack, trackVars
    <2>3. Members(queue') = {}
      BY <2>1, MembersOfFew
    <2> QED BY <2>2, <2>3, FewerThere
  <1> QED BY <1>2, <1>3, <1>4, <1>5, <1>6, <1>7

\* A playback: the head is taken where it stands, a frame moves it on, and the end
\* of an attempt puts it back where it is, but for /loop.
LEMMA PlaybackOnward ==
    ASSUME PlayerOK, PlayerOK', Select \/ (EndAttempt /\ loop = "off") \/ ConfirmFrame \/ announceStart
    PROVE  Onward
  <1>0. queue \in Seq(Tracks)
    BY DEF PlayerOK
  <1>1. CASE Select
    <2>1. queue # <<>> /\ current' = <<queue[1]>> /\ queue' = Tail(queue) /\ confirmed' = queue[1].off
      BY <1>1 DEF Select, Reason
    <2>2. queue[1] \in Tracks /\ queue[1] \in Members(queue) /\ Members(queue') \subseteq Members(queue)
      BY <1>0, <2>1, MembersOfTail
    <2>3. current'[1] = queue[1]
      BY <2>1
    <2>4. Retained' = [id |-> queue[1].id, off |-> queue[1].off]
      BY <2>1, <2>3 DEF Retained, Track
    <2>5. Retained' = queue[1]
      BY <2>2, <2>4 DEF Tracks
    <2>6. Resumes' \subseteq Resumes
      BY <2>2, <2>5 DEF Resumes, Members
    <2> QED BY <2>6, StillThere
  <1>2. CASE EndAttempt /\ loop = "off"
    <2>1. current' = <<>>
      BY <1>2 DEF EndAttempt
    <2>2. queue' = queue \/ (current # <<>> /\ queue' = <<Retained>> \o queue)
      BY <1>2 DEF EndAttempt, TransportFailure, ExpectedCancel, ProviderFailure, NetworkRetry, ResumeFailed, Advances,
                  Kept, Looped
    <2>3. ASSUME current # <<>>, queue' = <<Retained>> \o queue PROVE Members(queue') \subseteq Resumes
      <3> DEFINE e == <<Retained>>
      <3>1. e \in Seq(Tracks) /\ Members(e) = {Retained}
        <4>1. \A t \in Tracks : <<t>> \in Seq(Tracks) /\ Members(<<t>>) = {t}
          BY ShortLists, MembersOfFew
        <4>2. Retained \in Tracks
          BY <2>3, CurrentTrack
        <4> QED BY <4>1, <4>2, Zenon
      <3>2. queue' = e \o queue
        BY <2>3
      <3> HIDE DEF e
      <3>3. Members(e \o queue) = Members(e) \cup Members(queue)
        BY <1>0, <3>1, MembersOfJoin
      <3> QED BY <2>3, <3>1, <3>2, <3>3 DEF Resumes
    <2>4. Members(queue') \subseteq Resumes
      BY <2>2, <2>3 DEF Resumes
    <2> QED BY <2>1, <2>4, FewerThere
  <1>3. CASE ConfirmFrame
    <2>1. UNCHANGED <<queue, current>>
      BY <1>3 DEF ConfirmFrame, AttemptFrame
    <2>2. CASE confirmed' = confirmed
      BY <2>1, <2>2, FewerThere DEF Resumes
    <2>3. CASE confirmed' = confirmed + 1 /\ current # <<>>
      <3>1. Retained'.id = Retained.id /\ Retained.off = confirmed /\ Retained'.off = confirmed + 1
        BY <2>1, <2>3 DEF Retained, Track
      <3>2. Retained.off <= Retained'.off
        BY <3>1 DEF PlayerOK
      <3>3. Retained \in Resumes /\ Resumes' = Members(queue) \cup {Retained'} /\ Members(queue) \subseteq Resumes
        BY <2>1, <2>3 DEF Resumes, Members
      <3>4. ASSUME NEW t \in Members(queue) PROVE t.id = t.id /\ t.off <= t.off
        <4>1. t.off \in 0..Duration
          BY <3>3, ResumesOK DEF Tracks
        <4> QED BY <4>1, PlayerAssumption DEF PlayerAssumption
      <3> QED BY <3>1, <3>2, <3>3, <3>4 DEF Onward
    <2>4. confirmed' = confirmed \/ (confirmed' = confirmed + 1 /\ current # <<>>)
      BY <1>3 DEF ConfirmFrame
    <2> QED BY <2>2, <2>3, <2>4
  <1>4. CASE announceStart
    <2>1. UNCHANGED resumeVars
      BY <1>4 DEF announceStart, AttemptFrame, resumeVars
    <2> QED BY <2>1, FewerThere DEF Resumes, resumeVars
  <1> QED BY <1>1, <1>2, <1>3, <1>4

\* A /play adds entries and keeps the others.
LEMMA RequestAdds ==
    ASSUME PlayerOK, NEW u \in Users, EnqueueMany(u)
    PROVE  Resumes \subseteq Resumes'
  <1>1. UNCHANGED <<current, confirmed>> /\ request[u] # <<>>
    BY DEF EnqueueMany, trackVars
  <1>2. Retained' = Retained
    BY <1>1 DEF Retained
  <1>3. Members(queue) \subseteq Members(queue')
    <2> DEFINE ts == request[u][1].tracks
    <2>1. queue' = queue \/ queue' = queue \o ts
      BY DEF EnqueueMany
    <2>2. queue \in Seq(Tracks) /\ ts \in Seq(Tracks)
      BY <1>1, RequestOf DEF PlayerOK
    <2> HIDE DEF ts
    <2>3. Members(queue \o ts) = Members(queue) \cup Members(ts)
      BY <2>2, MembersOfJoin
    <2> QED BY <2>1, <2>3
  <1> QED BY <1>1, <1>2, <1>3 DEF Resumes, Members

\* What is held has an entry; an id that is held once has one offset.
EachResumes == \A i \in IdSet(Held) : \E t \in Resumes : t.id = i
OneOffset   == \A i : OnceHeld(i) => \A t \in Resumes : t.id = i => t.off = OffsetOf(i)

\* What is held is listed in Resumes.
LEMMA ResumesHeld == PlayerOK => EachResumes
  <1> SUFFICES ASSUME PlayerOK, NEW i \in IdSet(Held) PROVE \E t \in Resumes : t.id = i
    BY DEF EachResumes
  <1>1. i \in IdSet(queue) \cup IdSet(current)
    BY HeldIsIds DEF HeldIds
  <1>2. CASE i \in IdSet(queue)
    <2>1. \E t \in Members(queue) : t.id = i
      BY <1>2, MembersOfFew
    <2> QED BY <2>1 DEF Resumes
  <1>3. CASE i \in IdSet(current)
    <2>1. current # <<>>
      BY <1>3, IdsOfFew
    <2>2. i = Retained.id
      BY <1>3, <2>1, IdsOfCurrent DEF Retained, Track
    <2> QED BY <2>1, <2>2 DEF Resumes
  <1> QED BY <1>1, <1>2, <1>3

\* An id that is held once has one place in Held.
LEMMA OnePlace ==
    ASSUME PlayerOK, NEW i, OnceHeld(i)
    PROVE  \A k, l \in DOMAIN Held : Held[k].id = i /\ Held[l].id = i => k = l
  <1> DEFINE P == {k \in DOMAIN Held : Held[k].id = i}
  <1>1. Held \in Seq(Tracks)
    BY ConcatProperties DEF PlayerOK, Held
  <1>2. DOMAIN Held = 1..Len(Held) /\ Len(Held) \in Nat
    BY <1>1, LenProperties
  <1>3. IsFiniteSet(1..Len(Held))
    BY <1>2, FS_Interval
  <1>4. P \in SUBSET (1..Len(Held))
    BY <1>2
  <1>5. IsFiniteSet(P)
    BY <1>3, <1>4, FS_Subset
  <1>6. Cardinality(P) = 1
    BY DEF OnceHeld
  <1> HIDE DEF P
  <1>7. \E x : P = {x}
    BY <1>5, <1>6, FS_Singleton
  <1>8. \A k, l \in P : k = l
    BY <1>7
  <1> QED BY <1>8 DEF P

\* Its offset is the one it resumes from.
LEMMA OnceOffset == PlayerOK => OneOffset
  <1> SUFFICES ASSUME PlayerOK, NEW i, OnceHeld(i), NEW t \in Resumes, t.id = i PROVE t.off = OffsetOf(i)
    BY DEF OneOffset
  <1>1. /\ queue \in Seq(Tracks) /\ current \in Seq(Tracks) /\ Len(queue) \in Nat /\ Len(current) \in Nat
        /\ DOMAIN queue = 1..Len(queue) /\ DOMAIN current = 1..Len(current)
    BY LenProperties DEF PlayerOK
  <1>2. /\ DOMAIN Held = 1..(Len(current) + Len(queue))
        /\ \A k \in 1..(Len(current) + Len(queue)) :
             Held[k] = IF k <= Len(current) THEN current[k] ELSE queue[k - Len(current)]
    BY <1>1, ConcatProperties, LenProperties DEF Held
  <1>3. \A k, l \in DOMAIN Held : Held[k].id = i /\ Held[l].id = i => k = l
    BY OnePlace
  <1>4. ASSUME NEW k \in DOMAIN queue
        PROVE  /\ Len(current) + k \in DOMAIN Held /\ Held[Len(current) + k] = queue[k]
               /\ Len(current) + k # 1 \/ Len(current) = 0
    BY <1>1, <1>2
  <1>5. CASE current # <<>> /\ current[1].id = i
    <2>1. Len(current) = 1 /\ 1 \in DOMAIN Held /\ Held[1] = current[1]
      <3>1. Len(current) = 1
        BY <1>5, CurrentTrack
      <3>2. 1 \in 1..(Len(current) + Len(queue)) /\ 1 <= Len(current)
        BY <1>1, <3>1
      <3> QED BY <1>2, <3>1, <3>2
    <2>2. ASSUME t \in Members(queue) PROVE FALSE
      <3>1. PICK k \in DOMAIN queue : queue[k] = t
        BY <2>2 DEF Members
      <3>2. Len(current) + k \in DOMAIN Held /\ Held[Len(current) + k].id = i /\ Len(current) + k # 1
        BY <1>4, <2>1, <3>1
      <3> QED BY <1>3, <1>5, <2>1, <3>2
    <2>3. t = Retained
      BY <2>2 DEF Resumes
    <2> QED BY <1>5, <2>3 DEF OffsetOf, Retained, Track
  <1>6. CASE ~(current # <<>> /\ current[1].id = i)
    <2>1. t \in Members(queue)
      <3>1. t = Retained => t.id = current[1].id
        BY DEF Retained, Track
      <3> QED BY <1>6, <3>1 DEF Resumes
    <2>2. PICK l \in DOMAIN queue : queue[l] = t
      BY <2>1 DEF Members
    <2> DEFINE k == CHOOSE n \in DOMAIN queue : queue[n].id = i
    <2>3. k \in DOMAIN queue /\ queue[k].id = i
      BY <2>2
    <2>4. OffsetOf(i) = queue[k].off
      BY <1>6 DEF OffsetOf
    <2> HIDE DEF k
    <2>5. Len(current) + k = Len(current) + l
      BY <1>3, <1>4, <2>2, <2>3
    <2>6. k = l
      BY <1>1, <2>2, <2>3, <2>5
    <2> QED BY <2>2, <2>4, <2>6
  <1> QED BY <1>5, <1>6

\* What a step may never do to the position of a track.
GoesBack == Replay \/ Previous \/ Restart \/ (EndAttempt /\ loop # "off")

\* Any other step moves every entry on, or adds entries.
LEMMA StepOnward ==
    ASSUME PlayerOK, PlayerOK', [Next]_vars, ~GoesBack
    PROVE  Onward \/ Resumes \subseteq Resumes'
  <1>1. ASSUME UNCHANGED resumeVars PROVE Resumes \subseteq Resumes'
    BY <1>1 DEF resumeVars, Resumes, Retained, Members
  <1>2. ASSUME UNCHANGED keptVars PROVE Resumes \subseteq Resumes'
    BY <1>1, <1>2 DEF keptVars, resumeVars
  <1>3. ASSUME NEW u \in Users, NEW n \in 1..MaxBatch, Ask(u, n) PROVE Resumes \subseteq Resumes'
    BY <1>1, <1>3 DEF Ask, resumeVars, queueVars, trackVars
  <1>4. ASSUME Attach PROVE Resumes \subseteq Resumes'
    BY <1>1, <1>4 DEF Attach, resumeVars, trackVars
  <1>5. ASSUME Commands PROVE Onward \/ Resumes \subseteq Resumes'
    BY <1>2, <1>3, <1>4, <1>5, RequestAdds, CommandsOnward, QuietKeepsLists DEF Commands, GoesBack
  <1>6. ASSUME Background \/ Events \/ Clocks \/ Watchdog PROVE Onward \/ Resumes \subseteq Resumes'
    BY <1>2, <1>6, CommandsOnward, QuietKeepsLists DEF Background, Events, Clocks
  <1>7. ASSUME Scheduler PROVE Onward \/ Resumes \subseteq Resumes'
    BY <1>2, <1>7, PlaybackOnward, QuietKeepsLists DEF Scheduler, GoesBack
  <1>8. ASSUME Attempt PROVE Onward \/ Resumes \subseteq Resumes'
    BY <1>2, <1>8, PlaybackOnward, QuietKeepsLists DEF Attempt
  <1>9. ASSUME UNCHANGED vars PROVE Resumes \subseteq Resumes'
    BY <1>2, <1>9, QuietKeepsLists
  <1> QED BY <1>5, <1>6, <1>7, <1>8, <1>9 DEF Next, AtRest, GoesBack

\* The position a track resumes from does not go back in such a step.
LEMMA ProgressStep ==
    ASSUME PlayerOK, PlayerOK', [Next]_vars, ~GoesBack,
           NEW i \in IdSet(Held) \intersect IdSet(Held'), OnceHeld(i), OnceHeld(i)'
    PROVE  ~(OffsetOf(i)' < OffsetOf(i))
  <1>0. OneOffset /\ EachResumes /\ Resumes \subseteq Tracks
    BY OnceOffset, ResumesHeld, ResumesOK
  <1>1. (OneOffset /\ EachResumes /\ Resumes \subseteq Tracks)'
    BY OnceOffset, ResumesHeld, ResumesOK, PTL
  <1>4. ASSUME NEW s \in Resumes, NEW t \in Resumes', s.id = i, t.id = i, s.off <= t.off
        PROVE  ~(OffsetOf(i)' < OffsetOf(i))
    <2> DEFINE before == OffsetOf(i)
               after  == OffsetOf(i)'
    <2>1. s.off = before /\ t.off = after
      <3>1. s.off = OffsetOf(i)
        BY <1>0, <1>4 DEF OneOffset
      <3>2. t.off = OffsetOf(i)'
        BY <1>1, <1>4 DEF OneOffset
      <3> QED BY <3>1, <3>2
    <2>2. s.off \in Nat /\ t.off \in Nat
      BY <1>0, <1>1, <1>4, PlayerAssumption DEF Tracks, PlayerAssumption
    <2> HIDE DEF before, after
    <2>3. ~(after < before)
      BY <1>4, <2>1, <2>2
    <2> QED BY <2>3 DEF before, after
  <1>5. CASE Onward
    <2>1. PICK t \in Resumes' : t.id = i
      BY <1>1 DEF EachResumes
    <2> QED BY <1>4, <1>5, <2>1 DEF Onward
  <1>6. CASE Resumes \subseteq Resumes'
    <2>1. PICK s \in Resumes : s.id = i
      BY <1>0 DEF EachResumes
    <2>2. s.off <= s.off
      BY <1>0, <2>1, PlayerAssumption DEF Tracks, PlayerAssumption
    <2> QED BY <1>4, <1>6, <2>1, <2>2
  <1> QED BY <1>5, <1>6, StepOnward

\* Resuming never goes back: a voice or provider incident, a media retry, a failed
\* resume, a pause, a reorder or a skip of another track leave a held track at the
\* audio that was confirmed; only /replay, /previous, /loop and a crash move it back.
THEOREM ProgressNeverLost == Spec => ProgressKept
  <1> DEFINE Keeps == \A i \in IdSet(Held) \intersect IdSet(Held') :
                        OnceHeld(i) /\ OnceHeld(i)' /\ OffsetOf(i)' < OffsetOf(i) =>
                            Replay \/ Previous \/ Restart \/ (EndAttempt /\ loop # "off")
  <1>1. CapacityInv /\ CapacityInv' /\ [Next]_vars => [Keeps]_vars
    BY ProgressStep DEF CapacityInv, GoesBack
  <1>2. Spec => []CapacityInv
    BY CapacityInit, CapacityStep, PTL DEF Spec
  <1> QED BY <1>1, <1>2, PTL DEF Spec, ProgressKept

-----------------------------------------------------------------------------
(***************************************************************************)
(* Losses.  An attempt that was cancelled has forgotten its track, or the  *)
(* process is closed: so a track that is dropped at the end of an attempt  *)
(* was heard, or its recording failed on its own.                          *)
(***************************************************************************)
CanceledForgets == cause = "canceled" => current = <<>> \/ closed
CanceledByCause == pc = "ended" /\ outcome = "canceled" => cause # "none"
CauseInv == CanceledForgets /\ CanceledByCause

\* What it is about.
causeVars == <<cause, current, closed, outcome>>

\* Every step keeps it.
LEMMA CauseStep == CauseInv /\ [Next]_vars => CauseInv'
  <1> SUFFICES ASSUME CauseInv, [Next]_vars PROVE CauseInv'
    OBVIOUS
  <1> DEFINE Same   == UNCHANGED causeVars /\ (pc' = "ended" => pc = "ended")
             Forgot == current' = <<>> /\ UNCHANGED <<pc, outcome>> /\ (cause' = cause \/ pc = "playing")
  <1> USE DEF causeVars, lifeVars, trackVars, runVars
  <1>1. ASSUME Same PROVE CauseInv'
    BY <1>1 DEF CauseInv, CanceledForgets, CanceledByCause
  <1>2. ASSUME Forgot PROVE CauseInv'
    BY <1>2 DEF CauseInv, CanceledForgets, CanceledByCause
  <1>3. ASSUME cancelTrack, UNCHANGED pc PROVE Forgot
    BY <1>3 DEF cancelTrack
  <1>4. ASSUME NEW q, Reordered(q) PROVE Same
    BY <1>4 DEF Reordered, QueueCommandFrame
  <1>5. ASSUME NEW q, GoesOnWith(q) PROVE Forgot
    BY <1>3, <1>5 DEF GoesOnWith, QueueCommandFrame
  <1>6. ASSUME EndSession PROVE Forgot
    BY <1>3, <1>6 DEF EndSession
  <1>7. ASSUME NEW p, Goto(p), p # "ended" \/ p = pc PROVE Same
    BY <1>7 DEF Goto, RunFrame
  <1>8. ASSUME Commands PROVE CauseInv'
    <2>1. ASSUME NEW u \in Users, EnqueueMany(u) \/ \E n \in 1..MaxBatch : Ask(u, n) PROVE Same
      BY <2>1 DEF EnqueueMany, Ask
    <2>2. CASE Stop \/ Leave
      BY <1>2, <1>6, <2>2 DEF Stop, Leave, Detach
    <2>3. CASE Clear \/ Attach
      BY <1>1, <2>3 DEF Clear, Attach
    <2>4. ASSUME NEW n \in 1..2, SkipN(n) PROVE Same \/ Forgot
      BY <1>3, <2>4 DEF SkipN, QueueCommandFrame
    <2>5. ASSUME NEW k \in DOMAIN queue, Remove(k) \/ Jump(k) PROVE Same \/ Forgot
      BY <1>4, <1>5, <2>5 DEF Remove, Jump
    <2>6. ASSUME NEW k \in DOMAIN queue, NEW j \in DOMAIN queue, Move(k, j) PROVE Same
      BY <1>4, <2>6 DEF Move
    <2>7. CASE Shuffle \/ Replay \/ Previous
      BY <1>1, <1>2, <1>3, <1>4, <1>5, <2>7 DEF Shuffle, Replay, Previous, QueueCommandFrame
    <2>8. ASSUME NEW m \in {"off", "track", "queue"}, SetLoop(m) PROVE Same
      BY <2>8 DEF SetLoop, QueueCommandFrame
    <2>9. ASSUME NEW on \in BOOLEAN, SetPaused(on) PROVE Same
      BY <2>9 DEF SetPaused, PauseFrame
    <2>10. CASE Shutdown
      BY <2>10 DEF Shutdown, CauseInv, CanceledForgets, CanceledByCause
    <2> HIDE DEF Same, Forgot
    <2> QED BY <1>1, <1>2, <1>8, <2>1, <2>2, <2>3, <2>4, <2>5, <2>6, <2>7, <2>8, <2>9, <2>10 DEF Commands
  <1>9. ASSUME Background PROVE CauseInv'
    <2>1. CASE LeaveCloses \/ Close \/ CloseReturns \/ RetryPersistence
      BY <1>1, <2>1 DEF LeaveCloses, Close, CloseReturns, RetryPersistence
    <2>2. CASE CloseLeaves
      BY <1>2, <1>6, <2>2 DEF CloseLeaves, Detach
    <2> QED BY <1>9, <2>1, <2>2 DEF Background
  <1>10. ASSUME Events PROVE CauseInv'
    <2>1. CASE SuspendVoice
      BY <2>1 DEF SuspendVoice, CauseInv, CanceledForgets, CanceledByCause
    <2>2. CASE SuspendProvider
      BY <1>1, <2>2 DEF SuspendProvider
    <2> QED BY <1>10, <2>1, <2>2 DEF Events
  <1>11. ASSUME Clocks \/ Watchdog PROVE CauseInv'
    BY <1>1, <1>7, <1>11 DEF Clocks, Watchdog, BackoffElapses, ProviderElapses, RunFrame
  <1>12. ASSUME Scheduler PROVE CauseInv'
    <2>1. CASE RunTop \/ WaitProvider \/ Defer \/ SchedulerWait \/ Wakeup \/ WaitCanceled
      BY <1>1, <1>7, <2>1 DEF RunTop, WaitProvider, Defer, SchedulerWait, Wakeup, WaitCanceled
    <2>2. CASE RecoverBegins \/ RecoverAttempt \/ \E ok \in BOOLEAN : RecoverEnds(ok)
      BY <1>1, <1>7, <2>2 DEF RecoverBegins, RecoverAttempt, RecoverEnds, RunFrame
    <2>3. CASE Select
      BY <2>3 DEF Select, CauseInv, CanceledForgets, CanceledByCause
    <2>4. CASE EndAttempt
      BY <2>4 DEF EndAttempt, CauseInv, CanceledForgets, CanceledByCause
    <2> QED BY <1>12, <2>1, <2>2, <2>3, <2>4 DEF Scheduler
  <1>13. ASSUME Attempt PROVE CauseInv'
    <2>1. CASE ConfirmFrame \/ SilenceFrame \/ announceStart
      BY <1>1, <2>1 DEF ConfirmFrame, SilenceFrame, announceStart, AttemptFrame
    <2>2. ASSUME NEW o \in Results, PlayReturns(o) PROVE CauseInv'
      <3>1. /\ UNCHANGED <<current, closed>> /\ outcome' = o
            /\ cause' = IF closed /\ cause = "none" THEN "canceled" ELSE cause
            /\ o = "canceled" => Interrupted
        BY <2>2 DEF PlayReturns
      <3> QED BY <3>1 DEF CauseInv, CanceledForgets, CanceledByCause, Interrupted
    <2> QED BY <1>13, <2>1, <2>2 DEF Attempt
  <1>14. CASE Restart
    BY <1>14 DEF Restart, CauseInv, CanceledForgets, CanceledByCause
  <1>15. CASE UNCHANGED vars
    BY <1>1, <1>15 DEF vars
  <1> HIDE DEF Same, Forgot
  <1> QED BY <1>8, <1>9, <1>10, <1>11, <1>12, <1>13, <1>14, <1>15 DEF Next, AtRest

\* An injective map of a finite list's indices onto themselves.
LEMMA Permutes ==
    ASSUME NEW n \in Nat, NEW p \in [1..n -> 1..n], \A i, j \in 1..n : p[i] = p[j] => i = j
    PROVE  \A k \in 1..n : \E i \in 1..n : p[i] = k
  <1> DEFINE S == 1..n
  <1>1. IsFiniteSet(S)
    BY FS_Interval
  <1>2. p \in Injection(S, S)
    BY DEF Injection, IsInjective
  <1> HIDE DEF S
  <1>3. p \in Surjection(S, S)
    BY <1>1, <1>2, FS_Injection
  <1>4. \A k \in S : \E i \in S : p[i] = k
    BY <1>3 DEF Surjection
  <1> QED BY <1>4 DEF S

\* The commands that add entries, or put them in another order, lose none.
LEMMA CommandsLoseNothing ==
    ASSUME PlayerOK,
           \/ \E u \in Users : EnqueueMany(u)
           \/ \E k \in DOMAIN queue : \E j \in DOMAIN queue : Move(k, j)
           \/ Shuffle \/ Replay \/ Previous
    PROVE  HeldIds \subseteq HeldIds'
  <1>0. /\ queue \in Seq(Tracks) /\ current \in Seq(Tracks) /\ Len(queue) \in Nat /\ DOMAIN queue = 1..Len(queue)
    BY LenProperties DEF PlayerOK
  <1>1. ASSUME NEW u \in Users, EnqueueMany(u) PROVE HeldIds \subseteq HeldIds'
    <2> DEFINE ts == request[u][1].tracks
    <2>1. (queue' = queue \/ queue' = queue \o ts) /\ current' = current /\ request[u] # <<>>
      BY <1>1 DEF EnqueueMany, trackVars
    <2>2. ts \in Seq(Tracks)
      BY <2>1, RequestOf
    <2> HIDE DEF ts
    <2>3. IdSet(queue \o ts) = IdSet(queue) \cup IdSet(ts)
      BY <1>0, <2>2, IdsOfJoin
    <2> QED BY <2>1, <2>3 DEF HeldIds
  <1>2. ASSUME NEW i \in DOMAIN queue, NEW j \in DOMAIN queue, Move(i, j) PROVE HeldIds \subseteq HeldIds'
    <2> DEFINE rest == Without(queue, i)
               moved == SubSeq(rest, 1, j - 1) \o <<queue[i]>> \o SubSeq(rest, j, Len(rest))
    <2>1. rest \in Seq(Tracks) /\ Len(rest) = Len(queue) - 1 /\ IdSet(queue) = IdSet(rest) \cup {queue[i].id}
      BY <1>0, WithoutOne, IdsWithout
    <2>2. queue' = moved /\ current' = current
      BY <1>2 DEF Move, Reordered, trackVars
    <2>3. queue[i] \in Tracks /\ j \in 1..(Len(rest) + 1)
      BY <1>0, <2>1, ElementOfSeq
    <2> HIDE DEF rest
    <2>4. IdSet(moved) = IdSet(queue)
      BY <2>1, <2>3, IdsInserted
    <2> QED BY <2>2, <2>4 DEF HeldIds
  <1>3. ASSUME Shuffle PROVE HeldIds \subseteq HeldIds'
    <2>1. PICK p \in [DOMAIN queue -> DOMAIN queue] :
                 /\ \A i, j \in DOMAIN queue : p[i] = p[j] => i = j
                 /\ Reordered([k \in DOMAIN queue |-> queue[p[k]]])
      BY <1>3 DEF Shuffle
    <2>2. \A k \in DOMAIN queue : \E i \in DOMAIN queue : p[i] = k
      <3> DEFINE n == Len(queue)
      <3>1. n \in Nat /\ p \in [1..n -> 1..n] /\ \A i, j \in 1..n : p[i] = p[j] => i = j
        BY <1>0, <2>1
      <3> HIDE DEF n
      <3>2. \A k \in 1..n : \E i \in 1..n : p[i] = k
        BY <3>1, Permutes
      <3> QED BY <1>0, <3>2 DEF n
    <2>3. queue' = [k \in DOMAIN queue |-> queue[p[k]]] /\ current' = current
      BY <2>1 DEF Reordered, trackVars
    <2>4. IdSet(queue) \subseteq IdSet(queue')
      BY <2>2, <2>3 DEF IdSet
    <2> QED BY <2>3, <2>4 DEF HeldIds
  <1>4. ASSUME Replay PROVE HeldIds \subseteq HeldIds'
    <2> DEFINE t == Track(current[1].id, 0)
               e == <<t>>
    <2>1. t \in Tracks /\ current # <<>> /\ t.id = current[1].id
      BY <1>4, CurrentTrack DEF Replay, Track
    <2>2. queue' = e \o queue
      BY <1>4 DEF Replay, GoesOnWith
    <2> HIDE DEF t
    <2>3. e \in Seq(Tracks) /\ IdSet(e) = IdSet(current)
      BY <2>1, ShortLists, IdsOfFew, IdsOfCurrent
    <2> HIDE DEF e
    <2>4. IdSet(queue') = HeldIds
      BY <1>0, <2>2, <2>3, IdsOfJoin DEF HeldIds
    <2> QED BY <2>4 DEF HeldIds
  <1>5. ASSUME Previous PROVE HeldIds \subseteq HeldIds'
    <2> DEFINE n == IF current # <<>> /\ started THEN Len(history) - 1 ELSE Len(history)
               e == <<Track(history[n], 0)>>
    <2>1. queue' = e \o current \o queue
      BY <1>5 DEF Previous
    <2>2. history \in Seq(1..MaxTracks) /\ n \in 1..Len(history)
      BY <1>5, LenProperties DEF PlayerOK, Previous
    <2>3. Track(history[n], 0) \in Tracks
      <3>1. history[n] \in 1..MaxTracks /\ 0 \in 0..Duration
        BY <2>2, ElementOfSeq, PlayerAssumption DEF PlayerAssumption
      <3> QED BY <3>1 DEF Track, Tracks
    <2>4. e \in Seq(Tracks)
      BY <2>3, ShortLists
    <2> HIDE DEF e
    <2>5. e \o current \in Seq(Tracks) /\ IdSet(e \o current) = IdSet(e) \cup IdSet(current)
      BY <1>0, <2>4, IdsOfJoin, ConcatProperties
    <2>6. IdSet(e \o current \o queue) = IdSet(e \o current) \cup IdSet(queue)
      BY <1>0, <2>5, IdsOfJoin
    <2> QED BY <2>1, <2>5, <2>6 DEF HeldIds
  <1> QED BY <1>1, <1>2, <1>3, <1>4, <1>5

\* Why a position disappears at the end of an attempt.
Ended(i) == pc = "ended" /\ current # <<>> /\ current[1].id = i
Dropped(i) ==
    \/ Ended(i) /\ cause # "voice" /\ outcome \in {"eof", "fail", "stream"}
    \/ Ended(i) /\ 2 * confirmed >= Duration

\* The end of an attempt keeps the queue, and drops the track only when it should.
LEMMA EndLosesNothing ==
    ASSUME PlayerOK, Types, CauseInv, ~closed, EndAttempt, NEW i \in HeldIds \ HeldIds'
    PROVE  Dropped(i)
  <1>0. queue \in Seq(Tracks) /\ pc = "ended" /\ current' = <<>>
    BY DEF PlayerOK, EndAttempt
  <1>1. ASSUME current # <<>>, NEW t \in Tracks, t.id = current[1].id
        PROVE  IdSet(<<t>> \o queue) = HeldIds /\ IdSet(queue \o <<t>>) = HeldIds
    <2> DEFINE e == <<t>>
    <2>1. e \in Seq(Tracks) /\ IdSet(e) = IdSet(current)
      BY <1>1, ShortLists, IdsOfFew, IdsOfCurrent
    <2> HIDE DEF e
    <2>2. IdSet(e \o queue) = IdSet(e) \cup IdSet(queue) /\ IdSet(queue \o e) = IdSet(queue) \cup IdSet(e)
      BY <1>0, <2>1, IdsOfJoin
    <2>3. IdSet(e \o queue) = HeldIds /\ IdSet(queue \o e) = HeldIds
      BY <2>1, <2>2 DEF HeldIds
    <2> QED BY <2>3 DEF e
  <1>2. Retained.id = current[1].id /\ Track(current[1].id, 0).id = current[1].id
    BY DEF Retained, Track
  <1>3. current # <<>> => IdSet(<<Retained>> \o queue) = HeldIds
    BY <1>1, <1>2, CurrentTrack
  <1>4. current # <<>> => IdSet(Looped) = HeldIds \/ Looped = queue
    <2> SUFFICES ASSUME current # <<>> PROVE IdSet(Looped) = HeldIds \/ Looped = queue
      OBVIOUS
    <2>1. IdSet(<<Track(current[1].id, 0)>> \o queue) = HeldIds /\ IdSet(queue \o <<Track(current[1].id, 0)>>) = HeldIds
      BY <1>1, <1>2, CurrentTrack
    <2> QED BY <2>1 DEF Looped
  <1>5. IdSet(queue') # HeldIds /\ i \in HeldIds /\ i \notin IdSet(queue')
    BY DEF HeldIds
  <1>6. queue' = CASE TransportFailure \/ ProviderFailure \/ NetworkRetry -> Kept
                   [] ResumeFailed -> <<Retained>> \o queue
                   [] Advances -> Looped
                   [] OTHER -> queue
    BY DEF EndAttempt
  <1>7. current # <<>>
    <2> SUFFICES ASSUME current = <<>> PROVE FALSE
      OBVIOUS
    <2>1. ~TransportFailure /\ ExpectedCancel
      BY DEF TransportFailure, ExpectedCancel
    <2>2. ~ProviderFailure /\ ~NetworkRetry /\ ~ResumeFailed /\ ~Advances
      BY <2>1 DEF ProviderFailure, NetworkRetry, ResumeFailed, Advances
    <2>4. queue' = queue
      BY <1>6, <2>1, <2>2
    <2>3. HeldIds = IdSet(queue)
      BY IdsOfFew DEF HeldIds
    <2> QED BY <1>5, <2>3, <2>4
  <1>8. queue' = queue
    BY <1>3, <1>4, <1>5, <1>6, <1>7 DEF Kept
  <1>9. Ended(i)
    <2>1. i \in IdSet(current)
      BY <1>5, <1>8 DEF HeldIds
    <2> QED BY <1>0, <1>7, <2>1, IdsOfCurrent DEF Ended
  <1>10. CASE TransportFailure \/ ProviderFailure \/ NetworkRetry
    <2>0. ~ResumeFailed /\ ~Advances
      BY <1>10 DEF ResumeFailed, Advances, ProviderFailure
    <2>1. queue' = Kept
      BY <1>6, <1>10, <2>0
    <2>2. advanceInterrupted(Retained)
      BY <1>3, <1>5, <1>7, <2>1 DEF Kept
    <2>3. confirmed >= (Duration + 1) \div 2
      BY <2>2 DEF advanceInterrupted, Retained, Track
    <2>4. 2 * confirmed >= Duration
      BY <2>3, PlayerAssumption DEF PlayerOK, PlayerAssumption
    <2> QED BY <1>9, <2>4 DEF Dropped
  <1>11. CASE ~(TransportFailure \/ ProviderFailure \/ NetworkRetry) /\ ResumeFailed
    <2>1. ~Advances
      BY <1>11 DEF Advances
    <2>2. queue' = <<Retained>> \o queue
      BY <1>6, <1>11, <2>1
    <2> QED BY <1>3, <1>5, <1>7, <2>2
  <1>12. CASE ~(TransportFailure \/ ProviderFailure \/ NetworkRetry) /\ ~ResumeFailed
    <2>1. outcome \in Results /\ cause \in {"none", "canceled", "voice"}
      BY DEF Types, RunTypes
    <2>2. cause # "voice" /\ outcome # "voice"
      BY <1>7, <1>12 DEF TransportFailure
    <2>3. cause = "none" /\ ~ExpectedCancel
      BY <1>7, <2>1, <2>2 DEF CauseInv, CanceledForgets, ExpectedCancel
    <2>4. outcome # "canceled"
      BY <1>0, <2>3 DEF CauseInv, CanceledByCause
    <2>5. outcome # "provider" /\ outcome # "network"
      BY <1>12, <2>3 DEF ProviderFailure, NetworkRetry
    <2>6. outcome \in {"eof", "fail", "stream"}
      BY <2>1, <2>2, <2>4, <2>5 DEF Results
    <2> QED BY <1>9, <2>2, <2>6 DEF Dropped
  <1> QED BY <1>10, <1>11, <1>12

\* A position that a step takes away.
LEMMA LossStep ==
    ASSUME PlayerOK, Types, CurrentPlays, CauseInv, [Next]_vars,
           NEW i \in HeldIds \ HeldIds'
    PROVE  Removal \/ closed \/ Dropped(i)
  <1> SUFFICES ASSUME ~Removal, ~closed PROVE Dropped(i)
    OBVIOUS
  <1> USE DEF Removal
  <1>1. ASSUME UNCHANGED <<queue, current>> PROVE FALSE
    BY <1>1 DEF HeldIds
  <1>2. ASSUME UNCHANGED keptVars PROVE FALSE
    BY <1>1, <1>2 DEF keptVars
  <1>3. ASSUME NEW u \in Users, NEW n \in 1..MaxBatch, Ask(u, n) PROVE FALSE
    BY <1>1, <1>3 DEF Ask, queueVars, trackVars
  <1>4. ASSUME Attach PROVE FALSE
    BY <1>1, <1>4 DEF Attach, trackVars
  <1>5. ASSUME Commands PROVE FALSE
    BY <1>2, <1>3, <1>4, <1>5, CommandsLoseNothing, QuietKeepsLists DEF Commands
  <1>6. ASSUME Background \/ Events \/ Clocks \/ Watchdog PROVE FALSE
    BY <1>2, <1>6, QuietKeepsLists DEF Background, Events, Clocks
  <1>7. ASSUME Select PROVE FALSE
    <2>1. queue # <<>> /\ current' = <<queue[1]>> /\ queue' = Tail(queue) /\ current = <<>>
      BY <1>7 DEF Select, Reason, AtSchedule, CurrentPlays, Playing
    <2>2. Members(queue) = {queue[1]} \cup Members(queue')
      BY <2>1, MembersOfTail DEF PlayerOK
    <2>3. IdSet(queue) = {queue[1].id} \cup IdSet(queue')
      BY <2>2, MembersOfFew
    <2>4. IdSet(current') = {queue[1].id} /\ IdSet(current) = {}
      BY <2>1, IdsOfFew
    <2> QED BY <2>3, <2>4 DEF HeldIds
  <1>8. ASSUME Scheduler, ~EndAttempt PROVE FALSE
    BY <1>2, <1>7, <1>8, QuietKeepsLists DEF Scheduler
  <1>9. ASSUME Attempt PROVE FALSE
    <2>1. ASSUME ConfirmFrame \/ announceStart PROVE FALSE
      BY <1>1, <2>1 DEF ConfirmFrame, announceStart, AttemptFrame
    <2> QED BY <1>2, <1>9, <2>1, QuietKeepsLists DEF Attempt
  <1>10. ASSUME UNCHANGED vars PROVE FALSE
    BY <1>2, <1>10, QuietKeepsLists
  <1> QED BY <1>5, <1>6, <1>8, <1>9, <1>10, EndLosesNothing DEF Next, AtRest

\* A position disappears only because a member removed it, because it was played to its
\* end or its half, or because its recording failed on its own: not in a reorder, an
\* incident, a retry, a refused request or the race of a stop with the stream's end.
THEOREM NothingEverLost == Spec => NothingLost
  <1> DEFINE Loses == \A i \in IdSet(Held) \ IdSet(Held') :
          \/ Removal \/ closed
          \/ /\ pc = "ended" /\ current # <<>> /\ current[1].id = i /\ cause # "voice"
             /\ outcome \in {"eof", "fail", "stream"}
          \/ pc = "ended" /\ current # <<>> /\ current[1].id = i /\ 2 * confirmed >= Duration
  <1>1. CapacityInv /\ CapacityInv' /\ TypeInv /\ CurrentPlays /\ CauseInv /\ [Next]_vars => [Loses]_vars
    <2> SUFFICES ASSUME CapacityInv, CapacityInv', TypeInv, CurrentPlays, CauseInv, [Next]_vars,
                        NEW i \in IdSet(Held) \ IdSet(Held')
                 PROVE  Removal \/ closed \/ Dropped(i)
      BY DEF Dropped, Ended
    <2>1. PlayerOK /\ PlayerOK' /\ Types
      BY DEF CapacityInv, TypeInv
    <2>2. (IdSet(Held) = HeldIds)'
      BY <2>1, HeldIsIds, PTL
    <2>3. i \in HeldIds \ HeldIds'
      BY <2>1, <2>2, HeldIsIds
    <2> QED BY <2>1, <2>3, LossStep
  <1>2. Spec => []CapacityInv
    BY CapacityInit, CapacityStep, PTL DEF Spec
  <1>3. Spec => []TypeInv
    BY TypeInit, TypeStep, PTL DEF Spec
  <1>4. Init => CurrentPlays /\ CauseInv
    BY DEF Init, CurrentPlays, CauseInv, CanceledForgets, CanceledByCause
  <1>5. Spec => []CurrentPlays
    BY <1>4, CurrentStep, PTL DEF Spec
  <1>6. Spec => []CauseInv
    BY <1>4, CauseStep, PTL DEF Spec
  <1> QED BY <1>1, <1>2, <1>3, <1>5, <1>6, PTL DEF Spec, NothingLost
-----------------------------------------------------------------------------
(***************************************************************************)
(* Wake-ups.  A section signals run(), leaves run() where it does not      *)
(* sleep, or changes nothing that a sleeping run() waits for.              *)
(***************************************************************************)
Sleeping == {"asleep", "backoff"}
readyVars == <<voice, voiceBlocked, providerBlocked, halted, queue>>

\* What does not touch the scheduler's reason cannot make the head playable.
LEMMA SameReason ==
    ASSUME UNCHANGED readyVars, closed => closed', Reason(FALSE)' = "ready"
    PROVE  Reason(FALSE) = "ready"
  BY DEF Reason, readyVars

\* The three kinds of sections.
LEMMA SignalAwakes == ASSUME wake' PROVE NoLostWakeup'
  BY DEF NoLostWakeup

LEMMA AwakeStays == ASSUME pc' \notin Sleeping PROVE NoLostWakeup'
  BY DEF NoLostWakeup, Sleeping

LEMMA SleepUntouched ==
    ASSUME NoLostWakeup, UNCHANGED <<readyVars, pc, wake, backoff>>, closed => closed'
    PROVE  NoLostWakeup'
  <1>1. ASSUME pc' = "asleep", Reason(FALSE)' = "ready" PROVE wake'
    BY <1>1, SameReason DEF NoLostWakeup
  <1>2. ASSUME pc' = "backoff", ~backoff' PROVE wake'
    BY <1>2 DEF NoLostWakeup
  <1> QED BY <1>1, <1>2 DEF NoLostWakeup

\* Every command and event that can make the head playable signals run().
LEMMA CommandsSignal ==
    ASSUME Commands \/ CloseLeaves \/ Events
    PROVE  wake' \/ (UNCHANGED <<readyVars, pc, wake, backoff>> /\ (closed => closed'))
  <1> USE DEF lifeVars, voiceVars, queueVars, trackVars, runVars, retryVars, recoverVars, provVars, reqVars
  <1> DEFINE Untouched == UNCHANGED <<readyVars, pc, wake, backoff>> /\ (closed => closed')
  <1>1. ASSUME NEW u \in Users, EnqueueMany(u) PROVE wake' \/ Untouched
    BY <1>1 DEF EnqueueMany, signal, readyVars
  <1>2. ASSUME NEW u \in Users, NEW n \in 1..MaxBatch, Ask(u, n) PROVE wake' \/ Untouched
    BY <1>2 DEF Ask, readyVars
  <1>3. ASSUME Stop \/ Clear \/ Leave \/ CloseLeaves \/ Attach PROVE wake'
    BY <1>3 DEF Stop, Clear, Leave, CloseLeaves, Detach, EndSession, Attach, signal
  <1>4. ASSUME NEW n \in 1..2, SkipN(n) PROVE wake'
    BY <1>4 DEF SkipN, signal
  <1>5. ASSUME NEW k \in DOMAIN queue, Remove(k) \/ Jump(k) \/ \E j \in DOMAIN queue : Move(k, j) PROVE wake'
    BY <1>5 DEF Remove, Jump, Move, Reordered, GoesOnWith, signal
  <1>6. ASSUME Shuffle \/ Replay \/ Previous PROVE wake'
    BY <1>6 DEF Shuffle, Replay, Previous, Reordered, GoesOnWith, signal
  <1>7. ASSUME NEW m \in {"off", "track", "queue"}, SetLoop(m) PROVE Untouched
    BY <1>7 DEF SetLoop, QueueCommandFrame, readyVars
  <1>8. ASSUME NEW on \in BOOLEAN, SetPaused(on) PROVE wake' \/ Untouched
    <2>1. CASE PauseVoiceSuspended(on)
      BY <1>8, <2>1 DEF SetPaused, PauseVoiceSuspended, PauseFrame, signal, readyVars
    <2>2. CASE ResumeProvider \/ ResumeHalted
      BY <2>2 DEF ResumeProvider, ResumeHalted, signal
    <2>3. CASE SetGate(on)
      BY <1>8, <2>3 DEF SetPaused, SetGate, PauseFrame, readyVars
    <2> QED BY <1>8, <2>1, <2>2, <2>3 DEF SetPaused
  <1>9. ASSUME Shutdown PROVE Untouched
    BY <1>9 DEF Shutdown, readyVars
  <1>10. ASSUME Events PROVE wake'
    BY <1>10 DEF Events, SuspendVoice, SuspendProvider, blockProvider, signal
  <1> QED BY <1>1, <1>2, <1>3, <1>4, <1>5, <1>6, <1>7, <1>8, <1>9, <1>10 DEF Commands

\* What runs beside run() and does not signal it changes nothing it waits for.
LEMMA BackgroundUntouched ==
    ASSUME LeaveCloses \/ Close \/ CloseReturns \/ RetryPersistence \/ ProviderElapses \/ UNCHANGED vars
    PROVE  UNCHANGED <<readyVars, pc, wake, backoff>> /\ (closed => closed')
  <1> USE DEF lifeVars, voiceVars, queueVars, trackVars, runVars, retryVars, recoverVars, provVars, reqVars, readyVars
  <1>1. CASE LeaveCloses
    BY <1>1 DEF LeaveCloses
  <1>2. CASE Close
    BY <1>2 DEF Close
  <1>3. CASE CloseReturns
    BY <1>3 DEF CloseReturns
  <1>4. CASE RetryPersistence
    BY <1>4 DEF RetryPersistence
  <1>5. CASE ProviderElapses \/ UNCHANGED vars
    BY <1>5 DEF ProviderElapses, Goto, RunFrame, vars
  <1> QED BY <1>1, <1>2, <1>3, <1>4, <1>5

\* run() itself falls asleep only after a look at what it waits for.
LEMMA SchedulerLooks == ASSUME NoLostWakeup, Scheduler \/ Watchdog \/ BackoffElapses PROVE NoLostWakeup'
  <1>1. CASE SchedulerWait
    <2>1. CASE Reason(FALSE) = "ready"
      BY <1>1, <2>1, AwakeStays DEF SchedulerWait, Goto, Sleeping
    <2>2. CASE Reason(FALSE) # "ready"
      <3>1. UNCHANGED <<readyVars, closed>> /\ pc' = "asleep"
        BY <1>1, <2>2 DEF SchedulerWait, Goto, RunFrame, lifeVars, retryVars, recoverVars, provVars, readyVars
      <3>2. Reason(FALSE)' # "ready"
        BY <2>2, <3>1, SameReason
      <3> QED BY <3>1, <3>2 DEF NoLostWakeup
    <2> QED BY <2>1, <2>2
  <1>2. CASE Defer
    <2>1. pc' = "sched" \/ (pc' = "backoff" /\ backoff')
      BY <1>2 DEF Defer, Goto, retryVars
    <2> QED BY <2>1 DEF NoLostWakeup
  <1>3. CASE BackoffElapses
    <2>1. UNCHANGED <<readyVars, wake, closed>> /\ pc' # "backoff" /\ (pc' = "asleep" => pc = "asleep")
      BY <1>3 DEF BackoffElapses, RunFrame, lifeVars, recoverVars, provVars, readyVars
    <2>2. ASSUME pc' = "asleep", Reason(FALSE)' = "ready" PROVE wake'
      BY <2>1, <2>2, SameReason DEF NoLostWakeup
    <2> QED BY <2>1, <2>2 DEF NoLostWakeup
  <1>4. CASE RunTop \/ WaitProvider \/ Select \/ Wakeup \/ WaitCanceled \/ Watchdog \/ EndAttempt
    BY <1>4, AwakeStays DEF RunTop, WaitProvider, Select, Wakeup, WaitCanceled, Watchdog, EndAttempt, Goto, Sleeping
  <1>5. CASE RecoverBegins \/ RecoverAttempt \/ (\E ok \in BOOLEAN : RecoverEnds(ok))
    BY <1>5, AwakeStays DEF RecoverBegins, RecoverAttempt, RecoverEnds, Goto, Sleeping
  <1> QED BY <1>1, <1>2, <1>3, <1>4, <1>5 DEF Scheduler

\* No notification of the scheduler is missed, in any interleaving of commands, faults,
\* recoveries and clocks: the 30 s watchdog of schedulerWait is a precaution, not part
\* of the protocol.
THEOREM WatchdogNotNeeded == Spec => []NoLostWakeup
  <1>1. Init => NoLostWakeup
    BY DEF Init, NoLostWakeup
  <1>2. NoLostWakeup /\ [Next]_vars => NoLostWakeup'
    <2> SUFFICES ASSUME NoLostWakeup, [Next]_vars PROVE NoLostWakeup'
      OBVIOUS
    <2>1. CASE Commands \/ CloseLeaves \/ Events
      BY <2>1, CommandsSignal, SignalAwakes, SleepUntouched
    <2>2. CASE LeaveCloses \/ Close \/ CloseReturns \/ RetryPersistence \/ ProviderElapses \/ UNCHANGED vars
      BY <2>2, BackgroundUntouched, SleepUntouched
    <2>3. CASE Scheduler \/ Watchdog \/ BackoffElapses
      BY <2>3, SchedulerLooks
    <2>4. CASE Attempt
      BY <2>4, AwakeStays DEF Attempt, ConfirmFrame, SilenceFrame, announceStart, PlayReturns, AttemptFrame, runVars, Sleeping
    <2>5. CASE Restart
      BY <2>5, AwakeStays DEF Restart, Sleeping
    <2> QED BY <2>1, <2>2, <2>3, <2>4, <2>5 DEF Next, Background, Clocks, AtRest
  <1> QED BY <1>1, <1>2, PTL DEF Spec
=============================================================================
