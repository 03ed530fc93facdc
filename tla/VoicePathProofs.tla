-------------------------- MODULE VoicePathProofs ---------------------------
(*************************************************************************)
(* The voice path: the stream pipeline of one track and the voice        *)
(* session of a guild, for every duration, idle limit and number of      *)
(* connections.                                                          *)
(*************************************************************************)
EXTENDS StreamPipeline, VoiceSession, TLAPS

\* StreamPipeline: what Play leaves behind.

Processes == {"off", "running", "ok", "error", "signal"}
CancelCauses == {"none", "canceled", "voice", "no_audio", "stream", "timeout", "stall",
           "decoder_after_eof", "source_after_eof"}
StreamTypeOK ==
  /\ playPC \in {"start", "source", "decoder", "reap", "parse", "pace", "gate", "write", "panic",
                 "drain", "drainSource", "silence", "returned"}
  /\ yt \in Processes /\ ff \in Processes /\ cause \in CancelCauses /\ frames \in Nat
  /\ parentDone \in BOOLEAN /\ voiceFailed \in BOOLEAN

\* Which processes may run where Play is.
ProcessesOfPhase ==
  /\ playPC = "start" => yt = "off"
  /\ playPC \in {"start", "source", "decoder", "reap"} => ff = "off"
  /\ playPC \in {"drainSource", "silence"} => Ended(ff)
  /\ playPC = "silence" => Ended(yt) /\ frames >= Duration

\* Only a voice call that failed cancels the pipeline as one.
VoiceCause == cause = "voice" => voiceFailed

StreamInv == StreamTypeOK /\ ProcessesOfPhase /\ VoiceCause /\ StreamSound

\* The idle clock never runs ahead of the time since the gate was last seen closed.
IdleSinceClosed ==
  /\ idle \in Nat /\ resumed \in Nat /\ resumed <= IdleTicks + 1 /\ cause \in CancelCauses
  /\ resumed > IdleTicks \/ idle <= resumed

\* The initial state.
LEMMA StreamStarts == StreamInit => StreamInv /\ IdleSinceClosed
<1> SUFFICES ASSUME StreamInit PROVE StreamInv /\ IdleSinceClosed
  OBVIOUS
<1>1. StreamTypeOK
  BY DEF StreamInit, StreamTypeOK, Processes, CancelCauses
<1>2. ProcessesOfPhase /\ VoiceCause /\ StreamSound /\ IdleSinceClosed
  BY StreamAssumption
  DEF StreamInit, ProcessesOfPhase, VoiceCause, StreamSound, NothingLeftRunning, BlameIsRight, IdleSinceClosed, CancelCauses
<1> QED  BY <1>1, <1>2 DEF StreamInv

\* Every step keeps the pipeline sound.
LEMMA StreamKeeps == StreamInv /\ [StreamNext]_streamVars => StreamInv'
<1> SUFFICES ASSUME StreamInv, [StreamNext]_streamVars PROVE StreamInv'
  OBVIOUS
<1> USE StreamAssumption
    DEF StreamInv, StreamTypeOK, Processes, CancelCauses, ProcessesOfPhase, VoiceCause, StreamSound,
        NothingLeftRunning, BlameIsRight, Ended, Returns, Steps, procs, signals, gate
<1>1. CASE StartProducer
  BY <1>1 DEF StartProducer
<1>2. CASE ProducerSpeaks \/ SetGate
  BY <1>2 DEF ProducerSpeaks, SetGate
<1>3. CASE ProcessExits
  BY <1>3 DEF ProcessExits
<1>4. CASE ForceKill
  BY <1>4 DEF ForceKill, Alive
<1>5. CASE SourceReady
  BY <1>5 DEF SourceReady, NoSource
<1>6. CASE StartDecoder
  BY <1>6 DEF StartDecoder, Causes
<1>7. CASE Reap \/ Recovered
  BY <1>7 DEF Reap, Recovered
<1>8. CASE Packet
  BY <1>8 DEF Packet
<1>9. CASE Pace
  <2>1. CASE LoopEnds("canceled") /\ UNCHANGED voiceFailed
    BY <1>9, <2>1 DEF Pace, LoopEnds, Causes
  <2>2. CASE LoopEnds("voice") /\ voiceFailed' = TRUE
    BY <1>9, <2>2 DEF Pace, LoopEnds, Causes
  <2>3. CASE Steps("gate") /\ UNCHANGED <<cause, voiceFailed>>
    BY <1>9, <2>3 DEF Pace
  <2> QED  BY <1>9, <2>1, <2>2, <2>3 DEF Pace
<1>10. CASE PassGate
  BY <1>10 DEF PassGate, LoopEnds, Causes
<1>11. CASE WriteFrame
  <2>1. CASE Steps("parse") /\ frames' = frames + 1 /\ UNCHANGED <<cause, readErr, voiceFailed>>
    BY <1>11, <2>1 DEF WriteFrame
  <2>2. CASE LoopEnds(IF Dead THEN "canceled" ELSE "voice") /\ voiceFailed' = TRUE /\ UNCHANGED frames
    BY <1>11, <2>2 DEF WriteFrame, LoopEnds, Causes
  <2>3. CASE Steps("panic") /\ Causes("canceled") /\ UNCHANGED <<frames, voiceFailed>>
    BY <1>11, <2>3 DEF WriteFrame, Causes
  <2> QED  BY <1>11, <2>1, <2>2, <2>3 DEF WriteFrame
<1>12. CASE EndOfAudio
  BY <1>12 DEF EndOfAudio, LoopEnds, Causes
<1>13. CASE DrainTimer
  BY <1>13 DEF DrainTimer, Causes
<1>14. CASE DrainDecoder
  BY <1>14 DEF DrainDecoder, Causes
<1>15. CASE DrainSource
  BY <1>15 DEF DrainSource, Failure
<1>16. CASE Silence
  BY <1>16 DEF Silence
<1>17. CASE CancelTrack
  BY <1>17 DEF CancelTrack
<1>18. CASE WatchStartup
  BY <1>18 DEF WatchStartup, Causes, Alive
<1>19. CASE WatchActivity
  BY <1>19 DEF WatchActivity, Causes, Alive
<1>20. CASE UNCHANGED streamVars
  BY <1>20 DEF streamVars
<1> QED
  BY <1>1, <1>2, <1>3, <1>4, <1>5, <1>6, <1>7, <1>8, <1>9, <1>10, <1>11, <1>12, <1>13, <1>14,
     <1>15, <1>16, <1>17, <1>18, <1>19, <1>20
  DEF StreamNext, PlayStep

\* Play returns only when both child processes were reaped, and the error it returns
\* names the process, the voice call or the cancellation that really ended the track.
THEOREM StreamEndsCleanly == StreamSpec => []StreamSound
<1>1. StreamSpec => []StreamInv
  BY StreamStarts, StreamKeeps, PTL DEF StreamSpec
<1>2. StreamInv => StreamSound
  BY DEF StreamInv
<1> QED  BY <1>1, <1>2, PTL

\* Every step other than a tick of watchActivity leaves the clocks or restarts
\* the idle one, and declares no stall.
LEMMA OnlyTicksStall ==
  ASSUME [StreamNext]_streamVars, ~WatchActivity
  PROVE  /\ UNCHANGED resumed /\ (idle' = idle \/ idle' = 0)
         /\ cause' = cause \/ cause' \in CancelCauses \ {"stall"}
<1> USE DEF procs, signals, gate, Causes, CancelCauses
<1>1. CASE StartProducer \/ ProducerSpeaks \/ SetGate \/ ProcessExits \/ ForceKill
  BY <1>1 DEF StartProducer, ProducerSpeaks, SetGate, ProcessExits, ForceKill
<1>2. CASE SourceReady \/ StartDecoder \/ Reap \/ Recovered \/ Packet
  BY <1>2 DEF SourceReady, StartDecoder, Reap, Recovered, Packet
<1>3. CASE Pace \/ PassGate \/ WriteFrame
  BY <1>3 DEF Pace, PassGate, WriteFrame, LoopEnds
<1>4. CASE EndOfAudio \/ DrainTimer \/ DrainDecoder \/ DrainSource \/ Silence
  BY <1>4 DEF EndOfAudio, LoopEnds, DrainTimer, DrainDecoder, DrainSource, Silence
<1>5. CASE CancelTrack \/ WatchStartup \/ UNCHANGED streamVars
  BY <1>5 DEF CancelTrack, WatchStartup, streamVars
<1> QED  BY <1>1, <1>2, <1>3, <1>4, <1>5 DEF StreamNext, PlayStep

\* The idle clock counts from the last moment the gate was closed.
LEMMA ClockKeeps ==
  IdleSinceClosed /\ [StreamNext]_streamVars =>
    /\ IdleSinceClosed'
    /\ cause' = "stall" /\ cause # "stall" => ~paused /\ resumed' > IdleTicks
<1> SUFFICES ASSUME IdleSinceClosed, [StreamNext]_streamVars
             PROVE  /\ IdleSinceClosed'
                    /\ cause' = "stall" /\ cause # "stall" => ~paused /\ resumed' > IdleTicks
  OBVIOUS
<1> USE StreamAssumption
<1>1. CASE WatchActivity
  BY <1>1 DEF WatchActivity, Causes, IdleSinceClosed, CancelCauses
<1>2. CASE ~WatchActivity
  BY <1>2, OnlyTicksStall DEF IdleSinceClosed
<1> QED  BY <1>1, <1>2

\* watchActivity declares a stream stalled only while the pause gate is open and a
\* whole idle period after the last tick that found it closed.
THEOREM PauseNeverStalls == StreamSpec => PauseIsNotStall
<1>1. StreamSpec => []IdleSinceClosed
  BY StreamStarts, ClockKeeps, PTL DEF StreamSpec
<1>2. IdleSinceClosed /\ [StreamNext]_streamVars =>
        [cause' = "stall" /\ cause # "stall" => ~paused /\ resumed' > IdleTicks]_streamVars
  BY ClockKeeps
<1> QED  BY <1>1, <1>2, PTL DEF StreamSpec, PauseIsNotStall

-----------------------------------------------------------------------------
\* VoiceSession: the connection a guild owns.

Places == Conns \cup {0}
Recoveries ==
  [pc : {"idle", "lock", "confirm", "ready", "unready", "open", "opened", "failed", "apply"},
   c : Places, ctx : {"live", "late", "dead"}]
VoiceTypeOK ==
  /\ mu \in {"", "join", "leave", "close"} /\ life \in {"up", "drain", "player", "closed"}
  /\ held \in Places /\ conn \in Places /\ voice \in Places
  /\ conns \in [Conns -> OpenStates \cup {"closed"}] /\ recover \in Recoveries
  /\ channel \in BOOLEAN /\ suspended \in BOOLEAN

\* What the holder of g.mu has done to the session before its next step.
HolderOfMu ==
  /\ mu = "join" => held \in Conns /\ conn = 0
  /\ mu \in {"leave", "close"} => voice = 0 /\ recover.ctx = "dead"
  /\ life = "player" <=> mu = "close"
  /\ conn # 0 => channel

\* A recovery that may still be applied belongs to the suspended transport; its
\* candidate is the guild's connection.
RecoveryCurrent ==
  /\ recover.pc = "idle" \/ life # "up" => recover.ctx = "dead"
  /\ recover.ctx # "dead" => suspended /\ voice # 0
  /\ recover.ctx # "dead" /\ recover.pc = "apply" => recover.c = conn /\ channel

VoiceInv == VoiceTypeOK /\ HolderOfMu /\ RecoveryCurrent /\ VoiceSound

\* The initial state.
LEMMA VoiceStarts == VoiceInit => VoiceInv
<1> SUFFICES ASSUME VoiceInit PROVE VoiceInv
  OBVIOUS
<1>1. NoRecovery \in Recoveries /\ NoRecovery.ctx = "dead" /\ NoRecovery.pc = "idle"
  BY DEF NoRecovery, Recoveries, Places
<1>2. VoiceTypeOK
  BY <1>1 DEF VoiceInit, VoiceTypeOK, Places, OpenStates
<1>3. /\ mu = "" /\ conn = 0 /\ voice = 0 /\ life = "up" /\ recover = NoRecovery
      /\ \A c \in Conns : conns[c] = "closed"
  BY DEF VoiceInit
<1>4. HolderOfMu /\ RecoveryCurrent
  BY <1>1, <1>3 DEF HolderOfMu, RecoveryCurrent
<1>5. VoiceSound
  BY <1>3 DEF VoiceSound, NoStrayConn, AttachedIsGuilds, OpenStates
<1> QED  BY <1>2, <1>4, <1>5 DEF VoiceInv

\* What the invariant reads.
session == <<mu, held, conn, voice, channel, suspended, life>>

\* Steps outside the session.
LEMMA SessionUnchanged ==
  ASSUME VoiceInv, UNCHANGED <<session, conns, recover>> PROVE VoiceInv'
BY DEF VoiceInv, VoiceTypeOK, HolderOfMu, RecoveryCurrent, VoiceSound, NoStrayConn, AttachedIsGuilds, session

\* A recovery whose context ended.
LEMMA DeadIsDead ==
  ASSUME VoiceTypeOK, RecoveryCurrent PROVE DeadRecovery \in Recoveries /\ DeadRecovery.ctx = "dead"
<1>1. recover \in Recoveries
  BY DEF VoiceTypeOK
<1>2. CASE recover.pc = "idle"
  BY <1>1, <1>2 DEF RecoveryCurrent, DeadRecovery
<1>3. CASE recover.pc # "idle"
  BY <1>1, <1>3 DEF Recoveries, DeadRecovery
<1> QED  BY <1>2, <1>3

\* The recovery ends, or its context does.
LEMMA RecoveryEnds ==
  ASSUME VoiceInv, UNCHANGED <<session, conns>>,
         recover' = NoRecovery \/ recover' = DeadRecovery
  PROVE  VoiceInv'
<1>1. recover' \in Recoveries /\ recover'.ctx = "dead"
  <2>1. NoRecovery \in Recoveries /\ NoRecovery.ctx = "dead"
    BY DEF NoRecovery, Recoveries, Places
  <2>2. DeadRecovery \in Recoveries /\ DeadRecovery.ctx = "dead"
    BY DeadIsDead DEF VoiceInv
  <2> QED  BY <2>1, <2>2
<1> QED
  BY <1>1 DEF VoiceInv, VoiceTypeOK, HolderOfMu, RecoveryCurrent, VoiceSound, NoStrayConn, AttachedIsGuilds, session

\* The recovery goes on to another place, under the context it has.
LEMMA RecoveryMoves ==
  ASSUME VoiceInv, UNCHANGED <<session, conns>>,
         NEW pc \in {"lock", "confirm", "ready", "unready", "open", "opened", "failed", "apply"},
         NEW c \in Places, recover' = [recover EXCEPT !.pc = pc, !.c = c],
         recover.pc # "idle", pc = "apply" => c = conn /\ channel
  PROVE  VoiceInv'
<1>1. recover' \in Recoveries /\ recover'.pc = pc /\ recover'.c = c /\ recover'.ctx = recover.ctx
  BY DEF VoiceInv, VoiceTypeOK, Recoveries
<1> QED
  BY <1>1 DEF VoiceInv, VoiceTypeOK, HolderOfMu, RecoveryCurrent, VoiceSound, NoStrayConn, AttachedIsGuilds, session

\* A connection changes between two open states, or is closed.
LEMMA ConnChanges ==
  ASSUME VoiceInv, UNCHANGED <<session, recover>>, conns' \in [Conns -> OpenStates \cup {"closed"}],
         \A c \in Conns : conns'[c] \in OpenStates => conns[c] \in OpenStates
  PROVE  VoiceInv'
BY DEF VoiceInv, VoiceTypeOK, HolderOfMu, RecoveryCurrent, VoiceSound, NoStrayConn, AttachedIsGuilds, session

\* Closing a connection opens none.
LEMMA ClosedConnOpens ==
  ASSUME VoiceTypeOK, NEW c \in Places
  PROVE  /\ ClosedConn(c) \in [Conns -> OpenStates \cup {"closed"}]
         /\ \A x \in Conns : ClosedConn(c)[x] \in OpenStates => conns[x] \in OpenStates /\ x # c
<1>1. CASE c = 0
  BY <1>1, VoiceAssumption DEF VoiceTypeOK, ClosedConn
<1>2. CASE c # 0
  <2>1. ClosedConn(c) = [conns EXCEPT ![c] = "closed"]
    BY <1>2 DEF ClosedConn
  <2> QED  BY <1>2, <2>1 DEF VoiceTypeOK, OpenStates
<1> QED  BY <1>1, <1>2

\* A join begins, ends or fails.
LEMMA JoinKeeps ==
  ASSUME VoiceInv, (\E c \in Conns : JoinBegins(c)) \/ JoinEnds \/ JoinFails PROVE VoiceInv'
<1>1. VoiceTypeOK /\ HolderOfMu /\ RecoveryCurrent /\ NoStrayConn /\ AttachedIsGuilds /\ 0 \notin Conns
  BY VoiceAssumption DEF VoiceInv, VoiceSound
<1>2. ASSUME NEW c \in Conns, JoinBegins(c) PROVE VoiceInv'
  <2>1. /\ mu = "" /\ mu' = "join" /\ conn = 0 /\ held' = c /\ conns' = [conns EXCEPT ![c] = "opening"]
        /\ UNCHANGED <<conn, voice, channel, suspended, life, recover>>
    BY <1>2 DEF JoinBegins
  <2>2. VoiceTypeOK'
    BY <1>1, <2>1 DEF VoiceTypeOK, Places, OpenStates
  <2>3. HolderOfMu' /\ RecoveryCurrent' /\ AttachedIsGuilds'
    BY <1>1, <2>1 DEF VoiceTypeOK, HolderOfMu, RecoveryCurrent, AttachedIsGuilds
  <2>4. NoStrayConn'
    BY <1>1, <2>1 DEF VoiceTypeOK, NoStrayConn
  <2> QED  BY <2>2, <2>3, <2>4 DEF VoiceInv, VoiceSound
<1>3. CASE JoinEnds
  <2>1. /\ mu = "join" /\ life = "up" /\ voice = 0 /\ conns' = [conns EXCEPT ![held] = "ready"]
        /\ voice' = held /\ suspended' = FALSE /\ conn' = held /\ channel' = TRUE
        /\ mu' = "" /\ held' = 0 /\ UNCHANGED <<recover, life>> /\ held \in Conns /\ conn = 0
    BY <1>1, <1>3 DEF JoinEnds, HolderOfMu
  <2>2. VoiceTypeOK'
    BY <1>1, <2>1 DEF VoiceTypeOK, Places, OpenStates
  <2>3. recover.ctx = "dead"
    BY <1>1, <2>1 DEF RecoveryCurrent
  <2>4. HolderOfMu' /\ RecoveryCurrent' /\ AttachedIsGuilds'
    BY <1>1, <2>1, <2>3 DEF VoiceTypeOK, HolderOfMu, RecoveryCurrent, AttachedIsGuilds
  <2>5. NoStrayConn'
    BY <1>1, <2>1 DEF VoiceTypeOK, NoStrayConn
  <2> QED  BY <2>2, <2>4, <2>5 DEF VoiceInv, VoiceSound
<1>4. CASE JoinFails
  <2>1. /\ mu = "join" /\ conns' = ClosedConn(held) /\ mu' = "" /\ held' = 0
        /\ UNCHANGED <<conn, voice, channel, suspended, life, recover>>
    BY <1>4 DEF JoinFails
  <2>2. conns' \in [Conns -> OpenStates \cup {"closed"}]
        /\ \A x \in Conns : conns'[x] \in OpenStates => conns[x] \in OpenStates /\ x # held
    BY <1>1, <2>1, ClosedConnOpens DEF VoiceTypeOK
  <2>3. VoiceTypeOK'
    BY <1>1, <2>1, <2>2 DEF VoiceTypeOK, Places
  <2>4. HolderOfMu' /\ RecoveryCurrent' /\ AttachedIsGuilds'
    BY <1>1, <2>1 DEF VoiceTypeOK, HolderOfMu, RecoveryCurrent, AttachedIsGuilds
  <2>5. NoStrayConn'
    BY <1>1, <2>1, <2>2 DEF NoStrayConn
  <2> QED  BY <2>3, <2>4, <2>5 DEF VoiceInv, VoiceSound
<1> QED  BY <1>2, <1>3, <1>4

\* A leave takes the session down.
LEMMA LeaveKeeps ==
  ASSUME VoiceInv, mu = "", Leave, UNCHANGED <<conn, conns, channel, life>>, suspended' \in BOOLEAN
  PROVE VoiceInv'
<1>1. VoiceTypeOK /\ HolderOfMu /\ RecoveryCurrent /\ NoStrayConn /\ AttachedIsGuilds
  BY DEF VoiceInv, VoiceSound
<1>2. mu' = "leave" /\ held' = voice /\ voice' = 0
  BY DEF Leave
<1>3. recover' \in Recoveries /\ recover'.ctx = "dead"
  BY <1>1 DEF Leave, VoiceTypeOK, RecoveryCurrent, DeadRecovery, Recoveries
<1>4. VoiceTypeOK'
  BY <1>1, <1>2, <1>3 DEF VoiceTypeOK, Places
<1>5. HolderOfMu' /\ RecoveryCurrent' /\ AttachedIsGuilds' /\ NoStrayConn'
  BY <1>1, <1>2, <1>3 DEF HolderOfMu, RecoveryCurrent, AttachedIsGuilds, NoStrayConn
<1> QED  BY <1>4, <1>5 DEF VoiceInv, VoiceSound

\* LeaveEnds and CloseEnds: the holder closes the connections it knows.
LEMMA EndKeeps ==
  ASSUME VoiceInv, mu \in {"leave", "close"}, mu' = "", held' = 0, conn' = 0, channel' = FALSE,
         conns' = [c \in Conns |-> IF c \in {held, conn} THEN "closed" ELSE conns[c]],
         UNCHANGED <<voice, suspended, recover>>,
         life' = IF mu = "close" THEN "closed" ELSE life
  PROVE  VoiceInv'
<1>1. VoiceTypeOK /\ HolderOfMu /\ RecoveryCurrent /\ NoStrayConn /\ AttachedIsGuilds
  BY DEF VoiceInv, VoiceSound
<1>2. VoiceTypeOK'
  BY <1>1 DEF VoiceTypeOK, Places, OpenStates
<1>3. HolderOfMu' /\ RecoveryCurrent' /\ AttachedIsGuilds'
  BY <1>1 DEF HolderOfMu, RecoveryCurrent, AttachedIsGuilds
<1>4. NoStrayConn'
  BY <1>1 DEF NoStrayConn, OpenStates
<1> QED  BY <1>2, <1>3, <1>4 DEF VoiceInv, VoiceSound

\* The idle watch looks.
LEMMA WatchKeeps == ASSUME VoiceInv, WatchCheck PROVE VoiceInv'
<1>1. suspended' \in BOOLEAN /\ (suspended => suspended') /\ UNCHANGED <<conn, conns, channel, life>> /\ mu = ""
  BY DEF WatchCheck, VoiceInv, VoiceTypeOK
<1>2. CASE UNCHANGED <<mu, held, voice, recover>>
  BY <1>1, <1>2
  DEF VoiceInv, VoiceTypeOK, HolderOfMu, RecoveryCurrent, VoiceSound, NoStrayConn, AttachedIsGuilds
<1>3. CASE Leave
  BY <1>1, <1>3, LeaveKeeps
<1> QED  BY <1>2, <1>3 DEF WatchCheck, CheckEmpty

\* A recovery begins, or its time is over.
LEMMA RecoverBeginsKeeps == ASSUME VoiceInv, RecoverBegins \/ AttemptExpires PROVE VoiceInv'
<1>1. UNCHANGED <<session, conns>>
  BY DEF RecoverBegins, AttemptExpires, session
<1>2. /\ recover' \in Recoveries /\ recover'.pc # "idle" /\ recover'.ctx # "dead"
      /\ (recover'.pc = "apply" => recover.pc = "apply" /\ recover.ctx # "dead" /\ recover'.c = recover.c)
      /\ suspended /\ voice # 0 /\ life = "up"
  <2>1. CASE RecoverBegins
    BY <2>1 DEF RecoverBegins, Recoveries, Places
  <2>2. CASE AttemptExpires
    <3>1. recover \in Recoveries /\ recover' = [recover EXCEPT !.ctx = "late"] /\ recover.ctx = "live" /\ recover.pc # "idle"
      BY <2>2 DEF AttemptExpires, VoiceInv, VoiceTypeOK
    <3>2. recover' \in Recoveries /\ recover'.pc = recover.pc /\ recover'.ctx = "late" /\ recover'.c = recover.c
      BY <3>1 DEF Recoveries
    <3> QED  BY <2>2, <3>1, <3>2 DEF AttemptExpires, VoiceInv, RecoveryCurrent
  <2> QED  BY <2>1, <2>2
<1>3. HolderOfMu' /\ RecoveryCurrent'
  BY <1>1, <1>2 DEF VoiceInv, VoiceTypeOK, HolderOfMu, RecoveryCurrent, session
<1> QED
  BY <1>1, <1>2, <1>3 DEF VoiceInv, VoiceTypeOK, VoiceSound, NoStrayConn, AttachedIsGuilds, session

\* The candidate becomes g.conn: the player is suspended meanwhile.
LEMMA CandidateKeeps ==
  ASSUME VoiceInv, Recreate, recover.ctx = "live", recover.pc \in {"lock", "unready"}, mu = "", channel,
         UNCHANGED <<mu, held, voice, channel, suspended, life>>
  PROVE  VoiceInv'
<1>1. VoiceTypeOK /\ HolderOfMu /\ RecoveryCurrent /\ NoStrayConn /\ AttachedIsGuilds /\ 0 \notin Conns
  BY VoiceAssumption DEF VoiceInv, VoiceSound
<1>2. PICK c \in Unused :
        /\ conns' = [ClosedConn(conn) EXCEPT ![c] = "opening"] /\ conn' = c
        /\ recover' = [recover EXCEPT !.pc = "open", !.c = c]
  BY DEF Recreate
<1>3. c \in Conns
  BY DEF Unused
<1>4. recover' \in Recoveries /\ recover'.pc = "open" /\ recover'.ctx = "live"
  BY <1>1, <1>2, <1>3 DEF VoiceTypeOK, Recoveries, Places
<1>5. /\ conns' \in [Conns -> OpenStates \cup {"closed"}]
      /\ \A x \in Conns \ {c} : conns'[x] \in OpenStates => conns[x] \in OpenStates /\ x # conn
  <2>1. /\ ClosedConn(conn) \in [Conns -> OpenStates \cup {"closed"}]
        /\ \A x \in Conns : ClosedConn(conn)[x] \in OpenStates => conns[x] \in OpenStates /\ x # conn
    BY <1>1, ClosedConnOpens DEF VoiceTypeOK
  <2> QED  BY <1>2, <1>3, <2>1 DEF OpenStates
<1>6. VoiceTypeOK'
  BY <1>1, <1>2, <1>3, <1>4, <1>5 DEF VoiceTypeOK, Places
<1>7. NoStrayConn'
  BY <1>1, <1>2, <1>3, <1>5 DEF NoStrayConn
<1>8. suspended /\ voice # 0
  BY <1>1 DEF RecoveryCurrent
<1>9. HolderOfMu' /\ RecoveryCurrent' /\ AttachedIsGuilds'
  BY <1>1, <1>2, <1>4, <1>8 DEF VoiceTypeOK, HolderOfMu, RecoveryCurrent, AttachedIsGuilds
<1> QED  BY <1>6, <1>7, <1>9 DEF VoiceInv, VoiceSound

\* A recovery that is not applied.
LEMMA RecoveryKeeps == ASSUME VoiceInv, RecoveryStep, ~Applied PROVE VoiceInv'
<1>1. VoiceTypeOK /\ recover.c \in Places /\ conn \in Places
  BY DEF VoiceInv, VoiceTypeOK, Recoveries
<1>2. CASE LockGivesUp \/ FailedReturns
  BY <1>2, RecoveryEnds DEF LockGivesUp, FailedReturns, RecoverReturns, session
<1>3. CASE RecoverLocks
  <2>1. recover.pc = "lock" /\ recover.ctx = "live" /\ mu = "" /\ UNCHANGED <<mu, held, voice, channel, suspended, life>>
    BY <1>3 DEF RecoverLocks, Locked
  <2>2. CASE RecoverReturns
    BY <2>1, <2>2, RecoveryEnds DEF RecoverReturns, session
  <2>3. CASE RecoverGoes("confirm", conn)
    BY <1>1, <2>1, <2>3, RecoveryMoves DEF RecoverGoes, session
  <2>4. CASE channel /\ Recreate
    BY <2>1, <2>4, CandidateKeeps
  <2> QED  BY <1>3, <2>2, <2>3, <2>4 DEF RecoverLocks
<1>4. CASE Confirmed
  <2>1. recover.pc = "confirm" /\ UNCHANGED <<mu, held, voice, channel, suspended, life>>
    BY <1>4 DEF Confirmed
  <2>2. RecoverGoes("ready", recover.c) \/ RecoverGoes("unready", recover.c)
    BY <1>4 DEF Confirmed
  <2> QED  BY <1>1, <2>1, <2>2, RecoveryMoves DEF RecoverGoes, session
<1>5. CASE ReadyLocks \/ OpenedLocks
  <2>1. recover.pc \in {"ready", "opened"} /\ UNCHANGED <<mu, held, voice, channel, suspended, life>>
    BY <1>5 DEF ReadyLocks, OpenedLocks, Locked
  <2>2. CASE conn = recover.c /\ channel /\ RecoverGoes("apply", recover.c)
    BY <1>1, <2>1, <2>2, RecoveryMoves DEF RecoverGoes, session
  <2>3. CASE RecoverReturns
    BY <2>1, <2>3, RecoveryEnds DEF RecoverReturns, session
  <2> QED  BY <1>5, <2>2, <2>3 DEF ReadyLocks, OpenedLocks
<1>6. CASE UnreadyLocks
  <2>1. recover.pc = "unready" /\ recover.ctx = "live" /\ mu = "" /\ UNCHANGED <<mu, held, voice, channel, suspended, life>>
    BY <1>6 DEF UnreadyLocks, Locked
  <2>2. CASE RecoverReturns
    BY <2>1, <2>2, RecoveryEnds DEF RecoverReturns, session
  <2>3. CASE channel /\ Recreate
    BY <2>1, <2>3, CandidateKeeps
  <2> QED  BY <1>6, <2>2, <2>3 DEF UnreadyLocks
<1>7. CASE CandidateOpens \/ CandidateFails
  <2>1. UNCHANGED session /\ recover.pc = "open"
    BY <1>7 DEF CandidateOpens, CandidateFails, session
  <2>2. /\ conns' \in [Conns -> OpenStates \cup {"closed"}]
        /\ \A c \in Conns : conns'[c] \in OpenStates => conns[c] \in OpenStates
    <3>1. CASE CandidateOpens
      BY <1>1, <3>1 DEF CandidateOpens, VoiceTypeOK, OpenStates
    <3>2. CASE CandidateFails
      BY <1>1, <3>2, ClosedConnOpens DEF CandidateFails
    <3> QED  BY <1>7, <3>1, <3>2
  <2>3. recover' \in Recoveries /\ recover'.pc # "apply" /\ recover'.pc # "idle" /\ recover'.ctx = recover.ctx
    BY <1>1, <1>7 DEF CandidateOpens, CandidateFails, VoiceTypeOK, Recoveries
  <2> QED
    BY <2>1, <2>2, <2>3
    DEF VoiceInv, VoiceTypeOK, HolderOfMu, RecoveryCurrent, VoiceSound, NoStrayConn, AttachedIsGuilds, session
<1> QED  BY <1>2, <1>3, <1>4, <1>5, <1>6, <1>7 DEF RecoveryStep

\* A recovery that is applied.
LEMMA AppliedKeeps == ASSUME VoiceInv, Applied PROVE VoiceInv'
<1>1. NoRecovery \in Recoveries /\ NoRecovery.ctx = "dead" /\ recover' = NoRecovery
  BY DEF NoRecovery, Recoveries, Places, Applied
<1>2. UNCHANGED <<mu, held, conn, channel, conns, life>> /\ recover.pc = "apply"
  BY DEF Applied
<1>3. CASE StillWanted
  <2>1. voice' = recover.c /\ suspended' = FALSE /\ recover.ctx # "dead"
    BY <1>3 DEF Applied, StillWanted
  <2>2. recover.c = conn /\ channel /\ mu \notin {"leave", "close"}
    BY <1>2, <2>1 DEF VoiceInv, RecoveryCurrent, HolderOfMu
  <2> QED
    BY <1>1, <1>2, <2>1, <2>2
    DEF VoiceInv, VoiceTypeOK, HolderOfMu, RecoveryCurrent, VoiceSound, NoStrayConn, AttachedIsGuilds
<1>4. CASE ~StillWanted
  BY <1>1, <1>2, <1>4, RecoveryEnds DEF Applied, session
<1> QED  BY <1>3, <1>4

\* The bot shuts down.
LEMMA ShutdownKeeps == ASSUME VoiceInv, CloseBegins \/ CloseLocks \/ CloseEnds PROVE VoiceInv'
<1>1. VoiceTypeOK /\ HolderOfMu /\ RecoveryCurrent /\ NoStrayConn /\ AttachedIsGuilds
  BY DEF VoiceInv, VoiceSound
<1>2. CASE CloseBegins
  <2>1. recover' \in Recoveries /\ recover'.ctx = "dead" /\ life = "up" /\ life' = "drain"
        /\ UNCHANGED <<mu, held, conn, voice, channel, suspended, conns>>
    BY <1>1, <1>2 DEF CloseBegins, VoiceTypeOK, RecoveryCurrent, DeadRecovery, Recoveries
  <2> QED
    BY <1>1, <2>1
    DEF VoiceInv, VoiceTypeOK, HolderOfMu, RecoveryCurrent, VoiceSound, NoStrayConn, AttachedIsGuilds
<1>3. CASE CloseLocks
  BY <1>1, <1>3
  DEF CloseLocks, VoiceInv, VoiceTypeOK, Places, HolderOfMu, RecoveryCurrent, VoiceSound, NoStrayConn, AttachedIsGuilds
<1>4. CASE CloseEnds
  BY <1>1, <1>4, EndKeeps DEF CloseEnds, HolderOfMu
<1> QED  BY <1>2, <1>3, <1>4

\* Members, Discord and the network.
LEMMA OutsideKeeps ==
  ASSUME VoiceInv, HumanJoins \/ HumanLeaves \/ Removed \/ MovedAway \/ GatewayLost \/ TransportFails
                   \/ MainGateway \/ Clock \/ VisitHandled
  PROVE  VoiceInv'
<1>1. CASE HumanJoins \/ HumanLeaves \/ MovedAway \/ MainGateway \/ Clock \/ VisitHandled
  BY <1>1, SessionUnchanged DEF HumanJoins, HumanLeaves, MovedAway, MainGateway, Clock, VisitHandled, session
<1>2. CASE Removed \/ GatewayLost
  <2>1. conns' = LostConns(conn) /\ UNCHANGED <<session, recover>>
    BY <1>2 DEF Removed, GatewayLost, session
  <2>2. /\ conns' \in [Conns -> OpenStates \cup {"closed"}]
        /\ \A c \in Conns : conns'[c] \in OpenStates => conns[c] \in OpenStates
    BY <2>1 DEF LostConns, VoiceInv, VoiceTypeOK, OpenStates
  <2> QED  BY <2>1, <2>2, ConnChanges
<1>3. CASE TransportFails
  BY <1>3
  DEF TransportFails, VoiceInv, VoiceTypeOK, HolderOfMu, RecoveryCurrent, VoiceSound, NoStrayConn, AttachedIsGuilds
<1> QED  BY <1>1, <1>2, <1>3

\* Every step keeps the invariant.
LEMMA VoiceKeeps == VoiceInv /\ [VoiceNext]_voiceVars => VoiceInv'
<1> SUFFICES ASSUME VoiceInv, [VoiceNext]_voiceVars PROVE VoiceInv'
  OBVIOUS
<1>1. CASE UNCHANGED voiceVars
  BY <1>1, SessionUnchanged DEF voiceVars, session
<1>2. CASE LeaveCommand
  BY <1>2, LeaveKeeps DEF LeaveCommand, VoiceInv, VoiceTypeOK
<1>3. CASE LeaveEnds
  BY <1>3, EndKeeps DEF LeaveEnds
<1>4. CASE StopCommand
  BY <1>4, RecoveryEnds DEF StopCommand, session
<1> QED
  BY <1>1, <1>2, <1>3, <1>4, JoinKeeps, WatchKeeps, RecoverBeginsKeeps, RecoveryKeeps, AppliedKeeps,
     ShutdownKeeps, OutsideKeeps
  DEF VoiceNext

\* Every open voice connection belongs to the guild that holds it, and the player sends
\* on that one: join, leave, idle exit, recovery and Close, in any interleaving, leave
\* no stray connection and attach none that a recovery obtained for a session left
\* meanwhile.
THEOREM GuildOwnsItsVoice == VoiceSpec => []VoiceSound
<1>1. VoiceSpec => []VoiceInv
  BY VoiceStarts, VoiceKeeps, PTL DEF VoiceSpec
<1>2. VoiceInv => VoiceSound
  BY DEF VoiceInv
<1> QED  BY <1>1, <1>2, PTL

\* The wait for listeners never exceeds the time without one.
Times == empty \in -1 .. Grace /\ quiet \in 0 .. Grace
GraceSince ==
  /\ ~channel \/ mu \in {"leave", "close"} => empty = Unset
  /\ life = "up" /\ ~visit => empty <= quiet
  /\ life = "up" /\ ~visit /\ people => empty = Unset

clock == <<mu, channel, visit, people, empty, quiet, life>>

\* The initial state.
LEMMA GraceStarts == VoiceInit => Times /\ GraceSince
<1> SUFFICES ASSUME VoiceInit PROVE Times /\ GraceSince
  OBVIOUS
<1>1. empty = -1 /\ quiet = 0 /\ Grace \in Nat
  BY VoiceAssumption DEF VoiceInit, Unset
<1>2. Times /\ empty <= quiet
  BY <1>1 DEF Times
<1>3. empty = Unset
  BY DEF VoiceInit
<1> QED  BY <1>2, <1>3, Zenon DEF GraceSince

\* An unset clock is below every other.
LEMMA UnsetBelow == ASSUME Times PROVE Unset \in -1 .. Grace /\ Unset <= quiet
BY VoiceAssumption DEF Times, Unset

\* The watch's clock never runs ahead of the silence in the channel.
LEMMA TimesCompared == ASSUME Times, empty >= Grace, empty <= quiet PROVE quiet >= Grace
BY VoiceAssumption DEF Times

\* The watch starts its clock.
LEMMA TimesStart == ASSUME Times, empty' = 0, quiet' = quiet PROVE Times' /\ empty' <= quiet'
BY VoiceAssumption DEF Times

\* Steps that leave the clocks alone, or start the wait anew.
LEMMA GraceUnchanged ==
  ASSUME Times, GraceSince, UNCHANGED <<visit, people, quiet>>,
         \/ empty' = Unset
         \/ UNCHANGED <<empty, channel>> /\ mu' \notin {"leave", "close"},
         life' = life \/ life' # "up"
  PROVE  Times' /\ GraceSince'
<1>1. CASE empty' = Unset
  <2>1. Times' /\ empty' <= quiet'
    BY <1>1, UnsetBelow DEF Times
  <2> QED  BY <1>1, <2>1, Zenon DEF GraceSince
<1>2. CASE UNCHANGED <<empty, channel>> /\ mu' \notin {"leave", "close"}
  <2>1. Times'
    BY <1>2 DEF Times
  <2> QED  BY <1>2, <2>1 DEF GraceSince
<1> QED  BY <1>1, <1>2

\* Time passes.
LEMMA GraceClock == ASSUME Times, GraceSince, Clock PROVE Times' /\ GraceSince'
<1>1. UNCHANGED <<mu, channel, people, visit, life>> /\ Grace \in Nat \ {0} /\ Unset = -1
  BY VoiceAssumption DEF Clock, Unset
<1>2. Times' /\ (empty = Unset => empty' = Unset)
  BY <1>1 DEF Clock, Older, Times
<1>3. ASSUME empty <= quiet, ~people PROVE empty' <= quiet'
  BY <1>1, <1>3 DEF Clock, Older, Times
<1>4. ASSUME empty = Unset PROVE empty' <= quiet'
  BY <1>1, <1>2, <1>4 DEF Times
<1> QED  BY <1>1, <1>2, <1>3, <1>4 DEF GraceSince

\* The watch looks.
LEMMA GraceWatch == ASSUME VoiceInv, Times, GraceSince, WatchCheck PROVE Times' /\ GraceSince'
<1>1. UNCHANGED <<conn, channel, people, visit, life, quiet>> /\ mu = "" /\ (conn # 0 => channel)
  BY DEF WatchCheck, VoiceInv, HolderOfMu
<1>2. CASE UNCHANGED <<mu, empty>>
  BY <1>1, <1>2, GraceUnchanged
<1>3. CASE empty' = Unset
  BY <1>1, <1>3, GraceUnchanged
<1>4. CASE conn # 0 /\ ~people /\ empty' = 0 /\ mu' = mu
  <2>1. Times' /\ empty' <= quiet'
    BY <1>1, <1>4, TimesStart
  <2>2. channel' /\ mu' \notin {"leave", "close"} /\ ~people'
    BY <1>1, <1>4
  <2> QED  BY <2>1, <2>2, Zenon DEF GraceSince
<1> QED  BY <1>2, <1>3, <1>4 DEF WatchCheck, CheckEmpty, Leave

\* Members come and go.
LEMMA GraceHumans ==
  ASSUME Times, GraceSince, HumanJoins \/ HumanLeaves \/ VisitHandled PROVE Times' /\ GraceSince'
<1>1. CASE HumanJoins
  <2>1. UNCHANGED <<mu, channel, empty, life>> /\ quiet' = 0 /\ (life = "up" => visit')
    BY <1>1 DEF HumanJoins
  <2>2. Times'
    BY <2>1, VoiceAssumption DEF Times
  <2> QED  BY <2>1, <2>2 DEF GraceSince
<1>2. CASE HumanLeaves
  <2>1. UNCHANGED <<mu, channel, visit, empty, quiet, life>> /\ ~people'
    BY <1>2 DEF HumanLeaves
  <2> QED  BY <2>1 DEF Times, GraceSince
<1>3. CASE VisitHandled
  <2>1. UNCHANGED <<mu, channel, quiet>> /\ empty' = Unset
    BY <1>3 DEF VisitHandled, GraceSince
  <2>2. Times' /\ empty' <= quiet'
    BY <2>1, UnsetBelow DEF Times
  <2> QED  BY <2>1, <2>2, Zenon DEF GraceSince
<1> QED  BY <1>1, <1>2, <1>3

\* Recoveries do not touch the clocks.
LEMMA RecoveryKeepsClock == ASSUME RecoveryStep PROVE UNCHANGED clock
<1>1. CASE LockGivesUp \/ Confirmed \/ CandidateOpens \/ CandidateFails \/ FailedReturns \/ Applied
  BY <1>1 DEF LockGivesUp, Confirmed, CandidateOpens, CandidateFails, FailedReturns, Applied, clock
<1>2. CASE RecoverLocks \/ ReadyLocks \/ UnreadyLocks \/ OpenedLocks
  BY <1>2 DEF RecoverLocks, ReadyLocks, UnreadyLocks, OpenedLocks, Locked, clock
<1> QED  BY <1>1, <1>2 DEF RecoveryStep

\* Every step keeps the clocks related.
LEMMA GraceKeeps ==
  VoiceInv /\ Times /\ GraceSince /\ [VoiceNext]_voiceVars => Times' /\ GraceSince'
<1> SUFFICES ASSUME VoiceInv, Times, GraceSince, [VoiceNext]_voiceVars PROVE Times' /\ GraceSince'
  OBVIOUS
<1>1. CASE UNCHANGED clock
  BY <1>1 DEF Times, GraceSince, clock
<1>2. CASE (\E c \in Conns : JoinBegins(c)) \/ JoinEnds \/ JoinFails
  BY <1>2, GraceUnchanged DEF JoinBegins, JoinEnds, JoinFails
<1>3. CASE LeaveCommand
  BY <1>3, GraceUnchanged DEF LeaveCommand, Leave
<1>4. CASE LeaveEnds \/ CloseEnds
  <2>1. empty = Unset
    BY <1>4 DEF LeaveEnds, CloseEnds, GraceSince, VoiceInv, HolderOfMu
  <2> QED  BY <1>4, <2>1, GraceUnchanged DEF LeaveEnds, CloseEnds
<1>5. CASE CloseBegins
  <2>1. UNCHANGED <<mu, channel, visit, people, empty, quiet>> /\ life' # "up"
    BY <1>5 DEF CloseBegins
  <2> QED  BY <2>1 DEF Times, GraceSince
<1>6. CASE CloseLocks
  BY <1>6, GraceUnchanged DEF CloseLocks
<1>7. CASE StopCommand \/ RecoverBegins \/ AttemptExpires
  BY <1>1, <1>7 DEF StopCommand, RecoverBegins, AttemptExpires, clock
<1>8. CASE Removed \/ MovedAway \/ GatewayLost \/ TransportFails \/ MainGateway
  BY <1>1, <1>8 DEF Removed, MovedAway, GatewayLost, TransportFails, MainGateway, clock
<1> QED
  BY <1>1, <1>2, <1>3, <1>4, <1>5, <1>6, <1>7, <1>8, GraceClock, GraceWatch, GraceHumans, RecoveryKeepsClock
  DEF VoiceNext, voiceVars, clock

\* An empty channel is left by the watch only.
LEMMA OnlyWatchLeaves ==
  ASSUME [VoiceNext]_voiceVars, mu = "", mu' = "leave", ~people
  PROVE  WatchCheck
<1>1. ~RecoveryStep
  BY RecoveryKeepsClock DEF clock
<1> QED
  BY <1>1
  DEF VoiceNext, voiceVars, JoinBegins, JoinEnds, JoinFails, LeaveCommand, LeaveEnds, StopCommand, VisitHandled,
      RecoverBegins, AttemptExpires, CloseBegins, CloseLocks, CloseEnds, HumanJoins, HumanLeaves, Removed,
      MovedAway, GatewayLost, TransportFails, MainGateway, Clock

\* When it is, the grace period is over.
LEMMA GraceOver ==
  ASSUME Times, GraceSince, [VoiceNext]_voiceVars, mu = "", mu' = "leave", ~people, ~visit
  PROVE  quiet >= Grace
<1>1. WatchCheck
  BY OnlyWatchLeaves
<1>2. life = "up" /\ empty >= Grace
  BY <1>1 DEF WatchCheck, CheckEmpty
<1>3. empty <= quiet
  BY <1>2 DEF GraceSince
<1> QED  BY <1>2, <1>3, TimesCompared

\* The idle watch leaves a channel only after a whole grace period without a human in
\* it, short visits between two of its checks included (one whose event is not handled
\* yet aside).
THEOREM GraceNeverCutShort == VoiceSpec => GraceIsWhole
<1>1. VoiceSpec => [](VoiceInv /\ Times /\ GraceSince)
  BY VoiceStarts, VoiceKeeps, GraceStarts, GraceKeeps, PTL DEF VoiceSpec
<1>2. Times /\ GraceSince /\ [VoiceNext]_voiceVars =>
        [mu = "" /\ mu' = "leave" /\ ~people => visit \/ quiet >= Grace]_voiceVars
  BY GraceOver
<1> QED  BY <1>1, <1>2, PTL DEF VoiceSpec, GraceIsWhole
=============================================================================
