---------------------------- MODULE VoiceSession ----------------------------
(***************************************************************************)
(* The voice session of one guild (internal/discord: bot.go, commands.go,  *)
(* idle.go, voice_recovery.go, voice_join.go).  g.mu serialises commands,  *)
(* the watch worker, the event goroutines, the shutdown and the recovery   *)
(* of the player's scheduler, which never blocks on it.  The player is     *)
(* reduced to what the session sees of it: the transport attached to it,   *)
(* whether voice is suspended, and the context of its recovery (the queue, *)
(* the attempt budget and the epochs are in GuildPlayer).  There is one    *)
(* voice channel; every other one is "away".                               *)
(***************************************************************************)
EXTENDS Integers, FiniteSets

CONSTANTS
  Conns,          \* connection objects; a closed one nobody refers to is used again
  Grace,          \* emptyChannelGrace, in clock ticks
  UnhealthyLimit  \* the five seconds of checkVoiceHealth, in clock ticks

ASSUME VoiceAssumption ==
  /\ IsFiniteSet(Conns) /\ 0 \notin Conns
  /\ Grace \in Nat \ {0} /\ UnhealthyLimit \in Nat

VARIABLES
  mu,           \* the holder of g.mu between steps: "", "join", "leave", "close"
  held,         \* the connection the holder opens (join) or took from the player (leave)
  conn, channel,\* g.conn (0 = nil) and g.channel # 0
  conns,        \* Conns -> "closed", "opening", "ready", "lost"
  bot,          \* the bot in the membership cache: "here", "away", "unknown"
  people,       \* a human is in the channel
  visit,        \* an event of a human entering waits for g.mu
  empty,        \* ticks since g.emptySince, Unset if it is not set
  unhealthy,    \* ticks since g.unhealthySince, Unset if it is not set
  mainReady,    \* the main gateway is ready
  voice,        \* the connection of p.voice (0 = nil)
  suspended,    \* p.voiceBlocked
  broken,       \* brokenUDP of the attached transport
  recover,      \* the recovery: pc, candidate, ctx in "live", "late" (attempt), "dead"
  life,         \* Bot.Close: "up", "drain", "lock", "player", "closed"
  quiet         \* ticks since a human was in the channel

voiceVars == <<mu, held, conn, channel, conns, bot, people, visit, empty,
               unhealthy, mainReady, voice, suspended, broken, recover, life, quiet>>

Unset == -1
NoRecovery == [pc |-> "idle", c |-> 0, ctx |-> "dead"]
OpenStates == {"opening", "ready", "lost"}
Unused == {c \in Conns : conns[c] = "closed" /\ c \notin {held, conn, voice, recover.c}}
ClosedConn(c) == IF c = 0 THEN conns ELSE [conns EXCEPT ![c] = "closed"]
\* Closing a connection tells Discord that the bot leaves: its membership goes.
AfterClose(c) == IF c # 0 /\ conns[c] \in OpenStates THEN "unknown" ELSE bot
DeadRecovery == IF recover.pc = "idle" THEN recover ELSE [recover EXCEPT !.ctx = "dead"]

-----------------------------------------------------------------------------
\* /summon and /play of a human in the channel while g.conn is nil: Open runs
\* under g.mu.
JoinBegins(c) ==
  /\ life = "up" /\ mu = "" /\ people /\ conn = 0 /\ c \in Unused
  /\ mu' = "join" /\ held' = c /\ conns' = [conns EXCEPT ![c] = "opening"]
  /\ UNCHANGED <<conn, channel, bot, people, visit, empty, unhealthy, mainReady,
                 voice, suspended, broken, recover, life, quiet>>

\* Open succeeds and Attach accepts the transport (no voice attached yet).
JoinEnds ==
  /\ mu = "join" /\ life = "up" /\ voice = 0
  /\ conns' = [conns EXCEPT ![held] = "ready"] /\ bot' = "here"
  /\ voice' = held /\ suspended' = FALSE /\ broken' = FALSE
  /\ conn' = held /\ channel' = TRUE /\ empty' = Unset
  /\ mu' = "" /\ held' = 0
  /\ UNCHANGED <<people, visit, unhealthy, mainReady, recover, life, quiet>>

\* Open or Attach fails: the candidate is closed.
JoinFails ==
  /\ mu = "join"
  /\ conns' = ClosedConn(held) /\ bot' = AfterClose(held)
  /\ mu' = "" /\ held' = 0
  /\ UNCHANGED <<conn, channel, people, visit, empty, unhealthy, mainReady, voice,
                 suspended, broken, recover, life, quiet>>

\* guild.leave up to the point where player.Leave has detached the voice and
\* cancelled the recovery; it keeps g.mu while the track is torn down.
Leave ==
  /\ mu' = "leave" /\ held' = voice /\ voice' = 0
  /\ empty' = Unset /\ unhealthy' = Unset
  /\ recover' = DeadRecovery

LeaveCommand ==
  /\ life = "up" /\ mu = "" /\ people
  /\ Leave
  /\ UNCHANGED <<conn, channel, conns, bot, people, visit, mainReady, suspended,
                 broken, life, quiet>>

\* The transport of the player and g.conn are closed, the session is over.
LeaveEnds ==
  /\ mu = "leave"
  /\ conns' = [c \in Conns |-> IF c \in {held, conn} THEN "closed" ELSE conns[c]]
  /\ bot' = IF \E c \in {held, conn} \ {0} : conns[c] \in OpenStates THEN "unknown" ELSE bot
  /\ conn' = 0 /\ channel' = FALSE /\ mu' = "" /\ held' = 0
  /\ UNCHANGED <<people, visit, empty, unhealthy, mainReady, voice, suspended, broken,
                 recover, life, quiet>>

\* /stop cancels the recovery and keeps the session.
StopCommand ==
  /\ life = "up" /\ mu = "" /\ people /\ recover.ctx # "dead"
  /\ recover' = DeadRecovery
  /\ UNCHANGED <<mu, held, conn, channel, conns, bot, people, visit, empty, unhealthy,
                 mainReady, voice, suspended, broken, life, quiet>>

-----------------------------------------------------------------------------
\* checkEmpty, under g.mu: a listener, or no connection, restarts the wait; the
\* first empty check starts it; once it is over the bot leaves.  since is the
\* new g.unhealthySince of the health check before it.
CheckEmpty(since) ==
  LET stay == unhealthy' = since /\ UNCHANGED <<mu, held, voice, recover>>
  IN \/ (conn = 0 \/ people) /\ empty' = Unset /\ stay
     \/ conn # 0 /\ ~people /\ empty = Unset /\ empty' = 0 /\ stay
     \/ conn # 0 /\ ~people /\ empty \in 0 .. Grace - 1 /\ empty' = empty /\ stay
     \/ conn # 0 /\ ~people /\ empty >= Grace /\ Leave

\* checkVoiceHealth, then checkEmpty, for one guild; skipped while g.mu is held.
\* A session that is not healthy is suspended at once after a move, after the
\* limit when the voice gateway is not ready.  The empty check needs a trusted
\* membership.
VoiceReady == conn # 0 /\ conns[conn] = "ready"
Healthy == mainReady /\ VoiceReady /\ bot = "here"
Moved == mainReady /\ bot = "away"
UnhealthySince ==
  CASE conn = 0 -> unhealthy
    [] conn # 0 /\ Healthy -> Unset
    [] OTHER -> IF unhealthy = Unset THEN 0 ELSE unhealthy
WatchCheck ==
  /\ life = "up" /\ mu = ""
  /\ suspended' = \/ suspended
                  \/ /\ conn # 0 /\ ~Healthy /\ voice # 0
                     /\ Moved \/ (~VoiceReady /\ UnhealthySince >= UnhealthyLimit)
  /\ IF conn = 0 \/ (mainReady /\ bot = "here")
       THEN CheckEmpty(UnhealthySince)
       ELSE unhealthy' = UnhealthySince /\ UNCHANGED <<empty, mu, held, voice, recover>>
  /\ UNCHANGED <<conn, channel, conns, bot, people, visit, mainReady, broken, life, quiet>>

\* Mutant of VisitHandled: a visit between two checks does not restart the wait.
VisitHandledLate ==
  /\ visit /\ mu = ""
  /\ visit' = FALSE
  /\ UNCHANGED <<mu, held, conn, channel, conns, bot, people, empty, unhealthy,
                 mainReady, voice, suspended, broken, recover, life, quiet>>

\* The goroutine of voiceStateChanged for a human who entered the channel.
VisitHandled ==
  /\ visit /\ mu = ""
  /\ visit' = FALSE
  /\ empty' = IF channel THEN Unset ELSE empty
  /\ UNCHANGED <<mu, held, conn, channel, conns, bot, people, unhealthy, mainReady,
                 voice, suspended, broken, recover, life, quiet>>

-----------------------------------------------------------------------------
\* The recovery of the player's scheduler.  recoverVoice starts an attempt while
\* voice is suspended; its context is cancelled by Leave, Stop and shutdown.
RecoverBegins ==
  /\ life = "up" /\ recover.pc = "idle" /\ suspended /\ voice # 0
  /\ recover' = [pc |-> "lock", c |-> 0, ctx |-> "live"]
  /\ UNCHANGED <<mu, held, conn, channel, conns, bot, people, visit, empty, unhealthy,
                 mainReady, voice, suspended, broken, life, quiet>>

\* The fifteen seconds of the attempt are over.
AttemptExpires ==
  /\ recover.pc # "idle" /\ recover.ctx = "live"
  /\ recover' = [recover EXCEPT !.ctx = "late"]
  /\ UNCHANGED <<mu, held, conn, channel, conns, bot, people, visit, empty, unhealthy,
                 mainReady, voice, suspended, broken, life, quiet>>

RecoverReturns == recover' = NoRecovery /\ UNCHANGED <<conn, conns, bot>>
RecoverGoes(pc, c) == recover' = [recover EXCEPT !.pc = pc, !.c = c] /\ UNCHANGED <<conn, conns, bot>>

\* Mutant of Gives: lockVoice waits for the lock whatever its context says.
GivesLocked == recover.ctx # "live" /\ mu = ""

\* lockVoice gives up, with the lock free or not, once the context is done.
Gives == recover.ctx # "live"
LockGivesUp ==
  /\ recover.pc \in {"lock", "ready", "unready", "opened"} /\ Gives
  /\ RecoverReturns
  /\ UNCHANGED <<mu, held, channel, people, visit, empty, unhealthy, mainReady, voice,
                 suspended, broken, life, quiet>>

\* lockVoice succeeds: nobody holds g.mu.  What follows up to Unlock is one step.
Locked(pc) ==
  /\ recover.pc = pc /\ recover.ctx = "live" /\ mu = ""
  /\ UNCHANGED <<mu, held, channel, people, visit, empty, unhealthy, mainReady, voice,
                 suspended, broken, life, quiet>>

\* Mutant of Recreate: the old connection stays open.
RecreateKeeps ==
  \E c \in Unused :
    /\ conns' = [conns EXCEPT ![c] = "opening"]
    /\ conn' = c /\ bot' = AfterClose(conn)
    /\ recover' = [recover EXCEPT !.pc = "open", !.c = c]

\* The old connection is closed and a fresh candidate becomes g.conn.
Recreate ==
  \E c \in Unused :
    /\ conns' = [ClosedConn(conn) EXCEPT ![c] = "opening"]
    /\ conn' = c /\ bot' = AfterClose(conn)
    /\ recover' = [recover EXCEPT !.pc = "open", !.c = c]

Reusable == ~broken /\ VoiceReady
RecoverLocks ==
  /\ Locked("lock")
  /\ \/ ~(channel /\ mainReady /\ bot = "here") /\ RecoverReturns
     \/ channel /\ mainReady /\ bot = "here" /\ Reusable /\ RecoverGoes("confirm", conn)
     \/ channel /\ mainReady /\ bot = "here" /\ ~Reusable /\ Recreate

\* confirmVoiceReady of the present connection, without g.mu: the gateway, the
\* encryption session and the Speaking message may each fail.
Confirmed ==
  /\ recover.pc = "confirm"
  /\ \/ conns[recover.c] = "ready" /\ recover.ctx = "live" /\ RecoverGoes("ready", recover.c)
     \/ RecoverGoes("unready", recover.c)
  /\ UNCHANGED <<mu, held, channel, people, visit, empty, unhealthy, mainReady, voice,
                 suspended, broken, life, quiet>>

ReadyLocks ==
  /\ Locked("ready")
  /\ \/ conn = recover.c /\ channel /\ bot = "here" /\ RecoverGoes("apply", recover.c)
     \/ ~(conn = recover.c /\ channel /\ bot = "here") /\ RecoverReturns

\* The session is the same one as before: it is recreated.
UnreadyLocks ==
  /\ Locked("unready")
  /\ \/ ~(conn = recover.c /\ channel) /\ RecoverReturns
     \/ conn = recover.c /\ channel /\ Recreate

\* candidate.Open and confirmVoiceReady succeed, without g.mu.
CandidateOpens ==
  /\ recover.pc = "open" /\ conns[recover.c] = "opening" /\ recover.ctx = "live"
  /\ conns' = [conns EXCEPT ![recover.c] = "ready"] /\ bot' = "here"
  /\ recover' = [recover EXCEPT !.pc = "opened"]
  /\ UNCHANGED <<mu, held, conn, channel, people, visit, empty, unhealthy, mainReady,
                 voice, suspended, broken, life, quiet>>

\* They fail, or the context is done: the candidate is closed.
CandidateFails ==
  /\ recover.pc = "open"
  /\ conns' = ClosedConn(recover.c) /\ bot' = AfterClose(recover.c)
  /\ recover' = [recover EXCEPT !.pc = "failed"]
  /\ UNCHANGED <<mu, held, conn, channel, people, visit, empty, unhealthy, mainReady,
                 voice, suspended, broken, life, quiet>>

FailedReturns ==
  /\ recover.pc = "failed" /\ (mu = "" \/ recover.ctx # "live")
  /\ RecoverReturns
  /\ UNCHANGED <<mu, held, channel, people, visit, empty, unhealthy, mainReady, voice,
                 suspended, broken, life, quiet>>

OpenedLocks ==
  /\ Locked("opened")
  /\ \/ conn = recover.c /\ channel /\ RecoverGoes("apply", recover.c)
     \/ ~(conn = recover.c /\ channel) /\ RecoverReturns

\* Mutant of StillWanted: a recovery cancelled meanwhile is applied all the same.
StillWantedAlways == TRUE

\* recoverVoice takes the replacement unless it was cancelled meanwhile.
StillWanted == recover.ctx # "dead"
Applied ==
  /\ recover.pc = "apply"
  /\ IF StillWanted
       THEN voice' = recover.c /\ suspended' = FALSE /\ broken' = FALSE
       ELSE UNCHANGED <<voice, suspended, broken>>
  /\ recover' = NoRecovery
  /\ UNCHANGED <<mu, held, conn, channel, conns, bot, people, visit, empty, unhealthy,
                 mainReady, life, quiet>>

-----------------------------------------------------------------------------
\* Bot.Close: new work is refused and every context cancelled; the workers end;
\* the guild is closed under g.mu, where player.Close waits for the scheduler.
CloseBegins ==
  /\ life = "up"
  /\ life' = "drain" /\ recover' = DeadRecovery
  /\ UNCHANGED <<mu, held, conn, channel, conns, bot, people, visit, empty, unhealthy,
                 mainReady, voice, suspended, broken, quiet>>

CloseLocks ==
  /\ life = "drain" /\ mu = "" /\ ~visit
  /\ life' = "player" /\ mu' = "close"
  /\ held' = voice /\ voice' = 0 /\ empty' = Unset
  /\ UNCHANGED <<conn, channel, conns, bot, people, visit, unhealthy, mainReady,
                 suspended, broken, recover, quiet>>

CloseEnds ==
  /\ life = "player" /\ recover.pc = "idle"
  /\ conns' = [c \in Conns |-> IF c \in {held, conn} THEN "closed" ELSE conns[c]]
  /\ bot' = IF \E c \in {held, conn} \ {0} : conns[c] \in OpenStates THEN "unknown" ELSE bot
  /\ conn' = 0 /\ channel' = FALSE /\ mu' = "" /\ held' = 0 /\ life' = "closed"
  /\ UNCHANGED <<people, visit, empty, unhealthy, mainReady, voice, suspended, broken,
                 recover, quiet>>

-----------------------------------------------------------------------------
\* Discord and the humans (external).  A removal ends the session's gateway and
\* its membership, a move only the membership.
HumanJoins ==
  /\ ~people /\ people' = TRUE /\ quiet' = 0
  /\ visit' = (visit \/ life = "up")
  /\ UNCHANGED <<mu, held, conn, channel, conns, bot, empty, unhealthy, mainReady, voice,
                 suspended, broken, recover, life>>

HumanLeaves ==
  /\ people /\ people' = FALSE
  /\ UNCHANGED <<mu, held, conn, channel, conns, bot, visit, empty, unhealthy, mainReady,
                 voice, suspended, broken, recover, life, quiet>>

LostConns(c) == IF c # 0 /\ conns[c] = "ready" THEN [conns EXCEPT ![c] = "lost"] ELSE conns
Removed ==
  /\ bot = "here" /\ mu # "join"
  /\ bot' = "unknown" /\ conns' = LostConns(conn)
  /\ UNCHANGED <<mu, held, conn, channel, people, visit, empty, unhealthy, mainReady,
                 voice, suspended, broken, recover, life, quiet>>

MovedAway ==
  /\ bot = "here" /\ mu # "join" /\ bot' = "away"
  /\ UNCHANGED <<mu, held, conn, channel, conns, people, visit, empty, unhealthy,
                 mainReady, voice, suspended, broken, recover, life, quiet>>

GatewayLost ==
  /\ VoiceReady /\ conns' = LostConns(conn)
  /\ UNCHANGED <<mu, held, conn, channel, bot, people, visit, empty, unhealthy, mainReady,
                 voice, suspended, broken, recover, life, quiet>>

\* A frame cannot be written: the track fails as a voice failure, which suspends
\* voice; an error of the UDP socket itself also marks the transport.
TransportFails ==
  /\ voice # 0 /\ ~suspended /\ suspended' = TRUE
  /\ broken' \in {broken, TRUE}
  /\ UNCHANGED <<mu, held, conn, channel, conns, bot, people, visit, empty, unhealthy,
                 mainReady, voice, recover, life, quiet>>

MainGateway ==
  /\ mainReady' = ~mainReady
  /\ UNCHANGED <<mu, held, conn, channel, conns, bot, people, visit, empty, unhealthy,
                 voice, suspended, broken, recover, life, quiet>>

Older(age, limit) == IF age = Unset \/ age = limit THEN age ELSE age + 1
Clock ==
  /\ empty' = Older(empty, Grace)
  /\ unhealthy' = Older(unhealthy, UnhealthyLimit)
  /\ quiet' = IF people THEN 0 ELSE Older(quiet, Grace)
  /\ UNCHANGED <<mu, held, conn, channel, conns, bot, people, visit, mainReady, voice,
                 suspended, broken, recover, life>>

-----------------------------------------------------------------------------
VoiceInit ==
  /\ mu = "" /\ held = 0 /\ conn = 0 /\ channel = FALSE
  /\ conns = [c \in Conns |-> "closed"]
  /\ bot = "unknown" /\ people = FALSE /\ visit = FALSE
  /\ empty = Unset /\ unhealthy = Unset /\ mainReady = TRUE
  /\ voice = 0 /\ suspended = FALSE /\ broken = FALSE
  /\ recover = NoRecovery /\ life = "up" /\ quiet = 0

RecoveryStep ==
  \/ LockGivesUp \/ RecoverLocks \/ Confirmed \/ ReadyLocks \/ UnreadyLocks
  \/ CandidateOpens \/ CandidateFails \/ FailedReturns \/ OpenedLocks \/ Applied

VoiceNext ==
  \/ \E c \in Conns : JoinBegins(c)
  \/ JoinEnds \/ JoinFails \/ LeaveCommand \/ LeaveEnds \/ StopCommand
  \/ WatchCheck \/ VisitHandled
  \/ RecoverBegins \/ AttemptExpires \/ RecoveryStep
  \/ CloseBegins \/ CloseLocks \/ CloseEnds
  \/ HumanJoins \/ HumanLeaves \/ Removed \/ MovedAway \/ GatewayLost \/ TransportFails
  \/ MainGateway \/ Clock

\* Calls with a deadline return, goroutines run, a free mutex is given to a
\* waiter.  Fairness of the disjunction is all that is needed.
VoiceProgress ==
  JoinFails \/ LeaveEnds \/ VisitHandled \/ RecoveryStep \/ CloseLocks \/ CloseEnds
VoiceFairness == WF_voiceVars(VoiceProgress)

VoiceSpec == VoiceInit /\ [][VoiceNext]_voiceVars /\ VoiceFairness

-----------------------------------------------------------------------------
\* No voice connection is left open without an owner: at any moment the only
\* open ones are g.conn and the one that a command is opening under g.mu, so a
\* leave, a failed join or a cancelled recovery cannot leak one.
NoStrayConn == \A c \in Conns : conns[c] \in OpenStates => c = conn \/ (mu = "join" /\ c = held)

\* The transport the player sends on is the guild's connection, never one that
\* a recovery obtained for a session that was left meanwhile.
AttachedIsGuilds == voice # 0 /\ ~suspended => voice = conn /\ channel

\* The bot leaves an empty channel only when no human was in it for the whole
\* grace period, short visits between two checks included (a visit whose event
\* has not been handled yet aside).
GraceIsWhole ==
  [][mu = "" /\ mu' = "leave" /\ ~people => visit \/ quiet >= Grace]_voiceVars

\* Bot.Close is on its way: it must not wait for a recovery that waits for g.mu.
VoiceWaits == life \in {"drain", "player"}

\* Every open connection is the guild's, and the player sends on that one.
VoiceSound == NoStrayConn /\ AttachedIsGuilds
=============================================================================
