----------------------------- MODULE MCServices -----------------------------
(***************************************************************************)
(* The parts around the player: the voice session of a guild, one voice    *)
(* gateway, the stream pipeline, the announcements, the REST limiter, the  *)
(* answers to /queue, the playlists and the log store.  These modules      *)
(* share no state, so a behaviour exercises one of them, chosen in the     *)
(* initial state; the others stay in their initial states, in which none   *)
(* of their fair actions is enabled.  One weak fairness condition          *)
(* therefore stands for that of all of them.  The voice session comes      *)
(* twice: humans come and go while no transport fails ("idle"), and        *)
(* everything fails while somebody listens ("voice").                      *)
(***************************************************************************)
EXTENDS LogStore, StreamPipeline, VoiceSession, IncidentGateway, Announcements,
        RestLimiter, QueueReply, SpotifyPlaylist, TLC

CONSTANTS r1, r2, r3

VARIABLE focus

MCRoute == (r1 :> "a") @@ (r2 :> "a") @@ (r3 :> "a")

MCServicesInit ==
  /\ focus \in {"log", "stream", "idle", "voice", "gateway", "announce", "rest", "reply", "playlist"}
  /\ LogInit /\ StreamInit /\ VoiceInit /\ GatewayInit /\ AnnounceInit /\ LimiterInit
  /\ ReplyInit /\ PlaylistInit
  /\ focus # "playlist" => Len(Current) = 1 /\ ~playbackMode

Log(A) == focus = "log" /\ A
  /\ UNCHANGED <<focus, streamVars, voiceVars, gatewayVars, announceVars, limiterVars,
                 replyVars, playlistVars>>
Stream(A) == focus = "stream" /\ A
  /\ UNCHANGED <<focus, logVars, voiceVars, gatewayVars, announceVars, limiterVars,
                 replyVars, playlistVars>>
Voice(A) == focus \in {"idle", "voice"} /\ A
  /\ (focus = "idle" => ~suspended') /\ (focus = "voice" /\ people => people')
  /\ UNCHANGED <<focus, logVars, streamVars, gatewayVars, announceVars, limiterVars,
                 replyVars, playlistVars>>
Gateway(A) == focus = "gateway" /\ A
  /\ UNCHANGED <<focus, logVars, streamVars, voiceVars, announceVars, limiterVars,
                 replyVars, playlistVars>>
Announce(A) == focus = "announce" /\ A
  /\ UNCHANGED <<focus, logVars, streamVars, voiceVars, gatewayVars, limiterVars,
                 replyVars, playlistVars>>
Rest(A) == focus = "rest" /\ A
  /\ UNCHANGED <<focus, logVars, streamVars, voiceVars, gatewayVars, announceVars,
                 replyVars, playlistVars>>
Reply(A) == focus = "reply" /\ A
  /\ UNCHANGED <<focus, logVars, streamVars, voiceVars, gatewayVars, announceVars,
                 limiterVars, playlistVars>>
Playlist(A) == focus = "playlist" /\ A
  /\ UNCHANGED <<focus, logVars, streamVars, voiceVars, gatewayVars, announceVars,
                 limiterVars, replyVars>>

MCServicesNext ==
  \/ Log(LogNext) \/ Stream(StreamNext) \/ Voice(VoiceNext) \/ Gateway(GatewayNext)
  \/ Announce(AnnounceNext) \/ Rest(LimiterNext) \/ Reply(ReplyNext) \/ Playlist(PlaylistNext)

servicesVars ==
  <<focus, logVars, streamVars, voiceVars, gatewayVars, announceVars, limiterVars,
    replyVars, playlistVars>>

Progress ==
  \/ Log(LogProgress) \/ Stream(StreamProgress) \/ Voice(VoiceProgress)
  \/ Gateway(GatewayProgress) \/ Announce(AnnounceProgress) \/ Rest(LimiterProgress)
  \/ Playlist(Resolution)

MCServicesSpec ==
  MCServicesInit /\ [][MCServicesNext]_servicesVars /\ WF_servicesVars(Progress)

AnyWait ==
  \/ LogWaits \/ StreamWaits \/ VoiceWaits \/ GatewayWaits \/ AnnounceWaits \/ LimiterWaits
  \/ PlaylistWaits

\* Nothing waits for ever: the log writer ends after Close, a cancelled or
\* finished stream returns although its processes hang, Bot.Close gets past a
\* recovery of the player, a dead voice server is noticed, a wanted announcement
\* is sent, the Close of the REST limiter ends, a playlist is read or refused.
EveryWaitEnds == AnyWait ~> ~AnyWait
=============================================================================
