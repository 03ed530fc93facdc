--------------------------- MODULE StreamPipeline ---------------------------
(***************************************************************************)
(* Streamer.Play (internal/player/stream.go): a producer (yt-dlp or a      *)
(* local remuxer) feeds a decoder through a pipe, packets pass the pause   *)
(* gate to the voice connection, two watchdogs and the track's context may *)
(* cancel everything, and Play returns one error.  A process that runs may *)
(* also hang: nothing makes it exit by itself.                             *)
(***************************************************************************)
EXTENDS Naturals

CONSTANTS
  Duration,   \* frames a complete track needs
  MaxFrames,  \* bound: frames the source offers
  IdleTicks   \* ticks of watchActivity that make an idle timeout

ASSUME StreamAssumption ==
  /\ Duration \in Nat /\ MaxFrames \in Nat /\ Duration <= MaxFrames /\ IdleTicks \in Nat \ {0}

VARIABLES
  playPC,      \* where Play is
  parentDone,  \* the track's context was cancelled
  cause,       \* cause of the pipeline's own context, "none" while it lives
  yt, ff,      \* "off", "running", "ok", "error" (exit code > 0), "signal"
  sourceReady, \* the producer wrote a byte
  resolved, firstAudio, \* what watchStartup waits for
  watch,       \* watchStartup: "resolve", "audio", "off"
  paused, idle,\* the pause gate; ticks since the last activity
  frames,      \* audio frames written
  readErr,     \* how the packet loop ended
  result,      \* the error Play returns
  voiceFailed, resumed \* history: a voice call failed; open ticks since the last closed one

streamVars == <<playPC, parentDone, cause, yt, ff, sourceReady, resolved, firstAudio, watch,
                paused, idle, frames, readErr, result, voiceFailed, resumed>>
procs == <<yt, ff>>
signals == <<sourceReady, resolved, firstAudio, watch>>
gate == <<paused, idle, resumed>>

Ended(p) == p \in {"ok", "error", "signal"}
Dead == parentDone \/ cause # "none"
Alive == playPC \notin {"start", "returned"}

Causes(c) == cause' = IF Dead THEN cause ELSE c
Returns(r) == playPC' = "returned" /\ result' = r
Steps(pc) == playPC' = pc /\ UNCHANGED result

-----------------------------------------------------------------------------
\* Start of the producer and the wait for its first byte.

StartProducer ==
  /\ playPC = "start"
  /\ \/ yt' = "running" /\ Steps("source")
     \/ Returns("start") /\ UNCHANGED yt
  /\ UNCHANGED <<parentDone, cause, ff, signals, gate, frames, readErr, voiceFailed>>

\* The marker on stderr or the first byte resolves the stream.
ProducerSpeaks ==
  /\ yt = "running" /\ ~sourceReady
  /\ resolved' = TRUE /\ sourceReady' \in BOOLEAN
  /\ UNCHANGED <<playPC, parentDone, cause, procs, firstAudio, watch, gate, frames, readErr, result, voiceFailed>>

\* A process exits, with or without an error, or is killed from outside.
ProcessExits ==
  /\ \/ yt = "running" /\ yt' \in {"ok", "error", "signal"} /\ UNCHANGED ff
     \/ ff = "running" /\ ff' \in {"ok", "error", "signal"} /\ UNCHANGED yt
  /\ UNCHANGED <<playPC, parentDone, cause, signals, gate, frames, readErr, result, voiceFailed>>

\* Mutant of ForceKill: only the decoder is killed.
ForceKillDecoder ==
  /\ Dead /\ Alive /\ ff = "running"
  /\ ff' = "signal" /\ UNCHANGED yt
  /\ UNCHANGED <<playPC, parentDone, cause, signals, gate, frames, readErr, result, voiceFailed>>

\* The AfterFuncs of the context: SIGKILL to both process groups.
ForceKill ==
  /\ Dead /\ Alive /\ (yt = "running" \/ ff = "running")
  /\ yt' = IF yt = "running" THEN "signal" ELSE yt
  /\ ff' = IF ff = "running" THEN "signal" ELSE ff
  /\ UNCHANGED <<playPC, parentDone, cause, signals, gate, frames, readErr, result, voiceFailed>>

\* Without a byte there is nothing to decode: Play returns what ended it.
NoSource ==
  IF parentDone THEN "canceled" ELSE IF yt = "error" THEN "source"
  ELSE IF cause # "none" THEN cause ELSE "no_audio"

\* Mutant of SourceReady: a cancelled context does not wait for the producer.
SourceReadyAtOnce ==
  /\ playPC = "source"
  /\ \/ sourceReady /\ Steps("decoder")
     \/ Ended(yt) /\ ~sourceReady /\ Returns(NoSource)
     \/ Dead /\ ~sourceReady /\ Returns(NoSource)
  /\ UNCHANGED <<parentDone, cause, procs, signals, gate, frames, readErr, voiceFailed>>

SourceReady ==
  /\ playPC = "source"
  /\ \/ sourceReady /\ Steps("decoder")
     \/ Ended(yt) /\ ~sourceReady /\ Returns(NoSource)
  /\ UNCHANGED <<parentDone, cause, procs, signals, gate, frames, readErr, voiceFailed>>

\* A decoder that cannot start cancels the producer and waits for it.
StartDecoder ==
  /\ playPC = "decoder"
  /\ \/ ff' = "running" /\ Steps("parse") /\ UNCHANGED cause
     \/ Steps("reap") /\ Causes("canceled") /\ UNCHANGED ff
  /\ UNCHANGED <<parentDone, yt, signals, gate, frames, readErr, voiceFailed>>

Reap ==
  /\ playPC = "reap" /\ Ended(yt)
  /\ Returns("ffmpeg_start")
  /\ UNCHANGED <<parentDone, cause, procs, signals, gate, frames, readErr, voiceFailed>>

-----------------------------------------------------------------------------
\* oggPackets and its callback.

\* The packet loop ends; an error cancels the pipeline with itself as cause.
LoopEnds(err) ==
  /\ Steps("drain") /\ readErr' = err
  /\ IF err = "none" THEN UNCHANGED cause ELSE Causes(err)

\* A packet: the first one stops the startup watchdog before anything blocks.
Packet ==
  /\ playPC = "parse" /\ sourceReady /\ ff # "off" /\ frames < MaxFrames
  /\ firstAudio' = TRUE
  /\ Steps("pace")
  /\ UNCHANGED <<parentDone, cause, procs, sourceReady, resolved, watch, gate, frames, readErr, voiceFailed>>

\* Speaking and the 20 ms pacing timer.
Pace ==
  /\ playPC = "pace"
  /\ \/ Dead /\ LoopEnds("canceled") /\ UNCHANGED voiceFailed
     \/ frames = 0 /\ LoopEnds("voice") /\ voiceFailed' = TRUE
     \/ Steps("gate") /\ UNCHANGED <<cause, readErr, voiceFailed>>
  /\ UNCHANGED <<parentDone, procs, signals, gate, frames>>

\* waitPlayback, after the pacing.
PassGate ==
  /\ playPC = "gate"
  /\ \/ Dead /\ LoopEnds("canceled")
     \/ ~paused /\ ~Dead /\ Steps("write") /\ UNCHANGED <<cause, readErr>>
  /\ UNCHANGED <<parentDone, procs, signals, gate, frames, voiceFailed>>

\* WriteFrame succeeds, fails, or panics in a callback.
WriteFrame ==
  /\ playPC = "write"
  /\ \/ /\ frames' = frames + 1 /\ idle' = 0
        /\ Steps("parse") /\ UNCHANGED <<cause, readErr, voiceFailed>>
     \/ /\ LoopEnds(IF Dead THEN "canceled" ELSE "voice") /\ voiceFailed' = TRUE
        /\ UNCHANGED <<frames, idle>>
     \/ /\ Steps("panic") /\ Causes("canceled")
        /\ UNCHANGED <<frames, idle, readErr, voiceFailed>>
  /\ UNCHANGED <<parentDone, procs, signals, paused, resumed>>

\* recover: cancel, wait for both processes.
Recovered ==
  /\ playPC = "panic" /\ Ended(ff) /\ Ended(yt)
  /\ Returns("panic")
  /\ UNCHANGED <<parentDone, cause, procs, signals, gate, frames, readErr, voiceFailed>>

\* End of the decoder's output: clean, without any audio, or malformed.  A
\* decoder that still runs may have closed its output.
EndOfAudio ==
  /\ playPC = "parse"
  /\ \/ LoopEnds(IF frames = 0 THEN "no_audio" ELSE "none")
     \/ LoopEnds("stream")
  /\ UNCHANGED <<parentDone, procs, signals, gate, frames, voiceFailed>>

-----------------------------------------------------------------------------
\* The bounded waits after the end of the audio, and the result.

DrainTimer ==
  /\ \/ playPC = "drain" /\ ff = "running" /\ Causes("decoder_after_eof")
     \/ playPC = "drainSource" /\ yt = "running" /\ Causes("source_after_eof")
  /\ ~Dead
  /\ UNCHANGED <<playPC, parentDone, procs, signals, gate, frames, readErr, result, voiceFailed>>

DrainDecoder ==
  /\ playPC = "drain" /\ Ended(ff)
  /\ Steps("drainSource")
  /\ IF ff = "ok" THEN UNCHANGED cause ELSE Causes("canceled")
  /\ UNCHANGED <<parentDone, procs, signals, gate, frames, readErr, voiceFailed>>

\* Mutant of Failure: any producer that did not end well is the root cause.
FailureOfProducer ==
  IF yt \in {"error", "signal"} THEN "source" ELSE IF cause # "none" THEN cause ELSE "none"

\* The first of Play's failures: a producer's own exit code, the cause of the
\* cancellation, a decoder's own exit code, a process killed from outside.
Failure ==
  IF yt = "error" THEN "source"
  ELSE IF cause # "none" /\ ~(cause = "canceled" /\ ff = "error") THEN cause
  ELSE IF ff = "error" THEN "decoder"
  ELSE IF yt = "signal" THEN "source"
  ELSE IF ff = "signal" THEN "decoder"
  ELSE "none"

DrainSource ==
  /\ playPC = "drainSource" /\ Ended(yt)
  /\ \/ parentDone /\ Returns("canceled")
     \/ ~parentDone /\ Failure # "none" /\ Returns(Failure)
     \/ ~parentDone /\ Failure = "none" /\ frames < Duration /\ Returns("audio_eof")
     \/ ~parentDone /\ Failure = "none" /\ frames >= Duration /\ Steps("silence")
  /\ UNCHANGED <<parentDone, cause, procs, signals, gate, frames, readErr, voiceFailed>>

\* Five silence frames.
Silence ==
  /\ playPC = "silence"
  /\ \/ Dead /\ Returns("canceled") /\ UNCHANGED voiceFailed
     \/ Returns("voice") /\ voiceFailed' = TRUE
     \/ Returns("none") /\ UNCHANGED voiceFailed
  /\ UNCHANGED <<parentDone, cause, procs, signals, gate, frames, readErr>>

-----------------------------------------------------------------------------
\* The outside: cancellation, the pause gate, the watchdogs.

CancelTrack ==
  /\ playPC # "returned" /\ ~parentDone
  /\ parentDone' = TRUE
  /\ UNCHANGED <<playPC, cause, procs, signals, gate, frames, readErr, result, voiceFailed>>

SetGate ==
  /\ Alive /\ paused' = ~paused
  /\ UNCHANGED <<playPC, parentDone, cause, procs, signals, idle, resumed, frames, readErr, result, voiceFailed>>

\* watchStartup: a deadline to resolve, then one to the first packet.
WatchStartup ==
  /\ Alive
  /\ \/ watch # "off" /\ (Dead \/ firstAudio) /\ watch' = "off" /\ UNCHANGED cause
     \/ watch = "resolve" /\ resolved /\ watch' = "audio" /\ UNCHANGED cause
     \/ /\ watch # "off" /\ ~firstAudio /\ ~(watch = "resolve" /\ resolved)
        /\ watch' = "off" /\ Causes("timeout")
  /\ UNCHANGED <<playPC, parentDone, procs, sourceReady, resolved, firstAudio, gate, frames, readErr, result, voiceFailed>>

\* Mutant of WatchActivity: a pause stops the clock but does not reset it.
WatchActivityStops ==
  /\ Alive /\ ~Dead
  /\ idle' = IF paused THEN idle ELSE idle + 1
  /\ resumed' = IF paused THEN 0 ELSE IF resumed > IdleTicks THEN resumed ELSE resumed + 1
  /\ IF ~paused /\ idle + 1 > IdleTicks THEN Causes("stall") ELSE UNCHANGED cause
  /\ UNCHANGED <<playPC, parentDone, procs, signals, paused, frames, readErr, result, voiceFailed>>

\* A tick of watchActivity: a closed gate counts as activity.
WatchActivity ==
  /\ Alive /\ ~Dead
  /\ idle' = IF paused THEN 0 ELSE idle + 1
  /\ resumed' = IF paused THEN 0 ELSE IF resumed > IdleTicks THEN resumed ELSE resumed + 1
  /\ IF ~paused /\ idle + 1 > IdleTicks THEN Causes("stall") ELSE UNCHANGED cause
  /\ UNCHANGED <<playPC, parentDone, procs, signals, paused, frames, readErr, result, voiceFailed>>

StreamInit ==
  /\ playPC = "start" /\ parentDone = FALSE /\ cause = "none"
  /\ yt = "off" /\ ff = "off" /\ sourceReady = FALSE /\ resolved = FALSE /\ firstAudio = FALSE
  /\ watch = "resolve" /\ paused = FALSE /\ idle = 0 /\ frames = 0
  /\ readErr = "none" /\ result = "none" /\ voiceFailed = FALSE /\ resumed = 0

PlayStep ==
  \/ SourceReady \/ StartDecoder \/ Reap \/ Pace \/ PassGate \/ WriteFrame \/ Recovered
  \/ (Dead /\ EndOfAudio) \/ DrainDecoder \/ DrainSource \/ Silence

StreamNext ==
  \/ StartProducer \/ PlayStep \/ Packet \/ EndOfAudio
  \/ ProducerSpeaks \/ ProcessExits \/ ForceKill \/ DrainTimer
  \/ CancelTrack \/ SetGate \/ WatchStartup \/ WatchActivity

\* Play's own steps run, kills arrive, timers fire; processes may hang and
\* nobody has to resume a paused track.
StreamProgress == PlayStep \/ ForceKill \/ DrainTimer
StreamFairness == WF_streamVars(StreamProgress)
StreamSpec == StreamInit /\ [][StreamNext]_streamVars /\ StreamFairness

-----------------------------------------------------------------------------
(* When Play returns no process of it is left, on every way out: failed    *)
(* starts, an empty source, cancellation in any phase, a panic in the      *)
(* voice callback, a hung producer or decoder.                             *)
NothingLeftRunning == playPC = "returned" => yt # "running" /\ ff # "running"

(* "Killed processes are cleanup consequences, not source diagnoses": the  *)
(* producer, the decoder or the voice connection is blamed only for its    *)
(* own failure, so that a cancellation or a timeout never counts against   *)
(* the provider.                                                           *)
BlameIsRight ==
  playPC = "returned" =>
    /\ result = "source" => yt = "error" \/ (yt = "signal" /\ cause = "none")
    /\ result = "decoder" => ff \in {"error", "signal"} /\ cause \in {"none", "canceled"}
    /\ result = "voice" => voiceFailed
    /\ result = "none" => frames >= Duration

(* "Pause suspends this idle deadline": a stream is declared stalled only  *)
(* while the gate is open, a whole idle period after the last tick that    *)
(* found it closed.                                                        *)
PauseIsNotStall == [][cause' = "stall" /\ cause # "stall" => ~paused /\ resumed' > IdleTicks]_streamVars

(* The track is cancelled, a watchdog fired or the audio ended, and Play   *)
(* has not returned; both processes may hang, the gate may stay closed.    *)
StreamWaits == Alive /\ (Dead \/ playPC = "drain")

\* Play leaves nothing behind and blames who failed.
StreamSound == NothingLeftRunning /\ BlameIsRight
=============================================================================
