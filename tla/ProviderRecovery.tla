-------------------------- MODULE ProviderRecovery --------------------------
(***************************************************************************)
(* Guild players and the shared YouTube gate: provider_recovery.go and the *)
(* provider part of run(), composed with ProviderAdmission.                *)
(*                                                                         *)
(* The callers of the gate are the schedulers of the guilds.  A step that  *)
(* uses the gate is the conjunction of the gate's action and of what the   *)
(* player does with it; stage[g] says where run() is around the gate's     *)
(* pc[g].  p.mu is released between two stages, so /stop can interleave,   *)
(* but not between those in which the player settles an attempt (Settling).*)
(*                                                                         *)
(* Kept of the player: whether it has a head to play, and its provider     *)
(* state.  Its queue, voice and durable state are in GuildPlayer; here the *)
(* automatic retries of a guild's own policy are not counted.              *)
(***************************************************************************)
EXTENDS ProviderAdmission

CONSTANTS
    Stops,         \* whether members use /stop (or /leave)
    StaleReads,    \* whether the gate can change between waitProvider's look at it and p.mu
    MaxIncidents   \* bound: incidents of a guild's own policy

ASSUME RecoveryAssumption == Stops \in BOOLEAN /\ StaleReads \in BOOLEAN /\ MaxIncidents \in Nat

VARIABLES
    queued,            \* len(p.queue) > 0
    canceled,          \* the attempt's ctx was cancelled
    stage,             \* where run() is
    shared,            \* waitProvider's shared.Blocked
    providerBlocked, providerGlobal, providerProbe,
    providerIncident,  \* 0: none; n > 0: the gate's; n < 0: the guild's own
    ownIncidents,      \* incidents of the guild's own policy so far
    ownPermit          \* providerPermit, when it is a permit of the guild's own policy

guildVars == <<queued, canceled, stage, shared, providerBlocked, providerGlobal, providerProbe,
               providerIncident, ownIncidents, ownPermit>>
policyVars == <<providerBlocked, providerGlobal, providerProbe, providerIncident, ownIncidents>>
allVars == <<vars, guildVars>>

Guilds == Callers
Stages == {"top", "asleep", "looked", "own", "waiting", "returned", "granted", "playing",
           "confirmed", "observing", "reporting", "blocking", "finishing", "settling"}

\* p.mu is held: the section after play(), and confirmFrame.
Settling(g) == stage[g] \in {"confirmed", "observing", "reporting", "blocking", "finishing", "settling"}

GuildInit ==
    /\ Init
    /\ queued = [g \in Guilds |-> FALSE] /\ canceled = [g \in Guilds |-> FALSE]
    /\ stage = [g \in Guilds |-> "top"] /\ shared = [g \in Guilds |-> FALSE]
    /\ providerBlocked = [g \in Guilds |-> FALSE] /\ providerGlobal = [g \in Guilds |-> FALSE]
    /\ providerProbe = [g \in Guilds |-> FALSE] /\ providerIncident = [g \in Guilds |-> 0]
    /\ ownIncidents = [g \in Guilds |-> 0] /\ ownPermit = [g \in Guilds |-> 0]

To(g, s) == stage' = [stage EXCEPT ![g] = s]
-----------------------------------------------------------------------------
(***************************************************************************)
(* The provider state of a player.                                         *)
(***************************************************************************)
resetProvider(g) ==
    IF ~providerBlocked[g] /\ providerIncident[g] = 0
      THEN UNCHANGED policyVars
      ELSE /\ providerBlocked' = [providerBlocked EXCEPT ![g] = FALSE]
           /\ providerGlobal' = [providerGlobal EXCEPT ![g] = FALSE]
           /\ providerProbe' = [providerProbe EXCEPT ![g] = FALSE]
           /\ providerIncident' = [providerIncident EXCEPT ![g] = 0]
           /\ UNCHANGED ownIncidents

\* blockProviderLocked: an open gate leaves the incident to the guild's own policy.
blockProvider(g) ==
    /\ providerGlobal' = [providerGlobal EXCEPT ![g] = @ \/ blocked]
    /\ providerBlocked' = [providerBlocked EXCEPT ![g] = TRUE]
    /\ IF ~blocked /\ ~providerBlocked[g] /\ providerIncident[g] = 0
         THEN /\ ownIncidents[g] < MaxIncidents
              /\ ownIncidents' = [ownIncidents EXCEPT ![g] = @ + 1]
              /\ providerIncident' = [providerIncident EXCEPT ![g] = -(ownIncidents[g] + 1)]
         ELSE /\ providerIncident' = [providerIncident EXCEPT ![g] = IF blocked THEN incident ELSE @]
              /\ UNCHANGED ownIncidents
    /\ UNCHANGED providerProbe

\* The second half of finishProviderLocked for an incident of the guild's own.
finishOwn(g) ==
    IF ~providerProbe[g] \/ ownPermit[g] = 0 \/ ownPermit[g] # providerIncident[g]
      THEN UNCHANGED policyVars
      ELSE IF err[g] \in {"ok", "local"}
        THEN resetProvider(g)
        ELSE /\ providerProbe' = [providerProbe EXCEPT ![g] = FALSE]
             /\ UNCHANGED <<providerBlocked, providerGlobal, providerIncident, ownIncidents>>

\* Mutant of settle: the probe flag is cleared only with the whole incident.
settleKeepsProbe(g) == IF ~blocked THEN resetProvider(g) ELSE UNCHANGED policyVars

\* The snapshot that finishProviderLocked reads after FinishTrial.
settle(g) ==
    IF ~blocked
      THEN resetProvider(g)
      ELSE /\ providerProbe' = [providerProbe EXCEPT ![g] = FALSE]
           /\ UNCHANGED <<providerBlocked, providerGlobal, providerIncident, ownIncidents>>
-----------------------------------------------------------------------------
(***************************************************************************)
(* Members.                                                                *)
(***************************************************************************)
Play(g) ==
    /\ ~queued[g] /\ ~Settling(g)
    /\ queued' = [queued EXCEPT ![g] = TRUE]
    /\ UNCHANGED <<shared, vars, canceled, stage, policyVars, ownPermit>>

\* Stop, and Leave, with respect to the provider.  A wait in WaitRecovery goes on: it
\* was given the player's context.
Stop(g) ==
    /\ Stops /\ ~Settling(g)
    /\ queued[g] \/ stage[g] = "playing" \/ providerBlocked[g]
    /\ queued' = [queued EXCEPT ![g] = FALSE]
    /\ canceled' = [canceled EXCEPT ![g] = (stage[g] = "playing")]
    /\ resetProvider(g)
    /\ UNCHANGED <<shared, vars, stage, ownPermit>>
-----------------------------------------------------------------------------
(***************************************************************************)
(* run() up to the start of an attempt.                                    *)
(***************************************************************************)
\* Ready(FALSE): schedulerReasonLocked is "ready".
Ready(g, permitted) == queued[g] /\ (~providerBlocked[g] \/ permitted)

Sleep(g) ==
    /\ stage[g] = "top" /\ ~queued[g] /\ To(g, "asleep")
    /\ UNCHANGED <<shared, vars, queued, canceled, policyVars, ownPermit>>

\* schedulerWait returns.
Wake(g) ==
    /\ stage[g] = "asleep" /\ Ready(g, FALSE) /\ To(g, "top")
    /\ UNCHANGED <<shared, vars, queued, canceled, policyVars, ownPermit>>

StartOpen(g) ==
    /\ stage[g] = "top" /\ Ready(g, FALSE)
    /\ CallAdmit(g)
    /\ To(g, "playing") /\ canceled' = [canceled EXCEPT ![g] = FALSE]
    /\ UNCHANGED <<shared, queued, policyVars, ownPermit>>

\* waitProvider's local variable global: the gate is blocked, or was when the player was.
UsesGate(g) == shared[g] \/ providerGlobal[g]

\* waitProvider looks at the gate before it takes p.mu.  Without StaleReads it looks
\* again when the gate changed in between.
Looks(g) ==
    /\ \/ stage[g] = "top" /\ queued[g] /\ providerBlocked[g]
       \/ stage[g] = "looked" /\ ~StaleReads /\ shared[g] # blocked
    /\ shared' = [shared EXCEPT ![g] = blocked] /\ To(g, "looked")
    /\ UNCHANGED <<vars, queued, canceled, policyVars, ownPermit>>

\* waitProvider: WaitRecovery of the gate, or the guild's own policy.
EnterWait(g) ==
    /\ stage[g] = "looked" /\ (shared[g] = blocked \/ StaleReads)
    /\ IF shared[g] THEN blockProvider(g) ELSE UNCHANGED policyVars
    /\ IF UsesGate(g)
         THEN CallWaitRecovery(g) /\ To(g, "waiting")
         ELSE UNCHANGED vars /\ To(g, "own")
    /\ UNCHANGED <<shared, queued, canceled, ownPermit>>

\* WaitRecovery, and its return before p.mu is taken.
Waits(g) ==
    /\ stage[g] = "waiting"
    /\ \/ (Park(g) \/ Tick(g)) /\ UNCHANGED stage
       \/ (PassOpenGate(g) \/ GrantTrial(g)) /\ To(g, "returned")
    /\ UNCHANGED <<shared, queued, canceled, policyVars, ownPermit>>

Returned(g) ==
    /\ stage[g] = "returned" /\ To(g, "granted")
    /\ IF permit[g] = NoPermit
         THEN resetProvider(g)
         ELSE /\ providerProbe' = [providerProbe EXCEPT ![g] = TRUE]
              /\ UNCHANGED <<providerBlocked, providerGlobal, providerIncident, ownIncidents>>
    /\ UNCHANGED <<shared, vars, queued, canceled, ownPermit>>

\* A trial of the guild's own policy, or none because the block is gone.
OwnTrial(g) ==
    /\ stage[g] = "own" /\ (providerBlocked[g] => ~providerProbe[g])
    /\ CallAdmit(g) /\ To(g, "granted")
    /\ IF providerBlocked[g]
         THEN /\ providerProbe' = [providerProbe EXCEPT ![g] = TRUE]
              /\ ownPermit' = [ownPermit EXCEPT ![g] = providerIncident[g]]
         ELSE UNCHANGED <<providerProbe, ownPermit>>
    /\ UNCHANGED <<shared, queued, canceled, providerBlocked, providerGlobal, providerIncident, ownIncidents>>

Permitted(g) == permit[g] # NoPermit \/ ownPermit[g] # 0

StartTrial(g) ==
    /\ stage[g] = "granted" /\ Ready(g, Permitted(g))
    /\ To(g, "playing") /\ canceled' = [canceled EXCEPT ![g] = FALSE]
    /\ UNCHANGED <<shared, vars, queued, policyVars, ownPermit>>

\* Not ready after all: the permit is reported as cancelled.
GiveBack(g) ==
    /\ stage[g] = "granted" /\ ~Ready(g, Permitted(g))
    /\ AdmitFails(g) /\ err'[g] = "canceled"
    /\ To(g, "finishing")
    /\ UNCHANGED <<shared, queued, canceled, policyVars, ownPermit>>
-----------------------------------------------------------------------------
(***************************************************************************)
(* The attempt, and the section after play().                              *)
(***************************************************************************)
\* Inside play(): the gate's own actions.  A cancelled attempt only ends as cancelled.
Attempts(g) ==
    /\ stage[g] = "playing"
    /\ \/ TakeSlot(g) \/ FirstFrame(g) \/ SustainedMedia(g)
       \/ NextExtraction(g) /\ err[g] = "ok" /\ ~canceled[g]
       \/ AdmitFails(g) /\ (err'[g] = "canceled" => canceled[g])
       \/ AdmitStart(g) /\ ~canceled[g]
       \/ \E o \in Ends : Exit(g, o) /\ (canceled[g] <=> o = "canceled")
    /\ UNCHANGED guildVars

\* confirmFrame: finishProviderLocked(nil, playbackProviderID), once per attempt.
Confirms(g) ==
    /\ stage[g] = "playing" /\ pc[g] = "run" /\ ~canceled[g] /\ Permitted(g) /\ ~confirmed[g]
    /\ IF permit[g] # NoPermit /\ providerGlobal[g]
         THEN ConfirmTrial(g)
         ELSE /\ confirmed' = [confirmed EXCEPT ![g] = TRUE]
              /\ UNCHANGED <<gateVars, pc, permit, hold, admitted, err>>
    /\ IF providerGlobal[g]
         THEN To(g, "confirmed") /\ UNCHANGED policyVars
         ELSE UNCHANGED stage /\ finishOwn(g)
    /\ UNCHANGED <<shared, queued, canceled, ownPermit>>

ConfirmSettles(g) ==
    /\ stage[g] = "confirmed" /\ To(g, "playing")
    /\ settle(g)
    /\ UNCHANGED <<shared, vars, queued, canceled, ownPermit>>

\* play() returned: a provider failure keeps the head, anything else lets the queue go on.
Ended(g) ==
    /\ stage[g] = "playing" /\ pc[g] = "done"
    /\ IF ~canceled[g] /\ err[g] \in {"global", "refused"}
         THEN To(g, "observing") /\ queued' = [queued EXCEPT ![g] = TRUE]
         ELSE /\ To(g, "finishing")
              /\ \E more \in BOOLEAN : queued' = [queued EXCEPT ![g] = IF canceled[g] THEN @ ELSE more]
    /\ UNCHANGED <<shared, vars, canceled, policyVars, ownPermit>>

\* observeProviderLocked: a look at the gate, then Observe.
Observes(g) ==
    /\ stage[g] = "observing"
    /\ To(g, IF ~blocked /\ err[g] = "global" THEN "reporting" ELSE "blocking")
    /\ UNCHANGED <<shared, vars, queued, canceled, policyVars, ownPermit>>

Reports(g) ==
    /\ stage[g] = "reporting" /\ To(g, "blocking")
    /\ ObserveLate(g)
    /\ UNCHANGED <<shared, queued, canceled, policyVars, ownPermit>>

Blocks(g) ==
    /\ stage[g] = "blocking" /\ To(g, "finishing")
    /\ blockProvider(g)
    /\ UNCHANGED <<shared, vars, queued, canceled, ownPermit>>

\* The caller leaves the gate without a word to it.
LeaveGate(g) ==
    /\ pc' = [pc EXCEPT ![g] = "idle"] /\ permit' = [permit EXCEPT ![g] = NoPermit]
    /\ admitted' = [admitted EXCEPT ![g] = 0] /\ confirmed' = [confirmed EXCEPT ![g] = FALSE]
    /\ err' = [err EXCEPT ![g] = "ok"]
    /\ UNCHANGED <<gateVars, hold>>

\* Mutant of AsksGate: the gate is asked only once it is open again.
AsksGateLate(g) == Permitted(g) /\ providerGlobal[g] /\ ~blocked

\* finishProviderLocked asks the gate if the player's own flag says "global".
AsksGate(g) == Permitted(g) /\ providerGlobal[g]

\* finishProviderLocked(err, providerPermit).
Finishes(g) ==
    /\ stage[g] = "finishing"
    /\ ownPermit' = [ownPermit EXCEPT ![g] = 0]
    /\ IF AsksGate(g)
         THEN Finish(g) /\ To(g, "settling") /\ UNCHANGED policyVars
         ELSE /\ LeaveGate(g) /\ To(g, "top")
              /\ IF Permitted(g) THEN finishOwn(g) ELSE UNCHANGED policyVars
    /\ UNCHANGED <<shared, queued, canceled>>

Settles(g) ==
    /\ stage[g] = "settling" /\ To(g, "top")
    /\ settle(g)
    /\ UNCHANGED <<shared, vars, queued, canceled, ownPermit>>
-----------------------------------------------------------------------------
Scheduler(g) ==
    \/ Sleep(g) \/ Wake(g) \/ StartOpen(g) \/ Looks(g) \/ EnterWait(g) \/ Waits(g) \/ Returned(g) \/ OwnTrial(g)
    \/ StartTrial(g) \/ GiveBack(g)
    \/ ConfirmSettles(g) \/ Ended(g) \/ Observes(g) \/ Reports(g) \/ Blocks(g) \/ Finishes(g) \/ Settles(g)

GuildNext ==
    \/ \E g \in Guilds : Play(g) \/ Stop(g) \/ Scheduler(g) \/ Attempts(g) \/ Confirms(g)
    \/ Clock /\ UNCHANGED guildVars

GuildSpec == GuildInit /\ [][GuildNext]_allVars

\* Each scheduler goroutine runs and the gate's timer fires; nothing is assumed of members
\* and streams.
GuildFairSpec == GuildSpec /\ WF_allVars(RetryElapses /\ UNCHANGED guildVars)
                           /\ \A g \in Guilds : WF_allVars(Scheduler(g))
-----------------------------------------------------------------------------
(***************************************************************************)
(* Properties.                                                             *)
(***************************************************************************)
\* The players' state is well typed.
GuildTypeOK ==
    /\ queued \in [Guilds -> BOOLEAN] /\ canceled \in [Guilds -> BOOLEAN] /\ stage \in [Guilds -> Stages]
    /\ shared \in [Guilds -> BOOLEAN]
    /\ providerBlocked \in [Guilds -> BOOLEAN] /\ providerGlobal \in [Guilds -> BOOLEAN]
    /\ providerProbe \in [Guilds -> BOOLEAN] /\ providerIncident \in [Guilds -> (-MaxIncidents)..MaxEpoch]
    /\ ownIncidents \in [Guilds -> 0..MaxIncidents] /\ ownPermit \in [Guilds -> (-MaxIncidents)..0]

\* Players that are not stopped keep the gate's protocol: whoever took the trial reports
\* it, in every path through run(), confirmFrame and the section after play().
TrialCarried == probe # NoPermit => \E g \in Guilds : Live(g) /\ permit[g] = probe

\* A player that says it is probing (State, /resume) carries the permit of a trial.
ProbeFlagHonest == \A g \in Guilds : providerProbe[g] /\ ~Settling(g) => Permitted(g)

\* A player that is done with an attempt, however it was stopped, has no start slot left.
NoSlotKept == \A g \in Guilds : stage[g] \in {"top", "asleep", "finishing"} => ~hold[g]

\* A scheduler on its way to the gate, or waiting in it, gets its track started once the
\* gate is open, unless the gate closes again or the track is stopped: no wake-up is lost between the two.
GuildRecovers ==
    \A g \in Guilds :
        (stage[g] \in {"top", "looked", "waiting", "returned"} /\ providerGlobal[g] /\ queued[g] /\ ~blocked)
            ~> (blocked \/ ~queued[g] \/ stage[g] = "playing")

\* "Cancellation before an external start refunds a trial": a trial nobody carries any
\* more is not left outstanding.
CanceledTrialRefunded == TrialCarried

\* Guilds that are not stopped account for the trial: it has a carrier that will
\* report it, and whoever shows a running probe carries one.
TrialAccounted == GuildTypeOK /\ TrialCarried /\ ProbeFlagHonest

\* With a /stop at any point and stale looks at the gate, the trials of an incident
\* stay within the budget, an attempt that is over has given its start slot back, and
\* nobody sleeps in WaitRecovery without a cause.  A trial leaked by a /stop is such a
\* cause: the others then sleep until media is admitted (CanceledTrialRefunded).
SoundUnderStops == BudgetHonoured /\ NoSlotKept /\ ParkedForCause
=============================================================================
