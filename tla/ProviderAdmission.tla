------------------------- MODULE ProviderAdmission -------------------------
(***************************************************************************)
(* The process-wide YouTube gate of internal/media/provider_admission.go.  *)
(*                                                                         *)
(* The gate limits the starts of extractions and streams (slots, pacing)   *)
(* and is a circuit breaker: a confirmed global failure (Observe) blocks   *)
(* every start, WaitRecovery hands out one trial permit at a time and at   *)
(* most Trials of them per incident, FinishTrial closes or keeps the       *)
(* breaker, SustainedMedia ends the incident.                              *)
(*                                                                         *)
(* Callers are the goroutines that use the gate: the scheduler of a guild, *)
(* a collection worker, the preparation of a /play.  Each one follows the  *)
(* protocol of its code: WaitRecovery (or straight to) Admit, run, Observe,*)
(* release, FinishTrial.  One action is one critical section of g.mu.      *)
(* (A guild player that is stopped during its trial breaks this protocol:  *)
(* ProviderRecovery composes the two.)                                     *)
(*                                                                         *)
(* Wall-clock deadlines are booleans (retryDue: RetryAt has passed, paced: *)
(* nextStart has not) that the clock actions change.                       *)
(***************************************************************************)
EXTENDS Integers, FiniteSets

CONSTANTS
    Callers,      \* goroutines that may use the gate
    Concurrency,  \* ProviderAdmissionConfig.Concurrency: size of the slots channel
    Trials,       \* ProviderRecoveryTrials
    OperatorRearms, \* whether an operator calls Rearm; nothing in the program does
    MaxEpoch,     \* bound of the model on g.epoch
    MaxFailures   \* bound of the model on g.failures

ASSUME AdmissionAssumption ==
    /\ IsFiniteSet(Callers)
    /\ Concurrency \in Nat \ {0}
    /\ Trials \in Nat \ {0}
    /\ OperatorRearms \in BOOLEAN
    /\ MaxEpoch \in Nat
    /\ MaxFailures \in Nat

VARIABLES
    blocked, exhausted, incident, attempts, retryDue,  \* g.status
    epoch, probe, probeSpent, failures, probeFailures, \* g.epoch .. g.probeFailures
    paced,                                             \* now is before g.nextStart
    slots,                                             \* tokens in g.slots
    pc,         \* where each caller is
    permit,     \* providerPermit(ctx) of each caller
    hold,       \* the caller's release function has not run yet
    admitted,   \* the epoch Admit returned to the caller
    confirmed,  \* the caller's playbackProviderID has been cleared by confirmFrame
    err,        \* how the caller's operation ended
    spent       \* history: trials of this incident that reached the provider

statusVars == <<blocked, exhausted, incident, attempts, retryDue>>
probeVars  == <<epoch, probe, probeSpent, failures, probeFailures, spent>>
gateVars   == <<statusVars, probeVars, paced, slots>>
callerVars == <<pc, permit, hold, admitted, confirmed, err>>
vars       == <<gateVars, callerVars>>

NoPermit == <<0, 0>>   \* the empty permit string; a trial's permit is <<incident, attempt>>
Permits  == Nat \X Nat
PCs      == {"idle", "wait", "parked", "timed", "admit", "slot", "run", "done"}
\* How an operation ends: the breaker refused it, or one of Ends.
Ends     == {"ok", "global", "local", "canceled"}
Outcomes == Ends \union {"refused"}

\* Program points at which the goroutine is between WaitRecovery and FinishTrial.
Live(c) == pc[c] \in {"admit", "slot", "run", "done"}

\* Asleep in WaitRecovery's select: on g.changed alone, or on a timer as well.
Parked(c) == pc[c] \in {"parked", "timed"}
-----------------------------------------------------------------------------
Init ==
    /\ blocked = FALSE /\ exhausted = FALSE /\ incident = 0 /\ attempts = 0
    /\ retryDue = TRUE
    /\ epoch = 0 /\ probe = NoPermit /\ probeSpent = FALSE
    /\ failures = 0 /\ probeFailures = 0 /\ spent = 0
    /\ paced = FALSE /\ slots = 0
    /\ pc = [c \in Callers |-> "idle"]
    /\ permit = [c \in Callers |-> NoPermit]
    /\ hold = [c \in Callers |-> FALSE]
    /\ admitted = [c \in Callers |-> 0]
    /\ confirmed = [c \in Callers |-> FALSE]
    /\ err = [c \in Callers |-> "ok"]

\* Mutant of Notified: nobody is woken.
NotNotified(pcs) == pcs

\* notifyLocked: closing g.changed wakes every goroutine parked in WaitRecovery.
Notified(pcs) == [c \in Callers |-> IF pcs[c] \in {"parked", "timed"} THEN "wait" ELSE pcs[c]]
-----------------------------------------------------------------------------
(***************************************************************************)
(* WaitRecovery.                                                           *)
(***************************************************************************)
CallWaitRecovery(c) ==
    /\ pc[c] = "idle"
    /\ pc' = [pc EXCEPT ![c] = "wait"]
    /\ UNCHANGED <<gateVars, permit, hold, admitted, confirmed, err>>

Eligible == probe = NoPermit /\ attempts < Trials

\* The breaker is closed: the caller goes on without a permit.
PassOpenGate(c) ==
    /\ pc[c] = "wait" /\ ~blocked
    /\ pc' = [pc EXCEPT ![c] = "admit"]
    /\ UNCHANGED <<gateVars, permit, hold, admitted, confirmed, err>>

GrantTrial(c) ==
    /\ pc[c] = "wait" /\ blocked /\ Eligible /\ retryDue
    /\ attempts' = attempts + 1
    /\ exhausted' = FALSE
    /\ probe' = <<incident, attempts + 1>>
    /\ probeSpent' = FALSE
    /\ probeFailures' = failures
    /\ pc' = [pc EXCEPT ![c] = "admit"]
    /\ permit' = [permit EXCEPT ![c] = <<incident, attempts + 1>>]
    /\ UNCHANGED <<blocked, incident, retryDue, epoch, failures, spent, paced,
                   slots, hold, admitted, confirmed, err>>

\* The caller releases g.mu and selects on g.changed, plus a timer if eligible.
Park(c) ==
    /\ pc[c] = "wait" /\ blocked /\ ~(Eligible /\ retryDue)
    /\ pc' = [pc EXCEPT ![c] = IF Eligible THEN "timed" ELSE "parked"]
    /\ UNCHANGED <<gateVars, permit, hold, admitted, confirmed, err>>

Tick(c) ==
    /\ pc[c] = "timed" /\ retryDue
    /\ pc' = [pc EXCEPT ![c] = "wait"]
    /\ UNCHANGED <<gateVars, permit, hold, admitted, confirmed, err>>

\* ctx is cancelled: WaitRecovery returns the error and the caller gives up.
CancelWait(c) ==
    /\ pc[c] = "wait" \/ Parked(c)
    /\ pc' = [pc EXCEPT ![c] = "idle"]
    /\ UNCHANGED <<gateVars, permit, hold, admitted, confirmed, err>>
-----------------------------------------------------------------------------
(***************************************************************************)
(* Admit.  The slot is taken before the breaker is looked at.              *)
(***************************************************************************)
\* A caller outside WaitRecovery (metadata of a /play) goes straight to Admit.
CallAdmit(c) ==
    /\ pc[c] = "idle"
    /\ pc' = [pc EXCEPT ![c] = "admit"]
    /\ UNCHANGED <<gateVars, permit, hold, admitted, confirmed, err>>

TakeSlot(c) ==
    /\ pc[c] = "admit" /\ slots < Concurrency
    /\ slots' = slots + 1
    /\ hold' = [hold EXCEPT ![c] = TRUE]
    /\ pc' = [pc EXCEPT ![c] = "slot"]
    /\ UNCHANGED <<statusVars, probeVars, paced, permit, admitted, confirmed, err>>

\* Mutant of Release: no sync.OnceFunc.
ReleaseTwice(c) ==
    /\ slots' = IF slots > 0 THEN slots - 1 ELSE slots
    /\ hold' = [hold EXCEPT ![c] = FALSE]

\* Mutant of Release: Admit's error paths forget it.
ReleaseIfRunning(c) ==
    IF pc[c] = "run" THEN /\ slots' = IF hold[c] THEN slots - 1 ELSE slots
                          /\ hold' = [hold EXCEPT ![c] = FALSE]
                     ELSE UNCHANGED <<slots, hold>>

\* release(): sync.OnceFunc, so it returns the token at most once.
Release(c) ==
    /\ slots' = IF hold[c] THEN slots - 1 ELSE slots
    /\ hold' = [hold EXCEPT ![c] = FALSE]

\* Mutant of Refused: a running trial lets everybody in.
RefusedWhenIdle(c) == blocked /\ probe = NoPermit

\* While the breaker is open only the owner of the outstanding permit may start.
Refused(c) == blocked /\ (probe = NoPermit \/ permit[c] # probe)

\* Refused by the breaker, or ctx cancelled before or after the slot was taken.
AdmitFails(c) ==
    /\ \/ pc[c] = "slot" /\ Refused(c) /\ err' = [err EXCEPT ![c] = "refused"]
       \/ pc[c] \in {"admit", "slot"} /\ err' = [err EXCEPT ![c] = "canceled"]
    /\ Release(c)
    /\ pc' = [pc EXCEPT ![c] = "done"]
    /\ UNCHANGED <<statusVars, probeVars, paced, permit, admitted, confirmed>>

AdmitStart(c) ==
    /\ pc[c] = "slot" /\ ~Refused(c) /\ ~paced
    /\ paced' = TRUE
    /\ admitted' = [admitted EXCEPT ![c] = epoch]
    /\ IF probe # NoPermit /\ permit[c] = probe
         THEN /\ probeSpent' = TRUE
              /\ spent' = IF probeSpent THEN spent ELSE spent + 1
         ELSE UNCHANGED <<probeSpent, spent>>
    /\ pc' = [pc EXCEPT ![c] = "run"]
    /\ UNCHANGED <<statusVars, epoch, probe, failures, probeFailures, slots,
                   permit, hold, confirmed, err>>
-----------------------------------------------------------------------------
(***************************************************************************)
(* The admitted operation.                                                 *)
(***************************************************************************)
\* A stream gives its slot back at the first frame it sends.
FirstFrame(c) ==
    /\ pc[c] = "run" /\ hold[c]
    /\ Release(c)
    /\ UNCHANGED <<statusVars, probeVars, paced, pc, permit, admitted, confirmed, err>>

\* Mutants of Sustains: an old healthy stream, or a trial that saw a failure, is evidence.
SustainsAnyEpoch(c) ==
    /\ incident # 0
    /\ ~(blocked /\ (probe = NoPermit \/ permit[c] # probe \/ failures # probeFailures))
SustainsDirty(c) ==
    /\ admitted[c] = epoch /\ incident # 0
    /\ ~(blocked /\ (probe = NoPermit \/ permit[c] # probe))

\* Whether SustainedMedia accepts the stream of c as evidence.
Sustains(c) ==
    /\ admitted[c] = epoch /\ incident # 0
    /\ ~(blocked /\ (probe = NoPermit \/ permit[c] # probe \/ failures # probeFailures))

\* status = ProviderStatus{} and a new epoch (Rearm and SustainedMedia).
ResetStatus ==
    /\ epoch < MaxEpoch
    /\ epoch' = epoch + 1
    /\ blocked' = FALSE /\ exhausted' = FALSE /\ incident' = 0 /\ attempts' = 0
    /\ retryDue' = TRUE
    /\ spent' = 0

\* SustainedMedia: 250 frames of a stream; a no-op when it is no evidence.
SustainedMedia(c) ==
    /\ pc[c] = "run" /\ Sustains(c)
    /\ ResetStatus
    /\ probe' = NoPermit
    /\ pc' = Notified(pc)
    /\ UNCHANGED <<probeSpent, failures, probeFailures, paced, slots, permit,
                   hold, admitted, confirmed, err>>

\* Observe(err) for a confirmed global restriction.
ObserveFailure ==
    LET new == incident = 0 IN
    /\ failures < MaxFailures /\ epoch < MaxEpoch
    /\ epoch' = IF new THEN epoch + 1 ELSE epoch
    /\ incident' = IF new THEN epoch + 1 ELSE incident
    /\ attempts' = IF new THEN 0 ELSE attempts
    /\ spent' = IF new THEN 0 ELSE spent
    /\ failures' = failures + 1
    /\ retryDue' = (retryDue /\ blocked)
    /\ blocked' = TRUE
    /\ exhausted' = (attempts' >= Trials)
    /\ UNCHANGED <<probe, probeSpent, probeFailures>>

\* The operation ends: Observe its error, then the deferred release.
Exit(c, outcome) ==
    /\ pc[c] = "run"
    /\ err' = [err EXCEPT ![c] = outcome]
    /\ IF outcome = "global"
         THEN ObserveFailure /\ pc' = [Notified(pc) EXCEPT ![c] = "done"]
         ELSE UNCHANGED <<statusVars, probeVars>> /\ pc' = [pc EXCEPT ![c] = "done"]
    /\ Release(c)
    /\ UNCHANGED <<paced, permit, admitted, confirmed>>

\* observeProviderLocked: the player reports the failure once more if it finds the
\* breaker closed since the operation reported it; by now it may be open again.
ObserveLate(c) ==
    /\ pc[c] = "done" /\ err[c] = "global"
    /\ ObserveFailure
    /\ pc' = Notified(pc)
    /\ UNCHANGED <<paced, slots, permit, hold, admitted, confirmed, err>>

\* One matching makes several extractions in turn under the same context.
NextExtraction(c) ==
    /\ pc[c] = "done" /\ err[c] \in {"ok", "local", "refused"}
    /\ pc' = [pc EXCEPT ![c] = "admit"]
    /\ err' = [err EXCEPT ![c] = "ok"]
    /\ admitted' = [admitted EXCEPT ![c] = 0]
    /\ UNCHANGED <<gateVars, permit, hold, confirmed>>
-----------------------------------------------------------------------------
(***************************************************************************)
(* FinishTrial(permit, err).                                               *)
(***************************************************************************)
\* Mutant of Refunded: a trial that reached the provider is refunded too.
RefundedAlways(outcome) == outcome = "canceled"

\* A cancellation that never reached the provider does not spend the trial.
Refunded(outcome) == outcome = "canceled" /\ ~probeSpent

\* Mutant of EndTrial: the exhausted flag is not recomputed.
EndTrialStaleFlag(outcome) ==
    IF outcome = "ok" /\ failures = probeFailures
      THEN /\ blocked' = FALSE /\ exhausted' = FALSE
           /\ UNCHANGED <<incident, attempts, retryDue>>
      ELSE /\ attempts' = IF Refunded(outcome) THEN attempts - 1 ELSE attempts
           /\ retryDue' = FALSE
           /\ UNCHANGED <<blocked, incident, exhausted>>

EndTrial(outcome) ==
    IF outcome = "ok" /\ failures = probeFailures
      THEN /\ blocked' = FALSE /\ exhausted' = FALSE
           /\ UNCHANGED <<incident, attempts, retryDue>>
      ELSE /\ attempts' = IF Refunded(outcome) THEN attempts - 1 ELSE attempts
           /\ retryDue' = FALSE
           /\ exhausted' = (attempts' >= Trials)
           /\ UNCHANGED <<blocked, incident>>

\* Mutant of FinishTrial: a cancellation returns early and leaves the permit outstanding.
FinishTrialUnlessCanceled(c, outcome) ==
    IF probe # NoPermit /\ permit[c] = probe /\ outcome # "canceled"
      THEN EndTrial(outcome) /\ probe' = NoPermit
      ELSE UNCHANGED <<statusVars, probe>>

FinishTrial(c, outcome) ==
    IF probe # NoPermit /\ permit[c] = probe
      THEN EndTrial(outcome) /\ probe' = NoPermit
      ELSE UNCHANGED <<statusVars, probe>>

\* The operation is over; a caller with a permit reports it.
Finish(c) ==
    /\ pc[c] = "done"
    /\ FinishTrial(c, err[c])
    /\ pc' = [(IF permit[c] = probe /\ probe # NoPermit THEN Notified(pc) ELSE pc)
                 EXCEPT ![c] = "idle"]
    /\ permit' = [permit EXCEPT ![c] = NoPermit]
    /\ admitted' = [admitted EXCEPT ![c] = 0]
    /\ confirmed' = [confirmed EXCEPT ![c] = FALSE]
    /\ err' = [err EXCEPT ![c] = "ok"]
    /\ UNCHANGED <<epoch, probeSpent, failures, probeFailures, spent, paced, slots, hold>>

\* confirmFrame: five seconds of confirmed audio report success, once per attempt.
ConfirmTrial(c) ==
    /\ pc[c] = "run" /\ permit[c] # NoPermit /\ ~confirmed[c]
    /\ confirmed' = [confirmed EXCEPT ![c] = TRUE]
    /\ FinishTrial(c, "ok")
    /\ pc' = IF permit[c] = probe THEN Notified(pc) ELSE pc
    /\ UNCHANGED <<epoch, probeSpent, failures, probeFailures, spent, paced, slots, permit, hold, admitted, err>>
-----------------------------------------------------------------------------
\* Mutant of Rearm: it does not wait for the outstanding trial.
RearmDuringTrial ==
    /\ OperatorRearms
    /\ ResetStatus
    /\ pc' = Notified(pc)
    /\ UNCHANGED <<probe, probeSpent, failures, probeFailures, paced, slots,
                   permit, hold, admitted, confirmed, err>>

\* The operator's Rearm, refused while a trial is outstanding.
Rearm ==
    /\ OperatorRearms
    /\ probe = NoPermit
    /\ ResetStatus
    /\ pc' = Notified(pc)
    /\ UNCHANGED <<probe, probeSpent, failures, probeFailures, paced, slots,
                   permit, hold, admitted, confirmed, err>>

RetryElapses ==
    /\ ~retryDue /\ retryDue' = TRUE
    /\ UNCHANGED <<blocked, exhausted, incident, attempts, probeVars, paced, slots, callerVars>>

PaceElapses ==
    /\ paced /\ paced' = FALSE
    /\ UNCHANGED <<statusVars, probeVars, slots, callerVars>>

Wait(c)  == PassOpenGate(c) \/ GrantTrial(c) \/ Park(c)
Clock    == RetryElapses \/ PaceElapses

Next ==
    \/ \E c \in Callers :
          \/ CallWaitRecovery(c) \/ Wait(c) \/ Tick(c) \/ CancelWait(c)
          \/ CallAdmit(c) \/ TakeSlot(c) \/ AdmitFails(c) \/ AdmitStart(c)
          \/ FirstFrame(c) \/ SustainedMedia(c) \/ NextExtraction(c)
          \/ (\E o \in Ends : Exit(c, o)) \/ ObserveLate(c)
          \/ ConfirmTrial(c) \/ Finish(c)
    \/ Rearm
    \/ Clock

Spec == Init /\ [][Next]_vars

-----------------------------------------------------------------------------
(***************************************************************************)
(* Properties.                                                             *)
(***************************************************************************)
\* Every variable of the gate and of its callers keeps its type.
TypeOK ==
    /\ blocked \in BOOLEAN /\ exhausted \in BOOLEAN /\ retryDue \in BOOLEAN
    /\ incident \in Nat /\ attempts \in 0..Trials
    /\ epoch \in Nat /\ probe \in Permits /\ probeSpent \in BOOLEAN
    /\ failures \in Nat /\ probeFailures \in Nat /\ spent \in Nat
    /\ paced \in BOOLEAN /\ slots \in 0..Concurrency
    /\ pc \in [Callers -> PCs]
    /\ permit \in [Callers -> Permits]
    /\ hold \in [Callers -> BOOLEAN]
    /\ admitted \in [Callers -> Nat]
    /\ confirmed \in [Callers -> BOOLEAN]
    /\ err \in [Callers -> Outcomes]

\* "Only one trial token at once": the outstanding permit is carried by exactly
\* one caller, who still has its FinishTrial ahead, although a refunded trial
\* makes WaitRecovery issue the very same permit string again (lines 149-158).
TrialHasOneOwner ==
    probe # NoPermit =>
        /\ \E c \in Callers : Live(c) /\ permit[c] = probe
        /\ \A c, d \in Callers : permit[c] = probe /\ permit[d] = probe => c = d

\* At most Trials trials of one incident ever reach the provider, however many
\* callers cancel, fail or are refunded in between (lines 176-196).
BudgetHonoured == spent <= Trials

\* An outstanding trial means that the breaker is open: no operation closes the
\* breaker and leaves a permit behind that would block every later trial.
ProbeOnlyWhileBlocked == probe # NoPermit => blocked

\* With no trial running, the exhausted flag that /resume reports to users says
\* exactly that the budget is used up (Observe, WaitRecovery and FinishTrial all set it).
ExhaustionExact ==
    blocked /\ probe = NoPermit => (exhausted <=> attempts >= Trials)

\* Every token in the slots channel belongs to a caller that will return it once:
\* no slot leaks, none is returned twice (release at first frame and at exit).
SlotsAccounted == slots = Cardinality({c \in Callers : hold[c]})

\* The breaker closes only on a trial that saw no failure of anybody since it was
\* granted, or by the operator (FinishTrial, SustainedMedia, Rearm).
CloseNeedsCleanTrial ==
    [][blocked /\ ~blocked' => Rearm \/ (probe # NoPermit /\ failures = probeFailures)]_vars

\* An incident ends only by the operator or by audio admitted after it began,
\* "never an old healthy stream" (line 268).
ResetOnlyByNewMedia ==
    [][incident # 0 /\ incident' = 0 =>
          Rearm \/ \E c \in Callers : pc[c] = "run" /\ admitted[c] >= incident]_vars

\* Nobody sleeps in WaitRecovery past what it waits for: whoever is in the select found
\* the breaker open and it still is, and whoever set no timer could not be granted a
\* trial and still cannot: each change that could help it ends in notifyLocked.
ParkedForCause ==
    \A c \in Callers : (Parked(c) => blocked) /\ (pc[c] = "parked" => ~Eligible)

\* What the gate says of itself is true: its fields have their types, a trial is
\* outstanding only while it is blocked, and the exhausted flag is exact.
StatusHonest == TypeOK /\ ProbeOnlyWhileBlocked /\ ExhaustionExact
-----------------------------------------------------------------------------
(***************************************************************************)
(* The gate seen as a circuit breaker.                                     *)
(***************************************************************************)
BreakerState ==
    IF ~blocked THEN "closed"
    ELSE IF probe = NoPermit THEN "open"
    ELSE IF probeSpent THEN "started" ELSE "granted"
TrialHolder == {c \in Callers : probe # NoPermit /\ permit[c] = probe}
CleanSoFar  == probe # NoPermit /\ failures = probeFailures
AtProvider  == {c \in Callers : pc[c] = "run"}
Fresh       == {c \in AtProvider : admitted[c] = epoch}

Breaker == INSTANCE CircuitBreaker WITH
    breaker <- BreakerState, holder <- TrialHolder, clean <- CleanSoFar,
    incident <- (incident # 0), starts <- spent, working <- AtProvider, fresh <- Fresh

\* The gate is a circuit breaker (CircuitBreaker): while it is open nothing but the one
\* granted trial starts, whatever is refunded, cancelled, reissued or fails meanwhile;
\* permits, epochs and failure generations are its implementation.
GateIsBreaker == Breaker!BreakerSpec
=============================================================================
