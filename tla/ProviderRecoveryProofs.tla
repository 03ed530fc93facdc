----------------------- MODULE ProviderRecoveryProofs -----------------------
(*************************************************************************)
(* Guild players at the YouTube gate, for any number of guilds.  GateInv *)
(* of ProviderAdmissionProofs is carried over step by step: a step of a  *)
(* player is a step of the gate, leaves the gate without a word, sets    *)
(* its own flag, or does not touch it.  What the gate cannot know of a   *)
(* player is its stage and its provider state; GuildInv relates them to  *)
(* the gate.                                                             *)
(*************************************************************************)
EXTENDS ProviderRecovery, ProviderAdmissionProofs

\* Where a scheduler's goroutine is in the gate, by its stage.
PCOf(s) ==
    CASE s \in {"top", "asleep", "looked", "own", "settling"} -> {"idle"}
      [] s = "waiting" -> {"wait", "parked", "timed"}
      [] s \in {"returned", "granted"} -> {"admit"}
      [] s = "playing" -> {"admit", "slot", "run", "done"}
      [] s = "confirmed" -> {"run"}
      [] OTHER -> {"done"}

\* Incidents are numbered by the gate (positive) or by the guild (negative).
PolicyOf(g) ==
    /\ providerBlocked[g] <=> providerIncident[g] # 0
    /\ providerGlobal[g] => providerBlocked[g]
    /\ providerIncident[g] > 0 => providerGlobal[g]

\* Without /stop and stale looks, a probe that is shown has a permit, one of the guild's
\* own incident names it, and whoever carries the trial knows that it is the gate's.
Undisturbed == ~Stops /\ ~StaleReads
ProbeOf(g) ==
    /\ providerProbe[g] => providerBlocked[g]
    /\ providerProbe[g] /\ stage[g] # "settling" =>
          Permitted(g) /\ (~providerGlobal[g] => ownPermit[g] = providerIncident[g])
    /\ stage[g] \in {"waiting", "returned"} => providerGlobal[g]
    /\ permit[g] # NoPermit /\ permit[g] = probe => providerGlobal[g]

GuildInv(g) ==
    /\ pc[g] \in PCOf(stage[g])
    /\ PolicyOf(g)
    /\ stage[g] = "own" => ~providerGlobal[g]
    /\ Undisturbed => ProbeOf(g)

RecoveryInv ==
    /\ GateInv /\ incident <= MaxEpoch /\ (Undisturbed => Carried)
    /\ GuildTypeOK
    /\ \A g \in Guilds : GuildInv(g)

-----------------------------------------------------------------------------
(***************************************************************************)
(* The gate's part of a guild's step.                                      *)
(***************************************************************************)
GateStep(g) ==
    \/ CallWaitRecovery(g) \/ PassOpenGate(g) \/ GrantTrial(g) \/ Park(g) \/ Tick(g) \/ CallAdmit(g)
    \/ TakeSlot(g) \/ AdmitFails(g) \/ AdmitStart(g) \/ FirstFrame(g) \/ SustainedMedia(g) \/ NextExtraction(g)
    \/ (\E o \in Ends : Exit(g, o)) \/ ObserveLate(g) \/ ConfirmTrial(g) \/ Finish(g)

\* confirmFrame of an attempt that is not a trial of the gate.
Flags(g) ==
    /\ confirmed' = [confirmed EXCEPT ![g] = TRUE]
    /\ UNCHANGED <<gateVars, pc, permit, hold, admitted, err>>

\* What a guild's step, or the clock, does to the gate.
Leaves(g) == pc[g] = "done" /\ LeaveGate(g)
GatePart(g) == GateStep(g) \/ Leaves(g) \/ Flags(g) \/ UNCHANGED vars

\* The other callers: at most woken.
Others(g) ==
    \A d \in Callers \ {g} :
        /\ permit'[d] = permit[d]
        /\ pc'[d] = pc[d] \/ (pc[d] \in {"parked", "timed"} /\ pc'[d] = "wait")

\* A trial that becomes outstanding is new to them.
NewToOthers(g) == probe' \in {probe, NoPermit} \/ \A d \in Callers \ {g} : permit[d] # probe'

\* What a guild does at the gate is a step of the gate.
LEMMA GateStepIsNext == ASSUME NEW g \in Callers, GateStep(g) PROVE Next
BY DEF GateStep, Next, Wait

\* A guild that leaves keeps the gate sound.
LEMMA LeaveGateStep ==
    ASSUME GateInv, NEW g \in Callers, Leaves(g)
    PROVE  GateInv'
<1>1. /\ pc[g] = "done" /\ pc' = [pc EXCEPT ![g] = "idle"] /\ permit' = [permit EXCEPT ![g] = NoPermit]
      /\ UNCHANGED <<gateVars, hold>>
      /\ admitted' = [admitted EXCEPT ![g] = 0] /\ confirmed' = [confirmed EXCEPT ![g] = FALSE]
      /\ err' = [err EXCEPT ![g] = "ok"]
  BY DEF Leaves, LeaveGate
<1>2. TypeOK'
  <2>1. pc' \in [Callers -> PCs] /\ permit' \in [Callers -> Permits] /\ err' \in [Callers -> Outcomes]
    BY <1>1, PermitFacts DEF GateInv, TypeOK, PCs, Outcomes, Ends
  <2>2. admitted' \in [Callers -> Nat] /\ confirmed' \in [Callers -> BOOLEAN]
    BY <1>1 DEF GateInv, TypeOK
  <2> QED BY <1>1, <2>1, <2>2 DEF GateInv, TypeOK, gateVars, statusVars, probeVars
<1>3. ProbeInv' /\ BudgetInv' /\ ExhaustionExact'
  BY <1>1 DEF GateInv, ProbeInv, BudgetInv, ExhaustionExact, gateVars, statusVars, probeVars
<1>4. PermitInv'
  BY <1>1 DEF GateInv, TypeOK, PermitInv, Live, gateVars, statusVars, probeVars
<1>5. SlotInv'
  BY <1>1 DEF GateInv, TypeOK, SlotInv, SlotsAccounted, gateVars
<1> QED BY <1>2, <1>3, <1>4, <1>5 DEF GateInv

\* So does one that flags a failure.
LEMMA FlagsStep ==
    ASSUME GateInv, NEW g \in Callers, Flags(g)
    PROVE  GateInv'
<1>1. TypeOK'
  BY DEF Flags, GateInv, TypeOK, gateVars, statusVars, probeVars
<1>2. ProbeInv' /\ BudgetInv' /\ ExhaustionExact'
  BY DEF Flags, GateInv, ProbeInv, BudgetInv, ExhaustionExact, gateVars, statusVars, probeVars
<1>3. PermitInv' /\ SlotInv'
  BY DEF Flags, GateInv, PermitInv, SlotInv, SlotsAccounted, Live, gateVars, statusVars, probeVars
<1> QED BY <1>1, <1>2, <1>3 DEF GateInv

\* So does every step of a guild at the gate.
LEMMA GatePartInv ==
    ASSUME GateInv, NEW g \in Callers, GatePart(g)
    PROVE  GateInv'
BY GateStepIsNext, NextGateInv, LeaveGateStep, FlagsStep DEF GatePart

\* It changes nothing of the other callers.
LEMMA GatePartOthers ==
    ASSUME GateInv, NEW g \in Callers, GatePart(g)
    PROVE  Others(g)
<1>1. pc \in [Callers -> PCs] /\ permit \in [Callers -> Permits]
  BY DEF GateInv, TypeOK
<1>2. \A d \in Callers : Notified(pc)[d] = pc[d] \/ (pc[d] \in {"parked", "timed"} /\ Notified(pc)[d] = "wait")
  BY DEF Notified
<1>3. DOMAIN Notified(pc) = Callers
  BY DEF Notified
<1>4. \A d \in Callers \ {g} : permit'[d] = permit[d]
  BY <1>1 DEF GatePart, Leaves, LeaveGate, Flags, vars, callerVars, GateStep, CallWaitRecovery, PassOpenGate, GrantTrial,
              Park, Tick, CallAdmit, TakeSlot, AdmitFails, AdmitStart, FirstFrame, SustainedMedia, NextExtraction,
              Exit, ObserveLate, ConfirmTrial, Finish
<1>5. \/ pc' = pc \/ pc' = Notified(pc)
      \/ \E to \in PCs : pc' = [pc EXCEPT ![g] = to] \/ pc' = [Notified(pc) EXCEPT ![g] = to]
  BY DEF GatePart, Leaves, LeaveGate, Flags, vars, callerVars, GateStep, CallWaitRecovery, PassOpenGate, GrantTrial,
         Park, Tick, CallAdmit, TakeSlot, AdmitFails, AdmitStart, FirstFrame, SustainedMedia, NextExtraction,
         Exit, ObserveLate, ConfirmTrial, Finish, PCs
<1>6. \A d \in Callers \ {g} : pc'[d] = pc[d] \/ (pc[d] \in {"parked", "timed"} /\ pc'[d] = "wait")
  BY <1>1, <1>2, <1>3, <1>5
<1> QED BY <1>4, <1>6 DEF Others

\* It takes no trial from another guild.
LEMMA GatePartProbe ==
    ASSUME GateInv, NEW g \in Callers, GatePart(g)
    PROVE  /\ NewToOthers(g)
           /\ ~GrantTrial(g) => probe' \in {probe, NoPermit}
<1>1. CASE GrantTrial(g)
  <2>1. probe' = <<incident, attempts + 1>> /\ incident \in Nat /\ attempts \in Nat /\ incident # 0
    BY <1>1 DEF GrantTrial, GateInv, TypeOK, ProbeInv
  <2>2. ASSUME NEW d \in Callers, permit[d] = probe' PROVE FALSE
    <3>1. permit[d] # NoPermit /\ permit[d][1] = incident /\ permit[d][2] = attempts + 1
      BY <2>1, <2>2 DEF NoPermit
    <3>2. permit[d][2] <= attempts
      BY <3>1 DEF GateInv, PermitInv
    <3> QED BY <2>1, <3>1, <3>2
  <2> QED BY <1>1, <2>2 DEF NewToOthers
<1>2. CASE ~GrantTrial(g)
  <2>1. probe' \in {probe, NoPermit}
    BY <1>2 DEF GatePart, Leaves, LeaveGate, Flags, GateStep, CallWaitRecovery, PassOpenGate, Park, Tick, CallAdmit, TakeSlot,
              AdmitFails, AdmitStart, FirstFrame, SustainedMedia, NextExtraction, Exit, ObserveLate, ObserveFailure,
              ConfirmTrial, Finish, FinishTrial, vars, gateVars, statusVars, probeVars
  <2> QED BY <2>1 DEF NewToOthers
<1> QED BY <1>1, <1>2

\* It stays within the bound on incidents.
LEMMA GatePartIncident ==
    ASSUME GateInv, incident <= MaxEpoch, NEW g \in Callers, GatePart(g)
    PROVE  incident' <= MaxEpoch
<1>1. \/ incident' = incident \/ incident' = 0
      \/ epoch < MaxEpoch /\ incident' = epoch + 1
  BY DEF GatePart, Leaves, LeaveGate, Flags, GateStep, CallWaitRecovery, PassOpenGate, GrantTrial, Park, Tick, CallAdmit, TakeSlot,
         AdmitFails, AdmitStart, FirstFrame, SustainedMedia, ResetStatus, NextExtraction, Exit, ObserveLate, ObserveFailure,
         ConfirmTrial, Finish, FinishTrial, EndTrial, vars, gateVars, statusVars, probeVars
<1> QED BY <1>1, AdmissionAssumption DEF GateInv, TypeOK

\* The trial keeps its carrier unless the carrier leaves with it.
LEMMA GatePartCarried ==
    ASSUME GateInv, Carried, NEW g \in Callers, GatePart(g),
           Leaves(g) => probe = NoPermit \/ permit[g] # probe
    PROVE  Carried'
<1>1. CASE GateStep(g) \/ UNCHANGED vars
  BY <1>1, GateStepIsNext, NextCarried
<1>2. CASE Flags(g)
  BY <1>2 DEF Flags, Carried, gateVars, probeVars
<1>3. CASE Leaves(g)
  BY <1>3 DEF Leaves, LeaveGate, Carried, gateVars, probeVars, GateInv, TypeOK
<1> QED BY <1>1, <1>2, <1>3 DEF GatePart

-----------------------------------------------------------------------------
(***************************************************************************)
(* The guild's part.                                                       *)
(***************************************************************************)
\* The player of d is not touched, or only outside its provider state.
SamePolicy(d) ==
    /\ providerBlocked'[d] = providerBlocked[d] /\ providerGlobal'[d] = providerGlobal[d]
    /\ providerProbe'[d] = providerProbe[d] /\ providerIncident'[d] = providerIncident[d]
    /\ ownPermit'[d] = ownPermit[d]

Untouched(g) == \A d \in Guilds \ {g} : stage'[d] = stage[d] /\ SamePolicy(d)

PolicyTypeOK ==
    /\ providerBlocked \in [Guilds -> BOOLEAN] /\ providerGlobal \in [Guilds -> BOOLEAN]
    /\ providerProbe \in [Guilds -> BOOLEAN] /\ providerIncident \in [Guilds -> (-MaxIncidents)..MaxEpoch]
    /\ ownIncidents \in [Guilds -> 0..MaxIncidents]

\* A step of one guild keeps the invariant of the others.
LEMMA OthersKeep ==
    ASSUME RecoveryInv, NEW g \in Guilds, GatePart(g), Untouched(g), NEW d \in Guilds, d # g
    PROVE  GuildInv(d)'
<1>1. GuildInv(d) /\ GateInv
  BY DEF RecoveryInv
<1>2. /\ permit'[d] = permit[d] /\ stage'[d] = stage[d] /\ SamePolicy(d)
      /\ pc'[d] = pc[d] \/ (pc[d] \in {"parked", "timed"} /\ pc'[d] = "wait")
  BY <1>1, GatePartOthers DEF Untouched, Others, Guilds
<1>3. pc'[d] \in PCOf(stage'[d])
  BY <1>1, <1>2 DEF GuildInv, PCOf
<1>4. PolicyOf(d)' /\ (stage'[d] = "own" => ~providerGlobal'[d])
  BY <1>1, <1>2 DEF GuildInv, PolicyOf, SamePolicy
<1>5. ASSUME Undisturbed PROVE ProbeOf(d)'
  <2>1. ProbeOf(d)
    BY <1>1, <1>5 DEF GuildInv
  <2>2. permit[d] # NoPermit /\ permit[d] = probe' => permit[d] = probe
    BY <1>1, GatePartProbe DEF NewToOthers, Guilds
  <2> QED BY <1>2, <2>1, <2>2 DEF ProbeOf, SamePolicy, Permitted
<1> QED BY <1>3, <1>4, <1>5 DEF GuildInv, Undisturbed

\* A step of g: what has to be shown of g itself.
LEMMA GuildStep ==
    ASSUME RecoveryInv, NEW g \in Guilds, GatePart(g), Untouched(g), GuildTypeOK', GuildInv(g)',
           Undisturbed /\ Leaves(g) => probe = NoPermit \/ permit[g] # probe
    PROVE  RecoveryInv'
<1>1. GateInv /\ incident <= MaxEpoch
  BY DEF RecoveryInv
<1>2. GateInv' /\ incident' <= MaxEpoch
  BY <1>1, GatePartInv, GatePartIncident DEF Guilds
<1>3. Undisturbed => Carried'
  BY <1>1, GatePartCarried DEF RecoveryInv, Guilds
<1>4. \A d \in Guilds : GuildInv(d)'
  BY OthersKeep
<1> QED BY <1>2, <1>3, <1>4 DEF RecoveryInv, Undisturbed

\* resetProviderLocked.
LEMMA ResetLocal ==
    ASSUME GuildTypeOK, NEW g \in Guilds, PolicyOf(g), resetProvider(g)
    PROVE  /\ PolicyTypeOK'
           /\ ~providerBlocked'[g] /\ ~providerGlobal'[g] /\ providerIncident'[g] = 0
           /\ (providerProbe[g] => providerBlocked[g]) => ~providerProbe'[g]
           /\ \A d \in Guilds \ {g} : /\ providerBlocked'[d] = providerBlocked[d] /\ providerGlobal'[d] = providerGlobal[d]
                                      /\ providerProbe'[d] = providerProbe[d] /\ providerIncident'[d] = providerIncident[d]
<1>1. 0 \in (-MaxIncidents)..MaxEpoch
  BY AdmissionAssumption, RecoveryAssumption
<1>2. CASE ~providerBlocked[g] /\ providerIncident[g] = 0
  BY <1>2 DEF resetProvider, policyVars, GuildTypeOK, PolicyTypeOK, PolicyOf
<1>3. CASE ~(~providerBlocked[g] /\ providerIncident[g] = 0)
  <2>1. /\ providerBlocked' = [providerBlocked EXCEPT ![g] = FALSE] /\ providerGlobal' = [providerGlobal EXCEPT ![g] = FALSE]
        /\ providerProbe' = [providerProbe EXCEPT ![g] = FALSE] /\ providerIncident' = [providerIncident EXCEPT ![g] = 0]
        /\ ownIncidents' = ownIncidents
    BY <1>3 DEF resetProvider
  <2>2. PolicyTypeOK'
    <3>1. providerIncident' \in [Guilds -> (-MaxIncidents)..MaxEpoch]
      BY <1>1, <2>1 DEF GuildTypeOK
    <3>2. providerBlocked' \in [Guilds -> BOOLEAN] /\ providerGlobal' \in [Guilds -> BOOLEAN] /\ providerProbe' \in [Guilds -> BOOLEAN]
      BY <2>1 DEF GuildTypeOK
    <3> QED BY <2>1, <3>1, <3>2 DEF PolicyTypeOK, GuildTypeOK
  <2>3. ~providerBlocked'[g] /\ ~providerGlobal'[g] /\ providerIncident'[g] = 0 /\ ~providerProbe'[g]
    BY <2>1 DEF GuildTypeOK
  <2>4. \A d \in Guilds \ {g} : /\ providerBlocked'[d] = providerBlocked[d] /\ providerGlobal'[d] = providerGlobal[d]
                                /\ providerProbe'[d] = providerProbe[d] /\ providerIncident'[d] = providerIncident[d]
    BY <2>1 DEF GuildTypeOK
  <2> QED BY <2>2, <2>3, <2>4
<1> QED BY <1>2, <1>3

\* blockProviderLocked.
LEMMA BlockLocal ==
    ASSUME RecoveryInv, NEW g \in Guilds, blockProvider(g)
    PROVE  /\ PolicyTypeOK'
           /\ providerBlocked'[g] /\ providerProbe' = providerProbe
           /\ providerGlobal'[g] <=> providerGlobal[g] \/ blocked
           /\ providerIncident'[g] # 0 /\ (providerIncident'[g] > 0 => providerGlobal'[g])
           /\ ~providerGlobal'[g] /\ providerBlocked[g] => providerIncident'[g] = providerIncident[g]
           /\ \A d \in Guilds \ {g} : /\ providerBlocked'[d] = providerBlocked[d] /\ providerGlobal'[d] = providerGlobal[d]
                                      /\ providerIncident'[d] = providerIncident[d]
<1>1. /\ GuildTypeOK /\ PolicyOf(g) /\ incident \in Nat /\ incident <= MaxEpoch /\ (blocked => incident # 0)
  BY DEF RecoveryInv, GuildInv, GateInv, TypeOK, ProbeInv
<1>2. /\ providerGlobal' = [providerGlobal EXCEPT ![g] = @ \/ blocked]
      /\ providerBlocked' = [providerBlocked EXCEPT ![g] = TRUE] /\ providerProbe' = providerProbe
  BY DEF blockProvider
<1>3. /\ providerGlobal'[g] <=> providerGlobal[g] \/ blocked
      /\ providerGlobal' \in [Guilds -> BOOLEAN] /\ providerBlocked' \in [Guilds -> BOOLEAN] /\ providerBlocked'[g]
      /\ \A d \in Guilds \ {g} : providerBlocked'[d] = providerBlocked[d] /\ providerGlobal'[d] = providerGlobal[d]
  BY <1>1, <1>2 DEF GuildTypeOK
<1>4. incident \in (-MaxIncidents)..MaxEpoch
  BY <1>1, AdmissionAssumption, RecoveryAssumption
<1>5. CASE ~blocked /\ ~providerBlocked[g] /\ providerIncident[g] = 0
  <2>1. /\ ownIncidents[g] < MaxIncidents /\ ownIncidents' = [ownIncidents EXCEPT ![g] = @ + 1]
        /\ providerIncident' = [providerIncident EXCEPT ![g] = -(ownIncidents[g] + 1)]
    BY <1>5 DEF blockProvider
  <2>2. ownIncidents[g] + 1 \in 0..MaxIncidents /\ -(ownIncidents[g] + 1) \in (-MaxIncidents)..MaxEpoch /\ -(ownIncidents[g] + 1) < 0
    BY <1>1, <2>1, AdmissionAssumption, RecoveryAssumption DEF GuildTypeOK
  <2>3. ownIncidents' \in [Guilds -> 0..MaxIncidents] /\ providerIncident' \in [Guilds -> (-MaxIncidents)..MaxEpoch]
    BY <1>1, <2>1, <2>2 DEF GuildTypeOK
  <2>4. /\ providerIncident'[g] = -(ownIncidents[g] + 1)
        /\ \A d \in Guilds \ {g} : providerIncident'[d] = providerIncident[d]
    BY <1>1, <2>1 DEF GuildTypeOK
  <2>5. providerIncident'[g] # 0 /\ ~(providerIncident'[g] > 0)
    BY <2>2, <2>4
  <2> QED BY <1>1, <1>2, <1>3, <1>5, <2>3, <2>4, <2>5 DEF PolicyTypeOK, GuildTypeOK
<1>6. CASE ~(~blocked /\ ~providerBlocked[g] /\ providerIncident[g] = 0)
  <2>1. ownIncidents' = ownIncidents /\ providerIncident' = [providerIncident EXCEPT ![g] = IF blocked THEN incident ELSE @]
    BY <1>6 DEF blockProvider
  <2>2. /\ providerIncident' \in [Guilds -> (-MaxIncidents)..MaxEpoch]
        /\ providerIncident'[g] = IF blocked THEN incident ELSE providerIncident[g]
        /\ \A d \in Guilds \ {g} : providerIncident'[d] = providerIncident[d]
    BY <1>1, <1>4, <2>1 DEF GuildTypeOK
  <2>3. providerIncident'[g] # 0 /\ (providerIncident'[g] > 0 => providerGlobal'[g])
    BY <1>1, <1>3, <1>6, <2>2 DEF PolicyOf
  <2>4. ~providerGlobal'[g] => providerIncident'[g] = providerIncident[g]
    BY <1>3, <2>2
  <2> QED BY <1>1, <1>2, <1>3, <2>1, <2>2, <2>3, <2>4 DEF PolicyTypeOK, GuildTypeOK
<1> QED BY <1>5, <1>6

-----------------------------------------------------------------------------
(***************************************************************************)
(* Steps that leave the provider state of the player alone.                *)
(***************************************************************************)
LEMMA QuietStep ==
    ASSUME RecoveryInv, NEW g \in Guilds, GatePart(g), UNCHANGED <<policyVars, ownPermit>>,
           queued' \in [Guilds -> BOOLEAN], canceled' \in [Guilds -> BOOLEAN], shared' \in [Guilds -> BOOLEAN],
           NEW s \in Stages, stage' = [stage EXCEPT ![g] = s],
           s \notin {"own", "settling", "waiting", "returned"} \/ s = stage[g] \/ (s = "returned" /\ stage[g] = "waiting"),
           stage[g] = "settling" => s = "settling",
           pc'[g] \in PCOf(s), pc[g] = "done" => pc'[g] # "idle",
           permit'[g] = permit[g] \/ (GrantTrial(g) /\ stage[g] = "waiting")
    PROVE  RecoveryInv'
<1>1. GuildTypeOK /\ GuildInv(g) /\ GateInv
  BY DEF RecoveryInv
<1>2. UNCHANGED <<providerBlocked, providerGlobal, providerProbe, providerIncident, ownIncidents, ownPermit>>
  BY DEF policyVars
<1>3. stage' \in [Guilds -> Stages] /\ stage'[g] = s /\ \A d \in Guilds \ {g} : stage'[d] = stage[d]
  BY <1>1 DEF GuildTypeOK
<1>4. GuildTypeOK'
  BY <1>1, <1>2, <1>3 DEF GuildTypeOK
<1>5. Untouched(g)
  BY <1>2, <1>3 DEF Untouched, SamePolicy
<1>6. ASSUME Undisturbed PROVE ProbeOf(g)'
  <2>1. ProbeOf(g)
    BY <1>1, <1>6 DEF GuildInv
  <2>2. CASE GrantTrial(g) /\ stage[g] = "waiting"
    <3>1. permit'[g] # NoPermit
      <4>1. permit' = [permit EXCEPT ![g] = <<incident, attempts + 1>>] /\ incident # 0
        BY <1>1, <2>2 DEF GrantTrial, GateInv, ProbeInv
      <4>2. permit'[g] = <<incident, attempts + 1>>
        BY <1>1, <4>1 DEF GateInv, TypeOK, Guilds
      <4> QED BY <4>1, <4>2 DEF NoPermit
    <3> QED BY <1>2, <1>3, <2>1, <2>2, <3>1 DEF ProbeOf, Permitted
  <2>3. CASE ~GrantTrial(g)
    <3>1. permit'[g] = permit[g] /\ probe' \in {probe, NoPermit}
      BY <1>1, <2>3, GatePartProbe DEF Guilds
    <3> QED BY <1>2, <1>3, <2>1, <3>1 DEF ProbeOf, Permitted
  <2>4. GrantTrial(g) => stage[g] = "waiting"
    BY <1>1 DEF GrantTrial, GuildInv, PCOf
  <2> QED BY <2>2, <2>3, <2>4
<1>7. GuildInv(g)'
  BY <1>1, <1>2, <1>3, <1>6 DEF GuildInv, PolicyOf, Undisturbed
<1>8. ~Leaves(g)
  <2> SUFFICES ASSUME Leaves(g) PROVE FALSE
    OBVIOUS
  <2>1. pc[g] = "done" /\ pc' = [pc EXCEPT ![g] = "idle"] /\ pc \in [Callers -> PCs] /\ g \in Callers
    BY <1>1 DEF Leaves, LeaveGate, GateInv, TypeOK, Guilds
  <2> QED BY <2>1
<1> QED BY <1>4, <1>5, <1>7, <1>8, GuildStep

\* The stages by where the goroutine is.
LEMMA PCOfStage ==
    /\ \A s \in {"top", "asleep", "looked", "own", "settling"} : PCOf(s) = {"idle"}
    /\ PCOf("waiting") = {"wait", "parked", "timed"}
    /\ PCOf("returned") = {"admit"} /\ PCOf("granted") = {"admit"}
    /\ PCOf("playing") = {"admit", "slot", "run", "done"} /\ PCOf("confirmed") = {"run"}
    /\ \A s \in {"observing", "reporting", "blocking", "finishing"} : PCOf(s) = {"done"}
BY DEF PCOf

\* The types of one guild's state.
LEMMA GuildFacts ==
    ASSUME RecoveryInv, NEW g \in Guilds
    PROVE  /\ queued \in [Guilds -> BOOLEAN] /\ canceled \in [Guilds -> BOOLEAN] /\ shared \in [Guilds -> BOOLEAN]
           /\ stage \in [Guilds -> Stages] /\ stage[g] \in Stages /\ pc[g] \in PCOf(stage[g])
           /\ pc \in [Callers -> PCs] /\ permit \in [Callers -> Permits] /\ err \in [Callers -> Outcomes]
           /\ stage = [stage EXCEPT ![g] = stage[g]] /\ g \in Callers
BY DEF RecoveryInv, GuildTypeOK, GuildInv, GateInv, TypeOK, Guilds

\* The steps of a guild outside the gate.
LEMMA IdleSteps ==
    ASSUME RecoveryInv, NEW g \in Guilds,
           Play(g) \/ Sleep(g) \/ Wake(g) \/ Looks(g) \/ StartTrial(g) \/ Ended(g) \/ Observes(g)
    PROVE  RecoveryInv'
<1>1. GatePart(g) /\ pc' = pc /\ permit' = permit /\ UNCHANGED <<policyVars, ownPermit>>
  BY DEF Play, Sleep, Wake, Looks, StartTrial, Ended, Observes, GatePart, vars, callerVars
<1>2. queued' \in [Guilds -> BOOLEAN] /\ canceled' \in [Guilds -> BOOLEAN]
  BY GuildFacts DEF Play, Sleep, Wake, Looks, StartTrial, Ended, Observes
<1>3. shared' \in [Guilds -> BOOLEAN]
  <2>1. blocked \in BOOLEAN
    BY DEF RecoveryInv, GateInv, TypeOK
  <2> QED BY <2>1, GuildFacts DEF Play, Sleep, Wake, Looks, StartTrial, Ended, Observes
<1>4. CASE Play(g)
  BY <1>1, <1>2, <1>3, <1>4, GuildFacts, QuietStep DEF Play, Settling
<1>5. CASE ~Play(g)
  <2>1. PICK s \in {"asleep", "top", "looked", "playing", "observing", "finishing", "reporting", "blocking"} :
          stage' = [stage EXCEPT ![g] = s] /\ pc[g] \in PCOf(s) /\ stage[g] # "settling"
    <3>1. CASE Sleep(g) \/ Wake(g) \/ Looks(g)
      BY <3>1, GuildFacts, PCOfStage DEF Sleep, Wake, Looks, To
    <3>2. CASE StartTrial(g) \/ Ended(g) \/ Observes(g)
      BY <3>2, GuildFacts, PCOfStage DEF StartTrial, Ended, Observes, To
    <3> QED BY <1>5, <3>1, <3>2
  <2>2. s \in Stages /\ s \notin {"own", "settling", "waiting", "returned"}
    BY DEF Stages
  <2>3. pc[g] = "done" => pc'[g] # "idle"
    BY <1>1
  <2> QED BY <1>1, <1>2, <1>3, <2>1, <2>2, <2>3, QuietStep
<1> QED BY <1>4, <1>5

\* The steps of a guild at the gate.
LEMMA GateSteps ==
    ASSUME RecoveryInv, NEW g \in Guilds,
           StartOpen(g) \/ Waits(g) \/ GiveBack(g) \/ Attempts(g) \/ Reports(g)
    PROVE  RecoveryInv'
<1>1. GatePart(g) /\ UNCHANGED <<policyVars, ownPermit, queued, shared>>
  BY DEF StartOpen, Waits, GiveBack, Attempts, Reports, GatePart, GateStep, guildVars, policyVars
<1>2. queued' \in [Guilds -> BOOLEAN] /\ canceled' \in [Guilds -> BOOLEAN] /\ shared' \in [Guilds -> BOOLEAN]
  BY <1>1, GuildFacts DEF StartOpen, Waits, GiveBack, Attempts, Reports, guildVars
<1>3. permit'[g] = permit[g] \/ (GrantTrial(g) /\ stage[g] = "waiting")
  BY DEF StartOpen, CallAdmit, Waits, Park, Tick, PassOpenGate, GiveBack, AdmitFails, Attempts, TakeSlot, FirstFrame,
         SustainedMedia, NextExtraction, AdmitStart, Exit, Reports, ObserveLate
<1>4. PICK s \in {"playing", "waiting", "returned", "finishing", "blocking"} :
        /\ stage' = [stage EXCEPT ![g] = s] /\ pc'[g] \in PCOf(s) /\ stage[g] # "settling"
        /\ s \in {"waiting", "returned"} => stage[g] = "waiting"
        /\ pc[g] = "done" => pc'[g] # "idle"
  <2>1. CASE StartOpen(g)
    BY <2>1, GuildFacts, PCOfStage DEF StartOpen, CallAdmit, To
  <2>2. CASE Waits(g)
    BY <2>2, GuildFacts, PCOfStage DEF Waits, Park, Tick, PassOpenGate, GrantTrial, To
  <2>3. CASE GiveBack(g)
    BY <2>3, GuildFacts, PCOfStage DEF GiveBack, AdmitFails, To
  <2>4. CASE Reports(g)
    <3>1. pc[g] = "done" /\ pc' = Notified(pc)
      BY <2>4 DEF Reports, ObserveLate
    <3>2. pc'[g] = "done"
      BY <3>1, GuildFacts, NotifiedFacts
    <3> QED BY <2>4, <3>2, PCOfStage DEF Reports, To
  <2>5. CASE Attempts(g)
    <3>1. stage[g] = "playing" /\ stage' = stage
      BY <2>5 DEF Attempts, guildVars
    <3>2. pc'[g] \in {"admit", "slot", "run", "done"}
      BY <2>5, GuildFacts, NotifiedFacts
      DEF Attempts, TakeSlot, FirstFrame, SustainedMedia, NextExtraction, AdmitFails, AdmitStart, Exit
    <3> QED BY <3>1, <3>2, GuildFacts, PCOfStage
  <2> QED BY <2>1, <2>2, <2>3, <2>4, <2>5
<1>5. s \in Stages /\ (s \notin {"own", "settling", "waiting", "returned"} \/ s = stage[g] \/ (s = "returned" /\ stage[g] = "waiting"))
  BY <1>4 DEF Stages
<1> QED BY <1>1, <1>2, <1>3, <1>4, <1>5, QuietStep

-----------------------------------------------------------------------------
(***************************************************************************)
(* Steps that change the provider state of the player.                     *)
(***************************************************************************)
LEMMA Retyped ==
    ASSUME RecoveryInv, PolicyTypeOK', UNCHANGED <<queued, shared>>,
           canceled' \in [Guilds -> BOOLEAN], stage' \in [Guilds -> Stages], ownPermit' \in [Guilds -> (-MaxIncidents)..0]
    PROVE  GuildTypeOK'
BY DEF RecoveryInv, GuildTypeOK, PolicyTypeOK

\* A stage set for g alone.
LEMMA Staged ==
    ASSUME RecoveryInv, NEW g \in Guilds, NEW s \in Stages, To(g, s)
    PROVE  stage' \in [Guilds -> Stages] /\ stage'[g] = s /\ \A d \in Guilds \ {g} : stage'[d] = stage[d]
BY DEF RecoveryInv, GuildTypeOK, To

\* /stop.
LEMMA StopStep ==
    ASSUME RecoveryInv, NEW g \in Guilds, Stop(g)
    PROVE  RecoveryInv'
<1>1. GuildTypeOK /\ GuildInv(g)
  BY DEF RecoveryInv
<1>2. /\ Stops /\ resetProvider(g) /\ UNCHANGED <<shared, vars, stage, ownPermit>>
      /\ queued' = [queued EXCEPT ![g] = FALSE] /\ canceled' = [canceled EXCEPT ![g] = (stage[g] = "playing")]
  BY DEF Stop
<1>3. /\ PolicyTypeOK' /\ ~providerBlocked'[g] /\ ~providerGlobal'[g] /\ providerIncident'[g] = 0
      /\ \A d \in Guilds \ {g} : /\ providerBlocked'[d] = providerBlocked[d] /\ providerGlobal'[d] = providerGlobal[d]
                                 /\ providerProbe'[d] = providerProbe[d] /\ providerIncident'[d] = providerIncident[d]
  BY <1>1, <1>2, ResetLocal DEF GuildInv
<1>4. GuildTypeOK'
  <2>1. queued' \in [Guilds -> BOOLEAN] /\ canceled' \in [Guilds -> BOOLEAN]
    BY <1>1, <1>2 DEF GuildTypeOK
  <2> QED BY <1>1, <1>2, <1>3, <2>1 DEF GuildTypeOK, PolicyTypeOK
<1>5. GatePart(g) /\ pc' = pc /\ ~Undisturbed
  BY <1>2 DEF GatePart, Undisturbed, vars, callerVars
<1>6. Untouched(g)
  BY <1>2, <1>3 DEF Untouched, SamePolicy
<1>7. GuildInv(g)'
  BY <1>1, <1>2, <1>3, <1>5 DEF GuildInv, PolicyOf, Undisturbed
<1> QED BY <1>4, <1>5, <1>6, <1>7, GuildStep

\* After a reset nothing is left to relate to the gate.
LEMMA ResetStep ==
    ASSUME RecoveryInv, NEW g \in Guilds, resetProvider(g), UNCHANGED <<vars, queued, shared, canceled, ownPermit>>,
           NEW s \in {"granted", "playing", "top"}, To(g, s), pc[g] \in PCOf(s),
           Undisturbed => permit[g] = NoPermit \/ permit[g] # probe
    PROVE  RecoveryInv'
<1>1. GuildTypeOK /\ GuildInv(g)
  BY DEF RecoveryInv
<1>2. s \in Stages
  BY DEF Stages
<1>3. /\ PolicyTypeOK' /\ ~providerBlocked'[g] /\ ~providerGlobal'[g] /\ providerIncident'[g] = 0
      /\ (providerProbe[g] => providerBlocked[g]) => ~providerProbe'[g]
      /\ \A d \in Guilds \ {g} : /\ providerBlocked'[d] = providerBlocked[d] /\ providerGlobal'[d] = providerGlobal[d]
                                 /\ providerProbe'[d] = providerProbe[d] /\ providerIncident'[d] = providerIncident[d]
  BY <1>1, ResetLocal DEF GuildInv
<1>4. stage'[g] = s /\ stage' \in [Guilds -> Stages] /\ \A d \in Guilds \ {g} : stage'[d] = stage[d]
  BY <1>2, Staged
<1>5. GuildTypeOK'
  BY <1>1, <1>3, <1>4, Retyped DEF GuildTypeOK
<1>6. GatePart(g) /\ pc' = pc /\ permit' = permit /\ probe' = probe
  BY DEF GatePart, vars, callerVars, gateVars, probeVars
<1>7. Untouched(g)
  BY <1>3, <1>4 DEF Untouched, SamePolicy
<1>8. GuildInv(g)'
  <2>1. Undisturbed => ProbeOf(g)'
    BY <1>1, <1>3, <1>4, <1>6 DEF GuildInv, ProbeOf
  <2>2. PolicyOf(g)' /\ pc'[g] \in PCOf(stage'[g]) /\ stage'[g] # "own"
    BY <1>3, <1>4, <1>6 DEF PolicyOf
  <2> QED BY <2>1, <2>2 DEF GuildInv, Undisturbed
<1>9. ~Leaves(g)
  <2> SUFFICES ASSUME Leaves(g) PROVE FALSE
    OBVIOUS
  <2> QED BY <1>6, GuildFacts DEF Leaves, LeaveGate
<1> QED BY <1>5, <1>6, <1>7, <1>8, <1>9, GuildStep

\* The probe flag is cleared and the incident goes on.
LEMMA ClearStep ==
    ASSUME RecoveryInv, NEW g \in Guilds, providerProbe' = [providerProbe EXCEPT ![g] = FALSE],
           UNCHANGED <<vars, queued, shared, canceled, ownPermit, providerBlocked, providerGlobal, providerIncident, ownIncidents>>,
           NEW s \in {"playing", "top"}, To(g, s), pc[g] \in PCOf(s)
    PROVE  RecoveryInv'
<1>1. GuildTypeOK /\ GuildInv(g)
  BY DEF RecoveryInv
<1>2. s \in Stages
  BY DEF Stages
<1>3. PolicyTypeOK' /\ ~providerProbe'[g] /\ \A d \in Guilds \ {g} : providerProbe'[d] = providerProbe[d]
  BY <1>1 DEF GuildTypeOK, PolicyTypeOK
<1>4. stage'[g] = s /\ stage' \in [Guilds -> Stages] /\ \A d \in Guilds \ {g} : stage'[d] = stage[d]
  BY <1>2, Staged
<1>5. GuildTypeOK'
  BY <1>1, <1>3, <1>4, Retyped DEF GuildTypeOK
<1>6. GatePart(g) /\ pc' = pc /\ permit' = permit /\ probe' = probe
  BY DEF GatePart, vars, callerVars, gateVars, probeVars
<1>7. Untouched(g)
  BY <1>3, <1>4 DEF Untouched, SamePolicy
<1>8. GuildInv(g)'
  <2>1. Undisturbed => ProbeOf(g)'
    BY <1>1, <1>3, <1>4, <1>6 DEF GuildInv, ProbeOf
  <2>2. PolicyOf(g)' /\ pc'[g] \in PCOf(stage'[g]) /\ stage'[g] # "own"
    BY <1>1, <1>4, <1>6 DEF PolicyOf, GuildInv
  <2> QED BY <2>1, <2>2 DEF GuildInv, Undisturbed
<1>9. ~Leaves(g)
  <2> SUFFICES ASSUME Leaves(g) PROVE FALSE
    OBVIOUS
  <2> QED BY <1>6, GuildFacts DEF Leaves, LeaveGate
<1> QED BY <1>5, <1>6, <1>7, <1>8, <1>9, GuildStep

\* The snapshot after FinishTrial: an open gate ends the incident.
LEMMA SettleSteps ==
    ASSUME RecoveryInv, NEW g \in Guilds, ConfirmSettles(g) \/ Settles(g)
    PROVE  RecoveryInv'
<1>1. PICK s \in {"playing", "top"} : To(g, s) /\ pc[g] \in PCOf(s)
  BY GuildFacts, PCOfStage DEF ConfirmSettles, Settles
<1>2. settle(g) /\ UNCHANGED <<vars, queued, shared, canceled, ownPermit>>
  BY DEF ConfirmSettles, Settles
<1>3. CASE ~blocked
  <2>1. probe = NoPermit
    BY <1>3 DEF RecoveryInv, GateInv, ProbeInv
  <2>2. resetProvider(g)
    BY <1>2, <1>3 DEF settle
  <2> QED BY <1>1, <1>2, <2>1, <2>2, ResetStep
<1>4. CASE blocked
  BY <1>1, <1>2, <1>4, ClearStep DEF settle
<1> QED BY <1>3, <1>4

\* The attempt returned.
LEMMA ReturnedStep ==
    ASSUME RecoveryInv, NEW g \in Guilds, Returned(g)
    PROVE  RecoveryInv'
<1>1. /\ stage[g] = "returned" /\ To(g, "granted") /\ UNCHANGED <<shared, vars, queued, canceled, ownPermit>>
      /\ pc[g] = "admit" /\ PCOf("granted") = {"admit"} /\ "granted" \in Stages
  BY GuildFacts, PCOfStage DEF Returned, Stages
<1>2. CASE permit[g] = NoPermit
  BY <1>1, <1>2, ResetStep DEF Returned
<1>3. CASE permit[g] # NoPermit
  <2>1. GuildTypeOK /\ GuildInv(g)
    BY DEF RecoveryInv
  <2>2. /\ providerProbe' = [providerProbe EXCEPT ![g] = TRUE]
        /\ UNCHANGED <<providerBlocked, providerGlobal, providerIncident, ownIncidents>>
    BY <1>3 DEF Returned
  <2>3. PolicyTypeOK' /\ providerProbe'[g] /\ \A d \in Guilds \ {g} : providerProbe'[d] = providerProbe[d]
    BY <2>1, <2>2 DEF GuildTypeOK, PolicyTypeOK
  <2>4. stage'[g] = "granted" /\ stage' \in [Guilds -> Stages] /\ \A d \in Guilds \ {g} : stage'[d] = stage[d]
    BY <1>1, Staged
  <2>5. GuildTypeOK'
    BY <1>1, <2>1, <2>3, <2>4, Retyped DEF GuildTypeOK
  <2>6. GatePart(g) /\ pc' = pc /\ permit' = permit /\ probe' = probe
    BY <1>1 DEF GatePart, vars, callerVars, gateVars, probeVars
  <2>7. Untouched(g)
    BY <1>1, <2>2, <2>3, <2>4 DEF Untouched, SamePolicy
  <2>8. GuildInv(g)'
    <3>1. Undisturbed => ProbeOf(g)'
      BY <1>1, <1>3, <2>1, <2>2, <2>3, <2>4, <2>6 DEF GuildInv, ProbeOf, PolicyOf, Permitted
    <3>2. PolicyOf(g)' /\ pc'[g] \in PCOf(stage'[g]) /\ stage'[g] # "own"
      BY <1>1, <2>1, <2>2, <2>4, <2>6 DEF PolicyOf, GuildInv
    <3> QED BY <3>1, <3>2 DEF GuildInv, Undisturbed
  <2>9. ~Leaves(g)
    BY <1>1 DEF Leaves
  <2> QED BY <2>5, <2>6, <2>7, <2>8, <2>9, GuildStep
<1> QED BY <1>2, <1>3

\* The guild tries on its own.
LEMMA OwnTrialStep ==
    ASSUME RecoveryInv, NEW g \in Guilds, OwnTrial(g)
    PROVE  RecoveryInv'
<1>1. /\ stage[g] = "own" /\ To(g, "granted") /\ CallAdmit(g) /\ UNCHANGED <<shared, queued, canceled>>
      /\ PCOf("granted") = {"admit"} /\ "granted" \in Stages
      /\ UNCHANGED <<providerBlocked, providerGlobal, providerIncident, ownIncidents>>
  BY PCOfStage DEF OwnTrial, Stages
<1>2. GatePart(g) /\ pc[g] = "idle" /\ pc'[g] = "admit" /\ permit' = permit /\ probe' = probe
  BY <1>1, GuildFacts DEF GatePart, GateStep, CallAdmit, gateVars, probeVars
<1>3. GuildTypeOK /\ GuildInv(g)
  BY DEF RecoveryInv
<1>4. CASE ~providerBlocked[g]
  <2>1. UNCHANGED <<policyVars, ownPermit>>
    BY <1>1, <1>4 DEF OwnTrial, policyVars
  <2>2. stage' = [stage EXCEPT ![g] = "granted"] /\ queued' \in [Guilds -> BOOLEAN] /\ canceled' \in [Guilds -> BOOLEAN]
        /\ shared' \in [Guilds -> BOOLEAN]
    BY <1>1, GuildFacts DEF To
  <2> QED BY <1>1, <1>2, <2>1, <2>2, QuietStep
<1>5. CASE providerBlocked[g]
  <2>1. /\ providerProbe' = [providerProbe EXCEPT ![g] = TRUE]
        /\ ownPermit' = [ownPermit EXCEPT ![g] = providerIncident[g]]
    BY <1>5 DEF OwnTrial
  <2>2. providerIncident[g] # 0 /\ ~providerGlobal[g] /\ ~(providerIncident[g] > 0)
    BY <1>1, <1>3, <1>5 DEF GuildInv, PolicyOf
  <2>3. providerIncident[g] \in (-MaxIncidents)..0
    BY <1>3, <2>2, AdmissionAssumption, RecoveryAssumption DEF GuildTypeOK
  <2>4. /\ ownPermit' \in [Guilds -> (-MaxIncidents)..0] /\ ownPermit'[g] = providerIncident[g]
        /\ \A d \in Guilds \ {g} : ownPermit'[d] = ownPermit[d]
    BY <1>3, <2>1, <2>3 DEF GuildTypeOK
  <2>5. PolicyTypeOK' /\ providerProbe'[g] /\ \A d \in Guilds \ {g} : providerProbe'[d] = providerProbe[d]
    BY <1>1, <1>3, <2>1 DEF GuildTypeOK, PolicyTypeOK
  <2>6. stage'[g] = "granted" /\ stage' \in [Guilds -> Stages] /\ \A d \in Guilds \ {g} : stage'[d] = stage[d]
    BY <1>1, Staged
  <2>7. GuildTypeOK'
    BY <1>1, <1>3, <2>4, <2>5, <2>6, Retyped DEF GuildTypeOK
  <2>8. Untouched(g)
    BY <1>1, <2>4, <2>5, <2>6 DEF Untouched, SamePolicy
  <2>9. GuildInv(g)'
    <3>1. Undisturbed => ProbeOf(g)'
      BY <1>1, <1>2, <1>3, <1>5, <2>2, <2>4, <2>5, <2>6 DEF GuildInv, ProbeOf, Permitted
    <3>2. PolicyOf(g)' /\ pc'[g] \in PCOf(stage'[g]) /\ stage'[g] # "own"
      BY <1>1, <1>2, <1>3, <2>6 DEF PolicyOf, GuildInv
    <3> QED BY <3>1, <3>2 DEF GuildInv, Undisturbed
  <2>10. ~Leaves(g)
    BY <1>2 DEF Leaves
  <2> QED BY <1>2, <2>7, <2>8, <2>9, <2>10, GuildStep
<1> QED BY <1>4, <1>5

\* blockProviderLocked keeps what is known of the probe and of the trial.
LEMMA BlockKeeps ==
    ASSUME RecoveryInv, NEW g \in Guilds, blockProvider(g), UNCHANGED <<queued, shared, canceled, ownPermit>>,
           GatePart(g), permit' = permit, probe' = probe, pc[g] # "done" \/ pc' = pc,
           NEW s \in {"waiting", "finishing"}, To(g, s), pc'[g] \in PCOf(s), stage[g] # "settling",
           s = "waiting" /\ Undisturbed => providerGlobal'[g]
    PROVE  RecoveryInv'
<1>1. GuildTypeOK /\ GuildInv(g)
  BY DEF RecoveryInv
<1>2. s \in Stages
  BY DEF Stages
<1>3. /\ PolicyTypeOK' /\ providerBlocked'[g] /\ providerProbe' = providerProbe
      /\ providerGlobal'[g] <=> providerGlobal[g] \/ blocked
      /\ providerIncident'[g] # 0 /\ (providerIncident'[g] > 0 => providerGlobal'[g])
      /\ ~providerGlobal'[g] /\ providerBlocked[g] => providerIncident'[g] = providerIncident[g]
      /\ \A d \in Guilds \ {g} : /\ providerBlocked'[d] = providerBlocked[d] /\ providerGlobal'[d] = providerGlobal[d]
                                 /\ providerIncident'[d] = providerIncident[d]
  BY BlockLocal
<1>4. stage'[g] = s /\ stage' \in [Guilds -> Stages] /\ \A d \in Guilds \ {g} : stage'[d] = stage[d]
  BY <1>2, Staged
<1>5. GuildTypeOK'
  BY <1>1, <1>3, <1>4, Retyped DEF GuildTypeOK
<1>6. Untouched(g)
  BY <1>3, <1>4 DEF Untouched, SamePolicy
<1>7. GuildInv(g)'
  <2>1. ASSUME Undisturbed PROVE ProbeOf(g)'
    <3>1. ProbeOf(g)
      BY <1>1, <2>1 DEF GuildInv
    <3> QED BY <1>3, <1>4, <2>1, <3>1 DEF ProbeOf, Permitted
  <2>2. PolicyOf(g)' /\ pc'[g] \in PCOf(stage'[g]) /\ stage'[g] # "own"
    BY <1>3, <1>4 DEF PolicyOf
  <2> QED BY <2>1, <2>2 DEF GuildInv, Undisturbed
<1>8. ~Leaves(g)
  <2> SUFFICES ASSUME Leaves(g) PROVE FALSE
    OBVIOUS
  <2> QED BY GuildFacts DEF Leaves, LeaveGate
<1> QED BY <1>5, <1>6, <1>7, <1>8, GuildStep

\* The guild blocks its provider.
LEMMA BlocksStep ==
    ASSUME RecoveryInv, NEW g \in Guilds, Blocks(g)
    PROVE  RecoveryInv'
<1>1. /\ stage[g] = "blocking" /\ To(g, "finishing") /\ blockProvider(g)
      /\ UNCHANGED <<shared, vars, queued, canceled, ownPermit>>
  BY DEF Blocks
<1>2. pc[g] = "done" /\ PCOf("finishing") = {"done"}
  BY <1>1, GuildFacts, PCOfStage
<1>3. GatePart(g) /\ pc' = pc /\ permit' = permit /\ probe' = probe
  BY <1>1 DEF GatePart, vars, callerVars, gateVars, probeVars
<1> QED BY <1>1, <1>2, <1>3, BlockKeeps

\* The guild begins to wait for the gate.
LEMMA EnterWaitStep ==
    ASSUME RecoveryInv, NEW g \in Guilds, EnterWait(g)
    PROVE  RecoveryInv'
<1>1. /\ stage[g] = "looked" /\ (shared[g] = blocked \/ StaleReads)
      /\ UNCHANGED <<shared, queued, canceled, ownPermit>>
      /\ pc[g] = "idle" /\ GuildTypeOK /\ GuildInv(g) /\ GateInv
  BY GuildFacts, PCOfStage DEF EnterWait, RecoveryInv
<1>2. CASE shared[g]
  <2>1. blockProvider(g) /\ CallWaitRecovery(g) /\ To(g, "waiting")
    BY <1>2 DEF EnterWait, UsesGate
  <2>2. GatePart(g) /\ pc'[g] = "wait" /\ permit' = permit /\ probe' = probe
    BY <2>1, GuildFacts DEF GatePart, GateStep, CallWaitRecovery, gateVars, probeVars
  <2>3. Undisturbed => providerGlobal'[g]
    BY <1>1, <1>2, <2>1, BlockLocal DEF Undisturbed
  <2>4. pc'[g] \in PCOf("waiting")
    BY <2>2, PCOfStage
  <2> QED BY <1>1, <2>1, <2>2, <2>3, <2>4, BlockKeeps
<1>3. CASE ~shared[g]
  <2>1. UNCHANGED policyVars
    BY <1>3 DEF EnterWait
  <2>2. UNCHANGED <<providerBlocked, providerGlobal, providerProbe, providerIncident, ownIncidents>>
    BY <2>1 DEF policyVars
  <2>3. PICK s \in {"waiting", "own"} : /\ To(g, s) /\ pc'[g] \in PCOf(s) /\ permit' = permit /\ probe' = probe /\ GatePart(g)
                                        /\ s = "waiting" <=> providerGlobal[g]
    <3>1. CASE providerGlobal[g]
      <4>1. CallWaitRecovery(g) /\ To(g, "waiting")
        BY <3>1 DEF EnterWait, UsesGate
      <4>2. GatePart(g) /\ pc'[g] = "wait" /\ permit' = permit /\ probe' = probe
        BY <4>1, GuildFacts DEF GatePart, GateStep, CallWaitRecovery, gateVars, probeVars
      <4> QED BY <3>1, <4>1, <4>2, PCOfStage
    <3>2. CASE ~providerGlobal[g]
      <4>1. UNCHANGED vars /\ To(g, "own")
        BY <1>3, <3>2 DEF EnterWait, UsesGate
      <4>2. GatePart(g) /\ pc' = pc /\ permit' = permit /\ probe' = probe
        BY <4>1 DEF GatePart, vars, callerVars, gateVars, probeVars
      <4> QED BY <1>1, <3>2, <4>1, <4>2, PCOfStage
    <3> QED BY <3>1, <3>2
  <2>4. stage'[g] = s /\ stage' \in [Guilds -> Stages] /\ \A d \in Guilds \ {g} : stage'[d] = stage[d]
    BY <2>3, Staged DEF Stages
  <2>5. GuildTypeOK'
    BY <1>1, <2>2, <2>4 DEF GuildTypeOK
  <2>6. Untouched(g)
    BY <1>1, <2>2, <2>4 DEF Untouched, SamePolicy
  <2>7. GuildInv(g)'
    <3>1. Undisturbed => ProbeOf(g)'
      BY <1>1, <2>2, <2>3, <2>4 DEF GuildInv, ProbeOf, Permitted
    <3>2. PolicyOf(g)' /\ pc'[g] \in PCOf(stage'[g]) /\ (stage'[g] = "own" => ~providerGlobal'[g])
      BY <1>1, <2>2, <2>3, <2>4 DEF PolicyOf, GuildInv
    <3> QED BY <3>1, <3>2 DEF GuildInv, Undisturbed
  <2>8. ~Leaves(g)
    BY <1>1 DEF Leaves
  <2> QED BY <2>3, <2>5, <2>6, <2>7, <2>8, GuildStep
<1> QED BY <1>2, <1>3

\* finishProviderLocked for the guild's own incident: the flag of its trial is cleared.
LEMMA FinishOwnLocal ==
    ASSUME RecoveryInv, NEW g \in Guilds, finishOwn(g), ~providerGlobal[g]
    PROVE  /\ PolicyTypeOK' /\ ~providerGlobal'[g] /\ PolicyOf(g)'
           /\ Undisturbed /\ stage[g] # "settling" => ~providerProbe'[g]
           /\ \A d \in Guilds \ {g} : /\ providerBlocked'[d] = providerBlocked[d] /\ providerGlobal'[d] = providerGlobal[d]
                                      /\ providerProbe'[d] = providerProbe[d] /\ providerIncident'[d] = providerIncident[d]
<1>1. GuildTypeOK /\ GuildInv(g) /\ PolicyOf(g)
  BY DEF RecoveryInv, GuildInv
<1>2. CASE ~providerProbe[g] \/ ownPermit[g] = 0 \/ ownPermit[g] # providerIncident[g]
  <2>1. UNCHANGED <<providerBlocked, providerGlobal, providerProbe, providerIncident, ownIncidents>>
    BY <1>2 DEF finishOwn, policyVars
  <2>2. Undisturbed /\ stage[g] # "settling" => ~providerProbe[g]
    BY <1>1, <1>2 DEF GuildInv, ProbeOf, PolicyOf
  <2> QED BY <1>1, <2>1, <2>2 DEF GuildTypeOK, PolicyTypeOK, PolicyOf
<1>3. CASE ~(~providerProbe[g] \/ ownPermit[g] = 0 \/ ownPermit[g] # providerIncident[g]) /\ err[g] \in {"ok", "local"}
  <2>1. resetProvider(g)
    BY <1>3 DEF finishOwn
  <2>2. Undisturbed => (providerProbe[g] => providerBlocked[g])
    BY <1>1 DEF GuildInv, ProbeOf
  <2> QED BY <1>1, <2>1, <2>2, ResetLocal DEF PolicyOf
<1>4. CASE ~(~providerProbe[g] \/ ownPermit[g] = 0 \/ ownPermit[g] # providerIncident[g]) /\ err[g] \notin {"ok", "local"}
  <2>1. /\ providerProbe' = [providerProbe EXCEPT ![g] = FALSE]
        /\ UNCHANGED <<providerBlocked, providerGlobal, providerIncident, ownIncidents>>
    BY <1>4 DEF finishOwn
  <2>2. PolicyTypeOK' /\ ~providerProbe'[g] /\ \A d \in Guilds \ {g} : providerProbe'[d] = providerProbe[d]
    BY <1>1, <2>1 DEF GuildTypeOK, PolicyTypeOK
  <2> QED BY <1>1, <2>1, <2>2 DEF PolicyOf
<1> QED BY <1>2, <1>3, <1>4

\* Five seconds of audio confirm the recovery.
LEMMA ConfirmsStep ==
    ASSUME RecoveryInv, NEW g \in Guilds, Confirms(g)
    PROVE  RecoveryInv'
<1>1. /\ stage[g] = "playing" /\ pc[g] = "run" /\ UNCHANGED <<shared, queued, canceled, ownPermit>>
      /\ GuildTypeOK /\ GuildInv(g)
  BY DEF Confirms, RecoveryInv
<1>2. GatePart(g) /\ pc'[g] = "run" /\ permit' = permit
  <2>1. ConfirmTrial(g) \/ Flags(g)
    BY DEF Confirms, Flags
  <2>2. GatePart(g) /\ permit' = permit /\ (pc' = pc \/ pc' = Notified(pc))
    BY <2>1 DEF GatePart, GateStep, ConfirmTrial, Flags
  <2> QED BY <1>1, <2>2, GuildFacts, NotifiedFacts
<1>3. CASE providerGlobal[g]
  <2>1. stage' = [stage EXCEPT ![g] = "confirmed"] /\ UNCHANGED policyVars
    BY <1>3 DEF Confirms, To
  <2>2. pc'[g] \in PCOf("confirmed") /\ "confirmed" \in Stages
    BY <1>2, PCOfStage DEF Stages
  <2> QED BY <1>1, <1>2, <2>1, <2>2, GuildFacts, QuietStep
<1>4. CASE ~providerGlobal[g]
  <2>1. finishOwn(g) /\ stage' = stage /\ Flags(g)
    BY <1>4 DEF Confirms, Flags
  <2>2. /\ PolicyTypeOK' /\ ~providerGlobal'[g] /\ PolicyOf(g)' /\ (Undisturbed => ~providerProbe'[g])
        /\ \A d \in Guilds \ {g} : /\ providerBlocked'[d] = providerBlocked[d] /\ providerGlobal'[d] = providerGlobal[d]
                                   /\ providerProbe'[d] = providerProbe[d] /\ providerIncident'[d] = providerIncident[d]
    BY <1>1, <1>4, <2>1, FinishOwnLocal
  <2>3. GuildTypeOK'
    BY <1>1, <2>1, <2>2, Retyped DEF GuildTypeOK
  <2>4. Untouched(g)
    BY <1>1, <2>1, <2>2 DEF Untouched, SamePolicy
  <2>5. probe' = probe /\ pc' = pc
    BY <2>1 DEF Flags, gateVars, probeVars
  <2>6. GuildInv(g)'
    <3>1. Undisturbed => ProbeOf(g)'
      BY <1>1, <1>2, <1>4, <2>1, <2>2, <2>5 DEF GuildInv, ProbeOf
    <3> QED BY <1>1, <2>1, <2>2, <2>5, <3>1 DEF GuildInv, Undisturbed
  <2>7. ~Leaves(g)
    BY <1>1 DEF Leaves
  <2> QED BY <1>2, <2>3, <2>4, <2>6, <2>7, GuildStep
<1> QED BY <1>3, <1>4

\* The track ends.
LEMMA FinishesStep ==
    ASSUME RecoveryInv, NEW g \in Guilds, Finishes(g)
    PROVE  RecoveryInv'
<1>1. /\ stage[g] = "finishing" /\ UNCHANGED <<shared, queued, canceled>> /\ ownPermit' = [ownPermit EXCEPT ![g] = 0]
      /\ pc[g] = "done" /\ GuildTypeOK /\ GuildInv(g) /\ GateInv /\ g \in Callers
  BY GuildFacts, PCOfStage DEF Finishes, RecoveryInv
<1>2. /\ ownPermit' \in [Guilds -> (-MaxIncidents)..0] /\ ownPermit'[g] = 0
      /\ \A d \in Guilds \ {g} : ownPermit'[d] = ownPermit[d]
  <2>1. 0 \in (-MaxIncidents)..0
    BY RecoveryAssumption
  <2> QED BY <1>1, <2>1 DEF GuildTypeOK
<1>3. CASE AsksGate(g)
  <2>1. Finish(g) /\ To(g, "settling") /\ UNCHANGED policyVars
    BY <1>3 DEF Finishes
  <2>2. UNCHANGED <<providerBlocked, providerGlobal, providerProbe, providerIncident, ownIncidents>>
    BY <2>1 DEF policyVars
  <2>3. GatePart(g) /\ permit'[g] = NoPermit
    BY <1>1, <2>1 DEF GatePart, GateStep, Finish, GateInv, TypeOK
  <2>4. pc'[g] = "idle"
    <3>1. pc' = [pc EXCEPT ![g] = "idle"] \/ pc' = [Notified(pc) EXCEPT ![g] = "idle"]
      BY <2>1 DEF Finish
    <3> QED BY <1>1, <3>1, GuildFacts, NotifiedFacts
  <2>5. stage'[g] = "settling" /\ stage' \in [Guilds -> Stages] /\ \A d \in Guilds \ {g} : stage'[d] = stage[d]
    BY <2>1, Staged DEF Stages
  <2>6. GuildTypeOK'
    BY <1>1, <1>2, <2>2, <2>5 DEF GuildTypeOK
  <2>7. Untouched(g)
    BY <1>2, <2>2, <2>5 DEF Untouched, SamePolicy
  <2>8. GuildInv(g)'
    <3>1. Undisturbed => ProbeOf(g)'
      BY <1>1, <2>2, <2>3, <2>5 DEF GuildInv, ProbeOf
    <3>2. pc'[g] \in PCOf(stage'[g])
      BY <2>4, <2>5, PCOfStage
    <3> QED BY <1>1, <2>2, <2>5, <3>1, <3>2 DEF GuildInv, PolicyOf, Undisturbed
  <2>9. Undisturbed /\ Leaves(g) => probe = NoPermit \/ permit[g] # probe
    <3> SUFFICES ASSUME Leaves(g), probe # NoPermit, permit[g] = probe PROVE FALSE
      OBVIOUS
    <3>1. probe' = NoPermit /\ probe' = probe
      BY <2>1 DEF Finish, FinishTrial, Leaves, LeaveGate, gateVars, probeVars
    <3> QED BY <3>1
  <2> QED BY <2>3, <2>6, <2>7, <2>8, <2>9, GuildStep
<1>4. CASE ~AsksGate(g)
  <2>1. /\ LeaveGate(g) /\ To(g, "top")
        /\ IF Permitted(g) THEN finishOwn(g) ELSE UNCHANGED policyVars
    BY <1>4 DEF Finishes
  <2>2. GatePart(g) /\ permit'[g] = NoPermit /\ pc'[g] = "idle"
    BY <1>1, <2>1 DEF GatePart, Leaves, LeaveGate, GateInv, TypeOK
  <2>3. stage'[g] = "top" /\ stage' \in [Guilds -> Stages] /\ \A d \in Guilds \ {g} : stage'[d] = stage[d]
    BY <2>1, Staged DEF Stages
  <2>4. /\ PolicyTypeOK' /\ PolicyOf(g)' /\ (Undisturbed => ~providerProbe'[g])
        /\ \A d \in Guilds \ {g} : /\ providerBlocked'[d] = providerBlocked[d] /\ providerGlobal'[d] = providerGlobal[d]
                                   /\ providerProbe'[d] = providerProbe[d] /\ providerIncident'[d] = providerIncident[d]
    <3>1. CASE Permitted(g)
      <4>1. finishOwn(g) /\ ~providerGlobal[g]
        BY <1>4, <2>1, <3>1 DEF AsksGate
      <4> QED BY <1>1, <4>1, FinishOwnLocal
    <3>2. CASE ~Permitted(g)
      <4>1. UNCHANGED <<providerBlocked, providerGlobal, providerProbe, providerIncident, ownIncidents>>
        BY <2>1, <3>2 DEF policyVars
      <4> QED BY <1>1, <3>2, <4>1 DEF GuildInv, ProbeOf, PolicyOf, GuildTypeOK, PolicyTypeOK
    <3> QED BY <3>1, <3>2
  <2>5. GuildTypeOK'
    BY <1>1, <1>2, <2>3, <2>4, Retyped DEF GuildTypeOK
  <2>6. Untouched(g)
    BY <1>2, <2>3, <2>4 DEF Untouched, SamePolicy
  <2>7. GuildInv(g)'
    <3>1. Undisturbed => ProbeOf(g)'
      BY <2>2, <2>3, <2>4 DEF ProbeOf
    <3>2. pc'[g] \in PCOf(stage'[g])
      BY <2>2, <2>3, PCOfStage
    <3> QED BY <2>3, <2>4, <3>1, <3>2 DEF GuildInv, Undisturbed
  <2>8. Undisturbed => probe = NoPermit \/ permit[g] # probe
    BY <1>1, <1>4 DEF GuildInv, ProbeOf, AsksGate, Permitted
  <2> QED BY <2>2, <2>5, <2>6, <2>7, <2>8, GuildStep
<1> QED BY <1>3, <1>4

-----------------------------------------------------------------------------
\* The initial state.
LEMMA RecoveryStarts == GuildInit => RecoveryInv
<1> SUFFICES ASSUME GuildInit PROVE RecoveryInv
  OBVIOUS
<1>1. GateInv /\ Carried
  BY InitGateInv DEF GuildInit, Init, Carried
<1>2. incident <= MaxEpoch
  BY AdmissionAssumption DEF GuildInit, Init
<1>3. GuildTypeOK
  <2>1. 0 \in (-MaxIncidents)..MaxEpoch /\ 0 \in 0..MaxIncidents /\ 0 \in (-MaxIncidents)..0 /\ "top" \in Stages
    BY AdmissionAssumption, RecoveryAssumption DEF Stages
  <2> QED BY <2>1 DEF GuildInit, GuildTypeOK
<1>4. ASSUME NEW g \in Guilds PROVE GuildInv(g)
  <2>1. /\ stage[g] = "top" /\ pc[g] = "idle" /\ ~providerBlocked[g] /\ ~providerGlobal[g] /\ ~providerProbe[g]
        /\ providerIncident[g] = 0 /\ permit[g] = NoPermit
    BY <1>4 DEF GuildInit, Init, Guilds
  <2> QED BY <2>1, PCOfStage DEF GuildInv, PolicyOf, ProbeOf
<1> QED BY <1>1, <1>2, <1>3, <1>4 DEF RecoveryInv

\* Time passes at the gate, or nothing happens.
LEMMA StillSteps ==
    ASSUME RecoveryInv, UNCHANGED guildVars, Clock \/ UNCHANGED vars
    PROVE  RecoveryInv'
<1>1. /\ UNCHANGED <<queued, canceled, stage, shared, providerBlocked, providerGlobal, providerProbe,
                     providerIncident, ownIncidents, ownPermit>>
      /\ UNCHANGED <<pc, permit, probe, incident>>
  BY DEF guildVars, Clock, RetryElapses, PaceElapses, vars, gateVars, statusVars, probeVars, callerVars
<1>2. GateInv' /\ (Undisturbed => Carried')
  BY NextGateInv, NextCarried DEF RecoveryInv, Next
<1>3. GuildTypeOK'
  BY <1>1 DEF RecoveryInv, GuildTypeOK
<1>4. \A g \in Guilds : GuildInv(g)'
  BY <1>1 DEF RecoveryInv, GuildInv, PolicyOf, ProbeOf, Permitted, Undisturbed
<1> QED BY <1>1, <1>2, <1>3, <1>4 DEF RecoveryInv, Undisturbed

\* Every step keeps the invariant.
LEMMA RecoveryKeeps == RecoveryInv /\ [GuildNext]_allVars => RecoveryInv'
<1> SUFFICES ASSUME RecoveryInv, [GuildNext]_allVars PROVE RecoveryInv'
  OBVIOUS
<1>1. CASE UNCHANGED allVars
  BY <1>1, StillSteps DEF allVars
<1>2. CASE Clock /\ UNCHANGED guildVars
  BY <1>2, StillSteps
<1>3. ASSUME NEW g \in Guilds, Play(g) \/ Stop(g) \/ Scheduler(g) \/ Attempts(g) \/ Confirms(g)
      PROVE  RecoveryInv'
  BY <1>3, IdleSteps, GateSteps, StopStep, EnterWaitStep, ReturnedStep, OwnTrialStep, SettleSteps, BlocksStep,
     FinishesStep, ConfirmsStep DEF Scheduler
<1> QED BY <1>1, <1>2, <1>3 DEF GuildNext

\* The inductive invariant holds always.
LEMMA RecoveryInvariant == GuildSpec => []RecoveryInv
BY RecoveryStarts, RecoveryKeeps, PTL DEF GuildSpec

\* As long as no member stops a player and waitProvider's look at the gate is current,
\* run(), confirmFrame and the section after play() report every trial they were
\* granted: an outstanding trial has a player that carries its permit, and a player
\* that shows a probe has a permit.
THEOREM TrialHasCarrier == ASSUME ~Stops, ~StaleReads PROVE GuildSpec => []TrialAccounted
<1>1. RecoveryInv => TrialAccounted
  <2> SUFFICES ASSUME RecoveryInv PROVE GuildTypeOK /\ TrialCarried /\ ProbeFlagHonest
    BY DEF TrialAccounted
  <2>1. Undisturbed
    BY DEF Undisturbed
  <2>2. TrialCarried
    BY <2>1 DEF RecoveryInv, Carried, GateInv, PermitInv, TrialCarried, Guilds
  <2>3. ProbeFlagHonest
    BY <2>1 DEF RecoveryInv, GuildInv, ProbeOf, ProbeFlagHonest, Settling
  <2> QED BY <2>2, <2>3 DEF RecoveryInv
<1> QED BY <1>1, RecoveryInvariant, PTL

\* The players never end an incident by themselves: only audio admitted after the
\* incident began does, also when they leave the gate without FinishTrial.
THEOREM GuildsResetByNewMedia == GuildSpec => ResetOnlyByNewMedia
<1> DEFINE Ending == incident # 0 /\ incident' = 0 =>
                        Rearm \/ \E c \in Callers : pc[c] = "run" /\ admitted[c] >= incident
<1>1. RecoveryInv /\ [GuildNext]_allVars => [Ending]_vars
  <2> SUFFICES ASSUME RecoveryInv, GuildNext, incident # 0, incident' = 0, ~Rearm
               PROVE  \E c \in Callers : pc[c] = "run" /\ admitted[c] >= incident
    BY DEF allVars, vars
  <2>1. Next
    <3>1. CASE Clock
      BY <3>1 DEF Next
    <3>2. ASSUME NEW g \in Guilds, Play(g) \/ Stop(g) \/ Scheduler(g) \/ Attempts(g) \/ Confirms(g)
          PROVE  Next
      <4>1. GateStep(g) \/ incident' = incident
        BY <3>2 DEF Play, Stop, Scheduler, Sleep, Wake, StartOpen, Looks, EnterWait, Waits, Returned, OwnTrial, StartTrial,
                    GiveBack, ConfirmSettles, Ended, Observes, Reports, Blocks, Finishes, LeaveGate, Settles, Attempts,
                    Confirms, GateStep, vars, gateVars, statusVars
      <4> QED BY <4>1, GateStepIsNext DEF Guilds
    <3> QED BY <3>1, <3>2 DEF GuildNext
  <2> QED BY <2>1, EndingStep DEF RecoveryInv
<1> QED BY <1>1, RecoveryInvariant, PTL DEF GuildSpec, ResetOnlyByNewMedia

\* What a guild does, it does to the gate in one of four ways.
LEMMA StepHasGatePart ==
    ASSUME RecoveryInv, NEW g \in Guilds, Play(g) \/ Stop(g) \/ Scheduler(g) \/ Attempts(g) \/ Confirms(g)
    PROVE  GatePart(g)
<1>1. CASE Finishes(g)
  <2>1. pc[g] = "done"
    BY <1>1, PCOfStage DEF Finishes, RecoveryInv, GuildInv
  <2> QED BY <1>1, <2>1 DEF Finishes, GatePart, GateStep, Leaves
<1>2. CASE Confirms(g)
  BY <1>2 DEF Confirms, GatePart, GateStep, Flags
<1>3. CASE ~Finishes(g) /\ ~Confirms(g)
  BY <1>3 DEF Play, Stop, Scheduler, Sleep, Wake, StartOpen, Looks, EnterWait, Waits, Returned, OwnTrial, StartTrial,
              GiveBack, ConfirmSettles, Ended, Observes, Reports, Blocks, Settles, Attempts, GatePart, GateStep
<1> QED BY <1>1, <1>2, <1>3

\* A guild that leaves the gate, or only flags a failure, had no part in anybody's sleep.
LEMMA GatePartKeepsSleep ==
    ASSUME GateInv, ParkedForCause, NEW g \in Callers, GatePart(g)
    PROVE  ParkedForCause'
<1>1. CASE GateStep(g) \/ UNCHANGED vars
  BY <1>1, GateStepIsNext, NextKeepsSleep
<1>2. CASE Leaves(g) \/ Flags(g)
  <2>1. Quiet /\ (pc' = [pc EXCEPT ![g] = "idle"] \/ pc' = pc)
    BY <1>2 DEF Leaves, LeaveGate, Flags, gateVars, statusVars, probeVars, Quiet
  <2> QED BY <2>1, MoveKeepsSleep DEF PCs, Guilds
<1> QED BY <1>1, <1>2 DEF GatePart

\* No player sleeps in WaitRecovery past what it waits for, also when others leave the
\* gate without FinishTrial: those are the trials that are never ended, so nobody
\* misses their end.
THEOREM GuildsSleepForCause == GuildSpec => []ParkedForCause
<1>1. GuildInit => ParkedForCause
  BY DEF GuildInit, Init, ParkedForCause, Parked
<1>2. RecoveryInv /\ ParkedForCause /\ [GuildNext]_allVars => ParkedForCause'
  <2> SUFFICES ASSUME RecoveryInv, ParkedForCause, [GuildNext]_allVars PROVE ParkedForCause'
    OBVIOUS
  <2>1. CASE Clock \/ UNCHANGED allVars
    <3>1. [Next]_vars
      BY <2>1 DEF Next, allVars
    <3> QED BY <3>1, NextKeepsSleep DEF RecoveryInv
  <2>2. ASSUME NEW g \in Guilds, Play(g) \/ Stop(g) \/ Scheduler(g) \/ Attempts(g) \/ Confirms(g)
        PROVE  ParkedForCause'
    BY <2>2, StepHasGatePart, GatePartKeepsSleep DEF RecoveryInv, Guilds
  <2> QED BY <2>1, <2>2 DEF GuildNext
<1> QED BY <1>1, <1>2, RecoveryInvariant, PTL DEF GuildSpec

\* Whatever /stop, /leave and stale looks of waitProvider do to one guild, the trials
\* of an incident stay within ProviderRecoveryTrials, a player that is done with an
\* attempt has given its start slot back, and nobody sleeps without a cause; a trial
\* that a /stop left outstanding is one.
THEOREM GateSoundUnderStops == GuildSpec => []SoundUnderStops
<1>1. RecoveryInv => BudgetHonoured /\ NoSlotKept
  <2> SUFFICES ASSUME RecoveryInv PROVE BudgetHonoured /\ NoSlotKept
    OBVIOUS
  <2>1. BudgetHonoured
    BY AdmissionAssumption DEF RecoveryInv, GateInv, TypeOK, BudgetInv, BudgetHonoured
  <2>2. NoSlotKept
    BY PCOfStage DEF RecoveryInv, GuildInv, GateInv, SlotInv, NoSlotKept, Guilds
  <2> QED BY <2>1, <2>2
<1> QED BY <1>1, RecoveryInvariant, GuildsSleepForCause, PTL DEF SoundUnderStops

-----------------------------------------------------------------------------
(***************************************************************************)
(* Players at the breaker.                                                 *)
(***************************************************************************)
\* As long as nobody is stopped, a guild that leaves the gate without FinishTrial does
\* not have the outstanding trial.
LEMMA LeaverHasNoTrial ==
    ASSUME Undisturbed, RecoveryInv, RecoveryInv', NEW g \in Callers, Leaves(g)
    PROVE  probe = NoPermit \/ permit[g] # probe
<1> SUFFICES ASSUME probe # NoPermit, permit[g] = probe PROVE FALSE
  OBVIOUS
<1>1. probe' = probe /\ permit' = [permit EXCEPT ![g] = NoPermit] /\ permit \in [Callers -> Permits]
  BY DEF Leaves, LeaveGate, gateVars, probeVars, RecoveryInv, GateInv, TypeOK
<1>2. PICK c \in Callers : permit'[c] = probe
  BY <1>1 DEF RecoveryInv, Carried, Undisturbed
<1>3. c # g /\ permit[c] = probe
  BY <1>1, <1>2
<1> QED BY <1>3 DEF RecoveryInv, GateInv, PermitInv

\* It is then not seen at the breaker.
LEMMA LeaverIsUnseen ==
    ASSUME GateInv, NEW g \in Callers, Leaves(g), probe = NoPermit \/ permit[g] # probe
    PROVE  UNCHANGED breakerView
<1>1. /\ UNCHANGED <<blocked, probe, probeSpent, failures, probeFailures, incident, spent, epoch>>
      /\ pc[g] = "done" /\ pc' = [pc EXCEPT ![g] = "idle"] /\ pc \in [Callers -> PCs]
      /\ permit' = [permit EXCEPT ![g] = NoPermit] /\ permit \in [Callers -> Permits]
      /\ admitted' = [admitted EXCEPT ![g] = 0] /\ admitted \in [Callers -> Nat]
  BY DEF Leaves, LeaveGate, gateVars, statusVars, probeVars, GateInv, TypeOK
<1>2. BreakerState' = BreakerState /\ CleanSoFar' = CleanSoFar
  BY <1>1 DEF BreakerState, CleanSoFar
<1>3. TrialHolder' = TrialHolder
  BY <1>1 DEF TrialHolder
<1>4. AtProvider' = AtProvider
  BY <1>1 DEF AtProvider
<1>5. Fresh' = Fresh
  BY <1>1 DEF AtProvider, Fresh
<1> QED BY <1>1, <1>2, <1>3, <1>4, <1>5 DEF breakerView

LEMMA GatePartRecent ==
    ASSUME GateInv, Recent, NEW g \in Callers, GatePart(g)
    PROVE  Recent'
<1>1. CASE GateStep(g) \/ UNCHANGED vars
  BY <1>1, GateStepIsNext, NextRecent
<1>2. CASE Flags(g)
  BY <1>2 DEF Flags, Recent, gateVars, probeVars
<1>3. CASE Leaves(g)
  <2>1. UNCHANGED <<epoch, failures, probeFailures>> /\ admitted' = [admitted EXCEPT ![g] = 0]
    BY <1>3 DEF Leaves, LeaveGate, gateVars, probeVars
  <2>2. epoch \in Nat /\ admitted \in [Callers -> Nat]
    BY DEF GateInv, TypeOK
  <2> QED BY <2>1, <2>2 DEF Recent
<1> QED BY <1>1, <1>2, <1>3 DEF GatePart

\* A step of a guild is a step of the breaker or none.
LEMMA GatePartOfBreaker ==
    ASSUME GateInv, Recent, NEW g \in Callers, GatePart(g),
           Leaves(g) => probe = NoPermit \/ permit[g] # probe
    PROVE  Breaker!BreakerNext \/ UNCHANGED breakerView
<1>1. CASE GateStep(g) \/ UNCHANGED vars
  BY <1>1, GateStepIsNext, StepOfBreaker
<1>2. CASE Flags(g)
  <2>1. UNCHANGED <<blocked, probe, probeSpent, permit, failures, probeFailures, incident, spent, epoch, pc, admitted>>
    BY <1>2 DEF Flags, gateVars, statusVars, probeVars
  <2> QED BY <2>1, OutsideIsStutter
<1>3. CASE Leaves(g)
  BY <1>3, LeaverIsUnseen
<1> QED BY <1>1, <1>2, <1>3 DEF GatePart

\* For players that are not stopped and whose looks at the gate are current, the gate
\* is still the circuit breaker: run(), confirmFrame and the section after play() bypass
\* it in no way.  (With /stop they do: the trial of a stopped player is never answered.)
THEOREM GuildsKeepBreaker == ASSUME ~Stops, ~StaleReads PROVE GuildSpec => GateIsBreaker
<1>1. GuildInit => Breaker!BreakerInit /\ Recent
  BY DEF GuildInit, Init, Breaker!BreakerInit, BreakerState, TrialHolder, CleanSoFar, AtProvider, Fresh, Recent
<1>2. RecoveryInv /\ RecoveryInv' /\ Recent /\ [GuildNext]_allVars =>
         Recent' /\ [Breaker!BreakerNext]_(Breaker!breakerVars)
  <2> SUFFICES ASSUME RecoveryInv, RecoveryInv', Recent, [GuildNext]_allVars
               PROVE  Recent' /\ (Breaker!BreakerNext \/ UNCHANGED breakerView)
    BY DEF Breaker!breakerVars, breakerView
  <2>1. CASE Clock \/ UNCHANGED allVars
    <3>1. [Next]_vars
      BY <2>1 DEF Next, allVars
    <3> QED BY <3>1, NextRecent, StepOfBreaker DEF RecoveryInv
  <2>2. ASSUME NEW g \in Guilds, Play(g) \/ Stop(g) \/ Scheduler(g) \/ Attempts(g) \/ Confirms(g)
        PROVE  Recent' /\ (Breaker!BreakerNext \/ UNCHANGED breakerView)
    <3>1. g \in Callers /\ GatePart(g) /\ GateInv
      BY <2>2, StepHasGatePart DEF RecoveryInv, Guilds
    <3>2. Leaves(g) => probe = NoPermit \/ permit[g] # probe
      BY <3>1, LeaverHasNoTrial DEF Undisturbed
    <3> QED BY <3>1, <3>2, GatePartRecent, GatePartOfBreaker
  <2> QED BY <2>1, <2>2 DEF GuildNext
<1> QED BY <1>1, <1>2, RecoveryInvariant, PTL DEF GuildSpec, GateIsBreaker, Breaker!BreakerSpec
=============================================================================
