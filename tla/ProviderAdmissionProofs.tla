---------------------- MODULE ProviderAdmissionProofs ----------------------
(***************************************************************************)
(* Proofs about the YouTube gate, for any number of callers, slots and     *)
(* trials.  The inductive invariant IInv adds to the properties of         *)
(* ProviderAdmission what makes a reissued permit harmless: every permit   *)
(* in circulation is carried by one caller, belongs to an incident that    *)
(* has begun, and is numbered within the attempts of the running incident. *)
(* Its part GateInv does not need callers that report their trial, and is  *)
(* used again in ProviderRecoveryProofs for players that may be stopped.   *)
(***************************************************************************)
EXTENDS ProviderAdmission, TLAPS, FiniteSetTheorems

\* What the outstanding trial and the incident say of each other.
ProbeInv ==
    /\ blocked => incident # 0
    /\ incident <= epoch
    /\ probe # NoPermit =>
          /\ blocked
          /\ probe = <<incident, attempts>>
          /\ attempts >= 1

\* Every permit in circulation, outstanding or not, has one carrier.
PermitInv ==
    /\ \A c \in Callers : permit[c] # NoPermit =>
          /\ Live(c)
          /\ permit[c][1] \in 1..epoch
          /\ permit[c][1] = incident => permit[c][2] <= attempts
    /\ \A c, d \in Callers : permit[c] # NoPermit /\ permit[c] = permit[d] => c = d

\* A granted trial that has not reached the provider still has its share of the budget.
BudgetInv ==
    /\ spent <= attempts
    /\ probe # NoPermit /\ ~probeSpent => spent + 1 <= attempts

SlotInv ==
    /\ \A c \in Callers : hold[c] => pc[c] \in {"slot", "run"}
    /\ SlotsAccounted

GateInv == TypeOK /\ ProbeInv /\ PermitInv /\ BudgetInv /\ ExhaustionExact /\ SlotInv

\* Whoever was given the outstanding trial still has it.
Carried == probe # NoPermit => \E c \in Callers : permit[c] = probe

IInv == GateInv /\ Carried
-----------------------------------------------------------------------------
\* Taking and returning a token moves the count by one.
LEMMA HoldersCount ==
    ASSUME hold \in [Callers -> BOOLEAN], NEW c \in Callers
    PROVE  LET H(f) == {d \in Callers : f[d]} IN
           /\ IsFiniteSet(H(hold))
           /\ Cardinality(H(hold)) \in Nat
           /\ ~hold[c] => Cardinality(H([hold EXCEPT ![c] = TRUE])) = Cardinality(H(hold)) + 1
           /\ hold[c] => Cardinality(H([hold EXCEPT ![c] = FALSE])) = Cardinality(H(hold)) - 1
           /\ hold[c] => Cardinality(H(hold)) >= 1
<1> DEFINE H(f) == {d \in Callers : f[d]}
<1>1. IsFiniteSet(H(hold)) /\ Cardinality(H(hold)) \in Nat
  BY AdmissionAssumption, FS_Subset, FS_CardinalityType
<1>2. ~hold[c] => Cardinality(H([hold EXCEPT ![c] = TRUE])) = Cardinality(H(hold)) + 1
  <2> SUFFICES ASSUME ~hold[c] PROVE Cardinality(H([hold EXCEPT ![c] = TRUE])) = Cardinality(H(hold)) + 1
    OBVIOUS
  <2>1. H([hold EXCEPT ![c] = TRUE]) = H(hold) \cup {c} /\ c \notin H(hold)
    OBVIOUS
  <2> QED BY <1>1, <2>1, FS_AddElement
<1>3. hold[c] => Cardinality(H([hold EXCEPT ![c] = FALSE])) = Cardinality(H(hold)) - 1
  <2> SUFFICES ASSUME hold[c] PROVE Cardinality(H([hold EXCEPT ![c] = FALSE])) = Cardinality(H(hold)) - 1
    OBVIOUS
  <2>1. H([hold EXCEPT ![c] = FALSE]) = H(hold) \ {c} /\ c \in H(hold)
    OBVIOUS
  <2> QED BY <1>1, <2>1, FS_RemoveElement
<1>4. hold[c] => Cardinality(H(hold)) >= 1
  <2> SUFFICES ASSUME hold[c], Cardinality(H(hold)) = 0 PROVE FALSE
    BY <1>1
  <2>1. H(hold) = {}
    BY <1>1, FS_EmptySet
  <2> QED BY <2>1
<1> QED BY <1>1, <1>2, <1>3, <1>4

\* Waking the parked callers keeps the type of pc and moves nobody who is past WaitRecovery.
LEMMA NotifiedFacts ==
    ASSUME NEW f \in [Callers -> PCs]
    PROVE  /\ Notified(f) \in [Callers -> PCs]
           /\ \A c \in Callers : f[c] \in {"idle", "wait", "admit", "slot", "run", "done"} => Notified(f)[c] = f[c]
           /\ \A c \in Callers : f[c] \in {"parked", "timed"} => Notified(f)[c] = "wait"
BY DEF Notified, PCs

\* Permits are pairs of numbers.
LEMMA PermitFacts ==
    /\ NoPermit \in Permits
    /\ \A i, j \in Nat : <<i, j>> \in Permits
    /\ \A p \in Permits : p[1] \in Nat /\ p[2] \in Nat /\ p = <<p[1], p[2]>>
BY DEF NoPermit, Permits

\* The gate of NewProviderAdmission satisfies the invariant.
LEMMA InitGateInv == Init => GateInv
<1> SUFFICES ASSUME Init PROVE GateInv
  OBVIOUS
<1>1. TypeOK
  <2>1. probe \in Permits /\ permit \in [Callers -> Permits]
    BY PermitFacts DEF Init
  <2>2. pc \in [Callers -> PCs] /\ err \in [Callers -> Outcomes]
    BY DEF Init, PCs, Outcomes, Ends
  <2>3. hold \in [Callers -> BOOLEAN] /\ confirmed \in [Callers -> BOOLEAN] /\ admitted \in [Callers -> Nat]
    BY DEF Init
  <2>4. attempts \in 0..Trials /\ slots \in 0..Concurrency
    BY AdmissionAssumption DEF Init
  <2> QED BY <2>1, <2>2, <2>3, <2>4 DEF Init, TypeOK
<1>2. ProbeInv /\ PermitInv /\ BudgetInv /\ ExhaustionExact
  BY AdmissionAssumption DEF Init, ProbeInv, PermitInv, BudgetInv, ExhaustionExact, NoPermit
<1>3. SlotInv
  <2>1. {c \in Callers : hold[c]} = {}
    BY DEF Init
  <2>2. Cardinality({c \in Callers : hold[c]}) = 0
    BY <2>1, FS_EmptySet
  <2> QED BY <2>2 DEF Init, SlotInv, SlotsAccounted
<1> QED BY <1>1, <1>2, <1>3 DEF GateInv

-----------------------------------------------------------------------------
(***************************************************************************)
(* The part of a step that moves callers only: no gate variable changes,   *)
(* and no caller that carries a permit or a token loses its place.         *)
(***************************************************************************)
LEMMA CallerStep ==
    ASSUME GateInv, NEW c \in Callers, UNCHANGED <<gateVars, permit, hold, confirmed>>,
           NEW to \in PCs, pc' = [pc EXCEPT ![c] = to],
           permit[c] # NoPermit => to \in {"admit", "slot", "run", "done"},
           ~hold[c],
           admitted' \in [Callers -> Nat], err' \in [Callers -> Outcomes]
    PROVE  GateInv'
<1>1. TypeOK'
  BY DEF GateInv, TypeOK, gateVars, statusVars, probeVars
<1>2. ProbeInv'
  BY DEF GateInv, ProbeInv, gateVars, statusVars, probeVars
<1>3. PermitInv'
  BY DEF GateInv, TypeOK, PermitInv, Live, gateVars, statusVars, probeVars
<1>4. BudgetInv' /\ ExhaustionExact'
  BY DEF GateInv, BudgetInv, ExhaustionExact, gateVars, statusVars, probeVars
<1>5. SlotInv'
  BY DEF GateInv, TypeOK, SlotInv, SlotsAccounted, gateVars
<1> QED BY <1>1, <1>2, <1>3, <1>4, <1>5 DEF GateInv

\* A caller outside WaitRecovery..FinishTrial carries neither a permit nor a token.
LEMMA OutsideCarriesNothing ==
    ASSUME GateInv, NEW c \in Callers, pc[c] \in {"idle", "wait", "parked", "timed"}
    PROVE  permit[c] = NoPermit /\ ~hold[c]
BY DEF GateInv, PermitInv, SlotInv, Live

\* Entering and leaving WaitRecovery, and calling Admit, move one caller and nothing else.
LEMMA SimpleSteps ==
    ASSUME GateInv, NEW c \in Callers,
           CallWaitRecovery(c) \/ PassOpenGate(c) \/ Park(c) \/ Tick(c) \/ CancelWait(c) \/ CallAdmit(c)
    PROVE  GateInv'
<1>1. PICK to \in PCs : pc' = [pc EXCEPT ![c] = to]
  BY DEF CallWaitRecovery, PassOpenGate, Park, Tick, CancelWait, CallAdmit, PCs
<1>2. UNCHANGED <<gateVars, permit, hold, confirmed, admitted, err>>
  BY DEF CallWaitRecovery, PassOpenGate, Park, Tick, CancelWait, CallAdmit
<1>3. permit[c] = NoPermit /\ ~hold[c]
  BY OutsideCarriesNothing DEF CallWaitRecovery, PassOpenGate, Park, Tick, CancelWait, CallAdmit, Parked
<1>4. admitted' \in [Callers -> Nat] /\ err' \in [Callers -> Outcomes]
  BY <1>2 DEF GateInv, TypeOK
<1> QED BY <1>1, <1>2, <1>3, <1>4, CallerStep

\* A caller goes on to its next extraction with the same permit.
LEMMA NextExtractionStep ==
    ASSUME GateInv, NEW c \in Callers, NextExtraction(c)
    PROVE  GateInv'
<1>1. ~hold[c]
  BY DEF GateInv, SlotInv, NextExtraction
<1>2. admitted' \in [Callers -> Nat] /\ err' \in [Callers -> Outcomes]
  BY DEF GateInv, TypeOK, NextExtraction, Outcomes, Ends
<1>3. "admit" \in PCs
  BY DEF PCs
<1> QED BY <1>1, <1>2, <1>3, CallerStep DEF NextExtraction

\* WaitRecovery grants a trial: the new permit is nobody else's.
LEMMA GrantTrialStep ==
    ASSUME GateInv, NEW c \in Callers, GrantTrial(c)
    PROVE  GateInv'
<1>1. permit[c] = NoPermit /\ ~hold[c]
  BY OutsideCarriesNothing DEF GrantTrial
<1>2. TypeOK'
  <2>1. <<incident, attempts + 1>> \in Permits /\ attempts' \in 0..Trials
    BY AdmissionAssumption, PermitFacts DEF GateInv, TypeOK, GrantTrial, Eligible
  <2> QED BY <2>1 DEF GateInv, TypeOK, GrantTrial, PCs
<1>3. ProbeInv'
  BY DEF GateInv, TypeOK, ProbeInv, GrantTrial, NoPermit
<1>4. PermitInv'
  <2>1. permit'[c] = <<incident, attempts + 1>> /\ Live(c)'
    BY DEF GateInv, TypeOK, GrantTrial, Live
  <2>2. incident \in 1..epoch
    BY DEF GateInv, TypeOK, ProbeInv, GrantTrial
  <2>3. \A d \in Callers : d # c => permit'[d] = permit[d] /\ pc'[d] = pc[d]
    BY DEF GateInv, TypeOK, GrantTrial
  <2>4. \A d \in Callers : d # c => permit[d] # permit'[c]
    BY <2>1, <2>2 DEF GateInv, TypeOK, PermitInv, NoPermit
  <2>5. attempts \in Nat /\ attempts' = attempts + 1 /\ UNCHANGED <<incident, epoch>>
    BY DEF GateInv, TypeOK, GrantTrial
  <2>6. \A d \in Callers : permit'[d] # NoPermit =>
            /\ Live(d)'
            /\ permit'[d][1] \in 1..epoch'
            /\ permit'[d][1] = incident' => permit'[d][2] <= attempts'
    <3> SUFFICES ASSUME NEW d \in Callers, permit'[d] # NoPermit, d # c
                 PROVE  /\ Live(d)'
                        /\ permit'[d][1] \in 1..epoch'
                        /\ permit'[d][1] = incident' => permit'[d][2] <= attempts'
      BY <2>1, <2>2, <2>5
    <3> QED BY <2>3, <2>5, PermitFacts DEF GateInv, TypeOK, PermitInv, Live
  <2>7. \A d, e \in Callers : permit'[d] # NoPermit /\ permit'[d] = permit'[e] => d = e
    BY <2>3, <2>4 DEF GateInv, PermitInv
  <2> QED BY <2>6, <2>7 DEF PermitInv
<1>5. BudgetInv' /\ ExhaustionExact'
  BY <1>3 DEF GateInv, TypeOK, BudgetInv, ExhaustionExact, GrantTrial, ProbeInv, NoPermit
<1>6. SlotInv'
  BY <1>1 DEF GateInv, TypeOK, SlotInv, SlotsAccounted, GrantTrial
<1> QED BY <1>2, <1>3, <1>4, <1>5, <1>6 DEF GateInv

\* Admit takes a slot.
LEMMA TakeSlotStep ==
    ASSUME GateInv, NEW c \in Callers, TakeSlot(c)
    PROVE  GateInv'
<1>1. ~hold[c]
  BY DEF GateInv, SlotInv, TakeSlot
<1>2. TypeOK'
  BY AdmissionAssumption DEF GateInv, TypeOK, TakeSlot, PCs, statusVars, probeVars
<1>3. ProbeInv' /\ BudgetInv' /\ ExhaustionExact'
  BY DEF GateInv, ProbeInv, BudgetInv, ExhaustionExact, TakeSlot, statusVars, probeVars
<1>4. PermitInv'
  BY DEF GateInv, TypeOK, PermitInv, TakeSlot, Live, statusVars, probeVars
<1>5. SlotInv'
  <2>1. Cardinality({d \in Callers : hold'[d]}) = Cardinality({d \in Callers : hold[d]}) + 1
    BY <1>1, HoldersCount DEF GateInv, TypeOK, TakeSlot
  <2> QED BY <2>1 DEF GateInv, TypeOK, SlotInv, SlotsAccounted, TakeSlot
<1> QED BY <1>2, <1>3, <1>4, <1>5 DEF GateInv

\* After release() the tokens still match their holders, and c holds none.
LEMMA ReleaseCount ==
    ASSUME GateInv, NEW c \in Callers, Release(c)
    PROVE  /\ slots' \in 0..Concurrency
           /\ hold' \in [Callers -> BOOLEAN]
           /\ SlotsAccounted'
           /\ ~hold'[c]
           /\ \A d \in Callers : d # c => hold'[d] = hold[d]
<1>1. hold' \in [Callers -> BOOLEAN] /\ ~hold'[c] /\ \A d \in Callers : d # c => hold'[d] = hold[d]
  BY DEF GateInv, TypeOK, Release
<1>2. CASE hold[c]
  <2>1. /\ Cardinality({d \in Callers : hold'[d]}) = Cardinality({d \in Callers : hold[d]}) - 1
        /\ Cardinality({d \in Callers : hold[d]}) >= 1
    BY <1>2, HoldersCount DEF GateInv, TypeOK, Release
  <2> QED BY <1>1, <1>2, <2>1, AdmissionAssumption DEF GateInv, TypeOK, SlotInv, SlotsAccounted, Release
<1>3. CASE ~hold[c]
  <2>1. hold' = hold
    BY <1>3 DEF GateInv, TypeOK, Release
  <2> QED BY <1>1, <1>3, <2>1, AdmissionAssumption DEF GateInv, TypeOK, SlotInv, SlotsAccounted, Release
<1> QED BY <1>2, <1>3

\* Admit fails: the slot, if taken, is returned.
LEMMA AdmitFailsStep ==
    ASSUME GateInv, NEW c \in Callers, AdmitFails(c)
    PROVE  GateInv'
<1>0. /\ pc[c] \in {"admit", "slot"} /\ pc' = [pc EXCEPT ![c] = "done"]
      /\ UNCHANGED <<statusVars, probeVars, paced, permit, admitted, confirmed>>
      /\ Release(c)
      /\ err' \in [Callers -> Outcomes]
  BY DEF GateInv, TypeOK, AdmitFails, Outcomes, Ends
<1>1. TypeOK'
  BY <1>0, ReleaseCount DEF GateInv, TypeOK, PCs, statusVars, probeVars
<1>2. ProbeInv' /\ BudgetInv' /\ ExhaustionExact'
  BY <1>0 DEF GateInv, ProbeInv, BudgetInv, ExhaustionExact, statusVars, probeVars
<1>3. PermitInv'
  BY <1>0 DEF GateInv, TypeOK, PermitInv, Live, statusVars, probeVars
<1>4. SlotInv'
  BY <1>0, ReleaseCount DEF GateInv, TypeOK, SlotInv
<1> QED BY <1>1, <1>2, <1>3, <1>4 DEF GateInv

\* Admit succeeds: a trial that starts is spent once.
LEMMA AdmitStartStep ==
    ASSUME GateInv, NEW c \in Callers, AdmitStart(c)
    PROVE  GateInv'
<1>0. /\ UNCHANGED <<statusVars, epoch, probe, failures, probeFailures, slots, permit, hold, confirmed, err>>
      /\ pc[c] = "slot" /\ pc' = [pc EXCEPT ![c] = "run"]
      /\ probeSpent' \in BOOLEAN /\ spent' \in {spent, spent + 1}
      /\ paced' = TRUE /\ admitted' = [admitted EXCEPT ![c] = epoch]
      /\ spent' # spent => probe # NoPermit /\ ~probeSpent /\ probeSpent'
      /\ probeSpent => probeSpent'
  BY DEF GateInv, TypeOK, AdmitStart
<1>1. TypeOK'
  BY <1>0 DEF GateInv, TypeOK, PCs, statusVars
<1>2. ProbeInv' /\ ExhaustionExact'
  BY <1>0 DEF GateInv, ProbeInv, ExhaustionExact, statusVars
<1>3. PermitInv'
  BY <1>0 DEF GateInv, TypeOK, PermitInv, Live, statusVars
<1>4. BudgetInv'
  BY <1>0 DEF GateInv, TypeOK, BudgetInv, statusVars
<1>5. SlotInv'
  BY <1>0 DEF GateInv, TypeOK, SlotInv, SlotsAccounted
<1> QED BY <1>1, <1>2, <1>3, <1>4, <1>5 DEF GateInv

\* The first frame returns the slot.
LEMMA FirstFrameStep ==
    ASSUME GateInv, NEW c \in Callers, FirstFrame(c)
    PROVE  GateInv'
<1>1. TypeOK'
  BY ReleaseCount DEF GateInv, TypeOK, FirstFrame, statusVars, probeVars
<1>2. ProbeInv' /\ BudgetInv' /\ ExhaustionExact'
  BY DEF GateInv, ProbeInv, BudgetInv, ExhaustionExact, FirstFrame, statusVars, probeVars
<1>3. PermitInv'
  BY DEF GateInv, PermitInv, Live, FirstFrame, statusVars, probeVars
<1>4. SlotInv'
  BY ReleaseCount DEF GateInv, SlotInv, FirstFrame
<1> QED BY <1>1, <1>2, <1>3, <1>4 DEF GateInv

-----------------------------------------------------------------------------
(***************************************************************************)
(* Steps that change the status of the breaker.                            *)
(***************************************************************************)
LEMMA ResetFacts ==
    ASSUME GateInv, ResetStatus, probe' = NoPermit, pc' = Notified(pc),
           UNCHANGED <<probeSpent, failures, probeFailures, paced, slots, permit, hold, admitted, confirmed, err>>
    PROVE  GateInv'
<1>1. TypeOK'
  <2>1. probe' \in Permits /\ pc' \in [Callers -> PCs]
    BY PermitFacts, NotifiedFacts DEF GateInv, TypeOK
  <2>2. epoch' \in Nat /\ attempts' \in 0..Trials /\ incident' \in Nat /\ spent' \in Nat
    BY AdmissionAssumption DEF GateInv, TypeOK, ResetStatus
  <2>3. blocked' \in BOOLEAN /\ exhausted' \in BOOLEAN /\ retryDue' \in BOOLEAN
    BY DEF ResetStatus
  <2> QED BY <2>1, <2>2, <2>3 DEF GateInv, TypeOK
<1>2. ProbeInv' /\ BudgetInv' /\ ExhaustionExact'
  BY DEF GateInv, TypeOK, ProbeInv, BudgetInv, ExhaustionExact, ResetStatus
<1>3. PermitInv'
  <2>1. \A d \in Callers : Live(d) => Live(d)'
    BY NotifiedFacts DEF GateInv, TypeOK, Live
  <2>2. \A d \in Callers : permit[d] # NoPermit => permit[d][1] \in 1..epoch' /\ permit[d][1] # incident'
    BY DEF GateInv, TypeOK, PermitInv, ResetStatus
  <2> QED BY <2>1, <2>2 DEF GateInv, PermitInv
<1>4. SlotInv'
  BY NotifiedFacts DEF GateInv, TypeOK, SlotInv, SlotsAccounted
<1> QED BY <1>1, <1>2, <1>3, <1>4 DEF GateInv

\* What a reported failure does, whoever reports it.
LEMMA ObserveStep ==
    ASSUME GateInv, ObserveFailure, UNCHANGED <<paced, permit, admitted, confirmed>>,
           err' \in [Callers -> Outcomes], pc' \in [Callers -> PCs],
           \A d \in Callers : Live(d) => Live(d)',
           slots' \in 0..Concurrency, hold' \in [Callers -> BOOLEAN], SlotInv'
    PROVE  GateInv'
<1>0. UNCHANGED <<probe, probeSpent, probeFailures>>
  BY DEF ObserveFailure
<1>1. /\ epoch' \in Nat /\ incident' \in Nat /\ attempts' \in 0..Trials /\ spent' \in Nat
      /\ incident' # 0 /\ incident' <= epoch' /\ epoch <= epoch'
      /\ exhausted' \in BOOLEAN /\ (exhausted' <=> attempts' >= Trials)
      /\ blocked' = TRUE /\ retryDue' \in BOOLEAN /\ failures' \in Nat
  <2>1. epoch' \in Nat /\ incident' \in Nat /\ attempts' \in 0..Trials /\ spent' \in Nat
    BY AdmissionAssumption DEF GateInv, TypeOK, ObserveFailure
  <2>2. incident' # 0 /\ incident' <= epoch' /\ epoch <= epoch' /\ failures' \in Nat
    BY DEF GateInv, TypeOK, ProbeInv, ObserveFailure
  <2>3. exhausted' = (attempts' >= Trials) /\ retryDue' = (retryDue /\ blocked) /\ blocked' = TRUE
    BY DEF ObserveFailure
  <2>4. exhausted' \in BOOLEAN
    BY <2>1, <2>3
  <2>5. exhausted' <=> attempts' >= Trials
    BY <2>1, <2>3
  <2>6. retryDue' \in BOOLEAN
    BY <2>3
  <2> QED BY <2>1, <2>2, <2>3, <2>4, <2>5, <2>6
<1>2. CASE incident = 0
  <2>1. probe = NoPermit
    BY <1>2 DEF GateInv, ProbeInv
  <2>2. attempts' = 0 /\ spent' = 0 /\ incident' = epoch + 1 /\ epoch' = epoch + 1
    BY <1>2 DEF ObserveFailure
  <2>3. TypeOK'
    BY <1>0, <1>1 DEF GateInv, TypeOK
  <2>4. ProbeInv' /\ BudgetInv'
    BY <1>0, <1>1, <2>1, <2>2 DEF ProbeInv, BudgetInv
  <2>6. ExhaustionExact'
    BY <1>1 DEF ExhaustionExact
  <2>5. PermitInv'
    <3>1. \A d \in Callers : permit[d] # NoPermit => permit[d][1] \in 1..epoch' /\ permit[d][1] # incident'
      BY <2>2 DEF GateInv, TypeOK, PermitInv
    <3> QED BY <3>1 DEF GateInv, PermitInv
  <2> QED BY <2>3, <2>4, <2>5, <2>6 DEF GateInv
<1>3. CASE incident # 0
  <2>1. UNCHANGED <<epoch, incident, attempts, spent>>
    BY <1>3 DEF ObserveFailure
  <2>2. TypeOK'
    BY <1>0, <1>1 DEF GateInv, TypeOK
  <2>3. ProbeInv'
    BY <1>0, <1>1, <2>1 DEF GateInv, ProbeInv
  <2>4. BudgetInv' /\ ExhaustionExact'
    BY <1>0, <1>1, <2>1 DEF GateInv, BudgetInv, ExhaustionExact
  <2>5. PermitInv'
    BY <1>0, <2>1 DEF GateInv, PermitInv
  <2> QED BY <2>2, <2>3, <2>4, <2>5 DEF GateInv
<1> QED BY <1>2, <1>3

\* The operation of an admitted caller ends.
LEMMA ExitStep ==
    ASSUME GateInv, NEW c \in Callers, NEW o \in Ends, Exit(c, o)
    PROVE  GateInv'
<1>0. /\ pc[c] = "run" /\ Release(c)
      /\ UNCHANGED <<paced, permit, admitted, confirmed, probe, probeSpent, probeFailures>>
      /\ err' \in [Callers -> Outcomes]
      /\ pc' \in [Callers -> PCs] /\ pc'[c] = "done"
      /\ \A d \in Callers : Live(d) => Live(d)'
      /\ \A d \in Callers : d # c /\ pc[d] \in {"slot", "run"} => pc'[d] = pc[d]
  <2>1. pc' = [pc EXCEPT ![c] = "done"] \/ pc' = [Notified(pc) EXCEPT ![c] = "done"]
    BY DEF Exit
  <2>2. pc \in [Callers -> PCs] /\ Notified(pc) \in [Callers -> PCs] /\ "done" \in PCs
    BY NotifiedFacts DEF GateInv, TypeOK, PCs
  <2>3. pc' \in [Callers -> PCs] /\ pc'[c] = "done"
    BY <2>1, <2>2
  <2>4. \A d \in Callers : Live(d) => Live(d)'
    BY <2>1, <2>2, NotifiedFacts DEF Live
  <2>5. \A d \in Callers : d # c /\ pc[d] \in {"slot", "run"} => pc'[d] = pc[d]
    BY <2>1, <2>2, NotifiedFacts
  <2>6. err' \in [Callers -> Outcomes]
    BY DEF Exit, GateInv, TypeOK, Outcomes, Ends
  <2> QED BY <2>3, <2>4, <2>5, <2>6 DEF Exit, ObserveFailure, probeVars
<1>1. SlotInv'
  BY <1>0, ReleaseCount DEF GateInv, SlotInv
<1>2. CASE o # "global"
  <2>0. UNCHANGED <<statusVars, probeVars>>
    BY <1>2 DEF Exit
  <2>1. TypeOK'
    BY <1>0, <2>0, ReleaseCount DEF GateInv, TypeOK, statusVars, probeVars
  <2>2. ProbeInv' /\ BudgetInv' /\ ExhaustionExact'
    BY <1>0, <2>0 DEF GateInv, ProbeInv, BudgetInv, ExhaustionExact, statusVars, probeVars
  <2>3. PermitInv'
    BY <1>0, <2>0 DEF GateInv, PermitInv, statusVars, probeVars
  <2> QED BY <1>1, <2>1, <2>2, <2>3 DEF GateInv
<1>3. CASE o = "global"
  BY <1>0, <1>1, <1>3, ReleaseCount, ObserveStep DEF Exit
<1> QED BY <1>2, <1>3

\* observeProviderLocked after the operation.
LEMMA ObserveLateStep ==
    ASSUME GateInv, NEW c \in Callers, ObserveLate(c)
    PROVE  GateInv'
<1>1. pc' \in [Callers -> PCs] /\ \A d \in Callers : Live(d) => Live(d)'
  BY NotifiedFacts DEF GateInv, TypeOK, ObserveLate, Live
<1>2. SlotInv'
  BY NotifiedFacts DEF GateInv, TypeOK, SlotInv, SlotsAccounted, ObserveLate
<1>3. slots' \in 0..Concurrency /\ hold' \in [Callers -> BOOLEAN] /\ err' \in [Callers -> Outcomes]
  BY DEF GateInv, TypeOK, ObserveLate
<1> QED BY <1>1, <1>2, <1>3, ObserveStep DEF ObserveLate

\* FinishTrial in the hands of the trial's carrier: what it does to the status.
LEMMA EndTrialFacts ==
    ASSUME GateInv, NEW c \in Callers, NEW o \in Outcomes,
           probe # NoPermit, permit[c] = probe, EndTrial(o)
    PROVE  /\ blocked' \in BOOLEAN /\ exhausted' \in BOOLEAN /\ retryDue' \in BOOLEAN
           /\ incident' = incident /\ (blocked' => incident # 0)
           /\ attempts' \in 0..Trials /\ attempts' \in {attempts - 1, attempts}
           /\ spent <= attempts'
           /\ blocked' => (exhausted' <=> attempts' >= Trials)
           /\ o # "canceled" => attempts' = attempts
<1>1. probe = <<incident, attempts>> /\ attempts >= 1 /\ blocked /\ incident # 0
  BY DEF GateInv, ProbeInv
<1>2. CASE o = "ok" /\ failures = probeFailures
  BY <1>1, <1>2 DEF GateInv, TypeOK, BudgetInv, EndTrial
<1>3. CASE ~(o = "ok" /\ failures = probeFailures)
  <2>1. /\ attempts' = IF Refunded(o) THEN attempts - 1 ELSE attempts
        /\ retryDue' = FALSE /\ exhausted' = (attempts' >= Trials)
        /\ UNCHANGED <<blocked, incident>>
    BY <1>3 DEF EndTrial
  <2>2. blocked' \in BOOLEAN /\ retryDue' \in BOOLEAN /\ incident' = incident
    BY <2>1 DEF GateInv, TypeOK
  <2>3. exhausted' \in BOOLEAN
    BY <2>1
  <2>5. exhausted' <=> attempts' >= Trials
    BY <2>1
  <2>4. /\ attempts' \in 0..Trials /\ attempts' \in {attempts - 1, attempts}
        /\ spent <= attempts' /\ (o # "canceled" => attempts' = attempts)
    <3>1. CASE Refunded(o)
      BY <1>1, <2>1, <3>1, AdmissionAssumption DEF GateInv, TypeOK, BudgetInv, Refunded
    <3>2. CASE ~Refunded(o)
      BY <1>1, <2>1, <3>2, AdmissionAssumption DEF GateInv, TypeOK, BudgetInv
    <3> QED BY <3>1, <3>2
  <2> QED BY <1>1, <2>2, <2>3, <2>4, <2>5
<1> QED BY <1>2, <1>3

\* The caller reports its trial and drops its permit.
LEMMA FinishStep ==
    ASSUME GateInv, NEW c \in Callers, Finish(c)
    PROVE  GateInv'
<1>0. /\ pc[c] = "done" /\ pc' \in [Callers -> PCs] /\ pc'[c] = "idle"
      /\ permit' = [permit EXCEPT ![c] = NoPermit]
      /\ \A d \in Callers : d # c /\ Live(d) => Live(d)'
      /\ \A d \in Callers : d # c /\ pc[d] \in {"slot", "run"} => pc'[d] = pc[d]
      /\ UNCHANGED <<epoch, probeSpent, failures, probeFailures, spent, paced, slots, hold>>
  <2>1. pc' = [pc EXCEPT ![c] = "idle"] \/ pc' = [Notified(pc) EXCEPT ![c] = "idle"]
    BY DEF Finish
  <2>2. pc \in [Callers -> PCs] /\ Notified(pc) \in [Callers -> PCs] /\ "idle" \in PCs
    BY NotifiedFacts DEF GateInv, TypeOK, PCs
  <2>3. pc' \in [Callers -> PCs] /\ pc'[c] = "idle"
    BY <2>1, <2>2
  <2>4. \A d \in Callers : d # c /\ Live(d) => Live(d)'
    BY <2>1, <2>2, NotifiedFacts DEF Live
  <2>5. \A d \in Callers : d # c /\ pc[d] \in {"slot", "run"} => pc'[d] = pc[d]
    BY <2>1, <2>2, NotifiedFacts
  <2> QED BY <2>3, <2>4, <2>5 DEF Finish
<1>1. /\ permit' \in [Callers -> Permits] /\ permit'[c] = NoPermit
      /\ \A d \in Callers : d # c => permit'[d] = permit[d]
  BY <1>0, PermitFacts DEF GateInv, TypeOK
<1>2. /\ admitted' \in [Callers -> Nat] /\ confirmed' \in [Callers -> BOOLEAN] /\ err' \in [Callers -> Outcomes]
      /\ err[c] \in Outcomes
  BY DEF GateInv, TypeOK, Finish, Outcomes, Ends
<1>3. SlotInv'
  BY <1>0 DEF GateInv, SlotInv, SlotsAccounted
<1>4. CASE probe # NoPermit /\ permit[c] = probe
  <2>0. EndTrial(err[c]) /\ probe' = NoPermit
    BY <1>4 DEF Finish, FinishTrial
  <2>1. TypeOK'
    BY <1>0, <1>1, <1>2, <1>4, <2>0, EndTrialFacts, PermitFacts DEF GateInv, TypeOK
  <2>2. ProbeInv' /\ BudgetInv' /\ ExhaustionExact'
    BY <1>0, <1>2, <1>4, <2>0, EndTrialFacts DEF GateInv, TypeOK, ProbeInv, BudgetInv, ExhaustionExact
  <2>3. PermitInv'
    <3>1. \A d \in Callers : d # c /\ permit[d] # NoPermit /\ permit[d][1] = incident
              => permit[d][2] <= attempts'
      <4> SUFFICES ASSUME NEW d \in Callers, d # c, permit[d] # NoPermit, permit[d][1] = incident
                   PROVE  permit[d][2] <= attempts - 1 /\ permit[d][2] <= attempts
        BY <1>2, <1>4, <2>0, EndTrialFacts
      <4>1. probe = <<incident, attempts>> /\ permit[d] # probe /\ permit[d][2] <= attempts
        BY <1>4 DEF GateInv, ProbeInv, PermitInv
      <4>2. permit[d] = <<permit[d][1], permit[d][2]>> /\ permit[d][2] \in Nat /\ attempts \in Nat
        BY PermitFacts DEF GateInv, TypeOK
      <4>3. permit[d][2] # attempts
        BY <4>1, <4>2
      <4> QED BY <4>1, <4>2, <4>3
    <3>2. incident' = incident
      BY <1>2, <1>4, <2>0, EndTrialFacts
    <3> QED BY <1>0, <1>1, <3>1, <3>2 DEF GateInv, PermitInv
  <2> QED BY <1>3, <2>1, <2>2, <2>3 DEF GateInv
<1>5. CASE ~(probe # NoPermit /\ permit[c] = probe)
  <2>0. UNCHANGED <<statusVars, probe>>
    BY <1>5 DEF Finish, FinishTrial
  <2>1. TypeOK'
    BY <1>0, <1>1, <1>2, <2>0 DEF GateInv, TypeOK, statusVars
  <2>2. ProbeInv' /\ BudgetInv' /\ ExhaustionExact'
    BY <1>0, <1>1, <1>5, <2>0 DEF GateInv, ProbeInv, BudgetInv, ExhaustionExact, statusVars
  <2>3. PermitInv'
    BY <1>0, <1>1, <2>0 DEF GateInv, PermitInv, statusVars
  <2> QED BY <1>3, <2>1, <2>2, <2>3 DEF GateInv
<1> QED BY <1>4, <1>5

\* Five seconds of audio report the trial while it still runs.
LEMMA ConfirmTrialStep ==
    ASSUME GateInv, NEW c \in Callers, ConfirmTrial(c)
    PROVE  GateInv'
<1>0. /\ pc' \in [Callers -> PCs] /\ confirmed' \in [Callers -> BOOLEAN]
      /\ \A d \in Callers : Live(d) => Live(d)'
      /\ \A d \in Callers : pc[d] \in {"slot", "run"} => pc'[d] = pc[d]
      /\ UNCHANGED <<epoch, probeSpent, failures, probeFailures, spent, paced, slots, permit, hold, admitted, err>>
  BY NotifiedFacts DEF ConfirmTrial, GateInv, TypeOK, Live
<1>1. SlotInv'
  BY <1>0 DEF GateInv, SlotInv, SlotsAccounted
<1>2. CASE probe # NoPermit /\ permit[c] = probe
  <2>0. EndTrial("ok") /\ probe' = NoPermit /\ "ok" \in Outcomes /\ "ok" # "canceled"
    BY <1>2 DEF ConfirmTrial, FinishTrial, Outcomes, Ends
  <2>1. TypeOK'
    BY <1>0, <1>2, <2>0, EndTrialFacts, PermitFacts DEF GateInv, TypeOK
  <2>2. ProbeInv' /\ BudgetInv' /\ ExhaustionExact'
    BY <1>0, <1>2, <2>0, EndTrialFacts DEF GateInv, TypeOK, ProbeInv, BudgetInv, ExhaustionExact
  <2>3. PermitInv'
    BY <1>0, <1>2, <2>0, EndTrialFacts DEF GateInv, PermitInv
  <2> QED BY <1>1, <2>1, <2>2, <2>3 DEF GateInv
<1>3. CASE ~(probe # NoPermit /\ permit[c] = probe)
  <2>0. UNCHANGED <<statusVars, probe>>
    BY <1>3 DEF ConfirmTrial, FinishTrial
  <2>1. TypeOK'
    BY <1>0, <2>0 DEF GateInv, TypeOK, statusVars
  <2>2. ProbeInv' /\ BudgetInv' /\ ExhaustionExact'
    BY <1>0, <2>0 DEF GateInv, ProbeInv, BudgetInv, ExhaustionExact, statusVars
  <2>3. PermitInv'
    BY <1>0, <2>0 DEF GateInv, PermitInv, statusVars
  <2> QED BY <1>1, <2>1, <2>2, <2>3 DEF GateInv
<1> QED BY <1>2, <1>3

\* Time passes.
LEMMA ClockStep ==
    ASSUME GateInv, Clock
    PROVE  GateInv'
<1>0. /\ UNCHANGED <<blocked, exhausted, incident, attempts, probeVars, slots, callerVars>>
      /\ retryDue' \in BOOLEAN /\ paced' \in BOOLEAN
  BY DEF GateInv, TypeOK, Clock, RetryElapses, PaceElapses, statusVars
<1>1. TypeOK'
  BY <1>0 DEF GateInv, TypeOK, probeVars, callerVars
<1>2. ProbeInv' /\ BudgetInv' /\ ExhaustionExact'
  BY <1>0 DEF GateInv, ProbeInv, BudgetInv, ExhaustionExact, probeVars, callerVars
<1>3. PermitInv' /\ SlotInv'
  BY <1>0 DEF GateInv, PermitInv, SlotInv, SlotsAccounted, Live, probeVars, callerVars
<1> QED BY <1>1, <1>2, <1>3 DEF GateInv

-----------------------------------------------------------------------------
\* Every step of the gate and its callers preserves what is said of the gate.
LEMMA NextGateInv == GateInv /\ [Next]_vars => GateInv'
<1> SUFFICES ASSUME GateInv, [Next]_vars PROVE GateInv'
  OBVIOUS
<1>1. ASSUME NEW c \in Callers, SustainedMedia(c) PROVE GateInv'
  BY <1>1, ResetFacts DEF SustainedMedia
<1>2. CASE Rearm
  BY <1>2, ResetFacts DEF Rearm
<1>3. CASE UNCHANGED vars
  <2>1. TypeOK' /\ ProbeInv' /\ BudgetInv' /\ ExhaustionExact'
    BY <1>3 DEF GateInv, TypeOK, ProbeInv, BudgetInv, ExhaustionExact, vars, gateVars, statusVars, probeVars, callerVars
  <2>2. PermitInv' /\ SlotInv'
    BY <1>3 DEF GateInv, PermitInv, SlotInv, SlotsAccounted, Live, vars, gateVars, statusVars, probeVars, callerVars
  <2> QED BY <2>1, <2>2 DEF GateInv
<1> QED BY <1>1, <1>2, <1>3, SimpleSteps, NextExtractionStep, GrantTrialStep, TakeSlotStep, AdmitFailsStep,
           AdmitStartStep, FirstFrameStep, ExitStep, ObserveLateStep, FinishStep, ConfirmTrialStep, ClockStep
     DEF Next, Wait

\* The trial stays in the hands of a caller until FinishTrial or a new epoch ends it.
LEMMA NextCarried == ASSUME GateInv, Carried, [Next]_vars PROVE Carried'
<1>1. ASSUME probe' \in {probe, NoPermit}, permit' = permit PROVE Carried'
  BY <1>1 DEF Carried
<1>2. ASSUME NEW c \in Callers, GrantTrial(c) PROVE Carried'
  BY <1>2 DEF GrantTrial, Carried, GateInv, TypeOK
<1>3. ASSUME NEW c \in Callers, Finish(c) PROVE Carried'
  BY <1>3 DEF Finish, FinishTrial, statusVars, Carried, GateInv, TypeOK
<1>4. ASSUME NEW c \in Callers,
             \/ CallWaitRecovery(c) \/ PassOpenGate(c) \/ Park(c) \/ Tick(c) \/ CancelWait(c) \/ CallAdmit(c)
             \/ TakeSlot(c) \/ AdmitFails(c) \/ AdmitStart(c) \/ FirstFrame(c) \/ SustainedMedia(c) \/ NextExtraction(c)
             \/ (\E o \in Ends : Exit(c, o)) \/ ObserveLate(c) \/ ConfirmTrial(c)
      PROVE  Carried'
  <2>1. probe' \in {probe, NoPermit} /\ permit' = permit
    BY <1>4 DEF CallWaitRecovery, PassOpenGate, Park, Tick, CancelWait, CallAdmit, TakeSlot, AdmitFails, AdmitStart,
                FirstFrame, SustainedMedia, NextExtraction, Exit, ObserveLate, ObserveFailure, ConfirmTrial,
                FinishTrial, gateVars, statusVars, probeVars
  <2> QED BY <1>1, <2>1
<1>5. CASE Rearm \/ Clock \/ UNCHANGED vars
  BY <1>1, <1>5 DEF Rearm, Clock, RetryElapses, PaceElapses, vars, gateVars, probeVars, callerVars
<1> QED BY <1>2, <1>3, <1>4, <1>5 DEF Next, Wait

\* The invariant holds in every behaviour.
LEMMA IInvariant == Spec => []IInv
<1>1. Init => IInv
  BY InitGateInv DEF Init, IInv, Carried
<1>2. IInv /\ [Next]_vars => IInv'
  BY NextGateInv, NextCarried DEF IInv
<1> QED BY <1>1, <1>2, PTL DEF Spec

\* What IInv says of the properties the runs check.
LEMMA IInvImplies ==
    IInv => TrialHasOneOwner /\ BudgetHonoured /\ ProbeOnlyWhileBlocked /\ ExhaustionExact /\ SlotsAccounted
<1> SUFFICES ASSUME IInv
             PROVE  TrialHasOneOwner /\ BudgetHonoured /\ ProbeOnlyWhileBlocked /\ ExhaustionExact /\ SlotsAccounted
  OBVIOUS
<1>1. TrialHasOneOwner
  BY DEF IInv, GateInv, Carried, PermitInv, TrialHasOneOwner
<1>2. BudgetHonoured
  BY AdmissionAssumption DEF IInv, GateInv, TypeOK, BudgetInv, BudgetHonoured
<1>3. ProbeOnlyWhileBlocked
  BY DEF IInv, GateInv, ProbeInv, ProbeOnlyWhileBlocked
<1> QED BY <1>1, <1>2, <1>3 DEF IInv, GateInv, SlotInv

\* Every variable of the gate and its callers keeps its type; in particular the
\* attempts never leave 0..Trials, although FinishTrial decrements them.
THEOREM TypeCorrect == Spec => []TypeOK
BY IInvariant, PTL DEF IInv, GateInv

\* WaitRecovery hands the breaker's one trial to one caller, who has not finished it.
THEOREM OneTrialOwner == Spec => []TrialHasOneOwner
BY IInvariant, IInvImplies, PTL

\* Refunds never let more than Trials trials of an incident reach the provider.
THEOREM TrialBudget == Spec => []BudgetHonoured
BY IInvariant, IInvImplies, PTL

\* No step closes the breaker and leaves a trial outstanding.
THEOREM NoOrphanedTrial == Spec => []ProbeOnlyWhileBlocked
BY IInvariant, IInvImplies, PTL

\* Observe, WaitRecovery and FinishTrial agree on the exhausted flag.
THEOREM ExhaustedFlag == Spec => []ExhaustionExact
BY IInvariant, IInvImplies, PTL

\* Snapshot never tells a player or a member something that is not so: types, the
\* outstanding trial and the exhausted flag agree at every moment.
THEOREM HonestStatus == Spec => []StatusHonest
BY TypeCorrect, NoOrphanedTrial, ExhaustedFlag, PTL DEF StatusHonest

\* No start slot is lost or returned twice.
THEOREM SlotAccounting == Spec => []SlotsAccounted
BY IInvariant, IInvImplies, PTL
-----------------------------------------------------------------------------
\* The breaker closes only after a trial during which nobody saw a failure.
THEOREM CleanTrialCloses == Spec => CloseNeedsCleanTrial
<1> DEFINE Closing == blocked /\ ~blocked' => Rearm \/ (probe # NoPermit /\ failures = probeFailures)
<1>1. IInv /\ [Next]_vars => [Closing]_vars
  <2> SUFFICES ASSUME Next, blocked, ~blocked', ~Rearm
               PROVE  probe # NoPermit /\ failures = probeFailures
    BY DEF vars
  <2>1. ASSUME NEW c \in Callers, SustainedMedia(c)
        PROVE  probe # NoPermit /\ failures = probeFailures
    BY <2>1 DEF SustainedMedia, Sustains
  <2>2. ASSUME NEW c \in Callers, Finish(c)
        PROVE  probe # NoPermit /\ failures = probeFailures
    BY <2>2 DEF Finish, FinishTrial, EndTrial, statusVars
  <2>3. ASSUME NEW c \in Callers, ConfirmTrial(c)
        PROVE  probe # NoPermit /\ failures = probeFailures
    BY <2>3 DEF ConfirmTrial, FinishTrial, EndTrial, statusVars
  <2>4. ASSUME NEW c \in Callers,
               \/ CallWaitRecovery(c) \/ Wait(c) \/ Tick(c) \/ CancelWait(c) \/ CallAdmit(c) \/ TakeSlot(c)
               \/ AdmitFails(c) \/ AdmitStart(c) \/ FirstFrame(c) \/ NextExtraction(c)
               \/ (\E o \in Ends : Exit(c, o)) \/ ObserveLate(c)
        PROVE  blocked'
    BY <2>4 DEF CallWaitRecovery, Wait, PassOpenGate, GrantTrial, Park, Tick, CancelWait, CallAdmit, TakeSlot,
                AdmitFails, AdmitStart, FirstFrame, NextExtraction, Exit, ObserveLate, ObserveFailure, gateVars, statusVars
  <2>5. Clock => blocked'
    BY DEF Clock, RetryElapses, PaceElapses, statusVars
  <2> QED BY <2>1, <2>2, <2>3, <2>4, <2>5 DEF Next
<1> QED BY <1>1, IInvariant, PTL DEF Spec, CloseNeedsCleanTrial

\* Whatever resets the incident besides Rearm is audio admitted since it began.
LEMMA EndingStep ==
    ASSUME GateInv, Next, incident # 0, incident' = 0, ~Rearm
    PROVE  \E c \in Callers : pc[c] = "run" /\ admitted[c] >= incident
<1>1. ASSUME NEW c \in Callers, SustainedMedia(c)
      PROVE  pc[c] = "run" /\ admitted[c] >= incident
  BY <1>1 DEF SustainedMedia, Sustains, GateInv, ProbeInv, TypeOK
<1>2. ASSUME NEW c \in Callers,
             \/ CallWaitRecovery(c) \/ Wait(c) \/ Tick(c) \/ CancelWait(c) \/ CallAdmit(c) \/ TakeSlot(c)
             \/ AdmitFails(c) \/ AdmitStart(c) \/ FirstFrame(c) \/ NextExtraction(c)
             \/ (\E o \in Ends : Exit(c, o)) \/ ObserveLate(c)
      PROVE  incident' = incident
  BY <1>2 DEF CallWaitRecovery, Wait, PassOpenGate, GrantTrial, Park, Tick, CancelWait, CallAdmit, TakeSlot,
              AdmitFails, AdmitStart, FirstFrame, NextExtraction, Exit, ObserveLate, ObserveFailure, gateVars, statusVars
<1>3. ASSUME NEW c \in Callers, Finish(c) \/ ConfirmTrial(c)
      PROVE  incident' = incident
  BY <1>3 DEF Finish, ConfirmTrial, FinishTrial, EndTrial, statusVars
<1>4. Clock => incident' = incident
  BY DEF Clock, RetryElapses, PaceElapses, statusVars
<1> QED BY <1>1, <1>2, <1>3, <1>4 DEF Next

\* Only the operator or audio admitted during the incident ends it.
THEOREM NewMediaResets == Spec => ResetOnlyByNewMedia
<1> DEFINE Ending == incident # 0 /\ incident' = 0 =>
                        Rearm \/ \E c \in Callers : pc[c] = "run" /\ admitted[c] >= incident
<1>1. IInv /\ [Next]_vars => [Ending]_vars
  BY EndingStep DEF IInv
<1> QED BY <1>1, IInvariant, PTL DEF Spec, ResetOnlyByNewMedia
-----------------------------------------------------------------------------
(***************************************************************************)
(* Sleeping in WaitRecovery.  A step moves one caller of the gate and      *)
(* leaves what the sleepers wait for alone, or it wakes all of them.       *)
(***************************************************************************)
Quiet == UNCHANGED <<blocked, probe, attempts>>
NobodySleeps == \A c \in Callers : ~Parked(c)

\* Somebody moves, and not into the select.
LEMMA MoveKeepsSleep ==
    ASSUME GateInv, ParkedForCause, Quiet, NEW c \in Callers, NEW to \in PCs \ {"parked", "timed"},
           pc' = [pc EXCEPT ![c] = to] \/ pc' = pc
    PROVE  ParkedForCause'
<1>1. \A d \in Callers : pc'[d] = pc[d] \/ pc'[d] \notin {"parked", "timed"}
  BY DEF GateInv, TypeOK
<1> QED BY <1>1 DEF ParkedForCause, Parked, Eligible, Quiet

\* notifyLocked leaves nobody in the select.
LEMMA NotifiedWakes ==
    ASSUME GateInv, NEW c \in Callers, NEW to \in PCs \ {"parked", "timed"},
           pc' = Notified(pc) \/ pc' = [Notified(pc) EXCEPT ![c] = to]
    PROVE  NobodySleeps'
<1>1. Notified(pc) \in [Callers -> PCs] /\ \A d \in Callers : Notified(pc)[d] \notin {"parked", "timed"}
  BY NotifiedFacts DEF GateInv, TypeOK, PCs
<1>2. \A d \in Callers : pc'[d] \notin {"parked", "timed"}
  BY <1>1
<1> QED BY <1>2 DEF NobodySleeps, Parked

\* Going to sleep, and being granted the trial for which the others now wait.
LEMMA WaitKeepsSleep ==
    ASSUME GateInv, ParkedForCause, NEW c \in Callers, Park(c) \/ GrantTrial(c)
    PROVE  ParkedForCause'
<1>1. CASE Park(c)
  <2>1. blocked /\ Quiet /\ \A d \in Callers : d # c => pc'[d] = pc[d]
    BY <1>1 DEF Park, gateVars, statusVars, probeVars, Quiet, GateInv, TypeOK
  <2>2. pc'[c] = IF Eligible THEN "timed" ELSE "parked"
    BY <1>1 DEF Park, GateInv, TypeOK
  <2> QED BY <2>1, <2>2 DEF ParkedForCause, Parked, Eligible, Quiet
<1>2. CASE GrantTrial(c)
  <2>1. blocked /\ blocked' /\ probe' # NoPermit
    BY <1>2 DEF GrantTrial, NoPermit, GateInv, TypeOK
  <2> QED BY <2>1 DEF ParkedForCause, Eligible
<1> QED BY <1>1, <1>2

\* FinishTrial wakes the sleepers if the trial ended, and otherwise changes nothing.
LEMMA ReportKeepsSleep ==
    ASSUME GateInv, ParkedForCause, NEW c \in Callers, Finish(c) \/ ConfirmTrial(c)
    PROVE  ParkedForCause'
<1>1. CASE probe # NoPermit /\ permit[c] = probe
  <2>1. pc' = Notified(pc) \/ pc' = [Notified(pc) EXCEPT ![c] = "idle"]
    BY <1>1 DEF Finish, ConfirmTrial
  <2>2. NobodySleeps'
    BY <2>1, NotifiedWakes DEF PCs
  <2> QED BY <2>2 DEF ParkedForCause, NobodySleeps, Parked
<1>2. CASE ~(probe # NoPermit /\ permit[c] = probe)
  <2>1. Quiet /\ (pc' = [pc EXCEPT ![c] = "idle"] \/ pc' = pc)
    BY <1>2 DEF Finish, ConfirmTrial, FinishTrial, statusVars, Quiet
  <2> QED BY <2>1, MoveKeepsSleep DEF PCs
<1> QED BY <1>1, <1>2

\* Every step of the gate and its callers leaves the sleepers a reason to sleep.
LEMMA NextKeepsSleep == ASSUME GateInv, ParkedForCause, [Next]_vars PROVE ParkedForCause'
<1>1. ASSUME NEW c \in Callers,
             \/ CallWaitRecovery(c) \/ PassOpenGate(c) \/ Tick(c) \/ CancelWait(c) \/ CallAdmit(c) \/ TakeSlot(c)
             \/ AdmitFails(c) \/ AdmitStart(c) \/ FirstFrame(c) \/ NextExtraction(c)
      PROVE  ParkedForCause'
  <2>1. Quiet
    BY <1>1 DEF CallWaitRecovery, PassOpenGate, Tick, CancelWait, CallAdmit, TakeSlot, AdmitFails, AdmitStart,
                FirstFrame, NextExtraction, gateVars, statusVars, probeVars, Quiet
  <2>2. \E to \in PCs \ {"parked", "timed"} : pc' = [pc EXCEPT ![c] = to] \/ pc' = pc
    BY <1>1 DEF CallWaitRecovery, PassOpenGate, Tick, CancelWait, CallAdmit, TakeSlot, AdmitFails, AdmitStart,
                FirstFrame, NextExtraction, PCs
  <2> QED BY <2>1, <2>2, MoveKeepsSleep
<1>2. ASSUME NEW c \in Callers, SustainedMedia(c) \/ ObserveLate(c) PROVE ParkedForCause'
  <2>1. NobodySleeps'
    BY <1>2, NotifiedWakes DEF SustainedMedia, ObserveLate, PCs
  <2> QED BY <2>1 DEF ParkedForCause, NobodySleeps, Parked
<1>3. ASSUME NEW c \in Callers, NEW o \in Ends, Exit(c, o) PROVE ParkedForCause'
  <2>1. CASE o = "global"
    <3>1. NobodySleeps'
      BY <1>3, <2>1, NotifiedWakes DEF Exit, PCs
    <3> QED BY <3>1 DEF ParkedForCause, NobodySleeps, Parked
  <2>2. CASE o # "global"
    <3>1. Quiet /\ pc' = [pc EXCEPT ![c] = "done"]
      BY <1>3, <2>2 DEF Exit, statusVars, probeVars, Quiet
    <3> QED BY <3>1, MoveKeepsSleep DEF PCs
  <2> QED BY <2>1, <2>2
<1>4. CASE Rearm
  <2>1. \A d \in Callers : Notified(pc)[d] \notin {"parked", "timed"}
    BY NotifiedFacts DEF GateInv, TypeOK, PCs
  <2> QED BY <1>4, <2>1 DEF Rearm, ParkedForCause, Parked
<1>5. CASE Clock \/ UNCHANGED vars
  BY <1>5 DEF Clock, RetryElapses, PaceElapses, vars, gateVars, statusVars, probeVars, callerVars,
              ParkedForCause, Parked, Eligible
<1> QED BY <1>1, <1>2, <1>3, <1>4, <1>5, WaitKeepsSleep, ReportKeepsSleep DEF Next, Wait

\* WaitRecovery's select is always ended by notifyLocked when it should be: no path
\* forgets a sleeper, for any number of callers.
THEOREM SleepersHaveCause == Spec => []ParkedForCause
<1>1. Init => ParkedForCause
  BY DEF Init, ParkedForCause, Parked
<1>2. IInv /\ ParkedForCause /\ [Next]_vars => ParkedForCause'
  BY NextKeepsSleep DEF IInv
<1> QED BY <1>1, <1>2, IInvariant, PTL DEF Spec
-----------------------------------------------------------------------------
(***************************************************************************)
(* The gate implements CircuitBreaker.  Besides IInv this needs that the   *)
(* generations only grow, so that what is admitted, or was granted, cannot *)
(* be of a later one.                                                      *)
(***************************************************************************)
Recent ==
    /\ probeFailures <= failures
    /\ \A c \in Callers : admitted[c] <= epoch

breakerView == <<BreakerState, TrialHolder, CleanSoFar, incident # 0, spent, AtProvider, Fresh>>

\* Epochs and failure generations never run backwards.
LEMMA NextRecent == ASSUME GateInv, Recent, [Next]_vars PROVE Recent'
<1>1. GateInv'
  BY NextGateInv
<1>2. ASSUME epoch' >= epoch, failures' >= failures, probeFailures' \in {probeFailures, failures},
             \A d \in Callers : admitted'[d] \in {admitted[d], epoch, 0}
      PROVE  Recent'
  <2>1. epoch \in Nat /\ epoch' \in Nat /\ failures \in Nat /\ failures' \in Nat /\ probeFailures \in Nat
    BY <1>1 DEF GateInv, TypeOK
  <2>2. probeFailures' <= failures'
    BY <1>2, <2>1 DEF Recent
  <2>3. ASSUME NEW d \in Callers PROVE admitted'[d] <= epoch'
    <3>1. admitted[d] \in Nat /\ admitted[d] <= epoch
      BY DEF Recent, GateInv, TypeOK
    <3>2. admitted'[d] \in {admitted[d], epoch, 0}
      BY <1>2
    <3> QED BY <1>2, <2>1, <3>1, <3>2
  <2> QED BY <2>2, <2>3 DEF Recent
<1>3. epoch \in Nat /\ failures \in Nat /\ probeFailures \in Nat /\ admitted \in [Callers -> Nat]
  BY DEF GateInv, TypeOK
<1>4. ASSUME NEW c \in Callers,
             \/ CallWaitRecovery(c) \/ PassOpenGate(c) \/ Park(c) \/ Tick(c) \/ CancelWait(c) \/ CallAdmit(c)
             \/ TakeSlot(c) \/ AdmitFails(c) \/ FirstFrame(c)
      PROVE  Recent'
  <2>1. UNCHANGED <<epoch, failures, probeFailures, admitted>>
    BY <1>4 DEF CallWaitRecovery, PassOpenGate, Park, Tick, CancelWait, CallAdmit, TakeSlot, AdmitFails, FirstFrame,
                gateVars, probeVars
  <2> QED BY <2>1 DEF Recent
<1>5. ASSUME NEW c \in Callers, GrantTrial(c) \/ SustainedMedia(c) \/ ConfirmTrial(c) PROVE Recent'
  <2>1. epoch' \in {epoch, epoch + 1} /\ failures' = failures /\ probeFailures' \in {probeFailures, failures}
        /\ admitted' = admitted
    BY <1>5 DEF GrantTrial, SustainedMedia, ResetStatus, ConfirmTrial
  <2> QED BY <1>2, <1>3, <2>1
<1>6. ASSUME NEW c \in Callers, AdmitStart(c) \/ NextExtraction(c) \/ Finish(c) PROVE Recent'
  <2>1. UNCHANGED <<epoch, failures, probeFailures>>
    BY <1>6 DEF AdmitStart, NextExtraction, Finish, gateVars, probeVars
  <2>2. \A d \in Callers : admitted'[d] \in {admitted[d], epoch, 0}
    BY <1>3, <1>6 DEF AdmitStart, NextExtraction, Finish
  <2> QED BY <1>2, <1>3, <2>1, <2>2
<1>7. ASSUME NEW c \in Callers, ObserveLate(c) \/ (\E o \in Ends : Exit(c, o)) PROVE Recent'
  <2>1. admitted' = admitted /\ (ObserveFailure \/ UNCHANGED probeVars)
    BY <1>7 DEF ObserveLate, Exit
  <2>2. epoch' \in {epoch, epoch + 1} /\ failures' \in {failures, failures + 1} /\ probeFailures' = probeFailures
    BY <2>1 DEF ObserveFailure, probeVars
  <2> QED BY <1>2, <1>3, <2>1, <2>2
<1>8. CASE Rearm
  <2>1. epoch' = epoch + 1 /\ UNCHANGED <<failures, probeFailures, admitted>>
    BY <1>8 DEF Rearm, ResetStatus
  <2> QED BY <1>2, <1>3, <2>1
<1>9. CASE Clock \/ UNCHANGED vars
  <2>1. UNCHANGED <<epoch, failures, probeFailures, admitted>>
    BY <1>9 DEF Clock, RetryElapses, PaceElapses, vars, gateVars, probeVars, callerVars
  <2> QED BY <2>1 DEF Recent
<1> QED BY <1>4, <1>5, <1>6, <1>7, <1>8, <1>9 DEF Next, Wait

\* A caller that moves outside the provider changes nothing of the breaker.
LEMMA OutsideIsStutter ==
    ASSUME UNCHANGED <<blocked, probe, probeSpent, permit, failures, probeFailures, incident, spent, epoch>>,
           \A d \in Callers : (pc[d] = "run") <=> (pc'[d] = "run"),
           \A d \in Callers : pc[d] = "run" => admitted'[d] = admitted[d]
    PROVE  UNCHANGED breakerView
<1>1. BreakerState' = BreakerState /\ TrialHolder' = TrialHolder /\ CleanSoFar' = CleanSoFar
  BY DEF BreakerState, TrialHolder, CleanSoFar
<1>2. AtProvider' = AtProvider
  BY DEF AtProvider
<1>3. Fresh' = Fresh
  BY DEF AtProvider, Fresh
<1> QED BY <1>1, <1>2, <1>3 DEF breakerView

\* Nobody carries the outstanding permit beside its holder, and without one nobody does.
LEMMA HolderFacts ==
    ASSUME GateInv
    PROVE  /\ probe = NoPermit => TrialHolder = {}
           /\ \A c \in Callers : probe # NoPermit /\ permit[c] = probe => TrialHolder = {c}
           /\ ~blocked => TrialHolder = {}
BY DEF GateInv, ProbeInv, PermitInv, TrialHolder

\* WaitRecovery's grant.
LEMMA GrantIsGrant == ASSUME GateInv, NEW c \in Callers, GrantTrial(c) PROVE Breaker!Grant(c)
<1>1. blocked /\ probe = NoPermit /\ attempts < Trials /\ pc[c] = "wait"
  BY DEF GrantTrial, Eligible
<1>2. /\ probe' = <<incident, attempts + 1>> /\ ~probeSpent' /\ probeFailures' = failures
      /\ UNCHANGED <<blocked, incident, epoch, failures, spent, admitted>>
      /\ permit' = [permit EXCEPT ![c] = <<incident, attempts + 1>>]
      /\ pc' = [pc EXCEPT ![c] = "admit"]
  BY DEF GrantTrial
<1>3. probe' # NoPermit
  BY <1>2 DEF GateInv, TypeOK, NoPermit
<1>4. BreakerState = "open" /\ BreakerState' = "granted" /\ CleanSoFar'
  BY <1>1, <1>2, <1>3 DEF BreakerState, CleanSoFar
<1>5. TrialHolder' = {c}
  <2>1. permit'[c] = probe'
    BY <1>2 DEF GateInv, TypeOK
  <2>2. ASSUME NEW d \in Callers, d # c PROVE permit'[d] # probe'
    <3>1. permit'[d] = permit[d] /\ permit[d] \in Permits
      BY <1>2, <2>2 DEF GateInv, TypeOK
    <3>2. CASE permit[d] = NoPermit
      BY <1>3, <3>1, <3>2
    <3>3. CASE permit[d] # NoPermit
      BY <1>2, <3>1, <3>3 DEF GateInv, TypeOK, PermitInv
    <3> QED BY <3>2, <3>3
  <2> QED BY <1>3, <2>1, <2>2 DEF TrialHolder
<1>6. AtProvider' = AtProvider /\ Fresh' = Fresh
  BY <1>1, <1>2 DEF AtProvider, Fresh, GateInv, TypeOK
<1>7. spent < Trials
  BY <1>1, AdmissionAssumption DEF GateInv, TypeOK, BudgetInv
<1> QED BY <1>2, <1>4, <1>5, <1>6, <1>7 DEF Breaker!Grant

\* Admit lets a caller start.
LEMMA AdmitIsStart == ASSUME GateInv, NEW c \in Callers, AdmitStart(c) PROVE Breaker!StartWork(c)
<1>1. /\ pc[c] = "slot" /\ ~Refused(c) /\ pc' = [pc EXCEPT ![c] = "run"] /\ admitted' = [admitted EXCEPT ![c] = epoch]
      /\ UNCHANGED <<blocked, incident, epoch, probe, failures, probeFailures, permit>>
      /\ IF probe # NoPermit /\ permit[c] = probe
           THEN probeSpent' = TRUE /\ spent' = IF probeSpent THEN spent ELSE spent + 1
           ELSE UNCHANGED <<probeSpent, spent>>
  BY DEF AdmitStart, statusVars
<1>2. AtProvider' = AtProvider \cup {c} /\ Fresh' = Fresh \cup {c}
  BY <1>1 DEF AtProvider, Fresh, GateInv, TypeOK
<1>3. TrialHolder' = TrialHolder /\ CleanSoFar' = CleanSoFar /\ (incident # 0)' = (incident # 0)
  BY <1>1 DEF TrialHolder, CleanSoFar
<1>4. CASE blocked
  <2>1. probe # NoPermit /\ permit[c] = probe
    BY <1>1, <1>4 DEF Refused
  <2>2. c \in TrialHolder
    BY <2>1 DEF TrialHolder
  <2>3. /\ BreakerState' = IF BreakerState = "granted" THEN "started" ELSE BreakerState
        /\ spent' = IF BreakerState = "granted" THEN spent + 1 ELSE spent
    BY <1>1, <1>4, <2>1 DEF BreakerState
  <2> QED BY <1>2, <1>3, <2>2, <2>3 DEF Breaker!StartWork
<1>5. CASE ~blocked
  <2>1. probe = NoPermit
    BY <1>5 DEF GateInv, ProbeInv
  <2>2. BreakerState = "closed" /\ BreakerState' = "closed" /\ spent' = spent
    BY <1>1, <1>5, <2>1 DEF BreakerState
  <2> QED BY <1>2, <1>3, <2>2 DEF Breaker!StartWork
<1> QED BY <1>4, <1>5

\* Observe of a failure with which the callers of a set end.
LEMMA ObserveIsFailure ==
    ASSUME GateInv, Recent, ObserveFailure, UNCHANGED <<permit, admitted>>,
           NEW gone \in SUBSET AtProvider, AtProvider' = AtProvider \ gone
    PROVE  Breaker!Failure(gone)
<1>1. /\ failures' = failures + 1 /\ blocked' = TRUE /\ UNCHANGED <<probe, probeSpent, probeFailures>>
      /\ epoch' = (IF incident = 0 THEN epoch + 1 ELSE epoch)
      /\ incident' = (IF incident = 0 THEN epoch + 1 ELSE incident)
      /\ spent' = (IF incident = 0 THEN 0 ELSE spent)
  BY DEF ObserveFailure
<1>2. epoch \in Nat /\ incident \in Nat /\ failures \in Nat /\ probeFailures \in Nat /\ blocked \in BOOLEAN
  BY DEF GateInv, TypeOK
<1>3. BreakerState' = IF BreakerState = "closed" THEN "open" ELSE BreakerState
  BY <1>1 DEF BreakerState, GateInv, ProbeInv
<1>4. TrialHolder' = TrialHolder
  BY <1>1 DEF TrialHolder
<1>5. ~CleanSoFar' /\ incident' # 0
  BY <1>1, <1>2 DEF CleanSoFar, Recent
<1>6. Fresh' = IF incident # 0 THEN Fresh \ gone ELSE {}
  <2>1. CASE incident # 0
    BY <1>1, <2>1 DEF Fresh
  <2>2. CASE incident = 0
    <3>1. \A d \in Callers : admitted[d] \in Nat /\ admitted[d] <= epoch /\ admitted'[d] = admitted[d]
      BY DEF Recent, GateInv, TypeOK
    <3>2. epoch' = epoch + 1
      BY <1>1, <2>2
    <3>3. \A d \in Callers : admitted'[d] # epoch'
      BY <1>2, <3>1, <3>2
    <3> QED BY <2>2, <3>3 DEF Fresh, AtProvider
  <2> QED BY <2>1, <2>2
<1>7. spent' = IF incident # 0 THEN spent ELSE 0
  BY <1>1
<1> QED BY <1>3, <1>4, <1>5, <1>6, <1>7 DEF Breaker!Failure

\* The end of an operation.
LEMMA ExitIsEnd ==
    ASSUME GateInv, Recent, NEW c \in Callers, NEW o \in Ends, Exit(c, o)
    PROVE  Breaker!Failure({c}) \/ Breaker!EndWork(c)
<1>1. c \in AtProvider /\ UNCHANGED <<permit, admitted>>
  BY DEF Exit, AtProvider
<1>2. AtProvider' = AtProvider \ {c}
  <2>1. ASSUME NEW d \in Callers, d # c PROVE (pc'[d] = "run") <=> (pc[d] = "run")
    BY <2>1, NotifiedFacts DEF Exit, GateInv, TypeOK, PCs
  <2>2. pc'[c] = "done"
    BY NotifiedFacts DEF Exit, GateInv, TypeOK
  <2> QED BY <2>1, <2>2 DEF AtProvider
<1>3. CASE o = "global"
  BY <1>1, <1>2, <1>3, ObserveIsFailure DEF Exit
<1>4. CASE o # "global"
  <2>1. UNCHANGED <<blocked, incident, epoch, probe, probeSpent, failures, probeFailures, spent>>
    BY <1>4 DEF Exit, statusVars, probeVars
  <2>2. /\ BreakerState' = BreakerState /\ TrialHolder' = TrialHolder /\ CleanSoFar' = CleanSoFar
        /\ (incident # 0)' = (incident # 0)
    BY <1>1, <2>1 DEF BreakerState, TrialHolder, CleanSoFar
  <2>3. Fresh' = Fresh \ {c}
    BY <1>1, <1>2, <2>1 DEF Fresh
  <2> QED BY <1>1, <1>2, <2>1, <2>2, <2>3 DEF Breaker!EndWork
<1> QED BY <1>3, <1>4

\* FinishTrial of the holder is the answer; of anybody else, nothing.
LEMMA ReportIsAnswer ==
    ASSUME GateInv, NEW c \in Callers, Finish(c) \/ ConfirmTrial(c)
    PROVE  Breaker!Answer \/ UNCHANGED breakerView
<1>1. PICK o \in Outcomes : FinishTrial(c, o)
  BY DEF Finish, ConfirmTrial, GateInv, TypeOK, Outcomes, Ends
<1>2. /\ UNCHANGED <<epoch, probeSpent, failures, probeFailures, spent>>
      /\ permit' \in {permit, [permit EXCEPT ![c] = NoPermit]}
  BY DEF Finish, ConfirmTrial
<1>3. \A d \in Callers : (pc[d] = "run") <=> (pc'[d] = "run")
  BY NotifiedFacts DEF Finish, ConfirmTrial, GateInv, TypeOK, PCs
<1>4. \A d \in Callers : pc[d] = "run" => admitted'[d] = admitted[d]
  BY DEF Finish, ConfirmTrial, GateInv, TypeOK
<1>5. AtProvider' = AtProvider /\ Fresh' = Fresh
  BY <1>2, <1>3, <1>4 DEF AtProvider, Fresh
<1>6. CASE probe # NoPermit /\ permit[c] = probe
  <2>1. probe' = NoPermit /\ EndTrial(o) /\ blocked
    BY <1>1, <1>6 DEF FinishTrial, GateInv, ProbeInv
  <2>2. incident' = incident /\ blocked' \in BOOLEAN /\ (~blocked' => failures = probeFailures)
    BY <2>1 DEF EndTrial, GateInv, TypeOK
  <2>3. TrialHolder # {} /\ TrialHolder' = {} /\ ~CleanSoFar'
    BY <1>6, <2>1 DEF TrialHolder, CleanSoFar
  <2>4. BreakerState' \in {"open"} \cup (IF CleanSoFar THEN {"closed"} ELSE {})
    BY <1>6, <2>1, <2>2 DEF BreakerState, CleanSoFar
  <2> QED BY <1>2, <1>5, <2>2, <2>3, <2>4 DEF Breaker!Answer
<1>7. CASE ~(probe # NoPermit /\ permit[c] = probe)
  <2>1. UNCHANGED <<blocked, incident, probe>>
    BY <1>1, <1>7 DEF FinishTrial, statusVars
  <2>2. TrialHolder' = TrialHolder
    BY <1>2, <1>7, <2>1 DEF TrialHolder, GateInv, TypeOK
  <2>3. BreakerState' = BreakerState /\ CleanSoFar' = CleanSoFar
    BY <1>2, <2>1 DEF BreakerState, CleanSoFar
  <2> QED BY <1>2, <1>5, <2>1, <2>2, <2>3 DEF breakerView
<1> QED BY <1>6, <1>7

\* SustainedMedia and Rearm end the incident.
LEMMA ResetIsEnd ==
    ASSUME GateInv, Recent, ResetStatus, probe' = NoPermit, pc' = Notified(pc),
           UNCHANGED <<probeSpent, failures, probeFailures, permit, admitted>>
    PROVE  Breaker!EndIncident
<1>1. ~blocked' /\ incident' = 0 /\ spent' = 0 /\ epoch' = epoch + 1 /\ epoch \in Nat
  BY DEF ResetStatus, GateInv, TypeOK
<1>2. BreakerState' = "closed" /\ TrialHolder' = {} /\ ~CleanSoFar'
  BY <1>1 DEF BreakerState, TrialHolder, CleanSoFar
<1>3. AtProvider' = AtProvider
  BY NotifiedFacts DEF AtProvider, GateInv, TypeOK, PCs
<1>4. Fresh' = {}
  <2>1. \A d \in Callers : admitted[d] \in Nat /\ admitted[d] <= epoch /\ admitted'[d] = admitted[d]
    BY DEF Recent, GateInv, TypeOK
  <2>2. \A d \in Callers : admitted'[d] # epoch'
    BY <1>1, <2>1
  <2> QED BY <2>2 DEF Fresh, AtProvider
<1> QED BY <1>1, <1>2, <1>3, <1>4 DEF Breaker!EndIncident

\* Sustained audio counts if it is fresh and no trial runs, or if it is the clean trial.
LEMMA SustainedIsFresh ==
    ASSUME GateInv, Recent, NEW c \in Callers, SustainedMedia(c)
    PROVE  Breaker!FreshAudio(c)
<1>1. Breaker!EndIncident
  BY ResetIsEnd DEF SustainedMedia
<1>2. incident # 0 /\ c \in Fresh
  BY DEF SustainedMedia, Sustains, Fresh, AtProvider
<1>3. BreakerState = "closed" \/ (TrialHolder = {c} /\ CleanSoFar)
  BY HolderFacts DEF SustainedMedia, Sustains, BreakerState, CleanSoFar
<1> QED BY <1>1, <1>2, <1>3 DEF Breaker!FreshAudio

\* Each step of the gate is one step of the breaker or none.
LEMMA StepOfBreaker ==
    ASSUME GateInv, Recent, [Next]_vars
    PROVE  Breaker!BreakerNext \/ UNCHANGED breakerView
<1>1. ASSUME NEW c \in Callers,
             \/ CallWaitRecovery(c) \/ PassOpenGate(c) \/ Park(c) \/ Tick(c) \/ CancelWait(c) \/ CallAdmit(c)
             \/ TakeSlot(c) \/ AdmitFails(c) \/ FirstFrame(c) \/ NextExtraction(c)
      PROVE  UNCHANGED breakerView
  <2>1. UNCHANGED <<blocked, probe, probeSpent, permit, failures, probeFailures, incident, spent, epoch>>
    BY <1>1 DEF CallWaitRecovery, PassOpenGate, Park, Tick, CancelWait, CallAdmit, TakeSlot, AdmitFails, FirstFrame,
                NextExtraction, gateVars, statusVars, probeVars
  <2>2. \A d \in Callers : (pc[d] = "run") <=> (pc'[d] = "run")
    BY <1>1 DEF CallWaitRecovery, PassOpenGate, Park, Tick, CancelWait, CallAdmit, TakeSlot, AdmitFails, FirstFrame,
                NextExtraction, Parked, GateInv, TypeOK
  <2>3. \A d \in Callers : pc[d] = "run" => admitted'[d] = admitted[d]
    BY <1>1 DEF CallWaitRecovery, PassOpenGate, Park, Tick, CancelWait, CallAdmit, TakeSlot, AdmitFails, FirstFrame,
                NextExtraction, GateInv, TypeOK
  <2> QED BY <2>1, <2>2, <2>3, OutsideIsStutter
<1>2. ASSUME NEW c \in Callers, ObserveLate(c) PROVE Breaker!Failure({})
  <2>1. AtProvider' = AtProvider \ {}
    BY <1>2, NotifiedFacts DEF ObserveLate, AtProvider, GateInv, TypeOK, PCs
  <2> QED BY <1>2, <2>1, ObserveIsFailure DEF ObserveLate
<1>3. CASE Rearm
  <2>1. Breaker!EndIncident
    BY <1>3, ResetIsEnd DEF Rearm
  <2>2. OperatorRearms /\ TrialHolder = {}
    BY <1>3, HolderFacts DEF Rearm
  <2> QED BY <2>1, <2>2 DEF Breaker!Operator, Breaker!BreakerNext
<1>4. CASE Clock \/ UNCHANGED vars
  <2>1. UNCHANGED <<blocked, probe, probeSpent, permit, failures, probeFailures, incident, spent, epoch, pc, admitted>>
    BY <1>4 DEF Clock, RetryElapses, PaceElapses, vars, gateVars, statusVars, probeVars, callerVars
  <2> QED BY <2>1, OutsideIsStutter
<1>5. ASSUME NEW c \in Callers, GrantTrial(c) \/ AdmitStart(c) \/ (\E o \in Ends : Exit(c, o)) \/ SustainedMedia(c)
      PROVE  Breaker!BreakerNext
  BY <1>5, GrantIsGrant, AdmitIsStart, ExitIsEnd, SustainedIsFresh DEF Breaker!BreakerNext
<1>6. ASSUME NEW c \in Callers, Finish(c) \/ ConfirmTrial(c) PROVE Breaker!BreakerNext \/ UNCHANGED breakerView
  BY <1>6, ReportIsAnswer DEF Breaker!BreakerNext
<1>7. (\E c \in Callers : ObserveLate(c)) => Breaker!BreakerNext
  BY <1>2 DEF Breaker!BreakerNext
<1> QED BY <1>1, <1>3, <1>4, <1>5, <1>6, <1>7 DEF Next, Wait

\* While the breaker is open nothing starts but the one granted trial, at most Trials of
\* them in an incident, and only clean or fresh evidence closes it: the permit strings
\* that are reissued after a refund, the epochs and the failure generations implement
\* the breaker of CircuitBreaker, for any number of callers.
THEOREM GateImplementsBreaker == Spec => GateIsBreaker
<1>1. Init => Breaker!BreakerInit
  BY DEF Init, Breaker!BreakerInit, BreakerState, TrialHolder, CleanSoFar, AtProvider, Fresh
<1>2. Init => Recent
  BY DEF Init, Recent
<1>3. IInv /\ Recent /\ [Next]_vars => Recent'
  BY NextRecent DEF IInv
<1>4. IInv /\ Recent /\ [Next]_vars => [Breaker!BreakerNext]_(Breaker!breakerVars)
  BY StepOfBreaker DEF IInv, Breaker!breakerVars, breakerView
<1> QED BY <1>1, <1>2, <1>3, <1>4, IInvariant, PTL DEF Spec, GateIsBreaker, Breaker!BreakerSpec
=============================================================================
