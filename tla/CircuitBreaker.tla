--------------------------- MODULE CircuitBreaker ---------------------------
(***************************************************************************)
(* What the YouTube gate promises to its callers, without permit strings,  *)
(* epochs, counters, slots and clocks: while the breaker is open nothing   *)
(* starts but the one trial, an incident has at most Trials of them that   *)
(* start, only a clean trial closes the breaker, and only fresh audio or   *)
(* the operator ends the incident.  ProviderAdmission implements it.       *)
(***************************************************************************)
EXTENDS Naturals

CONSTANTS
  Callers,        \* goroutines that may use the gate
  Trials,         \* trials of an incident that may start
  OperatorRearms  \* whether an operator may end an incident

VARIABLES
  breaker,   \* "closed", "open", or open with a trial "granted" or "started"
  holder,    \* who has the outstanding trial: {} or {c}
  clean,     \* nobody has failed since it was granted
  incident,  \* an incident has begun and was not ended
  starts,    \* trials of the incident that started
  working,   \* callers that are at the provider
  fresh      \* those of them that started since the last incident began or ended

breakerVars == <<breaker, holder, clean, incident, starts, working, fresh>>

BreakerInit ==
  /\ breaker = "closed" /\ holder = {} /\ clean = FALSE
  /\ incident = FALSE /\ starts = 0
  /\ working = {} /\ fresh = {}

\* Somebody starts: while the breaker is open, only who holds the trial.
StartWork(c) ==
  /\ breaker = "closed" \/ c \in holder
  /\ breaker' = IF breaker = "granted" THEN "started" ELSE breaker
  /\ starts' = IF breaker = "granted" THEN starts + 1 ELSE starts
  /\ working' = working \cup {c} /\ fresh' = fresh \cup {c}
  /\ UNCHANGED <<holder, clean, incident>>

EndWork(c) ==
  /\ c \in working
  /\ working' = working \ {c} /\ fresh' = fresh \ {c}
  /\ UNCHANGED <<breaker, holder, clean, incident, starts>>

\* A global failure, of a caller that ends with it or told late: the breaker is
\* open, the outstanding trial is clean no more, and a new incident makes old
\* evidence of all that is under way.
Failure(ended) ==
  /\ ended \subseteq working
  /\ breaker' = IF breaker = "closed" THEN "open" ELSE breaker
  /\ clean' = FALSE /\ incident' = TRUE
  /\ starts' = IF incident THEN starts ELSE 0
  /\ working' = working \ ended
  /\ fresh' = IF incident THEN fresh \ ended ELSE {}
  /\ UNCHANGED holder

Grant(c) ==
  /\ breaker = "open" /\ starts < Trials
  /\ breaker' = "granted" /\ holder' = {c} /\ clean' = TRUE
  /\ UNCHANGED <<incident, starts, working, fresh>>

\* The trial is answered once; a clean one may close the breaker.
Answer ==
  /\ holder # {}
  /\ breaker' \in {"open"} \cup (IF clean THEN {"closed"} ELSE {})
  /\ holder' = {} /\ clean' = FALSE
  /\ UNCHANGED <<incident, starts, working, fresh>>

\* The incident is over: the breaker is closed, the budget anew, and what is
\* under way is no evidence for a later incident.
EndIncident ==
  /\ breaker' = "closed" /\ holder' = {} /\ clean' = FALSE
  /\ incident' = FALSE /\ starts' = 0 /\ fresh' = {}
  /\ UNCHANGED working

\* Sustained audio ends it: of a fresh stream with the breaker closed, or of the
\* clean trial itself.
FreshAudio(c) ==
  /\ incident /\ c \in fresh
  /\ breaker = "closed" \/ (holder = {c} /\ clean)
  /\ EndIncident

Operator == OperatorRearms /\ holder = {} /\ EndIncident

BreakerNext ==
  \/ \E c \in Callers : StartWork(c) \/ EndWork(c) \/ Grant(c) \/ Failure({c}) \/ FreshAudio(c)
  \/ Failure({}) \/ Answer \/ Operator

BreakerSpec == BreakerInit /\ [][BreakerNext]_breakerVars
=============================================================================
