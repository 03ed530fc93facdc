---------------------------- MODULE MatchSearch ----------------------------
(***************************************************************************)
(* Matching a track to its audio (internal/media): MatchSpotify takes a    *)
(* slot of the MatchLimiter, the Resolver looks into the SearchCache, and  *)
(* identical misses share one search whose goroutine belongs to all its    *)
(* waiters.  Of a cached entry only its presence matters.                  *)
(***************************************************************************)
EXTENDS Naturals, FiniteSets

CONSTANTS
  First, Background, Direct, \* callers: first tracks, prefetches, plain searches
  keyOf,                     \* cache key of each caller's track
  All, Prefetch,             \* capacities of the limiter's two channels
  searchCacheLimit,
  MaxFlights                 \* bound: searches that run at the same time

Callers == First \cup Background \cup Direct
Keys == {keyOf[c] : c \in Callers}

ASSUME MatchAssumption ==
  /\ IsFiniteSet(First) /\ IsFiniteSet(Background) /\ IsFiniteSet(Direct)
  /\ First \cap Background = {}
  /\ All \in Nat /\ Prefetch \in Nat /\ Prefetch < All
  /\ searchCacheLimit \in Nat \ {0} /\ MaxFlights \in Nat

VARIABLES
  caller,     \* per caller: where it is and its flight
  prefetches, \* tokens in l.background
  slots,      \* tokens in l.all
  flights,    \* key -> flight that new callers join, 0 if none
  flight,     \* flight objects: key, whether the search runs, waiters, canceled
  entries     \* keys with a cached result

matchVars == <<caller, prefetches, slots, flights, flight, entries>>
cache == <<flights, flight, entries>>
limits == <<prefetches, slots>>

Away == [pc |-> "away", f |-> 0]
NewFlight(key) == [key |-> key, running |-> TRUE, waiters |-> 1, canceled |-> FALSE]
UnusedFlights == {f \in 1..MaxFlights : ~flight[f].running /\ flight[f].waiters = 0}
At(c, pc) == caller[c].pc = pc
Goes(c, pc) == caller' = [caller EXCEPT ![c].pc = pc]
Limited(c) == c \in First \cup Background

-----------------------------------------------------------------------------
\* MatchLimiter.acquire and its release function.

Request(c) ==
  /\ At(c, "away")
  /\ Goes(c, CASE c \in Background -> "prefetch" [] c \in First -> "slot" [] OTHER -> "look")
  /\ UNCHANGED <<limits, cache>>

TakePrefetch(c) ==
  /\ At(c, "prefetch") /\ prefetches < Prefetch
  /\ prefetches' = prefetches + 1
  /\ Goes(c, "slot")
  /\ UNCHANGED <<slots, cache>>

TakeSlot(c) ==
  /\ At(c, "slot") /\ slots < All
  /\ slots' = slots + 1
  /\ Goes(c, "look")
  /\ UNCHANGED <<prefetches, cache>>

\* Mutant of AcquireCanceled: the background token is kept.
AcquireCanceledKeeps(c) ==
  /\ At(c, "prefetch") \/ At(c, "slot")
  /\ UNCHANGED prefetches
  /\ caller' = [caller EXCEPT ![c] = Away]
  /\ UNCHANGED <<slots, cache>>

AcquireCanceled(c) ==
  /\ At(c, "prefetch") \/ At(c, "slot")
  /\ prefetches' = IF At(c, "slot") /\ c \in Background THEN prefetches - 1 ELSE prefetches
  /\ caller' = [caller EXCEPT ![c] = Away]
  /\ UNCHANGED <<slots, cache>>

\* Mutant of Release: a first track's release frees a background token too.
ReleaseBoth(c) ==
  /\ slots' = IF Limited(c) THEN slots - 1 ELSE slots
  /\ prefetches' = IF Limited(c) /\ prefetches > 0 THEN prefetches - 1 ELSE prefetches
  /\ caller' = [caller EXCEPT ![c] = Away]

Release(c) ==
  /\ slots' = IF Limited(c) THEN slots - 1 ELSE slots
  /\ prefetches' = IF c \in Background THEN prefetches - 1 ELSE prefetches
  /\ caller' = [caller EXCEPT ![c] = Away]

-----------------------------------------------------------------------------
\* resolveValid, under the cache's lock.

\* A cached entry that the caller accepts (its proof covers the expected
\* playback), or the caller's context is already dead.
Return(c) == At(c, "look") /\ Release(c) /\ UNCHANGED cache
Hit(c) == keyOf[c] \in entries /\ Return(c)
LookCanceled(c) == Return(c)

Join(c) ==
  /\ At(c, "look")
  /\ LET f == flights[keyOf[c]]
     IN \/ /\ f # 0
           /\ flight' = [flight EXCEPT ![f].waiters = @ + 1]
           /\ caller' = [caller EXCEPT ![c] = [pc |-> "wait", f |-> f]]
           /\ UNCHANGED flights
        \/ /\ f = 0 /\ UnusedFlights # {}
           /\ LET g == CHOOSE g \in UnusedFlights : \A h \in UnusedFlights : g <= h
              IN /\ flight' = [flight EXCEPT ![g] = NewFlight(keyOf[c])]
                 /\ flights' = [flights EXCEPT ![keyOf[c]] = g]
                 /\ caller' = [caller EXCEPT ![c] = [pc |-> "wait", f |-> g]]
  /\ UNCHANGED <<limits, entries>>

\* putLocked: at the limit another entry makes room.
Put(key) ==
  IF key \notin entries /\ Cardinality(entries) >= searchCacheLimit
    THEN \E victim \in entries : entries' = (entries \ {victim}) \cup {key}
    ELSE entries' = entries \cup {key}

\* Mutant of FlightEnds: a search that lost its last waiter frees the key it no
\* longer owns.
FlightEndsUnchecked(f, ok) ==
  /\ flight[f].running
  /\ flight' = [flight EXCEPT ![f].running = FALSE]
  /\ IF ok THEN Put(flight[f].key) ELSE UNCHANGED entries
  /\ flights' = [flights EXCEPT ![flight[f].key] = 0]
  /\ UNCHANGED <<caller, limits>>

\* The search goroutine: only the flight that still owns its key stores a
\* result and frees the key.
FlightEnds(f, ok) ==
  /\ flight[f].running
  /\ flight' = [flight EXCEPT ![f].running = FALSE]
  /\ IF flights[flight[f].key] = f
       THEN /\ IF ok /\ ~flight[f].canceled THEN Put(flight[f].key) ELSE UNCHANGED entries
            /\ flights' = [flights EXCEPT ![flight[f].key] = 0]
       ELSE UNCHANGED <<entries, flights>>
  /\ UNCHANGED <<caller, limits>>

\* Mutant of Depart: the caller that leaves cancels the search of all.
DepartCancels(c) ==
  LET f == caller[c].f
  IN /\ flight' = [flight EXCEPT ![f].waiters = @ - 1, ![f].canceled = TRUE]
     /\ flights' = IF flight[f].waiters = 1 /\ flights[keyOf[c]] = f
                     THEN [flights EXCEPT ![keyOf[c]] = 0] ELSE flights

\* The deferred part of resolveValid: the last waiter cancels the search.
Depart(c) ==
  LET f == caller[c].f
      last == flight[f].waiters = 1
  IN /\ flight' = [flight EXCEPT ![f] = [key |-> @.key, running |-> @.running,
                                          waiters |-> @.waiters - 1, canceled |-> @.canceled \/ last]]
     /\ flights' = IF last /\ flights[keyOf[c]] = f
                     THEN [flights EXCEPT ![keyOf[c]] = 0] ELSE flights

\* The result or the caller's own cancellation ends the wait and MatchSpotify.
Leaves(c) == Depart(c) /\ Release(c) /\ UNCHANGED entries
Answered(c) == At(c, "wait") /\ ~flight[caller[c].f].running /\ Leaves(c)
WaitCanceled(c) == At(c, "wait") /\ Leaves(c)

\* An entry expires, or InvalidateSpotify drops it after a playback failure.
Drop(key) ==
  /\ key \in entries
  /\ entries' = entries \ {key}
  /\ UNCHANGED <<caller, limits, flights, flight>>

MatchInit ==
  /\ caller = [c \in Callers |-> Away]
  /\ prefetches = 0 /\ slots = 0 /\ entries = {}
  /\ flights = [k \in Keys |-> 0]
  /\ flight = [f \in 1..MaxFlights |->
                 [key |-> CHOOSE k \in Keys : TRUE, running |-> FALSE, waiters |-> 0, canceled |-> FALSE]]

MatchNext ==
  \/ \E c \in Callers :
       \/ Request(c) \/ TakePrefetch(c) \/ TakeSlot(c) \/ AcquireCanceled(c)
       \/ Hit(c) \/ LookCanceled(c) \/ Join(c) \/ Answered(c) \/ WaitCanceled(c)
  \/ \E f \in 1..MaxFlights, ok \in BOOLEAN : FlightEnds(f, ok)
  \/ \E key \in Keys : Drop(key)

\* Go channels serve blocked senders in order, goroutines run, and a search ends
\* by its deadline (Join waits for a free flight object only because of the
\* bound).  Nothing is assumed about callers giving up.
FlightProgress(f) == \E ok \in BOOLEAN : FlightEnds(f, ok)
MatchFairness ==
  /\ \A c \in Background : SF_matchVars(TakePrefetch(c))
  /\ \A c \in First \cup Background : SF_matchVars(TakeSlot(c))
  /\ \A c \in Callers : SF_matchVars(Hit(c) \/ Join(c)) /\ WF_matchVars(Answered(c))
  /\ \A f \in 1..MaxFlights : WF_matchVars(FlightProgress(f))
MatchSpec == MatchInit /\ [][MatchNext]_matchVars /\ MatchFairness

-----------------------------------------------------------------------------
(* Types of callers, limiter, flights and cache.                           *)
MatchTypeOK ==
  /\ \A c \in Callers : /\ caller[c].pc \in {"away", "prefetch", "slot", "look", "wait"}
                        /\ caller[c].f \in 0..MaxFlights
  /\ prefetches \in 0..Prefetch /\ slots \in 0..All
  /\ flights \in [Keys -> 0..MaxFlights]
  /\ entries \subseteq Keys /\ Cardinality(entries) <= searchCacheLimit

(* "The search belongs to all waiters": a running search is cancelled      *)
(* exactly when nobody waits for it any more, whoever started it and in    *)
(* whatever order the callers leave.                                       *)
SearchOwned ==
  \A f \in 1..MaxFlights : flight[f].running =>
    (flight[f].canceled <=> \A c \in Callers : ~(At(c, "wait") /\ caller[c].f = f))

(* "Identical concurrent misses share one search": a key has at most one   *)
(* search that is not cancelled, although a cancelled one of the same key  *)
(* may end at any time.                                                    *)
Live(f) == flight[f].running /\ ~flight[f].canceled
OneSearchPerKey ==
  \A f, g \in 1..MaxFlights : Live(f) /\ Live(g) /\ f # g => flight[f].key # flight[g].key

(* "Background work can occupy only three slots": prefetches never hold    *)
(* the last slot, and every token in the channels has a holder, whichever  *)
(* way acquire and the match ended.                                        *)
Searching(S) == {c \in S : At(c, "look") \/ At(c, "wait")}
FirstHasRoom ==
  /\ slots = Cardinality(Searching(First \cup Background))
  /\ Cardinality(Searching(Background)) <= Prefetch

(* Every match ends without anyone giving up: tokens and searches are not  *)
(* leaked by the callers that did.                                         *)
MatchEnds == \A c \in Callers : caller[c].pc # "away" ~> caller[c].pc = "away"

\* Searches belong to their waiters, one per key, and background matches leave room.
MatchSound == MatchTypeOK /\ SearchOwned /\ OneSearchPerKey /\ FirstHasRoom
=============================================================================
