-------------------------- MODULE MatchSearchProofs -------------------------
(*************************************************************************)
(* For any finite sets of callers, any assignment of keys, capacities    *)
(* and cache limit: a shared search belongs to its waiters, a key has    *)
(* one live search, and the limiter's tokens have holders.               *)
(*************************************************************************)
EXTENDS MatchSearch, FiniteSetTheorems, WellFoundedInduction, TLAPS

\* The flight record of an unused object names some key.
AnyKey == CHOOSE k \in Keys : TRUE
CallerStates == [pc : {"away", "prefetch", "slot", "look", "wait"}, f : 0..MaxFlights]
FlightStates == [key : Keys \cup {AnyKey}, running : BOOLEAN, waiters : Nat, canceled : BOOLEAN]
Flights == 1..MaxFlights

\* Who holds a slot, who a background token, and who waits for flight f.
Limiteds == First \cup Background
SearchingOf(at) == {c \in Limiteds : at[c].pc \in {"look", "wait"}}
HoldingOf(at) == {c \in Background : at[c].pc \in {"slot", "look", "wait"}}
WaitersOf(at, f) == {c \in Callers : at[c].pc = "wait" /\ at[c].f = f}

Shapes ==
  /\ caller \in [Callers -> CallerStates]
  /\ flights \in [Keys -> 0..MaxFlights] /\ flight \in [Flights -> FlightStates]

\* Only a prefetch waits for a background token, only a match for a slot.
StageOf(c) ==
  /\ caller[c].pc = "prefetch" => c \in Background
  /\ caller[c].pc = "slot" => c \in Limiteds
Stages == \A c \in Callers : StageOf(c)

\* The channels hold one token per holder.
Tokens ==
  /\ slots = Cardinality(SearchingOf(caller)) /\ slots <= All
  /\ prefetches = Cardinality(HoldingOf(caller)) /\ prefetches <= Prefetch

\* A flight counts the callers that wait for it, is cancelled with the last of
\* them, and owns its key until then.
FlightOf(f) ==
  /\ flight[f].waiters = Cardinality(WaitersOf(caller, f))
  /\ flight[f].running => flight[f].key \in Keys /\ (flight[f].canceled <=> WaitersOf(caller, f) = {})
  /\ Live(f) => flights[flight[f].key] = f
OwnerOf(k) == flights[k] # 0 => Live(flights[k]) /\ flight[flights[k]].key = k
WaiterAt(c) == At(c, "wait") => caller[c].f \in Flights /\ flight[caller[c].f].key = keyOf[c]
Ownership ==
  /\ \A f \in Flights : FlightOf(f)
  /\ \A k \in Keys : OwnerOf(k)
  /\ \A c \in Callers : WaiterAt(c)

Cached == entries \subseteq Keys /\ IsFiniteSet(entries) /\ Cardinality(entries) <= searchCacheLimit

MatchInv == Shapes /\ Stages /\ Tokens /\ Ownership /\ Cached

-----------------------------------------------------------------------------
\* The callers, the holders of tokens and the waiters are finitely many.
LEMMA FiniteSides ==
  /\ IsFiniteSet(Callers) /\ Callers = First \cup Background \cup Direct
  /\ \A at : IsFiniteSet(SearchingOf(at)) /\ IsFiniteSet(HoldingOf(at)) /\ \A f : IsFiniteSet(WaitersOf(at, f))
<1>1. IsFiniteSet(Callers) /\ IsFiniteSet(Limiteds)
  BY MatchAssumption, FS_Union DEF Callers, Limiteds
<1> SUFFICES ASSUME NEW at
             PROVE  IsFiniteSet(SearchingOf(at)) /\ IsFiniteSet(HoldingOf(at)) /\ \A f : IsFiniteSet(WaitersOf(at, f))
  BY <1>1 DEF Callers
<1>2. SearchingOf(at) \in SUBSET Limiteds
  BY DEF SearchingOf
<1>3. HoldingOf(at) \in SUBSET Background
  BY DEF HoldingOf
<1>4. \A f : WaitersOf(at, f) \in SUBSET Callers
  BY DEF WaitersOf
<1> QED BY <1>1, <1>2, <1>3, <1>4, MatchAssumption, FS_Subset

\* A set of callers gains or loses one member.
LEMMA SetMoves ==
  ASSUME NEW S, IsFiniteSet(S), NEW T, NEW c, NEW n, n = Cardinality(S), NEW m,
         \A d : d # c => (d \in T <=> d \in S),
         (c \in S <=> c \in T) => m = n,
         c \notin S /\ c \in T => m = n + 1,
         c \in S /\ c \notin T => m = n - 1
  PROVE  m = Cardinality(T) /\ m \in Nat /\ n \in Nat
<1>1. n \in Nat
  BY FS_CardinalityType
<1>2. CASE c \in S <=> c \in T
  <2>1. S = T
    BY <1>2
  <2> QED BY <1>1, <1>2, <2>1
<1>3. CASE c \notin S /\ c \in T
  <2>1. T = S \cup {c}
    BY <1>3
  <2> QED BY <1>1, <1>3, <2>1, FS_AddElement
<1>4. CASE c \in S /\ c \notin T
  <2>1. T = S \ {c}
    BY <1>4
  <2>2. IsFiniteSet(T) /\ Cardinality(T) = n - 1
    BY <1>4, <2>1, FS_RemoveElement
  <2> QED BY <1>1, <1>4, <2>2, FS_CardinalityType
<1> QED BY <1>2, <1>3, <1>4

\* One caller moves to state r.
Moves(c, r) == c \in Callers /\ r \in CallerStates /\ caller' = [caller EXCEPT ![c] = r]
\* The caller that moves, and the others.
LEMMA MoveFacts ==
  ASSUME caller \in [Callers -> CallerStates], NEW c, NEW r, Moves(c, r)
  PROVE  /\ caller' \in [Callers -> CallerStates] /\ caller'[c] = r /\ c \in Callers
         /\ \A d \in Callers : d # c => caller'[d] = caller[d]
BY DEF Moves

\* The tokens after a move: taken and given back with the state of the caller.
LEMMA TokensMove ==
  ASSUME Shapes, Tokens, NEW c, NEW r, Moves(c, r),
         c \in Limiteds =>
           /\ caller[c].pc \notin {"look", "wait"} /\ r.pc \in {"look", "wait"} => slots' = slots + 1 /\ slots < All
           /\ caller[c].pc \in {"look", "wait"} /\ r.pc \notin {"look", "wait"} => slots' = slots - 1
           /\ (caller[c].pc \in {"look", "wait"} <=> r.pc \in {"look", "wait"}) => slots' = slots,
         c \notin Limiteds => slots' = slots,
         c \in Background =>
           /\ caller[c].pc \notin {"slot", "look", "wait"} /\ r.pc \in {"slot", "look", "wait"} =>
                prefetches' = prefetches + 1 /\ prefetches < Prefetch
           /\ caller[c].pc \in {"slot", "look", "wait"} /\ r.pc \notin {"slot", "look", "wait"} => prefetches' = prefetches - 1
           /\ (caller[c].pc \in {"slot", "look", "wait"} <=> r.pc \in {"slot", "look", "wait"}) => prefetches' = prefetches,
         c \notin Background => prefetches' = prefetches
  PROVE  Tokens'
<1>0. /\ caller'[c] = r /\ c \in Callers /\ \A d \in Callers : d # c => caller'[d] = caller[d]
  BY MoveFacts DEF Shapes
<1>1. /\ c \in SearchingOf(caller) <=> c \in Limiteds /\ caller[c].pc \in {"look", "wait"}
      /\ c \in SearchingOf(caller') <=> c \in Limiteds /\ r.pc \in {"look", "wait"}
      /\ c \in HoldingOf(caller) <=> c \in Background /\ caller[c].pc \in {"slot", "look", "wait"}
      /\ c \in HoldingOf(caller') <=> c \in Background /\ r.pc \in {"slot", "look", "wait"}
  BY <1>0 DEF SearchingOf, HoldingOf
<1>2. /\ \A d : d # c => (d \in SearchingOf(caller') <=> d \in SearchingOf(caller))
      /\ \A d : d # c => (d \in HoldingOf(caller') <=> d \in HoldingOf(caller))
  BY <1>0 DEF SearchingOf, HoldingOf, Limiteds, Callers
<1> DEFINE S == SearchingOf(caller) T == SearchingOf(caller') U == HoldingOf(caller) V == HoldingOf(caller')
<1>3. IsFiniteSet(S) /\ IsFiniteSet(U) /\ slots = Cardinality(S) /\ prefetches = Cardinality(U)
  BY FiniteSides DEF Tokens
<1>4. /\ (c \in S <=> c \in T) => slots' = slots
      /\ c \notin S /\ c \in T => slots' = slots + 1
      /\ c \in S /\ c \notin T => slots' = slots - 1
      /\ c \notin S /\ c \in T => slots < All
  BY <1>1
<1>5. /\ (c \in U <=> c \in V) => prefetches' = prefetches
      /\ c \notin U /\ c \in V => prefetches' = prefetches + 1
      /\ c \in U /\ c \notin V => prefetches' = prefetches - 1
      /\ c \notin U /\ c \in V => prefetches < Prefetch
  BY <1>1
<1> HIDE DEF S, T, U, V
<1>6. slots' = Cardinality(T) /\ slots' \in Nat /\ slots \in Nat
  BY <1>2, <1>3, <1>4, SetMoves DEF S, T
<1>7. prefetches' = Cardinality(V) /\ prefetches' \in Nat /\ prefetches \in Nat
  BY <1>2, <1>3, <1>5, SetMoves DEF U, V
<1>8. slots' <= All /\ prefetches' <= Prefetch
  BY <1>4, <1>5, <1>6, <1>7, MatchAssumption DEF Tokens
<1> QED BY <1>6, <1>7, <1>8 DEF Tokens, T, V

-----------------------------------------------------------------------------
\* Nobody starts or ends waiting, and no flight changes.
LEMMA QuietFlights ==
  ASSUME Shapes, Ownership, NEW c, NEW r, Moves(c, r), caller[c].pc # "wait", r.pc # "wait", UNCHANGED <<flights, flight>>
  PROVE  Shapes' /\ Ownership'
<1>0. /\ caller' \in [Callers -> CallerStates] /\ caller'[c] = r /\ c \in Callers
      /\ \A d \in Callers : d # c => caller'[d] = caller[d]
  BY MoveFacts DEF Shapes
<1>1. Shapes'
  BY <1>0 DEF Shapes
<1>2. \A f : WaitersOf(caller', f) = WaitersOf(caller, f)
  BY <1>0 DEF WaitersOf
<1>3. \A f \in Flights : FlightOf(f)'
  BY <1>2 DEF Ownership, FlightOf, Live
<1>4. \A k \in Keys : OwnerOf(k)'
  BY DEF Ownership, OwnerOf, Live
<1>5. \A d \in Callers : WaiterAt(d)'
  BY <1>0 DEF Ownership, WaiterAt, At
<1> QED BY <1>1, <1>3, <1>4, <1>5 DEF Ownership

\* The cache stays within its limit while it does not change.
LEMMA StillCached == ASSUME Cached, UNCHANGED entries PROVE Cached'
BY DEF Cached

\* Records of callers and flights.
LEMMA Records ==
  /\ Away \in CallerStates /\ Away.pc = "away" /\ Away.f = 0
  /\ \A p \in {"away", "prefetch", "slot", "look", "wait"}, f \in 0..MaxFlights :
       /\ [pc |-> p, f |-> f] \in CallerStates /\ [pc |-> p, f |-> f].pc = p /\ [pc |-> p, f |-> f].f = f
  /\ \A k \in Keys : /\ NewFlight(k) \in FlightStates /\ NewFlight(k).key = k /\ NewFlight(k).running
                     /\ NewFlight(k).waiters = 1 /\ ~NewFlight(k).canceled
BY MatchAssumption DEF Away, CallerStates, NewFlight, FlightStates

\* Goes changes where a caller is and nothing else of it.
LEMMA GoesMoves ==
  ASSUME Shapes, NEW c \in Callers, NEW p \in {"away", "prefetch", "slot", "look", "wait"}, Goes(c, p)
  PROVE  Moves(c, [pc |-> p, f |-> caller[c].f]) /\ [pc |-> p, f |-> caller[c].f].pc = p
<1>1. caller[c] \in CallerStates /\ caller[c].f \in 0..MaxFlights
  BY DEF Shapes, CallerStates
<1>2. caller' = [caller EXCEPT ![c] = [caller[c] EXCEPT !.pc = p]]
  BY DEF Goes
<1>3. [caller[c] EXCEPT !.pc = p] = [pc |-> p, f |-> caller[c].f]
  BY <1>1 DEF CallerStates
<1> QED BY <1>1, <1>2, <1>3, Records DEF Moves

\* A move to a channel of the limiter by a caller that uses it.
LEMMA StagesMove ==
  ASSUME Shapes, Stages, NEW c, NEW r, Moves(c, r), r.pc = "prefetch" => c \in Background, r.pc = "slot" => c \in Limiteds
  PROVE  Stages'
<1>1. caller'[c] = r /\ \A d \in Callers : d # c => caller'[d] = caller[d]
  BY MoveFacts DEF Shapes
<1> QED BY <1>1 DEF Stages, StageOf

\* The steps of MatchLimiter.acquire.
LEMMA AcquireKeeps ==
  ASSUME MatchInv, NEW c \in Callers, Request(c) \/ TakePrefetch(c) \/ TakeSlot(c) \/ AcquireCanceled(c)
  PROVE  MatchInv'
<1>0. Shapes /\ Stages /\ Tokens /\ Ownership /\ Cached /\ UNCHANGED <<flights, flight, entries>> /\ StageOf(c)
  BY DEF MatchInv, Request, TakePrefetch, TakeSlot, AcquireCanceled, cache, Stages
<1>1. CASE Request(c)
  <2>1. PICK p \in {"prefetch", "slot", "look"} :
          /\ Goes(c, p) /\ caller[c].pc = "away" /\ UNCHANGED <<slots, prefetches>>
          /\ c \in Background <=> p = "prefetch"
          /\ c \in First <=> p = "slot"
    BY <1>1, MatchAssumption DEF Request, At, limits
  <2> DEFINE r == [pc |-> p, f |-> caller[c].f]
  <2>2. Moves(c, r) /\ r.pc = p
    BY <1>0, <2>1, GoesMoves
  <2> HIDE DEF r
  <2>3. Tokens'
    BY <1>0, <2>1, <2>2, TokensMove DEF Limiteds
  <2>4. Stages'
    BY <1>0, <2>1, <2>2, StagesMove DEF Limiteds
  <2> QED BY <1>0, <2>1, <2>2, <2>3, <2>4, QuietFlights, StillCached DEF MatchInv
<1>2. CASE TakePrefetch(c)
  <2>1. Goes(c, "slot") /\ caller[c].pc = "prefetch" /\ prefetches' = prefetches + 1 /\ prefetches < Prefetch /\ slots' = slots
    BY <1>2 DEF TakePrefetch, At
  <2> DEFINE r == [pc |-> "slot", f |-> caller[c].f]
  <2>2. Moves(c, r) /\ r.pc = "slot"
    BY <1>0, <2>1, GoesMoves
  <2> HIDE DEF r
  <2>3. c \in Background /\ c \in Limiteds
    BY <1>0, <2>1 DEF StageOf, Limiteds
  <2>4. Tokens'
    BY <1>0, <2>1, <2>2, <2>3, TokensMove
  <2>5. Stages'
    BY <1>0, <2>1, <2>2, <2>3, StagesMove
  <2> QED BY <1>0, <2>1, <2>2, <2>4, <2>5, QuietFlights, StillCached DEF MatchInv
<1>3. CASE TakeSlot(c)
  <2>1. Goes(c, "look") /\ caller[c].pc = "slot" /\ slots' = slots + 1 /\ slots < All /\ prefetches' = prefetches
    BY <1>3 DEF TakeSlot, At
  <2> DEFINE r == [pc |-> "look", f |-> caller[c].f]
  <2>2. Moves(c, r) /\ r.pc = "look"
    BY <1>0, <2>1, GoesMoves
  <2> HIDE DEF r
  <2>3. c \in Limiteds
    BY <1>0, <2>1 DEF StageOf
  <2>4. Tokens'
    BY <1>0, <2>1, <2>2, <2>3, TokensMove
  <2>5. Stages'
    BY <1>0, <2>1, <2>2, <2>3, StagesMove
  <2> QED BY <1>0, <2>1, <2>2, <2>4, <2>5, QuietFlights, StillCached DEF MatchInv
<1>4. CASE AcquireCanceled(c)
  <2>1. /\ caller[c].pc \in {"prefetch", "slot"} /\ caller' = [caller EXCEPT ![c] = Away] /\ slots' = slots
        /\ caller[c].pc = "slot" /\ c \in Background => prefetches' = prefetches - 1
        /\ ~(caller[c].pc = "slot" /\ c \in Background) => prefetches' = prefetches
    BY <1>4 DEF AcquireCanceled, At
  <2>2. Moves(c, Away) /\ Away.pc = "away"
    BY <2>1, Records DEF Moves
  <2>4. Tokens'
    BY <1>0, <2>1, <2>2, TokensMove
  <2>5. Stages'
    BY <1>0, <2>1, <2>2, StagesMove
  <2> QED BY <1>0, <2>1, <2>2, <2>4, <2>5, QuietFlights, StillCached DEF MatchInv
<1> QED BY <1>1, <1>2, <1>3, <1>4

\* The end of a match gives back what it holds.
LEMMA ReleaseTokens ==
  ASSUME Shapes, Stages, Tokens, NEW c \in Callers, Release(c), caller[c].pc \in {"look", "wait"}
  PROVE  Moves(c, Away) /\ Tokens' /\ Stages'
<1>1. Moves(c, Away) /\ Away.pc = "away"
  BY Records DEF Moves, Release
<1>2. /\ c \in Limiteds => slots' = slots - 1
      /\ c \notin Limiteds => slots' = slots
      /\ c \in Background => prefetches' = prefetches - 1
      /\ c \notin Background => prefetches' = prefetches
  BY DEF Release, Limited, Limiteds
<1>3. Tokens'
  BY <1>1, <1>2, TokensMove
<1> QED BY <1>1, <1>3, StagesMove

\* A cache hit or a dead context ends the match.
LEMMA ReturnKeeps ==
  ASSUME MatchInv, NEW c \in Callers, Return(c)
  PROVE  MatchInv'
<1>1. caller[c].pc = "look" /\ Release(c) /\ UNCHANGED <<flights, flight, entries>>
  BY DEF Return, At, cache
<1>2. Moves(c, Away) /\ Tokens' /\ Stages'
  BY <1>1, ReleaseTokens DEF MatchInv
<1> QED BY <1>1, <1>2, QuietFlights, StillCached, Records DEF MatchInv

-----------------------------------------------------------------------------
\* One flight object changes.
LEMMA FlightFacts ==
  ASSUME flight \in [Flights -> FlightStates], NEW f \in Flights, NEW r \in FlightStates, flight' = [flight EXCEPT ![f] = r]
  PROVE  /\ flight' \in [Flights -> FlightStates] /\ flight'[f] = r
         /\ \A h \in Flights : h # f => flight'[h] = flight[h]
OBVIOUS

\* One key changes its flight.
LEMMA OwnedFacts ==
  ASSUME flights \in [Keys -> 0..MaxFlights], NEW k \in Keys, NEW f \in 0..MaxFlights, flights' = [flights EXCEPT ![k] = f]
  PROVE  /\ flights' \in [Keys -> 0..MaxFlights] /\ flights'[k] = f
         /\ \A j \in Keys : j # k => flights'[j] = flights[j]
OBVIOUS

\* The callers that wait for a flight, after one begins or stops to wait.
LEMMA WaitersMove ==
  ASSUME Shapes, NEW c, NEW r, Moves(c, r)
  PROVE  \A f : /\ \A d : d # c => (d \in WaitersOf(caller', f) <=> d \in WaitersOf(caller, f))
                /\ c \in WaitersOf(caller', f) <=> r.pc = "wait" /\ r.f = f
                /\ c \in WaitersOf(caller, f) <=> caller[c].pc = "wait" /\ caller[c].f = f
BY MoveFacts DEF WaitersOf, Shapes

\* The flight object that Join takes exists.
LEMMA LeastExists ==
  ASSUME NEW S \in SUBSET Nat, S # {}
  PROVE  \E g \in S : \A h \in S : g <= h
<1>1. PICK g \in S : \A h \in S : ~(<<h, g>> \in OpToRel(<, Nat))
  BY NatLessThanWellFounded, WFMin
<1>2. \A h \in S : ~(h < g)
  BY <1>1 DEF OpToRel
<1> QED BY <1>2

\* A caller begins to wait for flight f.
LEMMA WaitMoves ==
  ASSUME NEW c \in Callers, NEW f \in Flights, caller' = [caller EXCEPT ![c] = [pc |-> "wait", f |-> f]]
  PROVE  Moves(c, [pc |-> "wait", f |-> f]) /\ [pc |-> "wait", f |-> f].pc = "wait" /\ [pc |-> "wait", f |-> f].f = f
<1>1. f \in 0..MaxFlights
  BY MatchAssumption DEF Flights
<1> QED BY <1>1, Records DEF Moves

\* A miss joins the flight of its key or starts one.
LEMMA JoinKeeps ==
  ASSUME MatchInv, NEW c \in Callers, Join(c)
  PROVE  MatchInv'
<1>0. /\ Shapes /\ Stages /\ Tokens /\ Ownership /\ Cached
      /\ caller[c].pc = "look" /\ UNCHANGED <<slots, prefetches, entries>> /\ keyOf[c] \in Keys
      /\ \A f \in Flights : FlightOf(f)
      /\ \A k \in Keys : OwnerOf(k)
      /\ \A d \in Callers : WaiterAt(d)
  BY DEF MatchInv, Join, At, limits, Keys, Ownership
<1>1. \A r : Moves(c, r) /\ r.pc = "wait" => Tokens' /\ Stages'
  BY <1>0, TokensMove, StagesMove
<1> DEFINE k == keyOf[c] f == flights[k]
<1>2. ASSUME f # 0, flight' = [flight EXCEPT ![f].waiters = @ + 1], caller' = [caller EXCEPT ![c] = [pc |-> "wait", f |-> f]],
             UNCHANGED flights
      PROVE  MatchInv'
  <2>1. f \in Flights /\ Live(f) /\ flight[f].key = k
    BY <1>0, <1>2, MatchAssumption DEF OwnerOf, Shapes, Flights
  <2> DEFINE r == [pc |-> "wait", f |-> f] s == [flight[f] EXCEPT !.waiters = @ + 1]
  <2>2. Moves(c, r) /\ r.pc = "wait" /\ r.f = f
    BY <1>2, <2>1, WaitMoves
  <2>3. /\ s \in FlightStates /\ s.key = flight[f].key /\ s.running = flight[f].running
        /\ s.canceled = flight[f].canceled /\ s.waiters = flight[f].waiters + 1
        /\ flight[f].waiters \in Nat
    BY <1>0, <2>1 DEF Shapes, FlightStates
  <2>4. flight' = [flight EXCEPT ![f] = s]
    BY <1>2
  <2> HIDE DEF r, s, f, k
  <2>5. /\ flight' \in [Flights -> FlightStates] /\ flight'[f] = s
        /\ \A h \in Flights : h # f => flight'[h] = flight[h]
    BY <1>0, <2>1, <2>3, <2>4, FlightFacts DEF Shapes
  <2>6. /\ caller' \in [Callers -> CallerStates] /\ caller'[c] = r
        /\ \A d \in Callers : d # c => caller'[d] = caller[d]
    BY <1>0, <2>2, MoveFacts DEF Shapes
  <2>7. \A h : /\ \A d : d # c => (d \in WaitersOf(caller', h) <=> d \in WaitersOf(caller, h))
               /\ c \in WaitersOf(caller', h) <=> h = f
               /\ c \notin WaitersOf(caller, h)
    BY <1>0, <2>2, WaitersMove
  <2>8. Shapes'
    BY <1>0, <1>2, <2>5, <2>6 DEF Shapes
  <2>9. ASSUME NEW h \in Flights PROVE FlightOf(h)'
    <3>1. CASE h # f
      <4>1. WaitersOf(caller', h) = WaitersOf(caller, h)
        BY <2>7, <3>1
      <4> QED BY <1>0, <1>2, <2>5, <3>1, <4>1 DEF FlightOf, Live
    <3>2. CASE h = f
      <4> DEFINE S == WaitersOf(caller, f) T == WaitersOf(caller', f) n == flight[f].waiters m == s.waiters
      <4>0. /\ IsFiniteSet(S) /\ n = Cardinality(S) /\ m = n + 1 /\ c \notin S /\ c \in T
            /\ \A d : d # c => (d \in T <=> d \in S)
        BY <1>0, <2>1, <2>3, <2>7, FiniteSides DEF FlightOf
      <4> HIDE DEF S, T, n, m
      <4>2. T = S \cup {c} /\ T # {}
        BY <4>0
      <4>3. m = Cardinality(T)
        BY <4>0, <4>2, FS_AddElement
      <4>1. s.waiters = Cardinality(WaitersOf(caller', f)) /\ WaitersOf(caller', f) # {}
        BY <4>2, <4>3 DEF S, T, m
      <4> QED BY <1>0, <1>2, <2>1, <2>3, <2>5, <3>2, <4>1 DEF FlightOf, Live
    <3> QED BY <3>1, <3>2
  <2>10. ASSUME NEW j \in Keys PROVE OwnerOf(j)'
    <3>1. flights[j] \in 0..MaxFlights /\ (flights[j] # 0 => flights[j] \in Flights)
      BY <1>0, MatchAssumption DEF Shapes, Flights
    <3> QED BY <1>0, <1>2, <2>3, <2>5, <3>1 DEF OwnerOf, Live
  <2>11. ASSUME NEW d \in Callers PROVE WaiterAt(d)'
    <3>1. WaiterAt(d)
      BY <1>0
    <3>2. CASE d = c
      BY <2>1, <2>2, <2>3, <2>5, <2>6, <3>2 DEF WaiterAt, k
    <3>3. CASE d # c
      BY <2>3, <2>5, <2>6, <3>1, <3>3 DEF WaiterAt, At
    <3> QED BY <3>2, <3>3
  <2>12. Ownership'
    BY <2>9, <2>10, <2>11 DEF Ownership
  <2>13. Tokens' /\ Stages'
    BY <1>1, <2>1, <2>2
  <2> QED BY <1>0, <2>8, <2>12, <2>13, StillCached DEF MatchInv
<1>3. ASSUME f = 0, NEW g \in UnusedFlights, flight' = [flight EXCEPT ![g] = NewFlight(k)],
             flights' = [flights EXCEPT ![k] = g], caller' = [caller EXCEPT ![c] = [pc |-> "wait", f |-> g]]
      PROVE  MatchInv'
  <2>1. g \in Flights /\ ~flight[g].running /\ flight[g].waiters = 0 /\ g # 0 /\ g \in 0..MaxFlights
    BY <1>3, MatchAssumption DEF UnusedFlights, Flights
  <2> DEFINE r == [pc |-> "wait", f |-> g] s == NewFlight(k)
  <2>2. Moves(c, r) /\ r.pc = "wait" /\ r.f = g
    BY <1>3, <2>1, WaitMoves
  <2>3. s \in FlightStates /\ s.key = k /\ s.running /\ s.waiters = 1 /\ ~s.canceled
    BY <1>0, Records
  <2>4. flight' = [flight EXCEPT ![g] = s] /\ f = flights[k] /\ k \in Keys /\ keyOf[c] = k
    BY <1>0, <1>3
  <2> HIDE DEF r, s, f, k
  <2>5. /\ flight' \in [Flights -> FlightStates] /\ flight'[g] = s
        /\ \A h \in Flights : h # g => flight'[h] = flight[h]
    BY <1>0, <2>1, <2>3, <2>4, FlightFacts DEF Shapes
  <2>6. /\ caller' \in [Callers -> CallerStates] /\ caller'[c] = r
        /\ \A d \in Callers : d # c => caller'[d] = caller[d]
    BY <1>0, <2>2, MoveFacts DEF Shapes
  <2>7. /\ flights' \in [Keys -> 0..MaxFlights] /\ flights'[k] = g
        /\ \A j \in Keys : j # k => flights'[j] = flights[j]
    BY <1>0, <1>3, <2>1, <2>4, OwnedFacts DEF Shapes
  <2>8. \A h : /\ \A d : d # c => (d \in WaitersOf(caller', h) <=> d \in WaitersOf(caller, h))
               /\ c \in WaitersOf(caller', h) <=> h = g
               /\ c \notin WaitersOf(caller, h)
    BY <1>0, <2>2, WaitersMove
  <2>9. WaitersOf(caller, g) = {}
    BY <1>0, <2>1, FiniteSides, FS_EmptySet DEF FlightOf
  <2>10. Shapes'
    BY <2>5, <2>6, <2>7 DEF Shapes
  <2>11. ASSUME NEW h \in Flights PROVE FlightOf(h)'
    <3>1. CASE h # g
      <4>1. WaitersOf(caller', h) = WaitersOf(caller, h)
        BY <2>8, <3>1
      <4>2. Live(h) => flight[h].key # k /\ flight[h].key \in Keys
        BY <1>0, <1>3, <2>4, <3>1, MatchAssumption DEF FlightOf, Live, Flights
      <4> QED BY <1>0, <2>5, <2>7, <3>1, <4>1, <4>2 DEF FlightOf, Live
    <3>2. CASE h = g
      <4> DEFINE S == WaitersOf(caller, g) T == WaitersOf(caller', g) n == flight[g].waiters m == s.waiters
      <4>0. /\ IsFiniteSet(S) /\ n = Cardinality(S) /\ m = n + 1 /\ c \notin S /\ c \in T
            /\ \A d : d # c => (d \in T <=> d \in S)
        <5>1. IsFiniteSet(S) /\ FlightOf(g)
          BY <1>0, <2>1, FiniteSides
        <5>2. n = Cardinality(S) /\ m = n + 1
          BY <2>1, <2>3, <5>1 DEF FlightOf
        <5> QED BY <2>8, <5>1, <5>2
      <4> HIDE DEF S, T, n, m
      <4>2. T = S \cup {c} /\ T # {}
        BY <4>0
      <4>3. m = Cardinality(T)
        BY <4>0, <4>2, FS_AddElement
      <4>1. s.waiters = Cardinality(WaitersOf(caller', g)) /\ WaitersOf(caller', g) # {}
        BY <4>2, <4>3 DEF S, T, m
      <4> QED BY <2>3, <2>4, <2>5, <2>7, <3>2, <4>1 DEF FlightOf, Live
    <3> QED BY <3>1, <3>2
  <2>12. ASSUME NEW j \in Keys PROVE OwnerOf(j)'
    <3>1. flights[j] \in 0..MaxFlights /\ (flights[j] # 0 => flights[j] \in Flights)
      BY <1>0, MatchAssumption DEF Shapes, Flights
    <3>2. CASE j = k
      BY <2>3, <2>5, <2>7, <3>2 DEF OwnerOf, Live
    <3>3. CASE j # k
      BY <1>0, <2>1, <2>5, <2>7, <3>1, <3>3 DEF OwnerOf, Live
    <3> QED BY <3>2, <3>3
  <2>13. ASSUME NEW d \in Callers PROVE WaiterAt(d)'
    <3>1. WaiterAt(d)
      BY <1>0
    <3>2. CASE d = c
      BY <2>1, <2>2, <2>3, <2>4, <2>5, <2>6, <3>2 DEF WaiterAt
    <3>3. CASE d # c
      <4>1. At(d, "wait") => caller[d].f # g
        BY <2>9 DEF WaitersOf, At
      <4> QED BY <2>5, <2>6, <3>1, <3>3, <4>1 DEF WaiterAt, At
    <3> QED BY <3>2, <3>3
  <2>14. Ownership'
    BY <2>11, <2>12, <2>13 DEF Ownership
  <2>15. Tokens' /\ Stages'
    BY <1>1, <2>1, <2>2
  <2> QED BY <1>0, <2>10, <2>14, <2>15, StillCached DEF MatchInv
<1>4. CASE f # 0
  BY <1>2, <1>4 DEF Join
<1>5. CASE f = 0
  <2>1. UnusedFlights # {}
    BY <1>5 DEF Join
  <2>2. UnusedFlights \in SUBSET Nat
    BY MatchAssumption DEF UnusedFlights
  <2> DEFINE g == CHOOSE g \in UnusedFlights : \A h \in UnusedFlights : g <= h
  <2>3. g \in UnusedFlights
    BY <2>1, <2>2, LeastExists
  <2>4. /\ flight' = [flight EXCEPT ![g] = NewFlight(k)] /\ flights' = [flights EXCEPT ![k] = g]
        /\ caller' = [caller EXCEPT ![c] = [pc |-> "wait", f |-> g]]
    BY <1>5 DEF Join
  <2> HIDE DEF g
  <2> QED BY <1>3, <1>5, <2>3, <2>4
<1> QED BY <1>4, <1>5

-----------------------------------------------------------------------------
\* A stored result keeps the cache within its limit.
LEMMA PutKeeps ==
  ASSUME Cached, NEW k \in Keys, Put(k)
  PROVE  Cached'
<1>0. /\ entries \subseteq Keys /\ IsFiniteSet(entries) /\ Cardinality(entries) \in Nat
      /\ Cardinality(entries) <= searchCacheLimit /\ searchCacheLimit \in Nat
  BY MatchAssumption, FS_CardinalityType DEF Cached
<1>1. ASSUME NEW victim \in entries, k \notin entries, entries' = (entries \ {victim}) \cup {k}
      PROVE  Cached'
  <2> DEFINE S == entries \ {victim}
  <2>1. IsFiniteSet(S) /\ Cardinality(S) = Cardinality(entries) - 1 /\ k \notin S
    BY <1>0, <1>1, FS_RemoveElement
  <2>2. IsFiniteSet(S \cup {k}) /\ Cardinality(S \cup {k}) = Cardinality(S) + 1
    BY <2>1, FS_AddElement
  <2>3. entries' = S \cup {k} /\ S \cup {k} \subseteq Keys
    BY <1>0, <1>1
  <2> HIDE DEF S
  <2>4. Cardinality(S \cup {k}) <= searchCacheLimit
    BY <1>0, <2>1, <2>2
  <2> QED BY <2>2, <2>3, <2>4 DEF Cached
<1>2. ASSUME k \in entries \/ ~(Cardinality(entries) >= searchCacheLimit), entries' = entries \cup {k}
      PROVE  Cached'
  <2>1. CASE k \in entries
    <3>1. entries' = entries
      BY <1>2, <2>1
    <3> QED BY <3>1, StillCached
  <2>2. CASE k \notin entries
    <3>1. IsFiniteSet(entries \cup {k}) /\ Cardinality(entries \cup {k}) = Cardinality(entries) + 1
      BY <1>0, <2>2, FS_AddElement
    <3>2. Cardinality(entries \cup {k}) <= searchCacheLimit /\ entries \cup {k} \subseteq Keys
      BY <1>0, <1>2, <2>2, <3>1
    <3> QED BY <1>2, <3>1, <3>2 DEF Cached
  <2> QED BY <2>1, <2>2
<1> QED BY <1>1, <1>2 DEF Put

\* An entry leaves the cache.
LEMMA DropKeeps ==
  ASSUME MatchInv, NEW k \in Keys, Drop(k)
  PROVE  MatchInv'
<1>1. k \in entries /\ entries' = entries \ {k} /\ UNCHANGED <<caller, slots, prefetches, flights, flight>>
  BY DEF Drop, limits
<1>2. IsFiniteSet(entries \ {k}) /\ Cardinality(entries \ {k}) = Cardinality(entries) - 1
  BY <1>1, FS_RemoveElement DEF MatchInv, Cached
<1>3. Cardinality(entries) \in Nat /\ Cardinality(entries) <= searchCacheLimit /\ searchCacheLimit \in Nat /\ entries \subseteq Keys
  BY MatchAssumption, FS_CardinalityType DEF MatchInv, Cached
<1>4. Cardinality(entries \ {k}) <= searchCacheLimit /\ entries \ {k} \subseteq Keys
  BY <1>2, <1>3
<1>5. Cached'
  BY <1>1, <1>2, <1>4 DEF Cached
<1>6. Shapes' /\ Stages' /\ Tokens'
  BY <1>1 DEF MatchInv, Shapes, Stages, StageOf, Tokens
<1>7. Ownership'
  BY <1>1 DEF MatchInv, Ownership, FlightOf, OwnerOf, WaiterAt, Live, At
<1> QED BY <1>5, <1>6, <1>7 DEF MatchInv

\* A search ends, with or without owning its key.
LEMMA FlightEndsKeeps ==
  ASSUME MatchInv, NEW f \in Flights, NEW ok \in BOOLEAN, FlightEnds(f, ok)
  PROVE  MatchInv'
<1>0. /\ Shapes /\ Stages /\ Tokens /\ Ownership /\ Cached
      /\ flight[f].running /\ flight[f].key \in Keys /\ UNCHANGED <<caller, slots, prefetches>>
      /\ \A h \in Flights : FlightOf(h)
      /\ \A k \in Keys : OwnerOf(k)
      /\ \A d \in Callers : WaiterAt(d)
  BY DEF MatchInv, FlightEnds, limits, Ownership, FlightOf
<1> DEFINE k == flight[f].key s == [flight[f] EXCEPT !.running = FALSE]
<1>1. /\ s \in FlightStates /\ s.key = k /\ ~s.running /\ s.canceled = flight[f].canceled /\ s.waiters = flight[f].waiters
      /\ flight' = [flight EXCEPT ![f] = s]
  BY <1>0 DEF Shapes, FlightStates, FlightEnds
<1>2. \/ flights[k] = f /\ flights' = [flights EXCEPT ![k] = 0]
      \/ flights[k] # f /\ flights' = flights
  BY DEF FlightEnds
<1>3. Cached'
  <2>1. Put(k) \/ UNCHANGED entries
    BY DEF FlightEnds
  <2> QED BY <1>0, <2>1, PutKeeps, StillCached
<1> HIDE DEF s
<1>4. /\ flight' \in [Flights -> FlightStates] /\ flight'[f] = s
      /\ \A h \in Flights : h # f => flight'[h] = flight[h]
  BY <1>0, <1>1, FlightFacts DEF Shapes
<1>5. /\ flights' \in [Keys -> 0..MaxFlights]
      /\ flights[k] = f => flights'[k] = 0
      /\ flights[k] # f => flights' = flights
      /\ \A j \in Keys : j # k => flights'[j] = flights[j]
  <2>1. CASE flights[k] = f /\ flights' = [flights EXCEPT ![k] = 0]
    BY <1>0, <2>1, OwnedFacts, MatchAssumption DEF Shapes
  <2>2. CASE flights[k] # f /\ flights' = flights
    BY <1>0, <2>2 DEF Shapes
  <2> QED BY <1>2, <2>1, <2>2
<1>6. Shapes' /\ Stages' /\ Tokens'
  BY <1>0, <1>4, <1>5 DEF Shapes, Stages, StageOf, Tokens
<1>7. ASSUME NEW h \in Flights PROVE FlightOf(h)'
  <2>0. FlightOf(h) /\ FlightOf(f)
    BY <1>0
  <2>1. CASE h = f
    BY <1>0, <1>1, <1>4, <2>0, <2>1 DEF FlightOf, Live
  <2>2. CASE h # f
    <3>1. Live(h) => flight[h].key \in Keys /\ flights[flight[h].key] = h
      BY <2>0 DEF FlightOf, Live
    <3>2. Live(h) => flights'[flight[h].key] = h
      BY <1>5, <2>2, <3>1
    <3> QED BY <1>0, <1>4, <2>0, <2>2, <3>2 DEF FlightOf, Live
  <2> QED BY <2>1, <2>2
<1>8. ASSUME NEW j \in Keys PROVE OwnerOf(j)'
  <2>0. OwnerOf(j) /\ (flights[j] # 0 => flights[j] \in Flights)
    BY <1>0, MatchAssumption DEF Shapes, Flights
  <2>1. flights'[j] # 0 => flights'[j] = flights[j] /\ flights[j] # f
    BY <1>0, <1>5, <2>0 DEF OwnerOf
  <2> QED BY <1>4, <2>0, <2>1 DEF OwnerOf, Live
<1>9. ASSUME NEW d \in Callers PROVE WaiterAt(d)'
  <2>1. WaiterAt(d)
    BY <1>0
  <2> QED BY <1>0, <1>1, <1>4, <2>1 DEF WaiterAt, At
<1> QED BY <1>3, <1>6, <1>7, <1>8, <1>9 DEF MatchInv, Ownership

\* A waiter leaves; the last one cancels the search and frees the key.
LEMMA LeavesKeeps ==
  ASSUME MatchInv, NEW c \in Callers, At(c, "wait"), Leaves(c)
  PROVE  MatchInv'
<1> DEFINE f == caller[c].f k == keyOf[c] last == flight[f].waiters = 1
           s == [key |-> flight[f].key, running |-> flight[f].running, waiters |-> flight[f].waiters - 1,
                 canceled |-> flight[f].canceled \/ last]
<1>0. /\ Shapes /\ Stages /\ Tokens /\ Ownership /\ Cached
      /\ caller[c].pc = "wait" /\ Release(c) /\ Depart(c) /\ UNCHANGED entries /\ k \in Keys
      /\ \A h \in Flights : FlightOf(h)
      /\ \A j \in Keys : OwnerOf(j)
      /\ \A d \in Callers : WaiterAt(d)
  BY DEF MatchInv, Leaves, At, Ownership, Keys
<1>1. f \in Flights /\ flight[f].key = k /\ flight[f] \in FlightStates
  BY <1>0 DEF WaiterAt, At, Shapes
<1>2. Moves(c, Away) /\ Tokens' /\ Stages' /\ Away.pc = "away"
  BY <1>0, ReleaseTokens, Records
<1>3. /\ flight' = [flight EXCEPT ![f] = s]
      /\ flights' = IF last /\ flights[k] = f THEN [flights EXCEPT ![k] = 0] ELSE flights
  BY <1>0 DEF Depart
<1> DEFINE S == WaitersOf(caller, f) T == WaitersOf(caller', f) n == flight[f].waiters
<1>4. IsFiniteSet(S) /\ n = Cardinality(S) /\ c \in S /\ T = S \ {c}
  <2>1. /\ \A d : d # c => (d \in T <=> d \in S)
        /\ c \in S /\ c \notin T
    BY <1>0, <1>2, WaitersMove
  <2> QED BY <1>0, <1>1, <2>1, FiniteSides DEF FlightOf
<1>5. n \in Nat /\ n - 1 \in Nat /\ n - 1 = Cardinality(T) /\ (n = 1 <=> T = {})
  <2> HIDE DEF S, T, n
  <2>1. IsFiniteSet(T) /\ Cardinality(T) = n - 1
    BY <1>4, FS_RemoveElement
  <2>2. n \in Nat /\ Cardinality(T) \in Nat /\ (Cardinality(T) = 0 <=> T = {})
    BY <1>4, <2>1, FS_CardinalityType, FS_EmptySet
  <2> QED BY <2>1, <2>2
<1>6. /\ s \in FlightStates /\ s.key = k /\ s.running = flight[f].running /\ s.waiters = n - 1
      /\ s.canceled <=> flight[f].canceled \/ last
  BY <1>1, <1>5 DEF FlightStates
<1>7. /\ flight' \in [Flights -> FlightStates] /\ flight'[f] = s
      /\ \A h \in Flights : h # f => flight'[h] = flight[h]
  <2> HIDE DEF s, f
  <2> QED BY <1>0, <1>1, <1>3, <1>6, FlightFacts DEF Shapes
<1>8. /\ flights' \in [Keys -> 0..MaxFlights]
      /\ last /\ flights[k] = f => flights'[k] = 0
      /\ ~(last /\ flights[k] = f) => flights' = flights
      /\ \A j \in Keys : j # k => flights'[j] = flights[j]
  <2>1. CASE last /\ flights[k] = f
    BY <1>0, <1>3, <2>1, OwnedFacts, MatchAssumption DEF Shapes
  <2>2. CASE ~(last /\ flights[k] = f)
    BY <1>0, <1>3, <2>2 DEF Shapes
  <2> QED BY <2>1, <2>2
<1>9. /\ caller' \in [Callers -> CallerStates] /\ caller'[c] = Away
      /\ \A d \in Callers : d # c => caller'[d] = caller[d]
  BY <1>0, <1>2, MoveFacts DEF Shapes
<1>10. Shapes'
  BY <1>7, <1>8, <1>9 DEF Shapes
<1>11. last <=> T = {}
  BY <1>5
<1>12. T = WaitersOf(caller', f) /\ S = WaitersOf(caller, f) /\ S # {}
  BY <1>4
<1> HIDE DEF f, k, last, s, S, T, n
<1>13. ASSUME NEW h \in Flights PROVE FlightOf(h)'
  <2>0. FlightOf(h) /\ FlightOf(f)
    BY <1>0, <1>1
  <2>1. CASE h = f
    <3>1. flight[f].running => ~flight[f].canceled
      BY <1>12, <2>0 DEF FlightOf
    <3>2. flight'[f].waiters = Cardinality(WaitersOf(caller', f))
      BY <1>5, <1>6, <1>7, <1>12
    <3>3. flight'[f].running => flight'[f].key \in Keys /\ (flight'[f].canceled <=> WaitersOf(caller', f) = {})
      BY <1>0, <1>6, <1>7, <1>11, <1>12, <3>1
    <3>4. flight'[f].running /\ ~flight'[f].canceled => flights'[flight'[f].key] = f
      BY <1>1, <1>6, <1>7, <1>8, <2>0 DEF FlightOf, Live
    <3> QED BY <2>1, <3>2, <3>3, <3>4 DEF FlightOf, Live
  <2>2. CASE h # f
    <3>1. WaitersOf(caller', h) = WaitersOf(caller, h)
      BY <1>0, <1>2, <2>2, WaitersMove DEF f
    <3>2. Live(h) => flight[h].key \in Keys /\ flights[flight[h].key] = h
      BY <2>0 DEF FlightOf, Live
    <3>3. Live(h) => flights'[flight[h].key] = h
      BY <1>8, <2>2, <3>2
    <3> QED BY <1>7, <2>0, <2>2, <3>1, <3>3 DEF FlightOf, Live
  <2> QED BY <2>1, <2>2
<1>14. ASSUME NEW j \in Keys PROVE OwnerOf(j)'
  <2>0. OwnerOf(j) /\ (flights[j] # 0 => flights[j] \in Flights)
    BY <1>0, MatchAssumption DEF Shapes, Flights
  <2>1. flights'[j] # 0 => flights'[j] = flights[j] /\ (flights[j] = f => ~last /\ j = k)
    BY <1>1, <1>8, <2>0 DEF OwnerOf
  <2> QED BY <1>1, <1>6, <1>7, <2>0, <2>1 DEF OwnerOf, Live
<1>15. ASSUME NEW d \in Callers PROVE WaiterAt(d)'
  <2>1. WaiterAt(d)
    BY <1>0
  <2>2. CASE d = c
    BY <1>2, <1>9, <2>2 DEF WaiterAt, At
  <2>3. CASE d # c
    BY <1>1, <1>6, <1>7, <1>9, <2>1, <2>3 DEF WaiterAt, At
  <2> QED BY <2>2, <2>3
<1>16. Ownership'
  BY <1>13, <1>14, <1>15 DEF Ownership
<1> QED BY <1>0, <1>2, <1>10, <1>16, StillCached DEF MatchInv

-----------------------------------------------------------------------------
\* The initial state.
LEMMA InitMatchInv == MatchInit => MatchInv
<1> SUFFICES ASSUME MatchInit PROVE MatchInv
  OBVIOUS
<1>1. /\ caller = [c \in Callers |-> Away] /\ prefetches = 0 /\ slots = 0 /\ entries = {} /\ flights = [k \in Keys |-> 0]
      /\ flight = [f \in Flights |-> [key |-> AnyKey, running |-> FALSE, waiters |-> 0, canceled |-> FALSE]]
  BY DEF MatchInit, AnyKey, Flights
<1>2. Shapes
  <2>1. [key |-> AnyKey, running |-> FALSE, waiters |-> 0, canceled |-> FALSE] \in FlightStates
    BY DEF FlightStates
  <2>2. 0 \in 0..MaxFlights
    BY MatchAssumption
  <2> QED BY <1>1, <2>1, <2>2, Records DEF Shapes
<1>3. \A c \in Callers : caller[c].pc = "away"
  BY <1>1, Records
<1>4. Stages
  BY <1>3 DEF Stages, StageOf
<1>5. SearchingOf(caller) = {} /\ HoldingOf(caller) = {} /\ \A f : WaitersOf(caller, f) = {}
  BY <1>3 DEF SearchingOf, HoldingOf, WaitersOf, Limiteds, Callers
<1>6. Cardinality({}) = 0 /\ IsFiniteSet({})
  BY FS_EmptySet
<1>7. Tokens
  <2>1. slots = 0 /\ prefetches = 0 /\ 0 <= All /\ 0 <= Prefetch
    BY <1>1, MatchAssumption
  <2>2. Cardinality(SearchingOf(caller)) = 0 /\ Cardinality(HoldingOf(caller)) = 0
    BY <1>5, <1>6
  <2> QED BY <2>1, <2>2 DEF Tokens
<1>8. Ownership
  BY <1>1, <1>3, <1>5, <1>6 DEF Ownership, FlightOf, OwnerOf, WaiterAt, Live, At
<1>9. Cached
  BY <1>1, <1>6, MatchAssumption DEF Cached
<1> QED BY <1>2, <1>4, <1>7, <1>8, <1>9 DEF MatchInv

\* Every step keeps the invariant.
LEMMA NextMatchInv == MatchInv /\ [MatchNext]_matchVars => MatchInv'
<1> SUFFICES ASSUME MatchInv, [MatchNext]_matchVars PROVE MatchInv'
  OBVIOUS
<1>1. CASE UNCHANGED matchVars
  <2>1. UNCHANGED <<caller, slots, prefetches, flights, flight, entries>>
    BY <1>1 DEF matchVars
  <2>2. Shapes' /\ Stages' /\ Tokens' /\ Cached'
    BY <2>1 DEF MatchInv, Shapes, Stages, StageOf, Tokens, Cached
  <2>3. Ownership'
    BY <2>1 DEF MatchInv, Ownership, FlightOf, OwnerOf, WaiterAt, Live, At
  <2> QED BY <2>2, <2>3 DEF MatchInv
<1>2. ASSUME NEW c \in Callers, Request(c) \/ TakePrefetch(c) \/ TakeSlot(c) \/ AcquireCanceled(c)
      PROVE  MatchInv'
  BY <1>2, AcquireKeeps
<1>3. ASSUME NEW c \in Callers, Hit(c) \/ LookCanceled(c)
      PROVE  MatchInv'
  BY <1>3, ReturnKeeps DEF Hit, LookCanceled
<1>4. ASSUME NEW c \in Callers, Join(c)
      PROVE  MatchInv'
  BY <1>4, JoinKeeps
<1>5. ASSUME NEW c \in Callers, Answered(c) \/ WaitCanceled(c)
      PROVE  MatchInv'
  BY <1>5, LeavesKeeps DEF Answered, WaitCanceled
<1>6. ASSUME NEW f \in 1..MaxFlights, NEW ok \in BOOLEAN, FlightEnds(f, ok)
      PROVE  MatchInv'
  BY <1>6, FlightEndsKeeps DEF Flights
<1>7. ASSUME NEW k \in Keys, Drop(k)
      PROVE  MatchInv'
  BY <1>7, DropKeeps
<1> QED BY <1>1, <1>2, <1>3, <1>4, <1>5, <1>6, <1>7 DEF MatchNext

\* The invariant implies the property.
LEMMA MatchInvSound == MatchInv => MatchSound
<1> SUFFICES ASSUME MatchInv PROVE MatchSound
  OBVIOUS
<1>0. /\ Shapes /\ Tokens /\ Cached
      /\ \A h \in Flights : FlightOf(h)
  BY DEF MatchInv, Ownership
<1>1. SearchingOf(caller) = Searching(First \cup Background) /\ Searching(Background) \in SUBSET HoldingOf(caller)
  BY DEF SearchingOf, Searching, HoldingOf, Limiteds, At
<1>2. /\ Cardinality(Searching(Background)) \in Nat /\ slots \in Nat /\ prefetches \in Nat
      /\ Cardinality(Searching(Background)) <= prefetches
  <2> DEFINE S == Searching(Background) U == HoldingOf(caller) A == SearchingOf(caller)
  <2>1. IsFiniteSet(U) /\ IsFiniteSet(A) /\ S \in SUBSET U /\ prefetches = Cardinality(U) /\ slots = Cardinality(A)
    BY <1>0, <1>1, FiniteSides DEF Tokens
  <2> HIDE DEF S, U, A
  <2>2. IsFiniteSet(S) /\ Cardinality(S) <= Cardinality(U)
    BY <2>1, FS_Subset
  <2>3. Cardinality(S) \in Nat /\ Cardinality(U) \in Nat /\ Cardinality(A) \in Nat
    BY <2>1, <2>2, FS_CardinalityType
  <2> QED BY <2>1, <2>2, <2>3 DEF S
<1>3. FirstHasRoom
  BY <1>0, <1>1, <1>2, MatchAssumption DEF FirstHasRoom, Tokens
<1>4. MatchTypeOK
  BY <1>0, <1>2, MatchAssumption DEF MatchTypeOK, Shapes, CallerStates, Tokens, Cached
<1>5. SearchOwned
  <2> SUFFICES ASSUME NEW f \in 1..MaxFlights, flight[f].running
               PROVE  flight[f].canceled <=> \A c \in Callers : ~(At(c, "wait") /\ caller[c].f = f)
    BY DEF SearchOwned
  <2>1. flight[f].canceled <=> WaitersOf(caller, f) = {}
    BY <1>0 DEF FlightOf, Flights
  <2> QED BY <2>1 DEF WaitersOf, At
<1>6. OneSearchPerKey
  BY <1>0 DEF OneSearchPerKey, FlightOf, Flights
<1> QED BY <1>3, <1>4, <1>5, <1>6 DEF MatchSound

\* Whoever starts, joins, cancels or leaves a search, in any order: a running
\* search is cancelled exactly when nobody waits for it, a key has at most one
\* search that is not, and the limiter keeps a slot for first tracks.
THEOREM SearchesAreShared == MatchSpec => []MatchSound
<1>1. MatchInit => MatchInv
  BY InitMatchInv
<1>2. MatchInv /\ [MatchNext]_matchVars => MatchInv'
  BY NextMatchInv
<1>3. MatchInv => MatchSound
  BY MatchInvSound
<1> QED BY <1>1, <1>2, <1>3, PTL DEF MatchSpec
=============================================================================
