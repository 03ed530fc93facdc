---------------------------- MODULE RestLimiter ----------------------------
(***************************************************************************)
(* The REST rate limiter (internal/discord/rest_limiter.go): a request     *)
(* takes the lock of its route's bucket in Wait, keeps it while the HTTP   *)
(* call runs and gives it back in Unlock, which looks the bucket up again. *)
(* Cleanup drops idle buckets, Close drains the requests.                  *)
(***************************************************************************)
EXTENDS Naturals, FiniteSets

CONSTANTS
  Requests, Routes,
  routeOf,      \* [Requests -> Routes]
  MaxBuckets    \* bound: bucket objects created in a behaviour

None == "none"

ASSUME LimiterAssumption ==
  routeOf \in [Requests -> Routes] /\ MaxBuckets \in Nat /\ None \notin Requests

VARIABLES
  buckets,   \* route -> bucket object in the map, 0 if none
  bucket,    \* bucket objects: holder of the lock, Remaining = 0, Reset in the future
  created,   \* number of bucket objects so far
  global,    \* the global cooldown lies in the future
  request,   \* per request: where it is and the bucket object it obtained
  limiter,   \* "open", "closing" (closed and cancelled), "draining", "closed", or
             \* "panicked": a bucket nobody held was unlocked, which is fatal
  snapshot,  \* bucket objects Close still waits for
  overtaken  \* history: routes on which a request locked a bucket object that
             \* cleanup had taken out of the map since the request obtained it

limiterVars == <<buckets, bucket, created, global, request, limiter, snapshot, overtaken>>

Free == [holder |-> None, limited |-> FALSE, future |-> FALSE]
Idle == [pc |-> "idle", b |-> 0]
Moves(r, pc) == request' = [request EXCEPT ![r].pc = pc]
Ends(r) == request' = [request EXCEPT ![r] = Idle]
Held(b) == bucket[b].holder # None

-----------------------------------------------------------------------------
\* getBucket(create): a closed limiter hands out none; a route without a
\* bucket gets a new one.
GetBucket(r) ==
  /\ limiter = "open" /\ request[r] = Idle
  /\ LET known == buckets[routeOf[r]]
     IN IF known # 0
          THEN /\ request' = [request EXCEPT ![r] = [pc |-> "lock", b |-> known]]
               /\ UNCHANGED <<buckets, bucket, created>>
          ELSE /\ created < MaxBuckets
               /\ created' = created + 1
               /\ bucket' = [bucket EXCEPT ![created + 1] = Free]
               /\ buckets' = [buckets EXCEPT ![routeOf[r]] = created + 1]
               /\ request' = [request EXCEPT ![r] = [pc |-> "lock", b |-> created + 1]]
  /\ UNCHANGED <<global, limiter, snapshot, overtaken>>

\* CLock and the choice of the cooldown: the bucket's own one hides the global
\* one.
Lock(r) ==
  /\ request[r].pc = "lock" /\ ~Held(request[r].b)
  /\ bucket' = [bucket EXCEPT ![request[r].b].holder = r]
  /\ LET b == bucket[request[r].b]
     IN Moves(r, IF (b.limited /\ b.future) \/ global THEN "sleep" ELSE "sent")
  /\ overtaken' = overtaken \cup
       (IF buckets[routeOf[r]] = request[r].b THEN {} ELSE {routeOf[r]})
  /\ UNCHANGED <<buckets, created, global, limiter, snapshot>>

\* The mutex does not ask who unlocks it: whoever holds it loses it, and when
\* nobody does the error is fatal (csync.Mutex, external).
MutexUnlock(b, new) ==
  IF Held(b)
    THEN bucket' = [bucket EXCEPT ![b] = [new EXCEPT !.holder = None]] /\ UNCHANGED limiter
    ELSE limiter' = "panicked" /\ UNCHANGED bucket

\* The request's context ends, or Close cancels it through AfterFunc.
RequestCanceled(r) ==
  /\ \/ request[r].pc = "lock" /\ UNCHANGED <<bucket, limiter>>
     \/ request[r].pc = "sleep" /\ MutexUnlock(request[r].b, bucket[request[r].b])
  /\ Ends(r)
  /\ UNCHANGED <<buckets, created, global, snapshot, overtaken>>

\* The cooldown read before the sleep is over.
CooldownOver(r) ==
  /\ request[r].pc = "sleep"
  /\ Moves(r, "sent")
  /\ IF bucket[request[r].b].limited /\ bucket[request[r].b].future
       THEN bucket' = [bucket EXCEPT ![request[r].b].future = FALSE] /\ UNCHANGED global
       ELSE global' = FALSE /\ UNCHANGED bucket
  /\ UNCHANGED <<buckets, created, limiter, snapshot, overtaken>>

-----------------------------------------------------------------------------
\* What a response may do to the bucket found: nothing without the bucket
\* header or with malformed ones, else the route's new state.
Answers(b) == {b} \cup [holder : {b.holder}, limited : BOOLEAN, future : BOOLEAN]

\* Mutant of Unlock: a malformed header returns before the lock is released.
UnlockOnSuccess(r) ==
  /\ request[r].pc = "sent"
  /\ LET b == buckets[routeOf[r]]
     IN IF b = 0 THEN UNCHANGED <<bucket, global, limiter>>
        ELSE /\ \/ \E new \in Answers(bucket[b]) : MutexUnlock(b, new)
                \/ UNCHANGED <<bucket, limiter>>
             /\ global' \in {global, TRUE}
  /\ Ends(r)
  /\ UNCHANGED <<buckets, created, snapshot, overtaken>>

\* Unlock looks the route up again: with the bucket gone it returns at once;
\* else the deferred unlock runs on every path, on the bucket found.
Unlock(r) ==
  /\ request[r].pc = "sent"
  /\ LET b == buckets[routeOf[r]]
     IN IF b = 0 THEN UNCHANGED <<bucket, global, limiter>>
        ELSE /\ \E new \in Answers(bucket[b]) : MutexUnlock(b, new)
             /\ global' \in {global, TRUE}
  /\ Ends(r)
  /\ UNCHANGED <<buckets, created, snapshot, overtaken>>

ResetPasses(b) ==
  /\ b <= created /\ bucket[b].future
  /\ bucket' = [bucket EXCEPT ![b].future = FALSE]
  /\ UNCHANGED <<buckets, created, global, request, limiter, snapshot, overtaken>>

\* Mutant of Expires: cleanup does not try the bucket's lock.
ExpiresLocked(route) == buckets[route] # 0 /\ ~bucket[buckets[route]].future

\* doCleanup: an unlocked bucket whose Reset passed leaves the map.
Expires(route) ==
  buckets[route] # 0 /\ ~Held(buckets[route]) /\ ~bucket[buckets[route]].future

\* The cleanup goroutine's tick, until Close ended it.
Cleanup ==
  /\ limiter \in {"open", "closing"}
  /\ buckets' = [route \in Routes |-> IF Expires(route) THEN 0 ELSE buckets[route]]
  /\ UNCHANGED <<bucket, created, global, request, limiter, snapshot, overtaken>>

-----------------------------------------------------------------------------
\* Close: no new bucket, cancel the waiters, end the cleanup, then take every
\* lock once.

CloseLimiter ==
  /\ limiter = "open"
  /\ limiter' = "closing"
  /\ UNCHANGED <<buckets, bucket, created, global, request, snapshot, overtaken>>

\* Mutant of CloseSnapshot: Close clears the map while it takes the snapshot.
CloseSnapshotClears ==
  /\ limiter = "closing"
  /\ limiter' = "draining"
  /\ snapshot' = {buckets[route] : route \in Routes} \ {0}
  /\ buckets' = [route \in Routes |-> 0]
  /\ UNCHANGED <<bucket, created, global, request, overtaken>>

CloseSnapshot ==
  /\ limiter = "closing"
  /\ limiter' = "draining"
  /\ snapshot' = {buckets[route] : route \in Routes} \ {0}
  /\ UNCHANGED <<buckets, bucket, created, global, request, overtaken>>

\* CLock of one bucket succeeds and is given back at once.
CloseDrains(b) ==
  /\ limiter = "draining" /\ b \in snapshot /\ ~Held(b)
  /\ snapshot' = snapshot \ {b}
  /\ UNCHANGED <<buckets, bucket, created, global, request, limiter, overtaken>>

CloseReturns ==
  /\ limiter = "draining" /\ snapshot = {}
  /\ limiter' = "closed"
  /\ UNCHANGED <<buckets, bucket, created, global, request, snapshot, overtaken>>

LimiterInit ==
  /\ buckets = [route \in Routes |-> 0]
  /\ bucket = [b \in 1..MaxBuckets |-> Free] /\ created = 0 /\ global = FALSE
  /\ request = [r \in Requests |-> Idle]
  /\ limiter = "open" /\ snapshot = {} /\ overtaken = {}

RequestEnds(r) == RequestCanceled(r) \/ Unlock(r)

LimiterNext ==
  /\ limiter # "panicked"
  /\ \/ \E r \in Requests : GetBucket(r) \/ Lock(r) \/ CooldownOver(r) \/ RequestEnds(r)
     \/ \E b \in 1..MaxBuckets : ResetPasses(b) \/ CloseDrains(b)
     \/ Cleanup \/ CloseLimiter \/ CloseSnapshot \/ CloseReturns

\* HTTP calls end (the client has a timeout), cancelled waiters return, and
\* Close's goroutines run.
LimiterProgress ==
  \/ limiter \notin {"open", "panicked"} /\ \E r \in Requests : RequestEnds(r)
  \/ CloseSnapshot \/ CloseReturns \/ \E b \in 1..MaxBuckets : CloseDrains(b)
LimiterFairness == WF_limiterVars(LimiterProgress)
LimiterSpec == LimiterInit /\ [][LimiterNext]_limiterVars /\ LimiterFairness

-----------------------------------------------------------------------------
\* A locked bucket in the map always has a request in flight on its route
\* that will find and unlock it, also after cleanup replaced the object
\* another request of the route obtained: no route is blocked for good.
LockedMeansInFlight ==
  \A route \in Routes : buckets[route] # 0 /\ Held(buckets[route]) =>
    \E r \in Requests : routeOf[r] = route /\ request[r].pc \in {"sleep", "sent"}

\* Unlock finds the very bucket its request locked, and the lock is still the
\* request's: nobody else released it.  Only a route whose bucket was replaced
\* under a request that waited for its lock is excepted.
OnlyTheHolderReleases ==
  \A r \in Requests : request[r].pc \in {"sleep", "sent"} /\ routeOf[r] \notin overtaken =>
    buckets[routeOf[r]] = request[r].b /\ bucket[request[r].b].holder = r

\* The fatal error of the mutex has no other cause.
FatalOnlyIfOvertaken == limiter = "panicked" => overtaken # {}

(* The lock of a route is neither lost nor shared: a locked bucket has a   *)
(* request in flight that gives it back, only its holder releases it, and  *)
(* the fatal error of an unlock without a lock needs a bucket that cleanup *)
(* replaced between getBucket and the lock.                                *)
LimiterSound == LockedMeansInFlight /\ OnlyTheHolderReleases /\ FatalOnlyIfOvertaken

(* Close is draining: it must not wait for a lock nobody gives back.       *)
LimiterWaits == limiter \in {"closing", "draining"}
=============================================================================
