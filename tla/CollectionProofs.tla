------------------------- MODULE CollectionProofs --------------------------
(*************************************************************************)
(* Proofs about CollectionJob, for every length of the collection, every *)
(* number of workers, horizon, provider incidents and commands: its      *)
(* types, that every Pending position has a job, that what is committed  *)
(* stays, that an incident is not taken for a track without a match, and *)
(* that a trial is handed back; and about SpotifyPlaylist, that what it  *)
(* returns is a version of the playlist.                                 *)
(*************************************************************************)
EXTENDS CollectionJob, SpotifyPlaylist, SequenceTheorems, FiniteSetTheorems, TLAPS

Entries == [position : Positions, pending : BOOLEAN]
Places == {"idle", "admit", "admitted", "match", "result", "ready"}
Outcomes == {"none", "ok", "err", "skipped", "blocked"}
FirstPhase == {"first", "firstWait", "firstResult", "firstCommit"}
Batching == {"collect", "prefix", "commit"}
Quiet == {"none", "first", "firstWait", "select", "wait", "gone"}

\* No position has two entries, or two tasks.
Distinct(q) == \A k, l \in 1..Len(q) : q[k].position = q[l].position => k = l
OnceEach(s) == \A k, l \in 1..Len(s) : s[k] = s[l] => k = l

Sound(q) == q \in Seq(Entries) /\ Len(q) <= Tracks /\ Distinct(q)
Waiting(q) == \E k \in 1..Len(q) : q[k].pending
From(r, q) == \A k \in 1..Len(r) : \E l \in 1..Len(q) : r[k] = q[l]

\* What the coordinator works through.  A task that no worker has taken is idle.
BatchShape ==
  /\ jobPC \in FirstPhase \cup Batching \cup Quiet \cup {"drain", "exit"}
  /\ batch \in Seq(Positions) /\ Len(batch) <= Tracks
  /\ tasks \in Seq(Positions) /\ OnceEach(tasks)
  /\ index \in 1..(Tracks + 1)
  /\ jobPC \in FirstPhase => index <= Tracks
  /\ jobPC = "commit" => index <= Len(batch)
  /\ jobPC \in Batching => \A k \in 1..Len(tasks) : at[tasks[k]] = "idle"

\* Between two batches, and around the first position, nothing is being resolved.
RestShape ==
  /\ jobPC \in Quiet => \A i \in Positions : at[i] = "idle"
  /\ jobPC \in {"firstResult", "firstCommit"} => \A i \in Positions \ {index} : at[i] = "idle"
  /\ jobPC = "firstCommit" => at[index] = "result"
  /\ jobPC = "exit" => Active = {}

ResolutionShape ==
  /\ at \in [Positions -> Places] /\ outcome \in [Positions -> Outcomes]
  /\ permit \in [Positions -> 0..MaxIncidents] /\ started \in [Positions -> 0..MaxIncidents]

FlagShape ==
  /\ struck \in [Positions -> BOOLEAN] /\ wanted \in [Positions -> BOOLEAN]
  /\ current \in {"none", "fresh", "late", "live"}
  /\ first \in {"none", "deferred", "suspended", "track", "error"}

LatchShape ==
  /\ blocked \in BOOLEAN /\ probing \in BOOLEAN /\ generation \in 0..MaxIncidents
  /\ probing => blocked
  /\ blocked => generation > 0

\* A search knows the incident it started in; one that an incident cancelled is older.
SearchAge ==
  \A i \in Positions : at[i] = "match" =>
    /\ started[i] <= generation
    /\ struck[i] => started[i] < generation

JobInv ==
  /\ Sound(queue) /\ BatchShape /\ RestShape /\ ResolutionShape /\ FlagShape /\ LatchShape
  /\ SearchAge /\ IncidentIsNotFailure /\ PendingHasOwner /\ TrialReturned

-----------------------------------------------------------------------------
(*************************************************************************)
(* The queue.  Whatever a command or the job does to it picks entries of *)
(* the queue before, each at most once.                                  *)
(*************************************************************************)
\* A list that picks entries of a sound one is sound.
LEMMA Picked ==
  ASSUME NEW q, NEW r \in Seq(Entries), Sound(q), Len(r) <= Tracks,
         NEW g \in [1..Len(r) -> 1..Len(q)],
         \A k, l \in 1..Len(r) : g[k] = g[l] => k = l,
         \A k \in 1..Len(r) : r[k] = q[g[k]]
  PROVE  Sound(r) /\ (Waiting(r) => Waiting(q)) /\ From(r, q)
  <1>1. Distinct(r)
    BY DEF Sound, Distinct
  <1>2. Waiting(r) => Waiting(q)
    BY DEF Waiting
  <1>3. From(r, q)
    BY DEF From
  <1> QED BY <1>1, <1>2, <1>3 DEF Sound

\* A stretch of the queue.
LEMMA StretchPicks ==
  ASSUME NEW q, Sound(q), NEW m \in 1..(Len(q) + 1), NEW n \in 0..Len(q)
  PROVE  /\ Sound(SubSeq(q, m, n)) /\ (Waiting(SubSeq(q, m, n)) => Waiting(q))
         /\ From(SubSeq(q, m, n), q)
  <1> DEFINE r == SubSeq(q, m, n)
             g == [k \in 1..Len(r) |-> m + k - 1]
  <1>1. q \in Seq(Entries) /\ Len(q) \in Nat /\ Len(q) <= Tracks
    BY DEF Sound
  <1>2. \A i \in m..n : q[i] \in Entries
    BY <1>1, ElementOfSeq
  <1>3. /\ r \in Seq(Entries) /\ Len(r) = IF m <= n THEN n - m + 1 ELSE 0
        /\ \A i \in 1..(n - m + 1) : r[i] = q[m + i - 1]
    BY <1>2, SubSeqProperties
  <1>4. Len(r) <= Tracks
    BY <1>1, <1>3, CollectionAssumption DEF CollectionAssumption
  <1> HIDE DEF r
  <1>5. g \in [1..Len(r) -> 1..Len(q)] /\ (\A k, l \in 1..Len(r) : g[k] = g[l] => k = l)
    BY <1>1, <1>3
  <1>6. \A k \in 1..Len(r) : r[k] = q[g[k]]
    BY <1>1, <1>3
  <1> HIDE DEF g
  <1>7. Sound(r) /\ (Waiting(r) => Waiting(q)) /\ From(r, q)
    BY <1>3, <1>4, <1>5, <1>6, Picked
  <1> QED BY <1>7 DEF r

\* The queue without one entry.
LEMMA RemovalPicks ==
  ASSUME NEW q, Sound(q), NEW n \in 1..Len(q)
  PROVE  /\ Sound(RemoveAt(q, n)) /\ (Waiting(RemoveAt(q, n)) => Waiting(q)) /\ From(RemoveAt(q, n), q)
         /\ Len(RemoveAt(q, n)) = Len(q) - 1
         /\ \A k \in 1..(Len(q) - 1) : RemoveAt(q, n)[k] = q[IF k < n THEN k ELSE k + 1]
  <1> DEFINE left == SubSeq(q, 1, n - 1)
             right == SubSeq(q, n + 1, Len(q))
             r == left \o right
             g == [k \in 1..(Len(q) - 1) |-> IF k < n THEN k ELSE k + 1]
  <1>1. q \in Seq(Entries) /\ Len(q) \in Nat /\ Len(q) <= Tracks
    BY DEF Sound
  <1>2. \A i \in 1..Len(q) : q[i] \in Entries
    BY <1>1, ElementOfSeq
  <1>3. /\ left \in Seq(Entries) /\ Len(left) = n - 1
        /\ \A i \in 1..(n - 1) : left[i] = q[i]
    <2>1. \A i \in 1..(n - 1) : q[i] \in Entries
      BY <1>1, <1>2
    <2> QED BY <1>1, <2>1, SubSeqProperties
  <1>4. /\ right \in Seq(Entries) /\ Len(right) = Len(q) - n
        /\ \A i \in 1..(Len(q) - n) : right[i] = q[n + i]
    <2>1. \A i \in (n + 1)..Len(q) : q[i] \in Entries
      BY <1>1, <1>2
    <2> HIDE DEF left
    <2>2. /\ right \in Seq(Entries) /\ Len(right) = IF n + 1 <= Len(q) THEN Len(q) - (n + 1) + 1 ELSE 0
          /\ \A i \in 1..(Len(q) - (n + 1) + 1) : right[i] = q[n + 1 + i - 1]
      BY <1>1, <2>1, SubSeqProperties
    <2> QED BY <1>1, <2>2
  <1> HIDE DEF left, right
  <1>5. /\ r \in Seq(Entries) /\ Len(r) = Len(q) - 1
        /\ \A i \in 1..(Len(q) - 1) : r[i] = IF i <= n - 1 THEN left[i] ELSE right[i - (n - 1)]
    <2>1. /\ r \in Seq(Entries) /\ Len(r) = Len(left) + Len(right)
          /\ \A i \in 1..(Len(left) + Len(right)) :
               r[i] = IF i <= Len(left) THEN left[i] ELSE right[i - Len(left)]
      BY <1>3, <1>4, ConcatProperties, Zenon
    <2>2. Len(left) + Len(right) = Len(q) - 1
      BY <1>1, <1>3, <1>4
    <2> HIDE DEF r
    <2> QED BY <1>3, <2>1, <2>2
  <1> HIDE DEF r
  <1>6. \A k \in 1..(Len(q) - 1) : r[k] = q[IF k < n THEN k ELSE k + 1]
    <2> TAKE k \in 1..(Len(q) - 1)
    <2>1. CASE k < n
      BY <1>1, <1>3, <1>5, <2>1
    <2>2. CASE k >= n
      <3>1. k - (n - 1) \in 1..(Len(q) - n) /\ n + (k - (n - 1)) = k + 1
        BY <1>1, <2>2
      <3>2. r[k] = right[k - (n - 1)]
        BY <1>1, <1>5, <2>2
      <3>3. right[k - (n - 1)] = q[n + (k - (n - 1))]
        BY <1>4, <3>1
      <3> QED BY <1>1, <2>2, <3>1, <3>2, <3>3
    <2> QED BY <1>1, <2>1, <2>2
  <1>7. g \in [1..Len(r) -> 1..Len(q)] /\ (\A k, l \in 1..Len(r) : g[k] = g[l] => k = l)
    BY <1>1, <1>5
  <1>8. (\A k \in 1..Len(r) : r[k] = q[g[k]]) /\ Len(r) <= Tracks
    BY <1>1, <1>5, <1>6, CollectionAssumption DEF CollectionAssumption
  <1> HIDE DEF g
  <1>9. Sound(r) /\ (Waiting(r) => Waiting(q)) /\ From(r, q)
    BY <1>5, <1>7, <1>8, Picked
  <1> QED BY <1>5, <1>6, <1>9 DEF r, left, right, RemoveAt

\* The queue with one entry moved.
LEMMA MovePicks ==
  ASSUME NEW q, Sound(q), NEW from \in 1..Len(q), NEW to \in 1..Len(q)
  PROVE  LET r == InsertAt(RemoveAt(q, from), to, q[from])
         IN  Sound(r) /\ (Waiting(r) => Waiting(q)) /\ From(r, q)
  <1> DEFINE s == RemoveAt(q, from)
             left == SubSeq(s, 1, to - 1)
             right == SubSeq(s, to, Len(s))
             head == left \o <<q[from]>>
             r == head \o right
             at1(k) == IF k < from THEN k ELSE k + 1
             g == [k \in 1..Len(q) |-> IF k < to THEN at1(k) ELSE IF k = to THEN from ELSE at1(k - 1)]
  <1>1. q \in Seq(Entries) /\ Len(q) \in Nat /\ Len(q) <= Tracks
    BY DEF Sound
  <1>2. /\ s \in Seq(Entries) /\ Len(s) = Len(q) - 1
        /\ \A k \in 1..(Len(q) - 1) : s[k] = q[at1(k)]
    BY RemovalPicks DEF Sound
  <1> HIDE DEF s
  <1>3. \A i \in 1..(Len(q) - 1) : s[i] \in Entries
    BY <1>1, <1>2, ElementOfSeq
  <1>4. /\ left \in Seq(Entries) /\ Len(left) = to - 1
        /\ \A i \in 1..(to - 1) : left[i] = s[i]
    <2>1. \A i \in 1..(to - 1) : s[i] \in Entries
      BY <1>1, <1>3
    <2> QED BY <1>1, <2>1, SubSeqProperties
  <1>5. /\ right \in Seq(Entries) /\ Len(right) = Len(q) - to
        /\ \A i \in 1..(Len(q) - to) : right[i] = s[to + i - 1]
    <2>1. \A i \in to..Len(s) : s[i] \in Entries
      BY <1>1, <1>2, <1>3
    <2>2. /\ right \in Seq(Entries) /\ Len(right) = IF to <= Len(s) THEN Len(s) - to + 1 ELSE 0
          /\ \A i \in 1..(Len(s) - to + 1) : right[i] = s[to + i - 1]
      BY <1>1, <1>2, <2>1, SubSeqProperties
    <2> QED BY <1>1, <1>2, <2>2
  <1> HIDE DEF left, right
  <1>6. q[from] \in Entries
    BY <1>1, ElementOfSeq
  <1>7. head \in Seq(Entries) /\ Len(head) = to
        /\ \A i \in 1..to : head[i] = IF i = to THEN q[from] ELSE left[i]
    BY <1>4, <1>6
  <1> HIDE DEF head
  <1>8. /\ r \in Seq(Entries) /\ Len(r) = Len(q)
        /\ \A i \in 1..Len(q) : r[i] = IF i <= to THEN head[i] ELSE right[i - to]
    BY <1>1, <1>5, <1>7, ConcatProperties
  <1> HIDE DEF r
  <1>9. \A k \in 1..Len(q) : r[k] = q[g[k]]
    <2> TAKE k \in 1..Len(q)
    <2>1. CASE k < to
      <3>1. k \in 1..(to - 1) /\ k \in 1..to /\ k \in 1..(Len(q) - 1) /\ k <= to /\ k # to
        BY <1>1, <2>1
      <3>2. r[k] = left[k]
        BY <3>1, <1>7, <1>8
      <3>3. left[k] = s[k] /\ s[k] = q[at1(k)]
        BY <3>1, <1>2, <1>4
      <3>4. g[k] = at1(k)
        BY <2>1
      <3> QED BY <3>2, <3>3, <3>4
    <2>2. CASE k = to
      BY <1>1, <1>7, <1>8, <2>2
    <2>3. CASE k > to
      <3>1. r[k] = s[k - 1] /\ k - 1 \in 1..(Len(q) - 1)
        BY <1>1, <1>5, <1>8, <2>3
      <3> QED BY <1>1, <1>2, <2>3, <3>1
    <2> QED BY <2>1, <2>2, <2>3
  <1>10. g \in [1..Len(r) -> 1..Len(q)] /\ (\A k, l \in 1..Len(r) : g[k] = g[l] => k = l)
    BY <1>1, <1>8
  <1> HIDE DEF g, at1
  <1>11. Sound(r) /\ (Waiting(r) => Waiting(q)) /\ From(r, q)
    BY <1>1, <1>8, <1>9, <1>10, Picked
  <1> QED BY <1>11 DEF r, head, left, right, s, InsertAt

\* A set of places in order: as many as the set has, no place twice.
LEMMA AscendingOrder ==
  ASSUME NEW n \in Nat, NEW places \in SUBSET (1..n), NEW f \in Ascending(places)
  PROVE  /\ Cardinality(places) \in 0..n
         /\ f \in [1..Cardinality(places) -> places]
         /\ \A a, b \in 1..Cardinality(places) : f[a] = f[b] => a = b
         /\ Cardinality(places) = 0 <=> places = {}
  <1>1. IsFiniteSet(1..n) /\ Cardinality(1..n) = n
    BY FS_Interval
  <1>2. /\ IsFiniteSet(places) /\ Cardinality(places) <= n
        /\ Cardinality(places) \in Nat /\ (Cardinality(places) = 0 <=> places = {})
    <2>1. IsFiniteSet(places) /\ Cardinality(places) <= Cardinality(1..n)
      BY <1>1, FS_Subset
    <2>2. Cardinality(places) \in Nat /\ (Cardinality(places) = 0 <=> places = {})
      BY <2>1, FS_CardinalityType, FS_EmptySet
    <2> QED BY <1>1, <2>1, <2>2
  <1>3. /\ f \in [1..Cardinality(places) -> places]
        /\ \A a, b \in 1..Cardinality(places) : a < b => f[a] < f[b]
    BY DEF Ascending
  <1>4. \A a \in 1..Cardinality(places) : f[a] \in 1..n
    BY <1>3
  <1>5. ASSUME NEW a \in 1..Cardinality(places), NEW b \in 1..Cardinality(places), f[a] = f[b], a # b
        PROVE  FALSE
    <2>1. a < b \/ b < a
      BY <1>2, <1>5
    <2>2. f[a] < f[b] \/ f[b] < f[a]
      BY <1>3, <2>1
    <2> QED BY <1>4, <1>5, <2>2
  <1> QED BY <1>2, <1>3, <1>5

\* What the end of a job keeps of the queue.
LEMMA KeptPicks ==
  ASSUME NEW q, Sound(q), NEW places \in SUBSET (1..Len(q)), NEW f \in Ascending(places)
  PROVE  /\ Sound([n \in DOMAIN f |-> q[f[n]]])
         /\ (Waiting([n \in DOMAIN f |-> q[f[n]]]) => \E k \in places : q[k].pending)
  <1> DEFINE r == [n \in DOMAIN f |-> q[f[n]]]
             n == Cardinality(places)
  <1>1. q \in Seq(Entries) /\ Len(q) \in Nat /\ Len(q) <= Tracks
    BY DEF Sound
  <1>2. /\ n \in 0..Len(q) /\ f \in [1..n -> places]
        /\ \A a, b \in 1..n : f[a] = f[b] => a = b
    BY <1>1, AscendingOrder
  <1> HIDE DEF n
  <1>3. \A k \in 1..n : f[k] \in places /\ f[k] \in 1..Len(q)
    BY <1>2
  <1>4. DOMAIN f = 1..n
    BY <1>2
  <1>5. \A k \in 1..n : q[f[k]] \in Entries
    BY <1>1, <1>3, ElementOfSeq
  <1>6. r \in Seq(Entries) /\ Len(r) = n /\ (\A k \in 1..n : r[k] = q[f[k]])
    BY <1>2, <1>4, <1>5
  <1> HIDE DEF r
  <1>7. Len(r) <= Tracks /\ f \in [1..Len(r) -> 1..Len(q)]
    BY <1>1, <1>2, <1>3, <1>6, CollectionAssumption DEF CollectionAssumption
  <1>8. Sound(r) /\ (Waiting(r) => Waiting(q)) /\ From(r, q)
    BY <1>2, <1>6, <1>7, Picked
  <1>9. Waiting(r) => \E k \in places : q[k].pending
    BY <1>3, <1>6 DEF Waiting
  <1> QED BY <1>8, <1>9 DEF r

\* A batch names positions of the queue, each once.
LEMMA BatchPicks ==
  ASSUME NEW q, Sound(q), NEW places \in SUBSET (1..Len(q)), NEW f \in Ascending(places),
         NEW b, b = [n \in DOMAIN f |-> q[f[n]].position]
  PROVE  b \in Seq(Positions) /\ Len(b) <= Tracks /\ OnceEach(b)
  <1> DEFINE n == Cardinality(places)
  <1>1. q \in Seq(Entries) /\ Len(q) \in Nat /\ Len(q) <= Tracks
    BY DEF Sound
  <1>2. /\ n \in 0..Len(q) /\ f \in [1..n -> places]
        /\ \A i, j \in 1..n : f[i] = f[j] => i = j
    BY <1>1, AscendingOrder
  <1> HIDE DEF n
  <1>3. \A k \in 1..n : f[k] \in 1..Len(q)
    BY <1>2
  <1>4. DOMAIN f = 1..n
    BY <1>2
  <1>5. \A k \in 1..n : q[f[k]] \in Entries /\ q[f[k]].position \in Positions
    <2>1. \A k \in 1..n : q[f[k]] \in Entries
      BY <1>1, <1>3, ElementOfSeq
    <2> QED BY <2>1 DEF Entries
  <1>6. b \in Seq(Positions) /\ Len(b) = n /\ (\A k \in 1..n : b[k] = q[f[k]].position)
    BY <1>2, <1>4, <1>5
  <1>7. \A i, j \in 1..n : b[i] = b[j] => i = j
    BY <1>2, <1>3, <1>6 DEF Sound, Distinct
  <1>8. Len(b) <= Tracks
    BY <1>1, <1>2, <1>6, CollectionAssumption DEF CollectionAssumption
  <1> QED BY <1>6, <1>7, <1>8 DEF OnceEach

\* The queue with one entry resolved.
LEMMA ResolvingKeeps ==
  ASSUME NEW q, Sound(q), NEW n \in 1..Len(q)
  PROVE  /\ Sound([q EXCEPT ![n].pending = FALSE])
         /\ (Waiting([q EXCEPT ![n].pending = FALSE]) => Waiting(q))
  <1> DEFINE e == [q[n] EXCEPT !.pending = FALSE]
             r == [q EXCEPT ![n] = e]
  <1>1. q \in Seq(Entries) /\ Len(q) \in Nat /\ q[n] \in Entries
    BY ElementOfSeq DEF Sound
  <1>2. e \in Entries /\ e.position = q[n].position /\ ~e.pending
    BY <1>1 DEF Entries
  <1> HIDE DEF e
  <1>3. r \in Seq(Entries) /\ Len(r) = Len(q) /\ \A k \in 1..Len(q) : r[k] = IF k = n THEN e ELSE q[k]
    BY <1>1, <1>2, ExceptSeq
  <1> HIDE DEF r
  <1>4. Distinct(r)
    BY <1>2, <1>3 DEF Sound, Distinct
  <1>5. Waiting(r) => Waiting(q)
    BY <1>2, <1>3 DEF Waiting
  <1>6. Sound(r) /\ (Waiting(r) => Waiting(q))
    BY <1>3, <1>4, <1>5 DEF Sound
  <1> QED BY <1>6 DEF r, e

\* commit removes one position or resolves it.
LEMMA CommitPicks ==
  ASSUME JobInv, NEW i \in Positions, Commit(i)
  PROVE  Sound(queue') /\ (Waiting(queue') => Waiting(queue)) /\ wanted' \in [Positions -> BOOLEAN]
  <1>1. Sound(queue) /\ wanted \in [Positions -> BOOLEAN]
    BY DEF JobInv, FlagShape
  <1>2. wanted' \in [Positions -> BOOLEAN]
    BY <1>1 DEF Commit
  <1>3. Queued(i) => Place(i) \in 1..Len(queue)
    BY DEF Queued, Place
  <1> DEFINE n == Place(i)
  <1>4. queue' \in {queue, [queue EXCEPT ![n].pending = FALSE], RemoveAt(queue, n)}
        /\ (queue' # queue => Queued(i))
    BY DEF Commit
  <1> HIDE DEF n
  <1>5. n \in 1..Len(queue) \/ queue' = queue
    BY <1>3, <1>4 DEF n
  <1>6. CASE queue' = queue
    BY <1>1, <1>2, <1>6
  <1>7. CASE n \in 1..Len(queue)
    BY <1>1, <1>2, <1>4, <1>7, ResolvingKeeps, RemovalPicks
  <1> QED BY <1>5, <1>6, <1>7

-----------------------------------------------------------------------------
(*************************************************************************)
(* Steps that leave the job's searches alone.                            *)
(*************************************************************************)
\* Nobody resolves anything: no trial is out.
LEMMA TrialHasHolder ==
  ASSUME JobInv, \A i \in Positions : at[i] \notin {"admit", "admitted", "match"}
  PROVE  ~probing
  BY DEF JobInv, TrialReturned, Active

\* A step of the queue or of playback; an incident may end.
LEMMA Aside ==
  ASSUME JobInv,
         UNCHANGED <<jobPC, batch, tasks, index, at, outcome, permit, started, struck, first, generation>>,
         Sound(queue'), Waiting(queue') => Waiting(queue),
         wanted' \in [Positions -> BOOLEAN], current' \in {"none", "fresh", "late", "live"},
         UNCHANGED <<blocked, probing>> \/ (blocked' = FALSE /\ probing' = FALSE)
  PROVE  JobInv'
  <1> USE DEF JobInv
  <1>1. Sound(queue)'
    OBVIOUS
  <1>2. BatchShape'
    BY DEF BatchShape
  <1>3. RestShape'
    BY DEF RestShape, Active
  <1>4. ResolutionShape'
    BY DEF ResolutionShape
  <1>5. FlagShape'
    BY DEF FlagShape
  <1>6. LatchShape'
    <2>1. /\ blocked \in BOOLEAN /\ probing \in BOOLEAN /\ (probing => blocked)
          /\ generation \in 0..MaxIncidents /\ (blocked => generation > 0)
      BY DEF LatchShape
    <2>2. generation' = generation
      OBVIOUS
    <2>3. CASE UNCHANGED <<blocked, probing>>
      <3>1. blocked' = blocked /\ probing' = probing
        BY <2>3
      <3>2. blocked' \in BOOLEAN /\ probing' \in BOOLEAN /\ (probing' => blocked')
        BY <2>1, <3>1, Zenon
      <3>3. generation' \in 0..MaxIncidents /\ (blocked' => generation' > 0)
        BY <2>1, <2>2, <3>1
      <3> QED BY <3>2, <3>3 DEF LatchShape
    <2>4. CASE blocked' = FALSE /\ probing' = FALSE
      BY <2>1, <2>2, <2>4 DEF LatchShape
    <2> QED BY <2>3, <2>4
  <1>7. SearchAge'
    BY DEF SearchAge
  <1>8. IncidentIsNotFailure'
    BY DEF IncidentIsNotFailure
  <1>9. PendingHasOwner'
    BY DEF PendingHasOwner, Waiting, Running
  <1>10. TrialReturned'
    BY DEF TrialReturned, Active
  <1> QED BY <1>1, <1>2, <1>3, <1>4, <1>5, <1>6, <1>7, <1>8, <1>9, <1>10

\* A member's command.
LEMMA CommandKeeps ==
  ASSUME JobInv, RemoveEntry \/ Move \/ Jump \/ Stop \/ SetPaused
  PROVE  JobInv'
  <1> DEFINE Still == UNCHANGED <<jobPC, batch, tasks, index, at, outcome, permit, started, struck, first, generation>>
  <1>1. /\ Sound(queue) /\ wanted \in [Positions -> BOOLEAN]
        /\ current \in {"none", "fresh", "late", "live"} /\ Len(queue) \in Nat
    BY DEF JobInv, FlagShape, Sound
  <1>2. CASE RemoveEntry
    <2>1. Still /\ UNCHANGED <<blocked, probing, current>> /\ wanted' \in [Positions -> BOOLEAN]
      BY <1>1, <1>2 DEF RemoveEntry, Discard, coordinator, latch, playback
    <2>2. PICK k \in 1..Len(queue) : queue' = RemoveAt(queue, k)
      BY <1>2 DEF RemoveEntry
    <2>3. Sound(queue') /\ (Waiting(queue') => Waiting(queue))
      BY <1>1, <2>2, RemovalPicks
    <2> QED BY <1>1, <2>1, <2>3, Aside
  <1>3. CASE Move
    <2>1. Still /\ UNCHANGED <<blocked, probing, current>> /\ wanted' \in [Positions -> BOOLEAN]
      BY <1>1, <1>3 DEF Move, searches, coordinator, latch, playback
    <2>2. PICK from, to \in 1..Len(queue) : queue' = InsertAt(RemoveAt(queue, from), to, queue[from])
      BY <1>3 DEF Move
    <2>3. Sound(queue') /\ (Waiting(queue') => Waiting(queue))
      BY <1>1, <2>2, MovePicks
    <2> QED BY <1>1, <2>1, <2>3, Aside
  <1>4. CASE Jump
    <2>1. Still /\ UNCHANGED <<blocked, probing>> /\ current' = "none" /\ wanted' \in [Positions -> BOOLEAN]
      BY <1>1, <1>4 DEF Jump, Discard, coordinator, latch
    <2>2. PICK k \in 1..Len(queue) : queue' = SubSeq(queue, k, Len(queue))
      BY <1>4 DEF Jump
    <2>3. Sound(queue') /\ (Waiting(queue') => Waiting(queue))
      BY <1>1, <2>2, StretchPicks
    <2> QED BY <1>1, <2>1, <2>3, Aside
  <1>5. CASE Stop
    <2>1. Still /\ UNCHANGED wanted
      BY <1>5 DEF Stop, coordinator
    <2>2. UNCHANGED <<blocked, probing>> \/ (blocked' = FALSE /\ probing' = FALSE)
      BY <1>5 DEF Stop
    <2>3. current' \in {"none", "fresh", "late", "live"}
      BY <1>1, <1>5 DEF Stop, playback
    <2>4. queue' = queue \/ queue' = <<>>
      BY <1>5 DEF Stop
    <2>5. Sound(<<>>) /\ ~Waiting(<<>>)
      BY CollectionAssumption DEF Sound, Distinct, Waiting, CollectionAssumption
    <2>6. Sound(queue') /\ (Waiting(queue') => Waiting(queue))
      BY <1>1, <2>4, <2>5
    <2> QED BY <1>1, <2>1, <2>2, <2>3, <2>6, Aside
  <1>6. CASE SetPaused
    <2>1. Still /\ UNCHANGED <<queue, wanted, current, blocked, probing>>
      BY <1>6 DEF SetPaused, searches, coordinator, latch
    <2> QED BY <1>1, <2>1, Aside
  <1> QED BY <1>2, <1>3, <1>4, <1>5, <1>6

\* The scheduler, playback, its watchdog, and the end of an incident.
LEMMA PlaybackKeeps ==
  ASSUME JobInv, Advance \/ PlaybackMoves \/ Watchdog \/ ProviderRecovers
  PROVE  JobInv'
  <1> DEFINE Still == UNCHANGED <<jobPC, batch, tasks, index, at, outcome, permit, started, struck, first, generation>>
  <1>1. /\ Sound(queue) /\ wanted \in [Positions -> BOOLEAN]
        /\ current \in {"none", "fresh", "late", "live"} /\ Len(queue) \in Nat /\ queue \in Seq(Entries)
    BY DEF JobInv, FlagShape, Sound
  <1>2. CASE Advance
    <2>1. Still /\ UNCHANGED <<blocked, probing>> /\ wanted' \in [Positions -> BOOLEAN]
      BY <1>1, <1>2 DEF Advance, searches, coordinator, latch
    <2>2. current' \in {"none", "fresh", "late", "live"}
      BY <1>2 DEF Advance
    <2>3. queue' = SubSeq(queue, 2, Len(queue)) /\ Len(queue) >= 1
      BY <1>1, <1>2 DEF Advance
    <2>4. 2 \in 1..(Len(queue) + 1) /\ Len(queue) \in 0..Len(queue)
      BY <1>1, <2>3
    <2>5. Sound(queue') /\ (Waiting(queue') => Waiting(queue))
      BY <1>1, <2>3, <2>4, StretchPicks
    <2> QED BY <2>1, <2>2, <2>5, Aside
  <1>3. CASE PlaybackMoves
    <2>1. Still /\ UNCHANGED <<queue, wanted, blocked, probing>> /\ current' \in {"none", "late"}
      BY <1>3 DEF PlaybackMoves, searches, coordinator, latch
    <2> QED BY <1>1, <2>1, Aside
  <1>4. CASE Watchdog
    <2>1. Still /\ UNCHANGED <<queue, wanted, current, blocked, probing>>
      BY <1>4 DEF Watchdog, searches, coordinator, latch, playback
    <2> QED BY <1>1, <2>1, Aside
  <1>5. CASE ProviderRecovers
    <2>1. Still /\ UNCHANGED <<queue, wanted, current>> /\ blocked' = FALSE /\ probing' = FALSE
      BY <1>5 DEF ProviderRecovers, searches, coordinator, playback
    <2> QED BY <1>1, <2>1, Aside
  <1> QED BY <1>2, <1>3, <1>4, <1>5

\* The collection is reserved.
LEMMA BeginKeeps == ASSUME JobInv, BeginCollection PROVE JobInv'
  <1>1. /\ jobPC = "none" /\ jobPC' = "first" /\ index' = 1
        /\ queue' = [i \in Positions |-> Entry(i)] /\ wanted' = [i \in Positions |-> TRUE]
        /\ UNCHANGED <<current, batch, tasks, at, outcome, permit, started, struck, first, blocked, probing, generation>>
    BY DEF BeginCollection, playback, searches, latch
  <1>2. Tracks \in Nat /\ Tracks > 0
    BY CollectionAssumption DEF CollectionAssumption
  <1>3. Sound(queue')
    <2>1. queue' \in Seq(Entries) /\ Len(queue') = Tracks /\ \A k \in 1..Tracks : queue'[k].position = k
      BY <1>1, <1>2 DEF Entries, Entry, Positions
    <2> QED BY <1>2, <2>1 DEF Sound, Distinct
  <1>4. \A i \in Positions : at[i] = "idle"
    BY <1>1 DEF JobInv, RestShape, Quiet
  <1>5. BatchShape'
    BY <1>1, <1>2 DEF JobInv, BatchShape, FirstPhase, Batching, Quiet
  <1>6. RestShape'
    BY <1>1, <1>4 DEF RestShape, Quiet
  <1>7. ResolutionShape' /\ FlagShape'
    BY <1>1 DEF JobInv, ResolutionShape, FlagShape
  <1>8. LatchShape'
    BY <1>1 DEF JobInv, LatchShape
  <1>9. SearchAge' /\ IncidentIsNotFailure' /\ PendingHasOwner'
    BY <1>1, <1>4 DEF SearchAge, IncidentIsNotFailure, PendingHasOwner, Running
  <1>10. TrialReturned'
    BY <1>1 DEF JobInv, TrialReturned, Active
  <1> QED BY <1>3, <1>5, <1>6, <1>7, <1>8, <1>9, <1>10 DEF JobInv

\* A new incident outside the job.
LEMMA IncidentKeeps == ASSUME JobInv, ProviderFails PROVE JobInv'
  <1>1. /\ ~blocked /\ generation < MaxIncidents /\ blocked' = TRUE /\ generation' = generation + 1
        /\ struck' = [i \in Positions |-> struck[i] \/ at[i] = "match"]
        /\ UNCHANGED <<queue, current, jobPC, index, batch, first, tasks, wanted, at, outcome, permit, started, probing>>
    BY DEF ProviderFails, Block, playback, coordinator
  <1>2. ~probing /\ generation \in Nat /\ MaxIncidents \in Nat /\ generation \in 0..MaxIncidents
    BY <1>1, CollectionAssumption DEF JobInv, LatchShape, CollectionAssumption
  <1>3. Sound(queue') /\ BatchShape' /\ RestShape' /\ ResolutionShape'
    BY <1>1 DEF JobInv, BatchShape, RestShape, ResolutionShape, Active
  <1>4. FlagShape'
    <2>1. struck' \in [Positions -> BOOLEAN]
      BY <1>1, Zenon DEF JobInv, FlagShape
    <2> QED BY <1>1, <2>1 DEF JobInv, FlagShape
  <1>5. LatchShape'
    <2>1. probing' = FALSE
      <3>1. probing \in BOOLEAN
        BY DEF JobInv, LatchShape
      <3>2. probing' = probing
        BY <1>1
      <3> QED BY <1>2, <3>1, <3>2
    <2>2. generation' = generation + 1 /\ generation < MaxIncidents /\ blocked' = TRUE
      BY <1>1
    <2>3. generation' \in 0..MaxIncidents /\ generation' > 0
      BY <1>2, <2>2
    <2> QED BY <2>1, <2>2, <2>3 DEF LatchShape
  <1>6. SearchAge'
    <2> SUFFICES ASSUME NEW i \in Positions, at[i] = "match"
                 PROVE  started[i] < generation'
      BY <1>1, <1>2 DEF SearchAge, JobInv, ResolutionShape
    <2>1. started[i] <= generation /\ started[i] \in Nat
      BY DEF JobInv, SearchAge, ResolutionShape
    <2> QED BY <1>1, <1>2, <2>1
  <1>7. IncidentIsNotFailure'
    <2>1. ASSUME NEW i \in Positions, at[i] = "result", struck'[i] PROVE struck[i]
      <3>1. struck'[i] = (struck[i] \/ at[i] = "match")
        BY <1>1, Zenon
      <3>2. at[i] # "match"
        BY <2>1
      <3> QED BY <2>1, <3>1, <3>2, Zenon
    <2> QED BY <1>1, <2>1 DEF JobInv, IncidentIsNotFailure
  <1>8. PendingHasOwner' /\ TrialReturned'
    BY <1>1, <1>2 DEF JobInv, PendingHasOwner, TrialReturned, Running
  <1> QED BY <1>3, <1>4, <1>5, <1>6, <1>7, <1>8 DEF JobInv

-----------------------------------------------------------------------------
(*************************************************************************)
(* One resolution: admission, the trial, the search, its result.         *)
(*************************************************************************)
Resolving == {"admit", "admitted", "match"}

\* A resolution that is under way moves on: the coordinator is where it was.
LEMMA ResolutionMoves ==
  ASSUME JobInv, NEW i \in Positions, at[i] \in Resolving,
         UNCHANGED <<queue, wanted, current, jobPC, batch, tasks, index>>,
         NEW w \in Resolving \cup {"result"}, at' = [at EXCEPT ![i] = w]
  PROVE  /\ Sound(queue') /\ BatchShape' /\ RestShape' /\ PendingHasOwner'
         /\ at' \in [Positions -> Places] /\ wanted' \in [Positions -> BOOLEAN]
         /\ current' \in {"none", "fresh", "late", "live"}
         /\ at'[i] = w /\ \A j \in Positions \ {i} : at'[j] = at[j]
  <1>1. at \in [Positions -> Places] /\ w \in Places
    BY DEF JobInv, ResolutionShape, Places, Resolving
  <1>2. /\ at' \in [Positions -> Places] /\ at'[i] = w
        /\ \A j \in Positions \ {i} : at'[j] = at[j]
    BY <1>1
  <1>3. at[i] \notin {"idle", "result"} /\ i \in Active
    BY DEF Resolving, Active
  <1>4. BatchShape'
    <2>1. \A k \in 1..Len(tasks) : tasks[k] \in Positions
      BY DEF JobInv, BatchShape
    <2>2. jobPC \in Batching => \A k \in 1..Len(tasks) : at'[tasks[k]] = "idle"
      BY <1>2, <1>3, <2>1 DEF JobInv, BatchShape
    <2> QED BY <2>2 DEF JobInv, BatchShape
  <1>5. jobPC \notin Quiet \cup {"firstCommit", "exit"} /\ (jobPC = "firstResult" => i = index)
    BY <1>3 DEF JobInv, RestShape
  <1>6. RestShape'
    BY <1>2, <1>5 DEF JobInv, RestShape
  <1>7. Sound(queue') /\ PendingHasOwner' /\ wanted' \in [Positions -> BOOLEAN]
        /\ current' \in {"none", "fresh", "late", "live"}
    BY DEF JobInv, PendingHasOwner, Running, FlagShape
  <1> QED BY <1>2, <1>4, <1>6, <1>7

LEMMA FirstTold ==
  ASSUME JobInv, NEW what \in {"deferred", "suspended", "track", "error"}, Publish(what)
  PROVE  first' \in {"none", "deferred", "suspended", "track", "error"}
  BY DEF JobInv, FlagShape, Publish

\* A resolution ends without a search.
LEMMA ResolvedShape ==
  ASSUME JobInv, NEW i \in Positions, NEW o \in Outcomes, Resolved(i, o)
  PROVE  /\ outcome' \in [Positions -> Outcomes]
         /\ permit' \in [Positions -> 0..MaxIncidents] /\ started' \in [Positions -> 0..MaxIncidents]
         /\ outcome'[i] = o /\ \A j \in Positions \ {i} :
              outcome'[j] = outcome[j] /\ permit'[j] = permit[j] /\ started'[j] = started[j]
  <1>1. 0 \in 0..MaxIncidents
    BY CollectionAssumption DEF CollectionAssumption
  <1> QED BY <1>1 DEF JobInv, ResolutionShape, Resolved

\* A resolution ends, with a search or without: its outcome says what an incident
\* left of it, and if a trial is out, somebody else has it.
LEMMA ResolutionEnds ==
  ASSUME JobInv, NEW i \in Positions, at[i] \in Resolving, NEW o \in Outcomes, Resolved(i, o),
         UNCHANGED <<queue, wanted, current, jobPC, batch, tasks, index, first>>,
         LatchShape', generation <= generation', struck' \in [Positions -> BOOLEAN],
         o = "err" => ~struck'[i],
         \A j \in Positions \ {i} : at[j] = "result" /\ struck'[j] => struck[j],
         \A j \in Positions \ {i} : at[j] = "match" /\ struck'[j] => started[j] < generation',
         probing' => \E j \in Active \ {i} : permit[j] = generation' /\ at[j] # "admit"
  PROVE  JobInv'
  <1>1. at' = [at EXCEPT ![i] = "result"]
    BY DEF Resolved
  <1>2. /\ Sound(queue') /\ BatchShape' /\ RestShape' /\ PendingHasOwner'
        /\ at' \in [Positions -> Places] /\ wanted' \in [Positions -> BOOLEAN]
        /\ current' \in {"none", "fresh", "late", "live"}
        /\ at'[i] = "result" /\ \A j \in Positions \ {i} : at'[j] = at[j]
    BY <1>1, ResolutionMoves
  <1>3. /\ outcome' \in [Positions -> Outcomes]
        /\ permit' \in [Positions -> 0..MaxIncidents] /\ started' \in [Positions -> 0..MaxIncidents]
        /\ outcome'[i] = o /\ \A j \in Positions \ {i} :
             outcome'[j] = outcome[j] /\ permit'[j] = permit[j] /\ started'[j] = started[j]
    BY ResolvedShape
  <1>4. ResolutionShape' /\ FlagShape'
    BY <1>2, <1>3 DEF JobInv, FlagShape, ResolutionShape
  <1>5. SearchAge'
    <2> SUFFICES ASSUME NEW j \in Positions, at'[j] = "match"
                 PROVE  started'[j] <= generation' /\ (struck'[j] => started'[j] < generation')
      BY DEF SearchAge
    <2>1. j # i /\ at[j] = "match" /\ started'[j] = started[j]
      BY <1>2, <1>3
    <2>2. started[j] <= generation /\ started[j] \in 0..MaxIncidents
      BY <2>1 DEF JobInv, SearchAge, ResolutionShape
    <2>3. generation \in 0..MaxIncidents /\ generation' \in 0..MaxIncidents /\ MaxIncidents \in Nat
      BY CollectionAssumption DEF JobInv, LatchShape, CollectionAssumption
    <2> QED BY <2>1, <2>2, <2>3
  <1>6. IncidentIsNotFailure'
    <2> SUFFICES ASSUME NEW j \in Positions, at'[j] = "result", outcome'[j] = "err"
                 PROVE  ~struck'[j]
      BY DEF IncidentIsNotFailure
    <2>1. CASE j = i
      BY <1>3, <2>1
    <2>2. CASE j # i
      <3>1. at[j] = "result" /\ outcome[j] = "err"
        BY <1>2, <1>3, <2>2
      <3>2. ~struck[j]
        BY <3>1 DEF JobInv, IncidentIsNotFailure
      <3> QED BY <2>2, <3>1, <3>2
    <2> QED BY <2>1, <2>2
  <1>7. TrialReturned'
    BY <1>2, <1>3 DEF TrialReturned, Active
  <1> QED BY <1>2, <1>4, <1>5, <1>6, <1>7 DEF JobInv

\* A trial is answered by whoever has it; an answer of somebody else changes nothing.
LEMMA TrialAnswered ==
  ASSUME JobInv, NEW i \in Positions, NEW failed \in BOOLEAN, UNCHANGED generation,
         Finish(i, failed) \/ (permit[i] = 0 /\ UNCHANGED <<blocked, probing>>)
  PROVE  /\ LatchShape' /\ (blocked' => blocked)
         /\ probing' => \E j \in Active \ {i} : permit[j] = generation' /\ at[j] # "admit"
  <1>1. /\ blocked \in BOOLEAN /\ probing \in BOOLEAN /\ (probing => blocked)
        /\ generation \in 0..MaxIncidents /\ (blocked => generation > 0)
    BY DEF JobInv, LatchShape
  <1>2. CASE UNCHANGED <<blocked, probing>> /\ (permit[i] = 0 \/ ~probing \/ permit[i] # Incident)
    <2>1. blocked' = blocked /\ probing' = probing
      BY <1>2
    <2>2. LatchShape'
      <3>1. blocked' \in BOOLEAN /\ probing' \in BOOLEAN /\ (probing' => blocked')
        BY <1>1, <2>1, Zenon
      <3>2. generation' \in 0..MaxIncidents /\ (blocked' => generation' > 0)
        BY <1>1, <2>1
      <3> QED BY <3>1, <3>2 DEF LatchShape
    <2>3. ASSUME probing PROVE permit[i] # generation
      BY <1>1, <1>2, <2>3 DEF Incident
    <2>4. probing => \E j \in Active \ {i} : permit[j] = generation /\ at[j] # "admit"
      BY <2>3 DEF JobInv, TrialReturned
    <2> QED BY <2>1, <2>2, <2>4
  <1>3. CASE probing /\ probing' = FALSE /\ blocked' = failed
    BY <1>1, <1>3 DEF LatchShape
  <1> QED BY <1>2, <1>3 DEF Finish

\* A caller is admitted, waits for the trial of another, or finds the job cancelled.
LEMMA AdmitKeeps == ASSUME JobInv, NEW i \in Positions, Admit(i) PROVE JobInv'
  <1>1. /\ at[i] = "admit"
        /\ UNCHANGED <<queue, current, jobPC, index, batch, tasks, wanted, struck, blocked, probing, generation>>
    BY DEF Admit, playback, latch
  <1>2. CASE canceled /\ Resolved(i, "skipped") /\ UNCHANGED first
    <2>1. generation' \in 0..MaxIncidents /\ generation <= generation' /\ LatchShape'
      BY <1>1 DEF JobInv, LatchShape
    <2>2. struck' \in [Positions -> BOOLEAN]
      BY <1>1 DEF JobInv, FlagShape
    <2>3. \A j \in Positions \ {i} : at[j] = "match" /\ struck'[j] => started[j] < generation'
      BY <1>1 DEF JobInv, SearchAge
    <2>4. probing' => \E j \in Active \ {i} : permit[j] = generation' /\ at[j] # "admit"
      BY <1>1 DEF JobInv, TrialReturned
    <2> QED BY <1>1, <1>2, <2>1, <2>2, <2>3, <2>4, ResolutionEnds DEF Resolving, Outcomes
  <1>3. ASSUME NEW w \in {"admit", "admitted"}, Moves(i, w), w = "admitted" => ~blocked,
               UNCHANGED first \/ Publish("suspended")
        PROVE  JobInv'
    <2>1. at' = [at EXCEPT ![i] = w] /\ UNCHANGED <<outcome, permit, started>>
      BY <1>3 DEF Moves
    <2>2. /\ Sound(queue') /\ BatchShape' /\ RestShape' /\ PendingHasOwner'
          /\ at' \in [Positions -> Places] /\ wanted' \in [Positions -> BOOLEAN]
          /\ current' \in {"none", "fresh", "late", "live"}
          /\ at'[i] = w /\ \A j \in Positions \ {i} : at'[j] = at[j]
      BY <1>1, <2>1, ResolutionMoves DEF Resolving
    <2>3. first' \in {"none", "deferred", "suspended", "track", "error"}
      BY <1>3, FirstTold DEF JobInv, FlagShape
    <2>4. ResolutionShape' /\ FlagShape'
      BY <1>1, <2>1, <2>2, <2>3 DEF JobInv, FlagShape, ResolutionShape
    <2>5. LatchShape'
      BY <1>1 DEF JobInv, LatchShape
    <2>6. SearchAge' /\ IncidentIsNotFailure'
      BY <1>1, <2>1, <2>2 DEF JobInv, SearchAge, IncidentIsNotFailure
    <2>7. TrialReturned'
      BY <1>1, <2>1, <2>2 DEF JobInv, TrialReturned, Active
    <2> QED BY <2>2, <2>4, <2>5, <2>6, <2>7 DEF JobInv
  <1>4. \/ canceled /\ Resolved(i, "skipped") /\ UNCHANGED first
        \/ ~blocked /\ Moves(i, "admitted") /\ UNCHANGED first
        \/ Publish("suspended") /\ Moves(i, "admit")
    BY DEF Admit
  <1> QED BY <1>2, <1>3, <1>4

\* One caller gets the trial of the incident.
LEMMA TakeTrialKeeps == ASSUME JobInv, NEW i \in Positions, TakeTrial(i) PROVE JobInv'
  <1>1. /\ at[i] = "admit" /\ blocked /\ probing' = TRUE /\ Publish("suspended")
        /\ permit' = [permit EXCEPT ![i] = Incident] /\ at' = [at EXCEPT ![i] = "admitted"]
        /\ UNCHANGED <<queue, current, jobPC, index, batch, tasks, wanted, outcome, started, struck, blocked, generation>>
    BY DEF TakeTrial, playback
  <1>2. /\ Sound(queue') /\ BatchShape' /\ RestShape' /\ PendingHasOwner'
        /\ at' \in [Positions -> Places] /\ wanted' \in [Positions -> BOOLEAN]
        /\ current' \in {"none", "fresh", "late", "live"}
        /\ at'[i] = "admitted" /\ \A j \in Positions \ {i} : at'[j] = at[j]
    BY <1>1, ResolutionMoves DEF Resolving
  <1>3. Incident = generation /\ generation \in 0..MaxIncidents
    BY <1>1 DEF Incident, JobInv, LatchShape
  <1>4. permit' \in [Positions -> 0..MaxIncidents] /\ permit'[i] = generation
    BY <1>1, <1>3 DEF JobInv, ResolutionShape
  <1>5. first' \in {"none", "deferred", "suspended", "track", "error"}
    BY <1>1, FirstTold
  <1>6. ResolutionShape' /\ FlagShape'
    BY <1>1, <1>2, <1>4, <1>5 DEF JobInv, FlagShape, ResolutionShape
  <1>7. LatchShape'
    BY <1>1 DEF JobInv, LatchShape
  <1>8. SearchAge' /\ IncidentIsNotFailure'
    BY <1>1, <1>2 DEF JobInv, SearchAge, IncidentIsNotFailure
  <1>9. TrialReturned'
    BY <1>1, <1>2, <1>4 DEF TrialReturned, Active
  <1> QED BY <1>2, <1>6, <1>7, <1>8, <1>9 DEF JobInv

\* Under the lock again after admission.
LEMMA StartSearchKeeps == ASSUME JobInv, NEW i \in Positions, StartSearch(i) PROVE JobInv'
  <1>1. /\ at[i] = "admitted"
        /\ UNCHANGED <<queue, current, jobPC, index, batch, first, tasks, wanted, generation>>
    BY DEF StartSearch, playback, coordinator
  <1>2. ASSUME NEW o \in {"blocked", "skipped"}, Resolved(i, o), UNCHANGED struck,
               Finish(i, TRUE) \/ (permit[i] = 0 /\ UNCHANGED <<blocked, probing>>)
        PROVE  JobInv'
    <2>1. /\ LatchShape'
          /\ probing' => \E j \in Active \ {i} : permit[j] = generation' /\ at[j] # "admit"
      BY <1>1, <1>2, TrialAnswered
    <2>2. generation <= generation' /\ struck' \in [Positions -> BOOLEAN]
      BY <1>1, <1>2 DEF JobInv, LatchShape, FlagShape
    <2>3. \A j \in Positions \ {i} : at[j] = "match" /\ struck'[j] => started[j] < generation'
      BY <1>1, <1>2 DEF JobInv, SearchAge
    <2> QED BY <1>1, <1>2, <2>1, <2>2, <2>3, ResolutionEnds DEF Resolving, Outcomes
  <1>3. ASSUME at' = [at EXCEPT ![i] = "match"], started' = [started EXCEPT ![i] = generation],
               struck' = [struck EXCEPT ![i] = FALSE], UNCHANGED <<outcome, permit, blocked, probing>>
        PROVE  JobInv'
    <2>1. /\ Sound(queue') /\ BatchShape' /\ RestShape' /\ PendingHasOwner'
          /\ at' \in [Positions -> Places] /\ wanted' \in [Positions -> BOOLEAN]
          /\ current' \in {"none", "fresh", "late", "live"}
          /\ at'[i] = "match" /\ \A j \in Positions \ {i} : at'[j] = at[j]
      BY <1>1, <1>3, ResolutionMoves DEF Resolving
    <2>2. generation \in 0..MaxIncidents
      BY DEF JobInv, LatchShape
    <2>3. ResolutionShape'
      BY <1>1, <1>3, <2>1, <2>2 DEF JobInv, ResolutionShape
    <2>4. struck' \in [Positions -> BOOLEAN]
      BY <1>3, Zenon DEF JobInv, FlagShape
    <2>5. FlagShape'
      BY <1>1, <2>1, <2>4 DEF JobInv, FlagShape
    <2>6. LatchShape'
      BY <1>1, <1>3 DEF JobInv, LatchShape
    <2>7. started'[i] = generation /\ ~struck'[i]
      BY <1>3 DEF JobInv, ResolutionShape, FlagShape
    <2>8. \A j \in Positions \ {i} : started'[j] = started[j] /\ struck'[j] = struck[j]
      BY <1>3 DEF JobInv, ResolutionShape, FlagShape
    <2>9. SearchAge'
      BY <1>1, <2>1, <2>2, <2>7, <2>8 DEF JobInv, SearchAge
    <2>10. IncidentIsNotFailure'
      BY <1>3, <2>1, <2>8 DEF JobInv, IncidentIsNotFailure
    <2>11. TrialReturned'
      BY <1>1, <1>3, <2>1 DEF JobInv, TrialReturned, Active
    <2> QED BY <2>1, <2>3, <2>5, <2>6, <2>9, <2>10, <2>11 DEF JobInv
  <1>4. CASE blocked /\ permit[i] = 0 /\ Resolved(i, "blocked") /\ UNCHANGED <<searchDone, struck, blocked, probing, wake>>
    BY <1>2, <1>4
  <1>5. CASE Resolved(i, IF wanted[i] /\ ~canceled THEN "blocked" ELSE "skipped")
             /\ GiveUp(i) /\ UNCHANGED <<searchDone, struck>>
    BY <1>2, <1>5 DEF GiveUp
  <1> QED BY <1>3, <1>4, <1>5 DEF StartSearch

\* The end of a search: the outcome of one that an incident struck is never "err".
LEMMA MatchReturnsKeeps == ASSUME JobInv, NEW i \in Positions, MatchReturns(i) PROVE JobInv'
  <1>1. /\ at[i] = "match"
        /\ UNCHANGED <<queue, current, jobPC, index, batch, first, tasks, wanted>>
    BY DEF MatchReturns, playback, coordinator
  <1>2. PICK found \in {"canceled", "ok", "err", "provider"} :
          LET o == IF found = "provider" /\ (canceled \/ ~wanted[i]) THEN "err" ELSE found IN
          /\ o = "provider" => blocked \/ generation < MaxIncidents
          /\ \/ o = "provider" /\ Block /\ wake' = Running
                /\ probing' = (probing /\ ~(permit[i] # 0 /\ permit[i] = Incident))
             \/ o # "provider" /\ UNCHANGED <<generation, searchDone, struck>>
                /\ IF permit[i] = 0 THEN UNCHANGED <<blocked, probing, wake>>
                   ELSE Finish(i, found \in {"provider", "canceled"}) /\ wake' = Running
          /\ Resolved(i, IF Superseded(i, o) THEN "blocked"
                         ELSE IF ~wanted[i] THEN "skipped" ELSE IF o = "ok" THEN "ok" ELSE "err")
    BY DEF MatchReturns
  <1> DEFINE o == IF found = "provider" /\ (canceled \/ ~wanted[i]) THEN "err" ELSE found
             r == IF Superseded(i, o) THEN "blocked"
                  ELSE IF ~wanted[i] THEN "skipped" ELSE IF o = "ok" THEN "ok" ELSE "err"
  <1>3. Resolved(i, r) /\ r \in Outcomes
    BY <1>2 DEF Outcomes
  <1>4. r = "err" => o # "provider" /\ generation' = started[i]
    BY DEF Superseded
  <1>5. /\ o = "provider" => blocked \/ generation < MaxIncidents
        /\ \/ /\ o = "provider" /\ Block
              /\ probing' = (probing /\ ~(permit[i] # 0 /\ permit[i] = Incident))
           \/ /\ o # "provider" /\ UNCHANGED <<generation, struck>>
              /\ \/ permit[i] = 0 /\ UNCHANGED <<blocked, probing>>
                 \/ Finish(i, found \in {"provider", "canceled"})
    BY <1>2
  <1> HIDE DEF o, r
  <1>6. /\ blocked \in BOOLEAN /\ probing \in BOOLEAN /\ (probing => blocked)
        /\ generation \in 0..MaxIncidents /\ MaxIncidents \in Nat /\ (blocked => generation > 0)
    BY CollectionAssumption DEF JobInv, LatchShape, CollectionAssumption
  <1>7. started[i] \in 0..MaxIncidents /\ (struck[i] => started[i] < generation)
    BY <1>1 DEF JobInv, SearchAge, ResolutionShape
  <1>8. CASE o # "provider"
    <2>1. generation' = generation /\ struck' = struck
      BY <1>5, <1>8
    <2>2. /\ LatchShape'
          /\ probing' => \E j \in Active \ {i} : permit[j] = generation' /\ at[j] # "admit"
      <3>1. (found \in {"provider", "canceled"}) \in BOOLEAN
        OBVIOUS
      <3> QED BY <1>5, <1>8, <2>1, <3>1, TrialAnswered
    <2>3. generation <= generation' /\ struck' \in [Positions -> BOOLEAN]
      BY <1>6, <2>1 DEF JobInv, FlagShape
    <2>4. r = "err" => ~struck'[i]
      BY <1>4, <1>6, <1>7, <2>1
    <2>5. \A j \in Positions \ {i} : at[j] = "match" /\ struck'[j] => started[j] < generation'
      BY <2>1 DEF JobInv, SearchAge
    <2> QED BY <1>1, <1>3, <2>1, <2>2, <2>3, <2>4, <2>5, ResolutionEnds DEF Resolving
  <1>9. CASE o = "provider" /\ blocked
    <2>1. generation' = generation /\ struck' = struck /\ blocked' = TRUE
      BY <1>5, <1>9 DEF Block
    <2>2. probing' = (probing /\ ~(permit[i] # 0 /\ permit[i] = generation))
      BY <1>5, <1>9 DEF Incident
    <2>3. LatchShape'
      BY <1>6, <1>9, <2>1, <2>2 DEF LatchShape
    <2>4. probing' => \E j \in Active \ {i} : permit[j] = generation' /\ at[j] # "admit"
      <3>1. permit[i] = generation => permit[i] # 0
        BY <1>6, <1>9
      <3>2. probing' => probing /\ permit[i] # generation
        BY <2>2, <3>1, Zenon
      <3> QED BY <2>1, <3>2 DEF JobInv, TrialReturned
    <2>5. generation <= generation' /\ struck' \in [Positions -> BOOLEAN]
      BY <1>6, <2>1 DEF JobInv, FlagShape
    <2>6. \A j \in Positions \ {i} : at[j] = "match" /\ struck'[j] => started[j] < generation'
      BY <2>1 DEF JobInv, SearchAge
    <2> QED BY <1>1, <1>3, <1>4, <1>9, <2>1, <2>3, <2>4, <2>5, <2>6, ResolutionEnds DEF Resolving
  <1>10. CASE o = "provider" /\ ~blocked
    <2>1. /\ generation' = generation + 1 /\ blocked' = TRUE /\ generation < MaxIncidents
          /\ struck' = [j \in Positions |-> struck[j] \/ at[j] = "match"]
      BY <1>5, <1>10 DEF Block
    <2>2. probing' = FALSE
      BY <1>5, <1>6, <1>10
    <2>3. LatchShape'
      <3>1. generation' \in 0..MaxIncidents /\ generation' > 0
        BY <1>6, <2>1
      <3> QED BY <2>1, <2>2, <3>1 DEF LatchShape
    <2>4. struck' \in [Positions -> BOOLEAN]
      <3>1. struck' = [j \in Positions |-> struck[j] \/ at[j] = "match"]
        BY <2>1
      <3> QED BY <3>1, Zenon DEF JobInv, FlagShape
    <2>5. generation <= generation'
      BY <1>6, <2>1
    <2>6. \A j \in Positions \ {i} : at[j] = "match" => started[j] < generation'
      BY <1>6, <2>1 DEF JobInv, SearchAge, ResolutionShape
    <2>7. ASSUME NEW j \in Positions, at[j] = "result", struck'[j] PROVE struck[j]
      <3>1. struck'[j] = (struck[j] \/ at[j] = "match")
        BY <2>1, Zenon
      <3>2. at[j] # "match"
        BY <2>7
      <3> QED BY <2>7, <3>1, <3>2, Zenon
    <2> QED BY <1>1, <1>3, <1>4, <1>10, <2>2, <2>3, <2>4, <2>5, <2>6, <2>7, ResolutionEnds DEF Resolving
  <1> QED BY <1>6, <1>8, <1>9, <1>10

-----------------------------------------------------------------------------
(*************************************************************************)
(* Workers and the coordinator.                                          *)
(*************************************************************************)
\* What the searches add to the invariant.
SearchInv == ResolutionShape /\ LatchShape /\ SearchAge /\ IncidentIsNotFailure /\ TrialReturned
\* What the coordinator adds to it.
CoordinatorInv == BatchShape /\ RestShape /\ FlagShape /\ Sound(queue) /\ PendingHasOwner

LEMMA InvParts == JobInv <=> SearchInv /\ CoordinatorInv
  BY DEF JobInv, SearchInv, CoordinatorInv

LEMMA SameSearches ==
  ASSUME JobInv, UNCHANGED <<at, outcome, permit, started, struck, blocked, probing, generation>>
  PROVE  SearchInv'
  <1>1. ResolutionShape' /\ SearchAge' /\ IncidentIsNotFailure' /\ TrialReturned'
    BY DEF JobInv, ResolutionShape, SearchAge, IncidentIsNotFailure, TrialReturned, Active
  <1>2. LatchShape'
    BY DEF JobInv, LatchShape
  <1> QED BY <1>1, <1>2 DEF SearchInv

\* A resolution begins.
LEMMA StartedSearch ==
  ASSUME JobInv, NEW i \in Positions, at[i] = "idle", NEW o \in {"skipped", "blocked"},
         Resolved(i, o) \/ Moves(i, "admit"), UNCHANGED <<struck, blocked, probing, generation>>
  PROVE  /\ SearchInv' /\ at'[i] \in {"result", "admit"} /\ at' \in [Positions -> Places]
         /\ \A j \in Positions \ {i} : at'[j] = at[j]
  <1>1. PICK w \in {"result", "admit"} : at' = [at EXCEPT ![i] = w]
    BY DEF Resolved, Moves
  <1>2. /\ at' \in [Positions -> Places] /\ at'[i] = w
        /\ \A j \in Positions \ {i} : at'[j] = at[j]
    BY <1>1 DEF JobInv, ResolutionShape, Places
  <1>3. /\ outcome' \in [Positions -> Outcomes] /\ (w = "result" => outcome'[i] # "err")
        /\ \A j \in Positions \ {i} :
             outcome'[j] = outcome[j] /\ permit'[j] = permit[j] /\ started'[j] = started[j]
        /\ permit' \in [Positions -> 0..MaxIncidents] /\ started' \in [Positions -> 0..MaxIncidents]
    <2>1. CASE Resolved(i, o)
      BY <2>1, ResolvedShape DEF Outcomes
    <2>2. CASE Moves(i, "admit")
      <3>1. w = "admit"
        BY <1>2, <2>2 DEF Moves, JobInv, ResolutionShape
      <3> QED BY <2>2, <3>1 DEF Moves, JobInv, ResolutionShape
    <2> QED BY <2>1, <2>2
  <1>4. ResolutionShape' /\ SearchAge' /\ IncidentIsNotFailure'
    BY <1>2, <1>3 DEF JobInv, ResolutionShape, SearchAge, IncidentIsNotFailure
  <1>5. LatchShape'
    BY DEF JobInv, LatchShape
  <1>6. TrialReturned'
    BY <1>2, <1>3 DEF JobInv, TrialReturned, Active
  <1> QED BY <1>2, <1>4, <1>5, <1>6 DEF SearchInv

\* A worker takes the next task.
LEMMA TakeTaskKeeps == ASSUME JobInv, TakeTask PROVE JobInv'
  <1> DEFINE i == Head(tasks)
  <1>1. /\ jobPC \in Batching /\ tasks # <<>> /\ tasks' = Tail(tasks)
        /\ Resolved(i, "blocked") \/ Moves(i, "admit")
        /\ UNCHANGED <<queue, current, jobPC, index, batch, first, wanted, struck, blocked, probing, generation>>
    BY DEF TakeTask, Batching, playback, coordinator, latch
  <1>2. /\ tasks \in Seq(Positions) /\ Len(tasks) \in Nat /\ Len(tasks) >= 1
        /\ OnceEach(tasks) /\ \A k \in 1..Len(tasks) : at[tasks[k]] = "idle"
    BY <1>1 DEF JobInv, BatchShape
  <1>3. i = tasks[1] /\ i \in Positions /\ at[i] = "idle"
    BY <1>1, <1>2, ElementOfSeq
  <1>4. /\ tasks' \in Seq(Positions) /\ Len(tasks') = Len(tasks) - 1
        /\ \A k \in 1..(Len(tasks) - 1) : tasks'[k] = tasks[k + 1]
    BY <1>1, <1>2
  <1> HIDE DEF i
  <1>5. SearchInv' /\ \A j \in Positions \ {i} : at'[j] = at[j]
    BY <1>1, <1>3, StartedSearch
  <1>6. BatchShape'
    <2>1. ASSUME NEW k \in 1..Len(tasks') PROVE at'[tasks'[k]] = "idle"
      <3>1. k + 1 \in 1..Len(tasks) /\ k + 1 # 1 /\ 1 \in 1..Len(tasks) /\ tasks'[k] = tasks[k + 1]
        BY <1>2, <1>4
      <3>2. tasks[k + 1] # i /\ tasks[k + 1] \in Positions
        BY <1>2, <1>3, <3>1, ElementOfSeq DEF OnceEach
      <3> QED BY <1>2, <1>5, <3>1, <3>2
    <2>2. OnceEach(tasks')
      <3> SUFFICES ASSUME NEW k \in 1..Len(tasks'), NEW l \in 1..Len(tasks'), tasks'[k] = tasks'[l]
                   PROVE  k = l
        BY DEF OnceEach
      <3>1. k + 1 \in 1..Len(tasks) /\ l + 1 \in 1..Len(tasks) /\ tasks[k + 1] = tasks[l + 1]
        BY <1>2, <1>4
      <3>2. k + 1 = l + 1
        BY <1>2, <3>1 DEF OnceEach
      <3> QED BY <1>2, <1>4, <3>2
    <2> QED BY <1>1, <1>4, <2>1, <2>2 DEF JobInv, BatchShape
  <1>7. RestShape'
    BY <1>1 DEF RestShape, Quiet, Batching
  <1>8. Sound(queue') /\ FlagShape' /\ PendingHasOwner'
    BY <1>1 DEF JobInv, FlagShape, PendingHasOwner, Running
  <1> QED BY <1>5, <1>6, <1>7, <1>8 DEF JobInv, SearchInv

\* The coordinator takes a result.
LEMMA ClearedSearch ==
  ASSUME JobInv, NEW i \in Positions, at[i] = "result", Clears(i),
         UNCHANGED <<permit, started, blocked, probing, generation>>
  PROVE  /\ SearchInv' /\ struck' \in [Positions -> BOOLEAN]
         /\ at'[i] = "idle" /\ \A j \in Positions \ {i} : at'[j] = at[j]
  <1>1. /\ at \in [Positions -> Places] /\ outcome \in [Positions -> Outcomes]
        /\ struck \in [Positions -> BOOLEAN]
    BY DEF JobInv, ResolutionShape, FlagShape
  <1>2. /\ at' \in [Positions -> Places] /\ outcome' \in [Positions -> Outcomes]
        /\ at'[i] = "idle" /\ \A j \in Positions \ {i} : at'[j] = at[j] /\ outcome'[j] = outcome[j]
    BY <1>1 DEF Clears, Places, Outcomes
  <1>3. struck' = [struck EXCEPT ![i] = FALSE]
    BY DEF Clears
  <1>4. struck' \in [Positions -> BOOLEAN]
    BY <1>1, <1>3, Zenon
  <1>5. \A j \in Positions \ {i} : struck'[j] = struck[j]
    BY <1>1, <1>3
  <1>6. ResolutionShape' /\ SearchAge' /\ IncidentIsNotFailure'
    BY <1>2, <1>5 DEF JobInv, ResolutionShape, SearchAge, IncidentIsNotFailure
  <1>7. LatchShape'
    BY DEF JobInv, LatchShape
  <1>8. TrialReturned'
    BY <1>2 DEF JobInv, TrialReturned, Active
  <1> QED BY <1>2, <1>4, <1>6, <1>7, <1>8 DEF SearchInv

\* A batch, or the job, is over.
LEMMA ForgottenSearches ==
  ASSUME JobInv, \A i \in Positions : at[i] \notin Resolving, Forget, UNCHANGED <<blocked, probing, generation>>
  PROVE  /\ SearchInv' /\ struck' \in [Positions -> BOOLEAN]
         /\ (\A i \in Positions : at'[i] = "idle")
         /\ batch' = <<>> /\ tasks' = <<>> /\ index' = 1
  <1>1. ~probing
    BY TrialHasHolder DEF Resolving
  <1>2. /\ at' = [i \in Positions |-> "idle"] /\ outcome' = [i \in Positions |-> "none"]
        /\ permit' = [i \in Positions |-> 0] /\ started' = [i \in Positions |-> 0]
        /\ struck' = [i \in Positions |-> FALSE]
        /\ batch' = <<>> /\ tasks' = <<>> /\ index' = 1
    BY DEF Forget
  <1>3. 0 \in 0..MaxIncidents
    BY CollectionAssumption DEF CollectionAssumption
  <1>4. struck' \in [Positions -> BOOLEAN] /\ \A i \in Positions : at'[i] = "idle"
    BY <1>2
  <1>5. ResolutionShape' /\ SearchAge' /\ IncidentIsNotFailure' /\ TrialReturned'
    BY <1>1, <1>2, <1>3 DEF ResolutionShape, SearchAge, IncidentIsNotFailure, TrialReturned, Places, Outcomes
  <1>6. LatchShape'
    BY DEF JobInv, LatchShape
  <1> QED BY <1>2, <1>4, <1>5, <1>6 DEF SearchInv

\* The types the coordinator's steps need.
LEMMA CoordinatorTypes ==
  ASSUME JobInv
  PROVE  /\ Tracks \in Nat /\ Tracks > 0 /\ index \in 1..(Tracks + 1)
         /\ (jobPC \in FirstPhase => index \in Positions)
         /\ batch \in Seq(Positions) /\ Len(batch) \in Nat /\ Len(batch) <= Tracks
         /\ Sound(queue) /\ Len(queue) \in Nat /\ queue \in Seq(Entries)
         /\ wanted \in [Positions -> BOOLEAN] /\ struck \in [Positions -> BOOLEAN]
         /\ current \in {"none", "fresh", "late", "live"}
         /\ first \in {"none", "deferred", "suspended", "track", "error"}
         /\ at \in [Positions -> Places] /\ outcome \in [Positions -> Outcomes]
  <1>1. Tracks \in Nat /\ Tracks > 0
    BY CollectionAssumption DEF CollectionAssumption
  <1>2. index \in 1..(Tracks + 1) /\ (jobPC \in FirstPhase => index <= Tracks)
    BY DEF JobInv, BatchShape
  <1>3. jobPC \in FirstPhase => index \in Positions
    BY <1>1, <1>2 DEF Positions
  <1> QED BY <1>1, <1>2, <1>3 DEF JobInv, BatchShape, Sound, FlagShape, ResolutionShape

\* The first position: admitted, removed, or outside the horizon.
LEMMA FirstHorizonKeeps == ASSUME JobInv, FirstHorizon PROVE JobInv'
  <1>1. /\ jobPC = "first"
        /\ UNCHANGED <<queue, current, wanted, index, batch, tasks, struck, blocked, probing, generation>>
    BY DEF FirstHorizon, playback, latch
  <1>2. (\A i \in Positions : at[i] = "idle") /\ index \in Positions
    BY <1>1, CoordinatorTypes DEF JobInv, RestShape, Quiet, FirstPhase
  <1>3. ASSUME jobPC' = "firstResult", UNCHANGED first, Resolved(index, "skipped") \/ Moves(index, "admit")
        PROVE  JobInv'
    <2>1. SearchInv' /\ at'[index] \in {"result", "admit"} /\ \A j \in Positions \ {index} : at'[j] = "idle"
      BY <1>1, <1>2, <1>3, StartedSearch
    <2>2. BatchShape' /\ FlagShape' /\ Sound(queue') /\ PendingHasOwner'
      BY <1>1, <1>3 DEF JobInv, BatchShape, FlagShape, PendingHasOwner, Running, FirstPhase, Batching
    <2>3. RestShape'
      BY <1>1, <1>3, <2>1 DEF RestShape, Quiet
    <2> QED BY <2>1, <2>2, <2>3, InvParts DEF JobInv, SearchInv
  <1>4. ASSUME NEW what \in {"exit", "firstWait"}, jobPC' = what, UNCHANGED <<at, outcome, permit, started>>,
               UNCHANGED first \/ Publish("deferred")
        PROVE  JobInv'
    <2>1. SearchInv'
      BY <1>1, <1>4, SameSearches
    <2>2. first' \in {"none", "deferred", "suspended", "track", "error"}
      BY <1>4, FirstTold, CoordinatorTypes
    <2>3. BatchShape' /\ FlagShape' /\ Sound(queue') /\ PendingHasOwner'
      BY <1>1, <1>4, <2>2 DEF JobInv, BatchShape, FlagShape, PendingHasOwner, Running, FirstPhase, Batching
    <2>4. RestShape'
      BY <1>1, <1>2, <1>4 DEF RestShape, Quiet, Active
    <2> QED BY <2>1, <2>3, <2>4 DEF JobInv, SearchInv
  <1> QED BY <1>3, <1>4 DEF FirstHorizon, Goes


\* The coordinator wakes up.
LEMMA WakesKeeps == ASSUME JobInv, Wakes PROVE JobInv'
  <1>1. /\ jobPC \in {"firstWait", "wait"} /\ jobPC' \in {"exit", "select", "first"}
        /\ (jobPC' = "first" => jobPC = "firstWait")
        /\ UNCHANGED <<queue, current, wanted, index, batch, tasks, at, outcome, permit, started, struck, first,
                       blocked, probing, generation>>
    BY DEF Wakes, Goes, playback, searches, latch
  <1>2. \A i \in Positions : at[i] = "idle"
    BY <1>1 DEF JobInv, RestShape, Quiet
  <1>3. SearchInv'
    BY <1>1, SameSearches
  <1>4. BatchShape' /\ FlagShape' /\ Sound(queue') /\ PendingHasOwner'
    BY <1>1 DEF JobInv, BatchShape, FlagShape, PendingHasOwner, Running, FirstPhase, Batching, Quiet
  <1>5. RestShape'
    BY <1>1, <1>2 DEF RestShape, Quiet, Active
  <1> QED BY <1>3, <1>4, <1>5 DEF JobInv, SearchInv

\* The result of the first position.
LEMMA FirstResultKeeps == ASSUME JobInv, FirstResult PROVE JobInv'
  <1>1. /\ jobPC = "firstResult" /\ at[index] = "result"
        /\ UNCHANGED <<queue, current, wanted, index, batch, tasks, permit, started, blocked, probing, generation>>
    BY DEF FirstResult, playback, latch
  <1>2. index \in Positions /\ \A i \in Positions \ {index} : at[i] = "idle"
    BY <1>1, CoordinatorTypes DEF JobInv, RestShape, FirstPhase
  <1>3. ASSUME NEW what \in {"exit", "first"}, jobPC' = what, Clears(index),
               UNCHANGED first \/ Publish("suspended")
        PROVE  JobInv'
    <2>1. /\ SearchInv' /\ struck' \in [Positions -> BOOLEAN]
          /\ \A j \in Positions : at'[j] = "idle"
      BY <1>1, <1>2, <1>3, ClearedSearch
    <2>2. first' \in {"none", "deferred", "suspended", "track", "error"}
      BY <1>3, FirstTold, CoordinatorTypes
    <2>3. BatchShape' /\ FlagShape' /\ Sound(queue') /\ PendingHasOwner'
      BY <1>1, <1>3, <2>1, <2>2 DEF JobInv, BatchShape, FlagShape, PendingHasOwner, Running, FirstPhase, Batching
    <2>4. RestShape'
      BY <1>1, <1>3, <2>1 DEF RestShape, Quiet, Active
    <2> QED BY <2>1, <2>3, <2>4 DEF JobInv, SearchInv
  <1>4. ASSUME jobPC' = "firstCommit", UNCHANGED <<at, outcome, struck, first>>
        PROVE  JobInv'
    <2>1. SearchInv'
      BY <1>1, <1>4, SameSearches
    <2>2. BatchShape' /\ FlagShape' /\ Sound(queue') /\ PendingHasOwner'
      BY <1>1, <1>4 DEF JobInv, BatchShape, FlagShape, PendingHasOwner, Running, FirstPhase, Batching
    <2>3. RestShape'
      BY <1>1, <1>2, <1>4 DEF RestShape, Quiet, Active
    <2> QED BY <2>1, <2>2, <2>3 DEF JobInv, SearchInv
  <1> QED BY <1>3, <1>4 DEF FirstResult, Goes

\* The first position is committed, or the next one is tried.
LEMMA FirstCommitKeeps == ASSUME JobInv, FirstCommit PROVE JobInv'
  <1>1. /\ jobPC = "firstCommit" /\ Clears(index)
        /\ UNCHANGED <<current, batch, tasks, permit, started, blocked, probing, generation>>
    BY DEF FirstCommit, playback, latch
  <1>2. /\ index \in Positions /\ at[index] = "result"
        /\ \A i \in Positions \ {index} : at[i] = "idle"
    BY <1>1, CoordinatorTypes DEF JobInv, RestShape, FirstPhase
  <1>3. /\ SearchInv' /\ struck' \in [Positions -> BOOLEAN]
        /\ \A j \in Positions : at'[j] = "idle"
    BY <1>1, <1>2, ClearedSearch
  <1>4. UNCHANGED <<queue, wanted>> \/ Commit(index)
    BY DEF FirstCommit
  <1>5. Sound(queue') /\ wanted' \in [Positions -> BOOLEAN]
    BY <1>2, <1>4, CommitPicks, CoordinatorTypes
  <1>6. jobPC' \in {"exit", "select", "first"} /\ (UNCHANGED first \/ Publish("track"))
    BY DEF FirstCommit, Goes
  <1>7. first' \in {"none", "deferred", "suspended", "track", "error"}
    BY <1>6, FirstTold, CoordinatorTypes
  <1>8. index' \in 1..(Tracks + 1) /\ (jobPC' = "first" => index' <= Tracks)
    <2>1. UNCHANGED index \/ (index' = index + 1 /\ (index = Tracks => jobPC' = "exit"))
      BY DEF FirstCommit, Goes
    <2> QED BY <1>2, <2>1, CoordinatorTypes DEF Positions
  <1>9. BatchShape'
    BY <1>1, <1>6, <1>8 DEF JobInv, BatchShape, FirstPhase, Batching, Quiet
  <1>10. FlagShape' /\ PendingHasOwner' /\ RestShape'
    BY <1>1, <1>3, <1>5, <1>6, <1>7 DEF FlagShape, PendingHasOwner, Running, RestShape, Active, JobInv
  <1> QED BY <1>3, <1>5, <1>9, <1>10 DEF JobInv, SearchInv

\* A batch is chosen.
LEMMA SelectBatchKeeps == ASSUME JobInv, SelectBatch PROVE JobInv'
  <1>1. /\ jobPC = "select"
        /\ UNCHANGED <<queue, current, wanted, at, outcome, permit, started, struck, first, blocked, probing, generation>>
    BY DEF SelectBatch, playback, searches, latch
  <1>2. \A i \in Positions : at[i] = "idle"
    BY <1>1 DEF JobInv, RestShape, Quiet
  <1>3. SearchInv'
    BY <1>1, SameSearches
  <1>4. jobPC' \in {"exit", "wait", "collect"}
    BY DEF SelectBatch, Goes
  <1>5. /\ batch' \in Seq(Positions) /\ Len(batch') <= Tracks /\ index' \in 1..(Tracks + 1)
        /\ tasks' \in Seq(Positions) /\ OnceEach(tasks')
    <2>1. CASE UNCHANGED <<batch, tasks, index>>
      BY <2>1 DEF JobInv, BatchShape
    <2>2. CASE /\ \E f \in Ascending(Ready) : batch' = [n \in DOMAIN f |-> queue[f[n]].position]
               /\ tasks' = batch' /\ index' = 1
      <3>1. PICK f \in Ascending(Ready) : batch' = [n \in DOMAIN f |-> queue[f[n]].position]
        BY <2>2
      <3>2. Ready \in SUBSET (1..Len(queue))
        BY DEF Ready
      <3>3. batch' \in Seq(Positions) /\ Len(batch') <= Tracks /\ OnceEach(batch')
        <4> DEFINE b == [n \in DOMAIN f |-> queue[f[n]].position]
        <4>1. Sound(queue)
          BY CoordinatorTypes
        <4> HIDE DEF b
        <4>2. b \in Seq(Positions) /\ Len(b) <= Tracks /\ OnceEach(b)
          BY <3>2, <4>1, BatchPicks DEF b
        <4>3. batch' = b
          BY <3>1 DEF b
        <4> QED BY <4>2, <4>3
      <3> QED BY <2>2, <3>3, CoordinatorTypes
    <2> QED BY <2>1, <2>2 DEF SelectBatch
  <1>6. BatchShape'
    <2>1. \A k \in 1..Len(tasks') : at'[tasks'[k]] = "idle"
      BY <1>1, <1>2, <1>5, ElementOfSeq
    <2> QED BY <1>4, <1>5, <2>1 DEF BatchShape, FirstPhase, Batching, Quiet
  <1>7. RestShape' /\ FlagShape' /\ PendingHasOwner' /\ Sound(queue')
    BY <1>1, <1>2, <1>4 DEF RestShape, Quiet, Active, FlagShape, PendingHasOwner, Running, JobInv
  <1> QED BY <1>3, <1>6, <1>7 DEF JobInv, SearchInv

\* One result of the batch.
LEMMA CollectKeeps == ASSUME JobInv, Collect PROVE JobInv'
  <1>1. /\ jobPC = "collect"
        /\ UNCHANGED <<queue, current, wanted, index, batch, tasks, permit, started, first, blocked, probing, generation>>
    BY DEF Collect, playback, latch
  <1>2. PICK i \in Range(batch) :
          /\ at[i] = "result"
          /\ \/ Clears(i) /\ UNCHANGED jobPC
             \/ /\ jobPC' = "prefix"
                /\ at' = [at EXCEPT ![i] = "ready"] /\ UNCHANGED <<outcome, struck>>
    BY DEF Collect, Goes
  <1>3. i \in Positions
    BY CoordinatorTypes, ElementOfSeq DEF Range
  <1>4. /\ SearchInv' /\ struck' \in [Positions -> BOOLEAN]
        /\ \A j \in Positions \ {i} : at'[j] = at[j]
    <2>1. CASE Clears(i)
      BY <1>1, <1>2, <1>3, <2>1, ClearedSearch
    <2>2. CASE at' = [at EXCEPT ![i] = "ready"] /\ UNCHANGED <<outcome, struck>>
      <3>1. /\ at' \in [Positions -> Places] /\ at'[i] = "ready"
            /\ \A j \in Positions \ {i} : at'[j] = at[j]
        BY <1>3, <2>2, CoordinatorTypes DEF Places
      <3>2. ResolutionShape' /\ SearchAge' /\ IncidentIsNotFailure'
        BY <1>1, <2>2, <3>1 DEF JobInv, ResolutionShape, SearchAge, IncidentIsNotFailure
      <3>3. LatchShape'
        BY <1>1 DEF JobInv, LatchShape
      <3>4. TrialReturned'
        BY <1>1, <1>2, <3>1 DEF JobInv, TrialReturned, Active
      <3>5. struck' \in [Positions -> BOOLEAN]
        BY <2>2, CoordinatorTypes
      <3> QED BY <3>1, <3>2, <3>3, <3>4, <3>5 DEF SearchInv
    <2> QED BY <1>2, <2>1, <2>2
  <1>5. jobPC' \in {"collect", "prefix"}
    BY <1>1, <1>2
  <1>6. BatchShape'
    <2>1. \A k \in 1..Len(tasks) : at[tasks[k]] = "idle" /\ tasks[k] \in Positions
      BY <1>1 DEF JobInv, BatchShape, Batching
    <2>2. \A k \in 1..Len(tasks') : at'[tasks'[k]] = "idle"
      BY <1>1, <1>2, <1>4, <2>1
    <2> QED BY <1>1, <1>5, <2>2 DEF JobInv, BatchShape, FirstPhase, Batching
  <1>7. RestShape' /\ FlagShape' /\ PendingHasOwner' /\ Sound(queue')
    BY <1>1, <1>4, <1>5 DEF RestShape, Quiet, FlagShape, PendingHasOwner, Running, JobInv
  <1> QED BY <1>4, <1>6, <1>7 DEF JobInv, SearchInv

\* The frontier of a batch, and its ends that leave the searches alone.
LEMMA FrontierKeeps == ASSUME JobInv, Prefix \/ BatchCanceled \/ Drain PROVE JobInv'
  <1>1. UNCHANGED <<queue, current, wanted, index, batch, tasks, at, outcome, permit, started, struck, first,
                    blocked, probing, generation>>
    BY DEF Prefix, BatchCanceled, Drain, playback, searches, latch
  <1>2. SearchInv'
    BY <1>1, SameSearches
  <1>3. \/ jobPC = "prefix" /\ (jobPC' = "collect" \/ (jobPC' = "commit" /\ index <= Len(batch)))
        \/ jobPC = "collect" /\ jobPC' = "drain"
        \/ jobPC = "drain" /\ jobPC' = "exit" /\ Active = {}
    BY DEF Prefix, BatchCanceled, Drain, Goes
  <1>4. BatchShape'
    BY <1>1, <1>3 DEF JobInv, BatchShape, FirstPhase, Batching
  <1>5. RestShape'
    BY <1>1, <1>3 DEF RestShape, Quiet, Active
  <1>6. FlagShape' /\ PendingHasOwner' /\ Sound(queue')
    BY <1>1, <1>3 DEF FlagShape, PendingHasOwner, Running, JobInv
  <1> QED BY <1>2, <1>4, <1>5, <1>6 DEF JobInv, SearchInv

\* The next result of the frontier is committed.
LEMMA CommitPrefixKeeps == ASSUME JobInv, CommitPrefix PROVE JobInv'
  <1>1. /\ jobPC = "commit" /\ jobPC' \in {"drain", "prefix"}
        /\ UNCHANGED <<current, batch, tasks, at, outcome, permit, started, struck, first, blocked, probing, generation>>
    BY DEF CommitPrefix, Goes, playback, searches, latch
  <1>2. index <= Len(batch) /\ index \in 1..(Tracks + 1)
    BY <1>1 DEF JobInv, BatchShape
  <1>3. batch[index] \in Positions
    BY <1>2, CoordinatorTypes, ElementOfSeq
  <1>4. Sound(queue') /\ wanted' \in [Positions -> BOOLEAN]
    <2>1. UNCHANGED <<queue, wanted>> \/ Commit(batch[index])
      BY DEF CommitPrefix
    <2> QED BY <1>3, <2>1, CommitPicks, CoordinatorTypes
  <1>5. index' \in 1..(Tracks + 1)
    <2>1. index' \in {index, index + 1}
      BY DEF CommitPrefix
    <2> QED BY <1>2, <2>1, CoordinatorTypes
  <1>6. SearchInv'
    BY <1>1, SameSearches
  <1>7. BatchShape'
    BY <1>1, <1>5 DEF JobInv, BatchShape, FirstPhase, Batching
  <1>8. RestShape' /\ FlagShape' /\ PendingHasOwner'
    BY <1>1, <1>4 DEF RestShape, Quiet, FlagShape, PendingHasOwner, Running, JobInv
  <1> QED BY <1>4, <1>6, <1>7, <1>8 DEF JobInv, SearchInv

\* All results of a batch are there.
LEMMA BatchEndsKeeps == ASSUME JobInv, BatchEnds PROVE JobInv'
  <1>1. /\ jobPC = "collect" /\ jobPC' = "select" /\ Forget
        /\ \A i \in Positions : at[i] \in {"idle", "ready"}
        /\ UNCHANGED <<queue, current, wanted, first, blocked, probing, generation>>
    BY DEF BatchEnds, Goes, playback, latch
  <1>2. /\ SearchInv' /\ struck' \in [Positions -> BOOLEAN]
        /\ (\A i \in Positions : at'[i] = "idle")
        /\ batch' = <<>> /\ tasks' = <<>> /\ index' = 1
    BY <1>1, ForgottenSearches DEF Resolving
  <1>3. BatchShape'
    BY <1>1, <1>2, CoordinatorTypes DEF BatchShape, FirstPhase, Batching, Quiet, OnceEach
  <1>4. RestShape' /\ FlagShape' /\ PendingHasOwner' /\ Sound(queue')
    BY <1>1, <1>2 DEF RestShape, FlagShape, PendingHasOwner, Running, JobInv
  <1> QED BY <1>2, <1>3, <1>4 DEF JobInv, SearchInv

\* The job is over: what it left Pending goes with it.
LEMMA ExitKeeps == ASSUME JobInv, Exit PROVE JobInv'
  <1>1. /\ jobPC = "exit" /\ jobPC' = "gone" /\ Forget /\ Publish("error")
        /\ wanted' = [i \in Positions |-> FALSE]
        /\ UNCHANGED <<current, blocked, probing, generation>>
    BY DEF Exit, Goes, playback, latch
  <1>2. \A i \in Positions : at[i] \notin Resolving
    BY <1>1 DEF JobInv, RestShape, Active, Resolving
  <1>3. /\ SearchInv' /\ struck' \in [Positions -> BOOLEAN]
        /\ (\A i \in Positions : at'[i] = "idle")
        /\ batch' = <<>> /\ tasks' = <<>> /\ index' = 1
    BY <1>1, <1>2, ForgottenSearches
  <1>4. first' \in {"none", "deferred", "suspended", "track", "error"} /\ wanted' \in [Positions -> BOOLEAN]
    BY <1>1, FirstTold
  <1> DEFINE kept == {k \in 1..Len(queue) : queue[k] \notin Unresolved}
  <1>5. PICK f \in Ascending(kept) : queue' = [n \in DOMAIN f |-> queue[f[n]]]
    BY DEF Exit
  <1>6. Sound(queue') /\ (Waiting(queue') => \E k \in kept : queue[k].pending)
    BY <1>5, KeptPicks, CoordinatorTypes
  <1>7. ~\E k \in kept : queue[k].pending
    BY CoordinatorTypes DEF Unresolved, Range
  <1> HIDE DEF kept
  <1>8. PendingHasOwner'
    BY <1>6, <1>7 DEF PendingHasOwner, Waiting
  <1>9. BatchShape'
    BY <1>1, <1>3, CoordinatorTypes DEF BatchShape, FirstPhase, Batching, Quiet, OnceEach
  <1>10. RestShape' /\ FlagShape'
    BY <1>1, <1>3, <1>4 DEF RestShape, FlagShape, JobInv
  <1> QED BY <1>3, <1>6, <1>8, <1>9, <1>10 DEF JobInv, SearchInv

-----------------------------------------------------------------------------
(*************************************************************************)
(* What is committed stays.  A batch names unresolved positions, each    *)
(* once, and the frontier passes every one of them once.                 *)
(*************************************************************************)
FrontierInv ==
  /\ jobPC \in FirstPhase => \A k \in 1..Len(queue) : queue[k].pending
  /\ jobPC \in FirstPhase \cup {"none"} => batch = <<>>
  /\ \A n \in 1..Len(batch) : n >= index => Open(batch[n])
  /\ OnceEach(batch)

\* Entries only leave, or change places.
LEMMA FrontierAside ==
  ASSUME JobInv, FrontierInv, From(queue', queue), UNCHANGED <<batch, index>>,
         jobPC' \in FirstPhase => jobPC \in FirstPhase, jobPC' = "none" => jobPC = "none"
  PROVE  FrontierInv'
  <1>1. jobPC' \in FirstPhase => \A k \in 1..Len(queue') : queue'[k].pending
    BY DEF FrontierInv, From
  <1>2. jobPC' \in FirstPhase \cup {"none"} => batch' = <<>>
    BY DEF FrontierInv
  <1>3. \A n \in 1..Len(batch') : n >= index' => Open(batch[n])'
    BY DEF FrontierInv, Open, From
  <1> QED BY <1>1, <1>2, <1>3 DEF FrontierInv

LEMMA FromItself == ASSUME NEW q \in Seq(Entries) PROVE From(q, q)
  BY DEF From

\* Commands and playback pick entries of the queue.
LEMMA FrontierCommand ==
  ASSUME JobInv, FrontierInv, RemoveEntry \/ Move \/ Jump \/ Stop \/ SetPaused \/ Advance
  PROVE  FrontierInv'
  <1>1. Sound(queue) /\ Len(queue) \in Nat /\ queue \in Seq(Entries)
    BY CoordinatorTypes
  <1>2. UNCHANGED <<jobPC, batch, index>>
    BY DEF RemoveEntry, Move, Jump, Stop, SetPaused, Advance, coordinator
  <1>3. From(queue', queue)
    <2>1. CASE RemoveEntry
      BY <1>1, <2>1, RemovalPicks DEF RemoveEntry
    <2>2. CASE Move
      <3>1. PICK from, to \in 1..Len(queue) : queue' = InsertAt(RemoveAt(queue, from), to, queue[from])
        BY <2>2 DEF Move
      <3> QED BY <1>1, <3>1, MovePicks
    <2>3. CASE Jump
      <3>1. PICK k \in 1..Len(queue) : queue' = SubSeq(queue, k, Len(queue))
        BY <2>3 DEF Jump
      <3> QED BY <1>1, <3>1, StretchPicks
    <2>4. CASE Stop
      <3>1. queue' = queue \/ queue' = <<>>
        BY <2>4 DEF Stop
      <3> QED BY <1>1, <3>1, FromItself DEF From
    <2>5. CASE SetPaused
      BY <1>1, <2>5, FromItself DEF SetPaused
    <2>6. CASE Advance
      <3>1. queue' = SubSeq(queue, 2, Len(queue)) /\ Len(queue) >= 1
        BY <1>1, <2>6 DEF Advance
      <3>2. 2 \in 1..(Len(queue) + 1) /\ Len(queue) \in 0..Len(queue)
        BY <1>1, <3>1
      <3> QED BY <1>1, <3>1, <3>2, StretchPicks
    <2> QED BY <2>1, <2>2, <2>3, <2>4, <2>5, <2>6
  <1> QED BY <1>2, <1>3, FrontierAside

\* Steps that write neither the queue nor the batch.
LEMMA FrontierStill ==
  ASSUME JobInv, FrontierInv, UNCHANGED <<queue, batch, index>>,
         jobPC' \in FirstPhase => jobPC \in FirstPhase, jobPC' = "none" => jobPC = "none"
  PROVE  FrontierInv'
  <1>1. From(queue, queue)
    BY FromItself, CoordinatorTypes
  <1> QED BY <1>1, FrontierAside

\* A commit touches no entry but its own.
LEMMA CommitTouches ==
  ASSUME JobInv, NEW i \in Positions, Commit(i)
  PROVE  /\ \A k \in 1..Len(queue') : queue'[k].position = i \/ \E l \in 1..Len(queue) : queue'[k] = queue[l]
         /\ outcome[i] # "ok" => From(queue', queue)
  <1>1. Sound(queue) /\ Len(queue) \in Nat /\ queue \in Seq(Entries)
    BY CoordinatorTypes
  <1> DEFINE n == Place(i)
  <1>2. Queued(i) => n \in 1..Len(queue) /\ queue[n].position = i
    BY DEF Queued, Place
  <1>3. CASE queue' = queue
    BY <1>1, <1>3, FromItself DEF From
  <1>4. CASE Queued(i) /\ outcome[i] = "ok" /\ queue' = [queue EXCEPT ![n].pending = FALSE]
    <2>1. n \in 1..Len(queue) /\ queue[n] \in Entries /\ queue[n].position = i
      BY <1>1, <1>2, <1>4, ElementOfSeq
    <2> DEFINE e == [queue[n] EXCEPT !.pending = FALSE]
    <2>2. e \in Entries /\ e.position = i
      BY <2>1 DEF Entries
    <2>3. queue' = [queue EXCEPT ![n] = e]
      BY <1>4
    <2> HIDE DEF e, n
    <2>4. Len(queue') = Len(queue) /\ \A k \in 1..Len(queue) : queue'[k] = IF k = n THEN e ELSE queue[k]
      BY <1>1, <2>1, <2>2, <2>3, ExceptSeq
    <2> QED BY <1>4, <2>2, <2>4
  <1>5. CASE Queued(i) /\ queue' = RemoveAt(queue, n)
    <2>1. From(queue', queue)
      BY <1>1, <1>2, <1>5, RemovalPicks
    <2> QED BY <2>1 DEF From
  <1> QED BY <1>3, <1>4, <1>5 DEF Commit

LEMMA FrontierFirst == ASSUME JobInv, FrontierInv, FirstCommit PROVE FrontierInv'
  <1>1. jobPC = "firstCommit" /\ jobPC' \in {"exit", "select", "first"} /\ UNCHANGED batch
    BY DEF FirstCommit, Goes
  <1>2. batch' = <<>> /\ index \in Positions /\ Sound(queue) /\ queue \in Seq(Entries)
    BY <1>1, CoordinatorTypes DEF FrontierInv, FirstPhase
  <1>3. jobPC' = "first" => Commit(index) /\ outcome[index] # "ok"
    BY DEF FirstCommit, Goes
  <1>4. jobPC' = "first" => \A k \in 1..Len(queue') : queue'[k].pending
    <2>1. jobPC' = "first" => From(queue', queue)
      BY <1>2, <1>3, CommitTouches
    <2> QED BY <1>1, <2>1 DEF From, FrontierInv, FirstPhase
  <1> QED BY <1>1, <1>2, <1>4 DEF FrontierInv, FirstPhase, OnceEach

LEMMA FrontierCommit == ASSUME JobInv, FrontierInv, CommitPrefix PROVE FrontierInv'
  <1>1. jobPC = "commit" /\ jobPC' \in {"drain", "prefix"} /\ UNCHANGED batch
    BY DEF CommitPrefix, Goes
  <1>2. index <= Len(batch) /\ index \in 1..(Tracks + 1) /\ index \in Nat
    BY <1>1, CoordinatorTypes DEF JobInv, BatchShape
  <1>3. CASE UNCHANGED <<queue, index>>
    BY <1>1, <1>3, FrontierStill DEF FirstPhase
  <1>4. CASE Commit(batch[index]) /\ index' = index + 1
    <2>1. index \in 1..Len(batch) /\ batch[index] \in Positions
      BY <1>2, CoordinatorTypes, ElementOfSeq
    <2>2. \A k \in 1..Len(queue') :
            queue'[k].position = batch[index] \/ \E l \in 1..Len(queue) : queue'[k] = queue[l]
      BY <1>4, <2>1, CommitTouches
    <2>3. ASSUME NEW n \in 1..Len(batch), n >= index + 1 PROVE Open(batch[n])'
      <3>1. Open(batch[n]) /\ batch[n] # batch[index]
        BY <1>2, <2>1, <2>3 DEF FrontierInv, OnceEach
      <3> QED BY <1>1, <2>2, <3>1 DEF Open
    <2> QED BY <1>1, <1>4, <2>3 DEF FrontierInv, FirstPhase
  <1> QED BY <1>3, <1>4 DEF CommitPrefix

LEMMA FrontierSelect == ASSUME JobInv, FrontierInv, SelectBatch PROVE FrontierInv'
  <1>1. jobPC' \in {"exit", "wait", "collect"} /\ UNCHANGED queue
    BY DEF SelectBatch, Goes
  <1>2. CASE UNCHANGED <<batch, index>>
    BY <1>1, <1>2, FrontierStill DEF FirstPhase
  <1>3. CASE \E f \in Ascending(Ready) : batch' = [n \in DOMAIN f |-> queue[f[n]].position]
    <2>1. PICK f \in Ascending(Ready) : batch' = [n \in DOMAIN f |-> queue[f[n]].position]
      BY <1>3
    <2>2. Ready \in SUBSET (1..Len(queue)) /\ \A k \in Ready : queue[k].pending
      BY DEF Ready
    <2>3. Sound(queue) /\ Len(queue) \in Nat
      BY CoordinatorTypes
    <2> DEFINE b == [n \in DOMAIN f |-> queue[f[n]].position]
    <2>4. b \in Seq(Positions) /\ OnceEach(b) /\ DOMAIN b = DOMAIN f
      BY <2>2, <2>3, BatchPicks
    <2>5. \A n \in DOMAIN f : f[n] \in Ready
      BY <2>2, <2>3, AscendingOrder
    <2>6. \A n \in 1..Len(batch') : batch'[n] = queue[f[n]].position /\ f[n] \in Ready
      <3>1. DOMAIN b = 1..Len(b)
        BY <2>4
      <3> QED BY <2>1, <2>4, <2>5, <3>1
    <2>7. \A n \in 1..Len(batch') : Open(batch[n])'
      BY <1>1, <2>2, <2>3, <2>6 DEF Open, Sound, Distinct
    <2> QED BY <1>1, <2>1, <2>4, <2>7 DEF FrontierInv, FirstPhase
  <1> QED BY <1>2, <1>3 DEF SelectBatch

LEMMA FrontierStart == ASSUME CollectionInit PROVE FrontierInv
  BY DEF CollectionInit, FrontierInv, FirstPhase, OnceEach

LEMMA FrontierStep == ASSUME JobInv, FrontierInv, [CollectionNext]_collectionVars PROVE FrontierInv'
  <1>1. CASE Commands
    BY <1>1, FrontierCommand DEF Commands
  <1>2. CASE Surroundings
    <2>1. CASE BeginCollection
      <3>1. /\ jobPC = "none" /\ jobPC' = "first" /\ UNCHANGED batch
            /\ queue' = [i \in Positions |-> Entry(i)]
        BY <2>1 DEF BeginCollection
      <3>2. \A k \in 1..Len(queue') : queue'[k].pending
        BY <3>1, CoordinatorTypes DEF Entry, Positions
      <3> QED BY <3>1, <3>2 DEF FrontierInv, FirstPhase
    <2>2. CASE Advance
      BY <2>2, FrontierCommand
    <2>3. CASE PlaybackMoves \/ Watchdog \/ ProviderFails \/ ProviderRecovers \/ \E i \in Positions : TakeTrial(i)
      <3>1. UNCHANGED <<jobPC, queue, batch, index>>
        BY <2>3 DEF PlaybackMoves, Watchdog, ProviderFails, ProviderRecovers, TakeTrial, coordinator
      <3> QED BY <3>1, FrontierStill
    <2> QED BY <1>2, <2>1, <2>2, <2>3 DEF Surroundings
  <1>3. CASE Takes
    BY <1>3, FrontierStill DEF Takes, TakeTask, coordinator
  <1>4. ASSUME NEW i \in Positions, Work(i) PROVE FrontierInv'
    <2>1. UNCHANGED <<jobPC, queue, batch, index>>
      BY <1>4 DEF Work, Admit, StartSearch, MatchReturns, coordinator
    <2> QED BY <2>1, FrontierStill
  <1>5. CASE Coordinate
    <2>1. CASE FirstHorizon \/ Wakes \/ FirstResult \/ Collect \/ Prefix \/ BatchCanceled \/ Drain
      <3>1. UNCHANGED <<queue, batch, index>>
        BY <2>1 DEF FirstHorizon, Wakes, FirstResult, Collect, Prefix, BatchCanceled, Drain
      <3>2. jobPC' # "none" /\ (jobPC' \in FirstPhase => jobPC \in FirstPhase)
        BY <2>1 DEF FirstHorizon, Wakes, FirstResult, Collect, Prefix, BatchCanceled, Drain, Goes, FirstPhase
      <3> QED BY <3>1, <3>2, FrontierStill
    <2>2. CASE BatchEnds \/ Exit
      <3>1. batch' = <<>> /\ jobPC' \in {"select", "gone"}
        BY <2>2 DEF BatchEnds, Exit, Forget, Goes
      <3> QED BY <3>1 DEF FrontierInv, FirstPhase, OnceEach
    <2> QED BY <1>5, <2>1, <2>2, FrontierFirst, FrontierSelect, FrontierCommit DEF Coordinate
  <1>6. CASE UNCHANGED collectionVars
    BY <1>6, FrontierStill DEF collectionVars
  <1> QED BY <1>1, <1>2, <1>3, <1>4, <1>5, <1>6 DEF CollectionNext

-----------------------------------------------------------------------------
LEMMA JobStart == ASSUME CollectionInit PROVE JobInv
  <1> USE DEF CollectionInit
  <1>1. 0 \in 0..MaxIncidents /\ Tracks \in Nat /\ Tracks > 0
    BY CollectionAssumption DEF CollectionAssumption
  <1>2. Sound(queue) /\ PendingHasOwner
    BY <1>1 DEF Sound, Distinct, PendingHasOwner
  <1>3. BatchShape
    BY <1>1 DEF BatchShape, FirstPhase, Batching, Quiet, OnceEach
  <1>4. RestShape
    BY DEF RestShape
  <1>5. ResolutionShape /\ FlagShape
    BY <1>1 DEF ResolutionShape, FlagShape, Places, Outcomes
  <1>6. LatchShape
    BY <1>1 DEF LatchShape
  <1>7. SearchAge /\ IncidentIsNotFailure /\ TrialReturned
    BY DEF SearchAge, IncidentIsNotFailure, TrialReturned
  <1> QED BY <1>2, <1>3, <1>4, <1>5, <1>6, <1>7 DEF JobInv

LEMMA JobStep == ASSUME JobInv, [CollectionNext]_collectionVars PROVE JobInv'
  <1>1. CASE Commands
    BY <1>1, CommandKeeps DEF Commands
  <1>2. CASE Surroundings
    BY <1>2, BeginKeeps, PlaybackKeeps, IncidentKeeps, TakeTrialKeeps DEF Surroundings
  <1>3. CASE Takes
    BY <1>3, TakeTaskKeeps DEF Takes
  <1>4. ASSUME NEW i \in Positions, Work(i) PROVE JobInv'
    BY <1>4, AdmitKeeps, StartSearchKeeps, MatchReturnsKeeps DEF Work
  <1>5. CASE Coordinate
    BY <1>5, FirstHorizonKeeps, WakesKeeps, FirstResultKeeps, FirstCommitKeeps, SelectBatchKeeps, CollectKeeps,
       FrontierKeeps, CommitPrefixKeeps, BatchEndsKeeps, ExitKeeps DEF Coordinate
  <1>6. CASE UNCHANGED collectionVars
    <2>1. UNCHANGED <<jobPC, batch, tasks, index, at, outcome, permit, started, struck, first, generation,
                      queue, wanted, current, blocked, probing>>
      BY <1>6 DEF collectionVars
    <2> QED BY <2>1, Aside, CoordinatorTypes
  <1> QED BY <1>1, <1>2, <1>3, <1>4, <1>5, <1>6 DEF CollectionNext

LEMMA JobInvariant == CollectionSpec => []JobInv
  BY JobStart, JobStep, PTL DEF CollectionSpec

LEMMA FrontierInvariant == CollectionSpec => []FrontierInv
  BY JobInvariant, FrontierStart, FrontierStep, PTL DEF CollectionSpec

LEMMA JobInvSound == ASSUME JobInv, FrontierInv PROVE JobSound
  <1>1. CollectionTypeOK
    BY DEF JobInv, Sound, Distinct, Entries, BatchShape, ResolutionShape, FlagShape, LatchShape, Places, Outcomes,
           CollectionTypeOK
  <1>2. CommittedStays
    BY CoordinatorTypes DEF FrontierInv, CommittedStays, Open, FirstPhase
  <1> QED BY <1>1, <1>2 DEF JobInv, JobSound

(* Every Pending position of the queue has a job that will resolve or remove *)
(* it, whatever members, playback and the provider do in the meantime, and   *)
(* a search that an incident cancelled (blockProviderLocked) is never taken  *)
(* for a track without a match, however late it returns.  What commit wrote  *)
(* once is not written again: valid committed tracks stay.                   *)
THEOREM JobsKeepTheirPositions == CollectionSpec => []JobSound
  BY JobInvariant, FrontierInvariant, JobInvSound, PTL

(* The trial a collection's resolution took from waitProvider is in the      *)
(* hands of a resolution that will answer it, through finishProviderLocked,  *)
(* for as long as the latch shows it.                                        *)
THEOREM JobsReturnTrials == CollectionSpec => []TrialReturned
  <1>1. JobInv => TrialReturned
    BY DEF JobInv
  <1> QED BY <1>1, JobInvariant, PTL

-----------------------------------------------------------------------------
(*************************************************************************)
(* The playlist a collection comes from.  What was read so far are the   *)
(* leading occurrences of one version of it, or a page was mixed up and  *)
(* holds an occurrence that is still to be read, which will repeat it.   *)
(*************************************************************************)
VersionsOK ==
  /\ versions \in Seq(Seq(Nat)) /\ versions # <<>> /\ faults \in Nat
  /\ hydratedAt \in 0..Len(versions)

\* Before the first page nothing has been collected.
Early ==
  spPC \in {"idle", "public", "embed"} =>
    /\ phase = "paging" /\ occurrences = <<>> /\ revision = 0 /\ pool = NoPool
    /\ spPC = "embed" => evidence.total \in Nat \ {0}

Paging == spPC \in {"page", "refresh", "hydrate"}
Whole  == phase = "recheck" \/ spPC = "hydrate"
Listed == versions[revision]

Exactly == \A m \in 1..Len(occurrences) : occurrences[m] = Listed[m]
Mixed ==
  /\ faults > 0
  /\ \E m \in 1..Len(occurrences) : \E p \in (Len(occurrences) + 1)..evidence.total :
       occurrences[m] = Listed[p]

PageShape ==
  Paging =>
    /\ evidence.total \in Nat \ {0} /\ revision \in 0..Len(versions) /\ occurrences \in Seq(Nat)
    /\ IF Whole THEN Len(occurrences) = evidence.total
       ELSE /\ Len(occurrences) < evidence.total
            /\ \E k \in 0..evidence.total : Len(occurrences) = k * PageSize
    /\ IF revision = 0 THEN occurrences = <<>>
       ELSE Len(Listed) = evidence.total /\ (Exactly \/ Mixed)

Jobs == Nat \cup {Receiving, Exited}
PoolTypes ==
  /\ pool \in [worker : Seq(Jobs), sent : SUBSET Nat, got : SUBSET Nat, closed : BOOLEAN,
              failed : BOOLEAN, ctxDone : BOOLEAN]
  /\ embed \in Seq(Nat)

\* While no worker has failed, every track sent to one was fetched or is being
\* fetched; a closed pool that was not cancelled was sent everything.
PoolShape ==
  spPC = "hydrate" =>
    /\ ~playbackMode /\ phase = "paging"
    /\ ~pool.failed => pool.sent \subseteq pool.got \cup {pool.worker[w] : w \in DOMAIN pool.worker}
    /\ pool.closed /\ ~pool.ctxDone => Missing(occurrences) \subseteq pool.sent

Fetched == Paging /\ phase = "recheck" /\ ~playbackMode => Missing(occurrences) \subseteq pool.got

Ended ==
  /\ spPC = "done" \/ collection = NoResult
  /\ PlaylistExact

PlaylistInv == VersionsOK /\ Early /\ PageShape /\ PoolTypes /\ PoolShape /\ Fetched /\ Ended

\* An edit adds a version and changes none before it.
LEMMA EditAdds ==
  ASSUME VersionsOK, EditPlaylist
  PROVE  /\ versions' \in Seq(Seq(Nat)) /\ Len(versions') = Len(versions) + 1
         /\ \A r \in 1..Len(versions) : versions'[r] = versions[r]
  <1>1. Current \in Seq(Nat) /\ Len(versions) \in Nat
    BY DEF VersionsOK, Current, Last
  <1>2. PICK i \in 1..Len(Current) : \E content \in Edited(i) : versions' = Append(versions, content)
    BY DEF EditPlaylist
  <1>11. PICK content \in Edited(i) : versions' = Append(versions, content)
    BY <1>2
  <1>3. MaxTotal + Len(versions) \in Nat
    BY <1>1, PlaylistAssumption DEF PlaylistAssumption
  <1>4. i \in Nat /\ Current[i] \in Nat
    BY <1>1
  <1> DEFINE new == MaxTotal + Len(versions)
             cur == Current
  <1>5. /\ SubSeq(cur, 1, i - 1) \in Seq(Nat) /\ SubSeq(cur, i, Len(cur)) \in Seq(Nat)
        /\ SubSeq(cur, i + 1, Len(cur)) \in Seq(Nat)
    BY <1>1, <1>4
  <1>6. InsertAt(cur, i, new) \in Seq(Nat)
    BY <1>3, <1>5 DEF InsertAt
  <1>7. RemoveAt(cur, i) \in Seq(Nat)
    BY <1>5 DEF RemoveAt
  <1>8. [cur EXCEPT ![i] = new] \in Seq(Nat)
    BY <1>1, <1>3, ExceptSeq
  <1>9. Append(RemoveAt(cur, i), cur[i]) \in Seq(Nat)
    BY <1>4, <1>7
  <1>10. content \in Seq(Nat)
    BY <1>6, <1>7, <1>8, <1>9, <1>11 DEF Edited
  <1> QED BY <1>10, <1>11 DEF VersionsOK

\* A page is what the playlist holds from its offset on.
LEMMA PageHolds ==
  ASSUME VersionsOK, NEW from \in Nat, from < Len(Current)
  PROVE  /\ PageAt(from) \in Seq(Nat)
         /\ Len(PageAt(from)) = Shortest(PageSize, Len(Current) - from)
         /\ \A m \in 1..Len(PageAt(from)) : PageAt(from)[m] = Current[from + m]
  <1>1. Current \in Seq(Nat) /\ PageSize \in Nat
    BY PlaylistAssumption DEF VersionsOK, Current, Last, PlaylistAssumption
  <1> DEFINE cur == Current
             until == Shortest(from + PageSize, Len(cur))
  <1>2. until \in Nat /\ until <= Len(cur) /\ until - from = Shortest(PageSize, Len(cur) - from)
        /\ until >= from
    BY <1>1 DEF Shortest
  <1>3. PageAt(from) = SubSeq(cur, from + 1, until)
    BY DEF PageAt
  <1> HIDE DEF cur, until
  <1>4. cur \in Seq(Nat) /\ Len(cur) \in Nat
    BY <1>1 DEF cur
  <1>5. SubSeq(cur, from + 1, until) \in Seq(Nat) /\ Len(SubSeq(cur, from + 1, until)) = until - from
    BY <1>2, <1>4
  <1>6. \A m \in 1..(until - from) : SubSeq(cur, from + 1, until)[m] = cur[from + m]
    BY <1>2, <1>4
  <1> QED BY <1>2, <1>3, <1>5, <1>6 DEF cur

\* Two lists, one after the other.
LEMMA Joined ==
  ASSUME NEW S, NEW s \in Seq(S), NEW t \in Seq(S)
  PROVE  /\ s \o t \in Seq(S) /\ Len(s \o t) = Len(s) + Len(t)
         /\ \A m \in 1..Len(s) : (s \o t)[m] = s[m]
         /\ \A m \in 1..Len(t) : (s \o t)[Len(s) + m] = t[m]
  OBVIOUS

\* The offsets of two pages are a page apart.
LEMMA PagesApart ==
  ASSUME NEW j \in Nat, NEW k \in Nat, NEW size \in Nat, j < k
  PROVE  j * size + size <= k * size
  <1>1. PICK d \in Nat : k = j + 1 + d
    <2>1. k - j - 1 \in Nat /\ k = j + 1 + (k - j - 1)
      OBVIOUS
    <2> QED BY <2>1
  <1>2. (j + 1 + d) * size = j * size + size + d * size
    OBVIOUS
  <1>3. d * size \in Nat /\ j * size \in Nat
    OBVIOUS
  <1> QED BY <1>1, <1>2, <1>3

\* A page that is accepted continues the version, or was mixed up and holds an
\* occurrence that is still to come: one that had been read would be repeated.
LEMMA PageAdds ==
  ASSUME VersionsOK, PageShape, MaxFaults <= 1, spPC = "page", phase = "paging",
         NEW k \in Nat,
         k * PageSize = Offset \/ (faults < MaxFaults /\ k * PageSize < Len(Current)),
         faults' = IF k * PageSize = Offset THEN faults ELSE faults + 1,
         ValidPage(PageAt(k * PageSize)), IsInjective(occurrences \o PageAt(k * PageSize)),
         occurrences' = occurrences \o PageAt(k * PageSize), revision' = Len(versions),
         UNCHANGED <<versions, evidence>>
  PROVE  /\ occurrences' \in Seq(Nat) /\ revision' \in 1..Len(versions) /\ Len(Listed') = evidence.total
         /\ Exactly' \/ Mixed'
         /\ \/ Len(occurrences') = evidence.total
            \/ /\ Len(occurrences') < evidence.total
               /\ \E j \in 0..evidence.total : Len(occurrences') = j * PageSize
  <1> DEFINE from == k * PageSize
             items == PageAt(from)
             all == occurrences \o items
             n == Len(occurrences)
             total == evidence.total
             cur == Current
  <1>1. /\ total \in Nat \ {0} /\ occurrences \in Seq(Nat) /\ n < total /\ n \in Nat
        /\ revision \in 0..Len(versions)
        /\ IF revision = 0 THEN occurrences = <<>> ELSE Len(Listed) = total /\ (Exactly \/ Mixed)
    BY DEF PageShape, Paging, Whole
  <1>2. PICK j \in 0..total : n = j * PageSize
    BY DEF PageShape, Paging, Whole
  <1>3. /\ PageSize \in Nat \ {0} /\ MaxFaults \in Nat /\ faults \in Nat
        /\ cur \in Seq(Nat) /\ Len(versions) \in Nat \ {0} /\ cur = versions[Len(versions)]
    BY PlaylistAssumption DEF PlaylistAssumption, VersionsOK, Current, Last
  <1>4. /\ Len(cur) = total /\ revision \in {0, Len(versions)} /\ Offset = n
        /\ Len(items) = Shortest(PageSize, total - n)
    BY DEF ValidPage, Offset
  <1>5. from \in Nat /\ from < Len(cur)
    BY <1>1, <1>3, <1>4
  <1>6. /\ items \in Seq(Nat) /\ \A m \in 1..Len(items) : items[m] = cur[from + m]
    BY <1>5, PageHolds
  <1> HIDE DEF items, cur, from, n, total
  <1>7. /\ Len(items) \in Nat \ {0} /\ Len(items) <= PageSize /\ n + Len(items) <= total
        /\ Len(items) = PageSize \/ n + Len(items) = total
    BY <1>1, <1>3, <1>4 DEF Shortest
  <1>8. /\ all \in Seq(Nat) /\ Len(all) = n + Len(items)
        /\ \A m \in 1..n : all[m] = occurrences[m]
        /\ \A m \in 1..Len(items) : all[n + m] = items[m]
    BY <1>1, <1>6, Joined DEF n
  <1>16. /\ n \in Nat /\ total \in Nat /\ Len(all) \in Nat /\ n < Len(all) /\ Len(all) <= total
         /\ 1 \in 1..Len(items) /\ \A m \in (n + 1)..Len(all) : m - n \in 1..Len(items) /\ n + (m - n) = m
    <2> HIDE DEF all
    <2>1. n \in Nat /\ total \in Nat /\ Len(items) \in Nat /\ Len(items) > 0 /\ n + Len(items) <= total
      BY <1>1, <1>7
    <2>2. Len(all) = n + Len(items)
      BY <1>8
    <2> QED BY <2>1, <2>2
  <1>9. occurrences' = all /\ revision' = Len(versions) /\ Listed' = cur
    BY <1>3 DEF Listed, from, items
  <1>10. \A a, b \in 1..Len(all) : all[a] = all[b] => a = b
    <2>1. IsInjective(all)
      BY DEF from, items
    <2>2. DOMAIN all = 1..Len(all)
      BY <1>8
    <2> QED BY <2>1, <2>2 DEF IsInjective
  <1> HIDE DEF all
  <1>11. (\A m \in 1..n : all[m] = cur[m])
         \/ (faults > 0 /\ \E m \in 1..n : \E p \in (n + 1)..total : all[m] = cur[p])
    <2>1. CASE revision = 0
      BY <2>1, <1>1 DEF n
    <2>2. CASE revision # 0
      <3>1. Listed = cur /\ (Exactly \/ Mixed)
        BY <2>2, <1>1, <1>3, <1>4 DEF Listed
      <3> QED BY <3>1, <1>8 DEF Exactly, Mixed, n, total
    <2> QED BY <2>1, <2>2
  <1>12. \/ \A m \in 1..Len(all) : all[m] = cur[m]
         \/ faults' > 0 /\ \E m \in 1..Len(all) : \E p \in (Len(all) + 1)..total : all[m] = cur[p]
    <2>1. CASE from = n
      <3>1. \A m \in (n + 1)..Len(all) : all[m] = cur[m]
        <4>1. SUFFICES ASSUME NEW m \in (n + 1)..Len(all) PROVE all[m] = cur[m]
          OBVIOUS
        <4>2. m - n \in 1..Len(items) /\ n + (m - n) = m
          BY <1>16
        <4> QED BY <4>2, <1>6, <1>8, <2>1
      <3>2. CASE \A m \in 1..n : all[m] = cur[m]
        BY <3>1, <3>2, <1>16
      <3>3. CASE faults > 0 /\ \E m \in 1..n : \E p \in (n + 1)..total : all[m] = cur[p]
        <4>1. PICK m \in 1..n, p \in (n + 1)..total : all[m] = cur[p]
          BY <3>3
        <4>2. p > Len(all)
          BY <4>1, <3>1, <1>10, <1>16
        <4>3. faults' > 0
          BY <3>3, <2>1, <1>4 DEF from
        <4>4. m \in 1..Len(all) /\ p \in (Len(all) + 1)..total
          BY <4>1, <4>2, <1>16
        <4> QED BY <4>1, <4>3, <4>4
      <3> QED BY <3>2, <3>3, <1>11
    <2>2. CASE from # n
      <3>1. faults = 0 /\ faults' = 1
        BY <2>2, <1>3, <1>4 DEF from
      <3>2. \A m \in 1..n : all[m] = cur[m]
        BY <3>1, <1>11
      <3>3. all[n + 1] = cur[from + 1]
        BY <1>6, <1>8, <1>16
      <3>4. ~(k < j)
        <4>1. SUFFICES ASSUME k < j PROVE FALSE
          OBVIOUS
        <4>2. from + PageSize <= n
          BY <4>1, <1>2, <1>3, PagesApart DEF from
        <4>3. from + 1 \in 1..n /\ all[from + 1] = cur[from + 1]
          BY <4>2, <3>2, <1>1, <1>3, <1>5
        <4> QED BY <4>3, <3>3, <1>1, <1>7, <1>8, <1>10
      <3>5. j < k
        BY <3>4, <2>2, <1>2 DEF from
      <3>6. n + PageSize <= from
        BY <3>5, <1>2, <1>3, PagesApart DEF from
      <3>7. n + 1 \in 1..Len(all) /\ from + 1 \in (Len(all) + 1)..total
        <4>1. Len(all) <= n + PageSize
          BY <1>1, <1>3, <1>7, <1>8
        <4>2. from + 1 > Len(all) /\ from + 1 <= total
          BY <4>1, <3>6, <1>1, <1>3, <1>4, <1>5, <1>8
        <4> QED BY <4>2, <1>5, <1>16
      <3> QED BY <3>1, <3>3, <3>7
    <2> QED BY <2>1, <2>2
  <1>13. Len(all) = total \/ (Len(all) < total /\ \E i \in 0..total : Len(all) = i * PageSize)
    <2>1. CASE Len(items) = PageSize
      <3>1. Len(all) = (j + 1) * PageSize
        BY <2>1, <1>2, <1>3, <1>8
      <3>2. j + 1 <= (j + 1) * PageSize
        <4>1. j + 1 \in Nat /\ PageSize - 1 \in Nat
          BY <1>3
        <4>2. (j + 1) * (PageSize - 1) \in Nat
          BY <4>1
        <4>3. (j + 1) * PageSize = (j + 1) * (PageSize - 1) + (j + 1)
          BY <1>3, <4>1
        <4> QED BY <4>1, <4>2, <4>3
      <3>3. j + 1 \in Nat
        BY <1>2, <1>16
      <3> QED BY <3>1, <3>2, <3>3, <1>16
    <2>2. CASE n + Len(items) = total
      BY <2>2, <1>8
    <2> QED BY <2>1, <2>2, <1>7
  <1>14. occurrences' \in Seq(Nat) /\ revision' \in 1..Len(versions) /\ Len(Listed') = total
    <2>1. occurrences' \in Seq(Nat) /\ Len(Listed') = total
      BY <1>4, <1>8, <1>9
    <2> QED BY <2>1, <1>3, <1>9
  <1>15. Exactly' \/ Mixed'
    <2>1. evidence'.total = total
      BY DEF total
    <2> QED BY <2>1, <1>9, <1>12 DEF Exactly, Mixed
  <1> QED BY <1>9, <1>13, <1>14, <1>15 DEF total

\* A track of the playlist is a number.
LEMMA UriNat == ASSUME NEW o \in Nat PROVE UriOf(o) \in Nat
  <1>1. Uris \in Nat \ {0}
    BY PlaylistAssumption DEF PlaylistAssumption
  <1> QED BY <1>1 DEF UriOf

LEMMA UrisFinite == ASSUME NEW s \in Seq(Nat) PROVE Cardinality(Missing(s)) \in Nat
  <1>1. IsFiniteSet(1..Len(s))
    <2>1. 1 \in Int /\ Len(s) \in Int
      OBVIOUS
    <2> QED BY <2>1, FS_Interval
  <1>2. IsFiniteSet({UriOf(s[i]) : i \in 1..Len(s)})
    <2> DEFINE f == [i \in 1..Len(s) |-> UriOf(s[i])]
             T == {f[i] : i \in 1..Len(s)}
    <2>1. f \in Surjection(1..Len(s), T)
      BY DEF Surjection
    <2>2. IsFiniteSet(T)
      BY <1>1, <2>1, FS_Surjection
    <2> QED BY <2>2
  <1>3. Missing(s) \subseteq {UriOf(s[i]) : i \in 1..Len(s)}
    BY DEF Missing, ToSet, UrisOf
  <1>4. IsFiniteSet(Missing(s))
    BY <1>2, <1>3, FS_Subset
  <1> QED BY <1>4, FS_CardinalityType

-----------------------------------------------------------------------------
readVars == <<versions, faults, hydratedAt, phase, occurrences, revision, pool, evidence, embed,
              playbackMode, collection>>

\* A step that goes to another place without anything else.
LEMMA MovesOn ==
  ASSUME PlaylistInv, UNCHANGED readVars,
         spPC' # spPC =>
           /\ spPC # "done" /\ spPC' \notin {"hydrate", "embed"}
           /\ spPC' \in {"idle", "public"} => spPC \in {"idle", "public"}
           /\ spPC' \in {"page", "refresh"} => spPC \in {"page", "refresh"}
  PROVE  PlaylistInv'
  <1>1. VersionsOK' /\ PoolTypes'
    BY DEF PlaylistInv, VersionsOK, PoolTypes, readVars
  <1>2. Early'
    BY DEF PlaylistInv, Early, readVars
  <1>3. PageShape'
    <2>1. Paging' => Paging /\ Whole' = Whole
      BY DEF Paging, Whole, readVars
    <2>2. Listed' = Listed /\ Exactly' = Exactly /\ Mixed' = Mixed
      BY DEF Listed, Exactly, Mixed, readVars
    <2>3. UNCHANGED <<evidence, revision, versions, occurrences>>
      BY DEF readVars
    <2> QED BY <2>1, <2>2, <2>3 DEF PlaylistInv, PageShape
  <1>4. PoolShape'
    BY DEF PlaylistInv, PoolShape, readVars, Missing, Known
  <1>5. Fetched'
    BY DEF PlaylistInv, Fetched, readVars, Missing, Known, Paging
  <1>6. Ended'
    <2>1. UNCHANGED <<versions, hydratedAt, playbackMode, collection>>
      BY DEF readVars
    <2> QED BY <2>1 DEF PlaylistInv, Ended, PlaylistExact
  <1> QED BY <1>1, <1>2, <1>3, <1>4, <1>5, <1>6 DEF PlaylistInv

LEMMA EditKeeps == ASSUME PlaylistInv, EditPlaylist PROVE PlaylistInv'
  <1>1. UNCHANGED <<faults, hydratedAt, phase, occurrences, revision, pool, evidence, embed, playbackMode,
                    collection, spPC>> /\ spPC # "done"
    BY DEF EditPlaylist
  <1>2. /\ versions' \in Seq(Seq(Nat)) /\ Len(versions') = Len(versions) + 1 /\ Len(versions) \in Nat
        /\ \A r \in 1..Len(versions) : versions'[r] = versions[r]
    BY EditAdds DEF PlaylistInv, VersionsOK
  <1>3. VersionsOK'
    BY <1>1, <1>2 DEF PlaylistInv, VersionsOK
  <1>4. Early' /\ PoolTypes'
    BY <1>1 DEF PlaylistInv, Early, PoolTypes
  <1>5. PageShape'
    <2>1. SUFFICES ASSUME Paging' PROVE PageShape'
      BY DEF PageShape
    <2>2. Paging /\ Whole' = Whole /\ PageShape
      BY <1>1, <2>1 DEF PlaylistInv, Paging, Whole
    <2>3. revision \in 0..Len(versions)
      BY <2>2 DEF PageShape
    <2>4. revision # 0 => Listed' = Listed
      BY <1>1, <1>2, <2>3 DEF Listed
    <2>5. revision # 0 => Exactly' = Exactly /\ Mixed' = Mixed
      BY <1>1, <2>4 DEF Exactly, Mixed
    <2>6. revision' \in 0..Len(versions')
      BY <1>1, <1>2, <2>3
    <2> QED BY <1>1, <2>2, <2>4, <2>5, <2>6 DEF PageShape
  <1>6. PoolShape'
    BY <1>1 DEF PlaylistInv, PoolShape, Missing, Known
  <1>7. Fetched'
    BY <1>1 DEF PlaylistInv, Fetched, Missing, Known, Paging
  <1>8. Ended'
    BY <1>1 DEF PlaylistInv, Ended, PlaylistExact, NoResult
  <1> QED BY <1>3, <1>4, <1>5, <1>6, <1>7, <1>8 DEF PlaylistInv

LEMMA PublicKeeps == ASSUME PlaylistInv, ReadPublic PROVE PlaylistInv'
  <1>1. UNCHANGED <<versions, faults, hydratedAt, phase, occurrences, revision, pool, embed, playbackMode>>
    BY DEF ReadPublic, spotify
  <1>2. spPC = "public" /\ spPC' \in {"done", "embed", "failed"}
    BY DEF ReadPublic
  <1>3. VersionsOK' /\ PoolTypes'
    BY <1>1 DEF PlaylistInv, VersionsOK, PoolTypes
  <1>4. spPC' = "embed" => evidence'.total \in Nat \ {0}
    <2>1. SUFFICES ASSUME spPC' = "embed" PROVE evidence'.total \in Nat \ {0}
      OBVIOUS
    <2>2. evidence'.total = Len(Current) /\ Len(Current) > PublicMax
      BY <2>1 DEF ReadPublic
    <2>3. Current \in Seq(Nat) /\ PublicMax \in Nat
      BY PlaylistAssumption DEF PlaylistInv, VersionsOK, Current, Last, PlaylistAssumption
    <2> QED BY <2>2, <2>3
  <1>5. Early'
    BY <1>1, <1>2, <1>4 DEF PlaylistInv, Early
  <1>6. PageShape' /\ PoolShape' /\ Fetched'
    BY <1>2 DEF PageShape, PoolShape, Fetched, Paging
  <1>7. Ended'
    <2>1. collection = NoResult
      BY <1>2 DEF PlaylistInv, Ended
    <2>2. (collection' = collection \/ (spPC' = "done" /\ collection'.via = "public"))
      BY DEF ReadPublic
    <2> QED BY <2>1, <2>2 DEF Ended, PlaylistExact, NoResult
  <1> QED BY <1>3, <1>5, <1>6, <1>7 DEF PlaylistInv

LEMMA EmbedKeeps == ASSUME PlaylistInv, ReadEmbed PROVE PlaylistInv'
  <1>1. UNCHANGED <<versions, faults, hydratedAt, phase, occurrences, revision, pool, evidence, playbackMode>>
    BY DEF ReadEmbed, spotify
  <1>2. spPC = "embed" /\ spPC' \in {"done", "page", "failed"}
    BY DEF ReadEmbed
  <1>3. VersionsOK'
    BY <1>1 DEF PlaylistInv, VersionsOK
  <1>4. PoolTypes'
    <2>1. embed' = embed \/ embed' = Leading(Current, EmbedMax)
      BY DEF ReadEmbed
    <2>2. Leading(Current, EmbedMax) \in Seq(Nat)
      <3>1. Current \in Seq(Nat) /\ EmbedMax \in Nat
        BY PlaylistAssumption DEF PlaylistInv, VersionsOK, Current, Last, PlaylistAssumption
      <3> DEFINE cur == Current
                 short == Shortest(EmbedMax, Len(cur))
      <3>2. short \in Nat /\ short <= Len(cur)
        BY <3>1 DEF Shortest
      <3>3. cur \in Seq(Nat)
        BY <3>1
      <3> HIDE DEF cur, short
      <3>4. SubSeq(cur, 1, short) \in Seq(Nat)
        BY <3>2, <3>3
      <3> QED BY <3>4 DEF Leading, cur, short
    <2> QED BY <1>1, <2>1, <2>2 DEF PlaylistInv, PoolTypes
  <1>5. Early'
    BY <1>2 DEF Early
  <1>6. occurrences = <<>> /\ revision = 0 /\ phase = "paging" /\ evidence.total \in Nat \ {0}
    BY <1>2 DEF PlaylistInv, Early
  <1>7. PageShape'
    <2>1. PageSize \in Nat /\ Len(versions) \in Nat
      BY PlaylistAssumption DEF PlaylistAssumption, PlaylistInv, VersionsOK
    <2>2. 0 \in 0..evidence.total /\ Len(occurrences) = 0 * PageSize /\ Len(occurrences) < evidence.total
      BY <1>6, <2>1
    <2>3. ~Whole'
      BY <1>1, <1>2, <1>6 DEF Whole
    <2> QED BY <1>1, <1>6, <2>1, <2>2, <2>3 DEF PageShape
  <1>8. PoolShape' /\ Fetched'
    BY <1>1, <1>2, <1>6 DEF PoolShape, Fetched
  <1>9. Ended'
    <2>1. collection = NoResult
      BY <1>2 DEF PlaylistInv, Ended
    <2>2. spPC' # "done" => UNCHANGED collection
      BY DEF ReadEmbed
    <2>3. spPC' = "done" => collection' = [via |-> "embed", tracks |-> Loaded(Leading(Current, EmbedMax))]
      BY DEF ReadEmbed
    <2> HIDE DEF ReadEmbed
    <2>4. spPC' = "done" => collection'.via = "embed"
      BY <2>3
    <2> QED BY <2>1, <2>2, <2>4 DEF Ended, PlaylistExact, NoResult
  <1> QED BY <1>3, <1>4, <1>5, <1>7, <1>8, <1>9 DEF PlaylistInv

\* What was read so far when a page arrives.
PageTurns(from) ==
  /\ spPC = "page" /\ (from = Offset \/ (faults < MaxFaults /\ from < Len(Current)))
  /\ faults' = IF from = Offset THEN faults ELSE faults + 1
  /\ UNCHANGED <<versions, playbackMode, evidence, embed, session>>

LEMMA ListedKeeps ==
  ASSUME PlaylistInv, MaxFaults <= 1, NEW k \in Nat, PageTurns(k * PageSize), phase = "paging",
         PageListed(PageAt(k * PageSize)), UNCHANGED collection
  PROVE  PlaylistInv'
  <1> DEFINE items == PageAt(k * PageSize)
             all == occurrences \o items
  <1>1. UNCHANGED <<versions, playbackMode, evidence, embed, collection>> /\ spPC = "page" /\ faults' \in Nat
    BY DEF PageTurns, PlaylistInv, VersionsOK
  <1>2. CASE spPC' = "failed" /\ UNCHANGED <<phase, occurrences, revision, pool, hydratedAt>>
    <2>1. VersionsOK' /\ PoolTypes'
      BY <1>1, <1>2 DEF PlaylistInv, VersionsOK, PoolTypes
    <2>2. Early' /\ PageShape' /\ PoolShape' /\ Fetched'
      BY <1>2 DEF Early, PageShape, PoolShape, Fetched, Paging
    <2>3. Ended'
      BY <1>1, <1>2 DEF PlaylistInv, Ended, PlaylistExact, NoResult
    <2> QED BY <2>1, <2>2, <2>3 DEF PlaylistInv
  <1>3. CASE /\ ValidPage(items) /\ IsInjective(all) /\ occurrences' = all /\ revision' = Len(versions)
             /\ \/ ~(Len(all) >= evidence.total) /\ UNCHANGED <<spPC, phase, pool, hydratedAt>>
                \/ /\ Len(all) >= evidence.total /\ playbackMode /\ phase' = "recheck"
                   /\ hydratedAt' = Len(versions) /\ UNCHANGED <<spPC, pool>>
                \/ /\ Len(all) >= evidence.total /\ ~playbackMode /\ spPC' = "hydrate"
                   /\ pool' = [NoPool EXCEPT !.worker =
                                 [w \in 1..Shortest(PoolSize, Cardinality(Missing(all))) |-> Receiving]]
                   /\ UNCHANGED <<phase, hydratedAt>>
    <2>1. /\ occurrences' \in Seq(Nat) /\ revision' \in 1..Len(versions) /\ Len(Listed') = evidence.total
          /\ Exactly' \/ Mixed'
          /\ \/ Len(occurrences') = evidence.total
             \/ /\ Len(occurrences') < evidence.total
                /\ \E j \in 0..evidence.total : Len(occurrences') = j * PageSize
      BY <1>1, <1>3, PageAdds DEF PlaylistInv, PageTurns
    <2>2. evidence.total \in Nat \ {0} /\ Len(versions) \in Nat
      BY <1>1 DEF PlaylistInv, PageShape, Paging, VersionsOK
    <2>3. VersionsOK'
      <3>1. hydratedAt' \in 0..Len(versions')
        BY <1>1, <1>3, <2>2 DEF PlaylistInv, VersionsOK
      <3> QED BY <3>1, <1>1 DEF PlaylistInv, VersionsOK
    <2>4. spPC' \in {"page", "hydrate"} /\ Early'
      BY <1>1, <1>3 DEF Early
    <2>5. PageShape'
      <3>1. Len(occurrences') \in Nat
        BY <2>1
      <3>2. Whole' <=> Len(occurrences') = evidence.total
        BY <1>1, <1>3, <2>1, <2>2, <3>1 DEF Whole
      <3>3. revision' # 0 /\ revision' \in 0..Len(versions')
        BY <1>1, <2>1, <2>2
      <3> QED BY <1>1, <2>1, <2>2, <3>2, <3>3 DEF PageShape
    <2>6. PoolTypes'
      <3> DEFINE size == Shortest(PoolSize, Cardinality(Missing(all)))
      <3>1. size \in Nat
        BY <1>3, <2>1, UrisFinite, PlaylistAssumption DEF PlaylistAssumption, Shortest
      <3> HIDE DEF size
      <3>2. [w \in 1..size |-> Receiving] \in Seq(Jobs)
        BY <3>1 DEF Jobs
      <3>3. [NoPool EXCEPT !.worker = [w \in 1..size |-> Receiving]]
              \in [worker : Seq(Jobs), sent : SUBSET Nat, got : SUBSET Nat, closed : BOOLEAN,
                  failed : BOOLEAN, ctxDone : BOOLEAN]
        BY <3>2 DEF NoPool
      <3> QED BY <1>1, <1>3, <3>3 DEF PlaylistInv, PoolTypes, size
    <2>7. PoolShape'
      <3>1. SUFFICES ASSUME spPC' = "hydrate" PROVE PoolShape'
        BY DEF PoolShape
      <3>2. ~playbackMode' /\ phase' = "paging" /\ pool'.sent = {} /\ pool'.closed = FALSE
        BY <1>1, <1>3, <3>1 DEF NoPool
      <3> QED BY <3>2 DEF PoolShape
    <2>8. Fetched'
      BY <1>1, <1>3 DEF Fetched
    <2>9. Ended'
      BY <1>1, <2>4 DEF PlaylistInv, Ended, PlaylistExact, NoResult
    <2> QED BY <2>3, <2>4, <2>5, <2>6, <2>7, <2>8, <2>9 DEF PlaylistInv
  <1> QED BY <1>2, <1>3 DEF PageListed

\* The recheck answers for the revision of everything that was read.
LEMMA AssembledExact ==
  ASSUME PlaylistInv, spPC = "page", phase = "recheck", revision \in {0, Len(versions)}
  PROVE  /\ [i \in DOMAIN Assembled |-> Assembled[i].uri] = UrisOf(versions[Len(versions)])
         /\ \A i \in DOMAIN Assembled :
              Assembled[i].metadata \in {"own"} \cup (IF playbackMode THEN {"pending"} ELSE {})
  <1>1. /\ evidence.total \in Nat \ {0} /\ occurrences \in Seq(Nat) /\ Len(occurrences) = evidence.total
        /\ IF revision = 0 THEN occurrences = <<>>
           ELSE Len(Listed) = evidence.total /\ (Exactly \/ Mixed)
    BY DEF PlaylistInv, PageShape, Paging, Whole
  <1>2. revision = Len(versions) /\ Len(Listed) = evidence.total /\ Exactly
    <2>1. revision # 0
      BY <1>1
    <2>2. ~Mixed
      BY <1>1 DEF Mixed
    <2> QED BY <1>1, <2>1, <2>2
  <1>3. DOMAIN Assembled = 1..Len(occurrences)
        /\ \A i \in 1..Len(occurrences) : Assembled[i].uri = UriOf(occurrences[i])
    BY DEF Assembled
  <1>4. versions[Len(versions)] = Listed
    BY <1>2 DEF Listed
  <1>5. \A i \in 1..Len(occurrences) :
          Assembled[i].metadata = IF UriOf(occurrences[i]) \in Known \cup pool.got THEN "own"
                                  ELSE IF playbackMode THEN "pending" ELSE "empty"
    BY DEF Assembled
  <1>6. ~playbackMode => \A i \in 1..Len(occurrences) : UriOf(occurrences[i]) \in Known \cup pool.got
    <2>1. SUFFICES ASSUME ~playbackMode, NEW i \in 1..Len(occurrences)
                   PROVE  UriOf(occurrences[i]) \in Known \cup pool.got
      OBVIOUS
    <2>2. UriOf(occurrences[i]) \in ToSet(UrisOf(occurrences))
      BY DEF ToSet, UrisOf
    <2>3. Missing(occurrences) \subseteq pool.got
      BY <2>1 DEF PlaylistInv, Fetched, Paging
    <2> QED BY <2>2, <2>3 DEF Missing
  <1>7. UrisOf(Listed) = [i \in 1..Len(occurrences) |-> UriOf(occurrences[i])]
    BY <1>1, <1>2 DEF UrisOf, Exactly
  <1> QED BY <1>3, <1>4, <1>5, <1>6, <1>7

LEMMA RecheckKeeps ==
  ASSUME PlaylistInv, NEW k \in Nat, PageTurns(k * PageSize), phase = "recheck",
         PageRechecked(PageAt(k * PageSize)),
         UNCHANGED <<phase, occurrences, revision, pool, hydratedAt>>
  PROVE  PlaylistInv'
  <1>1. UNCHANGED <<versions, playbackMode, evidence, embed>> /\ spPC = "page" /\ faults' \in Nat
    BY DEF PageTurns, PlaylistInv, VersionsOK
  <1>2. VersionsOK' /\ PoolTypes'
    BY <1>1 DEF PlaylistInv, VersionsOK, PoolTypes
  <1>3. spPC' \in {"done", "failed"}
    BY DEF PageRechecked
  <1>4. Early' /\ PageShape' /\ PoolShape' /\ Fetched'
    BY <1>3 DEF Early, PageShape, PoolShape, Fetched, Paging
  <1>5. Ended'
    <2>1. CASE UNCHANGED collection
      BY <1>1, <2>1 DEF PlaylistInv, Ended, PlaylistExact, NoResult
    <2>2. CASE /\ ValidPage(PageAt(k * PageSize)) /\ spPC' = "done"
               /\ collection' = [via |-> "pages", tracks |-> Assembled]
      <3>1. revision \in {0, Len(versions)}
        BY <2>2 DEF ValidPage
      <3>2. /\ [i \in DOMAIN Assembled |-> Assembled[i].uri] = UrisOf(versions[Len(versions)])
            /\ \A i \in DOMAIN Assembled :
                 Assembled[i].metadata \in {"own"} \cup (IF playbackMode THEN {"pending"} ELSE {})
        BY <3>1, <1>1, AssembledExact
      <3>3. Len(versions) \in hydratedAt..Len(versions)
        BY DEF PlaylistInv, VersionsOK
      <3>4. collection'.tracks = Assembled
        BY <2>2
      <3> HIDE DEF Assembled
      <3>5. PlaylistExact'
        BY <1>1, <3>2, <3>3, <3>4 DEF PlaylistExact
      <3> QED BY <2>2, <3>5 DEF Ended
    <2> QED BY <2>1, <2>2 DEF PageRechecked
  <1> QED BY <1>2, <1>4, <1>5 DEF PlaylistInv

LEMMA PageKeeps == ASSUME PlaylistInv, MaxFaults <= 1, PageArrives PROVE PlaylistInv'
  <1>1. Len(Current) \in Nat
    BY DEF PlaylistInv, VersionsOK, Current, Last
  <1>2. PICK k \in 0..Len(Current) :
          /\ PageTurns(k * PageSize)
          /\ \/ phase = "paging" /\ PageListed(PageAt(k * PageSize)) /\ UNCHANGED collection
             \/ /\ phase = "recheck" /\ PageRechecked(PageAt(k * PageSize))
                /\ UNCHANGED <<phase, occurrences, revision, pool, hydratedAt>>
    BY DEF PageArrives, PageTurns
  <1>3. k \in Nat
    BY <1>1
  <1> QED BY <1>2, <1>3, ListedKeeps, RecheckKeeps

-----------------------------------------------------------------------------
\* A step of the pool alone.
LEMMA PoolKeeps ==
  ASSUME PlaylistInv, Hydrating, PoolStays, PoolTypes', PoolShape'
  PROVE  PlaylistInv'
  <1>1. UNCHANGED <<versions, faults, playbackMode, spPC, phase, evidence, occurrences, revision,
                    collection, hydratedAt>> /\ spPC = "hydrate"
    BY DEF PoolStays, PoolFrame, Hydrating, spotify
  <1>2. VersionsOK'
    BY <1>1 DEF PlaylistInv, VersionsOK
  <1>3. Early' /\ Fetched'
    BY <1>1 DEF PlaylistInv, Early, Fetched, PoolShape
  <1>4. PageShape'
    <2>1. Paging' = Paging /\ Whole' = Whole /\ Listed' = Listed
      BY <1>1 DEF Paging, Whole, Listed
    <2>2. Exactly' = Exactly /\ Mixed' = Mixed
      BY <1>1, <2>1 DEF Exactly, Mixed
    <2> QED BY <1>1, <2>1, <2>2 DEF PlaylistInv, PageShape
  <1>5. Ended'
    BY <1>1 DEF PlaylistInv, Ended, PlaylistExact
  <1> QED BY <1>2, <1>3, <1>4, <1>5 DEF PlaylistInv

\* What a step of a worker does: it takes u in hand (Receiving or Exited if
\* nothing), perhaps after it was sent, and what it had in hand may be done.
LEMMA WorkerKeeps ==
  ASSUME PlaylistInv, Hydrating, PoolStays, NEW w \in DOMAIN pool.worker, NEW u \in Jobs,
         NEW more \in SUBSET Nat, NEW done \in SUBSET Nat, more \subseteq {u},
         pool' = [pool EXCEPT !.worker[w] = u, !.sent = @ \cup more, !.got = @ \cup done],
         pool.worker[w] \in Nat => pool.worker[w] \in done
  PROVE  PlaylistInv'
  <1>1. UNCHANGED <<playbackMode, spPC, phase, embed, occurrences>> /\ spPC = "hydrate"
    BY DEF PoolStays, PoolFrame, Hydrating
  <1>2. /\ pool \in [worker : Seq(Jobs), sent : SUBSET Nat, got : SUBSET Nat, closed : BOOLEAN,
                    failed : BOOLEAN, ctxDone : BOOLEAN]
    BY DEF PlaylistInv, PoolTypes
  <1> DEFINE workers == [pool.worker EXCEPT ![w] = u]
  <1>3. workers \in Seq(Jobs) /\ DOMAIN workers = DOMAIN pool.worker
    BY <1>2, ExceptSeq
  <1>4. /\ pool'.worker = workers /\ pool'.sent = pool.sent \cup more /\ pool'.got = pool.got \cup done
        /\ pool'.closed = pool.closed /\ pool'.failed = pool.failed /\ pool'.ctxDone = pool.ctxDone
    BY <1>2
  <1>5. PoolTypes'
    BY <1>1, <1>2, <1>3 DEF PlaylistInv, PoolTypes
  <1>6. PoolShape'
    <2>1. PoolShape /\ pool.sent \subseteq Nat
      BY <1>2 DEF PlaylistInv
    <2>2. ~pool.failed => pool'.sent \subseteq pool'.got \cup {workers[v] : v \in DOMAIN workers}
      <3>1. SUFFICES ASSUME ~pool.failed, NEW x \in pool.sent \cup more
                     PROVE  x \in pool.got \cup done \cup {workers[v] : v \in DOMAIN workers}
        BY <1>4
      <3>2. CASE x \in more
        BY <3>2, <1>3
      <3>3. CASE x \in pool.sent
        <4>1. x \in Nat /\ (x \in pool.got \/ \E v \in DOMAIN pool.worker : pool.worker[v] = x)
          BY <3>1, <3>3, <2>1, <1>1 DEF PoolShape
        <4>2. CASE \E v \in DOMAIN pool.worker : pool.worker[v] = x
          <5>1. PICK v \in DOMAIN pool.worker : pool.worker[v] = x
            BY <4>2
          <5>2. CASE v = w
            BY <5>1, <5>2, <4>1
          <5>3. CASE v # w
            BY <5>1, <5>3, <1>3
          <5> QED BY <5>2, <5>3
        <4> QED BY <4>1, <4>2
      <3> QED BY <3>1, <3>2, <3>3
    <2>3. Missing(occurrences)' = Missing(occurrences)
      BY <1>1 DEF Missing, Known
    <2> HIDE DEF workers
    <2>4. pool'.closed /\ ~pool'.ctxDone => Missing(occurrences) \subseteq pool'.sent
      BY <2>1, <1>1, <1>4 DEF PoolShape
    <2>5. ~playbackMode' /\ phase' = "paging"
      BY <2>1, <1>1 DEF PoolShape
    <2> QED BY <2>2, <2>3, <2>4, <2>5, <1>3, <1>4 DEF PoolShape
  <1> QED BY <1>5, <1>6, PoolKeeps

LEMMA DispatchKeeps ==
  ASSUME PlaylistInv, NEW w \in DOMAIN pool.worker, Dispatch(w)
  PROVE  PlaylistInv'
  <1>1. PICK i \in DOMAIN occurrences :
          pool' = [pool EXCEPT !.worker[w] = UrisOf(occurrences)[i], !.sent = @ \cup {UrisOf(occurrences)[i]}]
    BY DEF Dispatch
  <1>2. occurrences \in Seq(Nat)
    BY DEF PlaylistInv, PageShape, Paging, Dispatch, Hydrating
  <1>3. UrisOf(occurrences)[i] \in Nat
    <2>1. UrisOf(occurrences)[i] = UriOf(occurrences[i]) /\ occurrences[i] \in Nat
      BY <1>2 DEF UrisOf
    <2> QED BY <2>1, UriNat
  <1> DEFINE u == UrisOf(occurrences)[i]
  <1>4. u \in Nat /\ u \in Jobs
    BY <1>3 DEF Jobs
  <1> HIDE DEF u
  <1>5. pool' = [pool EXCEPT !.worker[w] = u, !.sent = @ \cup {u}, !.got = @ \cup {}]
    BY <1>1 DEF PlaylistInv, PoolTypes, u
  <1>6. pool.worker[w] \notin Nat
    BY DEF Dispatch, Receiving
  <1>7. {u} \in SUBSET Nat /\ {} \in SUBSET Nat /\ {u} \subseteq {u}
    BY <1>4
  <1>8. Hydrating /\ PoolStays
    BY DEF Dispatch
  <1> QED BY <1>4, <1>5, <1>6, <1>7, <1>8, WorkerKeeps

LEMMA FetchKeeps ==
  ASSUME PlaylistInv, NEW w \in DOMAIN pool.worker, TrackFetched(w)
  PROVE  PlaylistInv'
  <1> DEFINE u == pool.worker[w]
             done == {u}
             more == {}
             next == Receiving
  <1>1. pool.worker \in Seq(Jobs) /\ pool.sent \in SUBSET Nat /\ pool.got \in SUBSET Nat
    BY DEF PlaylistInv, PoolTypes
  <1>2. u \in Nat
    BY <1>1 DEF TrackFetched, Busy, Jobs
  <1>3. Hydrating /\ PoolStays /\ pool' = [pool EXCEPT !.worker[w] = Receiving, !.got = @ \cup {u}]
    BY DEF TrackFetched
  <1>4. pool' = [pool EXCEPT !.worker[w] = next, !.sent = @ \cup more, !.got = @ \cup done]
    BY <1>3 DEF PlaylistInv, PoolTypes
  <1>5. next \in Jobs /\ more \in SUBSET Nat /\ done \in SUBSET Nat /\ more \subseteq {next}
    BY <1>2 DEF Jobs
  <1>6. pool.worker[w] \in Nat => pool.worker[w] \in done
    OBVIOUS
  <1> HIDE DEF u, done, more, next
  <1> QED BY <1>3, <1>4, <1>5, <1>6, WorkerKeeps

LEMMA EndKeeps ==
  ASSUME PlaylistInv, NEW w \in DOMAIN pool.worker, WorkerEnds(w)
  PROVE  PlaylistInv'
  <1>1. pool' = [pool EXCEPT !.worker[w] = Exited, !.sent = @ \cup {}, !.got = @ \cup {}]
    BY DEF WorkerEnds, PlaylistInv, PoolTypes
  <1>2. Exited \in Jobs /\ {} \in SUBSET Nat /\ {} \subseteq {Exited}
    BY DEF Jobs
  <1>3. pool.worker[w] \notin Nat
    BY DEF WorkerEnds, Receiving
  <1>4. Hydrating /\ PoolStays
    BY DEF WorkerEnds
  <1> QED BY <1>1, <1>2, <1>3, <1>4, WorkerKeeps

LEMMA FailureKeeps ==
  ASSUME PlaylistInv, NEW w \in DOMAIN pool.worker, TrackFails(w)
  PROVE  PlaylistInv'
  <1>1. Hydrating /\ PoolStays /\ pool' = [pool EXCEPT !.worker[w] = Exited, !.failed = TRUE, !.ctxDone = TRUE]
    BY DEF TrackFails
  <1>2. UNCHANGED <<playbackMode, phase, embed>> /\ PoolShape /\ spPC = "hydrate"
    BY <1>1 DEF PoolStays, PoolFrame, Hydrating, PlaylistInv
  <1>3. [pool.worker EXCEPT ![w] = Exited] \in Seq(Jobs)
    <2>1. pool.worker \in Seq(Jobs) /\ Exited \in Jobs
      BY DEF PlaylistInv, PoolTypes, Jobs
    <2> QED BY <2>1, ExceptSeq
  <1>4. PoolTypes'
    BY <1>1, <1>2, <1>3 DEF PlaylistInv, PoolTypes
  <1>5. pool'.failed = TRUE /\ pool'.ctxDone = TRUE
    BY <1>1 DEF PlaylistInv, PoolTypes
  <1>6. PoolShape'
    BY <1>2, <1>5 DEF PoolShape
  <1> QED BY <1>1, <1>4, <1>6, PoolKeeps

LEMMA CloseKeeps == ASSUME PlaylistInv, DispatchEnds PROVE PlaylistInv'
  <1>1. /\ Hydrating /\ PoolStays /\ pool' = [pool EXCEPT !.closed = TRUE]
        /\ Missing(occurrences) \subseteq pool.sent \/ pool.ctxDone
    BY DEF DispatchEnds
  <1>2. UNCHANGED <<playbackMode, phase, embed, occurrences>> /\ PoolShape /\ spPC = "hydrate"
    BY <1>1 DEF PoolStays, PoolFrame, Hydrating, PlaylistInv
  <1>3. PoolTypes'
    BY <1>1, <1>2 DEF PlaylistInv, PoolTypes
  <1>4. /\ pool'.worker = pool.worker /\ pool'.sent = pool.sent /\ pool'.got = pool.got
        /\ pool'.failed = pool.failed /\ pool'.ctxDone = pool.ctxDone
    BY <1>1 DEF PlaylistInv, PoolTypes
  <1>5. Missing(occurrences)' = Missing(occurrences)
    BY <1>2 DEF Missing, Known
  <1>6. PoolShape'
    BY <1>1, <1>2, <1>4, <1>5 DEF PoolShape
  <1> QED BY <1>1, <1>3, <1>6, PoolKeeps

LEMMA CancelKeeps == ASSUME PlaylistInv, HydrateCanceled PROVE PlaylistInv'
  <1>1. Hydrating /\ PoolStays /\ pool' = [pool EXCEPT !.ctxDone = TRUE]
    BY DEF HydrateCanceled
  <1>2. UNCHANGED <<playbackMode, phase, embed, occurrences>> /\ PoolShape /\ spPC = "hydrate"
    BY <1>1 DEF PoolStays, PoolFrame, Hydrating, PlaylistInv
  <1>3. PoolTypes'
    BY <1>1, <1>2 DEF PlaylistInv, PoolTypes
  <1>4. /\ pool'.worker = pool.worker /\ pool'.sent = pool.sent /\ pool'.got = pool.got
        /\ pool'.failed = pool.failed /\ pool'.ctxDone = TRUE
    BY <1>1 DEF PlaylistInv, PoolTypes
  <1>5. PoolShape'
    BY <1>2, <1>4 DEF PoolShape
  <1> QED BY <1>1, <1>3, <1>5, PoolKeeps

\* The pool returns when no worker has a track in hand: all were fetched.
LEMMA ReturnKeeps == ASSUME PlaylistInv, HydrateReturns PROVE PlaylistInv'
  <1>1. /\ UNCHANGED <<versions, faults, playbackMode, evidence, embed, occurrences, revision, collection, pool>>
        /\ spPC = "hydrate"
    BY DEF HydrateReturns, PoolFrame, Hydrating, spotify
  <1>2. PoolTypes' /\ collection = NoResult
    BY <1>1 DEF PlaylistInv, PoolTypes, Ended
  <1>3. Ended'
    BY <1>1, <1>2 DEF Ended, PlaylistExact, NoResult
  <1>4. CASE (pool.failed \/ pool.ctxDone) /\ spPC' = "failed" /\ UNCHANGED <<phase, hydratedAt>>
    <2>1. VersionsOK'
      BY <1>1, <1>4 DEF PlaylistInv, VersionsOK
    <2>2. Early' /\ PageShape' /\ PoolShape' /\ Fetched'
      BY <1>4 DEF Early, PageShape, PoolShape, Fetched, Paging
    <2> QED BY <1>2, <1>3, <2>1, <2>2 DEF PlaylistInv
  <1>5. CASE /\ ~pool.failed /\ ~pool.ctxDone /\ spPC' = "page" /\ phase' = "recheck"
             /\ hydratedAt' = Len(versions)
    <2>1. VersionsOK'
      BY <1>1, <1>5 DEF PlaylistInv, VersionsOK
    <2>2. Early' /\ PoolShape'
      BY <1>5 DEF Early, PoolShape
    <2>3. PageShape'
      <3>1. Paging /\ Paging' /\ Whole /\ Whole' /\ Listed' = Listed
        BY <1>1, <1>5 DEF Paging, Whole, Listed
      <3>2. Exactly' = Exactly /\ Mixed' = Mixed
        BY <1>1, <3>1 DEF Exactly, Mixed
      <3> QED BY <1>1, <3>1, <3>2 DEF PlaylistInv, PageShape
    <2>4. Fetched'
      <3>1. /\ Missing(occurrences) \subseteq pool.sent
            /\ pool.sent \subseteq pool.got \cup {pool.worker[w] : w \in DOMAIN pool.worker}
        BY <1>1, <1>5 DEF PlaylistInv, PoolShape, HydrateReturns
      <3>2. \A w \in DOMAIN pool.worker : pool.worker[w] = -2
        BY DEF HydrateReturns, Exited
      <3>3. pool.sent \subseteq Nat
        BY DEF PlaylistInv, PoolTypes
      <3>4. Missing(occurrences) \subseteq pool.got
        BY <3>1, <3>2, <3>3
      <3>5. Missing(occurrences)' = Missing(occurrences)
        BY <1>1 DEF Missing, Known
      <3> QED BY <1>1, <3>4, <3>5 DEF Fetched
    <2> QED BY <1>2, <1>3, <2>1, <2>2, <2>3, <2>4 DEF PlaylistInv
  <1> QED BY <1>4, <1>5 DEF HydrateReturns

-----------------------------------------------------------------------------
LEMMA MovesKeep ==
  ASSUME PlaylistInv, TokenAges \/ BeginPlaylist \/ RequestFails \/ Refresh \/ Unauthorized
  PROVE  PlaylistInv'
  <1>1. UNCHANGED readVars
    BY DEF TokenAges, BeginPlaylist, RequestFails, Refresh, Unauthorized, readVars, spotify
  <1>2. spPC' # spPC =>
          \/ spPC = "idle" /\ spPC' = "public"
          \/ spPC \in {"public", "embed", "page", "refresh"} /\ spPC' = "failed"
          \/ spPC \in {"page", "refresh"} /\ spPC' \in {"page", "refresh"}
    BY DEF TokenAges, BeginPlaylist, RequestFails, Refresh, Unauthorized
  <1> QED BY <1>1, <1>2, MovesOn

LEMMA PlaylistStart == ASSUME PlaylistInit PROVE PlaylistInv
  <1>1. VersionsOK
    <2>1. PICK n \in 1..MaxTotal : versions = <<[i \in 1..n |-> i]>>
      BY DEF PlaylistInit
    <2>2. n \in Nat
      BY <2>1, PlaylistAssumption DEF PlaylistAssumption
    <2>3. [i \in 1..n |-> i] \in Seq(Nat)
      BY <2>2
    <2> DEFINE whole == [i \in 1..n |-> i]
    <2>4. whole \in Seq(Nat)
      BY <2>3
    <2> HIDE DEF whole
    <2>5. <<whole>> \in Seq(Seq(Nat)) /\ <<whole>> # <<>> /\ Len(<<whole>>) = 1
      BY <2>4
    <2> QED BY <2>1, <2>5 DEF VersionsOK, PlaylistInit, whole
  <1>2. Early /\ PageShape /\ PoolShape /\ Fetched
    BY DEF PlaylistInit, Early, PageShape, PoolShape, Fetched, Paging
  <1>3. PoolTypes
    <2>1. <<>> \in Seq(Jobs) /\ <<>> \in Seq(Nat)
      OBVIOUS
    <2> QED BY <2>1 DEF PlaylistInit, PoolTypes, NoPool
  <1>4. Ended
    BY DEF PlaylistInit, Ended, PlaylistExact, NoResult
  <1> QED BY <1>1, <1>2, <1>3, <1>4 DEF PlaylistInv

LEMMA PlaylistStep ==
  ASSUME MaxFaults <= 1, PlaylistInv, [PlaylistNext]_playlistVars
  PROVE  PlaylistInv'
  <1>1. CASE EditPlaylist
    BY <1>1, EditKeeps
  <1>2. CASE TokenAges \/ BeginPlaylist \/ RequestFails \/ Refresh \/ Unauthorized
    BY <1>2, MovesKeep
  <1>3. CASE ReadPublic
    BY <1>3, PublicKeeps
  <1>4. CASE ReadEmbed
    BY <1>4, EmbedKeeps
  <1>5. CASE PageArrives
    BY <1>5, PageKeeps
  <1>6. CASE DispatchEnds \/ HydrateCanceled \/ HydrateReturns
    BY <1>6, CloseKeeps, CancelKeeps, ReturnKeeps
  <1>7. ASSUME NEW w \in DOMAIN pool.worker, Dispatch(w) \/ TrackFetched(w) \/ TrackFails(w) \/ WorkerEnds(w)
        PROVE  PlaylistInv'
    BY <1>7, DispatchKeeps, FetchKeeps, FailureKeeps, EndKeeps
  <1>8. CASE UNCHANGED playlistVars
    <2>1. UNCHANGED readVars /\ UNCHANGED spPC
      BY <1>8 DEF playlistVars, readVars
    <2> QED BY <2>1, MovesOn
  <1> QED BY <1>1, <1>2, <1>3, <1>4, <1>5, <1>6, <1>7, <1>8 DEF PlaylistNext, Resolution

(* A playlist resolved page by page is a version of it, occurrence by        *)
(* occurrence, that was current after its metadata was complete, and every   *)
(* track has its metadata (anonymousPlaylist), for every length, page and    *)
(* pool size and any number of edits, if at most one page is mixed up: two   *)
(* that are exchanged would not be noticed.                                  *)
THEOREM PlaylistsAreExact ==
  ASSUME MaxFaults <= 1
  PROVE  PlaylistSpec => []PlaylistExact
  <1>1. PlaylistInit => PlaylistInv
    BY PlaylistStart
  <1>2. PlaylistInv /\ [PlaylistNext]_playlistVars => PlaylistInv'
    BY PlaylistStep
  <1>3. PlaylistInv => PlaylistExact
    BY DEF PlaylistInv, Ended
  <1> QED BY <1>1, <1>2, <1>3, PTL DEF PlaylistSpec

=============================================================================
