--------------------------- MODULE SpotifyPlaylist ---------------------------
(***************************************************************************)
(* The anonymous resolution of a Spotify playlist (internal/media/         *)
(* spotify_public.go, spotify_anonymous.go): the public page gives a total *)
(* and a prefix, Embed a longer prefix and a session, the occurrences are  *)
(* paged and checked against one revision, the tail's metadata is fetched  *)
(* by a pool of workers, and the first page is read again at the end.  The *)
(* playlist may be edited between any two requests.                        *)
(*                                                                         *)
(* An occurrence is a number; UriOf is the track it stands for, so a track *)
(* may occur twice.  A revision is the index of a version.                 *)
(***************************************************************************)
EXTENDS Integers, Sequences, FiniteSets, SequencesExt

CONSTANTS
  PublicMax,    \* occurrences the public page renders
  EmbedMax,     \* occurrences Embed exposes
  PageSize,     \* spotifyPublicPageSize
  PoolSize,     \* hydration workers
  Uris,         \* number of distinct tracks
  MaxTotal,     \* bound: length of the playlist at the start
  MaxRevisions, \* bound: edits of the playlist
  MaxFaults     \* bound: pages answered with the items of another page

ASSUME PlaylistAssumption ==
  /\ {PublicMax, EmbedMax, PageSize, PoolSize, Uris, MaxTotal} \subseteq Nat \ {0}
  /\ MaxRevisions \in Nat /\ MaxFaults \in Nat

VARIABLES
  versions,    \* Spotify's playlist, one entry per revision
  faults,      \* mislabelled pages so far
  playbackMode, \* playbackMetadata(ctx): the tail's metadata is deferred
  spPC,        \* where the resolution is
  phase,       \* which use of page(): "paging" or "recheck"
  evidence,    \* [total, prefix] of the public page
  embed,       \* occurrences cached from Embed
  session,     \* anonymous session: fresh (not about to expire), refreshed
  occurrences, revision,   \* pages read so far, and their revision (0: none)
  pool,        \* hydrateSpotifyTracks
  collection,  \* [via, tracks]
  hydratedAt   \* history: revision of the playlist when the metadata was complete

playlistVars == <<versions, faults, playbackMode, spPC, phase, evidence, embed, session,
                  occurrences, revision, pool, collection, hydratedAt>>
spotify == <<versions, faults>>

UriOf(o) == o % Uris
UrisOf(s) == [i \in 1..Len(s) |-> UriOf(s[i])]
Shortest(a, b) == IF a < b THEN a ELSE b
Current == Last(versions)
Leading(s, n) == SubSeq(s, 1, Shortest(n, Len(s)))
NoResult == [via |-> "none", tracks |-> <<>>]
Receiving == -1    \* a worker between jobs
Exited == -2
NoPool == [worker |-> <<>>, sent |-> {}, got |-> {}, closed |-> FALSE, failed |-> FALSE,
           ctxDone |-> FALSE]

PlaylistInit ==
  /\ versions \in {<<[i \in 1..n |-> i]>> : n \in 1..MaxTotal}
  /\ faults = 0 /\ playbackMode \in BOOLEAN
  /\ spPC = "idle" /\ phase = "paging"
  /\ evidence = [total |-> 0, prefix |-> <<>>] /\ embed = <<>>
  /\ session = [fresh |-> FALSE, refreshed |-> FALSE]
  /\ occurrences = <<>> /\ revision = 0 /\ pool = NoPool
  /\ collection = NoResult /\ hydratedAt = 0

-----------------------------------------------------------------------------
Edited(i) == LET new == MaxTotal + Len(versions)
             IN {InsertAt(Current, i, new), RemoveAt(Current, i), [Current EXCEPT ![i] = new],
                 Append(RemoveAt(Current, i), Current[i])}

\* The owner of the playlist inserts, removes, replaces or moves an occurrence.
EditPlaylist ==
  /\ Len(versions) <= MaxRevisions /\ spPC \notin {"done", "failed"}
  /\ \E i \in 1..Len(Current) : \E content \in Edited(i) :
       versions' = Append(versions, content)
  /\ UNCHANGED <<faults, playbackMode, spPC, phase, evidence, embed, session, occurrences,
                 revision, pool, collection, hydratedAt>>

\* The token comes within ten seconds of its end.
TokenAges ==
  /\ session.fresh /\ spPC \notin {"done", "failed"}
  /\ session' = [session EXCEPT !.fresh = FALSE]
  /\ UNCHANGED <<spotify, playbackMode, spPC, phase, evidence, embed, occurrences,
                 revision, pool, collection, hydratedAt>>

BeginPlaylist ==
  /\ spPC = "idle" /\ spPC' = "public"
  /\ UNCHANGED <<spotify, playbackMode, phase, evidence, embed, session, occurrences,
                 revision, pool, collection, hydratedAt>>

\* A request fails, times out or is cancelled, or its answer does not parse:
\* nothing is returned.
RequestFails ==
  /\ spPC \in {"public", "embed", "page", "refresh"}
  /\ spPC' = "failed"
  /\ UNCHANGED <<spotify, playbackMode, phase, evidence, embed, session, occurrences,
                 revision, pool, collection, hydratedAt>>

Loaded(s) == [i \in 1..Len(s) |-> [uri |-> UriOf(s[i]), metadata |-> "own"]]

\* publicPlaylist: a complete page is the result, a page that is a proper
\* prefix is evidence for the next source; an empty playlist is refused.
ReadPublic ==
  /\ spPC = "public"
  /\ \/ /\ Len(Current) \in 1..PublicMax
        /\ spPC' = "done" /\ collection' = [via |-> "public", tracks |-> Loaded(Current)]
        /\ UNCHANGED evidence
     \/ /\ Len(Current) > PublicMax
        /\ spPC' = "embed" /\ UNCHANGED collection
        /\ evidence' = [total |-> Len(Current), prefix |-> UrisOf(Leading(Current, PublicMax))]
     \/ Len(Current) = 0 /\ spPC' = "failed" /\ UNCHANGED <<collection, evidence>>
  /\ UNCHANGED <<spotify, playbackMode, phase, embed, session, occurrences, revision, pool,
                 hydratedAt>>

\* parseSpotifyEmbed, then the checks at the head of anonymousPlaylist.
ReadEmbed ==
  /\ spPC = "embed"
  /\ LET seen == Leading(Current, EmbedMax)
         agrees == /\ Len(evidence.prefix) <= Len(seen)
                   /\ UrisOf(Leading(seen, Len(evidence.prefix))) = evidence.prefix
     IN \/ /\ agrees /\ Len(seen) = evidence.total
           /\ spPC' = "done" /\ collection' = [via |-> "embed", tracks |-> Loaded(seen)]
           /\ UNCHANGED <<embed, session>>
        \/ /\ agrees /\ Len(seen) < evidence.total
           /\ spPC' = "page" /\ embed' = seen
           /\ session' \in [fresh : BOOLEAN, refreshed : {FALSE}]
           /\ UNCHANGED collection
        \/ /\ ~agrees \/ Len(seen) > evidence.total
           /\ spPC' = "failed" /\ UNCHANGED <<embed, session, collection>>
  /\ UNCHANGED <<spotify, playbackMode, phase, evidence, occurrences, revision, pool, hydratedAt>>

-----------------------------------------------------------------------------
\* refresh, before the first use of a token about to end and after a 401: once
\* in a session, and an answer that is about to end as well is an error.
Refresh ==
  /\ spPC = "refresh" \/ (spPC = "page" /\ ~session.fresh)
  /\ \/ session.refreshed /\ spPC' = "failed" /\ UNCHANGED session
     \/ /\ ~session.refreshed
        /\ session' \in [fresh : BOOLEAN, refreshed : {TRUE}]
        /\ spPC' = IF session'.fresh THEN "page" ELSE "failed"
  /\ UNCHANGED <<spotify, playbackMode, phase, evidence, embed, occurrences, revision, pool,
                 collection, hydratedAt>>

Unauthorized ==
  /\ spPC = "page" /\ session.fresh
  /\ spPC' = IF session.refreshed THEN "failed" ELSE "refresh"
  /\ UNCHANGED <<spotify, playbackMode, phase, evidence, embed, session, occurrences,
                 revision, pool, collection, hydratedAt>>

Offset == IF phase = "paging" THEN Len(occurrences) ELSE 0
PageAt(offset) == SubSeq(Current, offset + 1, Shortest(offset + PageSize, Len(Current)))

\* Mutant of ValidPage: the revision is not compared.
ValidPageAnyRevision(items) ==
  /\ Len(Current) = evidence.total
  /\ Len(items) = Shortest(PageSize, evidence.total - Offset)

\* validateSpotifyPublicItems: the total, the revision once one is known and
\* the number of items.
ValidPage(items) ==
  /\ Len(Current) = evidence.total
  /\ revision \in {0, Len(versions)}
  /\ Len(items) = Shortest(PageSize, evidence.total - Offset)

\* The tracks without metadata, each once.
Known == ToSet(UrisOf(embed))
Missing(occs) == ToSet(UrisOf(occs)) \ Known

\* A page of the list: refused when it is not valid or repeats an occurrence;
\* after the last one the cached prefix must agree.
PageListed(items) ==
  LET all == occurrences \o items
      complete == Len(all) >= evidence.total
      agrees == Leading(UrisOf(all), Len(embed)) = UrisOf(embed)
  IN \/ /\ ~ValidPage(items) \/ ~IsInjective(all) \/ (complete /\ ~agrees)
        /\ spPC' = "failed"
        /\ UNCHANGED <<phase, occurrences, revision, pool, hydratedAt>>
     \/ /\ ValidPage(items) /\ IsInjective(all) /\ (complete => agrees)
        /\ occurrences' = all /\ revision' = Len(versions)
        /\ \/ ~complete /\ UNCHANGED <<spPC, phase, pool, hydratedAt>>
           \/ /\ complete /\ playbackMode /\ phase' = "recheck"
              /\ hydratedAt' = Len(versions) /\ UNCHANGED <<spPC, pool>>
           \/ /\ complete /\ ~playbackMode /\ spPC' = "hydrate"
              /\ pool' = [NoPool EXCEPT !.worker =
                            [w \in 1..Shortest(PoolSize, Cardinality(Missing(all))) |-> Receiving]]
              /\ UNCHANGED <<phase, hydratedAt>>

\* The tracks in playlist order, with Embed's, the fetched or deferred metadata.
Assembled ==
  LET metadata(u) == IF u \in Known \cup pool.got THEN "own"
                     ELSE IF playbackMode THEN "pending" ELSE "empty"
  IN [i \in 1..Len(occurrences) |->
        [uri |-> UriOf(occurrences[i]), metadata |-> metadata(UriOf(occurrences[i]))]]

\* Mutant of PageRechecked: the last look at the playlist is skipped.
PageRecheckedNot(items) ==
  /\ spPC' = "done" /\ collection' = [via |-> "pages", tracks |-> Assembled]

\* The first page is read again before the tracks are admitted.
PageRechecked(items) ==
  IF ValidPage(items) /\ UrisOf(items) = UrisOf(Leading(occurrences, Len(items)))
    THEN spPC' = "done" /\ collection' = [via |-> "pages", tracks |-> Assembled]
    ELSE spPC' = "failed" /\ UNCHANGED collection

\* The server answers with the page asked for or, by mistake, with another one.
PageArrives ==
  /\ spPC = "page" /\ session.fresh
  /\ \E from \in {k * PageSize : k \in 0..Len(Current)} :
       /\ from = Offset \/ (faults < MaxFaults /\ from < Len(Current))
       /\ faults' = IF from = Offset THEN faults ELSE faults + 1
       /\ \/ /\ phase = "paging" /\ PageListed(PageAt(from)) /\ UNCHANGED collection
          \/ /\ phase = "recheck" /\ PageRechecked(PageAt(from))
             /\ UNCHANGED <<phase, occurrences, revision, pool, hydratedAt>>
  /\ UNCHANGED <<versions, playbackMode, evidence, embed, session>>

-----------------------------------------------------------------------------
\* hydrateSpotifyTracks: an unbuffered channel of jobs, one dispatcher.

PoolFrame == UNCHANGED <<spotify, playbackMode, evidence, embed, session, occurrences,
                         revision, collection>>
PoolStays == UNCHANGED <<spPC, phase, hydratedAt>> /\ PoolFrame
Hydrating == spPC = "hydrate"

\* The next job is the first track of the playlist that is still missing.
Dispatch(w) ==
  /\ Hydrating /\ ~pool.closed /\ pool.worker[w] = Receiving
  /\ \E i \in DOMAIN occurrences :
       LET uris == UrisOf(occurrences)
           settled == Known \cup pool.sent
       IN /\ uris[i] \notin settled /\ \A j \in 1..(i - 1) : uris[j] \in settled
          /\ pool' = [pool EXCEPT !.worker[w] = uris[i], !.sent = @ \cup {uris[i]}]
  /\ PoolStays

DispatchEnds ==
  /\ Hydrating /\ ~pool.closed
  /\ Missing(occurrences) \subseteq pool.sent \/ pool.ctxDone
  /\ pool' = [pool EXCEPT !.closed = TRUE]
  /\ PoolStays

Busy(w) == pool.worker[w] \notin {Receiving, Exited}

TrackFetched(w) ==
  /\ Hydrating /\ Busy(w)
  /\ pool' = [pool EXCEPT !.worker[w] = Receiving, !.got = @ \cup {pool.worker[w]}]
  /\ PoolStays

\* Mutant of TrackFails: the worker leaves without cancelling the others.
TrackFailsAlone(w) ==
  /\ Hydrating /\ Busy(w)
  /\ pool' = [pool EXCEPT !.worker[w] = Exited, !.failed = TRUE]
  /\ PoolStays

\* The first failure is kept and cancels the pool; the worker ends.
TrackFails(w) ==
  /\ Hydrating /\ Busy(w)
  /\ pool' = [pool EXCEPT !.worker[w] = Exited, !.failed = TRUE, !.ctxDone = TRUE]
  /\ PoolStays

WorkerEnds(w) ==
  /\ Hydrating /\ pool.closed /\ pool.worker[w] = Receiving
  /\ pool' = [pool EXCEPT !.worker[w] = Exited]
  /\ PoolStays

\* The caller's context ends: the two minutes are over, or the player stopped.
HydrateCanceled ==
  /\ Hydrating /\ ~pool.ctxDone
  /\ pool' = [pool EXCEPT !.ctxDone = TRUE]
  /\ PoolStays

HydrateReturns ==
  /\ Hydrating /\ pool.closed /\ \A w \in DOMAIN pool.worker : pool.worker[w] = Exited
  /\ IF pool.failed \/ pool.ctxDone
       THEN spPC' = "failed" /\ UNCHANGED <<phase, hydratedAt>>
       ELSE spPC' = "page" /\ phase' = "recheck" /\ hydratedAt' = Len(versions)
  /\ UNCHANGED pool /\ PoolFrame

-----------------------------------------------------------------------------
Resolution ==
  \/ RequestFails \/ ReadPublic \/ ReadEmbed \/ Refresh \/ Unauthorized \/ PageArrives
  \/ DispatchEnds \/ HydrateReturns
  \/ \E w \in DOMAIN pool.worker : Dispatch(w) \/ TrackFetched(w) \/ TrackFails(w) \/ WorkerEnds(w)

PlaylistNext == BeginPlaylist \/ Resolution \/ EditPlaylist \/ TokenAges \/ HydrateCanceled

\* Every request has a deadline of fifteen seconds, and Go runs the workers.
PlaylistFairness == WF_playlistVars(Resolution)
PlaylistSpec == PlaylistInit /\ [][PlaylistNext]_playlistVars /\ PlaylistFairness

(* A playlist resolved page by page is a version of it, occurrence by      *)
(* occurrence, that was current after its metadata was complete, whatever  *)
(* was edited between the pages and with one page mixed up; every track    *)
(* has its own metadata, or a placeholder only where playback defers it.   *)
PlaylistExact ==
  collection.via = "pages" =>
    /\ \E v \in hydratedAt..Len(versions) :
         [i \in DOMAIN collection.tracks |-> collection.tracks[i].uri] = UrisOf(versions[v])
    /\ \A i \in DOMAIN collection.tracks :
         collection.tracks[i].metadata \in {"own"} \cup (IF playbackMode THEN {"pending"} ELSE {})

(* A resolution is under way: it must end, with a playlist or an error,    *)
(* also when every worker fails while the dispatcher offers the next job.  *)
PlaylistWaits == spPC \notin {"idle", "done", "failed"}
=============================================================================
