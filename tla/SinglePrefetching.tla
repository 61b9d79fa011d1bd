------------------------- MODULE SinglePrefetching -------------------------
(***************************************************************************)
(* SingleCacheSystem with a prefetcher: the composition of                 *)
(* SingleCacheSystem and Prefetch through memAccess.                       *)
(***************************************************************************)
EXTENDS SingleCacheSystem, Prefetch

allVars == <<cache, virtToPhysMap, nextPage, seenLines, stats,
             lastMiss, lastPrefetch, prefetched, calls>>

\* SingleCacheSystem has no use for the thread of an access.
NoThread == 0

PrefetchingInit == Init /\ PrefetchInit

DemandAccess(address, accessType) ==
    LET line == PhysLine(address)
    IN  /\ calls = << >>
        /\ memAccess(address, accessType)
        /\ IF IsHit(line) THEN prefetchHit(line, NoThread)
           ELSE prefetchMiss(line, NoThread)

\* Mutant: a prefetch calls the prefetcher as any access does.
PrefetchAccessNotifying ==
    /\ Running("memAccess")
    /\ LET line == PhysLine(Last(calls).line)
       IN /\ memAccess(Last(calls).line, "Prefetch")
          /\ IF IsHit(line) THEN prefetchHit(line, NoThread)
             ELSE prefetchMiss(line, NoThread)

\* A prefetch never calls the prefetcher.
PrefetchAccess ==
    /\ Running("memAccess")
    /\ memAccess(Last(calls).line, "Prefetch")
    /\ NoPrefetch

\* The program inside one call of memAccess.
Execute == PrefetchAccess \/ (PrefetcherStep /\ UNCHANGED vars)

Demand ==
    \E address \in Lines, accessType \in {"Read", "Write"} :
        DemandAccess(address, accessType)

PrefetchingNext == Demand \/ Execute

\* The program executes until memAccess returns; nothing makes the trace go on.
PrefetchingSpec ==
    PrefetchingInit /\ [][PrefetchingNext]_allVars /\ WF_allVars(Execute)

----------------------------------------------------------------------------
(* Properties.                                                             *)

\* memAccess returns: an access causes finitely many prefetches.
EveryAccessReturns == []<>(calls = << >>)

\* Prefetches cause no prefetches: beside the memAccess of a prefetch at most
\* one call of the prefetcher is under way, so no stream nests in another.
PrefetchesDoNotNest == Len(calls) <= 2

\* "All stats exclude prefetcher activity (except prefetched)" (system.h:39): a
\* prefetch counts nothing but the write-back it causes, which is the exception
\* that the comment does not name.
PrefetchesCountWriteBacksOnly ==
    [][calls # << >> =>
         \A n \in StatNames \ {"local_writes"} : ~Bumped(n)]_allVars

\* "a sequential line prefetcher" (prefetch.h:39): a stream of prefetches goes on
\* while the trace follows it.  lastPrefetch is the line of the stream that the
\* trace is expected at; a hit there prefetches the next line of the stream.
StreamsGoOn ==
    [][\A address \in Lines, accessType \in {"Read", "Write"} :
          DemandAccess(address, accessType)
            /\ IsHit(PhysLine(address)) /\ PhysLine(address) = lastPrefetch
          => calls' # << >>]_allVars
=============================================================================
