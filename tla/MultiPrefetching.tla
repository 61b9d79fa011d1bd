-------------------------- MODULE MultiPrefetching --------------------------
(***************************************************************************)
(* MultiCacheSystem with a prefetcher: the composition of MultiCacheSystem *)
(* and Prefetch through memAccess.                                         *)
(***************************************************************************)
EXTENDS MultiCacheSystem, Prefetch

allVars == <<caches, pageToDomain, virtToPhysMap, nextPage, seenLines, stats,
             lastMiss, lastPrefetch, prefetched, calls>>

PrefetchingInit == Init /\ PrefetchInit

\* An access of the trace.  Only its hits reach the prefetcher: the call of
\* prefetchMiss asks for an access that IS a prefetch.
DemandAccess(address, accessType, tid) ==
    LET line == PhysLine(address)
    IN  /\ calls = << >>
        /\ memAccess(address, accessType, tid)
        /\ IF IsHit(line, TidToDomain[tid]) THEN prefetchHit(line, tid)
           ELSE NoPrefetch

PrefetchAccess ==
    /\ Running("memAccess")
    /\ LET call == Last(calls)
           line == PhysLine(call.line)
       IN /\ memAccess(call.line, "Prefetch", call.tid)
          /\ IF IsHit(line, TidToDomain[call.tid]) THEN NoPrefetch
             ELSE prefetchMiss(line, call.tid)

\* The program inside one call of memAccess.
Execute == PrefetchAccess \/ (PrefetcherStep /\ UNCHANGED vars)

Demand ==
    \E address \in Lines, accessType \in {"Read", "Write"}, tid \in Threads :
        DemandAccess(address, accessType, tid)

PrefetchingNext == Demand \/ Execute

(***************************************************************************)
(* The program executes until memAccess returns; nothing makes the trace   *)
(* go on.                                                                  *)
(***************************************************************************)
PrefetchingSpec ==
    PrefetchingInit /\ [][PrefetchingNext]_allVars /\ WF_allVars(Execute)

----------------------------------------------------------------------------
(* Properties.                                                             *)

\* memAccess returns: the prefetches an access causes, the prefetches these
\* cause in turn and so on come to an end.  prefetch.h:54 calls AdjPrefetch "a
\* simple adjacent line prefetcher", which "always fetches the next line".
EveryAccessReturns == []<>(calls = << >>)

\* prefetchMiss: "Called to check for prefetches in the case of a cache miss"
\* (prefetch.cpp:35).  No miss of the trace is lost on the prefetcher, which
\* prefetches or remembers the line as its last miss.
MissesAreNoted ==
    [][\A address \in Lines, accessType \in {"Read", "Write"}, tid \in Threads :
          DemandAccess(address, accessType, tid)
            /\ ~IsHit(PhysLine(address), TidToDomain[tid])
          => calls' # << >> \/ lastMiss' = PhysLine(address)]_allVars

\* "Line should not already exist in cache" when it is inserted (cache.h:50).
LinesExistOnce ==
    \A d \in Domains, s \in Sets : UniqueTags(caches[d][s])
=============================================================================
