------------------------- MODULE SingleCacheSystem -------------------------
(***************************************************************************)
(* The class SingleCacheSystem (system.h, system.cpp), the one that main   *)
(* simulates: one cache in front of one memory.  Spec is the system        *)
(* without a prefetcher; SinglePrefetching adds one.                       *)
(***************************************************************************)
EXTENDS System, Cache

VARIABLE cache       \* cache[s]: set s of the cache

vars == <<cache, virtToPhysMap, nextPage, seenLines, stats>>

CacheLine == [tag : Tags, state : CacheState]

TypeOK ==
    /\ SystemTypeOK
    /\ cache \in [Sets -> Seq(CacheLine)]

Init ==
    /\ SystemInit
    /\ cache = [s \in Sets |-> << >>]

----------------------------------------------------------------------------
(* memAccess, up to the call of the prefetcher.  "line" is translated.     *)

StateOf(line) == findTag(cache[SetOf(line)], TagOf(line))

IsHit(line) == StateOf(line) # "Invalid"

Resident(c, line) == IsCached(c[SetOf(line)], TagOf(line))

Hit(line, accessType) ==
    LET set == SetOf(line)
        tag == TagOf(line)
        written == IF accessType = "Write"
                   THEN changeState(cache[set], tag, "Modified")
                   ELSE cache[set]
    IN  /\ IsHit(line)
        /\ cache' = [cache EXCEPT ![set] = updateLRU(written, tag)]
        /\ Count(AccessStats(line, accessType)
                   \cup (IF accessType = "Prefetch" THEN {} ELSE {"hits"}))

\* Mutant: a write miss fills a clean line.
NewStateClean(accessType) ==
    IF accessType = "Prefetch" THEN "Modified" ELSE "Exclusive"

\* Every fill that is not a read is Modified, a prefetch too.
NewState(accessType) == IF accessType = "Read" THEN "Exclusive" ELSE "Modified"

\* Mutants: the fills of writes are not counted; those of prefetches are.
ReadTrafficOfReads(accessType) ==
    IF accessType = "Read" THEN {"local_reads"} ELSE {}
ReadTrafficOfAll(accessType) == {"local_reads"}

ReadTraffic(accessType) ==
    IF accessType = "Prefetch" THEN {} ELSE {"local_reads"}

Miss(line, accessType) ==
    LET set == SetOf(line)
    IN  /\ ~IsHit(line)
        /\ cache' = [cache EXCEPT ![set] =
                       insertLine(@, TagOf(line), NewState(accessType))]
        /\ Count(AccessStats(line, accessType)
                   \cup (IF checkWriteback(cache[set]) THEN {"local_writes"}
                         ELSE {})
                   \cup ReadTraffic(accessType))

memAccess(address, accessType) ==
    LET line == PhysLine(address)
    IN  /\ virtToPhys(address)
        /\ checkCompulsory(line, accessType)
        /\ Hit(line, accessType) \/ Miss(line, accessType)

Next ==
    \E address \in Lines, accessType \in {"Read", "Write"} :
        memAccess(address, accessType)

Spec == Init /\ [][Next]_vars

----------------------------------------------------------------------------
(* Properties.                                                             *)

\* A set holds at most assoc lines, no line twice and none in state Invalid
\* ("Line should not already exist in cache", cache.h:50).
SetsWellKept ==
    \A s \in Sets :
        /\ Len(cache[s]) <= Assoc
        /\ UniqueTags(cache[s])
        /\ NoInvalidLine(cache[s])

\* Every access is accounted for once: a hit, or one read of memory ("Misses =
\* accesses - hits", system.h:42), also after the counters have wrapped.
StatsBalance ==
    (stats["hits"] + stats["local_reads"]) % CounterMod = stats["accesses"]

Bumped(n) == stats'[n] # stats[n]

\* "Compulsory misses, i.e. the first access to an address" (system.h:48): the
\* access that is counted as compulsory is a miss.
CompulsoryIsMiss == [][Bumped("compulsory") => ~Bumped("hits")]_vars
=============================================================================
