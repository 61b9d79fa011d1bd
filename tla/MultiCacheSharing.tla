------------------------- MODULE MultiCacheSharing -------------------------
(***************************************************************************)
(* MultiCacheSystem implements CoherentSharing: the refinement mapping.    *)
(* Hits and misses, states and tags, local and remote traffic disappear;   *)
(* what remains is who holds a line and who owes it to memory.             *)
(***************************************************************************)
EXTENDS MultiCacheSystem

Copies(d, line) == {copy \in Range(caches[d][SetOf(line)]) : copy.tag = TagOf(line)}

\* No line is Invalid (SetsWellKept), so a copy is a valid one.
LineHolders == [line \in Lines |-> {d \in Domains : Copies(d, line) # {}}]

Owes(d, line) == \E copy \in Copies(d, line) : copy.state \in DirtyStates

\* NumDomains, which is no cache, stands for "no owner".
LineOwner ==
    [line \in Lines |->
        IF \E d \in Domains : Owes(d, line)
        THEN CHOOSE d \in Domains : Owes(d, line)
        ELSE NumDomains]

Sharing == INSTANCE CoherentSharing WITH
    Caches     <- Domains,
    NoOwner    <- NumDomains,
    holders    <- LineHolders,
    owner      <- LineOwner,
    memReads   <- (stats["local_reads"] + stats["remote_reads"]) % CounterMod,
    cacheReads <- stats["othercache_reads"],
    writebacks <- (stats["local_writes"] + stats["remote_writes"]) % CounterMod

\* Every access of MultiCacheSystem is a step of CoherentSharing: the MOESI
\* bookkeeping of processMOESI, setRemoteStates, checkWriteback and evictTraffic
\* adds up to single-writer sharing in which memory is never read while a cache
\* owes it the line, and every debt is paid by a counted write-back.
ImplementsSharing == Sharing!Spec
=============================================================================
