-------------------------- MODULE MultiCacheSystem --------------------------
(***************************************************************************)
(* The class MultiCacheSystem (system.h, system.cpp): one cache per NUMA   *)
(* domain, kept coherent by the MOESI protocol, and the statistics of the  *)
(* memory and cache-to-cache traffic.                                      *)
(*                                                                         *)
(* The simulator is sequential: memAccess resolves one access of one       *)
(* thread and returns, so an access is one step; the interleaving of the   *)
(* threads is the order of the accesses.  A domain runs the accesses of    *)
(* every thread that tidToDomain maps to it.  Spec is the system without a *)
(* prefetcher; MultiPrefetching adds one.                                  *)
(***************************************************************************)
EXTENDS System, Cache

CONSTANTS
    NumDomains,      \* num_domains, the number of caches
    Threads,         \* the thread ids
    TidToDomain      \* tidToDomain

Domains == 0 .. NumDomains - 1

ASSUME MultiAssumption ==
    /\ NumDomains \in Nat \ {0}
    /\ TidToDomain \in [Threads -> Domains]

VARIABLES
    caches,          \* caches[d][s]: set s of the cache of domain d
    pageToDomain     \* physical page |-> the NUMA domain of its memory

vars == <<caches, pageToDomain, virtToPhysMap, nextPage, seenLines, stats>>

CacheLine == [tag : Tags, state : CacheState]

TypeOK ==
    /\ SystemTypeOK
    /\ caches \in [Domains -> [Sets -> Seq(CacheLine)]]
    /\ DOMAIN pageToDomain \subseteq Pages
    /\ \A p \in DOMAIN pageToDomain : pageToDomain[p] \in Domains

Init ==
    /\ SystemInit
    /\ caches = [d \in Domains |-> [s \in Sets |-> << >>]]
    /\ pageToDomain = << >>

----------------------------------------------------------------------------
(* The private helpers of memAccess, as functions of the state they read.  *)

StateIn(d, set, tag) == findTag(caches[d][set], tag)

Others(local) == Domains \ {local}

\* The other caches that hold the line in a state that ends the search.
Suppliers(set, tag, local) ==
    {i \in Others(local) :
        StateIn(i, set, tag) \in {"Owned", "Exclusive", "Modified"}}

Sharers(set, tag, local) ==
    {i \in Others(local) : StateIn(i, set, tag) = "Shared"}

\* Mutant: the search ends at the first copy, be it Shared.
checkRemoteStatesFirst(set, tag, local) ==
    LET copies == Suppliers(set, tag, local) \cup Sharers(set, tag, local)
        remote == IF copies = {} THEN 0 ELSE Min(copies)
    IN  [state |-> IF copies = {} THEN "Invalid" ELSE StateIn(remote, set, tag),
         remote |-> remote]

\* The search returns the first supplier, else the last sharer, else cache 0.
checkRemoteStates(set, tag, local) ==
    IF Suppliers(set, tag, local) # {}
    THEN LET remote == Min(Suppliers(set, tag, local))
         IN [state |-> StateIn(remote, set, tag), remote |-> remote]
    ELSE IF Sharers(set, tag, local) # {}
    THEN [state |-> "Shared", remote |-> Max(Sharers(set, tag, local))]
    ELSE [state |-> "Invalid", remote |-> 0]

SetState(d, set, tag, state) ==
    [caches EXCEPT ![d][set] = changeState(@, tag, state)]

setRemoteStates(set, tag, state, local) ==
    [d \in Domains |->
        IF d = local THEN caches[d]
        ELSE [caches[d] EXCEPT ![set] = changeState(@, tag, state)]]

\* Mutant: last touch.
HomedLastTouch(homes, page, domain) ==
    [p \in DOMAIN homes \cup {page} |-> IF p = page THEN domain ELSE homes[p]]

\* Mutant: a new home replaces the map instead of extending it.
HomedAlone(homes, page, domain) ==
    IF page \in DOMAIN homes THEN homes ELSE [p \in {page} |-> domain]

\* First touch: the page of an access is homed in the domain that touches it.
\* The lookup of the page of an evicted line goes through operator[], which
\* homes a page that has none in domain 0.
Homed(homes, page, domain) ==
    IF page \in DOMAIN homes THEN homes
    ELSE [p \in DOMAIN homes \cup {page} |->
            IF p = page THEN domain ELSE homes[p]]

updatePageToDomain(line, local) == Homed(pageToDomain, PageOf(line), local)

evictTraffic(homes, line, local) ==
    IF Homed(homes, PageOf(line), 0)[PageOf(line)] = local
    THEN "local_writes" ELSE "remote_writes"

\* Mutant: a line no other cache holds arrives Shared.
NewStateShared(remoteState, accessType) ==
    IF accessType = "Write" THEN "Modified" ELSE "Shared"

\* processMOESI: the state of the new line.  No branch of it is for a prefetch.
NewState(remoteState, accessType) ==
    CASE accessType = "Write"                              -> "Modified"
      [] accessType = "Read" /\ remoteState = "Invalid"    -> "Exclusive"
      [] accessType = "Read" /\ remoteState # "Invalid"    -> "Shared"
      [] accessType = "Prefetch"                           -> "Invalid"

\* Mutant: a write miss leaves the Shared copies alone.
RemoteCachesStillShared(remoteState, accessType, set, tag, local, remote) ==
    CASE accessType = "Write" /\ remoteState \notin {"Invalid", "Shared"} ->
           setRemoteStates(set, tag, "Invalid", local)
      [] accessType = "Read" /\ remoteState \in {"Modified", "Owned"} ->
           SetState(remote, set, tag, "Owned")
      [] accessType = "Read" /\ remoteState = "Exclusive" ->
           SetState(remote, set, tag, "Shared")
      [] OTHER -> caches

\* processMOESI: the caches after the other copies of the line were changed.
RemoteCaches(remoteState, accessType, set, tag, local, remote) ==
    CASE accessType = "Write" /\ remoteState # "Invalid" ->
           setRemoteStates(set, tag, "Invalid", local)
      [] accessType = "Read" /\ remoteState \in {"Modified", "Owned"} ->
           SetState(remote, set, tag, "Owned")
      [] accessType = "Read" /\ remoteState = "Exclusive" ->
           SetState(remote, set, tag, "Shared")
      [] OTHER -> caches

\* Mutant: a line that an owner supplies is not counted.
SourceOfNotOwned(remoteState, accessType, isLocal) ==
    CASE remoteState = "Invalid" \/ (remoteState = "Shared" /\ accessType = "Read") ->
           IF isLocal THEN {"local_reads"} ELSE {"remote_reads"}
      [] remoteState = "Owned" -> {}
      [] OTHER -> {"othercache_reads"}

\* processMOESI: where the line is read from.  Prefetches are not counted.
SourceOf(remoteState, accessType, isLocal) ==
    IF accessType = "Prefetch" THEN {}
    ELSE IF \/ remoteState = "Invalid"
            \/ remoteState = "Shared" /\ accessType = "Read"
    THEN IF isLocal THEN {"local_reads"} ELSE {"remote_reads"}
    ELSE {"othercache_reads"}

----------------------------------------------------------------------------
(* memAccess, up to the call of the prefetcher.  "line" is translated.     *)

IsHit(line, local) == StateIn(local, SetOf(line), TagOf(line)) # "Invalid"

\* Mutant: a write hit leaves the other copies alone.
CachesAfterHitSilent(set, tag, accessType, local) ==
    [caches EXCEPT ![local][set] =
       updateLRU(IF accessType = "Write" THEN changeState(@, tag, "Modified")
                 ELSE @, tag)]

\* A write takes the line away from every other cache.
CachesAfterHit(set, tag, accessType, local) ==
    LET written == IF accessType = "Write"
                   THEN [setRemoteStates(set, tag, "Invalid", local)
                           EXCEPT ![local][set] =
                             changeState(@, tag, "Modified")]
                   ELSE caches
    IN  [written EXCEPT ![local][set] = updateLRU(@, tag)]

CachesAfterMiss(set, tag, accessType, local) ==
    LET there == checkRemoteStates(set, tag, local)
    IN  [RemoteCaches(there.state, accessType, set, tag, local, there.remote)
           EXCEPT ![local][set] =
             insertLine(@, tag, NewState(there.state, accessType))]

Hit(line, accessType, local) ==
    /\ IsHit(line, local)
    /\ caches' = CachesAfterHit(SetOf(line), TagOf(line), accessType, local)
    /\ pageToDomain' = updatePageToDomain(line, local)
    /\ Count(AccessStats(line, accessType)
               \cup (IF accessType = "Prefetch" THEN {} ELSE {"hits"}))

Miss(line, accessType, local) ==
    LET victims == caches[local][SetOf(line)]
        writeback == checkWriteback(victims)
        evicted == SetOf(line) + Head(victims).tag
        homes == updatePageToDomain(line, local)
    IN  /\ ~IsHit(line, local)
        /\ caches' = CachesAfterMiss(SetOf(line), TagOf(line), accessType, local)
        /\ pageToDomain' = IF writeback THEN Homed(homes, PageOf(evicted), 0)
                           ELSE homes
        /\ Count(AccessStats(line, accessType)
                   \cup (IF writeback THEN {evictTraffic(homes, evicted, local)}
                         ELSE {})
                   \cup SourceOf(checkRemoteStates(SetOf(line), TagOf(line),
                                                  local).state,
                                 accessType, homes[PageOf(line)] = local))

memAccess(address, accessType, tid) ==
    LET line == PhysLine(address)
        local == TidToDomain[tid]
    IN  /\ virtToPhys(address)
        /\ checkCompulsory(line, accessType)
        /\ \/ Hit(line, accessType, local)
           \/ Miss(line, accessType, local)

Next ==
    \E address \in Lines, accessType \in {"Read", "Write"}, tid \in Threads :
        memAccess(address, accessType, tid)

Spec == Init /\ [][Next]_vars

----------------------------------------------------------------------------
(* Properties.                                                             *)

\* What Cache promises of each set ("Line should not already exist in cache",
\* "The cache only saves lines that are not Invalid", and at most assoc lines):
\* findTag, changeState and updateLRU stop at the first line with the tag, so a
\* second one, or one left in state Invalid, would escape an invalidation.
SetsWellKept ==
    \A d \in Domains, s \in Sets :
        /\ Len(caches[d][s]) <= Assoc
        /\ UniqueTags(caches[d][s])
        /\ NoInvalidLine(caches[d][s])

\* MOESI compatibility of the copies of one line in two caches: a Modified or
\* Exclusive copy is the only one, and beside an Owned copy all are Shared.
\* It is what processMOESI and the write hit must keep between them, whatever
\* the order in which the domains read, write and evict the line.
Compatible(mine, theirs) ==
    /\ mine \in {"Modified", "Exclusive"} => theirs = "Invalid"
    /\ mine = "Owned" => theirs \in {"Shared", "Invalid"}

Coherence ==
    \A s \in Sets, t \in Tags : \A d \in Domains : \A e \in Others(d) :
        Compatible(StateIn(d, s, t), StateIn(e, s, t))

\* The home of every resident line is known, as the DEBUG assertions of
\* evictTraffic and isLocal demand (system.cpp:136-139, 153-156): the write-back
\* of a line, long after its fill and from any cache, never has to make up a
\* home for it.
HomesKnown ==
    \A d \in Domains, s \in Sets : \A i \in DOMAIN caches[d][s] :
        PageOf(s + caches[d][s][i].tag) \in DOMAIN pageToDomain

\* First touch: the home of a page, once chosen, never changes, although every
\* access and every eviction consults and may extend the map.
HomesNeverMove ==
    [][\A p \in DOMAIN pageToDomain :
          p \in DOMAIN pageToDomain' /\ pageToDomain'[p] = pageToDomain[p]]_vars

\* Every access is accounted for exactly once: it is a hit, or its line is read
\* from local memory, from remote memory or from another cache ("Misses =
\* accesses - hits", system.h:42).  The equation survives the wrap of the
\* counters.
StatsBalance ==
    (stats["hits"] + stats["local_reads"] + stats["remote_reads"]
       + stats["othercache_reads"]) % CounterMod = stats["accesses"]

Bumped(n) == stats'[n] # stats[n]

\* Memory supplies a line only while it is up to date: a fill that is counted as
\* a read of memory starts from a state in which no cache holds the line dirty.
\* The source is chosen from the remote states alone, so this depends on the
\* whole history of the line (owned copies, evicted owners, shared leftovers).
Filled(d, s, t) == StateIn(d, s, t) = "Invalid" /\ StateIn(d, s, t)' # "Invalid"

MemoryReadsAreFresh ==
    [][Bumped("local_reads") \/ Bumped("remote_reads") =>
         \A d, e \in Domains, s \in Sets, t \in Tags :
            Filled(d, s, t) => StateIn(e, s, t) \notin DirtyStates]_vars
=============================================================================
