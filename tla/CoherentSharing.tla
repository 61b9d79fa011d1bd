-------------------------- MODULE CoherentSharing --------------------------
(***************************************************************************)
(* What a group of coherent write-back caches promises, without sets, tags,*)
(* replacement policy, MOESI states or NUMA domains.                       *)
(*                                                                         *)
(* A line is held by any number of caches.  Once written it has an owner,  *)
(* the one cache that must write it back before memory is up to date.      *)
(* Readers join the holders, a writer is left as the only one.  A miss     *)
(* takes the line from memory or from a holder, and may cost the cache one *)
(* line it holds.  MultiCacheSystem implements this specification          *)
(* (MultiCacheSharing.tla).                                                *)
(***************************************************************************)
EXTENDS Naturals, FiniteSets

CONSTANTS Caches, Lines, NoOwner, CounterMod

VARIABLES
    holders,      \* holders[l]: the caches with a copy of line l
    owner,        \* owner[l]: the cache that owes memory line l, or NoOwner
    memReads, cacheReads, writebacks   \* traffic, counted modulo CounterMod

vars == <<holders, owner, memReads, cacheReads, writebacks>>
traffic == <<memReads, cacheReads, writebacks>>

Init ==
    /\ holders = [l \in Lines |-> {}]
    /\ owner = [l \in Lines |-> NoOwner]
    /\ memReads = 0 /\ cacheReads = 0 /\ writebacks = 0

Incremented(counter) == (counter + 1) % CounterMod

\* Memory is a source only if no cache owes it the line.
FromMemory(l) ==
    /\ owner[l] = NoOwner
    /\ memReads' = Incremented(memReads) /\ UNCHANGED cacheReads

FromCache(l) ==
    /\ holders[l] # {}
    /\ cacheReads' = Incremented(cacheReads) /\ UNCHANGED memReads

\* The lines that cache c gives up to make room: none, or one it holds.
Victims(c) == {{}} \cup {{v} : v \in {l \in Lines : c \in holders[l]}}

HoldersWithout(c, V) ==
    [l \in Lines |-> IF l \in V THEN holders[l] \ {c} ELSE holders[l]]

Owed(c, V) == {v \in V : owner[v] = c}

OwnerWithout(c, V) ==
    [l \in Lines |-> IF l \in Owed(c, V) THEN NoOwner ELSE owner[l]]

WriteBack(c, V) ==
    writebacks' = IF Owed(c, V) # {} THEN Incremented(writebacks)
                  ELSE writebacks

ReadHit(c, l) == c \in holders[l] /\ UNCHANGED vars

WriteHit(c, l) ==
    /\ c \in holders[l]
    /\ holders' = [holders EXCEPT ![l] = {c}]
    /\ owner' = [owner EXCEPT ![l] = c]
    /\ UNCHANGED traffic

ReadMiss(c, l, V) ==
    /\ WriteBack(c, V)
    /\ holders' = [HoldersWithout(c, V) EXCEPT ![l] = @ \cup {c}]
    /\ owner' = OwnerWithout(c, V)

WriteMiss(c, l, V) ==
    /\ WriteBack(c, V)
    /\ holders' = [HoldersWithout(c, V) EXCEPT ![l] = {c}]
    /\ owner' = [OwnerWithout(c, V) EXCEPT ![l] = c]

Next ==
    \E c \in Caches, l \in Lines :
        \/ ReadHit(c, l) \/ WriteHit(c, l)
        \/ /\ c \notin holders[l]
           /\ FromMemory(l) \/ FromCache(l)
           /\ \E V \in Victims(c) : ReadMiss(c, l, V) \/ WriteMiss(c, l, V)

Spec == Init /\ [][Next]_vars
=============================================================================
