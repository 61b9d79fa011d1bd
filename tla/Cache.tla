------------------------------- MODULE Cache -------------------------------
(***************************************************************************)
(* The class Cache (cache.h, cache.cpp): what each operation does to one   *)
(* set of one cache.                                                       *)
(*                                                                         *)
(* A set is a std::deque<CacheLine>.  Its front is the least recently used *)
(* line, its back the most recently used one.  Here it is a sequence of    *)
(* [tag, state] records.  The data, datax and mapping fields of a line     *)
(* decide nothing about which lines are resident and in which state, and   *)
(* are left out of this module.                                            *)
(*                                                                         *)
(* Every operation looks for the FIRST line of the deque with the tag; the *)
(* operators do the same, so they are also right for a deque in which a    *)
(* tag occurs twice (it must not, but see MultiPrefetching).               *)
(*                                                                         *)
(* Here and in the other modules a definition introduced as a mutant is    *)
(* the next definition with a plausible bug.  No specification uses it; it *)
(* is put in the place of the definition to see that a property notices.   *)
(***************************************************************************)
EXTENDS Naturals, Sequences, SequencesExt

CONSTANT
    \* maxSetSize, the number of lines a set may hold
    Assoc

ASSUME AssocAssumption == Assoc \in Nat \ {0}

CacheState == {"Modified", "Owned", "Exclusive", "Shared", "Invalid"}

\* The states whose line differs from memory: it is written back on eviction.
DirtyStates == {"Modified", "Owned"}

IsCached(set, tag) == \E i \in DOMAIN set : set[i].tag = tag

\* The index of the first line with the tag, counted from 1.
FirstWay(set, tag) == Min({i \in DOMAIN set : set[i].tag = tag})

\* "Invalid" and "not found" are equivalent to the callers.
findTag(set, tag) ==
    IF IsCached(set, tag) THEN set[FirstWay(set, tag)].state ELSE "Invalid"

\* Invalid lines are deleted rather than saved.
changeState(set, tag, state) ==
    IF ~IsCached(set, tag) THEN set
    ELSE IF state = "Invalid" THEN RemoveAt(set, FirstWay(set, tag))
    ELSE [set EXCEPT ![FirstWay(set, tag)].state = state]

\* Mutant: the order of the deque is that of the fills.
updateLRUFifo(set, tag) == set

\* Moves the line to the back.  Precondition: IsCached(set, tag).
updateLRU(set, tag) ==
    LET way == FirstWay(set, tag) IN Append(RemoveAt(set, way), set[way])

\* Mutant: clean lines are written back too.
checkWritebackAny(set) == Len(set) >= Assoc

\* Must the line that the next insertion pops be written back?
checkWriteback(set) == Len(set) >= Assoc /\ Head(set).state \in DirtyStates

\* Mutant: off by one, a full set takes one more line.
insertLineOverfull(set, tag, state) ==
    Append(IF Len(set) > Assoc THEN Tail(set) ELSE set,
           [tag |-> tag, state |-> state])

\* Precondition: ~IsCached(set, tag).  The code pushes the line under the update
\* methods "kmeans" and "frequency" only; main admits no other.
insertLine(set, tag, state) ==
    Append(IF Len(set) = Assoc THEN Tail(set) ELSE set,
           [tag |-> tag, state |-> state])

----------------------------------------------------------------------------
(* What a well-kept set is: the predicates the invariants are made of.     *)

UniqueTags(set) ==
    \A i, j \in DOMAIN set : set[i].tag = set[j].tag => i = j

NoInvalidLine(set) == \A i \in DOMAIN set : set[i].state # "Invalid"
=============================================================================
