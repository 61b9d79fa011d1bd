------------------------- MODULE SingleCacheHistory -------------------------
(***************************************************************************)
(* SingleCacheSystem with two history variables, to say what the deque of  *)
(* a set and the Modified state stand for: the lines of each set in the    *)
(* order of their last access, and the lines written since their fill.     *)
(* They observe memAccess and never influence it; Simulation makes the     *)
(* accesses.                                                               *)
(***************************************************************************)
EXTENDS SingleCacheSystem

VARIABLES
    recent,      \* recent[s]: the lines of set s accessed so far, latest last
    written      \* the resident lines that an access of theirs wrote

historyVars == <<cache, virtToPhysMap, nextPage, seenLines, stats, recent,
                 written>>

HistoryInit ==
    /\ Init
    /\ recent = [s \in Sets |-> << >>]
    /\ written = {}

Remember(line, accessType) ==
    /\ recent' = [recent EXCEPT ![SetOf(line)] = Append(RemoveFirst(@, line), line)]
    /\ written' = {l \in written \cup (IF accessType = "Write" THEN {line}
                                       ELSE {}) : Resident(cache', l)}

\* "A complete LRU is mantained for each set, using the ordering of the set
\* deque" (cache.cpp:164): the deque is exactly the assoc most recently accessed
\* lines of its set, in that order, so an access hits if and only if fewer than
\* assoc other lines of the set were accessed since the line was.
DequeIsLru ==
    \A s \in Sets :
        LET depth == IF Len(recent[s]) < Assoc THEN Len(recent[s]) ELSE Assoc
        IN  [i \in DOMAIN cache[s] |-> s + cache[s][i].tag]
              = SubSeq(recent[s], Len(recent[s]) - depth + 1, Len(recent[s]))

\* The dirty lines are those that were written since they were filled: a line
\* read after its write stays dirty, and a line refilled after its write-back is
\* clean again.
DirtyIffWritten ==
    \A line \in Lines :
        StateOf(line) \in DirtyStates <=> line \in written

\* local_writes counts the evictions of written lines and nothing else.
WriteBackIffWritten ==
    [][(stats'["local_writes"] # stats["local_writes"])
         <=> \E line \in written : ~Resident(cache', line)]_historyVars
=============================================================================
