----------------------- MODULE PrecompressionHistory -----------------------
(***************************************************************************)
(* Precompression with two history variables, to say what the finite table *)
(* and the counters of the infinite one stand for: the data in the order   *)
(* of their last access, and for each data the number of table updates     *)
(* since its last access.  They observe the steps and never influence them.*)
(***************************************************************************)
EXTENDS Precompression

VARIABLES
    recent,      \* pairwise dissimilar data, the last accessed one at the end
    idle         \* idle[b]: the updates since data b was last accessed

historyVars == <<options, cache, infiniteFrequentLines, frequentLines,
                 precompressionTable, mayUpdate, aborted, recent, idle>>

HistoryInit ==
    /\ Init
    /\ recent = << >>
    /\ idle = [b \in TraceData(options) |-> 0]

ObserveAccess(data) ==
    /\ recent' = IF ByFrequency /\ options.infiniteFreq = "n"
                 THEN Append(RemoveFirstMatch(recent,
                                              LAMBDA d : IsSimilar(d, data)),
                             data)
                 ELSE recent
    /\ idle' = [idle EXCEPT ![data] = 0]

\* Only data with a frequency entry is observed.
ObserveUpdate ==
    /\ recent' = recent
    /\ idle' = [b \in TraceData(options) |->
                  IF \E entry \in Range(infiniteFrequentLines) : entry.data = b
                  THEN idle[b] + 1
                  ELSE 0]

HistoryNext ==
    \/ \E set \in Sets, tag \in Tags, data \in TraceData(options) :
         memAccess(set, tag, data) /\ ObserveAccess(data)
    \/ updatePrecompressTable /\ ObserveUpdate

HistorySpec == HistoryInit /\ [][HistoryNext]_historyVars

\* The finite table is the "entries" most recently accessed data, in that order
\* and up to the ignored bytes, although its update erases from the deque and
\* pushes to it while it runs over its indices.
FrequentLinesAreRecent ==
    LET depth == IF Len(recent) < Entries THEN Len(recent) ELSE Entries
    IN  frequentLines
          = SubSeq(recent, Len(recent) - depth + 1, Len(recent))

\* An entry is erased only by an update, only when it was idle for more than
\* frequency_threshold updates after the one that noted its frequency, and the
\* entries of a whole precompression table are left.
ErasedOnlyIfIdle ==
    [][\A entry \in Range(infiniteFrequentLines) :
          \/ \E after \in Range(infiniteFrequentLines') : after.data = entry.data
          \/ /\ mayUpdate /\ ~mayUpdate'
             /\ idle[entry.data] > FrequencyThreshold
             /\ Len(infiniteFrequentLines') >= Entries]_historyVars
=============================================================================
