--------------------------- MODULE FrequencyTable ---------------------------
(***************************************************************************)
(* The frequency tables of a Cache (cache.h, cache.cpp) and the comparison *)
(* of the data of two lines: what the entries of the precompression table  *)
(* are chosen from, and how a line finds its entry there.                  *)
(*                                                                         *)
(* The infinite table counts how often each data was accessed; entries are *)
(* erased only when a table update finds them stagnant for too long.  The  *)
(* finite table is a queue of at most "entries" recently accessed data.    *)
(*                                                                         *)
(* Data is a sequence of bytes, in groups of data_type bytes.  Bytes are   *)
(* compared and xored and nothing else, so one bit stands for a byte.      *)
(***************************************************************************)
EXTENDS Integers, Sequences, FiniteSets, SequencesExt, FiniteSetsExt

CONSTANTS
    LineBytes,           \* the bytes of a line (the code: 64)
    DataType,            \* data_type, the bytes of a group
    BytesIgnored,        \* bytes_ignored, the last bytes of each group
    SimThreshold,        \* sim_threshold
    Entries,             \* entries, the size of the precompression table
    FrequencyThreshold   \* frequency_threshold

\* What main lets through: "64 % data_type", "bytes_ignored > data_type" and the
\* rounding of entries to a power of two.  A negative frequency_threshold passes.
ASSUME FrequencyAssumption ==
    /\ LineBytes \in Nat \ {0} /\ DataType \in Nat \ {0}
    /\ LineBytes % DataType = 0
    /\ BytesIgnored \in 0 .. DataType
    /\ SimThreshold \in Int
    /\ Entries \in Nat \ {0}
    /\ FrequencyThreshold \in Int

Positions == 1 .. LineBytes

Data == [Positions -> {0, 1}]

\* A bit stands for a byte.
Xor(a, b) == (a + b) % 2

\* A group's bytes weigh data_type, ..., 1; the code counts a flag down from
\* data_type to 1 over and over.
Weight(j) == DataType - ((j - 1) % DataType)

\* The bytes that take part in comparisons.
Significant == {j \in Positions : Weight(j) > BytesIgnored}

----------------------------------------------------------------------------
(* The infinite table, a sequence of entries with distinct data.           *)

Entry == [data : Data, freq : Nat, freqComp : Nat, sameCounter : Nat]

\* Mutant: the search for the data finds nothing.
CountInfiniteAppend(table, data) ==
    Append(table, [data |-> data, freq |-> 1, freqComp |-> 0,
                   sameCounter |-> 0])

\* Every entry with the data is incremented.  The branch that decrements an
\* entry has no caller: its only call, in insertLine, is commented out.
CountInfinite(table, data) ==
    IF \E i \in DOMAIN table : table[i].data = data
    THEN [i \in DOMAIN table |->
            IF table[i].data = data
            THEN [table[i] EXCEPT !.freq = @ + 1]
            ELSE table[i]]
    ELSE Append(table, [data |-> data, freq |-> 1, freqComp |-> 0,
                        sameCounter |-> 0])

\* Mutant: the table keeps its order.
SortedNever(table) == {table}

\* std::sort with the most frequent entry first; it is not stable, so entries of
\* the same frequency may end up in any order.
Sorted(table) ==
    {t \in {[i \in DOMAIN table |-> table[p[i]]] :
              p \in Bijection(DOMAIN table, DOMAIN table)} :
        \A i, j \in DOMAIN t : i < j => t[i].freq >= t[j].freq}

IsUnchanged(entry) == entry.freq = entry.freqComp

\* One table update passes over the entry.
Age(entry) ==
    IF IsUnchanged(entry) THEN [entry EXCEPT !.sameCounter = @ + 1]
    ELSE [entry EXCEPT !.freqComp = entry.freq, !.sameCounter = 0]

\* Mutant: one update too early.
IsStagnantEarly(entry) ==
    IsUnchanged(entry) /\ Age(entry).sameCounter >= FrequencyThreshold

IsStagnant(entry) ==
    IsUnchanged(entry) /\ Age(entry).sameCounter > FrequencyThreshold

\* The loop runs from the back and erases a stagnant entry as long as the table,
\* with the entries behind it erased already, is larger than "entries".
Erased(table) ==
    {i \in DOMAIN table :
        /\ IsStagnant(table[i])
        /\ Cardinality({k \in DOMAIN table : k > i /\ IsStagnant(table[k])})
             < Len(table) - Entries}

\* The elements of a set of numbers in increasing order.
InOrder(set) ==
    CHOOSE k \in [1 .. Cardinality(set) -> set] :
        \A i, j \in DOMAIN k : i < j => k[i] < k[j]

Decay(table) ==
    LET kept == InOrder(DOMAIN table \ Erased(table))
    IN  [i \in DOMAIN kept |-> Age(table[kept[i]])]

----------------------------------------------------------------------------
(* The finite table, a sequence of data.                                   *)

IsSimilar(a, b) == \A j \in Significant : a[j] = b[j]

\* Mutant: data that is there already keeps its place.
CountFiniteFifo(lines, data) ==
    IF \E i \in DOMAIN lines : IsSimilar(lines[i], data) THEN lines
    ELSE Append(IF Len(lines) >= Entries THEN Tail(lines) ELSE lines, data)

\* Similar data is moved to the back, by a loop that erases and pushes while it
\* runs over the indices; the size stays the same, so the loop visits each index
\* once.  Only data that is similar to no entry takes the place of the front one.
CountFinite(lines, data) ==
    LET Visit(scan, i) ==
            IF IsSimilar(scan.lines[i], data)
            THEN [lines |-> Append(RemoveAt(scan.lines, i), data),
                  found |-> TRUE]
            ELSE scan
        after == FoldLeftDomain(Visit, [lines |-> lines, found |-> FALSE],
                                lines)
    IN  IF after.found THEN after.lines
        ELSE Append(IF Len(lines) >= Entries THEN Tail(lines) ELSE lines, data)

----------------------------------------------------------------------------
(* The precompression table, a sequence of data.                           *)

\* The first "entries" ones.
Leading(lines) == SubSeq(lines, 1, Min({Entries, Len(lines)}))

Similarity(entry, data) ==
    MapThenSumSet(Weight, {j \in Significant : entry[j] = data[j]})

\* The index, from 0, of the first of the most similar entries, or -1.
findPrecompressionEntry(table, data) ==
    LET best == Max({Similarity(table[i], data) : i \in DOMAIN table})
    IN  IF table = << >> \/ best = 0 \/ best < SimThreshold THEN -1
        ELSE Min({i \in DOMAIN table : Similarity(table[i], data) = best}) - 1

\* The comparison that "changed_portion" is computed from aborts when an old
\* entry equals two new ones.
IsDuplicated(old, new) ==
    \E i \in DOMAIN old : Cardinality({k \in DOMAIN new : new[k] = old[i]}) > 1
=============================================================================
