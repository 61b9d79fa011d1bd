--------------------------- MODULE Precompression ---------------------------
(***************************************************************************)
(* The data of the lines of one Cache: what insertLine, updateData and     *)
(* updatePrecompressTable do to the frequency table, the precompression    *)
(* table, and the data, datax and mapping fields of the resident lines.    *)
(*                                                                         *)
(* datax is data xored with the table entry that mapping names, to be      *)
(* compressed in place of data; mapping is -1 for a line without an entry. *)
(* A set is the same deque as in Cache, here without the state field.      *)
(* SingleCacheSystem finds a line resident if it is in the deque, as all   *)
(* its lines are valid.  The caches of a MultiCacheSystem share nothing of *)
(* this, and its precompress updates them one by one.                      *)
(*                                                                         *)
(* A trace is of bytes ("Reading 64 values (64 bytes)", main.cpp:470), and *)
(* so are the xors of two of them: the check that aborts when a value of   *)
(* datax is wider (cache.cpp:879, 897) never fires and is left out.  The   *)
(* share of changed entries that an update returns is a printed statistic  *)
(* and left out, and so is the file of frequent entries.                   *)
(***************************************************************************)
EXTENDS FrequencyTable, Cache

CONSTANTS
    Sets, Tags,      \* the sets of the cache and the tags of the lines
    Options,         \* the command lines under consideration
    TraceData(_),    \* the data in the trace that a command line is run on
    MaxFreq,         \* bound: freq of an entry
    MaxSame          \* bound: same_counter of an entry

\* What main's input checks let through.  The check of infinite_freq resets
\* ignore_i_bytes instead, so "other" stands for any third value.
OptionRecord ==
    {o \in [precompMethod : {"xor", "add"},
            updateMethod  : {"frequency", "kmeans"},
            infiniteFreq  : {"y", "n", "other"},
            hitUpdate     : {"y", "n"},
            ignoreIBytes  : {"y", "n"}] :
        o.infiniteFreq = "other" => o.ignoreIBytes = "n"}

ASSUME PrecompressionAssumption ==
    /\ IsFiniteSet(Sets)
    /\ Options \subseteq OptionRecord
    /\ \A o \in Options : TraceData(o) \subseteq Data
    /\ MaxFreq \in Nat \ {0} /\ MaxSame \in Nat \ {0}

VARIABLES
    options,               \* the options, fixed by the command line
    cache,                 \* cache[s]: set s
    infiniteFrequentLines, \* the infinite frequency table
    frequentLines,         \* the finite frequency table
    precompressionTable,   \* the precompression table
    mayUpdate,             \* memAccess returned, main has not read on
    aborted                \* the process has died

tables == <<infiniteFrequentLines, frequentLines>>
vars == <<options, cache, infiniteFrequentLines, frequentLines,
          precompressionTable, mayUpdate, aborted>>

DataLine == [tag : Tags, mapping : Nat \cup {-1}, data : Data, datax : Data]

TypeOK ==
    /\ options \in Options
    /\ cache \in [Sets -> Seq(DataLine)]
    /\ infiniteFrequentLines \in Seq(Entry)
    /\ frequentLines \in Seq(Data)
    /\ precompressionTable \in Seq(Data)
    /\ mayUpdate \in BOOLEAN /\ aborted \in BOOLEAN

Init ==
    /\ options \in Options
    /\ cache = [s \in Sets |-> << >>]
    /\ infiniteFrequentLines = << >> /\ frequentLines = << >>
    /\ precompressionTable = << >>
    /\ mayUpdate = FALSE /\ aborted = FALSE

Die == aborted' = TRUE /\ UNCHANGED <<options, cache, tables,
                                      precompressionTable, mayUpdate>>

ByFrequency == options.updateMethod = "frequency"

----------------------------------------------------------------------------
(* datax of one line.                                                      *)

\* The bytes that precompressDatax and precompressCache compute.  Without
\* ignore_i_bytes the last byte of every group is passed over: the branch that
\* computes it is the alternative of resetting the flag.
XorBytes ==
    CASE options.precompMethod # "xor" -> {}
      [] options.ignoreIBytes = "y"    -> Significant
      [] OTHER                         -> {j \in Positions : Weight(j) > 1}

\* The other bytes of datax stay as they are.
precompressDatax(line, table) ==
    [line EXCEPT !.datax =
        [j \in Positions |->
           IF j \in XorBytes
           THEN Xor(line.data[j], table[line.mapping + 1][j])
           ELSE line.datax[j]]]

\* A line without a mapping keeps its datax.
precompressCache(sets, table) ==
    [s \in Sets |->
       [i \in DOMAIN sets[s] |->
          IF sets[s][i].mapping > -1
          THEN precompressDatax(sets[s][i], table)
          ELSE sets[s][i]]]

PlainLine(tag, data) ==
    [tag |-> tag, mapping |-> -1, data |-> data, datax |-> data]

----------------------------------------------------------------------------
(* An access: memAccess with the data of the trace.                        *)

updateFrequencyTable(data) ==
    /\ \A i \in DOMAIN infiniteFrequentLines :
          infiniteFrequentLines[i].data = data
            => infiniteFrequentLines[i].freq < MaxFreq
    /\ infiniteFrequentLines' =
         IF ByFrequency /\ options.infiniteFreq = "y"
         THEN CountInfinite(infiniteFrequentLines, data)
         ELSE infiniteFrequentLines
    /\ frequentLines' =
         IF ByFrequency /\ options.infiniteFreq = "n"
         THEN CountFinite(frequentLines, data)
         ELSE frequentLines

Access(data) ==
    /\ ~aborted
    /\ mayUpdate' = TRUE
    /\ updateFrequencyTable(data)
    /\ UNCHANGED <<options, precompressionTable, aborted>>

\* Mutant: datax of a new line is left to the next update of the table.
NewLineLazy(tag, data) ==
    LET entry == findPrecompressionEntry(precompressionTable, data)
    IN  IF ByFrequency THEN [PlainLine(tag, data) EXCEPT !.mapping = entry]
        ELSE PlainLine(tag, data)

\* The line that insertLine pushes.
NewLine(tag, data) ==
    LET entry == findPrecompressionEntry(precompressionTable, data)
        line == [PlainLine(tag, data) EXCEPT !.mapping = entry]
    IN  IF ByFrequency /\ entry > -1
        THEN precompressDatax(line, precompressionTable)
        ELSE PlainLine(tag, data)

Miss(set, tag, data) ==
    /\ ~IsCached(cache[set], tag)
    /\ Access(data)
    /\ cache' = [cache EXCEPT ![set] =
                   Append(IF Len(@) = Assoc THEN Tail(@) ELSE @,
                          NewLine(tag, data))]

\* The back of a set that holds the tag, after updateLRU.
Replace(set, tag, line) ==
    cache' = [cache EXCEPT ![set] =
                ReplaceAt(updateLRU(@, tag), Len(@), line)]

\* Mutant: datax is left to the next update of the table.
HitResetMapping(set, tag, data) ==
    /\ options.hitUpdate = "n"
    /\ Access(data)
    /\ Replace(set, tag,
         [PlainLine(tag, data) EXCEPT
            !.datax = cache[set][FirstWay(cache[set], tag)].datax])

\* hit_update "n": the line loses its mapping until the next update.
HitReset(set, tag, data) ==
    /\ options.hitUpdate = "n"
    /\ Access(data)
    /\ Replace(set, tag, PlainLine(tag, data))

\* hit_update "y" under "frequency": precompressDatax gets the update method in
\* place of the precompression method, which is never "xor", so a line whose new
\* data is similar to an entry keeps its old mapping and its old datax.
HitFrequency(set, tag, line, data) ==
    /\ options.hitUpdate = "y" /\ ByFrequency
    /\ Access(data)
    /\ Replace(set, tag,
         IF findPrecompressionEntry(precompressionTable, data) > -1
         THEN [line EXCEPT !.data = data]
         ELSE PlainLine(tag, data))

\* hit_update "y" under "kmeans" xors every byte, whatever ignore_i_bytes says.
\* A line inserted after the last update has no mapping, and the table is read
\* at index -1: outside of the heap if there is no table yet, otherwise in
\* memory of unknown contents.
HitKmeans(set, tag, line, data) ==
    /\ options.hitUpdate = "y" /\ ~ByFrequency
    /\ \/ /\ options.precompMethod = "add"
          /\ Access(data) /\ Replace(set, tag, line)
       \/ /\ options.precompMethod = "xor" /\ line.mapping > -1
          /\ Access(data)
          /\ Replace(set, tag,
               [line EXCEPT !.data = data,
                            !.datax = [j \in Positions |->
                              Xor(data[j],
                                  precompressionTable[line.mapping + 1][j])]])
       \/ /\ options.precompMethod = "xor" /\ line.mapping = -1
          /\ precompressionTable # << >>
          /\ Access(data)
          /\ \E unknown \in Data :
               Replace(set, tag,
                 [line EXCEPT !.data = data, !.datax = unknown])
       \/ /\ options.precompMethod = "xor" /\ precompressionTable = << >>
          /\ ~aborted /\ Die

Hit(set, tag, data) ==
    /\ IsCached(cache[set], tag)
    /\ LET line == cache[set][FirstWay(cache[set], tag)]
       IN  \/ HitReset(set, tag, data)
           \/ HitFrequency(set, tag, line, data)
           \/ HitKmeans(set, tag, line, data)

----------------------------------------------------------------------------
(* updatePrecompressTable, which main may call after an access.            *)

\* Mutant: the resident lines keep their old mapping.
RemappedNever(sets, table) == sets

\* Every resident line looks for its entry in the new table.
Remapped(sets, table) ==
    [s \in Sets |->
       [i \in DOMAIN sets[s] |->
          [sets[s][i] EXCEPT !.mapping =
             findPrecompressionEntry(table, sets[s][i].data)]]]

\* The rest of an update, given the new table and the lines with new mappings.
Install(table, mapped) ==
    /\ precompressionTable' = table
    /\ cache' = precompressCache(mapped, table)
    /\ mayUpdate' = FALSE
    /\ UNCHANGED <<options, aborted>>

UpdateInfinite ==
    /\ ByFrequency /\ options.infiniteFreq = "y"
    /\ \A i \in DOMAIN infiniteFrequentLines :
          IsUnchanged(infiniteFrequentLines[i])
            => infiniteFrequentLines[i].sameCounter < MaxSame
    /\ \E sorted \in Sorted(infiniteFrequentLines) :
         LET kept == Decay(sorted)
             table == Leading([i \in DOMAIN kept |-> kept[i].data])
         IN  IF IsDuplicated(precompressionTable, table) THEN Die
             ELSE /\ infiniteFrequentLines' = kept
                  /\ UNCHANGED frequentLines
                  /\ Install(table, Remapped(cache, table))

UpdateFinite ==
    /\ ByFrequency /\ options.infiniteFreq = "n"
    /\ LET table == Leading(frequentLines)
       IN  IF IsDuplicated(precompressionTable, table) THEN Die
           ELSE /\ UNCHANGED tables
                /\ Install(table, Remapped(cache, table))

\* With a third value of infinite_freq no table is ever filled.
UpdateNeither ==
    /\ ByFrequency /\ options.infiniteFreq = "other"
    /\ UNCHANGED tables
    /\ Install(precompressionTable, Remapped(cache, precompressionTable))

\* The pairs of a set and a way of it that is filled.
Filled(sets) == {p \in Sets \X (1 .. Assoc) : p[2] <= Len(sets[p[1]])}

\* The clustering is an external library: some centroids, as many as there are
\* entries or lines, of any data, and a label for every line.
UpdateKmeans ==
    /\ ~ByFrequency
    /\ LET lines == Cardinality(Filled(cache))
           clusters == Min({Entries, lines})
       IN  \E table \in [1 .. clusters -> Data],
              labels \in [Sets -> [1 .. Assoc -> 0 .. clusters - 1]] :
             IF IsDuplicated(precompressionTable, table) THEN Die
             ELSE /\ UNCHANGED tables
                  /\ Install(table,
                       [s \in Sets |->
                          [i \in DOMAIN cache[s] |->
                             [cache[s][i] EXCEPT !.mapping = labels[s][i]]]])

updatePrecompressTable ==
    /\ mayUpdate /\ ~aborted
    /\ UpdateInfinite \/ UpdateFinite \/ UpdateNeither \/ UpdateKmeans

memAccess(set, tag, data) == Hit(set, tag, data) \/ Miss(set, tag, data)

Next ==
    \/ \E set \in Sets, tag \in Tags, data \in TraceData(options) :
         memAccess(set, tag, data)
    \/ updatePrecompressTable

Spec == Init /\ [][Next]_vars

----------------------------------------------------------------------------
(* Properties.                                                             *)

LinesOf(c) == UNION {Range(c[s]) : s \in Sets}

\* The update method "frequency" runs no unhandled case: "Entry from old
\* precompression table is exactly the same to more than new entries" (the abort
\* in updatePrecompressTable) is impossible, since the frequency tables never
\* hold the same data twice.
FrequencyNeverAborts == ByFrequency => ~aborted

\* Under "frequency" with hit_update "n", a mapped line is mapped to the entry
\* that is the most similar to the data it holds now, in the table as it is now.
MappingIsMostSimilar ==
    ByFrequency /\ options.hitUpdate = "n" =>
        \A line \in LinesOf(cache) :
            line.mapping > -1 =>
                line.mapping = findPrecompressionEntry(precompressionTable,
                                                       line.data)

IsPrecompressed(line) ==
    \A j \in XorBytes :
        line.datax[j] = Xor(line.data[j], precompressionTable[line.mapping + 1][j])

\* Except under "frequency" with hit_update "y", a mapped line's datax is its
\* data now, precompressed with its entry now.
MappedDataxIsCurrent ==
    (ByFrequency => options.hitUpdate = "n") =>
        \A line \in LinesOf(cache) : line.mapping > -1 => IsPrecompressed(line)

IsStale(line) == line.mapping = -1 /\ line.datax # line.data

\* With hit_update "n", only an update makes a line stale, one that takes the
\* line's entry away and leaves datax as it was (cache.cpp:876); an access to the
\* line puts an end to it.
StaleOnlyAfterUpdates ==
    [][options.hitUpdate = "n" /\ ~(mayUpdate /\ ~mayUpdate') =>
         {line \in LinesOf(cache') : IsStale(line)}
           \subseteq {line \in LinesOf(cache) : IsStale(line)}]_vars

\* hit_update decides "Whether to update the precompressed data on a cache write
\* hit" (main.cpp:287): with "y" the datax of a mapped line is always current.
HitUpdatesDatax ==
    options.hitUpdate = "y" =>
        \A line \in LinesOf(cache) : line.mapping > -1 => IsPrecompressed(line)

\* "Fill Precompression table with the most frequent cache lines"
\* (cache.cpp:655):
\* no data that the frequency table keeps is more frequent than data that an
\* update puts in the precompression table.
TableHoldsMostFrequent ==
    [][ByFrequency /\ options.infiniteFreq = "y" /\ mayUpdate /\ ~mayUpdate' =>
         \A a, b \in Range(infiniteFrequentLines') :
            a.data \in Range(precompressionTable')
              /\ b.data \notin Range(precompressionTable')
            => a.freq >= b.freq]_vars
=============================================================================
