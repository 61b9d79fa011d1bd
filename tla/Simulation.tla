----------------------------- MODULE Simulation -----------------------------
(***************************************************************************)
(* The program (main.cpp): it reads a trace line by line and runs a        *)
(* SingleCacheSystem without a prefetcher on it, either ("pre") to measure *)
(* how well the lines of the cache compress, or ("trace") to write a       *)
(* smaller trace.  This is the composition of SingleCacheSystem, of the    *)
(* data and tables of Precompression and of the compressor of Bdi, by the  *)
(* loop of main.                                                           *)
(*                                                                         *)
(* The deque of a set is kept in two parts, tags and states in "cache",    *)
(* data in "contents"; both parts of memAccess are one step.  A line of    *)
(* the trace has a type, an address and data; an address is the number of  *)
(* its line, address 0 is apart.  Opening files, and parsing and printing, *)
(* are left out.                                                           *)
(***************************************************************************)
EXTENDS SingleCacheHistory

CONSTANTS
    LineBytes, DataType, BytesIgnored, SimThreshold, Entries,
    FrequencyThreshold, Options, TraceData(_), MaxFreq, MaxSame,
                              \* see FrequencyTable and Precompression
    Frequency,                \* frequency, the writes from update to update
    WindowStart, WindowEnd,   \* trace_accesses_start, trace_accesses_end
    MaxLines                  \* bound: the lines of a trace

\* What main's checks let through; a frequency of 0 divides by zero.
ASSUME SimulationAssumption ==
    /\ Frequency \in Nat \ {0}
    /\ WindowStart \in Nat /\ WindowEnd \in Nat /\ WindowStart < WindowEnd
    /\ MaxLines \in Nat

VARIABLES
    functionality,         \* option
    options, contents, infiniteFrequentLines, frequentLines,
    precompressionTable, mayUpdate, aborted,   \* see Precompression
    lines,                 \* lines
    writes,                \* writes
    updateDue,             \* the update of the table comes next
    traceInfo,             \* trace_info, without the data
    minTrace,              \* the number of lines written, by access type
    compressionStats,      \* compressionStats
    firstUpdate,           \* first_update
    sameEntries,           \* same_portion * Entries
    precompressionUpdates, \* precompression_updates
    skipped                \* history: the lines of the trace not simulated

dataVars == <<options, contents, infiniteFrequentLines, frequentLines,
              precompressionTable, mayUpdate, aborted>>
systemState == <<cache, virtToPhysMap, nextPage, seenLines, stats, recent,
                 written>>
output == <<traceInfo, minTrace, compressionStats>>
turnover == <<firstUpdate, sameEntries, precompressionUpdates>>
simulationVars == <<systemState, dataVars, functionality, lines, writes,
                    updateDue, output, turnover, skipped>>

Data == INSTANCE Precompression WITH cache <- contents
Compressor == INSTANCE Bdi

\* Every line of a trace has data.
ASSUME TraceAssumption ==
    /\ Data!FrequencyAssumption /\ Data!PrecompressionAssumption
    /\ \A o \in Options : TraceData(o) # {}

NoInfo == [type |-> "none"]
NoStats == [lines |-> 0]

SimulationInit ==
    /\ HistoryInit /\ Data!Init
    /\ functionality \in {"pre", "trace"}
    /\ lines = 0 /\ writes = 0 /\ updateDue = FALSE
    /\ traceInfo = NoInfo /\ minTrace = [t \in {"R", "W", "E"} |-> 0]
    /\ compressionStats = NoStats
    /\ firstUpdate = FALSE /\ sameEntries = 0 /\ precompressionUpdates = 0
    /\ skipped = 0

----------------------------------------------------------------------------
(* The statistics of the compression.                                      *)

\* The space that the data, or datax, of all lines takes.
Space(sets, field) ==
    MapThenSumSet(LAMBDA p : Compressor!bdi(sets[p[1]][p[2]][field]),
                  Data!Filled(sets))

\* Cache utilization is lines over the lines of the cache.  Way utilization is
\* ways over lines * assoc: it weighs a set with its lines.
CompressionStats(sets) ==
    [before |-> Space(sets, "data"),
     after  |-> Space(sets, "datax"),
     lines  |-> Cardinality(Data!Filled(sets)),
     ways   |-> MapThenSumSet(LAMBDA p : Len(sets[p[1]]), Data!Filled(sets))]

----------------------------------------------------------------------------
(* One line of the trace.                                                  *)

InWindow == WindowStart <= lines /\ lines <= WindowEnd

MayRead == ~aborted /\ ~updateDue /\ lines < MaxLines

\* Writes are counted before the line is looked at any further.
CountWrite(accessType) ==
    writes' = writes + (IF accessType = "Write" THEN 1 ELSE 0)

\* Mutant: a hit is a hit.
RecordTypeOfHits(line, accessType) ==
    CASE IsHit(line)                                     -> "I"
      [] ~IsHit(line) /\ checkWriteback(cache[SetOf(line)]) -> "E"
      [] OTHER -> IF accessType = "Write" THEN "W" ELSE "R"

\* Mutant: the type of a write stays when it writes a line back.
RecordTypeOfWrites(line, accessType) ==
    CASE IsHit(line) /\ accessType = "Read"              -> "I"
      [] accessType = "Write"                            -> "W"
      [] OTHER -> IF ~IsHit(line) /\ checkWriteback(cache[SetOf(line)])
                  THEN "E" ELSE "R"

\* The type in the trace record: "I" for a read hit, which is to be ignored, "E"
\* for an access of either type that writes a line back.
RecordType(line, accessType) ==
    CASE IsHit(line) /\ accessType = "Read"              -> "I"
      [] ~IsHit(line) /\ checkWriteback(cache[SetOf(line)]) -> "E"
      [] OTHER -> IF accessType = "Write" THEN "W" ELSE "R"

\* The way is looked up after insertLine or updateLRU.
getWay(set, tag) == FirstWay(cache'[set], tag) - 1

TraceInfo(line, accessType) ==
    [type |-> RecordType(line, accessType), set |-> SetOf(line),
     way |-> getWay(SetOf(line), TagOf(line)), tag |-> TagOf(line)]

\* Mutant: the number of writes before this line decides.
IsUpdateDueBefore == writes % Frequency = 0 /\ writes # 0

\* After every access while the number of writes is a multiple of frequency.
IsUpdateDue == writes' % Frequency = 0 /\ writes' # 0

\* "pre": the statistics, before the table is updated.
Measure ==
    /\ compressionStats' = IF aborted' THEN NoStats ELSE CompressionStats(contents')
    /\ updateDue' = (IsUpdateDue /\ ~aborted')
    /\ UNCHANGED minTrace

\* "trace": the line of the minimized trace.
Minimize ==
    /\ minTrace' = IF traceInfo'.type = "I" THEN minTrace
                   ELSE [minTrace EXCEPT ![traceInfo'.type] = (@ + 1) % CounterMod]
    /\ updateDue' = FALSE
    /\ UNCHANGED compressionStats

EndLine == lines' = IF updateDue' THEN lines ELSE lines + 1

Simulate(address, accessType, data) ==
    LET line == PhysLine(address)
    IN  /\ MayRead /\ InWindow
        /\ CountWrite(accessType)
        /\ memAccess(address, accessType)
        /\ Data!memAccess(SetOf(line), TagOf(line), data)
        /\ Remember(line, accessType)
        /\ traceInfo' = TraceInfo(line, accessType)
        /\ IF functionality = "pre" THEN Measure ELSE Minimize
        /\ EndLine
        /\ UNCHANGED <<functionality, turnover, skipped>>

\* Mutant: only simulated lines are counted.
SkipUncounted(accessType) ==
    /\ MayRead
    /\ CountWrite(accessType)
    /\ skipped' = skipped + 1
    /\ UNCHANGED <<systemState, dataVars, functionality, updateDue, output,
                   turnover, lines>>

\* A line outside of the window, or any line with address 0.
Skip(accessType) ==
    /\ MayRead
    /\ CountWrite(accessType)
    /\ lines' = lines + 1
    /\ skipped' = skipped + 1
    /\ UNCHANGED <<systemState, dataVars, functionality, updateDue, output,
                   turnover>>

\* Mutant: each old entry is compared with the new one in its place.
SameEntriesInPlace(old, new) ==
    Cardinality({i \in DOMAIN old \cap DOMAIN new : old[i] = new[i]})

\* (1 - changed_portion) * Entries
SameEntries(old, new) ==
    Cardinality({p \in (DOMAIN old) \X (DOMAIN new) : old[p[1]] = new[p[2]]})

\* The entries that updatePrecompressTable reports as unchanged.  With a third
\* value of infinite_freq it never touches changed_portion, which stays 0.
Unchanged(old, new) ==
    IF Data!ByFrequency /\ options.infiniteFreq = "other" THEN Entries
    ELSE SameEntries(old, new)

\* The first update replaces no entries and is left out of the average.
Precompress ==
    /\ updateDue /\ ~aborted
    /\ Data!updatePrecompressTable
    /\ updateDue' = FALSE
    /\ firstUpdate' = TRUE
    /\ IF firstUpdate
       THEN /\ sameEntries' = sameEntries
                 + Unchanged(precompressionTable, precompressionTable')
            /\ precompressionUpdates' = precompressionUpdates + 1
       ELSE UNCHANGED <<sameEntries, precompressionUpdates>>
    /\ lines' = lines + 1
    /\ UNCHANGED <<systemState, functionality, writes, output, skipped>>

\* The data of a line that is simulated.  Nothing that "trace" does depends on it
\* but the copy in the record, so there any data will do.
LineData ==
    IF functionality = "pre" THEN TraceData(options)
    ELSE {CHOOSE data \in TraceData(options) : TRUE}

SimulationNext ==
    \/ \E address \in Lines, accessType \in {"Read", "Write"},
          data \in LineData : Simulate(address, accessType, data)
    \/ \E accessType \in {"Read", "Write"} : Skip(accessType)
    \/ Precompress

SimulationSpec == SimulationInit /\ [][SimulationNext]_simulationVars

----------------------------------------------------------------------------
(* Properties.                                                             *)

\* Types.  The deques of cache and of contents are one deque: a line that stays,
\* moves or leaves does so with its data.
SimulationTypeOK ==
    /\ TypeOK /\ Data!TypeOK
    /\ functionality \in {"pre", "trace"} /\ updateDue \in BOOLEAN
    /\ lines \in 0 .. MaxLines /\ writes \in 0 .. MaxLines
    /\ skipped \in 0 .. lines
    /\ ~aborted =>
         \A s \in Sets :
            [i \in DOMAIN cache[s] |-> cache[s][i].tag]
              = [i \in DOMAIN contents[s] |-> contents[s][i].tag]

\* main prints "lines - sys.stats.hits" as "Misses" (main.cpp:605), where "Misses
\* = accesses - hits" (system.h:42): the printed number is that of the misses and
\* of the lines of the trace that were never simulated.
PrintedMissesCountSkipped ==
    ~updateDue /\ ~aborted =>
        (lines - stats["hits"]) % CounterMod
          = (stats["local_reads"] + skipped) % CounterMod

\* Every multiple of "frequency" writes has had its update of the table
\* (main.cpp:503), but for those that a skipped line took with it (main.cpp:463):
\* each skipped line takes one at most.  Reads repeat updates, so there may be
\* more.
UpdatesKeepUp ==
    functionality = "pre" /\ ~updateDue /\ ~aborted =>
        precompressionUpdates + (IF firstUpdate THEN 1 ELSE 0) + skipped
          >= writes \div Frequency

\* "Checking the percentage of precompression table entries that changed"
\* (cache.cpp:664): an update adds to the turnover the entries of the old table
\* that are in the new one, each once, wherever they are.  Under "frequency", that
\* is: clusters may have a centroid in common.
TurnoverCountsSurvivors ==
    [][Data!ByFrequency /\ options.infiniteFreq # "other"
         /\ firstUpdate /\ updateDue /\ ~updateDue' =>
         sameEntries' - sameEntries
           = Cardinality(Range(precompressionTable)
                           \cap Range(precompressionTable'))]_simulationVars

\* Under "frequency" with hit_update "n", a line that is mapped and whose data is
\* an entry of the table compresses to a byte of every 8-byte value at most,
\* whether it was mapped when it was filled or by an update since: only the last
\* byte of a group is not precompressed.  The infinite table may hold entries
\* that differ in ignored bytes, and then the line may be mapped to another one.
EntryCompressesWell ==
    /\ Data!ByFrequency /\ options.precompMethod = "xor"
    /\ options.hitUpdate = "n" /\ options.ignoreIBytes = "n" /\ DataType = 8
    /\ options.infiniteFreq = "y" => BytesIgnored <= 1
    => \A line \in Data!LinesOf(contents) :
          line.mapping > -1 /\ line.data \in Range(precompressionTable)
            => Compressor!bdi(line.datax) <= Compressor!Encoded(8, 1)

\* "In the minimized trace, we want all accesses except Read Hits"
\* (system.cpp:447).
TraceOmitsReadHits ==
    [][functionality = "trace" /\ Bumped("accesses") =>
         (minTrace' = minTrace <=> Bumped("hits") /\ writes' = writes)]_simulationVars

\* The records of type "E" of the minimized trace are the write-backs, and such a
\* record stands for the read or write that caused it too (system.cpp:486).
EvictionRecordsAreWriteBacks ==
    functionality = "trace" => minTrace["E"] = stats["local_writes"]
=============================================================================
