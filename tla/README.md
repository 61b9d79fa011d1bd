# MultiCacheSim: specifications, model checking and proofs

MultiCacheSim is a trace-driven cache simulator. This directory holds TLA+
modules that model its core, TLC configurations that check them on small
instances, and TLAPS proofs of their main properties for every instance.
`PROJECT.json` lists components, runs, mutants, the map from definitions to
source lines, findings, hazards and theorems.

Contents: 1 the system, 2 the modules, 3 the abstractions, 4 the runs,
5 findings, 6 the proofs, 7 what is not modelled, 8 the plan.

## 1. The system

| component | source | state | operations |
|---|---|---|---|
| Cache sets | `cache.cpp:125-247`, `cache.h` | `sets`: one deque of lines per set, front = least recently used | `findTag`, `changeState`, `updateLRU`, `checkWriteback`, `insertLine`, `getWay` |
| System base | `system.cpp:33-76`, `system.h:40-89` | masks, `seenLines`, `virtToPhysMap`, `nextPage`, `stats` | `virtToPhys`, `checkCompulsory` |
| MultiCacheSystem | `system.cpp:78-394` | `caches`, `pageToDomain`, `tidToDomain` | `memAccess`, `checkRemoteStates`, `setRemoteStates`, `processMOESI`, `evictTraffic`, `isLocal`, `updatePageToDomain` |
| SingleCacheSystem | `system.cpp:396-522` | `cache` | `memAccess` |
| Prefetchers | `prefetch.cpp`, `prefetch.h` | `lastMiss`, `lastPrefetch` | `prefetchMiss`, `prefetchHit` of `AdjPrefetch` and `SeqPrefetch` |
| Frequency table | `cache.cpp:321-437` | `infiniteFrequentLines`, `frequentLines` | `updateFrequencyTable` |
| Precompression | `cache.cpp:250-307, 440-975` | `precompressionTable`, `mapping` and `datax` of the lines | `updateData`, `updatePrecompressTable`, `precompressDatax`, `precompressCache`, `findPrecompressionEntry` |
| Compression | `compression.cpp` | none | `bdi` |
| Trace driver | `main.cpp` | options, `lines`, `writes`, `trace_info`, `first_update`, `same_portion` | option checks, the trace loop, the minimized trace |
| Outputs | `cache.cpp:977-1072`, `main.cpp:540-614` | none | `compressionStats`, `snapshot`, printing |

Interaction. The driver reads one access after another and calls
`System::memAccess`, which resolves it completely: it translates the address,
looks up the cache of the thread's domain, changes that cache and, in a
MultiCacheSystem, the others, and counts the traffic. If there is a prefetcher
it then calls `prefetchHit` or `prefetchMiss`, which calls `memAccess` back for
every line it wants, possibly recursively. After an access the driver either
compresses every resident line with `bdi`, as it is and precompressed, and asks
the system to rebuild the precompression table when the number of writes says
so, or it writes a line of a minimized trace.

The program is sequential. What interleaves are the *accesses of the threads*,
in the order of the trace, and the *calls* of the recursion between `memAccess`
and the prefetcher. Nothing is persisted and there are no messages, time-outs or
retries. What is hard is therefore:

* the coherence protocol under any order of reads, writes and evictions;
* information used long after it was stored: LRU order, dirty states, page homes;
* the re-entrance of `memAccess` through the prefetcher, and its termination;
* two implementations of `memAccess` that must agree;
* statistics that are counted on many branches and printed as one sum;
* tables that are rebuilt under the resident lines, whose `mapping` and `datax`
  refer to them, and that are erased from while a loop runs over them.

What makes each component correct:

* Cache sets: no duplicate, no Invalid line, at most `assoc` lines; the deque is
  the LRU order; a line is dirty exactly if written since its fill.
* System: translation is injective; counters add up.
* MultiCacheSystem: MOESI compatibility; memory is read only when up to date;
  dirty data leaves only through a write-back; homes are known and fixed.
* SingleCacheSystem: the same as a MultiCacheSystem of one cache.
* Prefetchers: every access returns; prefetches do not nest; they do not
  disturb caches or statistics.
* Frequency table: the finite one is the most recently accessed data, the
  counters of the infinite one tell idle entries from accessed ones.
* Precompression: the table holds the most frequent data; a mapped line is mapped
  to the most similar entry of the current table, and its `datax` is its current
  data xored with that entry.
* Compression: the size is the least that any base and encoding allow.
* Trace driver: the table is updated as often as the writes demand; the minimized
  trace lacks the read hits only; what is printed and recorded is what the
  comments say.

## 2. The modules

| module | models | extends |
|---|---|---|
| `Cache` | one set of one cache, as operators on sequences | |
| `System` | address parts, page table, compulsory misses, statistics | |
| `MultiCacheSystem` | `MultiCacheSystem::memAccess` without a prefetcher | `System`, `Cache` |
| `SingleCacheSystem` | `SingleCacheSystem::memAccess` without a prefetcher | `System`, `Cache` |
| `SingleCacheHistory` | the latter with two history variables | `SingleCacheSystem` |
| `Simulation` | `main`: the trace loop, over a SingleCacheSystem, its data and tables, and the compressor | `SingleCacheHistory`; instances of `Precompression` and `Bdi` |
| `Bdi` | `bdi`, and what it is to return | |
| `AddressMasks` | the masks of an address, with `Bitwise` | |
| `Calculations` | one call of a function of the two, or of the check of the similarity threshold, to compare with definitions that do not follow the code | `Bdi`, `AddressMasks` |
| `Prefetch` | both prefetchers and the stack of the calls under way | `System` |
| `MultiPrefetching`, `SinglePrefetching` | a system composed with a prefetcher | the system, `Prefetch` |
| `CoherentSharing` | abstract: who holds a line, who owes it to memory | |
| `MultiCacheSharing` | the refinement of `CoherentSharing` | `MultiCacheSystem` |
| `SingleIsMulti` | the refinement of `SingleCacheSystem` for one domain | `MultiCacheSystem` |
| `FrequencyTable` | both frequency tables and the similarity of data, as operators on sequences | |
| `Precompression` | the data, `datax` and `mapping` of the lines of one cache, and its tables | `FrequencyTable`, `Cache` |
| `PrecompressionHistory` | the latter with two history variables | `Precompression` |
| `MC*` | thread assignments, data, lines and command lines for TLC | |
| `CacheTheorems`, `SystemTheorems` | lemmas about the operators | `Cache`, `System` |
| `MultiCacheSystemProofs` | the invariant and its theorems, the two refinements | `MultiCacheSharing`, `SingleIsMulti` and both |
| `SingleCacheSystemProofs` | the same for the single cache, without refinements | `SingleCacheSystem` and both |
| `PrefetchingProofs` | the single cache with a prefetcher | `SinglePrefetching`, `SingleCacheSystemProofs` |
| `SimulationProofs` | LRU order, dirty lines, what the driver counts, and the tables and the compression of the program | `Simulation`, `SingleCacheSystemProofs`; an instance of `PrecompressionProofs` |
| `PrecompressionProofs` | the tables and the lines that refer to them | `PrecompressionHistory`, `CacheTheorems` |
| `BdiTheorems` | `bdi` returns the least size | `Bdi` |

How state and actions correspond to the code:

* `caches[d][s]` (`cache[s]`) is the deque of set `s`: a sequence of
  `[tag, state]`, front first. The operators of `Cache` carry the names of the
  methods.
* `memAccess(address, accessType, tid)` is one action: translation, the
  compulsory count, then `Hit` or `Miss`, each with every change the branch
  makes. `checkRemoteStates`, `NewState`, `RemoteCaches` and `SourceOf` are the
  result and the three effects of the remote search and `processMOESI`.
* `stats` is a function from the counter names; `Count(names)` increments the
  named ones modulo `CounterMod` (2^64 in the code).
* `pageToDomain` is extended by `Homed`, the one effect of both
  `updatePageToDomain` and the `operator[]` of `evictTraffic`.
* In `Simulation` the deque of a set is kept in two parts, tags and states in
  `cache`, data in `contents`: `Simulate` is one line of the trace, with both
  parts of `memAccess`, the trace record, the statistics and the counters;
  `Skip` is a line outside of the window or with address 0; `Precompress`
  is the update that an access made due, and comes before the next line.
  `SimulationTypeOK` says that the two parts stay one deque.
* With a prefetcher an access takes several steps. `calls` is the stack of the
  calls that have not returned. `Demand` is an access of the trace, enabled when
  the stack is empty; `Execute` is everything the program does before it returns.
* In `Precompression` an access is `Hit` (`updateLRU` and `updateData`, by option
  `HitReset`, `HitFrequency` or `HitKmeans`) or `Miss` (`insertLine`), each with
  the frequency table's update. `updatePrecompressTable` is one action: sort,
  erase, rebuild, remap the lines, recompute `datax`. `mayUpdate` says that it
  comes at most once after an access; at which accesses is left open here and
  decided by the driver's trigger in `Simulation`. `options` is the command line, chosen by
  `Init`. `Die` is the end of the process, by `abort` or a wild read.

Each module with mutants says so: a *mutant* is the definition that follows it
with a plausible bug. No specification uses it. Put in the place of the
definition it makes TLC report the property that `PROJECT.json` names, which
shows that the property depends on that code.

## 3. Abstractions and bounds

* An address is its line number. The bits within a line are masked off by every
  use. The masks select `% NumSets` and `\div LinesPerPage` only for powers of
  two, hence `MaskAssumption`.
* The data of lines decides neither residence nor state: the system modules
  leave it out, and `Precompression` leaves the states out. `Simulation` composes
  the two.
* In "trace" mode nothing but the record's copy depends on the data of a line:
  there `Simulation` takes one data for all (`LineData`).
* `Bdi` is about lines of integers, as the code is; `Simulation` gives it lines of
  bits, as it only asks which bytes differ and which are 0.
* `AddressMasks` has addresses of 6 bits (64 in the code) and an unsigned int of 5
  bits (32), and geometries that the other modules exclude. They use `%` and `\div`,
  which `MasksAreRemainders` shows to be the same as the masks for powers of two,
  if the bytes of a way fit in an unsigned int: the mask of the set is shifted as
  one (`system.cpp:46`). In a larger cache sets stay unused, but lines are
  still told apart.
* Data is a short sequence of bits, a bit for a byte: bytes are only compared and
  xored. The counters of the frequency table are bounded by `MaxFreq` and
  `MaxSame` in the guards. `std::sort` is not stable: entries of one frequency
  come in any order. k-means may return any labels and, as centroids, any data at
  all, of lines of the trace or not.
* The data of a trace are bytes: main reads them as ints (`main.cpp:470`) and never
  checks them. The aborts of `precompressDatax` on a `datax` outside of +-255
  (`cache.cpp:879, 897`) are left out, as they take data that are not bytes.
* `NumPages`, `LinesPerPage`, `NumSets`, `Assoc`, `NumDomains` and `Threads` are
  small in the runs. `CounterMod` is 1 where a run asks nothing of the
  statistics, else 2 or 3. Modulo 2 an increment is still visible, and
  the wrap is exercised.
* The address space is finite; the line after the last one is line 0, as the
  64-bit addition wraps. Page tables have as many physical as virtual pages: the
  code counts up and never runs out within 2^52.
* `Read`, `Write` from any thread to any address at any time: nothing is assumed
  of the trace. (`main` skips address 0 only.)
* main admits only the update methods `kmeans` and `frequency`
  (`main.cpp:328-330`); `insertLine` pushes the line under both, and `Cache`
  models that. The tests' thread ids are taken within the bounds of `tidToDomain`.

Why the instances are large enough: a set of two ways has a hit in the middle, a
full and a half-full state; three caches are the least in which an owner, a
sharer that hides it and a requester differ; two sets show the mixing of sets
and tags; four sets are the least in which `SeqPrefetch` starts a stream and its
three prefetches stay apart. In Simulation four lines of trace, any of which may
be skipped, are two updates of a table of two entries, which an update may
keep, drop or put in the other place, a line that is evicted and one that stays;
three lines compete for two ways; data of four 8-byte values
admits different encodings before and after precompression. In Calculations the
lines of 64 bytes are built of fourteen words that are zero, near zero, near each
other, or near as numbers and not as bytes.

## 4. The runs

Passing runs:

| run | instance | checks |
|---|---|---|
| MultiCoherence | 3 caches, 1 set x 1 way, 2 lines | `Coherence`, `StatsBalance`, `MemoryReadsAreFresh`, `ImplementsSharing` |
| MultiHomes | 2 caches, 3 threads, 1 set x 2 ways, 2 pages x 2 lines, translation | `TypeOK`, `SetsWellKept`, `HomesKnown`, `TranslationInjective`, `HomesNeverMove` |
| MultiIsSingle | 1 cache, 2 sets, translation, compulsory | `ImplementsSingle` |
| Simulation | 1 set x 2 ways, 3 pages x 1 line, translation, compulsory; 4 lines of trace; table of 2 entries, update every 2 writes, lines of 32 bytes, 1 to 3 data, 3 command lines, both functionalities | `SimulationTypeOK`, `DequeIsLru`, `DirtyIffWritten`, `CompulsoryIsMiss`, `WriteBackIffWritten`, `PrintedMissesCountSkipped`, `UpdatesKeepUp`, `TurnoverCountsSurvivors`, `EntryCompressesWell`, `TraceOmitsReadHits`, `EvictionRecordsAreWriteBacks` |
| Calculations | 8232 lines of 64 bytes; 6-bit addresses, 5-bit unsigned int, line sizes 4 and 8, 1 to 5 and 8 sets; every data type | `BdiIsSmallest`, `BdiNeverTooSmall`, `LinesToldApart`, `MasksAreRemainders`, `ThresholdIsReached` |
| Precompression | 1 set x 1 way, 2 tags, table of 2, lines of 4 bytes, 2 to 4 data, 7 command lines, counters to 3 and 2 | `FrequencyNeverAborts`, `MappingIsMostSimilar`, `MappedDataxIsCurrent`, `FrequentLinesAreRecent`, `TableHoldsMostFrequent`, `ErasedOnlyIfIdle`, `StaleOnlyAfterUpdates` |
| SingleSequential | 4 sets, 8 lines, `SeqPrefetch` | `SetsWellKept`, `StatsBalance`, `PrefetchesDoNotNest`, `EveryAccessReturns`, `PrefetchesCountWriteBacksOnly` |

What they show. MultiCoherence: whatever the order in which three caches read,
write and evict a line, its copies are compatible, memory supplies it only when
up to date, no written data is lost, every access is counted once, and all of it
is one refinement of single-writer sharing (`CoherentSharing`). MultiHomes: with
sets that hold several lines and addresses that are translated on first use,
deques, page table and home map stay in order together. MultiIsSingle: the two
implementations of `memAccess` agree.

SingleSequential: the recursion through the prefetcher ends. A prefetch counts
nothing but the write-back it causes (`PrefetchesCountWriteBacksOnly`, which says
how far `system.h:39` is true: of all counters the write-backs alone are excepted).

Simulation: the deque is the order of the last accesses, Modified means written
since the fill, and the counters follow. The tags and the data of a set, which
two modules keep, move and leave together. Every multiple of `frequency` writes
has its update, but that a skipped line may take one with it (`UpdatesKeepUp`).
Whatever fills, hits, evictions and updates came in between, a line whose data is
in the table compresses to nearly nothing (`EntryCompressesWell`: `bdi` of
`datax`, across three modules). With two bytes compared of eight the run exercises
it for the finite table; for the infinite one, which needs seven, it is a
theorem (section 6). The turnover counts the entries that survive an update,
those that move to the other place included (`TurnoverCountsSurvivors`).
The minimized trace lacks the read hits only, its records of type E are the
write-backs. The "Misses"
printed at the end are the misses and the lines never simulated.

Calculations: `bdi` tries one base per encoding and stops at the first encoding
that fits, and still finds the least size that any base allows; its bytewise
deltas are sound for the numbers that the bytes stand for. For any number of
sets, power of two or not, and even if the mask of the set overflows, the masks
tell lines apart and index within the cache.

Precompression: three data and a table of two make an update erase an entry and
replace the table under a resident line; two similar data make the finite table
move an entry that is not equal; the command lines take every branch on an
option. The frequency tables hold what they stand for, and what a mapped line
says of the table is true after every access and update. An update erases idle
entries only, and leaves enough of them to fill the table (`ErasedOnlyIfIdle`). With
hit_update "n" a line goes stale (no mapping, `datax` not its data) at updates only. That no index leaves
the table needs no property: TLC would report the application.

Deadlock is checked in the runs of the systems: an access is always possible. The
runs of `Precompression` do not check it: the process may die under kmeans, and
the bounds of the counters end the rest. Nor do Simulation, where the trace
ends, and Calculations, where the function returns.

Fairness. The prefetching specifications assume `WF(Execute)`: the program runs
on until `memAccess` returns. That is all a sequential program needs and gets.
Nothing is assumed of `Demand`: the trace may end at any time.
`EveryAccessReturns` is `[]<>(calls = << >>)`.

## 5. Findings

Five runs are expected to end in a violation. Each checks one statement of a
comment or message of the sources against what the code does.

1. MultiAdjacent: `AdjPrefetch` in a MultiCacheSystem may recurse without end.
   A prefetch that misses calls `prefetchMiss` (`system.cpp:318`), which
   prefetches the next line (against `prefetch.h:54`).
2. MultiLinesExistOnce: a missed prefetch inserts a line in state Invalid
   (`system.cpp:314`, against `cache.cpp:147`); it looks absent and is inserted
   a second time (against `cache.h:50`).
3. PrecompHitUpdate: with hit_update "y" a hit updates the data of a mapped line
   and leaves its `datax` (`cache.cpp:293` passes the update method where the
   precompression method is expected; against `main.cpp:287`). The mapping stays
   too, even if another entry is now the most similar.
4. MultiSequential: a miss of the trace never reaches `SeqPrefetch` in a
   MultiCacheSystem, which therefore neither prefetches nor remembers the line
   (`system.cpp:318`, whose guard is the inverse of the one of SingleCacheSystem
   and causes findings 1 and 2 as well; against `prefetch.cpp:35`).
5. SingleStreams: a hit on the very line at which a stream of `SeqPrefetch` stands
   does not continue it, unless that line is in set 0: `prefetchHit` masks the
   address with the shift count instead of the set mask (`prefetch.cpp:74`,
   against `prefetch.h:39`).

Modelled as the code does it, and not the subject of a run:

* A negative frequency threshold, announced as "no reset" (`main.cpp:362`), erases
  entries at the first update that finds them unchanged (`cache.cpp:576`).
* Write-backs caused by prefetches are counted (`system.cpp:464`, against
  `system.h:39`), and nothing else (`PrefetchesCountWriteBacksOnly`).
* The printed "Misses" contain the lines that were never simulated
  (`main.cpp:605`, against `system.h:42`; `PrintedMissesCountSkipped`).
* The maximum of the similarity threshold does not take the ignored bytes off
  (`main.cpp:354`, `ThresholdIsReached`): a threshold that no line reaches, not
  even with itself, is let through, and then no line is mapped.
* The way in a trace record is looked up after the line was moved to the back
  (`system.cpp:479`): it is the number of lines of the set less one, wherever the
  line was.
* An unknown infinite_freq is not rejected (`main.cpp:336` changes ignore_i_bytes
  instead): updates then touch no table and report no change (`Unchanged`).
* With translation, a prefetch is translated twice (`system.cpp:482`).
* A line that loses its mapping at an update keeps the `datax` of the old entry
  (`cache.cpp:876`).
* Without ignore_i_bytes the last byte of every group is never precompressed
  (`cache.cpp:852`).
* Under kmeans with hit_update "y" the first hit before the first update reads
  outside of the table (`cache.cpp:268`).

`CompulsoryIsMiss` holds in Simulation, which has no prefetcher. With one it
does not: the first access to a prefetched line is a hit and is counted as a
compulsory miss (`system.cpp:424`, against `system.h:48`).

## 6. The proofs

Everything is proved of the unbounded modules, from the assumptions on the
constants alone (`AssocAssumption`, `SystemAssumption`, `MultiAssumption`,
`FrequencyAssumption`, `PrecompressionAssumption`, `SimulationAssumption`,
`TraceAssumption`, `PrefetcherAssumption`, `LineBytesAssumption`; the masks'
assumption is not needed). `TraceAssumption` gives the tables of `Simulation` what
the first two of them ask, and every command line some data to trace. A theorem that needs
more says so: `SingleImplemented` is about one cache, `WriteBacksAreWritten` and
`TraceAlwaysOmitsReadHits` about counters of more than one value, as a change of a
counter that has only one is not visible.

Every property of the passing runs but those named at the end of this section is
a theorem.

`CacheTheorems`: what `changeState`, `updateLRU` and `insertLine` do to the
state that `findTag` reports for every tag, given a set without duplicates, and
that they leave none. Each is about deques as sequences; from there on
no proof mentions an index.

`SystemTheorems`: a line splits into set, tag, page and offset and back;
`PageTableOK` (injective, in range, `nextPage` is the number of mapped pages) is
kept by `virtToPhys`, and under it translated lines stay in the address space.

`MultiCacheSystemProofs`: `Inv` is inductive (theorem `Invariance`).

* `Coherence` alone is not inductive. After `checkRemoteStates` the protocol
  acts on what `findTag` reports; a duplicate would survive an invalidation.
  So `SetsWellKept` is needed, and it needs the type of the deques.
* The type of `caches` needs translated addresses in range, hence
  `PageTableOK`, whose counting of pages is the pigeonhole argument.
* `HomesKnown` needs `ResidentLinesOK`: the set and tag of a resident line make
  up a line of the address space, whose page has a home.

`HitStates` and `MissStates` give the state of every line in every cache after a
step; `RemoteLookup` shows that under coherence the search finds the only
supplier. From these follow preservation of `Coherence` (case by case on the
accessed line), `HomesKnown`, `HomesNeverMove` and `MemoryReadsAreFresh`.

`SingleCacheSystemProofs`: the invariant is that of the single cache (types,
well-kept sets, page table) with `ResidentSeen`: when compulsory misses are
counted, every resident line is in `seenLines`. From it follows that a compulsory
access misses; no step of the cache can be reasoned about alone.

`StatsBalance`, for both systems, is modular arithmetic: a step adds one to
`accesses` and to exactly one of the parts, and `CountedOnce` (in `SystemTheorems`)
says that the equation of the remainders survives, wherever either counter wraps.

`BdiTheorems`: `BdiReturnsSmallest` is what `BdiIsSmallest` checks, for every line
of integers of 32 bytes or more. The argument is that the values that need a base
either all share their leading bytes, and then the first of them will do, or no
base will (`FirstBaseIsEnough`), and that the order of the tests is the order of the
sizes (`OrderOfSizes`).

The refinements, in the same module: every step of MultiCacheSystem is a step of
`CoherentSharing` or none (`SharingImplemented`). The mapping of
`MultiCacheSharing` reads the deques; `MappingOK` says the same in terms of
`findTag`: a cache holds the lines it finds, and the owner of a line is the cache
that finds it dirty. That there is one such cache is `Coherence`, so the refinement
rests on `Invariance`. An access that evicts is one step on two lines, the
accessed and the evicted one, and the proof treats them apart. With
one cache the remote search finds nothing and every page is at home (`HomeMapOK`),
so MultiCacheSystem does to its cache and its statistics what SingleCacheSystem
does (`SingleImplemented`).

`PrefetchingProofs`: in a SingleCacheSystem a prefetch calls no prefetcher, so the
stack is at most a call of the prefetcher and the `memAccess` of one prefetch
(`CallsOK`, `PrefetchesNeverNest`). The lemmas about the cache ask nothing of the type
of an access, and a prefetch counts none of the numbers that balance
(`PrefetchCounts`); so the guarantees of the system without a prefetcher, except
`CompulsoryIsMiss`, hold with one (`PrefetchingInvariance` and the two theorems after
it). `Remaining` is a variant: it is at
most eight, and each step of the program within an access lowers it
(`PrefetchesRunOut`). That the steps are taken is fairness, and `EveryAccessReturns`
stays with TLC.

`SimulationProofs`: `SimulationInv` is inductive; it is that of SingleCacheSystem and

* `LruOK`: the deque of a set is the end of the sequence of all its lines in the
  order of their last access, in which no line is twice (`IsLru`). `DequeIsLru`
  says it of the lines, and a hit in the middle or a fill of a full set keeps it only
  because the order moves the same line;
* `WrittenOK`: with each line Modified exactly if written since its fill, hence
  `WriteBackIffWritten`, as the line at the front is what `insertLine` evicts;
* `OutputOK`, `MainOK`, `UpdatesOK`: the records of type E against
  `local_writes`, the lines simulated against `accesses`, the updates against the
  multiples of `frequency`. An update that is due makes up for the last write, and a
  skipped line for the multiple it reaches, so `UpdatesKeepUp` is inductive only with
  `updateDue` in it. With `StatsBalance`
  they give `PrintedMissesCountSkipped`, wherever the counters wrap.

`SimulatesTheSystem` says that the program is SingleCacheSystem, so that
`CompulsoryIsMiss` carries over. `SimulatesTheTables` says that it is
`Precompression` as well: the table operations are parts of its steps, on data that
the trace supplies. So no trace makes it abort under frequency (`ProgramsNeverAbort`).

The two halves meet in `ProgramInv`, whose part `SameDeques` says that the tags of a set in
`cache` and in `contents` are the same sequence. Both halves test for the line's
tag, so they take the same branch (hit or miss) only while that holds, and it
holds afterwards because both move, push and pop at the same index:
`SimulationTypeCorrect`.

What the invariants of the tables (`TablesInvariance`, `EntriesInvariance`) say of the program:

* `EntriesAlwaysCompressWell`. A mapped line is mapped to the first of the entries
  most similar to its data. If its data is an entry itself, that similarity is the
  greatest there is (the lemmas about sums of weights), so the entry it is mapped to
  agrees with it in every byte that is not ignored. Entries of the finite table that
  are similar are equal (`TableInv`); those of the infinite one need not be. After
  the xor only the last byte of each value is left, which `bdi` takes in its
  first base-delta encoding. The proof found two hypotheses that the property
  lacked: precompression is by xor, and with the infinite table at most one byte of a
  value is ignored, the one that is not precompressed anyway.
* `TurnoverAlwaysCountsSurvivors`. The code counts pairs of equal entries of the old
  and the new table; as neither has an entry twice (`TableInv`), these are the
  entries in both. k-means may find two clusters with one centroid, and
  then the pairs are more: the property is about frequency only.

`PrecompressionProofs`: `DataInv` is inductive (`DataInvariant`), for all four
parts together.

* The tables are built by folds, which are recursive functions, and the library's
  induction theorems take predicates. Here sets stand for predicates
  (`SetOfNaturals`, `SetOfSubsets`), and the lemmas about the folds that the tables
  need are proved from them: the scans of the tables, `Decay`, the removals.
* `FrequencyInv`: no data has two entries, the finite table holds no two similar
  data, at most `Entries` of them. Hence an update has nothing to
  abort on (`FrequencyIsSafe`), and the new table has no data twice.
* `LinesInv`: each line refers into the current table (`GoodLine`): its mapping is what
  `findPrecompressionEntry` returns for its data, its `datax` is its data xored with
  that entry. An update replaces the table under all lines and remaps all of them;
  a fill and a hit touch one line. Each property carries the condition on
  hit_update that finding 3 shows to be necessary.
* `TablesHoldMostFrequent`: sorting orders the entries, `Decay` erases while it
  counts and keeps the order, so the first `Entries` that remain are the most
  frequent.
* `FiniteTableIsRecent` needs `RecentInv`: the recent data are dissimilar to each other
  and the finite table is a suffix of them. `ErasedEntriesWereIdle` needs
  `IdleInv`: the idle time of an entry's data is at least `same_counter` and one.
  That enough entries are left is `DecayLeavesEnough`: `Decay` erases only while
  more entries remain than the table takes. Both are of `HistorySpec`; `HistoryObserves` says that the history variables only
  observe.

Only model-checked:

* `EveryAccessReturns`: the prover handles neither ENABLED nor fairness. Its
  other half, the variant, is `PrefetchesRunOut`.
* `MasksAreRemainders` and `LinesToldApart`: they use `Bitwise`, which the prover does
  not handle.
* `BdiNeverTooSmall`: the numbers that bytes stand for are folds over a radix.
* `ThresholdIsReached`: it ranges over the finitely many data types of the run.
* `BdiIsSmallest` as a property of a run of `Calculations`, a module that reaches
  `Bitwise`; what it says of `bdi` is `BdiReturnsSmallest`.

## 7. Not modelled

* `MultiCacheSystem::precompress` applies the update of `Precompression` to each
  cache in turn; the program runs a SingleCacheSystem, and no module composes it
  with several caches. Its trace record, which main does not use, is left out.
* The k-means clustering of `updatePrecompressTable` is floating point; only its
  effect, some choice of centroids and labels, is modelled (`UpdateKmeans`).
* `snapshot` changes no state. Files, their names and their formats are input and
  output, as are the sums and averages that main prints at the end: `Simulation`
  keeps what they are made of.
* The rounding of the number of entries to a power of two. A frequency, data type
  or number of entries that is not positive: main divides by it or computes with
  it.
* The tests call an earlier signature of `memAccess`; they are read for the
  geometries and options the authors meant.

## 8. Plan

What is left:

1. `MultiCacheSystem::precompress`: a composition of MultiCacheSystem with one
   `Precompression` per cache, if main ever simulates one.
2. `BdiNeverTooSmall` for every line, from a theory of numbers in a radix.
3. A MultiCacheSystem with a prefetcher, once findings 1, 2 and 4 are settled in the code:
   `SetsWellKept` and the variant of `PrefetchingProofs` are what it should satisfy.
