---------------------- MODULE SingleCacheSystemProofs ----------------------
(***************************************************************************)
(* What SingleCacheSystem guarantees for every number of sets, ways and    *)
(* pages, and wherever its counters wrap: type correctness, well-kept      *)
(* sets, no aliases, hits and memory reads that add up to the accesses,    *)
(* and compulsory accesses that miss.                                      *)
(*                                                                         *)
(* The last one is not about the state alone: it rests on ResidentSeen,    *)
(* which ties the cache to the set of lines seen, and that in turn on      *)
(* findTag telling resident lines from absent ones, hence on well-kept     *)
(* sets.  Inv is the conjunction of all that is needed.                    *)
(***************************************************************************)
EXTENDS SingleCacheSystem, SystemTheorems, CacheTheorems

WellKept(set) ==
    /\ set \in Seq(LinesOver(Tags)) /\ Len(set) <= Assoc
    /\ UniqueTags(set) /\ NoInvalidLine(set)

CacheOK ==
    /\ cache \in [Sets -> Seq(CacheLine)]
    /\ SetsWellKept

\* With compulsory misses counted, every resident line was seen.
ResidentSeen ==
    CountCompulsory =>
        \A s \in Sets, t \in Tags : IsCached(cache[s], t) => s + t \in seenLines

Inv ==
    /\ PageTableOK /\ StatsOK /\ seenLines \subseteq Lines
    /\ CacheOK
    /\ ResidentSeen
    /\ StatsBalance

----------------------------------------------------------------------------
(* The cache.                                                              *)

LEMMA CacheOKMeans ==
    CacheOK <=> /\ cache \in [Sets -> Seq(CacheLine)]
                /\ \A s \in Sets : WellKept(cache[s])
BY DEF CacheOK, SetsWellKept, WellKept, CacheLine, LinesOver

\* A hit leaves a well-kept set of the same lines.
LEMMA HitKeepsSet ==
    ASSUME NEW set, WellKept(set), NEW tag, IsCached(set, tag), NEW accessType
    PROVE  LET after == updateLRU(IF accessType = "Write"
                                  THEN changeState(set, tag, "Modified")
                                  ELSE set, tag)
           IN  WellKept(after) /\ \A t : IsCached(after, t) <=> IsCached(set, t)
PROOF
<1> DEFINE written == IF accessType = "Write"
                      THEN changeState(set, tag, "Modified") ELSE set
           after == updateLRU(written, tag)
<1>1. /\ written \in Seq(LinesOver(Tags)) /\ Len(written) <= Len(set)
      /\ UniqueTags(written) /\ NoInvalidLine(written)
      /\ \A t : findTag(written, t) =
            IF accessType = "Write" /\ t = tag THEN "Modified" ELSE findTag(set, t)
  <2>1. Len(set) \in Nat
    BY LenProperties DEF WellKept
  <2>2. CASE accessType = "Write"
    BY <2>2, ChangeStateProperties DEF WellKept, CacheState
  <2>3. CASE accessType # "Write"
    BY <2>1, <2>3 DEF WellKept
  <2> QED
    BY <2>2, <2>3
<1>2. \A t : findTag(set, t) # "Invalid" <=> IsCached(set, t)
  BY FindTagType DEF WellKept
<1>3. \A t : findTag(written, t) # "Invalid" <=> IsCached(written, t)
  <2> HIDE DEF written
  <2> QED
    BY <1>1, FindTagType
<1>4. \A t : IsCached(written, t) <=> IsCached(set, t)
  <2> HIDE DEF written
  <2> QED
    BY <1>1, <1>2, <1>3
<1> HIDE DEF written
<1>5. /\ after \in Seq(LinesOver(Tags)) /\ Len(after) = Len(written)
      /\ UniqueTags(after) /\ NoInvalidLine(after)
      /\ \A t : findTag(after, t) = findTag(written, t)
  BY <1>1, <1>4, UpdateLRUProperties
<1> HIDE DEF after
<1>6. \A t : findTag(after, t) # "Invalid" <=> IsCached(after, t)
  BY <1>5, FindTagType
<1>7. WellKept(after)
  BY <1>1, <1>5, LenProperties, AssocAssumption DEF WellKept
<1>8. \A t : IsCached(after, t) <=> IsCached(set, t)
  BY <1>3, <1>4, <1>5, <1>6
<1> QED
  BY <1>7, <1>8 DEF after, written

\* A miss leaves a well-kept set with no new line but the one that was filled.
LEMMA MissKeepsSet ==
    ASSUME NEW set, WellKept(set), NEW tag \in Tags, ~IsCached(set, tag),
           NEW state \in CacheState \ {"Invalid"}
    PROVE  LET after == insertLine(set, tag, state)
           IN  /\ WellKept(after)
               /\ \A t : IsCached(after, t) => IsCached(set, t) \/ t = tag
PROOF
<1> DEFINE after == insertLine(set, tag, state)
<1>1. /\ after \in Seq(LinesOver(Tags)) /\ Len(after) <= Assoc
      /\ UniqueTags(after) /\ NoInvalidLine(after)
      /\ \A t : findTag(after, t) =
            IF t = tag THEN state
            ELSE IF Len(set) = Assoc /\ t = Head(set).tag THEN "Invalid"
            ELSE findTag(set, t)
  BY InsertLineProperties DEF WellKept
<1> HIDE DEF after
<1>2. \A t : findTag(after, t) # "Invalid" <=> IsCached(after, t)
  BY <1>1, FindTagType
<1>3. \A t : findTag(set, t) # "Invalid" <=> IsCached(set, t)
  BY FindTagType DEF WellKept
<1>4. WellKept(after)
  BY <1>1 DEF WellKept
<1> QED
  BY <1>1, <1>2, <1>3, <1>4 DEF after

\* An access keeps the cache in order, and makes at most its own line resident.
LEMMA AccessKeepsCache ==
    ASSUME CacheOK, NEW line \in Lines, NEW accessType,
           Hit(line, accessType) \/ Miss(line, accessType)
    PROVE  /\ CacheOK'
           /\ \A s \in Sets, t \in Tags :
                IsCached(cache'[s], t) =>
                   IsCached(cache[s], t) \/ s + t = line
PROOF
<1> DEFINE set == SetOf(line)
           tag == TagOf(line)
<1>1. set \in Sets /\ tag \in Tags /\ set + tag = line
  BY LineParts
<1> HIDE DEF set, tag
<1>2. cache \in [Sets -> Seq(CacheLine)] /\ WellKept(cache[set])
  BY <1>1, CacheOKMeans
<1>3. IsHit(line) <=> IsCached(cache[set], tag)
  BY <1>2, FindTagType DEF IsHit, StateOf, WellKept, set, tag
<1>4. \E new : /\ cache' = [cache EXCEPT ![set] = new]
               /\ WellKept(new)
               /\ \A t : IsCached(new, t) => IsCached(cache[set], t) \/ t = tag
  <2>1. CASE Hit(line, accessType)
    <3> DEFINE new == updateLRU(IF accessType = "Write"
                                THEN changeState(cache[set], tag, "Modified")
                                ELSE cache[set], tag)
    <3>1. cache' = [cache EXCEPT ![set] = new] /\ IsHit(line)
      BY <2>1 DEF Hit, set, tag
    <3>2. WellKept(new) /\ \A t : IsCached(new, t) <=> IsCached(cache[set], t)
      BY <1>2, <1>3, <3>1, HitKeepsSet
    <3> HIDE DEF new
    <3> QED
      BY <3>1, <3>2
  <2>2. CASE Miss(line, accessType)
    <3> DEFINE new == insertLine(cache[set], tag, NewState(accessType))
    <3>1. cache' = [cache EXCEPT ![set] = new] /\ ~IsHit(line)
      BY <2>2 DEF Miss, set, tag
    <3>2. NewState(accessType) \in CacheState \ {"Invalid"}
      BY DEF NewState, CacheState
    <3>3. WellKept(new)
          /\ \A t : IsCached(new, t) => IsCached(cache[set], t) \/ t = tag
      BY <1>1, <1>2, <1>3, <3>1, <3>2, MissKeepsSet
    <3> HIDE DEF new
    <3> QED
      BY <3>1, <3>3
  <2> QED
    BY <2>1, <2>2
<1>5. PICK new : /\ cache' = [cache EXCEPT ![set] = new]
                 /\ WellKept(new)
                 /\ \A t : IsCached(new, t) => IsCached(cache[set], t) \/ t = tag
  BY <1>4
<1>6. \A s \in Sets : cache'[s] = IF s = set THEN new ELSE cache[s]
  BY <1>2, <1>5
<1>7. cache' \in [Sets -> Seq(CacheLine)]
  <2>1. new \in Seq(CacheLine)
    BY <1>5 DEF WellKept, LinesOver, CacheLine
  <2> QED
    BY <1>2, <1>5, <2>1
<1>8. \A s \in Sets : WellKept(cache'[s])
  BY <1>5, <1>6, CacheOKMeans
<1>9. CacheOK'
  BY <1>7, <1>8 DEF CacheOK, SetsWellKept, WellKept
<1> QED
  BY <1>1, <1>5, <1>6, <1>9

----------------------------------------------------------------------------
(* The statistics.                                                         *)

LEMMA AccessKeepsBalance ==
    ASSUME StatsOK, StatsBalance, NEW line, NEW accessType \in {"Read", "Write"},
           Hit(line, accessType) \/ Miss(line, accessType)
    PROVE  StatsBalance'
PROOF
<1> DEFINE h == stats["hits"]
           r == stats["local_reads"]
           n == stats["accesses"]
<1>1. CounterMod \in Nat \ {0}
  BY SystemAssumption
<1>2. h \in 0 .. CounterMod - 1 /\ r \in 0 .. CounterMod - 1
        /\ n \in 0 .. CounterMod - 1
  BY DEF StatsOK, StatNames
<1>3. (h + r) % CounterMod = n /\ (r + h) % CounterMod = n
  BY <1>2 DEF StatsBalance
<1> HIDE DEF h, r, n
<1>4. /\ (((h + 1) % CounterMod) + r) % CounterMod = (n + 1) % CounterMod
      /\ (((r + 1) % CounterMod) + h) % CounterMod = (n + 1) % CounterMod
  BY <1>1, <1>2, <1>3, CountedOnce
<1>5. CASE Hit(line, accessType)
  <2>1. /\ stats'["hits"] = (h + 1) % CounterMod
        /\ stats'["local_reads"] = r
        /\ stats'["accesses"] = (n + 1) % CounterMod
    BY <1>5 DEF Hit, Count, AccessStats, StatNames, h, r, n
  <2> QED
    BY <1>4, <2>1 DEF StatsBalance
<1>6. CASE Miss(line, accessType)
  <2>1. /\ stats'["hits"] = h
        /\ stats'["local_reads"] = (r + 1) % CounterMod
        /\ stats'["accesses"] = (n + 1) % CounterMod
        /\ (h + ((r + 1) % CounterMod)) = (((r + 1) % CounterMod) + h)
    BY <1>1, <1>2, <1>6 DEF Miss, Count, AccessStats, ReadTraffic, StatNames, h, r, n
  <2> QED
    BY <1>4, <2>1 DEF StatsBalance
<1> QED
  BY <1>5, <1>6

----------------------------------------------------------------------------
(* The invariant.                                                          *)

LEMMA InitInv == Init => Inv
PROOF
<1> SUFFICES ASSUME Init PROVE Inv
  OBVIOUS
<1>1. PageTableOK /\ StatsOK /\ seenLines \subseteq Lines
  BY SystemInitOK DEF Init
<1>2. \A s \in Sets : cache[s] = << >>
  BY DEF Init
<1>3. CacheOK
  <2>1. cache \in [Sets -> Seq(CacheLine)]
    BY EmptySeq DEF Init
  <2> QED
    BY <1>2, <2>1, EmptySeq, AssocAssumption
       DEF CacheOK, SetsWellKept, UniqueTags, NoInvalidLine
<1>4. ResidentSeen
  BY <1>2, EmptySeq DEF ResidentSeen, IsCached
<1>5. StatsBalance
  <2>1. 0 % CounterMod = 0
    BY SystemAssumption
  <2> QED
    BY <2>1 DEF Init, SystemInit, StatsBalance, StatNames
<1> QED
  BY <1>1, <1>3, <1>4, <1>5 DEF Inv

LEMMA AccessInv ==
    ASSUME Inv, NEW address \in Lines, NEW accessType \in {"Read", "Write"},
           memAccess(address, accessType)
    PROVE  Inv'
PROOF
<1> DEFINE line == PhysLine(address)
<1>1. /\ virtToPhys(address) /\ checkCompulsory(line, accessType)
      /\ Hit(line, accessType) \/ Miss(line, accessType)
  BY DEF memAccess
<1>2. line \in Lines
  BY PhysLineType DEF Inv
<1> HIDE DEF line
<1>3. PageTableOK'
  BY <1>1, VirtToPhysKeepsPageTable DEF Inv
<1>4. StatsOK'
  BY <1>1, CountKeepsStats DEF Inv, Hit, Miss
<1>5. (seenLines \subseteq Lines)'
  BY <1>1, <1>2, CheckCompulsoryKeepsLines DEF Inv
<1>6. /\ CacheOK'
      /\ \A s \in Sets, t \in Tags :
           IsCached(cache'[s], t) => IsCached(cache[s], t) \/ s + t = line
  BY <1>1, <1>2, AccessKeepsCache DEF Inv
<1>7. ResidentSeen'
  <2> SUFFICES ASSUME CountCompulsory, NEW s \in Sets, NEW t \in Tags,
                      IsCached(cache'[s], t)
               PROVE  s + t \in seenLines'
    BY DEF ResidentSeen
  <2>1. seenLines \subseteq seenLines' /\ line \in seenLines'
    BY <1>1 DEF checkCompulsory, IsCompulsory
  <2> QED
    BY <1>6, <2>1 DEF Inv, ResidentSeen
<1>8. StatsBalance'
  BY <1>1, AccessKeepsBalance DEF Inv
<1> QED
  BY <1>3, <1>4, <1>5, <1>6, <1>7, <1>8 DEF Inv

\* The inductive invariant holds in every reachable state.
THEOREM Invariance == Spec => []Inv
PROOF
<1>1. Init => Inv
  BY InitInv
<1>2. Inv /\ [Next]_vars => Inv'
  <2> SUFFICES ASSUME Inv, [Next]_vars PROVE Inv'
    OBVIOUS
  <2>1. CASE Next
    BY <2>1, AccessInv DEF Next
  <2>2. CASE UNCHANGED vars
    BY <2>2 DEF vars, Inv, PageTableOK, TranslationInjective, StatsOK, CacheOK,
                SetsWellKept, ResidentSeen, StatsBalance
  <2> QED
    BY <2>1, <2>2
<1> QED
  BY <1>1, <1>2, PTL DEF Spec

\* Every variable keeps its type: the counters wrap, the page table stays inside
\* the address space, the deques hold cache lines.
THEOREM TypeCorrect == Spec => []TypeOK
PROOF
<1>1. Inv => TypeOK
  BY SystemTypeParts DEF Inv, CacheOK, TypeOK
<1> QED
  BY <1>1, Invariance, PTL

\* No set ever holds a duplicate, an Invalid line or more than assoc lines.
THEOREM SetsAlwaysWellKept == Spec => []SetsWellKept
PROOF
<1>1. Inv => SetsWellKept
  BY DEF Inv, CacheOK
<1> QED
  BY <1>1, Invariance, PTL

\* Hits and memory reads add up to the accesses, wherever the counters wrap.
THEOREM StatsAlwaysBalance == Spec => []StatsBalance
PROOF
<1>1. Inv => StatsBalance
  BY DEF Inv
<1> QED
  BY <1>1, Invariance, PTL

\* An access that is counted as compulsory is a miss: a resident line was seen.
THEOREM CompulsoryAlwaysMisses == Spec => CompulsoryIsMiss
PROOF
<1> DEFINE Missed == Bumped("compulsory") => ~Bumped("hits")
<1>1. ASSUME Inv, Next, Bumped("compulsory") PROVE ~Bumped("hits")
  <2>1. PICK address \in Lines, accessType \in {"Read", "Write"} :
          memAccess(address, accessType)
    BY <1>1 DEF Next
  <2> DEFINE line == PhysLine(address)
  <2>2. Hit(line, accessType) \/ Miss(line, accessType)
    BY <2>1 DEF memAccess
  <2>3. line \in Lines
    BY <1>1, PhysLineType DEF Inv
  <2> HIDE DEF line
  <2>4. IsCompulsory(line, accessType)
    BY <1>1, <2>2, SystemAssumption
       DEF Inv, StatsOK, Hit, Miss, Count, AccessStats, ReadTraffic, Bumped,
           StatNames
  <2>5. ~IsCached(cache[SetOf(line)], TagOf(line))
    BY <1>1, <2>3, <2>4, LineParts DEF Inv, ResidentSeen, IsCompulsory
  <2>6. ~IsHit(line)
    BY <2>5 DEF IsHit, StateOf, findTag
  <2>7. Miss(line, accessType)
    BY <2>2, <2>6 DEF Hit
  <2> QED
    BY <1>1, <2>7
       DEF Inv, StatsOK, Miss, Count, AccessStats, ReadTraffic, Bumped, StatNames
<1>2. Inv /\ [Next]_vars => [Missed]_vars
  <2> SUFFICES ASSUME Inv, Next PROVE Missed
    OBVIOUS
  <2> QED
    BY <1>1
<1> QED
  BY <1>2, Invariance, PTL DEF Spec, CompulsoryIsMiss
=============================================================================
