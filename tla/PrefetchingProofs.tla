-------------------------- MODULE PrefetchingProofs --------------------------
(***************************************************************************)
(* What SingleCacheSystem guarantees with a prefetcher, for every geometry *)
(* and wherever the counters wrap.                                         *)
(*                                                                         *)
(* In a SingleCacheSystem a prefetch calls no prefetcher.  CallsOK says    *)
(* what that makes of the calls under way: a call of the prefetcher, and   *)
(* on top of it the memAccess of one prefetch.  Everything about the       *)
(* prefetcher follows from it.  The sets and the access statistics stay in *)
(* order by the lemmas of SingleCacheSystemProofs: those about the cache   *)
(* ask nothing of the type of an access.                                   *)
(***************************************************************************)
EXTENDS SinglePrefetching, SingleCacheSystemProofs

----------------------------------------------------------------------------
(* The calls under way.                                                    *)

MemAccessCalls == {MemAccessCall(line, NoThread) : line \in Lines}
MissCalls == {MissCall(line, i, NoThread) : line \in Lines, i \in 0 .. prefetchNum}

\* A prefetcher call, and at most one prefetch on top of it; AdjPrefetch has
\* nothing left to do but its prefetch.
CallsOK ==
    \/ calls = << >>
    \/ Prefetcher = "adjacent" /\ \E prefetch \in MemAccessCalls : calls = <<prefetch>>
    \/ /\ Prefetcher = "sequential"
       /\ \E call \in MissCalls \cup {HitCall} :
             \/ calls = <<call>>
             \/ \E prefetch \in MemAccessCalls : calls = <<call, prefetch>>

\* The innermost call, and those that it returns to.
LEMMA OneCall ==
    ASSUME NEW call, calls = <<call>>
    PROVE  Last(calls) = call /\ Callers = << >> /\ calls # << >>
PROOF
<1>1. Len(<<call>>) = 1 /\ <<call>>[1] = call /\ <<call>> # << >>
  OBVIOUS
<1>2. SubSeq(<<call>>, 1, 0) = << >>
  BY SubSeqEmpty
<1> QED
  BY <1>1, <1>2 DEF Last, Front, Callers

LEMMA TwoCalls ==
    ASSUME NEW call, NEW prefetch, calls = <<call, prefetch>>
    PROVE  Last(calls) = prefetch /\ Callers = <<call>> /\ calls # << >>
PROOF
<1>1. Len(calls) = 2 /\ calls[2] = prefetch /\ calls # << >> /\ calls[1] = call
  OBVIOUS
<1>2. SubSeq(calls, 1, 1) = <<call>>
  <2>1. /\ SubSeq(calls, 1, 1) \in Seq({call})
        /\ Len(SubSeq(calls, 1, 1)) = 1
        /\ SubSeq(calls, 1, 1)[1] = call
    BY <1>1, SubSeqProperties
  <2>2. PICK front, one : front = SubSeq(calls, 1, 1) /\ one = <<call>>
    OBVIOUS
  <2>3. one \in Seq({call}) /\ Len(one) = 1 /\ one[1] = call
    BY <2>2
  <2>4. front \in Seq({call}) /\ Len(front) = 1 /\ front[1] = call
    BY <2>1, <2>2
  <2>5. front = one
    BY <2>3, <2>4, SeqEqual
  <2> QED
    BY <2>2, <2>5
<1> QED
  BY <1>1, <1>2 DEF Last, Front, Callers

LEMMA LineAfterType ==
    ASSUME NEW line \in Lines, NEW n \in Nat
    PROVE  LineAfter(line, n) \in Lines
PROOF
<1>1. PICK m : m = NumPages * LinesPerPage
  OBVIOUS
<1>2. m \in Nat \ {0}
  BY <1>1, SystemAssumption
<1>3. line \in Nat
  BY <1>1, <1>2 DEF Lines
<1>4. (line + n) % m \in 0 .. m - 1
  BY <1>2, <1>3
<1> QED
  BY <1>1, <1>4 DEF LineAfter, Lines

PrefetchFieldsOK == lastMiss \in Lines /\ lastPrefetch \in Lines

\* What the calls under way still have to do.
Remaining ==
    IF calls = << >> THEN 0
    ELSE Len(calls) + (IF calls[1].fn = "prefetchMiss"
                       THEN 2 * (prefetchNum - calls[1].i) ELSE 0)

LEMMA NoCall ==
    ASSUME calls' = << >>
    PROVE  CallsOK' /\ Remaining' = 0
BY DEF CallsOK, Remaining

\* An access of the trace calls the prefetcher when no call is under way.
LEMMA DemandCalls ==
    ASSUME PageTableOK, PrefetchFieldsOK, NEW address \in Lines, NEW accessType,
           DemandAccess(address, accessType)
    PROVE  CallsOK' /\ PrefetchFieldsOK'
PROOF
<1>1. PICK line : line = PhysLine(address)
  OBVIOUS
<1>2. line \in Lines /\ NoThread = 0
  BY <1>1, PhysLineType DEF NoThread
<1>3. calls = << >> /\ Callers = << >>
  BY DEF DemandAccess, Callers
<1>4. prefetchHit(line, NoThread) \/ prefetchMiss(line, NoThread)
  BY <1>1 DEF DemandAccess
<1>5. \A n \in Nat : MemAccessCall(LineAfter(line, n), NoThread) \in MemAccessCalls
  BY <1>2, LineAfterType DEF MemAccessCalls
<1>6. CASE AdjPrefetchLine(line, NoThread) /\ Prefetcher = "adjacent"
  <2>1. PICK prefetch : prefetch = MemAccessCall(LineAfter(line, 1), NoThread)
    OBVIOUS
  <2>2. calls' = <<prefetch>> /\ UNCHANGED <<lastMiss, lastPrefetch>>
    BY <1>3, <1>6, <2>1 DEF AdjPrefetchLine
  <2>3. prefetch \in MemAccessCalls
    BY <1>5, <2>1
  <2>4. CallsOK'
    BY <1>6, <2>2, <2>3 DEF CallsOK
  <2> QED
    BY <2>2, <2>4 DEF PrefetchFieldsOK
<1>7. CASE SeqPrefetchHit(line, NoThread) /\ Prefetcher = "sequential"
  <2>1. UNCHANGED <<lastMiss, lastPrefetch>>
    BY <1>7 DEF SeqPrefetchHit
  <2>2. CASE ~ContinuesStream(line)
    <3>1. calls' = << >>
      BY <1>3, <1>7, <2>2 DEF SeqPrefetchHit
    <3> QED
      BY <2>1, <3>1, NoCall DEF PrefetchFieldsOK
  <2>3. CASE ContinuesStream(line)
    <3>1. PICK prefetch : prefetch = MemAccessCall(LineAfter(line, prefetchNum), NoThread)
      OBVIOUS
    <3>2. calls' = <<HitCall, prefetch>>
      BY <1>3, <1>7, <2>3, <3>1 DEF SeqPrefetchHit
    <3>3. prefetch \in MemAccessCalls
      BY <1>5, <3>1 DEF prefetchNum
    <3>4. CallsOK'
      BY <1>7, <3>2, <3>3 DEF CallsOK
    <3> QED
      BY <2>1, <3>4 DEF PrefetchFieldsOK
  <2> QED
    BY <2>2, <2>3
<1>8. CASE SeqPrefetchMiss(line, NoThread) /\ Prefetcher = "sequential"
  <2>1. CASE calls' = << >> /\ lastMiss' = line /\ UNCHANGED lastPrefetch
    BY <1>2, <2>1, NoCall DEF PrefetchFieldsOK
  <2>2. CASE calls' = <<MissCall(line, 0, NoThread)>> /\ UNCHANGED <<lastMiss, lastPrefetch>>
    <3>1. PICK call : call = MissCall(line, 0, NoThread)
      OBVIOUS
    <3>2. call \in MissCalls
      BY <1>2, <3>1 DEF MissCalls, prefetchNum
    <3>3. CallsOK'
      BY <1>8, <2>2, <3>1, <3>2 DEF CallsOK
    <3> QED
      BY <2>2, <3>3 DEF PrefetchFieldsOK
  <2> QED
    BY <1>3, <1>8, <2>1, <2>2 DEF SeqPrefetchMiss
<1> QED
  BY <1>4, <1>6, <1>7, <1>8, PrefetcherAssumption DEF prefetchHit, prefetchMiss

\* The call of a frame is told by its fn.
LEMMA FrameFields ==
    /\ \A call \in MemAccessCalls : call.fn = "memAccess" /\ call.line \in Lines
    /\ \A call \in MissCalls :
          call.fn = "prefetchMiss" /\ call.line \in Lines /\ call.i \in 0 .. prefetchNum
    /\ HitCall.fn = "prefetchHit"
BY DEF MemAccessCalls, MemAccessCall, MissCalls, MissCall, HitCall

\* The memAccess of a prefetch returns to its caller.
LEMMA PrefetchCalls ==
    ASSUME CallsOK, PrefetchFieldsOK, Running("memAccess"), NoPrefetch
    PROVE  CallsOK' /\ PrefetchFieldsOK' /\ Remaining' < Remaining
PROOF
<1>1. PrefetchFieldsOK'
  BY DEF NoPrefetch, PrefetchFieldsOK
<1>2. CASE Prefetcher = "adjacent" /\ \E prefetch \in MemAccessCalls : calls = <<prefetch>>
  <2>1. PICK prefetch \in MemAccessCalls : calls = <<prefetch>>
    BY <1>2
  <2>2. calls' = << >>
    BY <2>1, OneCall DEF NoPrefetch
  <2>3. Len(calls) = 1 /\ calls[1] = prefetch
    BY <2>1
  <2>4. Remaining = 1
    BY <2>3, FrameFields DEF Remaining
  <2> QED
    BY <1>1, <2>2, <2>4, NoCall
<1>3. CASE /\ Prefetcher = "sequential"
           /\ \E call \in MissCalls \cup {HitCall} :
                 \/ calls = <<call>>
                 \/ \E prefetch \in MemAccessCalls : calls = <<call, prefetch>>
  <2>1. PICK call \in MissCalls \cup {HitCall} :
                 \/ calls = <<call>>
                 \/ \E prefetch \in MemAccessCalls : calls = <<call, prefetch>>
    BY <1>3
  <2>2. calls # <<call>>
    BY OneCall, FrameFields DEF Running
  <2>3. PICK prefetch \in MemAccessCalls : calls = <<call, prefetch>>
    BY <2>1, <2>2
  <2>4. calls' = <<call>>
    BY <2>3, TwoCalls DEF NoPrefetch
  <2>5. /\ Len(calls) = 2 /\ calls[1] = call /\ calls # << >>
        /\ Len(calls') = 1 /\ calls'[1] = call /\ calls' # << >>
    BY <2>3, <2>4
  <2>6. CallsOK'
    BY <1>3, <2>1, <2>4 DEF CallsOK
  <2>7. Remaining' < Remaining
    <3>1. CASE call \in MissCalls
      <4>1. call.fn = "prefetchMiss" /\ call.i \in 0 .. 3
        BY <3>1, FrameFields DEF prefetchNum
      <4>2. /\ Remaining = 2 + 2 * (3 - call.i)
            /\ Remaining' = 1 + 2 * (3 - call.i)
        BY <2>5, <4>1 DEF Remaining, prefetchNum
      <4> QED
        BY <4>1, <4>2
    <3>2. CASE call = HitCall
      <4>1. Remaining = 2 /\ Remaining' = 1
        BY <2>5, <3>2, FrameFields DEF Remaining
      <4> QED
        BY <4>1
    <3> QED
      BY <2>1, <3>1, <3>2
  <2> QED
    BY <1>1, <2>6, <2>7
<1> QED
  BY <1>2, <1>3 DEF CallsOK, Running

\* What the prefetcher does once one of its prefetches has returned.
LEMMA StepCalls ==
    ASSUME CallsOK, PrefetchFieldsOK, PrefetcherStep
    PROVE  CallsOK' /\ PrefetchFieldsOK' /\ Remaining' < Remaining
PROOF
<1>1. calls # << >> /\ (Running("prefetchMiss") \/ Running("prefetchHit"))
  BY DEF PrefetcherStep, SeqMissLoop, SeqMissReturn, SeqHitReturn, Running
<1>2. PICK call \in MissCalls \cup {HitCall} :
         Prefetcher = "sequential" /\ calls = <<call>>
  <2>1. ASSUME NEW prefetch \in MemAccessCalls, Last(calls) = prefetch PROVE FALSE
    BY <1>1, <2>1, FrameFields DEF Running
  <2> QED
    BY <1>1, <2>1, OneCall, TwoCalls DEF CallsOK
<1>3. /\ Last(calls) = call /\ Callers = << >>
      /\ Len(calls) = 1 /\ calls[1] = call
  BY <1>2, OneCall
<1>4. CASE SeqMissLoop
  <2>1. call.fn = "prefetchMiss" /\ call.i < prefetchNum
    BY <1>3, <1>4 DEF SeqMissLoop, Running
  <2>2. call.line \in Lines /\ call.i \in 0 .. 2 /\ prefetchNum = 3
    BY <2>1, FrameFields DEF prefetchNum
  <2>3. PICK next, prefetch :
          /\ next = MissCall(call.line, call.i + 1, call.tid)
          /\ prefetch = MemAccessCall(LineAfter(call.line, call.i + 1), call.tid)
    OBVIOUS
  <2>4. calls' = <<next, prefetch>> /\ UNCHANGED <<lastMiss, lastPrefetch>>
    BY <1>3, <1>4, <2>3 DEF SeqMissLoop
  <2>5. call \in MissCalls /\ call.tid = NoThread
    BY <2>1, FrameFields DEF MissCalls, MissCall
  <2>6. prefetch \in MemAccessCalls
    BY <2>2, <2>3, <2>5, LineAfterType DEF MemAccessCalls
  <2>7. /\ next \in MissCalls
        /\ next.fn = "prefetchMiss" /\ next.i = call.i + 1
    BY <2>2, <2>3, <2>5 DEF MissCalls, MissCall
  <2>8. CallsOK'
    BY <1>2, <2>4, <2>6, <2>7 DEF CallsOK
  <2>9. calls'[1] = next /\ Len(calls') = 2 /\ calls' # << >>
    BY <2>4
  <2>10. /\ Remaining = 1 + 2 * (3 - call.i)
         /\ Remaining' = 2 + 2 * (3 - (call.i + 1))
    BY <1>1, <1>3, <2>1, <2>7, <2>9 DEF Remaining, prefetchNum
  <2>11. Remaining' < Remaining
    BY <2>2, <2>10
  <2> QED
    BY <2>4, <2>8, <2>11 DEF PrefetchFieldsOK
<1>5. ASSUME SeqMissReturn \/ SeqHitReturn
      PROVE  CallsOK' /\ PrefetchFieldsOK' /\ Remaining' < Remaining
  <2>1. calls' = << >>
    BY <1>3, <1>5 DEF SeqMissReturn, SeqHitReturn
  <2>2. Remaining \in Nat \ {0}
    <3>1. CASE call \in MissCalls
      <4>1. call.fn = "prefetchMiss" /\ call.i \in 0 .. 3
        BY <3>1, FrameFields DEF prefetchNum
      <4>2. Remaining = 1 + 2 * (3 - call.i)
        BY <1>1, <1>3, <4>1 DEF Remaining, prefetchNum
      <4> QED
        BY <4>1, <4>2
    <3>2. CASE call = HitCall
      BY <1>1, <1>3, <3>2, FrameFields DEF Remaining
    <3> QED
      BY <1>2, <3>1, <3>2
  <2>3. PrefetchFieldsOK'
    <3>1. CASE SeqMissReturn
      <4>1. call.fn = "prefetchMiss"
        BY <1>3, <3>1 DEF SeqMissReturn, Running
      <4>2. call.line \in Lines
        BY <4>1, FrameFields
      <4> QED
        BY <1>3, <3>1, <4>2, LineAfterType DEF SeqMissReturn, PrefetchFieldsOK
    <3>2. CASE SeqHitReturn
      BY <3>2, LineAfterType DEF SeqHitReturn, PrefetchFieldsOK
    <3> QED
      BY <1>5, <3>1, <3>2
  <2> QED
    BY <2>1, <2>2, <2>3, NoCall
<1> QED
  BY <1>4, <1>5 DEF PrefetcherStep

LEMMA ExecuteCalls ==
    ASSUME CallsOK, PrefetchFieldsOK, Execute
    PROVE  CallsOK' /\ PrefetchFieldsOK' /\ Remaining' < Remaining
BY PrefetchCalls, StepCalls DEF Execute, PrefetchAccess

----------------------------------------------------------------------------
(* The invariant.                                                          *)

\* The part of the state that the accesses change.
AccessesOK ==
    /\ PageTableOK /\ StatsOK /\ seenLines \subseteq Lines
    /\ CacheOK
    /\ StatsBalance

PrefetchingInv ==
    /\ AccessesOK
    /\ CallsOK
    /\ PrefetchFieldsOK

\* A prefetch counts nothing but the write-back it causes.
LEMMA PrefetchCounts ==
    ASSUME NEW address, memAccess(address, "Prefetch"),
           NEW n \in StatNames \ {"local_writes"}
    PROVE  stats'[n] = stats[n]
PROOF
<1>1. PICK line : line = PhysLine(address)
  OBVIOUS
<1>2. Hit(line, "Prefetch") \/ Miss(line, "Prefetch")
  BY <1>1 DEF memAccess
<1>3. AccessStats(line, "Prefetch") = {}
  BY DEF AccessStats, IsCompulsory
<1>4. ASSUME NEW names, Count(names), n \notin names PROVE stats'[n] = stats[n]
  BY <1>4 DEF Count
<1>5. CASE Hit(line, "Prefetch")
  BY <1>3, <1>4, <1>5 DEF Hit
<1>6. CASE Miss(line, "Prefetch")
  BY <1>3, <1>4, <1>6 DEF Miss, ReadTraffic
<1> QED
  BY <1>2, <1>5, <1>6

\* Every memAccess, of the trace or of a prefetch, keeps them in order.
LEMMA AccessKeepsOK ==
    ASSUME AccessesOK, NEW address \in Lines, NEW accessType \in AccessType,
           memAccess(address, accessType)
    PROVE  AccessesOK'
PROOF
<1> DEFINE line == PhysLine(address)
<1>1. /\ virtToPhys(address) /\ checkCompulsory(line, accessType)
      /\ Hit(line, accessType) \/ Miss(line, accessType)
  BY DEF memAccess
<1>2. line \in Lines
  BY PhysLineType DEF AccessesOK
<1> HIDE DEF line
<1>3. PageTableOK'
  BY <1>1, VirtToPhysKeepsPageTable DEF AccessesOK
<1>4. StatsOK'
  BY <1>1, CountKeepsStats DEF AccessesOK, Hit, Miss
<1>5. (seenLines \subseteq Lines)'
  BY <1>1, <1>2, CheckCompulsoryKeepsLines DEF AccessesOK
<1>6. CacheOK'
  BY <1>1, <1>2, AccessKeepsCache DEF AccessesOK
<1>7. StatsBalance'
  <2>1. CASE accessType \in {"Read", "Write"}
    BY <1>1, <2>1, AccessKeepsBalance DEF AccessesOK
  <2>2. CASE accessType = "Prefetch"
    <3>1. \A n \in {"hits", "local_reads", "accesses"} : stats'[n] = stats[n]
      BY <2>2, PrefetchCounts DEF StatNames
    <3> QED
      BY <3>1 DEF AccessesOK, StatsBalance
  <2> QED
    BY <2>1, <2>2 DEF AccessType
<1> QED
  BY <1>3, <1>4, <1>5, <1>6, <1>7 DEF AccessesOK

\* The line of a prefetch under way.
LEMMA PrefetchedLine ==
    ASSUME CallsOK, Running("memAccess")
    PROVE  Last(calls).line \in Lines
PROOF
<1>1. ASSUME NEW prefetch \in MemAccessCalls, Last(calls) = prefetch
      PROVE  Last(calls).line \in Lines
  BY <1>1, FrameFields
<1>2. ASSUME NEW call \in MissCalls \cup {HitCall}, Last(calls) = call PROVE FALSE
  BY <1>2, FrameFields DEF Running
<1> QED
  BY <1>1, <1>2, OneCall, TwoCalls DEF CallsOK, Running

LEMMA PrefetchingInitInv == PrefetchingInit => PrefetchingInv
PROOF
<1> SUFFICES ASSUME PrefetchingInit PROVE PrefetchingInv
  OBVIOUS
<1>1. AccessesOK
  BY InitInv DEF PrefetchingInit, Inv, AccessesOK
<1>2. CallsOK
  BY DEF PrefetchingInit, PrefetchInit, CallsOK
<1>3. 0 \in Lines
  <2>1. PICK m : m = NumPages * LinesPerPage
    OBVIOUS
  <2>2. m \in Nat \ {0}
    BY <2>1, SystemAssumption
  <2> QED
    BY <2>1, <2>2 DEF Lines
<1>4. PrefetchFieldsOK
  BY <1>3 DEF PrefetchingInit, PrefetchInit, PrefetchFieldsOK
<1> QED
  BY <1>1, <1>2, <1>4 DEF PrefetchingInv

LEMMA DemandKeepsInv ==
    ASSUME PrefetchingInv, Demand
    PROVE  PrefetchingInv'
PROOF
<1>1. PICK address \in Lines, accessType \in {"Read", "Write"} :
        DemandAccess(address, accessType)
  BY DEF Demand
<1>2. AccessesOK'
  BY <1>1, AccessKeepsOK DEF PrefetchingInv, DemandAccess, AccessType
<1>3. CallsOK' /\ PrefetchFieldsOK'
  BY <1>1, DemandCalls DEF PrefetchingInv, AccessesOK
<1> QED
  BY <1>2, <1>3 DEF PrefetchingInv

LEMMA ExecuteKeepsInv ==
    ASSUME PrefetchingInv, Execute
    PROVE  PrefetchingInv' /\ Remaining' < Remaining
PROOF
<1>1. CallsOK' /\ PrefetchFieldsOK' /\ Remaining' < Remaining
  BY ExecuteCalls DEF PrefetchingInv
<1>2. AccessesOK'
  <2>1. CASE PrefetchAccess
    BY <2>1, PrefetchedLine, AccessKeepsOK
       DEF PrefetchAccess, PrefetchingInv, AccessType
  <2>2. CASE UNCHANGED vars
    BY <2>2 DEF PrefetchingInv, AccessesOK, vars, PageTableOK, TranslationInjective,
                StatsOK, CacheOK, SetsWellKept, StatsBalance
  <2> QED
    BY <2>1, <2>2 DEF Execute
<1> QED
  BY <1>1, <1>2 DEF PrefetchingInv

LEMMA StutterKeepsInv ==
    ASSUME PrefetchingInv, UNCHANGED allVars
    PROVE  PrefetchingInv'
BY DEF PrefetchingInv, AccessesOK, allVars, PageTableOK, TranslationInjective,
       StatsOK, CacheOK, SetsWellKept, StatsBalance, CallsOK, PrefetchFieldsOK

\* With a prefetcher the accesses and the calls under way stay in order.
THEOREM PrefetchingInvariance == PrefetchingSpec => []PrefetchingInv
PROOF
<1>1. PrefetchingInit => PrefetchingInv
  BY PrefetchingInitInv
<1>2. PrefetchingInv /\ [PrefetchingNext]_allVars => PrefetchingInv'
  BY DemandKeepsInv, ExecuteKeepsInv, StutterKeepsInv DEF PrefetchingNext
<1> QED
  BY <1>1, <1>2, PTL DEF PrefetchingSpec

----------------------------------------------------------------------------
(* What it is for.                                                         *)

\* A prefetch fills and evicts lines as an access of the trace does, but no set
\* ever holds a duplicate, an Invalid line or more than assoc lines.
THEOREM PrefetchedSetsWellKept == PrefetchingSpec => []SetsWellKept
PROOF
<1>1. PrefetchingInv => SetsWellKept
  BY DEF PrefetchingInv, AccessesOK, CacheOK
<1> QED
  BY <1>1, PrefetchingInvariance, PTL

\* The accesses of the trace are hits or memory reads, however many prefetches
\* run between them.
THEOREM PrefetchedStatsBalance == PrefetchingSpec => []StatsBalance
PROOF
<1>1. PrefetchingInv => StatsBalance
  BY DEF PrefetchingInv, AccessesOK
<1> QED
  BY <1>1, PrefetchingInvariance, PTL

\* No stream of prefetches runs inside another.
THEOREM PrefetchesNeverNest == PrefetchingSpec => []PrefetchesDoNotNest
PROOF
<1>1. PrefetchingInv => PrefetchesDoNotNest
  <2> SUFFICES ASSUME PrefetchingInv PROVE Len(calls) <= 2
    BY DEF PrefetchesDoNotNest
  <2>1. CallsOK
    BY DEF PrefetchingInv
  <2>2. CASE calls = << >>
    <3>1. Len(calls) = 0
      BY <2>2
    <3> QED
      BY <3>1
  <2>3. ASSUME NEW call, calls = <<call>> PROVE Len(calls) = 1
    BY <2>3
  <2>4. ASSUME NEW call, NEW prefetch, calls = <<call, prefetch>> PROVE Len(calls) = 2
    BY <2>4
  <2>5. Len(calls) \in 0 .. 2
    BY <2>1, <2>2, <2>3, <2>4 DEF CallsOK
  <2>6. \A n \in 0 .. 2 : n <= 2
    OBVIOUS
  <2> QED
    BY <2>5, <2>6
<1> QED
  BY <1>1, PrefetchingInvariance, PTL

\* While prefetches run no counter changes but that of the write-backs.
THEOREM PrefetchesOnlyWriteBack == PrefetchingSpec => PrefetchesCountWriteBacksOnly
PROOF
<1> DEFINE Counted ==
      calls # << >> => \A n \in StatNames \ {"local_writes"} : ~Bumped(n)
<1>1. ASSUME PrefetchingNext PROVE Counted
  <2> SUFFICES ASSUME calls # << >>, NEW n \in StatNames \ {"local_writes"}
               PROVE  stats'[n] = stats[n]
    BY DEF Bumped
  <2>1. Execute
    BY <1>1 DEF PrefetchingNext, Demand, DemandAccess
  <2>2. CASE PrefetchAccess
    BY <2>2, PrefetchCounts DEF PrefetchAccess
  <2>3. CASE UNCHANGED vars
    BY <2>3 DEF vars
  <2> QED
    BY <2>1, <2>2, <2>3 DEF Execute
<1>2. [PrefetchingNext]_allVars => [Counted]_allVars
  BY <1>1
<1> QED
  BY <1>2, PTL DEF PrefetchingSpec, PrefetchesCountWriteBacksOnly

\* Eight steps at most are left of any access, and each step leaves fewer: the
\* part of EveryAccessReturns that is not about fairness.
THEOREM PrefetchesRunOut ==
    PrefetchingSpec => /\ [](Remaining \in 0 .. 8)
                       /\ [][Execute => Remaining' < Remaining]_allVars
PROOF
<1>1. ASSUME PrefetchingInv PROVE Remaining \in 0 .. 8
  <2>1. CallsOK
    BY <1>1 DEF PrefetchingInv
  <2>2. CASE calls = << >>
    BY <2>2 DEF Remaining
  <2>3. ASSUME NEW call \in MissCalls \cup {HitCall} \cup MemAccessCalls,
               calls # << >>, calls[1] = call, Len(calls) \in 1 .. 2
        PROVE  Remaining \in 0 .. 8
    <3>1. CASE call \in MissCalls
      <4>1. call.fn = "prefetchMiss" /\ call.i \in 0 .. 3
        BY <3>1, FrameFields DEF prefetchNum
      <4>2. Remaining = Len(calls) + 2 * (3 - call.i)
        BY <2>3, <4>1 DEF Remaining, prefetchNum
      <4>3. \A n \in 1 .. 2, i \in 0 .. 3 : n + 2 * (3 - i) \in 0 .. 8
        OBVIOUS
      <4> QED
        BY <2>3, <4>1, <4>2, <4>3
    <3>2. CASE call \notin MissCalls
      <4>1. call.fn # "prefetchMiss"
        BY <2>3, <3>2, FrameFields
      <4>2. Remaining = Len(calls) + 0
        BY <2>3, <4>1 DEF Remaining
      <4>3. \A n \in 1 .. 2 : n + 0 \in 0 .. 8
        OBVIOUS
      <4> QED
        BY <2>3, <4>2, <4>3
    <3> QED
      BY <3>1, <3>2
  <2>4. \A call, prefetch :
           /\ Len(<<call>>) = 1 /\ <<call>>[1] = call
           /\ Len(<<call, prefetch>>) = 2 /\ <<call, prefetch>>[1] = call
    OBVIOUS
  <2> QED
    BY <2>1, <2>2, <2>3, <2>4 DEF CallsOK
<1>2. PrefetchingInv /\ [PrefetchingNext]_allVars
        => [Execute => Remaining' < Remaining]_allVars
  BY ExecuteKeepsInv
<1> QED
  BY <1>1, <1>2, PrefetchingInvariance, PTL DEF PrefetchingSpec

=============================================================================
