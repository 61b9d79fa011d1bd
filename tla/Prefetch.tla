------------------------------ MODULE Prefetch ------------------------------
(***************************************************************************)
(* The prefetchers (prefetch.h, prefetch.cpp).  memAccess calls            *)
(* prefetchHit or prefetchMiss, which calls memAccess again for each line  *)
(* it prefetches, which may call the prefetcher again: the control state   *)
(* of this recursion is the stack of the calls that have not returned.     *)
(*                                                                         *)
(* A frame is a call of memAccess for a prefetch that is about to run, or  *)
(* a call of SeqPrefetch::prefetchMiss or prefetchHit with a prefetch of   *)
(* its own under way.  AdjPrefetch needs no frame: its functions have      *)
(* nothing left to do after their memAccess but return 1, which is counted *)
(* here when they are called; nothing reads stats.prefetched before then.  *)
(* The frame of the demand access is left out for the same reason: after   *)
(* its prefetcher call it only builds its return value.                    *)
(***************************************************************************)
EXTENDS System, Sequences, SequencesExt

CONSTANT
    Prefetcher       \* "adjacent" or "sequential", as tests/random.cpp names them

ASSUME PrefetcherAssumption == Prefetcher \in {"adjacent", "sequential"}

VARIABLES
    lastMiss, lastPrefetch,   \* SeqPrefetch's fields
    prefetched,               \* stats.prefetched
    calls                     \* the calls under way, the innermost last

prefetchVars == <<lastMiss, lastPrefetch, prefetched, calls>>

prefetchNum == 3

\* Addresses are 64-bit: the line after the last one is line 0.
LineAfter(line, n) == (line + n) % (NumPages * LinesPerPage)

MemAccessCall(line, tid) == [fn |-> "memAccess", line |-> line, tid |-> tid]
MissCall(line, i, tid) ==
    [fn |-> "prefetchMiss", line |-> line, i |-> i, tid |-> tid]
HitCall == [fn |-> "prefetchHit"]

Callers == IF calls = << >> THEN << >> ELSE Front(calls)

PrefetchInit ==
    /\ lastMiss = 0 /\ lastPrefetch = 0
    /\ prefetched = 0
    /\ calls = << >>

AddPrefetched(n) == prefetched' = (prefetched + n) % CounterMod

Running(fn) == calls # << >> /\ Last(calls).fn = fn

----------------------------------------------------------------------------
(* The calls memAccess makes when it has done its own work; Callers are    *)
(* then the calls to return to.                                            *)

\* memAccess calls no prefetcher and returns.
NoPrefetch == calls' = Callers /\ UNCHANGED <<lastMiss, lastPrefetch, prefetched>>

AdjPrefetchLine(line, tid) ==
    /\ calls' = Append(Callers, MemAccessCall(LineAfter(line, 1), tid))
    /\ AddPrefetched(1)
    /\ UNCHANGED <<lastMiss, lastPrefetch>>

\* A miss just after the last missed line, in the same tag, starts a stream.
SeqPrefetchMiss(line, tid) ==
    IF TagOf(line) = TagOf(lastMiss) /\ SetOf(line) = SetOf(lastMiss) + 1
    THEN /\ calls' = Append(Callers, MissCall(line, 0, tid))
         /\ UNCHANGED <<lastMiss, lastPrefetch, prefetched>>
    ELSE /\ lastMiss' = line
         /\ calls' = Callers
         /\ UNCHANGED <<lastPrefetch, prefetched>>

\* prefetchHit masks the address with setShift instead of setMask, so the set
\* it compares with that of lastPrefetch is always 0.
HitSet(line) == 0

ContinuesStream(line) ==
    TagOf(line) = TagOf(lastPrefetch) /\ HitSet(line) = SetOf(lastPrefetch)

\* It returns 1, whether it prefetches or not.
SeqPrefetchHit(line, tid) ==
    /\ calls' = IF ContinuesStream(line)
                THEN Callers \o <<HitCall,
                        MemAccessCall(LineAfter(line, prefetchNum), tid)>>
                ELSE Callers
    /\ AddPrefetched(1)
    /\ UNCHANGED <<lastMiss, lastPrefetch>>

prefetchMiss(line, tid) ==
    IF Prefetcher = "adjacent" THEN AdjPrefetchLine(line, tid)
    ELSE SeqPrefetchMiss(line, tid)

prefetchHit(line, tid) ==
    IF Prefetcher = "adjacent" THEN AdjPrefetchLine(line, tid)
    ELSE SeqPrefetchHit(line, tid)

----------------------------------------------------------------------------
(* The steps of SeqPrefetch after one of its own memAccess calls returned. *)

\* Mutant: the loop does not advance.
SeqMissLoopForever ==
    /\ Running("prefetchMiss")
    /\ LET call == Last(calls)
       IN calls' = Callers \o
            <<MissCall(call.line, call.i, call.tid),
              MemAccessCall(LineAfter(call.line, call.i + 1), call.tid)>>
    /\ UNCHANGED <<lastMiss, lastPrefetch, prefetched>>

\* The loop of prefetchMiss: prefetch line + 1, + 2, + 3.
SeqMissLoop ==
    /\ Running("prefetchMiss")
    /\ LET call == Last(calls)
       IN /\ call.i < prefetchNum
          /\ calls' = Callers \o
               <<MissCall(call.line, call.i + 1, call.tid),
                 MemAccessCall(LineAfter(call.line, call.i + 1), call.tid)>>
    /\ UNCHANGED <<lastMiss, lastPrefetch, prefetched>>

SeqMissReturn ==
    /\ Running("prefetchMiss")
    /\ Last(calls).i = prefetchNum
    /\ lastPrefetch' = LineAfter(Last(calls).line, 1)
    /\ lastMiss' = Last(calls).line
    /\ AddPrefetched(prefetchNum)
    /\ calls' = Callers

SeqHitReturn ==
    /\ Running("prefetchHit")
    /\ lastPrefetch' = LineAfter(lastPrefetch, 1)
    /\ calls' = Callers
    /\ UNCHANGED <<lastMiss, prefetched>>

PrefetcherStep == SeqMissLoop \/ SeqMissReturn \/ SeqHitReturn
=============================================================================
