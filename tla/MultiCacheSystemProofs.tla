----------------------- MODULE MultiCacheSystemProofs -----------------------
(***************************************************************************)
(* What MultiCacheSystem guarantees for every number of caches, sets,      *)
(* ways, pages and threads: type correctness, well-kept sets, coherence,   *)
(* translation without aliases, homes that are known and never move, and   *)
(* reads of memory that are never stale.                                   *)
(*                                                                         *)
(* None of the properties is inductive alone.  Coherence rests on findTag  *)
(* reporting every copy (no duplicates, no Invalid line); the types rest   *)
(* on a translated address staying inside the address space, hence on      *)
(* PageTableOK; the home map rests on ResidentLinesOK, as a write-back     *)
(* looks up the line of a set and a tag.  Inv is the conjunction of all.   *)
(*                                                                         *)
(* HitStates and MissStates reduce a step to the state of every line after *)
(* it; everything about the protocol is then proved from those two.        *)
(*                                                                         *)
(* The last sections show what MultiCacheSystem implements:                *)
(* CoherentSharing, and SingleCacheSystem, if it has one cache.            *)
(***************************************************************************)
EXTENDS MultiCacheSharing, SingleIsMulti, SystemTheorems, CacheTheorems

----------------------------------------------------------------------------
(* The caches.  CachesOK gathers what is known of the deques; under it the *)
(* lemmas below give the state of every line after a hit and after a miss. *)

WellKept(set) ==
    /\ set \in Seq(LinesOver(Tags)) /\ Len(set) <= Assoc
    /\ UniqueTags(set) /\ NoInvalidLine(set)

CachesOK ==
    /\ caches \in [Domains -> [Sets -> Seq(CacheLine)]]
    /\ SetsWellKept

LEMMA CachesOKMeans ==
    CachesOK <=> /\ caches \in [Domains -> [Sets -> Seq(CacheLine)]]
                 /\ \A d \in Domains, s \in Sets : WellKept(caches[d][s])
BY DEF CachesOK, SetsWellKept, WellKept, CacheLine, LinesOver

LEMMA StateInType ==
    ASSUME CachesOK, NEW d \in Domains, NEW s \in Sets, NEW t
    PROVE  /\ StateIn(d, s, t) \in CacheState
           /\ StateIn(d, s, t) # "Invalid" <=> IsCached(caches[d][s], t)
PROOF
<1>1. WellKept(caches[d][s])
  BY CachesOKMeans
<1> QED
  BY <1>1, FindTagType DEF WellKept, StateIn

\* What a hit leaves in every set of every cache.
SetAfterHit(set, tag, accessType, local, d, s) ==
    IF s # set THEN caches[d][s]
    ELSE IF d = local
    THEN updateLRU(IF accessType = "Write"
                   THEN changeState(caches[d][s], tag, "Modified")
                   ELSE caches[d][s], tag)
    ELSE IF accessType = "Write" THEN changeState(caches[d][s], tag, "Invalid")
    ELSE caches[d][s]

LEMMA HitSets ==
    ASSUME CachesOK, NEW set \in Sets, NEW tag \in Tags, NEW local \in Domains,
           NEW accessType \in {"Read", "Write"}
    PROVE  CachesAfterHit(set, tag, accessType, local) =
             [d \in Domains |-> [s \in Sets |->
                SetAfterHit(set, tag, accessType, local, d, s)]]
BY DEF CachesOK, CachesAfterHit, SetAfterHit, setRemoteStates

\* What a hit leaves behind: a write hit makes the copy at hand Modified and
\* the only one, a read hit changes the state of nothing.
LEMMA HitStates ==
    ASSUME CachesOK, NEW set \in Sets, NEW tag \in Tags, NEW local \in Domains,
           NEW accessType \in {"Read", "Write"},
           StateIn(local, set, tag) # "Invalid",
           caches' = CachesAfterHit(set, tag, accessType, local)
    PROVE  /\ CachesOK'
           /\ \A d \in Domains, s \in Sets, t \in Tags :
                StateIn(d, s, t)' =
                  IF accessType = "Write" /\ s = set /\ t = tag
                  THEN IF d = local THEN "Modified" ELSE "Invalid"
                  ELSE StateIn(d, s, t)
PROOF
<1>1. \A d \in Domains, s \in Sets : WellKept(caches[d][s])
  BY CachesOKMeans
<1>2. \A d \in Domains, s \in Sets :
         caches'[d][s] = SetAfterHit(set, tag, accessType, local, d, s)
  BY HitSets
<1>3. ASSUME NEW d \in Domains, NEW s \in Sets
      PROVE  /\ WellKept(SetAfterHit(set, tag, accessType, local, d, s))
             /\ \A t \in Tags :
                  findTag(SetAfterHit(set, tag, accessType, local, d, s), t) =
                    IF accessType = "Write" /\ s = set /\ t = tag
                    THEN IF d = local THEN "Modified" ELSE "Invalid"
                    ELSE findTag(caches[d][s], t)
  <2> DEFINE old == caches[d][s]
             new == SetAfterHit(set, tag, accessType, local, d, s)
  <2>1. WellKept(old) /\ Len(old) \in Nat
    BY <1>1, LenProperties DEF WellKept
  <2> HIDE DEF old
  <2>2. CASE s # set \/ (d # local /\ accessType # "Write")
    BY <2>1, <2>2 DEF SetAfterHit, old
  <2>3. CASE s = set /\ d # local /\ accessType = "Write"
    <3>1. new = changeState(old, tag, "Invalid")
      BY <2>3 DEF SetAfterHit, old
    <3>2. /\ new \in Seq(LinesOver(Tags)) /\ Len(new) <= Len(old)
          /\ UniqueTags(new)
          /\ NoInvalidLine(old) => NoInvalidLine(new)
          /\ \A t : findTag(new, t) =
                IF t = tag THEN "Invalid" ELSE findTag(old, t)
      <4> HIDE DEF new
      <4> QED
        BY <2>1, <3>1, ChangeStateProperties DEF WellKept, CacheState
    <3>3. Len(new) \in Nat /\ Assoc \in Nat
      BY <3>2, AssocAssumption, LenProperties
    <3> QED
      BY <2>1, <2>3, <3>2, <3>3 DEF WellKept, old
  <2>4. CASE s = set /\ d = local
    <3> DEFINE written == IF accessType = "Write"
                          THEN changeState(old, tag, "Modified") ELSE old
    <3>1. new = updateLRU(written, tag)
      BY <2>4 DEF SetAfterHit, old
    <3>2. IsCached(old, tag)
      BY <2>4, StateInType DEF old
    <3>3. /\ written \in Seq(LinesOver(Tags)) /\ Len(written) <= Len(old)
          /\ UniqueTags(written) /\ NoInvalidLine(written)
          /\ \A t : findTag(written, t) =
                IF accessType = "Write" /\ t = tag THEN "Modified"
                ELSE findTag(old, t)
      <4>1. CASE accessType = "Write"
        BY <2>1, <3>2, <4>1, ChangeStateProperties DEF WellKept, CacheState
      <4>2. CASE accessType # "Write"
        BY <2>1, <4>2 DEF WellKept
      <4> QED
        BY <4>1, <4>2
    <3>4. IsCached(written, tag)
      <4>1. findTag(old, tag) # "Invalid"
        BY <2>1, <3>2, FindTagType DEF WellKept
      <4>2. findTag(written, tag) # "Invalid"
        BY <3>3, <4>1
      <4> HIDE DEF written
      <4> QED
        BY <3>3, <4>2, FindTagType
    <3> HIDE DEF written, new
    <3>5. /\ new \in Seq(LinesOver(Tags)) /\ Len(new) = Len(written)
          /\ UniqueTags(new) /\ NoInvalidLine(new)
          /\ \A t : findTag(new, t) = findTag(written, t)
      BY <3>1, <3>3, <3>4, UpdateLRUProperties
    <3>6. Len(new) <= Assoc
      BY <2>1, <3>3, <3>5, AssocAssumption, LenProperties DEF WellKept
    <3>7. WellKept(new)
      BY <3>5, <3>6 DEF WellKept
    <3>8. \A t \in Tags : findTag(new, t) =
             IF accessType = "Write" /\ t = tag THEN "Modified"
             ELSE findTag(old, t)
      BY <3>3, <3>5
    <3> QED
      BY <2>4, <3>7, <3>8 DEF new, old
  <2> QED
    BY <2>2, <2>3, <2>4
<1>4. caches' \in [Domains -> [Sets -> Seq(CacheLine)]]
  <2>1. caches' = [d \in Domains |-> [s \in Sets |->
                     SetAfterHit(set, tag, accessType, local, d, s)]]
    BY HitSets
  <2>2. \A d \in Domains, s \in Sets :
           SetAfterHit(set, tag, accessType, local, d, s) \in Seq(CacheLine)
    BY <1>3 DEF WellKept, CacheLine, LinesOver
  <2> QED
    BY <2>1, <2>2
<1>5. \A d \in Domains, s \in Sets : WellKept(caches'[d][s])
  BY <1>2, <1>3
<1>6. CachesOK'
  BY <1>4, <1>5 DEF CachesOK, SetsWellKept, WellKept
<1>7. \A d \in Domains, s \in Sets, t \in Tags :
         StateIn(d, s, t)' =
           IF accessType = "Write" /\ s = set /\ t = tag
           THEN IF d = local THEN "Modified" ELSE "Invalid"
           ELSE StateIn(d, s, t)
  BY <1>2, <1>3 DEF StateIn
<1> QED
  BY <1>6, <1>7

----------------------------------------------------------------------------
(* A miss.                                                                 *)

\* checkRemoteStates tells all that processMOESI needs: under coherence at most
\* one cache ends the search, and a search that no cache ends has seen them all.
LEMMA RemoteLookup ==
    ASSUME CachesOK, Coherence,
           NEW set \in Sets, NEW tag \in Tags, NEW local \in Domains
    PROVE  LET there == checkRemoteStates(set, tag, local)
           IN  /\ there.state \in CacheState
               /\ there.state = "Invalid" =>
                    \A i \in Others(local) : StateIn(i, set, tag) = "Invalid"
               /\ there.state = "Shared" =>
                    \A i \in Others(local) :
                       StateIn(i, set, tag) \in {"Shared", "Invalid"}
               /\ there.state \in {"Owned", "Exclusive", "Modified"} =>
                    /\ there.remote \in Others(local)
                    /\ StateIn(there.remote, set, tag) = there.state
PROOF
<1> DEFINE there == checkRemoteStates(set, tag, local)
           ends == Suppliers(set, tag, local)
<1>1. \A i \in Others(local) : i \in Domains /\ StateIn(i, set, tag) \in CacheState
  BY StateInType DEF Others
<1>2. CASE ends # {}
  <2>1. PICK i \in ends : TRUE
    BY <1>2
  <2>2. i \in Others(local) /\ i \in Domains
        /\ StateIn(i, set, tag) \in {"Owned", "Exclusive", "Modified"}
    BY <2>1, <1>1 DEF Suppliers
  <2>3. ASSUME NEW j \in ends, j # i PROVE FALSE
    <3>1. j \in Others(i)
          /\ StateIn(j, set, tag) \in {"Owned", "Exclusive", "Modified"}
      BY <2>3, <1>1 DEF Suppliers, Others
    <3>2. Compatible(StateIn(i, set, tag), StateIn(j, set, tag))
      BY <2>2, <3>1 DEF Coherence
    <3> QED
      BY <2>2, <3>1, <3>2 DEF Compatible
  <2>4. ends = {i}
    BY <2>1, <2>3
  <2>5. Min({i}) = i
    BY <2>2 DEF Min, Domains
  <2>6. there = [state |-> StateIn(i, set, tag), remote |-> i]
    BY <1>2, <2>4, <2>5 DEF checkRemoteStates
  <2> HIDE DEF there
  <2>7. there.state = StateIn(i, set, tag) /\ there.remote = i
    BY <2>6
  <2>8. there.state \in CacheState /\ there.state \notin {"Invalid", "Shared"}
    BY <2>2, <2>7 DEF CacheState
  <2> QED
    BY <2>2, <2>7, <2>8 DEF there
<1>3. CASE ends = {} /\ Sharers(set, tag, local) # {}
  <2>1. there.state = "Shared"
    BY <1>3 DEF checkRemoteStates
  <2>2. \A i \in Others(local) : StateIn(i, set, tag) \in {"Shared", "Invalid"}
    BY <1>1, <1>3 DEF Suppliers, CacheState
  <2> QED
    BY <2>1, <2>2 DEF CacheState
<1>4. CASE ends = {} /\ Sharers(set, tag, local) = {}
  <2>1. there.state = "Invalid"
    BY <1>4 DEF checkRemoteStates
  <2>2. \A i \in Others(local) : StateIn(i, set, tag) = "Invalid"
    BY <1>1, <1>4 DEF Suppliers, Sharers, CacheState
  <2> QED
    BY <2>1, <2>2 DEF CacheState
<1> QED
  BY <1>2, <1>3, <1>4

\* What processMOESI makes of a copy of the line in another cache.
RemoteState(there, accessType, d, state) ==
    IF accessType = "Write" THEN "Invalid"
    ELSE IF there.state \in {"Modified", "Owned"} /\ d = there.remote THEN "Owned"
    ELSE IF there.state = "Exclusive" /\ d = there.remote THEN "Shared"
    ELSE state

\* What a miss leaves in every set of every cache.
SetAfterMiss(set, tag, accessType, local, d, s) ==
    LET there == checkRemoteStates(set, tag, local)
        old == caches[d][s]
    IN  IF s # set THEN old
        ELSE IF d = local
        THEN insertLine(old, tag, NewState(there.state, accessType))
        ELSE IF accessType = "Write" /\ there.state # "Invalid"
        THEN changeState(old, tag, "Invalid")
        ELSE IF /\ accessType = "Read" /\ d = there.remote
                /\ there.state \in {"Modified", "Owned"}
        THEN changeState(old, tag, "Owned")
        ELSE IF /\ accessType = "Read" /\ d = there.remote
                /\ there.state = "Exclusive"
        THEN changeState(old, tag, "Shared")
        ELSE old

LEMMA MissSets ==
    ASSUME CachesOK, Coherence, NEW set \in Sets, NEW tag \in Tags,
           NEW local \in Domains, NEW accessType \in {"Read", "Write"}
    PROVE  CachesAfterMiss(set, tag, accessType, local) =
             [d \in Domains |-> [s \in Sets |->
                SetAfterMiss(set, tag, accessType, local, d, s)]]
PROOF
<1> DEFINE there == checkRemoteStates(set, tag, local)
           rest == RemoteCaches(there.state, accessType, set, tag, local,
                                there.remote)
           new == NewState(there.state, accessType)
<1>1. /\ there.state \in CacheState
      /\ there.state \in {"Owned", "Exclusive", "Modified"} =>
           there.remote \in Domains /\ there.remote # local
  BY RemoteLookup DEF Others
<1>2. caches \in [Domains -> [Sets -> Seq(CacheLine)]]
  BY DEF CachesOK
<1>3. CachesAfterMiss(set, tag, accessType, local) =
        [rest EXCEPT ![local][set] = insertLine(@, tag, new)]
  BY DEF CachesAfterMiss
<1>4. \A d \in Domains, s \in Sets : SetAfterMiss(set, tag, accessType, local, d, s) =
        IF s # set THEN caches[d][s]
        ELSE IF d = local THEN insertLine(caches[d][s], tag, new)
        ELSE IF accessType = "Write" /\ there.state # "Invalid"
        THEN changeState(caches[d][s], tag, "Invalid")
        ELSE IF /\ accessType = "Read" /\ d = there.remote
                /\ there.state \in {"Modified", "Owned"}
        THEN changeState(caches[d][s], tag, "Owned")
        ELSE IF /\ accessType = "Read" /\ d = there.remote
                /\ there.state = "Exclusive"
        THEN changeState(caches[d][s], tag, "Shared")
        ELSE caches[d][s]
  BY DEF SetAfterMiss
<1>5. rest = IF accessType = "Write" /\ there.state # "Invalid"
             THEN setRemoteStates(set, tag, "Invalid", local)
             ELSE IF accessType = "Read" /\ there.state \in {"Modified", "Owned"}
             THEN SetState(there.remote, set, tag, "Owned")
             ELSE IF accessType = "Read" /\ there.state = "Exclusive"
             THEN SetState(there.remote, set, tag, "Shared")
             ELSE caches
  BY DEF RemoteCaches
<1> HIDE DEF there, rest, new
<1> DEFINE Rest(d, s) ==
             IF s # set \/ d = local THEN caches[d][s]
             ELSE IF accessType = "Write" /\ there.state # "Invalid"
             THEN changeState(caches[d][s], tag, "Invalid")
             ELSE IF /\ accessType = "Read" /\ d = there.remote
                     /\ there.state \in {"Modified", "Owned"}
             THEN changeState(caches[d][s], tag, "Owned")
             ELSE IF /\ accessType = "Read" /\ d = there.remote
                     /\ there.state = "Exclusive"
             THEN changeState(caches[d][s], tag, "Shared")
             ELSE caches[d][s]
<1>6. rest = [d \in Domains |-> [s \in Sets |-> Rest(d, s)]]
  <2>1. CASE accessType = "Write" /\ there.state # "Invalid"
    <3>1. rest = [d \in Domains |->
             IF d = local THEN caches[d]
             ELSE [caches[d] EXCEPT
                     ![set] = changeState(caches[d][set], tag, "Invalid")]]
      BY <1>5, <2>1 DEF setRemoteStates
    <3> QED
      BY <1>2, <2>1, <3>1
  <2>2. CASE accessType = "Read" /\ there.state \in {"Modified", "Owned"}
    <3>1. rest = [caches EXCEPT ![there.remote][set] =
                    changeState(caches[there.remote][set], tag, "Owned")]
      BY <1>5, <2>2 DEF SetState
    <3> QED
      BY <1>1, <1>2, <2>2, <3>1
  <2>3. CASE accessType = "Read" /\ there.state = "Exclusive"
    <3>1. rest = [caches EXCEPT ![there.remote][set] =
                    changeState(caches[there.remote][set], tag, "Shared")]
      BY <1>5, <2>3 DEF SetState
    <3> QED
      BY <1>1, <1>2, <2>3, <3>1
  <2>4. CASE /\ accessType = "Write" => there.state = "Invalid"
             /\ accessType = "Read" =>
                  there.state \notin {"Modified", "Owned", "Exclusive"}
    BY <1>2, <1>5, <2>4
  <2> QED
    BY <2>1, <2>2, <2>3, <2>4
<1>7. rest[local][set] = caches[local][set]
  BY <1>6
<1>8. CachesAfterMiss(set, tag, accessType, local) =
        [rest EXCEPT ![local][set] = insertLine(caches[local][set], tag, new)]
  BY <1>3, <1>7
<1>9. CachesAfterMiss(set, tag, accessType, local) =
        [d \in Domains |-> [s \in Sets |->
           IF d = local /\ s = set
           THEN insertLine(caches[local][set], tag, new) ELSE Rest(d, s)]]
  <2> HIDE DEF Rest
  <2> QED
    BY <1>6, <1>8
<1>10. \A d \in Domains, s \in Sets :
         SetAfterMiss(set, tag, accessType, local, d, s) =
           IF d = local /\ s = set
           THEN insertLine(caches[local][set], tag, new) ELSE Rest(d, s)
  BY <1>4
<1> HIDE DEF Rest
<1> QED
  BY <1>9, <1>10

\* What a miss leaves behind: the line arrives in its new state, a write leaves
\* no other copy, a read takes its exclusiveness from another copy, and nothing
\* else changes but that the least recently used line may go.
LEMMA MissStates ==
    ASSUME CachesOK, Coherence, NEW set \in Sets, NEW tag \in Tags,
           NEW local \in Domains, NEW accessType \in {"Read", "Write"},
           StateIn(local, set, tag) = "Invalid",
           caches' = CachesAfterMiss(set, tag, accessType, local)
    PROVE  LET there == checkRemoteStates(set, tag, local)
               old == caches[local][set]
           IN  /\ CachesOK'
               /\ \A d \in Domains, s \in Sets, t \in Tags :
                    StateIn(d, s, t)' =
                      IF s = set /\ t = tag
                      THEN IF d = local THEN NewState(there.state, accessType)
                           ELSE RemoteState(there, accessType, d,
                                            StateIn(d, s, t))
                      ELSE IF /\ d = local /\ s = set
                              /\ Len(old) = Assoc /\ t = Head(old).tag
                      THEN "Invalid"
                      ELSE StateIn(d, s, t)
PROOF
<1> DEFINE there == checkRemoteStates(set, tag, local)
           new == NewState(there.state, accessType)
           after(d, s) == SetAfterMiss(set, tag, accessType, local, d, s)
           state(d, s, t) ==
             IF s = set /\ t = tag
             THEN IF d = local THEN new
                  ELSE RemoteState(there, accessType, d, StateIn(d, s, t))
             ELSE IF /\ d = local /\ s = set /\ Len(caches[local][set]) = Assoc
                     /\ t = Head(caches[local][set]).tag
             THEN "Invalid"
             ELSE StateIn(d, s, t)
<1>1. \A d \in Domains, s \in Sets : WellKept(caches[d][s])
  BY CachesOKMeans
<1>2. /\ there.state \in CacheState
      /\ there.state = "Invalid" =>
           \A i \in Others(local) : StateIn(i, set, tag) = "Invalid"
      /\ there.state \in {"Owned", "Exclusive", "Modified"} =>
           StateIn(there.remote, set, tag) = there.state
  BY RemoteLookup
<1>3. new \in CacheState /\ new # "Invalid"
  BY DEF NewState, CacheState
<1>4. \A d \in Domains, s \in Sets : after(d, s) =
        IF s # set THEN caches[d][s]
        ELSE IF d = local THEN insertLine(caches[d][s], tag, new)
        ELSE IF accessType = "Write" /\ there.state # "Invalid"
        THEN changeState(caches[d][s], tag, "Invalid")
        ELSE IF /\ accessType = "Read" /\ d = there.remote
                /\ there.state \in {"Modified", "Owned"}
        THEN changeState(caches[d][s], tag, "Owned")
        ELSE IF /\ accessType = "Read" /\ d = there.remote
                /\ there.state = "Exclusive"
        THEN changeState(caches[d][s], tag, "Shared")
        ELSE caches[d][s]
  BY DEF SetAfterMiss
<1>5. \A d \in Domains, s \in Sets : caches'[d][s] = after(d, s)
  <2> HIDE DEF after
  <2>1. caches' = [d \in Domains |-> [s \in Sets |->
                     SetAfterMiss(set, tag, accessType, local, d, s)]]
    BY MissSets
  <2> QED
    BY <2>1 DEF after
<1> HIDE DEF there, new, after
<1>6. ASSUME NEW d \in Domains, NEW s \in Sets
      PROVE  /\ WellKept(after(d, s))
             /\ \A t \in Tags : findTag(after(d, s), t) = state(d, s, t)
  <2> DEFINE old == caches[d][s]
             result == after(d, s)
  <2>1. WellKept(old) /\ Len(old) \in Nat /\ Assoc \in Nat
    BY <1>1, LenProperties, AssocAssumption DEF WellKept
  <2>2. \A t : StateIn(d, s, t) = findTag(old, t)
    BY DEF StateIn
  <2>3. CASE s # set
    BY <1>4, <2>1, <2>2, <2>3
  <2>4. CASE s = set /\ d = local
    <3>1. result = insertLine(old, tag, new)
      BY <1>4, <2>4
    <3>2. ~IsCached(old, tag)
      BY <2>4, StateInType
    <3>3. /\ result \in Seq(LinesOver(Tags)) /\ Len(result) <= Assoc
          /\ UniqueTags(result) /\ NoInvalidLine(result)
          /\ \A t : findTag(result, t) =
                IF t = tag THEN new
                ELSE IF Len(old) = Assoc /\ t = Head(old).tag THEN "Invalid"
                ELSE findTag(old, t)
      <4> HIDE DEF old, result
      <4> QED
        BY <1>3, <2>1, <3>1, <3>2, InsertLineProperties DEF WellKept
    <3>4. WellKept(result)
      BY <3>3 DEF WellKept
    <3> QED
      BY <2>2, <2>4, <3>3, <3>4
  <2>5. ASSUME s = set, d # local, NEW st \in CacheState,
               result = changeState(old, tag, st),
               RemoteState(there, accessType, d, StateIn(d, s, tag)) = st,
               StateIn(d, s, tag) # "Invalid" \/ st = "Invalid"
        PROVE  /\ WellKept(result)
               /\ \A t \in Tags : findTag(result, t) = state(d, s, t)
    <3>1. /\ result \in Seq(LinesOver(Tags)) /\ Len(result) <= Len(old)
          /\ UniqueTags(result) /\ NoInvalidLine(result)
          /\ \A t : findTag(result, t) =
                IF t = tag THEN IF IsCached(old, tag) THEN st ELSE "Invalid"
                ELSE findTag(old, t)
      <4> HIDE DEF old, result
      <4> QED
        BY <2>1, <2>5, ChangeStateProperties DEF WellKept
    <3>2. IsCached(old, tag) \/ st = "Invalid"
      BY <2>5, StateInType
    <3>3. Len(result) \in Nat
      BY <3>1, LenProperties
    <3>4. WellKept(result)
      BY <2>1, <3>1, <3>3 DEF WellKept
    <3>5. \A t \in Tags : findTag(result, t) = state(d, s, t)
      BY <2>2, <2>5, <3>1, <3>2
    <3> QED
      BY <3>4, <3>5
  <2>6. CASE s = set /\ d # local
    <3> HIDE DEF state
    <3>1. CASE accessType = "Write" /\ there.state # "Invalid"
      BY <1>4, <2>5, <2>6, <3>1 DEF RemoteState, CacheState
    <3>2. CASE /\ accessType = "Read" /\ d = there.remote
               /\ there.state \in {"Modified", "Owned"}
      BY <1>2, <1>4, <2>5, <2>6, <3>2 DEF RemoteState, CacheState
    <3>3. CASE /\ accessType = "Read" /\ d = there.remote
               /\ there.state = "Exclusive"
      BY <1>2, <1>4, <2>5, <2>6, <3>3 DEF RemoteState, CacheState
    <3>4. CASE /\ accessType = "Write" => there.state = "Invalid"
               /\ accessType = "Read" /\ d = there.remote =>
                    there.state \notin {"Modified", "Owned", "Exclusive"}
      <4>1. result = old
        BY <1>4, <2>6, <3>4
      <4>2. RemoteState(there, accessType, d, StateIn(d, s, tag))
              = StateIn(d, s, tag)
        BY <1>2, <2>6, <3>4 DEF RemoteState, Others
      <4> QED
        BY <2>1, <2>2, <2>6, <4>1, <4>2 DEF state
    <3> QED
      BY <3>1, <3>2, <3>3, <3>4
  <2> QED
    BY <2>3, <2>4, <2>6
<1>7. caches' \in [Domains -> [Sets -> Seq(CacheLine)]]
  <2>1. caches' = [d \in Domains |-> [s \in Sets |-> after(d, s)]]
    BY MissSets DEF after
  <2>2. \A d \in Domains, s \in Sets : after(d, s) \in Seq(CacheLine)
    BY <1>6 DEF WellKept, CacheLine, LinesOver
  <2> QED
    BY <2>1, <2>2
<1>8. \A d \in Domains, s \in Sets : WellKept(caches'[d][s])
  BY <1>5, <1>6
<1>9. CachesOK'
  BY <1>7, <1>8 DEF CachesOK, SetsWellKept, WellKept
<1>10. \A d \in Domains, s \in Sets, t \in Tags :
         StateIn(d, s, t)' = state(d, s, t)
  <2> HIDE DEF state
  <2> QED
    BY <1>5, <1>6 DEF StateIn
<1> QED
  BY <1>9, <1>10 DEF there, new

----------------------------------------------------------------------------
(* Coherence is preserved.  Only the copies of the line that is accessed   *)
(* can be made incompatible: elsewhere a copy keeps its state or goes.     *)

LEMMA HitKeepsCoherence ==
    ASSUME CachesOK, Coherence, NEW line \in Lines, NEW local \in Domains,
           NEW accessType \in {"Read", "Write"}, Hit(line, accessType, local)
    PROVE  CachesOK' /\ Coherence'
PROOF
<1> DEFINE set == SetOf(line)
           tag == TagOf(line)
<1>1. set \in Sets /\ tag \in Tags
  BY LineParts
<1>2. StateIn(local, set, tag) # "Invalid"
      /\ caches' = CachesAfterHit(set, tag, accessType, local)
  BY DEF Hit, IsHit
<1> HIDE DEF set, tag
<1>3. /\ CachesOK'
      /\ \A d \in Domains, s \in Sets, t \in Tags :
           StateIn(d, s, t)' =
             IF accessType = "Write" /\ s = set /\ t = tag
             THEN IF d = local THEN "Modified" ELSE "Invalid"
             ELSE StateIn(d, s, t)
  BY <1>1, <1>2, HitStates
<1>4. ASSUME NEW s \in Sets, NEW t \in Tags, NEW d \in Domains,
             NEW e \in Others(d)
      PROVE  Compatible(StateIn(d, s, t)', StateIn(e, s, t)')
  <2>1. e \in Domains /\ e # d
    BY DEF Others
  <2>2. Compatible(StateIn(d, s, t), StateIn(e, s, t))
    BY DEF Coherence
  <2> QED
    BY <1>3, <2>1, <2>2 DEF Compatible
<1>5. Coherence'
  BY <1>4 DEF Coherence, Compatible
<1> QED
  BY <1>3, <1>5

LEMMA MissKeepsCoherence ==
    ASSUME CachesOK, Coherence, NEW line \in Lines, NEW local \in Domains,
           NEW accessType \in {"Read", "Write"}, Miss(line, accessType, local)
    PROVE  CachesOK' /\ Coherence'
PROOF
<1> DEFINE set == SetOf(line)
           tag == TagOf(line)
           there == checkRemoteStates(set, tag, local)
           old == caches[local][set]
           new == NewState(there.state, accessType)
<1>1. set \in Sets /\ tag \in Tags
  BY LineParts
<1>2. StateIn(local, set, tag) = "Invalid"
      /\ caches' = CachesAfterMiss(set, tag, accessType, local)
  BY DEF Miss, IsHit
<1> HIDE DEF set, tag
<1>3. /\ CachesOK'
      /\ \A d \in Domains, s \in Sets, t \in Tags :
           StateIn(d, s, t)' =
             IF s = set /\ t = tag
             THEN IF d = local THEN new
                  ELSE RemoteState(there, accessType, d, StateIn(d, s, t))
             ELSE IF d = local /\ s = set /\ Len(old) = Assoc /\ t = Head(old).tag
             THEN "Invalid"
             ELSE StateIn(d, s, t)
  BY <1>1, <1>2, MissStates
<1>4. /\ there.state \in CacheState
      /\ there.state = "Invalid" =>
           \A i \in Others(local) : StateIn(i, set, tag) = "Invalid"
      /\ there.state = "Shared" =>
           \A i \in Others(local) : StateIn(i, set, tag) \in {"Shared", "Invalid"}
      /\ there.state \in {"Owned", "Exclusive", "Modified"} =>
           /\ there.remote \in Others(local)
           /\ StateIn(there.remote, set, tag) = there.state
  BY <1>1, RemoteLookup
<1>5. new = IF accessType = "Write" THEN "Modified"
            ELSE IF there.state = "Invalid" THEN "Exclusive" ELSE "Shared"
  BY DEF NewState
<1> HIDE DEF there, old, new
<1>6. \A d \in Domains, s \in Sets, t \in Tags : \A e \in Others(d) :
        /\ e \in Domains /\ e # d
        /\ StateIn(d, s, t) \in CacheState
        /\ Compatible(StateIn(d, s, t), StateIn(e, s, t))
  BY StateInType DEF Others, Coherence
<1>7. ASSUME NEW s \in Sets, NEW t \in Tags, NEW d \in Domains,
             NEW e \in Others(d)
      PROVE  Compatible(StateIn(d, s, t)', StateIn(e, s, t)')
  <2>1. /\ e \in Domains /\ e # d
        /\ Compatible(StateIn(d, s, t), StateIn(e, s, t))
    BY <1>6
  <2>2. CASE ~(s = set /\ t = tag)
    BY <1>3, <2>1, <2>2 DEF Compatible
  <2>3. CASE s = set /\ t = tag
    <3>1. \A i \in Others(local) :
            i \in Domains /\ i # local
              /\ StateIn(i, set, tag)' =
                   RemoteState(there, accessType, i, StateIn(i, set, tag))
      BY <1>1, <1>3 DEF Others
    <3>2. StateIn(local, set, tag)' = new
      BY <1>1, <1>3
    <3>3. \A i \in Others(local) :
            /\ Compatible(new, StateIn(i, set, tag)')
            /\ Compatible(StateIn(i, set, tag)', new)
      <4>1. TAKE i \in Others(local)
      <4>2. StateIn(i, set, tag) \in CacheState
        BY <1>1, <3>1, StateInType
      <4>3. there.state \in {"Owned", "Exclusive", "Modified"}
                /\ i # there.remote =>
              Compatible(there.state, StateIn(i, set, tag))
        BY <1>1, <1>4, <1>6, <3>1 DEF Others
      <4> QED
        BY <1>4, <1>5, <3>1, <4>2, <4>3 DEF RemoteState, Compatible, CacheState
    <3>4. CASE d = local
      BY <2>3, <3>2, <3>3, <3>4
    <3>5. CASE e = local
      <4>1. d \in Others(local)
        BY <2>1, <3>5 DEF Others
      <4> QED
        BY <2>3, <3>2, <3>3, <3>5, <4>1
    <3>6. CASE d # local /\ e # local
      <4>1. d \in Others(local) /\ e \in Others(local)
        BY <2>1, <3>6 DEF Others
      <4>2. /\ StateIn(d, set, tag)' =
                 RemoteState(there, accessType, d, StateIn(d, set, tag))
            /\ StateIn(e, set, tag)' =
                 RemoteState(there, accessType, e, StateIn(e, set, tag))
        BY <3>1, <4>1
      <4>3. /\ Compatible(StateIn(d, set, tag), StateIn(e, set, tag))
            /\ StateIn(d, set, tag) \in CacheState
            /\ StateIn(e, set, tag) \in CacheState
        BY <1>1, <2>1, <2>3, StateInType
      <4> QED
        BY <1>4, <2>1, <2>3, <4>2, <4>3 DEF RemoteState, Compatible, CacheState
    <3> QED
      BY <3>4, <3>5, <3>6
  <2> QED
    BY <2>2, <2>3
<1>8. Coherence'
  BY <1>7 DEF Coherence, Compatible
<1> QED
  BY <1>3, <1>8

----------------------------------------------------------------------------
(* The homes of the pages.                                                 *)

HomeMapOK(homes) ==
    /\ DOMAIN homes \subseteq Pages
    /\ \A p \in DOMAIN homes : homes[p] \in Domains

\* Homed only ever adds the page: what it is told of others, it keeps.
LEMMA HomedProperties ==
    ASSUME NEW homes, HomeMapOK(homes), NEW page \in Pages,
           NEW domain \in Domains
    PROVE  LET after == Homed(homes, page, domain)
           IN  /\ HomeMapOK(after)
               /\ DOMAIN after = DOMAIN homes \cup {page}
               /\ \A p \in DOMAIN homes : after[p] = homes[p]
BY DEF Homed, HomeMapOK

\* Every resident line is a line of the address space whose page has a home.
\* (The set and the tag of a line determine it, but not every sum of a set and
\* a tag is a line when the address space is no multiple of NumSets.)
ResidentLinesOK ==
    \A d \in Domains, s \in Sets, t \in Tags :
        StateIn(d, s, t) # "Invalid" =>
          s + t \in Lines /\ PageOf(s + t) \in DOMAIN pageToDomain

\* The inductive invariant.
Inv ==
    /\ PageTableOK /\ StatsOK /\ seenLines \subseteq Lines
    /\ CachesOK /\ Coherence
    /\ HomeMapOK(pageToDomain) /\ ResidentLinesOK

\* The line that a miss evicts from a full set is a resident one.
LEMMA EvictedLine ==
    ASSUME CachesOK, ResidentLinesOK, NEW set \in Sets, NEW local \in Domains,
           checkWriteback(caches[local][set])
    PROVE  LET evicted == set + Head(caches[local][set]).tag
           IN  evicted \in Lines /\ PageOf(evicted) \in DOMAIN pageToDomain
PROOF
<1> DEFINE old == caches[local][set]
           tag == Head(old).tag
<1>1. WellKept(old) /\ old # << >>
  BY CachesOKMeans, AssocAssumption, LenProperties
     DEF checkWriteback, WellKept, CachesOK, SetsWellKept
<1>2. /\ Head(old) = old[1] /\ 1 \in DOMAIN old
      /\ findTag(old, tag) = Head(old).state
  <2> HIDE DEF old
  <2> QED
    BY <1>1, FrontIsCached DEF WellKept
<1>3. tag \in Tags
  <2> HIDE DEF old
  <2>1. old[1] \in LinesOver(Tags)
    BY <1>1, <1>2, LenProperties, ElementOfSeq DEF WellKept
  <2> QED
    BY <1>2, <2>1 DEF LinesOver
<1>4. StateIn(local, set, tag) # "Invalid"
  BY <1>2 DEF StateIn, checkWriteback, DirtyStates
<1> QED
  BY <1>3, <1>4 DEF ResidentLinesOK

\* What a step does to the homes, hit or miss.
LEMMA HomesStep ==
    ASSUME Inv, NEW line \in Lines, NEW local \in Domains, NEW accessType,
           Hit(line, accessType, local) \/ Miss(line, accessType, local)
    PROVE  /\ HomeMapOK(pageToDomain)'
           /\ PageOf(line) \in DOMAIN pageToDomain'
           /\ \A p \in DOMAIN pageToDomain :
                p \in DOMAIN pageToDomain' /\ pageToDomain'[p] = pageToDomain[p]
PROOF
<1> DEFINE homes == updatePageToDomain(line, local)
           set == SetOf(line)
           evicted == set + Head(caches[local][set]).tag
<1>1. PageOf(line) \in Pages /\ set \in Sets
  BY LineParts, PageParts
<1>2. /\ HomeMapOK(homes)
      /\ DOMAIN homes = DOMAIN pageToDomain \cup {PageOf(line)}
      /\ \A p \in DOMAIN pageToDomain : homes[p] = pageToDomain[p]
  BY <1>1, HomedProperties DEF updatePageToDomain, Inv
<1>3. \/ pageToDomain' = homes
      \/ /\ checkWriteback(caches[local][set])
         /\ pageToDomain' = Homed(homes, PageOf(evicted), 0)
  BY DEF Hit, Miss
<1> HIDE DEF homes
<1>4. CASE pageToDomain' = homes
  BY <1>2, <1>4 DEF HomeMapOK
<1>5. CASE /\ checkWriteback(caches[local][set])
           /\ pageToDomain' = Homed(homes, PageOf(evicted), 0)
  <2>1. evicted \in Lines
    BY <1>1, <1>5, EvictedLine DEF Inv
  <2>2. PageOf(evicted) \in Pages /\ 0 \in Domains
    <3> HIDE DEF evicted
    <3> QED
      BY <2>1, PageParts, MultiAssumption DEF Domains
  <2> HIDE DEF evicted
  <2>3. /\ HomeMapOK(pageToDomain')
        /\ DOMAIN pageToDomain' = DOMAIN homes \cup {PageOf(evicted)}
        /\ \A p \in DOMAIN homes : pageToDomain'[p] = homes[p]
    BY <1>2, <1>5, <2>2, HomedProperties
  <2> QED
    BY <1>2, <2>3 DEF HomeMapOK
<1> QED
  BY <1>3, <1>4, <1>5

\* The lines that are resident after a step were resident before it, except the
\* line of the access.
LEMMA ResidentStep ==
    ASSUME Inv, NEW line \in Lines, NEW local \in Domains,
           NEW accessType \in {"Read", "Write"},
           Hit(line, accessType, local) \/ Miss(line, accessType, local),
           NEW d \in Domains, NEW s \in Sets, NEW t \in Tags,
           StateIn(d, s, t)' # "Invalid"
    PROVE  StateIn(d, s, t) # "Invalid" \/ s + t = line
PROOF
<1> DEFINE set == SetOf(line)
           tag == TagOf(line)
<1>1. set \in Sets /\ tag \in Tags /\ set + tag = line
  BY LineParts
<1>2. CASE Hit(line, accessType, local)
  <2>1. StateIn(local, set, tag) # "Invalid"
        /\ caches' = CachesAfterHit(set, tag, accessType, local)
    BY <1>2 DEF Hit, IsHit
  <2> HIDE DEF set, tag
  <2>2. StateIn(d, s, t)' =
          IF accessType = "Write" /\ s = set /\ t = tag
          THEN IF d = local THEN "Modified" ELSE "Invalid"
          ELSE StateIn(d, s, t)
    BY <1>1, <2>1, HitStates DEF Inv
  <2> QED
    BY <1>1, <2>2
<1>3. CASE Miss(line, accessType, local)
  <2>1. StateIn(local, set, tag) = "Invalid"
        /\ caches' = CachesAfterMiss(set, tag, accessType, local)
    BY <1>3 DEF Miss, IsHit
  <2> HIDE DEF set, tag
  <2>2. s # set \/ t # tag =>
          StateIn(d, s, t)' = "Invalid" \/ StateIn(d, s, t)' = StateIn(d, s, t)
    BY <1>1, <2>1, MissStates DEF Inv
  <2> QED
    BY <1>1, <2>2
<1> QED
  BY <1>2, <1>3

----------------------------------------------------------------------------
(* The invariant.                                                          *)

LEMMA InitInv ==
    ASSUME Init
    PROVE  Inv
PROOF
<1>1. \A d \in Domains, s \in Sets : caches[d][s] = << >>
  BY DEF Init
<1>2. \A tag : ~IsCached(<< >>, tag)
  BY DEF IsCached
<1>3. \A d \in Domains, s \in Sets, t \in Tags : StateIn(d, s, t) = "Invalid"
  BY <1>1, <1>2 DEF StateIn, findTag
<1>4. SetsWellKept
  BY <1>1, AssocAssumption DEF SetsWellKept, UniqueTags, NoInvalidLine
<1>5. CachesOK
  BY <1>4 DEF Init, CachesOK
<1>6. Coherence
  BY <1>3 DEF Coherence, Compatible, Others
<1>7. HomeMapOK(pageToDomain) /\ ResidentLinesOK
  BY <1>3 DEF Init, HomeMapOK, ResidentLinesOK
<1>8. PageTableOK /\ StatsOK /\ seenLines \subseteq Lines
  BY SystemInitOK DEF Init
<1> QED
  BY <1>5, <1>6, <1>7, <1>8 DEF Inv

\* One access keeps all of the invariant.
LEMMA AccessInv ==
    ASSUME Inv, NEW address \in Lines, NEW accessType \in {"Read", "Write"},
           NEW tid \in Threads, memAccess(address, accessType, tid)
    PROVE  Inv'
PROOF
<1> DEFINE line == PhysLine(address)
           local == TidToDomain[tid]
<1>1. line \in Lines
  BY PhysLineType DEF Inv
<1>2. local \in Domains
  BY MultiAssumption
<1>3. /\ virtToPhys(address) /\ checkCompulsory(line, accessType)
      /\ Hit(line, accessType, local) \/ Miss(line, accessType, local)
  BY DEF memAccess
<1> HIDE DEF line, local
<1>4. PageTableOK'
  BY <1>3, VirtToPhysKeepsPageTable DEF Inv
<1>5. StatsOK'
  BY <1>3, CountKeepsStats DEF Inv, Hit, Miss
<1>6. (seenLines \subseteq Lines)'
  BY <1>1, <1>3, CheckCompulsoryKeepsLines DEF Inv
<1>7. CachesOK' /\ Coherence'
  BY <1>1, <1>2, <1>3, HitKeepsCoherence, MissKeepsCoherence DEF Inv
<1>8. /\ HomeMapOK(pageToDomain)'
      /\ PageOf(line) \in DOMAIN pageToDomain'
      /\ DOMAIN pageToDomain \subseteq DOMAIN pageToDomain'
  BY <1>1, <1>2, <1>3, HomesStep
<1>9. ResidentLinesOK'
  <2>1. ASSUME NEW d \in Domains, NEW s \in Sets, NEW t \in Tags,
               StateIn(d, s, t)' # "Invalid"
        PROVE  s + t \in Lines /\ PageOf(s + t) \in DOMAIN pageToDomain'
    <3>1. StateIn(d, s, t) # "Invalid" \/ s + t = line
      BY <1>1, <1>2, <1>3, <2>1, ResidentStep
    <3> QED
      BY <1>1, <1>8, <3>1 DEF Inv, ResidentLinesOK
  <2> QED
    BY <2>1 DEF ResidentLinesOK, PageOf
<1> QED
  BY <1>4, <1>5, <1>6, <1>7, <1>8, <1>9 DEF Inv

\* Inv is inductive.
THEOREM Invariance == Spec => []Inv
PROOF
<1>1. Init => Inv
  BY InitInv
<1>2. Inv /\ [Next]_vars => Inv'
  <2> SUFFICES ASSUME Inv, [Next]_vars PROVE Inv'
    OBVIOUS
  <2>1. CASE Next
    BY <2>1, AccessInv DEF Next
  <2>2. CASE UNCHANGED vars
    BY <2>2 DEF Inv, vars, PageTableOK, TranslationInjective, StatsOK,
                CachesOK, SetsWellKept, Coherence, StateIn, HomeMapOK,
                ResidentLinesOK
  <2> QED
    BY <2>1, <2>2
<1> QED
  BY <1>1, <1>2, PTL DEF Spec

----------------------------------------------------------------------------
(* What the invariant says of the system.                                  *)

\* The state of every cache, page table, home map and counter keeps its type,
\* whatever is accessed.
THEOREM TypeCorrect == Spec => []TypeOK
PROOF
<1>1. Inv => TypeOK
  BY SystemTypeParts DEF Inv, TypeOK, CachesOK, HomeMapOK
<1> QED
  BY <1>1, Invariance, PTL

\* No set ever holds a line twice, an Invalid line, or more than Assoc lines:
\* findTag, changeState and updateLRU (cache.cpp) never miss a copy.
THEOREM SetsAlwaysWellKept == Spec => []SetsWellKept
PROOF
<1>1. Inv => SetsWellKept
  BY DEF Inv, CachesOK
<1> QED
  BY <1>1, Invariance, PTL

\* The copies of a line are compatible under MOESI, for any number of caches and
\* any order of the accesses (processMOESI and the write hit of memAccess).
THEOREM Coherent == Spec => []Coherence
PROOF
<1>1. Inv => Coherence
  BY DEF Inv
<1> QED
  BY <1>1, Invariance, PTL

\* Translated addresses never alias (virtToPhys), however many pages there are.
THEOREM NoAliases == Spec => []TranslationInjective
PROOF
<1>1. Inv => TranslationInjective
  BY DEF Inv, PageTableOK
<1> QED
  BY <1>1, Invariance, PTL

\* The home of every resident line is known when it is evicted or looked up:
\* the assertions of evictTraffic and isLocal never fail.
THEOREM HomesAlwaysKnown == Spec => []HomesKnown
PROOF
<1>1. ASSUME Inv, NEW d \in Domains, NEW s \in Sets,
             NEW i \in DOMAIN caches[d][s]
      PROVE  PageOf(s + caches[d][s][i].tag) \in DOMAIN pageToDomain
  <2> DEFINE set == caches[d][s]
  <2>1. WellKept(set)
    BY <1>1, CachesOKMeans DEF Inv
  <2> HIDE DEF set
  <2>2. i \in DOMAIN set
    BY <1>1 DEF set
  <2>3. findTag(set, set[i].tag) = set[i].state
    BY <2>1, <2>2, FirstWayIsIndex DEF WellKept
  <2>4. set[i] \in LinesOver(Tags)
    BY <2>1, <2>2, LenProperties, ElementOfSeq DEF WellKept
  <2>5. set[i].tag \in Tags /\ StateIn(d, s, set[i].tag) # "Invalid"
    BY <2>1, <2>2, <2>3, <2>4 DEF StateIn, set, WellKept, NoInvalidLine, LinesOver
  <2> QED
    BY <1>1, <2>5 DEF Inv, ResidentLinesOK, set
<1>2. Inv => HomesKnown
  BY <1>1 DEF HomesKnown
<1> QED
  BY <1>2, Invariance, PTL

\* First touch is final: no access and no eviction moves the home of a page.
THEOREM HomesStay == Spec => HomesNeverMove
PROOF
<1> DEFINE Stay == \A p \in DOMAIN pageToDomain :
              p \in DOMAIN pageToDomain' /\ pageToDomain'[p] = pageToDomain[p]
<1>1. Inv /\ [Next]_vars => [Stay]_vars
  <2> SUFFICES ASSUME Inv, Next PROVE Stay
    OBVIOUS
  <2>1. PICK address \in Lines, accessType \in {"Read", "Write"}, tid \in Threads :
          memAccess(address, accessType, tid)
    BY DEF Next
  <2>2. PhysLine(address) \in Lines
    BY PhysLineType DEF Inv
  <2>3. TidToDomain[tid] \in Domains
    BY MultiAssumption
  <2>4. \/ Hit(PhysLine(address), accessType, TidToDomain[tid])
        \/ Miss(PhysLine(address), accessType, TidToDomain[tid])
    BY <2>1 DEF memAccess
  <2> QED
    BY <2>2, <2>3, <2>4, HomesStep
<1> QED
  BY <1>1, Invariance, PTL DEF Spec, HomesNeverMove

\* A line is read from memory only while no cache holds it dirty: what isLocal
\* counts as a memory read never is stale data.
THEOREM ReadsFromMemoryAreFresh == Spec => MemoryReadsAreFresh
PROOF
<1> DEFINE Fresh == Bumped("local_reads") \/ Bumped("remote_reads") =>
             \A d, e \in Domains, s \in Sets, t \in Tags :
                Filled(d, s, t) => StateIn(e, s, t) \notin DirtyStates
<1>1. ASSUME Inv, Next,
             Bumped("local_reads") \/ Bumped("remote_reads"),
             NEW d \in Domains, NEW e \in Domains, NEW s \in Sets, NEW t \in Tags,
             Filled(d, s, t)
      PROVE  StateIn(e, s, t) \notin DirtyStates
  <2>1. PICK address \in Lines, accessType \in {"Read", "Write"}, tid \in Threads :
          memAccess(address, accessType, tid)
    BY <1>1 DEF Next
  <2> DEFINE line == PhysLine(address)
             local == TidToDomain[tid]
             set == SetOf(line)
             tag == TagOf(line)
             there == checkRemoteStates(set, tag, local)
             homes == updatePageToDomain(line, local)
  <2>2. line \in Lines /\ local \in Domains
    BY <1>1, PhysLineType, MultiAssumption DEF Inv
  <2>3. set \in Sets /\ tag \in Tags
    BY <2>2, LineParts
  <2>4. ~Hit(line, accessType, local)
    BY <1>1, SystemAssumption
       DEF Hit, Count, AccessStats, Bumped, StatNames
  <2>5. Miss(line, accessType, local)
    BY <2>1, <2>4 DEF memAccess
  <2>6. /\ StateIn(local, set, tag) = "Invalid"
        /\ caches' = CachesAfterMiss(set, tag, accessType, local)
    BY <2>5 DEF Miss, IsHit
  <2>7. SourceOf(there.state, accessType, homes[PageOf(line)] = local)
          \cap {"local_reads", "remote_reads"} # {}
    BY <1>1, <2>5 DEF Miss, Count, AccessStats, evictTraffic, Bumped, StatNames
  <2>8. there.state \in {"Invalid", "Shared"}
    BY <2>7 DEF SourceOf
  <2>9. \A i \in Others(local) : StateIn(i, set, tag) \in {"Shared", "Invalid"}
    BY <1>1, <2>2, <2>3, <2>8, RemoteLookup DEF Inv
  <2> HIDE DEF line, local, set, tag, there
  <2>10. StateIn(d, s, t) = "Invalid" /\ StateIn(d, s, t)' # "Invalid"
    BY <1>1 DEF Filled
  <2>11. s = set /\ t = tag
    BY <1>1, <2>2, <2>3, <2>6, <2>10, MissStates DEF Inv
  <2>12. e = local \/ e \in Others(local)
    BY DEF Others
  <2> QED
    BY <2>6, <2>9, <2>11, <2>12 DEF DirtyStates
<1>2. Inv /\ [Next]_vars => [Fresh]_vars
  <2> SUFFICES ASSUME Inv, Next PROVE Fresh
    OBVIOUS
  <2> QED
    BY <1>1
<1> QED
  BY <1>2, Invariance, PTL DEF Spec, MemoryReadsAreFresh

\* A demand access bumps "accesses" and exactly one of the four counters that
\* accesses are made of.
LEMMA AccountedOnce ==
    ASSUME Inv, StatsBalance, NEW line, NEW local,
           NEW accessType \in {"Read", "Write"},
           Hit(line, accessType, local) \/ Miss(line, accessType, local)
    PROVE  StatsBalance'
PROOF
<1> DEFINE M == CounterMod
           Parts == {"hits", "local_reads", "remote_reads", "othercache_reads"}
           h == stats["hits"]
           l == stats["local_reads"]
           r == stats["remote_reads"]
           o == stats["othercache_reads"]
           n == stats["accesses"]
<1>1. M \in Nat \ {0}
  BY SystemAssumption
<1>2. /\ h \in 0 .. M - 1 /\ l \in 0 .. M - 1 /\ r \in 0 .. M - 1
      /\ o \in 0 .. M - 1 /\ n \in 0 .. M - 1
  BY DEF Inv, StatsOK, StatNames
<1>3. (h + l + r + o) % M = n
  BY DEF StatsBalance
<1>4. PICK part \in Parts :
        /\ stats'["accesses"] = (n + 1) % M
        /\ \A p \in Parts : stats'[p] = IF p = part THEN (stats[p] + 1) % M
                                       ELSE stats[p]
  <2>1. CASE Hit(line, accessType, local)
    BY <2>1 DEF Hit, Count, AccessStats, StatNames
  <2>2. CASE Miss(line, accessType, local)
    BY <2>2 DEF Miss, Count, AccessStats, evictTraffic, SourceOf, StatNames
  <2> QED
    BY <2>1, <2>2
<1>5. StatsBalance' <=>
        (stats'["hits"] + stats'["local_reads"] + stats'["remote_reads"]
           + stats'["othercache_reads"]) % M = stats'["accesses"]
  BY DEF StatsBalance
<1> HIDE DEF h, l, r, o, n
<1>6. CASE part = "hits"
  <2> DEFINE rest == l + r + o
             p == (h + 1) % M
  <2>1. rest \in Nat /\ h + rest = h + l + r + o /\ p \in Nat
    BY <1>1, <1>2
  <2>2. p + rest = p + l + r + o
    BY <1>2, <2>1
  <2>3. (p + rest) % M = (n + 1) % M
    BY <1>1, <1>2, <1>3, <2>1, CountedOnce
  <2>4. /\ stats'["hits"] = p /\ stats'["local_reads"] = l
        /\ stats'["remote_reads"] = r /\ stats'["othercache_reads"] = o
        /\ stats'["accesses"] = (n + 1) % M
    BY <1>4, <1>6 DEF h, l, r, o, n
  <2> HIDE DEF p, rest
  <2> QED
    BY <1>5, <2>2, <2>3, <2>4
<1>7. CASE part = "local_reads"
  <2> DEFINE rest == h + r + o
             p == (l + 1) % M
  <2>1. rest \in Nat /\ l + rest = h + l + r + o /\ p \in Nat
    BY <1>1, <1>2
  <2>2. p + rest = h + p + r + o
    BY <1>2, <2>1
  <2>3. (p + rest) % M = (n + 1) % M
    BY <1>1, <1>2, <1>3, <2>1, CountedOnce
  <2>4. /\ stats'["hits"] = h /\ stats'["local_reads"] = p
        /\ stats'["remote_reads"] = r /\ stats'["othercache_reads"] = o
        /\ stats'["accesses"] = (n + 1) % M
    BY <1>4, <1>7 DEF h, l, r, o, n
  <2> HIDE DEF p, rest
  <2> QED
    BY <1>5, <2>2, <2>3, <2>4
<1>8. CASE part = "remote_reads"
  <2> DEFINE rest == h + l + o
             p == (r + 1) % M
  <2>1. rest \in Nat /\ r + rest = h + l + r + o /\ p \in Nat
    BY <1>1, <1>2
  <2>2. p + rest = h + l + p + o
    BY <1>2, <2>1
  <2>3. (p + rest) % M = (n + 1) % M
    BY <1>1, <1>2, <1>3, <2>1, CountedOnce
  <2>4. /\ stats'["hits"] = h /\ stats'["local_reads"] = l
        /\ stats'["remote_reads"] = p /\ stats'["othercache_reads"] = o
        /\ stats'["accesses"] = (n + 1) % M
    BY <1>4, <1>8 DEF h, l, r, o, n
  <2> HIDE DEF p, rest
  <2> QED
    BY <1>5, <2>2, <2>3, <2>4
<1>9. CASE part = "othercache_reads"
  <2> DEFINE rest == h + l + r
             p == (o + 1) % M
  <2>1. rest \in Nat /\ o + rest = h + l + r + o /\ p \in Nat
    BY <1>1, <1>2
  <2>2. p + rest = h + l + r + p
    BY <1>2, <2>1
  <2>3. (p + rest) % M = (n + 1) % M
    BY <1>1, <1>2, <1>3, <2>1, CountedOnce
  <2>4. /\ stats'["hits"] = h /\ stats'["local_reads"] = l
        /\ stats'["remote_reads"] = r /\ stats'["othercache_reads"] = p
        /\ stats'["accesses"] = (n + 1) % M
    BY <1>4, <1>9 DEF h, l, r, o, n
  <2> HIDE DEF p, rest
  <2> QED
    BY <1>5, <2>2, <2>3, <2>4
<1> QED
  BY <1>4, <1>6, <1>7, <1>8, <1>9

\* Every access is accounted for exactly once, for any number of caches and
\* wherever the counters wrap (SystemStats).
THEOREM StatsAlwaysBalance == Spec => []StatsBalance
PROOF
<1>1. Init => StatsBalance
  <2>1. 0 % CounterMod = 0
    BY SystemAssumption
  <2> QED
    BY <2>1 DEF Init, SystemInit, StatsBalance, StatNames
<1>2. Inv /\ StatsBalance /\ [Next]_vars => StatsBalance'
  <2> SUFFICES ASSUME Inv, StatsBalance, [Next]_vars PROVE StatsBalance'
    OBVIOUS
  <2>1. CASE Next
    <3>1. PICK address \in Lines, accessType \in {"Read", "Write"},
               tid \in Threads : memAccess(address, accessType, tid)
      BY <2>1 DEF Next
    <3> QED
      BY <3>1, AccountedOnce DEF memAccess
  <2>2. CASE UNCHANGED vars
    BY <2>2 DEF vars, StatsBalance
  <2> QED
    BY <2>1, <2>2
<1> QED
  BY <1>1, <1>2, Invariance, PTL DEF Spec

----------------------------------------------------------------------------
(* What the caches share, by states.  The mapping of MultiCacheSharing     *)
(* reads the deques.  MappingOK says it in terms of findTag, the way the   *)
(* code looks at them: a cache holds the lines that it finds, and the      *)
(* owner of a line is the one cache that finds it dirty, which is unique   *)
(* by Coherence.  HitStates and MissStates then turn each access into a    *)
(* step of CoherentSharing.                                                *)

State(d, line) == StateIn(d, SetOf(line), TagOf(line))

MappingOK ==
    \A line \in Lines :
        /\ LineHolders[line] = {d \in Domains : State(d, line) # "Invalid"}
        /\ LineOwner[line] \in Domains \cup {NumDomains}
        /\ \A d \in Domains :
              LineOwner[line] = d <=> State(d, line) \in DirtyStates

\* A copy of the line in the deque is what findTag finds.
LEMMA CopyIsFound ==
    ASSUME CachesOK, NEW d \in Domains, NEW line \in Lines
    PROVE  /\ Copies(d, line) # {} <=> State(d, line) # "Invalid"
           /\ Owes(d, line) <=> State(d, line) \in DirtyStates
PROOF
<1> DEFINE set == caches[d][SetOf(line)]
           tag == TagOf(line)
<1>1. SetOf(line) \in Sets /\ tag \in Tags
  BY LineParts
<1>2. WellKept(set)
  BY <1>1, CachesOKMeans
<1>3. State(d, line) = findTag(set, tag)
  BY DEF State, StateIn
<1>4. \A copy : copy \in Copies(d, line) <=>
                  \E i \in DOMAIN set : copy = set[i] /\ set[i].tag = tag
  BY DEF Copies, Range
<1> HIDE DEF set, tag
<1>5. \A i \in DOMAIN set :
        set[i].tag = tag => findTag(set, tag) = set[i].state
  BY <1>2, FirstWayIsIndex DEF WellKept
<1>6. findTag(set, tag) # "Invalid" <=> IsCached(set, tag)
  BY <1>2, FindTagType DEF WellKept
<1>7. Copies(d, line) # {} <=> IsCached(set, tag)
  BY <1>4 DEF IsCached
<1>8. Owes(d, line) <=> findTag(set, tag) \in DirtyStates
  <2>1. Owes(d, line) => findTag(set, tag) \in DirtyStates
    BY <1>4, <1>5 DEF Owes
  <2>2. findTag(set, tag) \in DirtyStates => IsCached(set, tag)
    BY <1>6 DEF DirtyStates
  <2>3. findTag(set, tag) \in DirtyStates => Owes(d, line)
    BY <1>4, <1>5, <2>2 DEF Owes, IsCached
  <2> QED
    BY <2>1, <2>3
<1> QED
  BY <1>3, <1>6, <1>7, <1>8

\* The invariant makes the mapping mean what it should.
LEMMA InvMapping == Inv => MappingOK
PROOF
<1> SUFFICES ASSUME Inv, NEW line \in Lines
             PROVE  /\ LineHolders[line] = {d \in Domains : State(d, line) # "Invalid"}
                    /\ LineOwner[line] \in Domains \cup {NumDomains}
                    /\ \A d \in Domains :
                         LineOwner[line] = d <=> State(d, line) \in DirtyStates
  BY DEF MappingOK
<1>1. SetOf(line) \in Sets /\ TagOf(line) \in Tags
  BY LineParts
<1>2. \A d \in Domains :
        /\ Copies(d, line) # {} <=> State(d, line) # "Invalid"
        /\ Owes(d, line) <=> State(d, line) \in DirtyStates
  BY CopyIsFound DEF Inv
<1>3. LineHolders[line] = {d \in Domains : State(d, line) # "Invalid"}
  BY <1>2 DEF LineHolders
<1>4. ASSUME NEW d \in Domains, NEW e \in Domains, Owes(d, line), Owes(e, line)
      PROVE  d = e
  <2> SUFFICES ASSUME d # e PROVE FALSE
    OBVIOUS
  <2>1. e \in Others(d)
    BY DEF Others
  <2>2. Compatible(State(d, line), State(e, line))
    BY <1>1, <2>1 DEF Inv, Coherence, State
  <2> QED
    BY <1>2, <1>4, <2>2 DEF Compatible, DirtyStates
<1>5. LineOwner[line] = IF \E d \in Domains : Owes(d, line)
                        THEN CHOOSE d \in Domains : Owes(d, line)
                        ELSE NumDomains
  BY DEF LineOwner
<1>6. NumDomains \notin Domains
  BY MultiAssumption DEF Domains
<1>7. CASE \E d \in Domains : Owes(d, line)
  <2> DEFINE o == CHOOSE d \in Domains : Owes(d, line)
  <2>1. o \in Domains /\ Owes(o, line) /\ LineOwner[line] = o
    BY <1>5, <1>7
  <2> HIDE DEF o
  <2> QED
    BY <1>2, <1>3, <1>4, <2>1
<1>8. CASE ~\E d \in Domains : Owes(d, line)
  BY <1>2, <1>3, <1>5, <1>6, <1>8
<1> QED
  BY <1>7, <1>8

LEMMA MappingIsFunction ==
    /\ LineHolders = [x \in Lines |-> LineHolders[x]]
    /\ LineOwner = [x \in Lines |-> LineOwner[x]]
    /\ LineHolders' = [x \in Lines |-> LineHolders'[x]]
    /\ LineOwner' = [x \in Lines |-> LineOwner'[x]]
BY DEF LineHolders, LineOwner

\* Who shares a line depends on the states of its copies alone.
LEMMA SharingByStates ==
    ASSUME MappingOK, MappingOK', NEW x \in Lines,
           \A d \in Domains : State(d, x)' = State(d, x)
    PROVE  LineHolders'[x] = LineHolders[x] /\ LineOwner'[x] = LineOwner[x]
PROOF
<1>1. LineHolders'[x] = LineHolders[x]
  <2>1. LineHolders[x] = {d \in Domains : State(d, x) # "Invalid"}
    BY DEF MappingOK
  <2>2. LineHolders'[x] = {d \in Domains : State(d, x)' # "Invalid"}
    BY DEF MappingOK
  <2> QED
    BY <2>1, <2>2
<1>2. \A d \in Domains : LineOwner'[x] = d <=> LineOwner[x] = d
  BY DEF MappingOK
<1>3. /\ LineOwner[x] \in Domains \cup {NumDomains}
      /\ LineOwner'[x] \in Domains \cup {NumDomains}
  BY DEF MappingOK
<1> QED
  BY <1>1, <1>2, <1>3

----------------------------------------------------------------------------
(* Hits, as steps of CoherentSharing.                                      *)

LEMMA HitShares ==
    ASSUME Inv, MappingOK, MappingOK', NEW line \in Lines, NEW local \in Domains,
           NEW accessType \in {"Read", "Write"}, Hit(line, accessType, local)
    PROVE  Sharing!ReadHit(local, line) \/ Sharing!WriteHit(local, line)
PROOF
<1> DEFINE set == SetOf(line)
           tag == TagOf(line)
<1>1. set \in Sets /\ tag \in Tags
  BY LineParts
<1>2. StateIn(local, set, tag) # "Invalid"
      /\ caches' = CachesAfterHit(set, tag, accessType, local)
  BY DEF Hit, IsHit
<1>3. \A x \in Lines : SetOf(x) \in Sets /\ TagOf(x) \in Tags
                         /\ (SetOf(x) = set /\ TagOf(x) = tag <=> x = line)
  BY LineParts
<1> HIDE DEF set, tag
<1>4. \A d \in Domains, x \in Lines :
        State(d, x)' = IF accessType = "Write" /\ x = line
                       THEN IF d = local THEN "Modified" ELSE "Invalid"
                       ELSE State(d, x)
  <2>1. \A d \in Domains, s \in Sets, t \in Tags :
           StateIn(d, s, t)' =
             IF accessType = "Write" /\ s = set /\ t = tag
             THEN IF d = local THEN "Modified" ELSE "Invalid"
             ELSE StateIn(d, s, t)
    BY <1>1, <1>2, HitStates DEF Inv
  <2>2. \A d \in Domains, x \in Lines :
           State(d, x)' = StateIn(d, SetOf(x), TagOf(x))'
    BY DEF State
  <2> QED
    BY <1>3, <2>1, <2>2 DEF State
<1>5. local \in LineHolders[line]
  BY <1>2 DEF MappingOK, State, set, tag
<1>6. /\ stats'["local_reads"] = stats["local_reads"]
      /\ stats'["remote_reads"] = stats["remote_reads"]
      /\ stats'["othercache_reads"] = stats["othercache_reads"]
      /\ stats'["local_writes"] = stats["local_writes"]
      /\ stats'["remote_writes"] = stats["remote_writes"]
  BY DEF Hit, Count, AccessStats, StatNames
<1>7. CASE accessType = "Read"
  <2>1. \A d \in Domains, x \in Lines : State(d, x)' = State(d, x)
    BY <1>4, <1>7
  <2>2. \A x \in Lines : LineHolders'[x] = LineHolders[x]
                            /\ LineOwner'[x] = LineOwner[x]
    BY <2>1, SharingByStates
  <2>3. LineHolders' = LineHolders /\ LineOwner' = LineOwner
    BY <2>2, MappingIsFunction
  <2> QED
    BY <1>5, <1>6, <2>3 DEF Sharing!ReadHit, Sharing!vars
<1>8. CASE accessType = "Write"
  <2>1. \A x \in Lines :
           /\ LineHolders'[x] = IF x = line THEN {local} ELSE LineHolders[x]
           /\ LineOwner'[x] = IF x = line THEN local ELSE LineOwner[x]
    <3>1. TAKE x \in Lines
    <3>2. CASE x = line
      <4>1. \A d \in Domains :
               State(d, x)' = IF d = local THEN "Modified" ELSE "Invalid"
        BY <1>4, <1>8, <3>2
      <4>2. LineHolders'[x] = {local}
        BY <4>1 DEF MappingOK
      <4>3. LineOwner'[x] = local
        BY <4>1 DEF MappingOK, DirtyStates
      <4> QED
        BY <3>2, <4>2, <4>3
    <3>3. CASE x # line
      <4>1. \A d \in Domains : State(d, x)' = State(d, x)
        BY <1>4, <3>3
      <4> QED
        BY <3>3, <4>1, SharingByStates
    <3> QED
      BY <3>2, <3>3
  <2>2. /\ LineHolders' = [LineHolders EXCEPT ![line] = {local}]
        /\ LineOwner' = [LineOwner EXCEPT ![line] = local]
    BY <2>1, MappingIsFunction
  <2> QED
    BY <1>5, <1>6, <2>2 DEF Sharing!WriteHit, Sharing!traffic
<1> QED
  BY <1>7, <1>8

----------------------------------------------------------------------------
(* Misses, as steps of CoherentSharing.                                    *)

\* A counter and another one that add up modulo m: one step of either is a step
\* of the sum.
LEMMA SumCounts ==
    ASSUME NEW m \in Nat \ {0}, NEW a \in 0 .. m - 1, NEW b \in 0 .. m - 1
    PROVE  /\ (((a + 1) % m) + b) % m = (((a + b) % m) + 1) % m
           /\ (a + ((b + 1) % m)) % m = (((a + b) % m) + 1) % m
PROOF
<1>1. (((a + 1) % m) + b) % m = (((a + b) % m) + 1) % m
  BY CountedOnce
<1>2. (((b + 1) % m) + a) % m = (((b + a) % m) + 1) % m
  BY CountedOnce
<1>3. b + a = a + b /\ ((b + 1) % m) + a = a + ((b + 1) % m)
  OBVIOUS
<1> QED
  BY <1>1, <1>2, <1>3

\* The front of a set that is not empty is a line that the cache finds.
LEMMA FrontIsResident ==
    ASSUME Inv, NEW set \in Sets, NEW local \in Domains,
           Len(caches[local][set]) = Assoc
    PROVE  LET front == Head(caches[local][set])
           IN  /\ set + front.tag \in Lines
               /\ SetOf(set + front.tag) = set
               /\ TagOf(set + front.tag) = front.tag
               /\ State(local, set + front.tag) = front.state
               /\ front.state # "Invalid"
PROOF
<1> DEFINE old == caches[local][set]
           front == Head(old)
<1>1. WellKept(old) /\ old # << >>
  <2>1. WellKept(old)
    BY CachesOKMeans DEF Inv
  <2> QED
    BY <2>1, AssocAssumption, LenProperties DEF WellKept
<1> HIDE DEF old
<1>2. /\ front = old[1] /\ 1 \in DOMAIN old
      /\ findTag(old, front.tag) = front.state
  BY <1>1, FrontIsCached DEF WellKept
<1>3. front \in LinesOver(Tags)
  BY <1>1, <1>2, LenProperties, ElementOfSeq DEF WellKept
<1>4. front.tag \in Tags /\ front.state # "Invalid"
  BY <1>1, <1>2, <1>3 DEF LinesOver, WellKept, NoInvalidLine
<1>5. StateIn(local, set, front.tag) = front.state
  BY <1>2 DEF StateIn, old
<1>6. set + front.tag \in Lines
  BY <1>4, <1>5 DEF Inv, ResidentLinesOK
<1>7. SetOf(set + front.tag) = set /\ TagOf(set + front.tag) = front.tag
  BY <1>4, PartsOfSum
<1> QED
  BY <1>4, <1>5, <1>6, <1>7 DEF State, old

\* The lines that a miss evicts: the front of a full set.
VictimOf(line, local) ==
    LET old == caches[local][SetOf(line)]
    IN  IF Len(old) = Assoc THEN {SetOf(line) + Head(old).tag} ELSE {}

\* What is left of the states when the evicted line is gone.
LEMMA MissLeaves ==
    ASSUME Inv, NEW line \in Lines, NEW local \in Domains,
           NEW accessType \in {"Read", "Write"}, Miss(line, accessType, local)
    PROVE  LET there == checkRemoteStates(SetOf(line), TagOf(line), local)
           IN  /\ State(local, line) = "Invalid"
               /\ \A d \in Domains, x \in Lines :
                    State(d, x)' =
                      IF x = line
                      THEN IF d = local THEN NewState(there.state, accessType)
                           ELSE RemoteState(there, accessType, d, State(d, x))
                      ELSE IF d = local /\ x \in VictimOf(line, local)
                      THEN "Invalid"
                      ELSE State(d, x)
PROOF
<1> DEFINE set == SetOf(line)
           tag == TagOf(line)
           there == checkRemoteStates(set, tag, local)
           old == caches[local][set]
<1>1. set \in Sets /\ tag \in Tags
  BY LineParts
<1>2. StateIn(local, set, tag) = "Invalid"
      /\ caches' = CachesAfterMiss(set, tag, accessType, local)
  BY DEF Miss, IsHit
<1>3. \A x \in Lines : /\ SetOf(x) \in Sets /\ TagOf(x) \in Tags
                       /\ SetOf(x) = set /\ TagOf(x) = tag <=> x = line
  BY LineParts
<1>4. \A d \in Domains, s \in Sets, t \in Tags :
        StateIn(d, s, t)' =
          IF s = set /\ t = tag
          THEN IF d = local THEN NewState(there.state, accessType)
               ELSE RemoteState(there, accessType, d, StateIn(d, s, t))
          ELSE IF d = local /\ s = set /\ Len(old) = Assoc /\ t = Head(old).tag
          THEN "Invalid"
          ELSE StateIn(d, s, t)
  <2> HIDE DEF set, tag
  <2> QED
    BY <1>1, <1>2, MissStates DEF Inv
<1>5. \A x \in Lines : x \in VictimOf(line, local) <=>
        SetOf(x) = set /\ Len(old) = Assoc /\ TagOf(x) = Head(old).tag
  <2> SUFFICES ASSUME NEW x \in Lines, Len(old) = Assoc
               PROVE  x = set + Head(old).tag <=>
                        SetOf(x) = set /\ TagOf(x) = Head(old).tag
    BY DEF VictimOf
  <2>1. set + Head(old).tag \in Lines
        /\ SetOf(set + Head(old).tag) = set
        /\ TagOf(set + Head(old).tag) = Head(old).tag
    BY <1>1, FrontIsResident
  <2> QED
    BY <2>1, LineParts
<1> HIDE DEF set, tag, there, old
<1>6. \A d \in Domains, x \in Lines :
        State(d, x)' = StateIn(d, SetOf(x), TagOf(x))'
  BY DEF State
<1>7. \A d \in Domains, x \in Lines :
        State(d, x)' =
          IF x = line
          THEN IF d = local THEN NewState(there.state, accessType)
               ELSE RemoteState(there, accessType, d, State(d, x))
          ELSE IF d = local /\ x \in VictimOf(line, local)
          THEN "Invalid"
          ELSE State(d, x)
  BY <1>3, <1>4, <1>5, <1>6 DEF State
<1> QED
  BY <1>2, <1>7 DEF State, set, tag, there

\* The evicted line is one the cache holds, and a debt if it is written back.
LEMMA VictimIsHeld ==
    ASSUME Inv, MappingOK, NEW line \in Lines, NEW local \in Domains,
           State(local, line) = "Invalid"
    PROVE  LET V == VictimOf(line, local)
           IN  /\ V \in Sharing!Victims(local)
               /\ line \notin V
               /\ V \subseteq Lines
               /\ Sharing!Owed(local, V) # {} <=>
                    checkWriteback(caches[local][SetOf(line)])
PROOF
<1> DEFINE set == SetOf(line)
           old == caches[local][set]
           v == set + Head(old).tag
           V == VictimOf(line, local)
<1>1. set \in Sets
  BY LineParts
<1>2. Len(old) <= Assoc /\ Len(old) \in Nat /\ Assoc \in Nat
  BY <1>1, CachesOKMeans, LenProperties, AssocAssumption DEF Inv, WellKept
<1>3. CASE Len(old) = Assoc
  <2>1. V = {v}
    BY <1>3 DEF VictimOf
  <2>2. /\ v \in Lines /\ State(local, v) = Head(old).state
        /\ Head(old).state # "Invalid"
    BY <1>1, <1>3, FrontIsResident
  <2>3. checkWriteback(old) <=> Head(old).state \in DirtyStates
    BY <1>2, <1>3 DEF checkWriteback
  <2> HIDE DEF set, old, v, V
  <2>4. local \in LineHolders[v]
    BY <2>2 DEF MappingOK
  <2>5. LineOwner[v] = local <=> Head(old).state \in DirtyStates
    BY <2>2 DEF MappingOK
  <2>6. Sharing!Owed(local, V) # {} <=> LineOwner[v] = local
    BY <2>1 DEF Sharing!Owed
  <2>7. V \in Sharing!Victims(local)
    BY <2>1, <2>2, <2>4 DEF Sharing!Victims
  <2>8. line # v
    BY <2>2
  <2> QED
    BY <2>1, <2>2, <2>3, <2>5, <2>6, <2>7, <2>8 DEF V, old, set
<1>4. CASE Len(old) # Assoc
  <2>1. V = {}
    BY <1>4 DEF VictimOf
  <2>2. ~checkWriteback(old)
    BY <1>2, <1>4 DEF checkWriteback
  <2> QED
    BY <2>1, <2>2 DEF Sharing!Victims, Sharing!Owed
<1> QED
  BY <1>3, <1>4

\* Who shares the lines after a miss.
LEMMA MissSharers ==
    ASSUME Inv, MappingOK, MappingOK', NEW line \in Lines, NEW local \in Domains,
           NEW accessType \in {"Read", "Write"}, Miss(line, accessType, local)
    PROVE  \A x \in Lines :
             /\ x = line /\ accessType = "Write" =>
                  LineHolders'[x] = {local} /\ LineOwner'[x] = local
             /\ x = line /\ accessType = "Read" =>
                  LineHolders'[x] = LineHolders[x] \cup {local}
             /\ x # line /\ x \in VictimOf(line, local) =>
                  LineHolders'[x] = LineHolders[x] \ {local}
             /\ x # line /\ x \notin VictimOf(line, local) =>
                  LineHolders'[x] = LineHolders[x]
             /\ ~(x = line /\ accessType = "Write") =>
                  LineOwner'[x] =
                    IF x \in Sharing!Owed(local, VictimOf(line, local))
                    THEN NumDomains ELSE LineOwner[x]
PROOF
<1> DEFINE V == VictimOf(line, local)
           set == SetOf(line)
           tag == TagOf(line)
           there == checkRemoteStates(set, tag, local)
           new == NewState(there.state, accessType)
<1>1. set \in Sets /\ tag \in Tags
  BY LineParts
<1>2. /\ State(local, line) = "Invalid"
      /\ \A d \in Domains, x \in Lines :
           State(d, x)' =
             IF x = line
             THEN IF d = local THEN new
                  ELSE RemoteState(there, accessType, d, State(d, x))
             ELSE IF d = local /\ x \in V THEN "Invalid"
             ELSE State(d, x)
  BY MissLeaves
<1>3. /\ there.state \in CacheState
      /\ there.state \in {"Owned", "Exclusive", "Modified"} =>
           State(there.remote, line) = there.state
  BY <1>1, RemoteLookup DEF Inv, State
<1>4. /\ accessType = "Write" => new = "Modified"
      /\ accessType = "Read" => new \in {"Exclusive", "Shared"}
  BY DEF NewState
<1>5. line \notin V
  BY <1>2, VictimIsHeld
<1>6. NumDomains \notin Domains
  BY MultiAssumption DEF Domains
<1> HIDE DEF V, set, tag, there, new
<1>7. ASSUME NEW x \in Lines
      PROVE  /\ LineHolders[x] = {d \in Domains : State(d, x) # "Invalid"}
             /\ LineHolders'[x] = {d \in Domains : State(d, x)' # "Invalid"}
             /\ LineOwner[x] \in Domains \cup {NumDomains}
             /\ LineOwner'[x] \in Domains \cup {NumDomains}
             /\ \A d \in Domains :
                  /\ LineOwner[x] = d <=> State(d, x) \in DirtyStates
                  /\ LineOwner'[x] = d <=> State(d, x)' \in DirtyStates
  BY DEF MappingOK
<1>8. ASSUME NEW x \in Lines, x # line
      PROVE  /\ LineHolders'[x] = IF x \in V THEN LineHolders[x] \ {local}
                                  ELSE LineHolders[x]
             /\ LineOwner'[x] = IF x \in Sharing!Owed(local, V) THEN NumDomains
                                ELSE LineOwner[x]
  <2>1. \A d \in Domains :
          State(d, x)' = IF d = local /\ x \in V THEN "Invalid" ELSE State(d, x)
    BY <1>2, <1>8
  <2>2. x \in Sharing!Owed(local, V) <=> x \in V /\ LineOwner[x] = local
    BY DEF Sharing!Owed
  <2>3. LineHolders'[x] = IF x \in V THEN LineHolders[x] \ {local}
                          ELSE LineHolders[x]
    <3>1. LineHolders[x] = {d \in Domains : State(d, x) # "Invalid"}
      BY <1>7
    <3>2. LineHolders'[x] = {d \in Domains : State(d, x)' # "Invalid"}
      BY <1>7
    <3>3. \A d \in Domains : State(d, x)' # "Invalid" <=>
             State(d, x) # "Invalid" /\ ~(d = local /\ x \in V)
      BY <2>1
    <3> QED
      BY <3>1, <3>2, <3>3
  <2>4. LineOwner'[x] = IF x \in V /\ LineOwner[x] = local THEN NumDomains
                        ELSE LineOwner[x]
    BY <1>6, <1>7, <2>1 DEF DirtyStates
  <2> QED
    BY <2>2, <2>3, <2>4
<1>9. CASE accessType = "Write"
  <2>1. \A d \in Domains :
          State(d, line)' = IF d = local THEN "Modified" ELSE "Invalid"
    BY <1>2, <1>4, <1>9 DEF RemoteState
  <2>2. LineHolders'[line] = {local}
    BY <1>7, <2>1
  <2>3. LineOwner'[line] = local
    BY <1>7, <2>1 DEF DirtyStates
  <2> QED
    BY <1>8, <1>9, <2>2, <2>3 DEF V
<1>10. CASE accessType = "Read"
  <2>1. \A d \in Domains \ {local} :
          /\ State(d, line)' # "Invalid" <=> State(d, line) # "Invalid"
          /\ State(d, line)' \in DirtyStates <=> State(d, line) \in DirtyStates
    BY <1>2, <1>3, <1>10 DEF RemoteState, DirtyStates
  <2>2. /\ State(local, line)' # "Invalid" /\ State(local, line)' \notin DirtyStates
        /\ State(local, line) \notin DirtyStates
    BY <1>2, <1>4, <1>10 DEF DirtyStates
  <2>3. LineHolders'[line] = LineHolders[line] \cup {local}
    BY <1>7, <2>1, <2>2
  <2>4. LineOwner'[line] = LineOwner[line]
    BY <1>7, <2>1, <2>2
  <2>5. line \notin Sharing!Owed(local, V)
    BY <1>5 DEF Sharing!Owed, V
  <2>6. ~(accessType = "Write")
    BY <1>10
  <2> QED
    BY <1>8, <2>3, <2>4, <2>5, <2>6 DEF V
<1> QED
  BY <1>9, <1>10

\* What a miss counts: the line is read from memory only if no cache owes it,
\* and from a cache only if one holds it.
LEMMA MissSource ==
    ASSUME Inv, MappingOK, NEW line \in Lines, NEW local \in Domains,
           NEW accessType \in {"Read", "Write"}, Miss(line, accessType, local)
    PROVE  Sharing!FromMemory(line) \/ Sharing!FromCache(line)
PROOF
<1> DEFINE set == SetOf(line)
           tag == TagOf(line)
           there == checkRemoteStates(set, tag, local)
           a == stats["local_reads"]
           b == stats["remote_reads"]
           c == stats["othercache_reads"]
           home == updatePageToDomain(line, local)[PageOf(line)] = local
<1>1. set \in Sets /\ tag \in Tags
  BY LineParts
<1>2. StateIn(local, set, tag) = "Invalid"
  BY DEF Miss, IsHit
<1>3. /\ there.state \in CacheState
      /\ there.state = "Invalid" =>
           \A i \in Others(local) : StateIn(i, set, tag) = "Invalid"
      /\ there.state = "Shared" =>
           \A i \in Others(local) : StateIn(i, set, tag) \in {"Shared", "Invalid"}
  BY <1>1, RemoteLookup DEF Inv
<1>4. CounterMod \in Nat \ {0}
        /\ a \in 0 .. CounterMod - 1 /\ b \in 0 .. CounterMod - 1
  BY SystemAssumption DEF Inv, StatsOK, StatNames
<1>5. /\ stats'["local_reads"] =
           IF "local_reads" \in SourceOf(there.state, accessType, home)
           THEN (a + 1) % CounterMod ELSE a
      /\ stats'["remote_reads"] =
           IF "remote_reads" \in SourceOf(there.state, accessType, home)
           THEN (b + 1) % CounterMod ELSE b
      /\ stats'["othercache_reads"] =
           IF "othercache_reads" \in SourceOf(there.state, accessType, home)
           THEN (c + 1) % CounterMod ELSE c
  BY DEF Miss, Count, AccessStats, evictTraffic, StatNames
<1> HIDE DEF a, b, c, home, there
<1>6. CASE there.state = "Invalid" \/ (there.state = "Shared" /\ accessType = "Read")
  <2>1. \A d \in Domains : State(d, line) \notin DirtyStates
    BY <1>2, <1>3, <1>6 DEF Others, State, DirtyStates
  <2>2. LineOwner[line] = NumDomains
    BY <2>1 DEF MappingOK
  <2>3. SourceOf(there.state, accessType, home) =
          IF home THEN {"local_reads"} ELSE {"remote_reads"}
    BY <1>6 DEF SourceOf
  <2>4. /\ (stats'["local_reads"] + stats'["remote_reads"]) % CounterMod
             = (((a + b) % CounterMod) + 1) % CounterMod
        /\ stats'["othercache_reads"] = c
    <3>1. /\ (((a + 1) % CounterMod) + b) % CounterMod
               = (((a + b) % CounterMod) + 1) % CounterMod
          /\ (a + ((b + 1) % CounterMod)) % CounterMod
               = (((a + b) % CounterMod) + 1) % CounterMod
      BY <1>4, SumCounts
    <3>2. CASE home
      BY <1>5, <2>3, <3>1, <3>2
    <3>3. CASE ~home
      BY <1>5, <2>3, <3>1, <3>3
    <3> QED
      BY <3>2, <3>3
  <2> QED
    BY <2>2, <2>4 DEF Sharing!FromMemory, Sharing!Incremented, a, b, c
<1>7. CASE ~(there.state = "Invalid" \/ (there.state = "Shared" /\ accessType = "Read"))
  <2>1. \E i \in Others(local) : StateIn(i, set, tag) # "Invalid"
    <3>1. CASE Suppliers(set, tag, local) # {}
      BY <3>1 DEF Suppliers
    <3>2. CASE Sharers(set, tag, local) # {}
      BY <3>2 DEF Sharers
    <3>3. CASE Suppliers(set, tag, local) = {} /\ Sharers(set, tag, local) = {}
      <4>1. there.state = "Invalid"
        BY <3>3 DEF checkRemoteStates, there
      <4> QED
        BY <1>7, <4>1
    <3> QED
      BY <3>1, <3>2, <3>3
  <2>2. LineHolders[line] # {}
    BY <2>1 DEF MappingOK, Others, State
  <2>3. SourceOf(there.state, accessType, home) = {"othercache_reads"}
    <3>1. there.state # "Invalid"
      BY <1>7
    <3>2. ~(accessType = "Read" /\ there.state = "Shared")
      BY <1>7
    <3>3. accessType # "Prefetch"
      OBVIOUS
    <3> QED
      BY <3>1, <3>2, <3>3 DEF SourceOf
  <2>4. /\ stats'["local_reads"] = a /\ stats'["remote_reads"] = b
        /\ stats'["othercache_reads"] = (c + 1) % CounterMod
    BY <1>5, <2>3
  <2> QED
    BY <2>2, <2>4 DEF Sharing!FromCache, Sharing!Incremented, a, b, c
<1> QED
  BY <1>6, <1>7

\* Every debt that an eviction leaves is paid by a write-back, local or remote.
LEMMA MissWriteBack ==
    ASSUME Inv, MappingOK, NEW line \in Lines, NEW local \in Domains,
           NEW accessType \in {"Read", "Write"}, Miss(line, accessType, local)
    PROVE  Sharing!WriteBack(local, VictimOf(line, local))
PROOF
<1> DEFINE old == caches[local][SetOf(line)]
           a == stats["local_writes"]
           b == stats["remote_writes"]
           homes == updatePageToDomain(line, local)
           traffic == evictTraffic(homes, SetOf(line) + Head(old).tag, local)
<1>1. State(local, line) = "Invalid"
  BY DEF Miss, IsHit, State
<1>2. Sharing!Owed(local, VictimOf(line, local)) # {} <=> checkWriteback(old)
  BY <1>1, VictimIsHeld
<1>3. CounterMod \in Nat \ {0}
        /\ a \in 0 .. CounterMod - 1 /\ b \in 0 .. CounterMod - 1
  BY SystemAssumption DEF Inv, StatsOK, StatNames
<1>4. traffic \in {"local_writes", "remote_writes"}
  BY DEF evictTraffic
<1>5. /\ stats'["local_writes"] =
           IF checkWriteback(old) /\ traffic = "local_writes"
           THEN (a + 1) % CounterMod ELSE a
      /\ stats'["remote_writes"] =
           IF checkWriteback(old) /\ traffic = "remote_writes"
           THEN (b + 1) % CounterMod ELSE b
  <2> HIDE DEF traffic
  <2> QED
    BY <1>4 DEF Miss, Count, AccessStats, SourceOf, StatNames, traffic
<1> HIDE DEF old, a, b, traffic
<1>6. (stats'["local_writes"] + stats'["remote_writes"]) % CounterMod =
         IF checkWriteback(old) THEN (((a + b) % CounterMod) + 1) % CounterMod
         ELSE (a + b) % CounterMod
  <2>1. /\ (((a + 1) % CounterMod) + b) % CounterMod
             = (((a + b) % CounterMod) + 1) % CounterMod
        /\ (a + ((b + 1) % CounterMod)) % CounterMod
             = (((a + b) % CounterMod) + 1) % CounterMod
    BY <1>3, SumCounts
  <2>2. CASE ~checkWriteback(old)
    BY <1>5, <2>2
  <2>3. CASE checkWriteback(old) /\ traffic = "local_writes"
    BY <1>5, <2>1, <2>3
  <2>4. CASE checkWriteback(old) /\ traffic = "remote_writes"
    BY <1>5, <2>1, <2>4
  <2> QED
    BY <1>4, <2>2, <2>3, <2>4
<1> QED
  BY <1>2, <1>6 DEF Sharing!WriteBack, Sharing!Incremented, a, b, old

LEMMA MissShares ==
    ASSUME Inv, MappingOK, MappingOK', NEW line \in Lines, NEW local \in Domains,
           NEW accessType \in {"Read", "Write"}, Miss(line, accessType, local)
    PROVE  /\ local \notin LineHolders[line]
           /\ Sharing!FromMemory(line) \/ Sharing!FromCache(line)
           /\ \E V \in Sharing!Victims(local) :
                Sharing!ReadMiss(local, line, V) \/ Sharing!WriteMiss(local, line, V)
PROOF
<1>1. State(local, line) = "Invalid"
  BY DEF Miss, IsHit, State
<1>2. /\ VictimOf(line, local) \in Sharing!Victims(local)
      /\ line \notin VictimOf(line, local)
  BY <1>1, VictimIsHeld
<1>3. \A x \in Lines :
        /\ x = line /\ accessType = "Write" =>
             LineHolders'[x] = {local} /\ LineOwner'[x] = local
        /\ x = line /\ accessType = "Read" =>
             LineHolders'[x] = LineHolders[x] \cup {local}
        /\ x # line /\ x \in VictimOf(line, local) =>
             LineHolders'[x] = LineHolders[x] \ {local}
        /\ x # line /\ x \notin VictimOf(line, local) =>
             LineHolders'[x] = LineHolders[x]
        /\ ~(x = line /\ accessType = "Write") =>
             LineOwner'[x] =
               IF x \in Sharing!Owed(local, VictimOf(line, local))
               THEN NumDomains ELSE LineOwner[x]
  BY MissSharers
<1>4. Sharing!WriteBack(local, VictimOf(line, local))
  BY MissWriteBack
<1>5. local \notin LineHolders[line]
  BY <1>1 DEF MappingOK
<1> DEFINE V == VictimOf(line, local)
<1>6. CASE accessType = "Read"
  <2>1. LineHolders' = [Sharing!HoldersWithout(local, V)
                          EXCEPT ![line] = @ \cup {local}]
    BY <1>2, <1>3, <1>6, MappingIsFunction DEF Sharing!HoldersWithout
  <2>2. LineOwner' = Sharing!OwnerWithout(local, V)
    BY <1>3, <1>6, MappingIsFunction DEF Sharing!OwnerWithout
  <2>3. Sharing!ReadMiss(local, line, V)
    BY <1>4, <2>1, <2>2 DEF Sharing!ReadMiss
  <2> QED
    BY <1>2, <1>5, <2>3, MissSource
<1>7. CASE accessType = "Write"
  <2>1. LineHolders' = [Sharing!HoldersWithout(local, V) EXCEPT ![line] = {local}]
    BY <1>3, <1>7, MappingIsFunction DEF Sharing!HoldersWithout
  <2>2. LineOwner' = [Sharing!OwnerWithout(local, V) EXCEPT ![line] = local]
    BY <1>3, <1>7, MappingIsFunction DEF Sharing!OwnerWithout
  <2>3. Sharing!WriteMiss(local, line, V)
    BY <1>4, <2>1, <2>2 DEF Sharing!WriteMiss
  <2> QED
    BY <1>2, <1>5, <2>3, MissSource
<1> QED
  BY <1>6, <1>7

----------------------------------------------------------------------------
(* The refinement.                                                         *)

\* The MOESI protocol of MultiCacheSystem, whatever the numbers of caches, sets,
\* ways and pages, is coherent sharing in which every line that memory lacks has
\* one owner, memory is read only when it is up to date and every owner that
\* gives a line up writes it back (memAccess, processMOESI, evictTraffic).
THEOREM SharingImplemented == Spec => ImplementsSharing
PROOF
<1>1. Inv => MappingOK
  BY InvMapping
<1>2. Init => Sharing!Init
  <2> SUFFICES ASSUME Init PROVE Sharing!Init
    OBVIOUS
  <2>1. Inv
    BY InitInv
  <2>2. \A d \in Domains, s \in Sets : caches[d][s] = << >>
    BY DEF Init
  <2>3. \A d \in Domains, x \in Lines : State(d, x) = "Invalid"
    BY <2>2, LineParts DEF State, StateIn, findTag, IsCached
  <2>4. MappingOK
    BY <2>1, InvMapping
  <2>5. \A x \in Lines : LineHolders[x] = {} /\ LineOwner[x] = NumDomains
    BY <2>3, <2>4 DEF MappingOK, DirtyStates
  <2>6. /\ LineHolders = [x \in Lines |-> {}]
        /\ LineOwner = [x \in Lines |-> NumDomains]
    BY <2>5, MappingIsFunction
  <2>7. 0 % CounterMod = 0
    BY SystemAssumption
  <2> QED
    BY <2>6, <2>7 DEF Init, SystemInit, StatNames, Sharing!Init
<1>3. Inv /\ MappingOK /\ MappingOK' /\ [Next]_vars => [Sharing!Next]_(Sharing!vars)
  <2> SUFFICES ASSUME Inv, MappingOK, MappingOK', [Next]_vars
               PROVE  [Sharing!Next]_(Sharing!vars)
    OBVIOUS
  <2>1. CASE Next
    <3>1. PICK address \in Lines, accessType \in {"Read", "Write"},
               tid \in Threads : memAccess(address, accessType, tid)
      BY <2>1 DEF Next
    <3> DEFINE line == PhysLine(address)
               local == TidToDomain[tid]
    <3>2. line \in Lines /\ local \in Domains
      BY PhysLineType, MultiAssumption DEF Inv
    <3>3. Hit(line, accessType, local) \/ Miss(line, accessType, local)
      BY <3>1 DEF memAccess
    <3> HIDE DEF line, local
    <3>4. CASE Hit(line, accessType, local)
      BY <3>2, <3>4, HitShares DEF Sharing!Next
    <3>5. CASE Miss(line, accessType, local)
      BY <3>2, <3>5, MissShares DEF Sharing!Next
    <3> QED
      BY <3>3, <3>4, <3>5
  <2>2. CASE UNCHANGED vars
    <3>1. LineHolders' = LineHolders /\ LineOwner' = LineOwner
      BY <2>2 DEF vars, LineHolders, LineOwner, Copies, Owes
    <3> QED
      BY <2>2, <3>1 DEF vars, Sharing!vars
  <2> QED
    BY <2>1, <2>2
<1> QED
  BY <1>1, <1>2, <1>3, Invariance, PTL DEF Spec, Sharing!Spec, ImplementsSharing

----------------------------------------------------------------------------
(* One cache.  SingleIsMulti maps the cache of domain 0 to the one cache.  *)
(* There the search of the other caches finds nothing and every page is at *)
(* home, as HomeMapOK says, so HitSets and MissSets are what               *)
(* SingleCacheSystem does to its cache.                                    *)

\* The two systems share the code of System and of Cache.
LEMMA SameParts ==
    /\ Single!Lines = Lines
    /\ \A line : /\ Single!SetOf(line) = SetOf(line)
                 /\ Single!TagOf(line) = TagOf(line)
                 /\ Single!PhysLine(line) = PhysLine(line)
    /\ \A set, tag : /\ Single!findTag(set, tag) = findTag(set, tag)
                     /\ Single!updateLRU(set, tag) = updateLRU(set, tag)
    /\ \A set, tag, state :
          /\ Single!changeState(set, tag, state) = changeState(set, tag, state)
          /\ Single!insertLine(set, tag, state) = insertLine(set, tag, state)
    /\ \A set : Single!checkWriteback(set) <=> checkWriteback(set)
    /\ \A line, accessType :
          Single!AccessStats(line, accessType) = AccessStats(line, accessType)
PROOF
<1>1. /\ Single!Lines = Lines
      /\ \A line : /\ Single!SetOf(line) = SetOf(line)
                   /\ Single!TagOf(line) = TagOf(line)
                   /\ Single!PhysLine(line) = PhysLine(line)
  BY DEF Single!Lines, Lines, Single!SetOf, SetOf, Single!TagOf, TagOf,
         Single!PhysLine, PhysLine, Single!PageOf, PageOf, Single!IsMapped,
         IsMapped
<1>2. \A set, tag : /\ Single!IsCached(set, tag) <=> IsCached(set, tag)
                   /\ Single!FirstWay(set, tag) = FirstWay(set, tag)
  BY DEF Single!IsCached, IsCached, Single!FirstWay, FirstWay, Single!Min, Min
<1>3. \A set, i : Single!RemoveAt(set, i) = RemoveAt(set, i)
  BY DEF Single!RemoveAt, RemoveAt
<1>4. \A set, tag : /\ Single!findTag(set, tag) = findTag(set, tag)
                   /\ Single!updateLRU(set, tag) = updateLRU(set, tag)
  BY <1>2, <1>3 DEF Single!findTag, findTag, Single!updateLRU, updateLRU
<1>5. \A set, tag, state :
        /\ Single!changeState(set, tag, state) = changeState(set, tag, state)
        /\ Single!insertLine(set, tag, state) = insertLine(set, tag, state)
  BY <1>2, <1>3 DEF Single!changeState, changeState, Single!insertLine, insertLine
<1>6. \A set : Single!checkWriteback(set) <=> checkWriteback(set)
  BY DEF Single!checkWriteback, checkWriteback, Single!DirtyStates, DirtyStates
<1>7. \A line, accessType :
         Single!AccessStats(line, accessType) = AccessStats(line, accessType)
  BY DEF Single!AccessStats, AccessStats, Single!IsCompulsory, IsCompulsory
<1> QED
  BY <1>1, <1>4, <1>5, <1>6, <1>7

LEMMA OneHit ==
    ASSUME NumDomains = 1, Inv, NEW line \in Lines,
           NEW accessType \in {"Read", "Write"}, Hit(line, accessType, 0)
    PROVE  Single!Hit(line, accessType)
PROOF
<1> DEFINE set == SetOf(line)
           tag == TagOf(line)
           new == updateLRU(IF accessType = "Write"
                            THEN changeState(caches[0][set], tag, "Modified")
                            ELSE caches[0][set], tag)
<1>1. Domains = {0} /\ set \in Sets /\ tag \in Tags
  BY LineParts DEF Domains
<1>2. caches[0] \in [Sets -> Seq(CacheLine)]
  BY <1>1 DEF Inv, CachesOK
<1>3. caches' = [d \in Domains |-> [s \in Sets |->
                   SetAfterHit(set, tag, accessType, 0, d, s)]]
  BY <1>1, HitSets DEF Hit, Inv
<1>4. \A s \in Sets : SetAfterHit(set, tag, accessType, 0, 0, s) =
                         IF s = set THEN new ELSE caches[0][s]
  BY DEF SetAfterHit
<1> HIDE DEF new, set, tag
<1>5. caches'[0] = [caches[0] EXCEPT ![set] = new]
  BY <1>1, <1>2, <1>3, <1>4
<1>6. Single!IsHit(line)
  BY SameParts DEF Hit, IsHit, StateIn, Single!IsHit, Single!StateOf
<1>7. Count(AccessStats(line, accessType) \cup {"hits"})
  BY DEF Hit
<1> QED
  BY <1>5, <1>6, <1>7, SameParts
     DEF Single!Hit, Single!Count, Count, Single!StatNames, StatNames, new, set, tag

LEMMA OneMiss ==
    ASSUME NumDomains = 1, Inv, NEW line \in Lines,
           NEW accessType \in {"Read", "Write"}, Miss(line, accessType, 0)
    PROVE  Single!Miss(line, accessType)
PROOF
<1> DEFINE set == SetOf(line)
           tag == TagOf(line)
           there == checkRemoteStates(set, tag, 0)
           homes == updatePageToDomain(line, 0)
           evicted == set + Head(caches[0][set]).tag
           new == insertLine(caches[0][set], tag, Single!NewState(accessType))
<1>1. Domains = {0} /\ set \in Sets /\ tag \in Tags
  BY LineParts DEF Domains
<1>2. caches[0] \in [Sets -> Seq(CacheLine)]
  BY <1>1 DEF Inv, CachesOK
<1>3. there.state = "Invalid"
  <2>1. Suppliers(set, tag, 0) = {} /\ Sharers(set, tag, 0) = {}
    BY <1>1 DEF Suppliers, Sharers, Others
  <2> QED
    BY <2>1 DEF checkRemoteStates
<1>4. HomeMapOK(homes) /\ PageOf(line) \in DOMAIN homes
  <2>1. PageOf(line) \in Pages /\ HomeMapOK(pageToDomain) /\ 0 \in Domains
    BY <1>1, PageParts DEF Inv
  <2>2. HomeMapOK(Homed(pageToDomain, PageOf(line), 0))
    BY <2>1, HomedProperties
  <2>3. DOMAIN Homed(pageToDomain, PageOf(line), 0)
          = DOMAIN pageToDomain \cup {PageOf(line)}
    BY <2>1, HomedProperties
  <2> QED
    BY <2>2, <2>3 DEF updatePageToDomain
<1> HIDE DEF there, homes, set, tag
<1>5. homes[PageOf(line)] = 0
  BY <1>1, <1>4 DEF HomeMapOK
<1>6. caches' = [d \in Domains |-> [s \in Sets |->
                   SetAfterMiss(set, tag, accessType, 0, d, s)]]
  BY <1>1, MissSets DEF Miss, Inv, set, tag
<1>7. NewState(there.state, accessType) = Single!NewState(accessType)
  BY <1>3 DEF NewState, Single!NewState
<1>8. \A s \in Sets : SetAfterMiss(set, tag, accessType, 0, 0, s) =
                         IF s = set THEN new ELSE caches[0][s]
  BY <1>7 DEF SetAfterMiss, there
<1> HIDE DEF new
<1>9. caches'[0] = [caches[0] EXCEPT ![set] = new]
  BY <1>1, <1>2, <1>6, <1>8
<1>10. ~Single!IsHit(line)
  BY SameParts DEF Miss, IsHit, StateIn, Single!IsHit, Single!StateOf
<1>11. SourceOf(there.state, accessType, homes[PageOf(line)] = 0)
          = Single!ReadTraffic(accessType)
  BY <1>3, <1>5 DEF SourceOf, Single!ReadTraffic
<1>12. checkWriteback(caches[0][set]) =>
          evictTraffic(homes, evicted, 0) = "local_writes"
  <2>1. Homed(homes, PageOf(evicted), 0)[PageOf(evicted)] = 0
    BY <1>1, <1>4 DEF Homed, HomeMapOK
  <2> QED
    BY <2>1 DEF evictTraffic
<1>13. Count(AccessStats(line, accessType)
               \cup (IF checkWriteback(caches[0][set]) THEN {"local_writes"} ELSE {})
               \cup Single!ReadTraffic(accessType))
  <2> HIDE DEF evicted
  <2> QED
    BY <1>11, <1>12 DEF Miss, set, tag, there, homes, evicted
<1>14. caches'[0] = [caches[0] EXCEPT ![set] =
          Single!insertLine(@, Single!TagOf(line), Single!NewState(accessType))]
  BY <1>9, SameParts DEF new, tag
<1> QED
  BY <1>10, <1>13, <1>14, SameParts
     DEF Single!Miss, Single!Count, Count, Single!StatNames, StatNames, set

\* MultiCacheSystem with one cache is SingleCacheSystem, access by access: the
\* same deques, the same states and the same statistics, with and without
\* translation, whatever the geometry ("performs about 10% better than the
\* MultiCache implementation", system.h:126, is meant to be all the difference).
THEOREM SingleImplemented ==
    ASSUME NumDomains = 1
    PROVE  Spec => ImplementsSingle
PROOF
<1>1. Init => Single!Init
  BY DEF Init, SystemInit, Domains, Single!Init, Single!SystemInit,
         Single!StatNames, StatNames, Single!Sets, Sets
<1>2. Inv /\ [Next]_vars => [Single!Next]_(Single!vars)
  <2> SUFFICES ASSUME Inv, [Next]_vars PROVE [Single!Next]_(Single!vars)
    OBVIOUS
  <2>1. CASE Next
    <3>1. PICK address \in Lines, accessType \in {"Read", "Write"},
               tid \in Threads : memAccess(address, accessType, tid)
      BY <2>1 DEF Next
    <3> DEFINE line == PhysLine(address)
               local == TidToDomain[tid]
    <3>2. line \in Lines /\ local = 0
      BY PhysLineType, MultiAssumption DEF Inv, Domains
    <3>3. Hit(line, accessType, local) \/ Miss(line, accessType, local)
      BY <3>1 DEF memAccess
    <3>4. Single!virtToPhys(address)
      BY <3>1 DEF memAccess, virtToPhys, Single!virtToPhys, IsMapped,
                  Single!IsMapped, PageOf, Single!PageOf
    <3>5. Single!checkCompulsory(line, accessType)
      BY <3>1 DEF memAccess, checkCompulsory, Single!checkCompulsory,
                  IsCompulsory, Single!IsCompulsory
    <3> HIDE DEF line, local
    <3>6. Single!Hit(line, accessType) \/ Single!Miss(line, accessType)
      BY <3>2, <3>3, OneHit, OneMiss
    <3>7. Single!memAccess(address, accessType)
      BY <3>4, <3>5, <3>6, SameParts DEF Single!memAccess, line
    <3> QED
      BY <3>7, SameParts DEF Single!Next
  <2>2. CASE UNCHANGED vars
    BY <2>2 DEF vars, Single!vars
  <2> QED
    BY <2>1, <2>2
<1> QED
  BY <1>1, <1>2, Invariance, PTL DEF Spec, Single!Spec, ImplementsSingle
=============================================================================
