---------------------------- MODULE CacheTheorems ----------------------------
(***************************************************************************)
(* What the operations of Cache do to a well-kept set, stated by the state *)
(* findTag reports of every tag.  The position of a line, its only other   *)
(* attribute, is its age and decides nothing but the eviction.             *)
(***************************************************************************)
EXTENDS Cache, SequenceTheorems, TLAPS

LinesOver(T) == [tag : T, state : CacheState]

\* In a set without duplicates the first line with a tag is any line with it,
\* whatever the order in which the searches of cache.cpp walk the deque.
LEMMA FirstWayIsIndex ==
    ASSUME NEW T, NEW set \in Seq(LinesOver(T)), UniqueTags(set),
           NEW i \in DOMAIN set
    PROVE  /\ FirstWay(set, set[i].tag) = i
           /\ IsCached(set, set[i].tag)
           /\ findTag(set, set[i].tag) = set[i].state
PROOF
<1>1. DOMAIN set \subseteq Int
  BY LenProperties
<1>2. {j \in DOMAIN set : set[j].tag = set[i].tag} = {i}
  BY DEF UniqueTags
<1>3. Min({i}) = i
  BY <1>1 DEF Min
<1>4. FirstWay(set, set[i].tag) = i
  BY <1>2, <1>3 DEF FirstWay
<1>5. IsCached(set, set[i].tag)
  BY DEF IsCached
<1> QED
  BY <1>4, <1>5 DEF findTag

\* What findTag reports is the state of some line of the set, or Invalid.
LEMMA FindTagOfCached ==
    ASSUME NEW T, NEW set \in Seq(LinesOver(T)), UniqueTags(set),
           NEW tag, IsCached(set, tag)
    PROVE  \E i \in DOMAIN set :
              /\ set[i].tag = tag
              /\ FirstWay(set, tag) = i
              /\ findTag(set, tag) = set[i].state
BY FirstWayIsIndex DEF IsCached

\* findTag returns a state of CacheState, and Invalid exactly for the lines the
\* set does not hold.
LEMMA FindTagType ==
    ASSUME NEW T, NEW set \in Seq(LinesOver(T)), UniqueTags(set), NEW tag
    PROVE  /\ findTag(set, tag) \in CacheState
           /\ NoInvalidLine(set) =>
                (findTag(set, tag) # "Invalid" <=> IsCached(set, tag))
PROOF
<1>1. CASE ~IsCached(set, tag)
  BY <1>1 DEF findTag, CacheState
<1>2. CASE IsCached(set, tag)
  <2>1. PICK i \in DOMAIN set : findTag(set, tag) = set[i].state
    BY <1>2, FindTagOfCached
  <2>2. set[i] \in LinesOver(T)
    BY LenProperties, ElementOfSeq
  <2> QED
    BY <1>2, <2>1, <2>2 DEF NoInvalidLine, LinesOver
<1> QED
  BY <1>1, <1>2

\* RemoveAt closes the gap it leaves, as erasing from a deque does.
LEMMA RemoveAtProperties ==
    ASSUME NEW S, NEW seq \in Seq(S), NEW i \in 1 .. Len(seq)
    PROVE  /\ RemoveAt(seq, i) \in Seq(S)
           /\ Len(RemoveAt(seq, i)) = Len(seq) - 1
           /\ DOMAIN RemoveAt(seq, i) = 1 .. Len(seq) - 1
           /\ \A j \in 1 .. Len(seq) - 1 :
                 RemoveAt(seq, i)[j] = IF j < i THEN seq[j] ELSE seq[j + 1]
PROOF
<1> DEFINE a == SubSeq(seq, 1, i - 1)
           b == SubSeq(seq, i + 1, Len(seq))
<1>1. Len(seq) \in Nat /\ i \in Int /\ \A j \in 1 .. Len(seq) : seq[j] \in S
  BY LenProperties, ElementOfSeq
<1>2. /\ a \in Seq(S) /\ Len(a) = i - 1
      /\ \A j \in 1 .. i - 1 : a[j] = seq[j]
  <2>1. \A j \in 1 .. i - 1 : seq[j] \in S
    BY <1>1
  <2> QED
    BY <1>1, <2>1, SubSeqProperties
<1>3. /\ b \in Seq(S) /\ Len(b) = Len(seq) - i
      /\ \A j \in 1 .. Len(seq) - i : b[j] = seq[i + j]
  <2>1. \A j \in i + 1 .. Len(seq) : seq[j] \in S
    BY <1>1
  <2>2. /\ b \in Seq(S)
        /\ Len(b) = IF i + 1 <= Len(seq) THEN Len(seq) - (i + 1) + 1 ELSE 0
        /\ \A j \in 1 .. Len(seq) - (i + 1) + 1 : b[j] = seq[i + 1 + j - 1]
    BY <1>1, <2>1, SubSeqProperties
  <2> QED
    BY <1>1, <2>2
<1>4. RemoveAt(seq, i) = a \o b
  BY DEF RemoveAt
<1>5. /\ a \o b \in Seq(S)
      /\ Len(a \o b) = Len(a) + Len(b)
      /\ \A j \in 1 .. Len(a) + Len(b) :
            (a \o b)[j] = IF j <= Len(a) THEN a[j] ELSE b[j - Len(a)]
  <2> HIDE DEF a, b
  <2> QED
    BY <1>2, <1>3, ConcatProperties
<1>6. Len(a) + Len(b) = Len(seq) - 1
  BY <1>1, <1>2, <1>3
<1>7. ASSUME NEW j \in 1 .. Len(seq) - 1
      PROVE  (a \o b)[j] = IF j < i THEN seq[j] ELSE seq[j + 1]
  <2> HIDE DEF a, b
  <2>1. (a \o b)[j] = IF j <= Len(a) THEN a[j] ELSE b[j - Len(a)]
    BY <1>5, <1>6
  <2>2. CASE j < i
    BY <1>1, <1>2, <2>1, <2>2
  <2>3. CASE ~(j < i)
    <3>1. j - Len(a) \in 1 .. Len(seq) - i /\ i + (j - Len(a)) = j + 1
      BY <1>1, <1>2, <2>3
    <3>2. (a \o b)[j] = b[j - Len(a)]
      BY <1>1, <1>2, <2>1, <2>3
    <3> QED
      BY <1>3, <2>3, <3>1, <3>2
  <2> QED
    BY <2>2, <2>3
<1>8. DOMAIN (a \o b) = 1 .. Len(seq) - 1
  BY <1>5, <1>6, LenProperties
<1> QED
  BY <1>4, <1>5, <1>6, <1>7, <1>8

----------------------------------------------------------------------------

\* Erasing a line from a set hides that line and no other.
LEMMA RemoveLine ==
    ASSUME NEW T, NEW set \in Seq(LinesOver(T)), UniqueTags(set),
           NEW i \in DOMAIN set
    PROVE  LET rest == RemoveAt(set, i)
           IN  /\ rest \in Seq(LinesOver(T)) /\ Len(rest) = Len(set) - 1
               /\ UniqueTags(rest)
               /\ NoInvalidLine(set) => NoInvalidLine(rest)
               /\ ~IsCached(rest, set[i].tag)
               /\ \A t : findTag(rest, t) =
                     IF t = set[i].tag THEN "Invalid" ELSE findTag(set, t)
PROOF
<1> DEFINE rest == RemoveAt(set, i)
<1>1. /\ i \in 1 .. Len(set) /\ Len(set) \in Nat /\ i \in Int
      /\ DOMAIN set = 1 .. Len(set)
  BY LenProperties
<1>2. /\ rest \in Seq(LinesOver(T)) /\ Len(rest) = Len(set) - 1
      /\ DOMAIN rest = 1 .. Len(set) - 1
      /\ \A j \in 1 .. Len(set) - 1 :
            rest[j] = IF j < i THEN set[j] ELSE set[j + 1]
  BY <1>1, RemoveAtProperties
<1> HIDE DEF rest
<1>3. \A j \in DOMAIN rest :
         \E k \in DOMAIN set : k # i /\ rest[j] = set[k]
                             /\ k = IF j < i THEN j ELSE j + 1
  BY <1>1, <1>2
<1>4. \A k \in DOMAIN set \ {i} : \E j \in DOMAIN rest : rest[j] = set[k]
  <2> TAKE k \in DOMAIN set \ {i}
  <2>1. CASE k < i
    <3>1. k \in 1 .. Len(set) - 1
      BY <1>1, <2>1
    <3> QED
      BY <1>2, <2>1, <3>1
  <2>2. CASE k > i
    <3>1. k - 1 \in 1 .. Len(set) - 1 /\ ~(k - 1 < i) /\ (k - 1) + 1 = k
      BY <1>1, <2>2
    <3> QED
      BY <1>2, <3>1
  <2> QED
    BY <1>1, <2>1, <2>2
<1>5. UniqueTags(rest)
  <2> SUFFICES ASSUME NEW j1 \in DOMAIN rest, NEW j2 \in DOMAIN rest,
                      rest[j1].tag = rest[j2].tag
               PROVE  j1 = j2
    BY DEF UniqueTags
  <2>1. PICK k1 \in DOMAIN set : /\ rest[j1] = set[k1]
                                 /\ k1 = IF j1 < i THEN j1 ELSE j1 + 1
    BY <1>3
  <2>2. PICK k2 \in DOMAIN set : /\ rest[j2] = set[k2]
                                 /\ k2 = IF j2 < i THEN j2 ELSE j2 + 1
    BY <1>3
  <2>3. k1 = k2
    BY <2>1, <2>2 DEF UniqueTags
  <2> QED
    BY <1>1, <1>2, <2>1, <2>2, <2>3
<1>6. NoInvalidLine(set) => NoInvalidLine(rest)
  BY <1>3 DEF NoInvalidLine
<1>7. ~IsCached(rest, set[i].tag)
  BY <1>3 DEF IsCached, UniqueTags
<1>8. ASSUME NEW t, t # set[i].tag
      PROVE  findTag(rest, t) = findTag(set, t)
  <2>1. CASE IsCached(set, t)
    <3>1. PICK k \in DOMAIN set : set[k].tag = t /\ findTag(set, t) = set[k].state
      BY <2>1, FindTagOfCached
    <3>2. PICK j \in DOMAIN rest : rest[j] = set[k]
      BY <1>4, <1>8, <3>1
    <3>3. findTag(rest, rest[j].tag) = rest[j].state
      BY <1>2, <1>5, <3>2, FirstWayIsIndex
    <3> QED
      BY <3>1, <3>2, <3>3
  <2>2. CASE ~IsCached(set, t)
    <3>1. ~IsCached(rest, t)
      BY <1>3, <2>2 DEF IsCached
    <3> QED
      BY <2>2, <3>1 DEF findTag
  <2> QED
    BY <2>1, <2>2
<1>9. findTag(rest, set[i].tag) = "Invalid"
  BY <1>7 DEF findTag
<1> QED
  BY <1>2, <1>5, <1>6, <1>7, <1>8, <1>9 DEF rest

\* Pushing a line the set does not hold adds that line and disturbs no other.
LEMMA AppendLine ==
    ASSUME NEW T, NEW set \in Seq(LinesOver(T)), UniqueTags(set),
           NEW line \in LinesOver(T), ~IsCached(set, line.tag)
    PROVE  LET more == Append(set, line)
           IN  /\ more \in Seq(LinesOver(T)) /\ Len(more) = Len(set) + 1
               /\ UniqueTags(more)
               /\ NoInvalidLine(set) /\ line.state # "Invalid"
                    => NoInvalidLine(more)
               /\ \A t : findTag(more, t) =
                     IF t = line.tag THEN line.state ELSE findTag(set, t)
PROOF
<1> DEFINE more == Append(set, line)
           n == Len(set) + 1
<1>1. Len(set) \in Nat /\ DOMAIN set = 1 .. Len(set)
  BY LenProperties
<1>2. /\ more \in Seq(LinesOver(T)) /\ Len(more) = n
      /\ \A j \in 1 .. Len(set) : more[j] = set[j]
      /\ more[n] = line
  BY AppendProperties
<1>3. DOMAIN more = 1 .. n
  BY <1>2, LenProperties
<1> HIDE DEF more
<1>4. \A j \in DOMAIN more : j = n \/ (j \in DOMAIN set /\ more[j] = set[j])
  BY <1>1, <1>2, <1>3
<1>5. UniqueTags(more)
  <2> SUFFICES ASSUME NEW j1 \in DOMAIN more, NEW j2 \in DOMAIN more,
                      more[j1].tag = more[j2].tag
               PROVE  j1 = j2
    BY DEF UniqueTags
  <2> QED
    BY <1>2, <1>4 DEF UniqueTags, IsCached
<1>6. NoInvalidLine(set) /\ line.state # "Invalid" => NoInvalidLine(more)
  BY <1>2, <1>4 DEF NoInvalidLine
<1>7. findTag(more, line.tag) = line.state
  BY <1>1, <1>2, <1>3, <1>5, FirstWayIsIndex
<1>8. ASSUME NEW t, t # line.tag
      PROVE  findTag(more, t) = findTag(set, t)
  <2>1. CASE IsCached(set, t)
    <3>1. PICK k \in DOMAIN set : set[k].tag = t /\ findTag(set, t) = set[k].state
      BY <2>1, FindTagOfCached
    <3>2. k \in DOMAIN more /\ more[k] = set[k]
      BY <1>1, <1>2, <1>3
    <3>3. findTag(more, more[k].tag) = more[k].state
      BY <1>2, <1>5, <3>2, FirstWayIsIndex
    <3> QED
      BY <3>1, <3>2, <3>3
  <2>2. CASE ~IsCached(set, t)
    <3>1. ~IsCached(more, t)
      BY <1>2, <1>4, <1>8, <2>2 DEF IsCached
    <3> QED
      BY <2>2, <3>1 DEF findTag
  <2> QED
    BY <2>1, <2>2
<1> QED
  BY <1>2, <1>5, <1>6, <1>7, <1>8 DEF more

----------------------------------------------------------------------------

\* changeState (cache.cpp:149): a well-kept set stays well kept, the line gets
\* the state if the set holds it, and no other line is affected.
THEOREM ChangeStateProperties ==
    ASSUME NEW T, NEW set \in Seq(LinesOver(T)), UniqueTags(set),
           NEW tag, NEW state \in CacheState
    PROVE  LET after == changeState(set, tag, state)
           IN  /\ after \in Seq(LinesOver(T)) /\ Len(after) <= Len(set)
               /\ UniqueTags(after)
               /\ NoInvalidLine(set) => NoInvalidLine(after)
               /\ \A t : findTag(after, t) =
                     IF t = tag THEN IF IsCached(set, tag) THEN state ELSE "Invalid"
                     ELSE findTag(set, t)
PROOF
<1> DEFINE after == changeState(set, tag, state)
<1>1. Len(set) \in Nat /\ DOMAIN set = 1 .. Len(set)
  BY LenProperties
<1>2. CASE ~IsCached(set, tag)
  BY <1>1, <1>2 DEF changeState, findTag
<1>3. CASE IsCached(set, tag) /\ state = "Invalid"
  <2>1. PICK i \in DOMAIN set : set[i].tag = tag /\ FirstWay(set, tag) = i
    BY <1>3, FindTagOfCached
  <2>2. after = RemoveAt(set, i)
    BY <1>3, <2>1 DEF changeState
  <2> HIDE DEF after
  <2>3. /\ after \in Seq(LinesOver(T)) /\ Len(after) = Len(set) - 1
        /\ UniqueTags(after)
        /\ NoInvalidLine(set) => NoInvalidLine(after)
        /\ \A t : findTag(after, t) =
              IF t = tag THEN "Invalid" ELSE findTag(set, t)
    BY <2>1, <2>2, RemoveLine
  <2> QED
    BY <1>1, <1>3, <2>3 DEF after
<1>4. CASE IsCached(set, tag) /\ state # "Invalid"
  <2>1. PICK i \in DOMAIN set : set[i].tag = tag /\ FirstWay(set, tag) = i
    BY <1>4, FindTagOfCached
  <2> DEFINE line == [set[i] EXCEPT !.state = state]
  <2>2. after = [set EXCEPT ![i] = line]
    BY <1>4, <2>1 DEF changeState
  <2>3. set[i] \in LinesOver(T)
    BY <1>1, ElementOfSeq
  <2>4. line \in LinesOver(T) /\ line.tag = tag /\ line.state = state
    BY <2>1, <2>3 DEF LinesOver
  <2> HIDE DEF line, after
  <2>5. /\ after \in Seq(LinesOver(T)) /\ Len(after) = Len(set)
        /\ \A j \in DOMAIN set : after[j] = IF j = i THEN line ELSE set[j]
    BY <1>1, <2>1, <2>2, <2>4, ExceptSeq
  <2>6. DOMAIN after = DOMAIN set
    BY <1>1, <2>5, LenProperties
  <2>7. \A j \in DOMAIN set : after[j].tag = set[j].tag
    BY <2>1, <2>4, <2>5
  <2>8. UniqueTags(after)
    BY <2>6, <2>7 DEF UniqueTags
  <2>9. NoInvalidLine(set) => NoInvalidLine(after)
    BY <1>4, <2>4, <2>5, <2>6 DEF NoInvalidLine
  <2>10. findTag(after, tag) = state
    <3>1. findTag(after, after[i].tag) = after[i].state
      BY <2>1, <2>5, <2>6, <2>8, FirstWayIsIndex
    <3> QED
      BY <2>1, <2>4, <2>5, <3>1
  <2>11. ASSUME NEW t, t # tag
         PROVE  findTag(after, t) = findTag(set, t)
    <3>1. CASE IsCached(set, t)
      <4>1. PICK k \in DOMAIN set : set[k].tag = t /\ findTag(set, t) = set[k].state
        BY <3>1, FindTagOfCached
      <4>2. k \in DOMAIN after /\ after[k] = set[k]
        BY <2>1, <2>5, <2>6, <2>11, <4>1
      <4>3. findTag(after, after[k].tag) = after[k].state
        BY <2>5, <2>8, <4>2, FirstWayIsIndex
      <4> QED
        BY <4>1, <4>2, <4>3
    <3>2. CASE ~IsCached(set, t)
      <4>1. ~IsCached(after, t)
        BY <2>6, <2>7, <3>2 DEF IsCached
      <4> QED
        BY <3>2, <4>1 DEF findTag
    <3> QED
      BY <3>1, <3>2
  <2>12. Len(after) <= Len(set)
    BY <1>1, <2>5
  <2> QED
    BY <1>4, <2>5, <2>8, <2>9, <2>10, <2>11, <2>12 DEF after
<1> QED
  BY <1>2, <1>3, <1>4

\* updateLRU (cache.cpp:168): moving a line to the back changes the order of the
\* set and the state of no line.
THEOREM UpdateLRUProperties ==
    ASSUME NEW T, NEW set \in Seq(LinesOver(T)), UniqueTags(set),
           NEW tag, IsCached(set, tag)
    PROVE  LET after == updateLRU(set, tag)
           IN  /\ after \in Seq(LinesOver(T)) /\ Len(after) = Len(set)
               /\ UniqueTags(after)
               /\ NoInvalidLine(set) => NoInvalidLine(after)
               /\ \A t : findTag(after, t) = findTag(set, t)
PROOF
<1> DEFINE after == updateLRU(set, tag)
<1>1. PICK i \in DOMAIN set :
         /\ set[i].tag = tag /\ FirstWay(set, tag) = i
         /\ findTag(set, tag) = set[i].state
  BY FindTagOfCached
<1>2. Len(set) \in Nat /\ set[i] \in LinesOver(T)
  BY LenProperties, ElementOfSeq
<1> DEFINE rest == RemoveAt(set, i)
<1>3. after = Append(rest, set[i])
  BY <1>1 DEF updateLRU
<1>4. /\ rest \in Seq(LinesOver(T)) /\ Len(rest) = Len(set) - 1
      /\ UniqueTags(rest)
      /\ NoInvalidLine(set) => NoInvalidLine(rest)
      /\ ~IsCached(rest, tag)
      /\ \A t : findTag(rest, t) =
            IF t = tag THEN "Invalid" ELSE findTag(set, t)
  BY <1>1, RemoveLine
<1> HIDE DEF rest, after
<1>5. /\ after \in Seq(LinesOver(T)) /\ Len(after) = Len(rest) + 1
      /\ UniqueTags(after)
      /\ NoInvalidLine(rest) /\ set[i].state # "Invalid" => NoInvalidLine(after)
      /\ \A t : findTag(after, t) =
            IF t = tag THEN set[i].state ELSE findTag(rest, t)
  BY <1>1, <1>2, <1>3, <1>4, AppendLine
<1>6. NoInvalidLine(set) => NoInvalidLine(after)
  BY <1>4, <1>5 DEF NoInvalidLine
<1>7. Len(after) = Len(set)
  BY <1>2, <1>4, <1>5
<1>8. \A t : findTag(after, t) = findTag(set, t)
  BY <1>1, <1>4, <1>5
<1> QED
  BY <1>5, <1>6, <1>7, <1>8 DEF after

\* The front of a set is a line findTag reports, so the tag that checkWriteback
\* returns is that of a resident line.
LEMMA FrontIsCached ==
    ASSUME NEW T, NEW set \in Seq(LinesOver(T)), UniqueTags(set), set # << >>
    PROVE  /\ Head(set) = set[1] /\ 1 \in DOMAIN set
           /\ IsCached(set, Head(set).tag)
           /\ findTag(set, Head(set).tag) = Head(set).state
PROOF
<1>1. Len(set) \in Nat \ {0} /\ DOMAIN set = 1 .. Len(set)
  BY EmptySeq, LenProperties
<1>2. 1 \in DOMAIN set /\ Head(set) = set[1]
  BY <1>1
<1> QED
  BY <1>2, FirstWayIsIndex

\* insertLine (cache.cpp:206) of a line the set does not hold: at most the least
\* recently used line goes, and only from a full set, which stays full.
THEOREM InsertLineProperties ==
    ASSUME NEW T, NEW set \in Seq(LinesOver(T)), UniqueTags(set),
           Len(set) <= Assoc,
           NEW tag \in T, NEW state \in CacheState, ~IsCached(set, tag)
    PROVE  LET after == insertLine(set, tag, state)
           IN  /\ after \in Seq(LinesOver(T)) /\ Len(after) <= Assoc
               /\ UniqueTags(after)
               /\ NoInvalidLine(set) /\ state # "Invalid" => NoInvalidLine(after)
               /\ \A t : findTag(after, t) =
                     IF t = tag THEN state
                     ELSE IF Len(set) = Assoc /\ t = Head(set).tag THEN "Invalid"
                     ELSE findTag(set, t)
PROOF
<1> DEFINE line == [tag |-> tag, state |-> state]
           after == insertLine(set, tag, state)
<1>1. Assoc \in Nat \ {0} /\ Len(set) \in Nat
  BY AssocAssumption, LenProperties
<1>2. line \in LinesOver(T) /\ line.tag = tag /\ line.state = state
  BY DEF LinesOver
<1>3. CASE Len(set) # Assoc
  <2>1. after = Append(set, line)
    BY <1>3 DEF insertLine
  <2>2. /\ after \in Seq(LinesOver(T)) /\ Len(after) = Len(set) + 1
        /\ UniqueTags(after)
        /\ NoInvalidLine(set) /\ state # "Invalid" => NoInvalidLine(after)
        /\ \A t : findTag(after, t) = IF t = tag THEN state ELSE findTag(set, t)
    BY <1>2, <2>1, AppendLine
  <2>3. Len(after) <= Assoc
    BY <1>1, <1>3, <2>2
  <2> QED
    BY <1>3, <2>2, <2>3
<1>4. CASE Len(set) = Assoc
  <2> DEFINE rest == Tail(set)
  <2>1. set # << >> /\ 1 \in 1 .. Len(set)
    BY <1>1, <1>4
  <2>2. Head(set) = set[1] /\ 1 \in DOMAIN set
    BY <2>1, FrontIsCached
  <2>3. rest = RemoveAt(set, 1)
    <3>1. /\ rest \in Seq(LinesOver(T)) /\ Len(rest) = Len(set) - 1
          /\ \A j \in 1 .. Len(rest) : rest[j] = set[j + 1]
      BY <2>1, HeadTailProperties
    <3>2. /\ RemoveAt(set, 1) \in Seq(LinesOver(T))
          /\ Len(RemoveAt(set, 1)) = Len(set) - 1
          /\ \A j \in 1 .. Len(set) - 1 : RemoveAt(set, 1)[j] = set[j + 1]
      <4>1. \A j \in 1 .. Len(set) - 1 : ~(j < 1)
        BY <1>1
      <4> QED
        BY <2>1, <4>1, RemoveAtProperties
    <3> HIDE DEF rest
    <3> QED
      BY <3>1, <3>2, SeqEqual
  <2>4. /\ rest \in Seq(LinesOver(T)) /\ Len(rest) = Len(set) - 1
        /\ UniqueTags(rest)
        /\ NoInvalidLine(set) => NoInvalidLine(rest)
        /\ \A t : findTag(rest, t) =
              IF t = Head(set).tag THEN "Invalid" ELSE findTag(set, t)
    <3> HIDE DEF rest
    <3> QED
      BY <2>2, <2>3, RemoveLine
  <2>5. ~IsCached(rest, tag)
    <3>1. \A j \in DOMAIN rest : \E k \in DOMAIN set : rest[j] = set[k]
      <4>1. DOMAIN rest = 1 .. Len(set) - 1 /\ DOMAIN set = 1 .. Len(set)
        BY <2>4, LenProperties
      <4>2. \A j \in 1 .. Len(set) - 1 : rest[j] = set[j + 1]
        BY <2>1, <2>4, HeadTailProperties
      <4> QED
        BY <1>1, <4>1, <4>2
    <3> QED
      BY <3>1 DEF IsCached
  <2>6. after = Append(rest, line)
    BY <1>4 DEF insertLine
  <2> HIDE DEF rest, after
  <2>7. /\ after \in Seq(LinesOver(T)) /\ Len(after) = Len(rest) + 1
        /\ UniqueTags(after)
        /\ NoInvalidLine(rest) /\ state # "Invalid" => NoInvalidLine(after)
        /\ \A t : findTag(after, t) = IF t = tag THEN state ELSE findTag(rest, t)
    BY <1>2, <2>4, <2>5, <2>6, AppendLine
  <2>8. Len(after) <= Assoc
    BY <1>1, <1>4, <2>4, <2>7
  <2> QED
    BY <1>4, <2>4, <2>7, <2>8 DEF after
<1> QED
  BY <1>3, <1>4
=============================================================================
