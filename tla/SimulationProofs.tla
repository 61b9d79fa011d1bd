-------------------------- MODULE SimulationProofs --------------------------
(***************************************************************************)
(* What a simulation guarantees for every geometry of the cache, every     *)
(* command line and every trace.                                           *)
(*                                                                         *)
(* The steps of the program are accesses of SingleCacheSystem, or leave it *)
(* alone, so what SingleCacheSystemProofs shows holds here.  What the      *)
(* deques and the Modified state stand for needs IsLru: the deque of a set *)
(* is the end of the sequence of its lines ordered by their last access,   *)
(* in which no line occurs twice.                                          *)
(*                                                                         *)
(* The program runs Precompression too, on the data of the same lines.     *)
(* Tables is that instance with the theorems of PrecompressionProofs;      *)
(* Data, the one of Simulation, has the same definitions by other names.   *)
(* From its invariants follows how well lines compress, and what the       *)
(* turnover counts.  ProgramInv adds to the invariants of the two parts    *)
(* that the tags and the data of a set are one deque.                      *)
(***************************************************************************)
EXTENDS Simulation, SingleCacheSystemProofs

----------------------------------------------------------------------------
(* The order of the accesses.                                              *)

Injective(order) ==
    \A i, j \in DOMAIN order : order[i] = order[j] => i = j

Accessed(order, line) == Append(RemoveFirst(order, line), line)

\* RemoveFirst removes the only occurrence.
LEMMA RemoveOnly ==
    ASSUME NEW S, NEW order \in Seq(S), Injective(order), NEW line
    PROVE  /\ \A i \in DOMAIN order :
                order[i] = line => RemoveFirst(order, line) = RemoveAt(order, i)
           /\ (\A i \in DOMAIN order : order[i] # line)
                => RemoveFirst(order, line) = order
PROOF
<1>1. DOMAIN order = 1 .. Len(order)
  BY LenProperties
<1>2. ASSUME NEW i \in DOMAIN order, order[i] = line
      PROVE  RemoveFirst(order, line) = RemoveAt(order, i)
  <2>1. {j \in 1 .. Len(order) : order[j] = line} = {i} /\ i \in Int
    BY <1>1, <1>2 DEF Injective
  <2>2. Min({i}) = i
    BY <2>1 DEF Min
  <2>3. SelectInSeq(order, LAMBDA v : v = line) = i
    BY <2>1, <2>2 DEF SelectInSeq
  <2> QED
    BY <1>1, <1>2, <2>3 DEF RemoveFirst
<1>3. (\A i \in DOMAIN order : order[i] # line) => RemoveFirst(order, line) = order
  BY <1>1 DEF RemoveFirst
<1> QED
  BY <1>2, <1>3

\* An access to a line of the order closes the gap it leaves.
LEMMA AccessedAgain ==
    ASSUME NEW order \in Seq(Lines), Injective(order), NEW line \in Lines,
           NEW p \in DOMAIN order, order[p] = line
    PROVE  LET after == Accessed(order, line)
           IN  /\ after \in Seq(Lines) /\ Injective(after)
               /\ Len(after) = Len(order)
               /\ \A j \in 1 .. Len(order) - 1 :
                    after[j] = IF j < p THEN order[j] ELSE order[j + 1]
               /\ after[Len(order)] = line
PROOF
<1> DEFINE n == Len(order)
           rest == RemoveAt(order, p)
           after == Accessed(order, line)
<1>1. n \in Nat /\ p \in 1 .. n /\ DOMAIN order = 1 .. n
  BY LenProperties
<1>2. /\ rest \in Seq(Lines) /\ Len(rest) = n - 1
      /\ \A j \in 1 .. n - 1 :
            rest[j] = IF j < p THEN order[j] ELSE order[j + 1]
  BY <1>1, RemoveAtProperties
<1>3. after = Append(rest, line)
  BY RemoveOnly DEF Accessed
<1> HIDE DEF rest, after, n
<1>4. /\ after \in Seq(Lines) /\ Len(after) = Len(rest) + 1
      /\ \A j \in 1 .. Len(rest) : after[j] = rest[j]
      /\ after[Len(rest) + 1] = line
  BY <1>2, <1>3, AppendProperties
<1>5. /\ Len(after) = n /\ after[n] = line
      /\ \A j \in 1 .. n - 1 :
            after[j] = IF j < p THEN order[j] ELSE order[j + 1]
  BY <1>1, <1>2, <1>4
<1>6. DOMAIN after = 1 .. n
  BY <1>4, <1>5, LenProperties
<1>7. Injective(after)
  <2> DEFINE from(j) == IF j = n THEN p ELSE IF j < p THEN j ELSE j + 1
  <2>1. \A j \in 1 .. n : from(j) \in 1 .. n /\ after[j] = order[from(j)]
    BY <1>1, <1>5
  <2>2. \A i, j \in 1 .. n : from(i) = from(j) => i = j
    BY <1>1
  <2> HIDE DEF from
  <2> QED
    BY <1>1, <1>6, <2>1, <2>2 DEF Injective
<1> QED
  BY <1>4, <1>5, <1>7 DEF n, after

\* The first access to a line adds it at the end.
LEMMA AccessedFirst ==
    ASSUME NEW order \in Seq(Lines), Injective(order), NEW line \in Lines,
           \A i \in DOMAIN order : order[i] # line
    PROVE  LET after == Accessed(order, line)
           IN  /\ after \in Seq(Lines) /\ Injective(after)
               /\ Len(after) = Len(order) + 1
               /\ \A j \in 1 .. Len(order) : after[j] = order[j]
               /\ after[Len(order) + 1] = line
PROOF
<1> DEFINE after == Accessed(order, line)
<1>1. Len(order) \in Nat /\ DOMAIN order = 1 .. Len(order)
  BY LenProperties
<1>2. after = Append(order, line)
  BY RemoveOnly DEF Accessed
<1> HIDE DEF after
<1>3. /\ after \in Seq(Lines) /\ Len(after) = Len(order) + 1
      /\ \A j \in 1 .. Len(order) : after[j] = order[j]
      /\ after[Len(order) + 1] = line
  BY <1>2, AppendProperties
<1>4. DOMAIN after = 1 .. Len(order) + 1
  BY <1>3, LenProperties
<1>5. Injective(after)
  BY <1>1, <1>3, <1>4 DEF Injective
<1> QED
  BY <1>3, <1>5 DEF after

----------------------------------------------------------------------------
(* LRU.                                                                    *)

\* The deque of set s is the end of the order of its accesses.
IsLru(s, set, order) ==
    /\ order \in Seq(Lines) /\ Injective(order)
    /\ Len(set) = IF Len(order) < Assoc THEN Len(order) ELSE Assoc
    /\ \A i \in DOMAIN set :
          s + set[i].tag = order[Len(order) - Len(set) + i]

\* What a hit makes of a set.
AfterHit(set, tag, accessType) ==
    updateLRU(IF accessType = "Write" THEN changeState(set, tag, "Modified")
              ELSE set, tag)

\* Of n elements, the one that comes to place j when the one at place i moves to
\* the end.
Behind(n, i, j) == IF j = n THEN i ELSE IF j < i THEN j ELSE j + 1

\* Where the lines of a set are after a hit, but for their states.
LEMMA HitMoves ==
    ASSUME NEW set, WellKept(set), NEW i \in 1 .. Len(set), NEW accessType,
           NEW j \in 1 .. Len(set)
    PROVE  /\ Len(AfterHit(set, set[i].tag, accessType)) = Len(set)
           /\ DOMAIN AfterHit(set, set[i].tag, accessType) = 1 .. Len(set)
           /\ AfterHit(set, set[i].tag, accessType)[j].tag
                = set[Behind(Len(set), i, j)].tag
PROOF
<1> DEFINE n == Len(set)
           tag == set[i].tag
           changed == IF accessType = "Write"
                      THEN changeState(set, tag, "Modified") ELSE set
           rest == RemoveAt(changed, i)
           after == AfterHit(set, tag, accessType)
<1>1. n \in Nat /\ i \in 1 .. n /\ DOMAIN set = 1 .. n /\ j \in 1 .. n
      /\ set \in Seq(LinesOver(Tags)) /\ UniqueTags(set)
  BY LenProperties DEF WellKept
<1>2. FirstWay(set, tag) = i /\ IsCached(set, tag)
  BY <1>1, FirstWayIsIndex
<1>3. /\ changed \in Seq(LinesOver(Tags)) /\ UniqueTags(changed)
      /\ Len(changed) = n /\ DOMAIN changed = 1 .. n
      /\ \A k \in 1 .. n : changed[k].tag = set[k].tag
  <2>1. CASE accessType = "Write"
    <3>1. changed = [set EXCEPT ![i].state = "Modified"]
      BY <1>2, <2>1 DEF changeState
    <3>2. \A k \in 1 .. n : set[k] \in LinesOver(Tags)
      BY <1>1, ElementOfSeq
    <3>3. \A k \in 1 .. n : changed[k].tag = set[k].tag
      BY <1>1, <3>1, <3>2 DEF LinesOver
    <3>4. DOMAIN changed = 1 .. n
      BY <1>1, <3>1
    <3>5. changed \in Seq(LinesOver(Tags)) /\ UniqueTags(changed)
      BY <1>1, <2>1, ChangeStateProperties DEF CacheState
    <3> HIDE DEF changed
    <3> QED
      BY <1>1, <3>3, <3>4, <3>5, LenProperties
  <2>2. CASE accessType # "Write"
    BY <1>1, <2>2
  <2> QED
    BY <2>1, <2>2
<1> HIDE DEF n, changed, tag
<1>4. FirstWay(changed, tag) = i /\ after = updateLRU(changed, tag)
  BY <1>1, <1>3, FirstWayIsIndex DEF AfterHit, changed, tag
<1>5. /\ rest \in Seq(LinesOver(Tags)) /\ Len(rest) = n - 1
      /\ \A k \in 1 .. n - 1 :
            rest[k] = IF k < i THEN changed[k] ELSE changed[k + 1]
  BY <1>1, <1>3, RemoveAtProperties
<1>6. after = Append(rest, changed[i]) /\ changed[i] \in LinesOver(Tags)
  BY <1>1, <1>3, <1>4, ElementOfSeq DEF updateLRU
<1> HIDE DEF rest, after
<1>7. /\ after \in Seq(LinesOver(Tags)) /\ Len(after) = Len(rest) + 1
      /\ \A k \in 1 .. Len(rest) : after[k] = rest[k]
      /\ after[Len(rest) + 1] = changed[i]
  BY <1>5, <1>6, AppendProperties
<1>8. Len(after) = n /\ DOMAIN after = 1 .. n /\ after[n] = changed[i]
  BY <1>1, <1>3, <1>5, <1>7, LenProperties
<1>9. after[j].tag = set[Behind(n, i, j)].tag
  <2>1. CASE j = n
    BY <1>1, <1>3, <1>8, <2>1 DEF Behind
  <2>2. CASE j # n
    <3>1. j \in 1 .. n - 1
      BY <1>1, <2>2
    <3>2. after[j] = IF j < i THEN changed[j] ELSE changed[j + 1]
      BY <1>1, <1>5, <1>7, <3>1
    <3>3. j \in 1 .. n /\ j + 1 \in 1 .. n
      BY <1>1, <3>1
    <3> QED
      BY <1>3, <2>2, <3>2, <3>3 DEF Behind
  <2> QED
    BY <2>1, <2>2
<1> QED
  BY <1>8, <1>9 DEF n, after, tag

\* Where they are after a miss.
LEMMA MissMoves ==
    ASSUME NEW set, WellKept(set), NEW tag \in Tags, NEW state \in CacheState
    PROVE  LET after == insertLine(set, tag, state)
               gone == IF Len(set) = Assoc THEN 1 ELSE 0
           IN  /\ Len(after) = Len(set) + 1 - gone
               /\ DOMAIN after = 1 .. Len(after)
               /\ \A j \in 1 .. Len(set) - gone :
                    after[j].tag = set[j + gone].tag
               /\ after[Len(after)].tag = tag
PROOF
<1> DEFINE n == Len(set)
           after == insertLine(set, tag, state)
           gone == IF Len(set) = Assoc THEN 1 ELSE 0
           rest == IF Len(set) = Assoc THEN Tail(set) ELSE set
           line == [tag |-> tag, state |-> state]
<1>1. n \in Nat /\ Assoc \in Nat \ {0} /\ set \in Seq(LinesOver(Tags))
  BY AssocAssumption, LenProperties DEF WellKept
<1>2. /\ rest \in Seq(LinesOver(Tags)) /\ Len(rest) = n - gone
      /\ \A j \in 1 .. n - gone : rest[j] = set[j + gone]
  <2>1. CASE Len(set) = Assoc
    <3>1. set # << >>
      BY <1>1, <2>1
    <3> QED
      BY <1>1, <2>1, <3>1, HeadTailProperties
  <2>2. CASE Len(set) # Assoc
    BY <1>1, <2>2
  <2> QED
    BY <2>1, <2>2
<1>3. line \in LinesOver(Tags) /\ line.tag = tag
  BY DEF LinesOver
<1>4. after = Append(rest, line)
  BY DEF insertLine
<1>5. gone \in 0 .. 1
  OBVIOUS
<1> HIDE DEF rest, after, gone, line, n
<1>6. /\ after \in Seq(LinesOver(Tags)) /\ Len(after) = Len(rest) + 1
      /\ \A j \in 1 .. Len(rest) : after[j] = rest[j]
      /\ after[Len(rest) + 1] = line
  BY <1>2, <1>3, <1>4, AppendProperties
<1>7. DOMAIN after = 1 .. Len(after)
  BY <1>6, LenProperties
<1>8. Len(after) = n + 1 - gone
  BY <1>1, <1>2, <1>5, <1>6
<1> QED
  BY <1>2, <1>3, <1>5, <1>6, <1>7, <1>8 DEF n, gone, after

\* A resident line is a recent one, at the place that its place in the deque says.
LEMMA RecentPlace ==
    ASSUME NEW s \in Sets, NEW set, WellKept(set), NEW order, IsLru(s, set, order),
           NEW line \in Lines, SetOf(line) = s
    PROVE  /\ Len(set) \in Nat /\ Len(order) \in Nat /\ Len(set) <= Len(order)
           /\ DOMAIN set = 1 .. Len(set) /\ DOMAIN order = 1 .. Len(order)
           /\ \A i \in DOMAIN set :
                (set[i].tag = TagOf(line)
                   <=> order[Len(order) - Len(set) + i] = line)
           /\ (\A i \in DOMAIN order : order[i] # line)
                => ~IsCached(set, TagOf(line))
PROOF
<1>1. /\ Len(set) \in Nat /\ Len(order) \in Nat /\ Assoc \in Nat
      /\ DOMAIN set = 1 .. Len(set) /\ DOMAIN order = 1 .. Len(order)
  BY AssocAssumption, LenProperties DEF WellKept, IsLru
<1>2. Len(set) <= Len(order)
  BY <1>1 DEF IsLru
<1>3. s + TagOf(line) = line /\ TagOf(line) \in Int /\ s \in Int
  BY SystemAssumption DEF TagOf, SetOf, Lines, Sets
<1>4. ASSUME NEW i \in DOMAIN set
      PROVE  set[i].tag = TagOf(line)
               <=> order[Len(order) - Len(set) + i] = line
  <2>1. set[i].tag \in Tags
    <3>1. set \in Seq(LinesOver(Tags)) /\ i \in 1 .. Len(set)
      BY <1>1 DEF WellKept
    <3>2. set[i] \in LinesOver(Tags)
      BY <3>1, ElementOfSeq
    <3> QED
      BY <3>2 DEF LinesOver
  <2>2. set[i].tag \in Int
    BY <2>1, SystemAssumption DEF Tags, TagOf, SetOf, Lines
  <2>3. s + set[i].tag = order[Len(order) - Len(set) + i]
    BY DEF IsLru
  <2> QED
    BY <1>3, <2>2, <2>3
<1>5. \A i \in DOMAIN set : Len(order) - Len(set) + i \in DOMAIN order
  BY <1>1, <1>2
<1>6. (\A i \in DOMAIN order : order[i] # line) => ~IsCached(set, TagOf(line))
  BY <1>4, <1>5 DEF IsCached
<1> QED
  BY <1>1, <1>2, <1>4, <1>6

LEMMA HitKeepsLru ==
    ASSUME NEW s \in Sets, NEW set, WellKept(set), NEW order, IsLru(s, set, order),
           NEW line \in Lines, SetOf(line) = s, IsCached(set, TagOf(line)),
           NEW accessType
    PROVE  IsLru(s, AfterHit(set, TagOf(line), accessType),
                 Accessed(order, line))
PROOF
<1> DEFINE n == Len(order)
           c == Len(set)
           new == AfterHit(set, TagOf(line), accessType)
           after == Accessed(order, line)
<1>1. /\ c \in Nat /\ n \in Nat /\ c <= n
      /\ DOMAIN set = 1 .. c /\ DOMAIN order = 1 .. n
      /\ order \in Seq(Lines) /\ Injective(order)
  BY RecentPlace DEF IsLru
<1>2. PICK i \in 1 .. c : set[i].tag = TagOf(line)
  BY <1>1 DEF IsCached
<1> DEFINE p == n - c + i
<1>3. p \in 1 .. n /\ order[p] = line
  BY <1>1, <1>2, RecentPlace
<1>4. /\ Len(new) = c /\ DOMAIN new = 1 .. c
      /\ \A j \in 1 .. c : new[j].tag = set[Behind(c, i, j)].tag
  <2>1. i \in 1 .. Len(set) /\ set[i].tag = TagOf(line)
    BY <1>1, <1>2
  <2> HIDE DEF p, n, after, c, new
  <2>2. ASSUME NEW j \in 1 .. Len(set)
        PROVE  /\ Len(new) = Len(set) /\ DOMAIN new = 1 .. Len(set)
               /\ new[j].tag = set[Behind(Len(set), i, j)].tag
    BY <2>1, HitMoves DEF new
  <2> QED
    BY <2>1, <2>2 DEF c
<1>5. /\ after \in Seq(Lines) /\ Injective(after) /\ Len(after) = n
      /\ \A j \in 1 .. n - 1 :
            after[j] = IF j < p THEN order[j] ELSE order[j + 1]
      /\ after[n] = line
  <2> HIDE DEF p
  <2> QED
    BY <1>1, <1>3, AccessedAgain
<1>6. /\ \A j \in 1 .. c : s + set[j].tag = order[n - c + j]
      /\ c = IF n < Assoc THEN n ELSE Assoc
  BY <1>1 DEF IsLru
<1>7. s + TagOf(line) = line
  BY LineParts
<1> HIDE DEF n, c, new, after
<1>8. ASSUME NEW j \in 1 .. c
      PROVE  s + new[j].tag = after[n - c + j]
  <2>1. CASE j = c
    <3>1. n - c + j = n
      BY <1>1, <2>1
    <3> QED
      BY <1>2, <1>4, <1>5, <1>7, <2>1, <3>1 DEF Behind
  <2>2. CASE j # c /\ j < i
    <3>1. n - c + j \in 1 .. n - 1 /\ n - c + j < p /\ j \in 1 .. c - 1
      BY <1>1, <2>2
    <3> QED
      BY <1>4, <1>5, <1>6, <2>2, <3>1 DEF Behind
  <2>3. CASE j # c /\ ~(j < i)
    <3>1. /\ n - c + j \in 1 .. n - 1 /\ ~(n - c + j < p) /\ j \in 1 .. c - 1
          /\ j + 1 \in 1 .. c /\ n - c + (j + 1) = (n - c + j) + 1
      BY <1>1, <1>2, <2>3
    <3> HIDE DEF p
    <3>2. after[n - c + j] = order[(n - c + j) + 1]
      BY <1>5, <3>1
    <3>3. new[j].tag = set[j + 1].tag
      BY <1>4, <2>3 DEF Behind
    <3>4. s + set[j + 1].tag = order[n - c + (j + 1)]
      BY <1>6, <3>1
    <3> QED
      BY <3>1, <3>2, <3>3, <3>4
  <2> QED
    BY <2>1, <2>2, <2>3
<1>9. IsLru(s, new, after)
  BY <1>4, <1>5, <1>6, <1>8 DEF IsLru
<1> QED
  BY <1>9 DEF new, after

\* A line that is not resident was either never accessed, or so long ago that a
\* full deque has no place for it.
LEMMA MissKeepsLru ==
    ASSUME NEW s \in Sets, NEW set, WellKept(set), NEW order, IsLru(s, set, order),
           NEW line \in Lines, SetOf(line) = s, ~IsCached(set, TagOf(line)),
           NEW state \in CacheState
    PROVE  IsLru(s, insertLine(set, TagOf(line), state), Accessed(order, line))
PROOF
<1> DEFINE n == Len(order)
           c == Len(set)
           gone == IF c = Assoc THEN 1 ELSE 0
           new == insertLine(set, TagOf(line), state)
           after == Accessed(order, line)
<1>1. /\ c \in Nat /\ n \in Nat /\ c <= n /\ Assoc \in Nat \ {0}
      /\ DOMAIN set = 1 .. c /\ DOMAIN order = 1 .. n
      /\ order \in Seq(Lines) /\ Injective(order)
  BY RecentPlace, AssocAssumption DEF IsLru
<1>2. /\ Len(new) = c + 1 - gone /\ DOMAIN new = 1 .. Len(new)
      /\ \A j \in 1 .. c - gone : new[j].tag = set[j + gone].tag
      /\ new[Len(new)].tag = TagOf(line)
  BY LineParts, MissMoves
<1>3. /\ \A j \in 1 .. c : s + set[j].tag = order[n - c + j]
      /\ c = IF n < Assoc THEN n ELSE Assoc
  BY <1>1 DEF IsLru
<1>4. s + TagOf(line) = line
  BY LineParts
<1>5. CASE \E p \in DOMAIN order : order[p] = line
  <2>1. PICK p \in 1 .. n : order[p] = line
    BY <1>1, <1>5
  <2>2. p <= n - c
    <3> SUFFICES ASSUME p > n - c PROVE FALSE
      BY <1>1
    <3>1. p - (n - c) \in 1 .. c /\ n - c + (p - (n - c)) = p
      BY <1>1
    <3>2. set[p - (n - c)].tag = TagOf(line)
      BY <1>1, <2>1, <3>1, RecentPlace
    <3> QED
      BY <1>1, <3>1, <3>2 DEF IsCached
  <2>3. c = Assoc /\ gone = 1
    BY <1>1, <1>3, <2>2
  <2>4. /\ after \in Seq(Lines) /\ Injective(after) /\ Len(after) = n
        /\ \A j \in 1 .. n - 1 :
              after[j] = IF j < p THEN order[j] ELSE order[j + 1]
        /\ after[n] = line
    BY <1>1, <2>1, AccessedAgain
  <2>5. Len(new) = c
    BY <1>1, <1>2, <2>3
  <2> HIDE DEF n, c, new, after, gone
  <2>6. ASSUME NEW j \in 1 .. c
        PROVE  s + new[j].tag = after[n - c + j]
    <3>1. CASE j = c
      <4>1. n - c + j = n
        BY <1>1, <3>1
      <4> QED
        BY <1>2, <1>4, <2>4, <2>5, <3>1, <4>1
    <3>2. CASE j # c
      <4>1. /\ j \in 1 .. c - gone /\ j + gone = j + 1 /\ j + 1 \in 1 .. c
            /\ n - c + j \in 1 .. n - 1 /\ ~(n - c + j < p)
            /\ n - c + (j + 1) = (n - c + j) + 1
        BY <1>1, <2>2, <2>3, <3>2
      <4>2. new[j].tag = set[j + 1].tag
        BY <1>2, <4>1
      <4>3. after[n - c + j] = order[(n - c + j) + 1]
        BY <2>4, <4>1
      <4>4. s + set[j + 1].tag = order[n - c + (j + 1)]
        BY <1>3, <4>1
      <4> QED
        BY <4>1, <4>2, <4>3, <4>4
    <3> QED
      BY <3>1, <3>2
  <2>7. DOMAIN new = 1 .. c /\ Len(new) = IF n < Assoc THEN n ELSE Assoc
    BY <1>2, <1>3, <2>5
  <2>8. IsLru(s, new, after)
    BY <2>4, <2>5, <2>6, <2>7 DEF IsLru
  <2> QED
    BY <2>8 DEF new, after
<1>6. CASE \A p \in DOMAIN order : order[p] # line
  <2>1. /\ after \in Seq(Lines) /\ Injective(after) /\ Len(after) = n + 1
        /\ \A j \in 1 .. n : after[j] = order[j]
        /\ after[n + 1] = line
    BY <1>1, <1>6, AccessedFirst
  <2>2. gone \in 0 .. 1
    OBVIOUS
  <2>3. Len(new) = IF n + 1 < Assoc THEN n + 1 ELSE Assoc
    <3> HIDE DEF n, c, new
    <3> QED
      BY <1>1, <1>2, <1>3
  <2> HIDE DEF n, c, new, after, gone
  <2>4. ASSUME NEW j \in 1 .. Len(new)
        PROVE  s + new[j].tag = after[n + 1 - Len(new) + j]
    <3>1. CASE j = Len(new)
      <4>1. n + 1 - Len(new) + j = n + 1
        BY <1>1, <1>2, <2>2, <3>1
      <4> QED
        BY <1>2, <1>4, <2>1, <3>1, <4>1
    <3>2. CASE j # Len(new)
      <4>1. /\ j \in 1 .. c - gone /\ j + gone \in 1 .. c
            /\ n - c + (j + gone) \in 1 .. n
            /\ n - c + (j + gone) = n + 1 - Len(new) + j
        BY <1>1, <1>2, <2>2, <3>2
      <4>2. new[j].tag = set[j + gone].tag
        BY <1>2, <4>1
      <4>3. s + set[j + gone].tag = order[n - c + (j + gone)]
        BY <1>3, <4>1
      <4>4. after[n - c + (j + gone)] = order[n - c + (j + gone)]
        BY <2>1, <4>1
      <4> QED
        BY <4>1, <4>2, <4>3, <4>4
    <3> QED
      BY <3>1, <3>2
  <2>5. IsLru(s, new, after)
    BY <1>1, <1>2, <2>1, <2>3, <2>4 DEF IsLru
  <2> QED
    BY <2>5 DEF new, after
<1> QED
  BY <1>5, <1>6

----------------------------------------------------------------------------
(* The states of the lines.                                                *)

LEMMA HitStates ==
    ASSUME NEW set, WellKept(set), NEW tag, IsCached(set, tag), NEW accessType,
           NEW t
    PROVE  /\ accessType = "Write" /\ t = tag
                => findTag(AfterHit(set, tag, accessType), t) = "Modified"
           /\ ~(accessType = "Write" /\ t = tag)
                => findTag(AfterHit(set, tag, accessType), t) = findTag(set, t)
PROOF
<1> DEFINE marked == IF accessType = "Write"
                     THEN changeState(set, tag, "Modified") ELSE set
<1>1. /\ marked \in Seq(LinesOver(Tags)) /\ UniqueTags(marked)
      /\ NoInvalidLine(marked)
      /\ \A u : findTag(marked, u) =
            IF accessType = "Write" /\ u = tag THEN "Modified" ELSE findTag(set, u)
  <2>1. CASE accessType = "Write"
    BY <2>1, ChangeStateProperties DEF WellKept, CacheState
  <2>2. CASE accessType # "Write"
    BY <2>2 DEF WellKept
  <2> QED
    BY <2>1, <2>2
<1>2. findTag(set, tag) # "Invalid"
  BY FindTagType DEF WellKept
<1> HIDE DEF marked
<1>3. IsCached(marked, tag)
  BY <1>1, <1>2, FindTagType
<1>4. findTag(updateLRU(marked, tag), t) = findTag(marked, t)
  BY <1>1, <1>3, UpdateLRUProperties
<1>5. AfterHit(set, tag, accessType) = updateLRU(marked, tag)
  BY DEF AfterHit, marked
<1> QED
  BY <1>1, <1>4, <1>5

\* What a miss does to another line of the set: the front of a full deque goes,
\* nothing else changes.
LEMMA MissStates ==
    ASSUME NEW set, WellKept(set), NEW tag \in Tags, ~IsCached(set, tag),
           NEW state \in CacheState \ {"Invalid"}, NEW t
    PROVE  /\ t = tag => findTag(insertLine(set, tag, state), t) = state
           /\ t # tag /\ Len(set) = Assoc /\ t = Head(set).tag
                => findTag(insertLine(set, tag, state), t) = "Invalid"
           /\ t # tag /\ ~(Len(set) = Assoc /\ t = Head(set).tag)
                => findTag(insertLine(set, tag, state), t) = findTag(set, t)
PROOF
<1>1. findTag(insertLine(set, tag, state), t) =
         IF t = tag THEN state
         ELSE IF Len(set) = Assoc /\ t = Head(set).tag THEN "Invalid"
         ELSE findTag(set, t)
  BY InsertLineProperties DEF WellKept
<1> QED
  BY <1>1

\* The line that a miss in a full set evicts.
Victim(s) == s + Head(cache[s]).tag

LEMMA VictimIsResident ==
    ASSUME CacheOK, NEW s \in Sets, Len(cache[s]) = Assoc,
           NEW order, IsLru(s, cache[s], order)
    PROVE  /\ Victim(s) \in Lines /\ SetOf(Victim(s)) = s
           /\ TagOf(Victim(s)) = Head(cache[s]).tag
           /\ StateOf(Victim(s)) = Head(cache[s]).state
           /\ IsCached(cache[s], Head(cache[s]).tag)
PROOF
<1>1. WellKept(cache[s])
  BY CacheOKMeans
<1>2. cache[s] # << >>
  BY AssocAssumption, EmptySeq
<1>3. Head(cache[s]) \in LinesOver(Tags)
  BY <1>1, <1>2, HeadTailProperties DEF WellKept
<1>4. Head(cache[s]).tag \in Tags
  BY <1>3 DEF LinesOver
<1>5. SetOf(Victim(s)) = s /\ TagOf(Victim(s)) = Head(cache[s]).tag
  BY <1>4, PartsOfSum DEF Victim
<1>6. Head(cache[s]) = cache[s][1] /\ 1 \in DOMAIN cache[s]
  BY <1>1, <1>2, FrontIsCached DEF WellKept
<1>7. Victim(s) \in Lines
  <2>1. Len(order) \in Nat /\ DOMAIN order = 1 .. Len(order)
        /\ Len(cache[s]) \in Nat /\ DOMAIN cache[s] = 1 .. Len(cache[s])
    BY <1>1, LenProperties DEF IsLru, WellKept
  <2>2. Len(order) - Len(cache[s]) + 1 \in 1 .. Len(order)
    BY <1>6, <2>1 DEF IsLru
  <2>3. order[Len(order) - Len(cache[s]) + 1] \in Lines
    BY <2>2, ElementOfSeq DEF IsLru
  <2> QED
    BY <1>6, <2>3 DEF IsLru, Victim
<1> QED
  BY <1>1, <1>2, <1>5, <1>7, FrontIsCached DEF WellKept, StateOf

\* What an access does to the state of any line.
LEMMA AccessStates ==
    ASSUME CacheOK, NEW line \in Lines, NEW accessType \in {"Read", "Write"},
           Hit(line, accessType) \/ Miss(line, accessType),
           NEW other \in Lines
    PROVE  /\ Resident(cache, other) <=> StateOf(other) # "Invalid"
           /\ Resident(cache', other) <=> StateOf(other)' # "Invalid"
           /\ other = line /\ accessType = "Write" => StateOf(other)' = "Modified"
           /\ other = line /\ accessType = "Read" /\ IsHit(line)
                => StateOf(other)' = StateOf(other)
           /\ other = line /\ accessType = "Read" /\ ~IsHit(line)
                => StateOf(other)' = "Exclusive"
           /\ other # line /\ StateOf(other)' # StateOf(other)
                => /\ Miss(line, accessType)
                   /\ Len(cache[SetOf(line)]) = Assoc
                   /\ other = Victim(SetOf(line))
           /\ other # line /\ Miss(line, accessType)
                /\ Len(cache[SetOf(line)]) = Assoc /\ other = Victim(SetOf(line))
                => StateOf(other)' = "Invalid"
PROOF
<1> DEFINE s == SetOf(line)
           tag == TagOf(line)
           t == TagOf(other)
<1>1. /\ s \in Sets /\ tag \in Tags /\ s + tag = line
      /\ SetOf(other) \in Sets /\ t \in Tags /\ SetOf(other) + t = other
  BY LineParts
<1>2. /\ cache \in [Sets -> Seq(CacheLine)] /\ WellKept(cache[s])
      /\ WellKept(cache[SetOf(other)])
  BY <1>1, CacheOKMeans
<1>3. CacheOK' /\ WellKept(cache'[SetOf(other)])
  <2>1. CacheOK'
    BY AccessKeepsCache
  <2>2. \A x \in Sets : WellKept(cache'[x])
    BY <2>1 DEF CacheOK, SetsWellKept, WellKept, CacheLine, LinesOver
  <2> QED
    BY <1>1, <2>1, <2>2
<1>4. Resident(cache, other) <=> StateOf(other) # "Invalid"
  BY <1>2, FindTagType DEF WellKept, Resident, StateOf
<1>5. Resident(cache', other) <=> StateOf(other)' # "Invalid"
  <2>1. findTag(cache'[SetOf(other)], t) # "Invalid"
          <=> IsCached(cache'[SetOf(other)], t)
    BY <1>3, FindTagType DEF WellKept
  <2> QED
    BY <2>1 DEF Resident, StateOf
<1>6. IsHit(line) <=> IsCached(cache[s], tag)
  BY <1>2, FindTagType DEF IsHit, StateOf, WellKept
<1>7. other = line <=> SetOf(other) = s /\ t = tag
  BY <1>1
<1>8. other = Victim(s) /\ Len(cache[s]) = Assoc
        => SetOf(other) = s /\ t = Head(cache[s]).tag
  <2> SUFFICES ASSUME other = Victim(s), Len(cache[s]) = Assoc
               PROVE  SetOf(other) = s /\ t = Head(cache[s]).tag
    OBVIOUS
  <2>1. cache[s] # << >>
    BY AssocAssumption, EmptySeq
  <2>2. Head(cache[s]) \in LinesOver(Tags)
    BY <1>2, <2>1, HeadTailProperties DEF WellKept
  <2>3. Head(cache[s]).tag \in Tags
    BY <2>2 DEF LinesOver
  <2> QED
    BY <1>1, <2>3, PartsOfSum DEF Victim
<1>9. SetOf(other) = s /\ t = Head(cache[s]).tag => other = Victim(s)
  BY <1>1 DEF Victim
<1> HIDE DEF s, tag, t
<1>10. CASE Hit(line, accessType)
  <2> DEFINE new == AfterHit(cache[s], tag, accessType)
  <2>1. cache' = [cache EXCEPT ![s] = new] /\ IsHit(line)
    BY <1>10 DEF Hit, AfterHit, s, tag
  <2>2. StateOf(other) = findTag(cache[SetOf(other)], t)
        /\ StateOf(other)' = findTag(cache'[SetOf(other)], t)
    BY DEF StateOf, t
  <2>3. /\ accessType = "Write" /\ t = tag => findTag(new, t) = "Modified"
        /\ ~(accessType = "Write" /\ t = tag)
             => findTag(new, t) = findTag(cache[s], t)
    BY <1>2, <1>6, <2>1, HitStates
  <2> HIDE DEF new
  <2>4. cache'[SetOf(other)] = IF SetOf(other) = s THEN new ELSE cache[SetOf(other)]
    BY <1>1, <1>2, <2>1
  <2>5. ~Miss(line, accessType)
    BY <2>1 DEF Miss
  <2> QED
    BY <1>4, <1>5, <1>7, <2>1, <2>2, <2>3, <2>4, <2>5
<1>11. CASE Miss(line, accessType)
  <2> DEFINE state == NewState(accessType)
             new == insertLine(cache[s], tag, state)
  <2>1. cache' = [cache EXCEPT ![s] = new] /\ ~IsHit(line)
    BY <1>11 DEF Miss, s, tag
  <2>2. StateOf(other) = findTag(cache[SetOf(other)], t)
        /\ StateOf(other)' = findTag(cache'[SetOf(other)], t)
    BY DEF StateOf, t
  <2>3. /\ state \in CacheState \ {"Invalid"}
        /\ state = IF accessType = "Read" THEN "Exclusive" ELSE "Modified"
    BY DEF NewState, CacheState
  <2> HIDE DEF state
  <2>4. /\ t = tag => findTag(new, t) = state
        /\ t # tag /\ Len(cache[s]) = Assoc /\ t = Head(cache[s]).tag
             => findTag(new, t) = "Invalid"
        /\ t # tag /\ ~(Len(cache[s]) = Assoc /\ t = Head(cache[s]).tag)
             => findTag(new, t) = findTag(cache[s], t)
    BY <1>1, <1>2, <1>6, <2>1, <2>3, MissStates
  <2> HIDE DEF new
  <2>5. cache'[SetOf(other)] = IF SetOf(other) = s THEN new ELSE cache[SetOf(other)]
    BY <1>1, <1>2, <2>1
  <2>6. CASE other = line
    BY <1>4, <1>5, <1>7, <2>1, <2>2, <2>3, <2>4, <2>5, <2>6
  <2>7. CASE other # line
    BY <1>4, <1>5, <1>7, <1>8, <1>9, <1>11, <2>1, <2>2, <2>4, <2>5, <2>7 DEF s
  <2> QED
    BY <2>6, <2>7
<1> QED
  BY <1>10, <1>11

----------------------------------------------------------------------------
(* The history of the accesses.                                            *)

LruOK ==
    /\ recent \in [Sets -> Seq(Lines)]
    /\ \A s \in Sets : IsLru(s, cache[s], recent[s])

WrittenOK == written \subseteq Lines /\ DirtyIffWritten

HistoryInv == Inv /\ LruOK /\ WrittenOK

LEMMA AccessKeepsLru ==
    ASSUME CacheOK, LruOK, NEW line \in Lines, NEW accessType \in {"Read", "Write"},
           Hit(line, accessType) \/ Miss(line, accessType),
           Remember(line, accessType)
    PROVE  LruOK'
PROOF
<1> DEFINE s == SetOf(line)
           tag == TagOf(line)
           order == Accessed(recent[s], line)
<1>1. s \in Sets /\ tag \in Tags
  BY LineParts
<1>2. /\ cache \in [Sets -> Seq(CacheLine)] /\ WellKept(cache[s])
      /\ recent \in [Sets -> Seq(Lines)] /\ IsLru(s, cache[s], recent[s])
  BY <1>1, CacheOKMeans DEF LruOK
<1>3. IsHit(line) <=> IsCached(cache[s], tag)
  BY <1>2, FindTagType DEF IsHit, StateOf, WellKept
<1>4. recent' = [recent EXCEPT ![s] = order]
  BY DEF Remember, Accessed
<1>5. \E new : cache' = [cache EXCEPT ![s] = new] /\ IsLru(s, new, order)
  <2>1. CASE Hit(line, accessType)
    <3> DEFINE new == AfterHit(cache[s], tag, accessType)
    <3>1. cache' = [cache EXCEPT ![s] = new] /\ IsHit(line)
      BY <2>1 DEF Hit, AfterHit
    <3>2. IsLru(s, new, order)
      BY <1>1, <1>2, <1>3, <3>1, HitKeepsLru
    <3> HIDE DEF new
    <3> QED
      BY <3>1, <3>2
  <2>2. CASE Miss(line, accessType)
    <3> DEFINE new == insertLine(cache[s], tag, NewState(accessType))
    <3>1. cache' = [cache EXCEPT ![s] = new] /\ ~IsHit(line)
      BY <2>2 DEF Miss
    <3>2. NewState(accessType) \in CacheState
      BY DEF NewState, CacheState
    <3>3. IsLru(s, new, order)
      BY <1>1, <1>2, <1>3, <3>1, <3>2, MissKeepsLru
    <3> HIDE DEF new
    <3> QED
      BY <3>1, <3>3
  <2> QED
    BY <2>1, <2>2
<1>6. PICK new : cache' = [cache EXCEPT ![s] = new] /\ IsLru(s, new, order)
  BY <1>5
<1>7. order \in Seq(Lines)
  BY <1>6 DEF IsLru
<1> HIDE DEF s, order
<1>8. recent' \in [Sets -> Seq(Lines)]
  BY <1>2, <1>4, <1>7
<1>9. \A x \in Sets : IsLru(x, cache'[x], recent'[x])
  BY <1>1, <1>2, <1>4, <1>6 DEF LruOK
<1> QED
  BY <1>8, <1>9 DEF LruOK, IsLru

LEMMA AccessKeepsWritten ==
    ASSUME CacheOK, LruOK, WrittenOK, NEW line \in Lines,
           NEW accessType \in {"Read", "Write"},
           Hit(line, accessType) \/ Miss(line, accessType),
           Remember(line, accessType)
    PROVE  WrittenOK'
PROOF
<1>1. written' = {l \in written \cup (IF accessType = "Write" THEN {line} ELSE {}) :
                    Resident(cache', l)}
  BY DEF Remember
<1>2. written' \subseteq Lines
  BY <1>1 DEF WrittenOK
<1>3. ASSUME NEW other \in Lines
      PROVE  StateOf(other)' \in DirtyStates <=> other \in written'
  <2>1. /\ Resident(cache, other) <=> StateOf(other) # "Invalid"
        /\ Resident(cache', other) <=> StateOf(other)' # "Invalid"
        /\ other = line /\ accessType = "Write" => StateOf(other)' = "Modified"
        /\ other = line /\ accessType = "Read" /\ IsHit(line)
             => StateOf(other)' = StateOf(other)
        /\ other = line /\ accessType = "Read" /\ ~IsHit(line)
             => StateOf(other)' = "Exclusive"
        /\ other # line /\ StateOf(other)' # StateOf(other)
             => StateOf(other)' = "Invalid"
    BY AccessStates
  <2>2. StateOf(other) \in DirtyStates <=> other \in written
    BY DEF WrittenOK, DirtyIffWritten
  <2>3. other = line => (IsHit(line) <=> StateOf(other) # "Invalid")
    BY DEF IsHit
  <2>4. other \in written' <=> /\ \/ other \in written
                                  \/ accessType = "Write" /\ other = line
                               /\ Resident(cache', other)
    BY <1>1
  <2>5. "Modified" \in DirtyStates /\ "Exclusive" \notin DirtyStates
        /\ "Invalid" \notin DirtyStates
    BY DEF DirtyStates
  <2> QED
    BY <2>1, <2>2, <2>3, <2>4, <2>5
<1> QED
  BY <1>2, <1>3 DEF WrittenOK, DirtyIffWritten

LEMMA InitHistoryInv == SimulationInit => HistoryInv
PROOF
<1> SUFFICES ASSUME SimulationInit PROVE HistoryInv
  OBVIOUS
<1>1. HistoryInit /\ Init
  BY DEF SimulationInit, HistoryInit
<1>2. Inv
  BY <1>1, InitInv
<1>3. \A s \in Sets : cache[s] = << >> /\ recent[s] = << >>
  BY <1>1 DEF Init, HistoryInit
<1>4. LruOK
  <2>1. /\ << >> \in Seq(Lines) /\ Len(<< >>) = 0
        /\ \A i : i \notin DOMAIN << >>
    BY EmptySeq
  <2>2. recent \in [Sets -> Seq(Lines)]
    BY <1>1, <2>1 DEF HistoryInit
  <2> QED
    BY <1>3, <2>1, <2>2, AssocAssumption DEF LruOK, IsLru, Injective
<1>5. WrittenOK
  <2>1. \A line \in Lines : StateOf(line) = "Invalid"
    BY <1>3, LineParts, EmptySeq DEF StateOf, findTag, IsCached
  <2> QED
    BY <1>1, <2>1 DEF WrittenOK, DirtyIffWritten, HistoryInit, DirtyStates
<1> QED
  BY <1>2, <1>4, <1>5 DEF HistoryInv

\* The program makes accesses or leaves the system alone.
LEMMA SimulationSteps ==
    ASSUME SimulationNext
    PROVE  \/ \E address \in Lines, accessType \in {"Read", "Write"} :
                /\ memAccess(address, accessType)
                /\ Remember(PhysLine(address), accessType)
           \/ UNCHANGED systemState
BY DEF SimulationNext, Simulate, Skip, Precompress

LEMMA AccessHistoryInv ==
    ASSUME HistoryInv, NEW address \in Lines, NEW accessType \in {"Read", "Write"},
           memAccess(address, accessType),
           Remember(PhysLine(address), accessType)
    PROVE  HistoryInv'
PROOF
<1> DEFINE line == PhysLine(address)
<1>1. Inv'
  BY AccessInv DEF HistoryInv
<1>2. line \in Lines /\ CacheOK /\ LruOK /\ WrittenOK
  BY PhysLineType DEF HistoryInv, Inv
<1>3. Hit(line, accessType) \/ Miss(line, accessType)
  BY DEF memAccess
<1> HIDE DEF line
<1>4. Remember(line, accessType)
  BY DEF line
<1>5. LruOK'
  BY <1>2, <1>3, <1>4, AccessKeepsLru
<1>6. WrittenOK'
  BY <1>2, <1>3, <1>4, AccessKeepsWritten
<1> QED
  BY <1>1, <1>5, <1>6 DEF HistoryInv

LEMMA UnchangedHistoryInv ==
    ASSUME HistoryInv, UNCHANGED systemState
    PROVE  HistoryInv'
BY DEF HistoryInv, Inv, LruOK, WrittenOK, IsLru, systemState, PageTableOK,
       TranslationInjective, StatsOK, CacheOK, SetsWellKept, ResidentSeen,
       StatsBalance, DirtyIffWritten, StateOf

\* The invariant of the system and of its history holds throughout a simulation.
THEOREM HistoryInvariance == SimulationSpec => []HistoryInv
PROOF
<1>1. HistoryInv /\ [SimulationNext]_simulationVars => HistoryInv'
  <2> SUFFICES ASSUME HistoryInv, [SimulationNext]_simulationVars
               PROVE  HistoryInv'
    OBVIOUS
  <2>1. CASE SimulationNext
    BY <2>1, SimulationSteps, AccessHistoryInv, UnchangedHistoryInv
  <2>2. CASE UNCHANGED simulationVars
    BY <2>2, UnchangedHistoryInv DEF simulationVars
  <2> QED
    BY <2>1, <2>2
<1> QED
  BY <1>1, InitHistoryInv, PTL DEF SimulationSpec

\* The program simulates SingleCacheSystem: what SingleCacheSystemProofs shows of
\* its Spec holds of the program.
THEOREM SimulatesTheSystem == SimulationSpec => Spec
PROOF
<1>1. SimulationInit => Init
  BY DEF SimulationInit, HistoryInit
<1>2. [SimulationNext]_simulationVars => [Next]_vars
  <2>1. ASSUME SimulationNext PROVE Next \/ UNCHANGED vars
    BY <2>1, SimulationSteps DEF Next, systemState, vars
  <2>2. UNCHANGED simulationVars => UNCHANGED vars
    BY DEF simulationVars, systemState, vars
  <2> QED
    BY <2>1, <2>2
<1> QED
  BY <1>1, <1>2, PTL DEF SimulationSpec, Spec

\* Compulsory accesses miss in the program too.
THEOREM CompulsoryMissesInSimulation == SimulationSpec => CompulsoryIsMiss
BY SimulatesTheSystem, CompulsoryAlwaysMisses

\* The deque of every set is exactly the assoc lines of it that were accessed
\* last, in that order: the cache is LRU.
THEOREM DequeIsAlwaysLru == SimulationSpec => []DequeIsLru
PROOF
<1>1. HistoryInv => DequeIsLru
  <2> SUFFICES ASSUME HistoryInv, NEW s \in Sets
               PROVE  LET order == recent[s]
                          depth == IF Len(order) < Assoc THEN Len(order) ELSE Assoc
                      IN  [i \in DOMAIN cache[s] |-> s + cache[s][i].tag]
                            = SubSeq(order, Len(order) - depth + 1, Len(order))
    BY DEF DequeIsLru
  <2> DEFINE order == recent[s]
             n == Len(order)
             c == Len(cache[s])
  <2>1. IsLru(s, cache[s], order) /\ WellKept(cache[s])
    BY CacheOKMeans DEF HistoryInv, LruOK, Inv
  <2>2. /\ n \in Nat /\ Assoc \in Nat /\ c \in Nat /\ order \in Seq(Lines)
        /\ DOMAIN cache[s] = 1 .. c /\ c = IF n < Assoc THEN n ELSE Assoc
        /\ \A i \in 1 .. c : s + cache[s][i].tag = order[n - c + i]
    BY <2>1, AssocAssumption, LenProperties DEF IsLru, WellKept
  <2> HIDE DEF order, n, c
  <2>3. SubSeq(order, n - c + 1, n) = [i \in 1 .. c |-> order[n - c + i]]
    <3> DEFINE lru == SubSeq(order, n - c + 1, n)
               mru == [i \in 1 .. c |-> order[n - c + i]]
    <3>1. /\ n - c + 1 \in Int /\ n - (n - c + 1) + 1 = c /\ c <= n
          /\ (IF n - c + 1 <= n THEN n - (n - c + 1) + 1 ELSE 0) = c
          /\ \A i \in 1 .. c : (n - c + 1) + i - 1 = n - c + i
      BY <2>2
    <3>2. \A i \in 1 .. n : order[i] \in Lines
      BY <2>2, ElementOfSeq DEF n
    <3>3. \A i \in n - c + 1 .. n : order[i] \in Lines
      BY <2>2, <3>1, <3>2
    <3>4. /\ lru \in Seq(Lines) /\ Len(lru) = c
          /\ \A i \in 1 .. c : lru[i] = order[(n - c + 1) + i - 1]
      BY <2>2, <3>1, <3>3, SubSeqProperties
    <3>5. lru \in [1 .. c -> Lines]
      BY <3>4, LenProperties
    <3> HIDE DEF lru
    <3>6. \A i \in 1 .. c : lru[i] = mru[i]
      BY <3>1, <3>4
    <3>7. lru = mru
      BY <3>5, <3>6
    <3> QED
      BY <3>7 DEF lru
  <2>4. [i \in DOMAIN cache[s] |-> s + cache[s][i].tag]
          = [i \in 1 .. c |-> order[n - c + i]]
    BY <2>2
  <2> QED
    BY <2>2, <2>3, <2>4 DEF order, n
<1> QED
  BY <1>1, HistoryInvariance, PTL

\* Dirty lines are those written since their fill.
THEOREM DirtyAlwaysWritten == SimulationSpec => []DirtyIffWritten
PROOF
<1>1. HistoryInv => DirtyIffWritten
  BY DEF HistoryInv, WrittenOK
<1> QED
  BY <1>1, HistoryInvariance, PTL

----------------------------------------------------------------------------
(* Write-backs and the minimized trace.                                    *)

\* Whether an access writes back, and what becomes of the written lines.
LEMMA AccessWritesBack ==
    ASSUME HistoryInv, NEW line \in Lines, NEW accessType \in {"Read", "Write"},
           Hit(line, accessType) \/ Miss(line, accessType)
    PROVE  /\ Miss(line, accessType) /\ checkWriteback(cache[SetOf(line)])
                => Victim(SetOf(line)) \in written
                   /\ ~Resident(cache', Victim(SetOf(line)))
           /\ \A other \in written : ~Resident(cache', other)
                => /\ Miss(line, accessType)
                   /\ checkWriteback(cache[SetOf(line)])
PROOF
<1> DEFINE s == SetOf(line)
<1>1. /\ CacheOK /\ written \subseteq Lines
      /\ \A l \in Lines : StateOf(l) \in DirtyStates <=> l \in written
  BY DEF HistoryInv, Inv, WrittenOK, DirtyIffWritten
<1>2. s \in Sets /\ TagOf(line) \in Tags /\ s + TagOf(line) = line
  BY LineParts
<1>3. /\ WellKept(cache[s]) /\ IsLru(s, cache[s], recent[s])
      /\ Len(cache[s]) \in Nat /\ Len(cache[s]) <= Assoc /\ Assoc \in Nat
  BY <1>1, <1>2, CacheOKMeans, AssocAssumption, LenProperties
     DEF HistoryInv, LruOK, WellKept
<1>4. Len(cache[s]) = Assoc =>
        /\ Victim(s) \in Lines /\ SetOf(Victim(s)) = s
        /\ TagOf(Victim(s)) = Head(cache[s]).tag
        /\ StateOf(Victim(s)) = Head(cache[s]).state
        /\ IsCached(cache[s], Head(cache[s]).tag)
  BY <1>1, <1>2, <1>3, VictimIsResident
<1>5. checkWriteback(cache[s])
        <=> Len(cache[s]) = Assoc /\ Head(cache[s]).state \in DirtyStates
  BY <1>3 DEF checkWriteback
<1>6. "Invalid" \notin DirtyStates
  BY DEF DirtyStates
<1> HIDE DEF s
<1>7. ASSUME Miss(line, accessType), checkWriteback(cache[s])
      PROVE  Victim(s) \in written /\ ~Resident(cache', Victim(s))
  <2>1. PICK victim \in Lines : victim = Victim(s)
    BY <1>4, <1>5, <1>7
  <2>2. victim \in written /\ Len(cache[s]) = Assoc
    BY <1>1, <1>4, <1>5, <1>7, <2>1
  <2>3. victim # line
    BY <1>1, <1>6, <1>7, <2>2 DEF Miss, IsHit
  <2>4. ~Resident(cache', victim)
    BY <1>1, <1>7, <2>1, <2>2, <2>3, AccessStates DEF s
  <2> QED
    BY <2>1, <2>2, <2>4
<1>8. ASSUME NEW other \in written, ~Resident(cache', other)
      PROVE  Miss(line, accessType) /\ checkWriteback(cache[s])
  <2>1. other \in Lines /\ StateOf(other) \in DirtyStates
    BY <1>1
  <2>2. StateOf(other)' = "Invalid" /\ StateOf(other)' # StateOf(other)
    BY <1>1, <1>6, <1>8, <2>1, AccessStates
  <2>3. other # line
    <3>1. other = line => StateOf(other)' \in {"Modified", "Exclusive", StateOf(other)}
      BY <1>1, <2>1, AccessStates
    <3> QED
      BY <2>2, <3>1
  <2>4. Miss(line, accessType) /\ Len(cache[s]) = Assoc /\ other = Victim(s)
    BY <1>1, <2>1, <2>2, <2>3, AccessStates DEF s
  <2> QED
    BY <1>4, <1>5, <2>1, <2>4
<1> QED
  BY <1>7, <1>8 DEF s

\* What an access counts.
LEMMA AccessCounts ==
    ASSUME NEW line, NEW accessType \in {"Read", "Write"},
           Hit(line, accessType) \/ Miss(line, accessType)
    PROVE  /\ stats'["accesses"] = (stats["accesses"] + 1) % CounterMod
           /\ IsHit(line) =>
                /\ stats'["hits"] = (stats["hits"] + 1) % CounterMod
                /\ stats'["local_writes"] = stats["local_writes"]
           /\ ~IsHit(line) =>
                /\ stats'["hits"] = stats["hits"]
                /\ stats'["local_writes"] =
                     IF checkWriteback(cache[SetOf(line)])
                     THEN (stats["local_writes"] + 1) % CounterMod
                     ELSE stats["local_writes"]
           /\ IsHit(line) <=> ~Miss(line, accessType)
PROOF
<1>1. CASE Hit(line, accessType)
  BY <1>1 DEF Hit, Miss, Count, AccessStats, StatNames
<1>2. CASE Miss(line, accessType)
  BY <1>2 DEF Hit, Miss, Count, AccessStats, ReadTraffic, StatNames
<1> QED
  BY <1>1, <1>2

\* A counter that is incremented changes, unless it has one value only.
LEMMA CounterMoves ==
    ASSUME CounterMod > 1, NEW n \in 0 .. CounterMod - 1
    PROVE  (n + 1) % CounterMod # n
PROOF
<1>1. CounterMod \in Nat \ {0}
  BY SystemAssumption
<1>2. CASE n + 1 < CounterMod
  <2>1. n + 1 = CounterMod * 0 + (n + 1) /\ n + 1 \in 0 .. CounterMod - 1
    BY <1>1, <1>2
  <2>2. (n + 1) % CounterMod = n + 1
    BY <1>1, <2>1, RemainderIsUnique
  <2> QED
    BY <2>2
<1>3. CASE n + 1 = CounterMod
  <2>1. n + 1 = CounterMod * 1 + 0 /\ 0 \in 0 .. CounterMod - 1
    BY <1>1, <1>3
  <2>2. (n + 1) % CounterMod = 0
    BY <1>1, <2>1, RemainderIsUnique
  <2> QED
    BY <1>3, <2>2
<1> QED
  BY <1>1, <1>2, <1>3

\* local_writes counts the evictions of written lines and nothing else, if its
\* counter has more than one value.
THEOREM WriteBacksAreWritten ==
    ASSUME CounterMod > 1
    PROVE  SimulationSpec => WriteBackIffWritten
PROOF
<1> DEFINE Same == (stats'["local_writes"] # stats["local_writes"])
                     <=> \E line \in written : ~Resident(cache', line)
<1>1. ASSUME HistoryInv, NEW address \in Lines,
             NEW accessType \in {"Read", "Write"}, memAccess(address, accessType)
      PROVE  Same
  <2>1. PICK line \in Lines : line = PhysLine(address)
    BY <1>1, PhysLineType DEF HistoryInv, Inv
  <2>2. Hit(line, accessType) \/ Miss(line, accessType)
    BY <1>1, <2>1 DEF memAccess
  <2>3. stats["local_writes"] \in 0 .. CounterMod - 1
    BY <1>1 DEF HistoryInv, Inv, StatsOK, StatNames
  <2>4. stats'["local_writes"] # stats["local_writes"]
          <=> Miss(line, accessType) /\ checkWriteback(cache[SetOf(line)])
    BY <2>2, <2>3, AccessCounts, CounterMoves
  <2>5. /\ Miss(line, accessType) /\ checkWriteback(cache[SetOf(line)])
             => Victim(SetOf(line)) \in written
                /\ ~Resident(cache', Victim(SetOf(line)))
        /\ \A other \in written : ~Resident(cache', other)
             => Miss(line, accessType) /\ checkWriteback(cache[SetOf(line)])
    BY <1>1, <2>2, AccessWritesBack
  <2> QED
    BY <2>4, <2>5
<1>2. HistoryInv /\ [SimulationNext]_simulationVars => [Same]_historyVars
  <2>1. ASSUME HistoryInv, SimulationNext PROVE Same \/ UNCHANGED historyVars
    BY <1>1, <2>1, SimulationSteps DEF historyVars, systemState
  <2>2. UNCHANGED simulationVars => UNCHANGED historyVars
    BY DEF simulationVars, systemState, historyVars
  <2> QED
    BY <2>1, <2>2
<1> QED
  BY <1>2, HistoryInvariance, PTL DEF SimulationSpec, WriteBackIffWritten

RecordTypes == {"R", "W", "E"}

OutputOK ==
    /\ minTrace \in [RecordTypes -> 0 .. CounterMod - 1]
    /\ EvictionRecordsAreWriteBacks

\* The lines of the trace that were simulated, the one whose update is still to
\* come included.
Simulated == lines + (IF updateDue THEN 1 ELSE 0) - skipped

\* main's own counters.
MainOK ==
    /\ functionality \in {"pre", "trace"} /\ updateDue \in BOOLEAN
    /\ lines \in Nat /\ writes \in Nat /\ skipped \in 0 .. lines
    /\ Simulated % CounterMod = stats["accesses"]

Updates == precompressionUpdates + (IF firstUpdate THEN 1 ELSE 0)

\* An update that is due makes up for the last write, and a skipped line for the
\* write that it may be.
UpdatesOK ==
    /\ precompressionUpdates \in Nat
    /\ functionality = "pre" /\ ~aborted =>
         Updates + skipped + (IF updateDue THEN 1 ELSE 0) >= writes \div Frequency

SimulationInv == HistoryInv /\ OutputOK /\ MainOK /\ UpdatesOK

LEMMA InitSimulationInv == SimulationInit => SimulationInv
PROOF
<1> SUFFICES ASSUME SimulationInit PROVE SimulationInv
  OBVIOUS
<1>1. CounterMod \in Nat \ {0} /\ Frequency \in Nat \ {0}
  BY SystemAssumption, SimulationAssumption
<1>2. stats["accesses"] = 0 /\ stats["local_writes"] = 0
  BY DEF SimulationInit, HistoryInit, Init, SystemInit, StatNames
<1>3. 0 % CounterMod = 0 /\ 0 \div Frequency = 0
  BY <1>1
<1>4. OutputOK
  BY <1>1, <1>2 DEF SimulationInit, OutputOK, RecordTypes,
                    EvictionRecordsAreWriteBacks
<1>5. MainOK
  <2>1. Simulated = 0
    BY DEF SimulationInit, Simulated
  <2>2. Simulated % CounterMod = stats["accesses"]
    BY <1>2, <1>3, <2>1
  <2>3. /\ functionality \in {"pre", "trace"} /\ updateDue \in BOOLEAN
        /\ lines = 0 /\ writes = 0 /\ skipped = 0
    BY DEF SimulationInit
  <2> QED
    BY <2>2, <2>3 DEF MainOK
<1>6. UpdatesOK
  BY <1>3 DEF SimulationInit, UpdatesOK, Updates
<1> QED
  BY <1>4, <1>5, <1>6, InitHistoryInv DEF SimulationInv

\* A record is written for every access but a read hit, and of type "E" for a
\* write-back.
LEMMA SimulateKeepsOutput ==
    ASSUME HistoryInv, OutputOK, NEW address \in Lines,
           NEW accessType \in {"Read", "Write"}, NEW data,
           Simulate(address, accessType, data)
    PROVE  /\ OutputOK'
           /\ functionality = "trace" =>
                minTrace' =
                  IF traceInfo'.type = "I" THEN minTrace
                  ELSE [minTrace EXCEPT ![traceInfo'.type] = (@ + 1) % CounterMod]
           /\ traceInfo'.type = "I"
                <=> IsHit(PhysLine(address)) /\ accessType = "Read"
           /\ traceInfo'.type \in RecordTypes \cup {"I"}
PROOF
<1> DEFINE line == PhysLine(address)
           type == traceInfo'.type
<1>1. CounterMod \in Nat \ {0}
  BY SystemAssumption
<1>2. Hit(line, accessType) \/ Miss(line, accessType)
  BY DEF Simulate, memAccess
<1>3. /\ type = RecordType(line, accessType)
      /\ functionality' = functionality
      /\ functionality = "pre" => minTrace' = minTrace
      /\ functionality # "pre" =>
           minTrace' = IF type = "I" THEN minTrace
                       ELSE [minTrace EXCEPT ![type] = (@ + 1) % CounterMod]
  BY DEF Simulate, TraceInfo, Measure, Minimize
<1>4. /\ IsHit(line) /\ accessType = "Read" => type = "I"
      /\ IsHit(line) /\ accessType # "Read" => type = "W"
      /\ ~IsHit(line) /\ checkWriteback(cache[SetOf(line)]) => type = "E"
      /\ ~IsHit(line) /\ ~checkWriteback(cache[SetOf(line)])
           => type = IF accessType = "Write" THEN "W" ELSE "R"
  BY <1>3 DEF RecordType
<1> HIDE DEF type, line
<1>5. type \in RecordTypes \cup {"I"}
  BY <1>4 DEF RecordTypes
<1>6. (type = "I" <=> IsHit(line) /\ accessType = "Read")
        /\ (type = "E" <=> ~IsHit(line) /\ checkWriteback(cache[SetOf(line)]))
  BY <1>4
<1>7. minTrace' \in [RecordTypes -> 0 .. CounterMod - 1]
  BY <1>1, <1>3, <1>5 DEF OutputOK
<1>8. EvictionRecordsAreWriteBacks'
  <2> SUFFICES ASSUME functionality = "trace"
               PROVE  minTrace'["E"] = stats'["local_writes"]
    BY <1>3 DEF EvictionRecordsAreWriteBacks
  <2>1. minTrace["E"] = stats["local_writes"]
    BY DEF OutputOK, EvictionRecordsAreWriteBacks
  <2>2. stats'["local_writes"] = IF type = "E"
                                 THEN (stats["local_writes"] + 1) % CounterMod
                                 ELSE stats["local_writes"]
    BY <1>2, <1>6, AccessCounts
  <2>3. minTrace'["E"] = IF type = "E" THEN (minTrace["E"] + 1) % CounterMod
                         ELSE minTrace["E"]
    BY <1>3, <1>5 DEF OutputOK, RecordTypes
  <2> QED
    BY <2>1, <2>2, <2>3
<1> QED
  BY <1>3, <1>5, <1>6, <1>7, <1>8 DEF OutputOK, type, line

\* The counters of main after a line that is simulated.
LEMMA SimulateKeepsMain ==
    ASSUME MainOK, StatsOK, NEW address, NEW accessType \in {"Read", "Write"},
           NEW data, Simulate(address, accessType, data)
    PROVE  MainOK'
PROOF
<1>1. /\ updateDue = FALSE /\ skipped' = skipped
      /\ functionality' = functionality
      /\ writes' = writes + (IF accessType = "Write" THEN 1 ELSE 0)
      /\ lines' = IF updateDue' THEN lines ELSE lines + 1
  BY DEF Simulate, MayRead, CountWrite, EndLine, MainOK
<1>2. updateDue' \in BOOLEAN
  BY DEF Simulate, Measure, Minimize
<1>3. /\ lines \in Nat /\ writes \in Nat /\ skipped \in 0 .. lines
      /\ Simulated % CounterMod = stats["accesses"]
      /\ functionality \in {"pre", "trace"}
  BY DEF MainOK
<1>4. Simulated \in Nat /\ Simulated' = Simulated + 1
  BY <1>1, <1>2, <1>3 DEF Simulated
<1>5. stats'["accesses"] = (stats["accesses"] + 1) % CounterMod
  BY AccessCounts DEF Simulate, memAccess
<1>6. (Simulated + 1) % CounterMod = ((Simulated % CounterMod) + 1) % CounterMod
  BY <1>4, NextRemainder, SystemAssumption
<1>7. Simulated' % CounterMod = stats'["accesses"]
  BY <1>3, <1>4, <1>5, <1>6
<1>8. lines' \in Nat /\ writes' \in Nat /\ skipped' \in 0 .. lines'
  BY <1>1, <1>2, <1>3
<1> QED
  BY <1>1, <1>2, <1>3, <1>7, <1>8 DEF MainOK

\* One more write reaches the next multiple of frequency, or stays below it.
LEMMA NextQuotient ==
    ASSUME NEW m \in Nat \ {0}, NEW x \in Nat
    PROVE  /\ (x + 1) \div m <= (x \div m) + 1
           /\ (x + 1) % m # 0 => (x + 1) \div m = x \div m
           /\ x \div m \in Nat /\ (x + 1) \div m \in Nat
PROOF
<1> DEFINE p == x \div m
           q == (x + 1) \div m
           r == x % m
           s == (x + 1) % m
<1>1. /\ p \in Int /\ r \in 0 .. m - 1 /\ x = m * p + r
      /\ q \in Int /\ s \in 0 .. m - 1 /\ x + 1 = m * q + s
  OBVIOUS
<1>2. p \in Nat /\ q \in Nat
  OBVIOUS
<1> HIDE DEF p, q, r, s
<1>3. m * (q - p) = r + 1 - s
  BY <1>1
<1>4. q - p <= 1
  <2> SUFFICES ASSUME q - p >= 2 PROVE FALSE
    BY <1>1
  <2>1. m * (q - p) >= m * 2
    BY <1>1
  <2> QED
    BY <1>1, <1>3, <2>1
<1>5. q - p >= 0
  <2> SUFFICES ASSUME q - p <= -1 PROVE FALSE
    BY <1>1
  <2>1. m * (q - p) <= m * (-1)
    BY <1>1
  <2> QED
    BY <1>1, <1>3, <2>1
<1>6. ASSUME s # 0 PROVE q = p
  <2> SUFFICES ASSUME q - p = 1 PROVE FALSE
    BY <1>1, <1>4, <1>5
  <2>1. m * (q - p) = m
    BY <1>1
  <2> QED
    BY <1>1, <1>3, <1>6, <2>1
<1> QED
  BY <1>1, <1>2, <1>4, <1>6 DEF p, q, s

LEMMA SimulateKeepsUpdates ==
    ASSUME MainOK, UpdatesOK, NEW address, NEW accessType \in {"Read", "Write"},
           NEW data, Simulate(address, accessType, data)
    PROVE  UpdatesOK'
PROOF
<1>1. /\ updateDue = FALSE /\ ~aborted /\ skipped' = skipped
      /\ functionality' = functionality
      /\ firstUpdate' = firstUpdate
      /\ precompressionUpdates' = precompressionUpdates
      /\ writes' = writes + (IF accessType = "Write" THEN 1 ELSE 0)
  BY DEF Simulate, MayRead, CountWrite, MainOK, turnover
<1>2. /\ writes \in Nat /\ precompressionUpdates \in Nat
      /\ Frequency \in Nat \ {0}
  BY SimulationAssumption DEF MainOK, UpdatesOK
<1> SUFFICES ASSUME functionality = "pre", ~aborted'
             PROVE  Updates' + skipped' + (IF updateDue' THEN 1 ELSE 0)
                      >= writes' \div Frequency
  BY <1>1, <1>2 DEF UpdatesOK
<1>3. /\ Updates' + skipped' = Updates + skipped
      /\ Updates + skipped \in Nat /\ Updates' + skipped' \in Nat
  BY <1>1, <1>2 DEF Updates, MainOK
<1>4. Updates + skipped >= writes \div Frequency
  BY <1>1, <1>3 DEF UpdatesOK
<1>5. updateDue' = (writes' % Frequency = 0 /\ writes' # 0)
  BY DEF Simulate, Measure, IsUpdateDue
<1>6. /\ (writes + 1) \div Frequency <= (writes \div Frequency) + 1
      /\ (writes + 1) % Frequency # 0
           => (writes + 1) \div Frequency = writes \div Frequency
      /\ writes \div Frequency \in Nat /\ (writes + 1) \div Frequency \in Nat
  BY <1>2, NextQuotient
<1>7. CASE accessType = "Write"
  <2>1. writes' = writes + 1
    BY <1>1, <1>7
  <2>2. CASE updateDue'
    BY <1>3, <1>4, <1>6, <2>1, <2>2
  <2>3. CASE ~updateDue'
    <3>1. (writes + 1) % Frequency # 0
      <4>1. writes' # 0
        BY <1>2, <2>1
      <4>2. writes' % Frequency # 0
        BY <1>5, <2>3, <4>1
      <4> QED
        BY <2>1, <4>2
    <3> QED
      BY <1>3, <1>4, <1>6, <2>1, <2>3, <3>1
  <2> QED
    BY <2>2, <2>3
<1>8. CASE accessType = "Read"
  <2>1. writes' = writes
    BY <1>1, <1>2, <1>8
  <2> QED
    BY <1>3, <1>4, <1>6, <2>1
<1> QED
  BY <1>7, <1>8

LEMMA SkipKeepsInv ==
    ASSUME SimulationInv, NEW accessType, Skip(accessType)
    PROVE  SimulationInv'
PROOF
<1>1. /\ updateDue = FALSE /\ updateDue' = updateDue /\ skipped' = skipped + 1
      /\ lines' = lines + 1 /\ functionality' = functionality
      /\ writes' = writes + (IF accessType = "Write" THEN 1 ELSE 0)
      /\ precompressionUpdates' = precompressionUpdates
      /\ minTrace' = minTrace /\ stats' = stats /\ UNCHANGED systemState
  BY DEF Skip, MayRead, CountWrite, SimulationInv, MainOK, systemState, turnover,
         output
<1>2. HistoryInv'
  BY <1>1, UnchangedHistoryInv DEF SimulationInv
<1>3. OutputOK'
  BY <1>1 DEF SimulationInv, OutputOK, EvictionRecordsAreWriteBacks
<1>4. /\ lines \in Nat /\ writes \in Nat /\ skipped \in 0 .. lines
      /\ precompressionUpdates \in Nat
      /\ Simulated % CounterMod = stats["accesses"]
      /\ functionality \in {"pre", "trace"}
  BY DEF SimulationInv, MainOK, UpdatesOK
<1>5. Simulated' = Simulated
  BY <1>1, <1>4 DEF Simulated
<1>6. MainOK'
  <2>1. lines' \in Nat /\ writes' \in Nat /\ skipped' \in 0 .. lines'
    BY <1>1, <1>4
  <2> QED
    BY <1>1, <1>4, <1>5, <2>1 DEF MainOK
<1>7. UpdatesOK'
  <2>1. /\ writes' \div Frequency <= (writes \div Frequency) + 1
        /\ writes \div Frequency \in Nat /\ writes' \div Frequency \in Nat
    <3>1. Frequency \in Nat \ {0}
      BY SimulationAssumption
    <3>2. /\ (writes + 1) \div Frequency <= (writes \div Frequency) + 1
          /\ writes \div Frequency \in Nat /\ (writes + 1) \div Frequency \in Nat
      BY <1>4, <3>1, NextQuotient
    <3>3. writes' = writes + 1 \/ writes' = writes
      BY <1>1, <1>4
    <3> QED
      BY <3>2, <3>3
  <2>2. /\ Updates' = Updates /\ aborted' = aborted
        /\ Updates + skipped \in Nat
    BY <1>1, <1>4 DEF Updates, Skip, turnover, dataVars
  <2>3. functionality = "pre" /\ ~aborted
          => Updates + skipped + 0 >= writes \div Frequency
    BY <1>1 DEF SimulationInv, UpdatesOK
  <2>4. functionality' = "pre" /\ ~aborted'
          => Updates' + skipped' + 0 >= writes' \div Frequency
    <3>1. PICK u, q, r : u = Updates + skipped /\ q = writes \div Frequency
                         /\ r = writes' \div Frequency
      OBVIOUS
    <3>2. Updates' + skipped' + 0 = u + 1
      <4>1. Updates \in Nat /\ skipped \in Nat
        BY <1>4 DEF Updates
      <4> QED
        BY <1>1, <2>2, <3>1, <4>1
    <3>3. u \in Nat /\ q \in Nat /\ r \in Nat /\ r <= q + 1
      BY <2>1, <2>2, <3>1
    <3>4. functionality = "pre" /\ ~aborted => u >= q
      <4>1. Updates + skipped + 0 = u
        BY <2>2, <3>1
      <4> QED
        BY <2>3, <3>1, <4>1
    <3>5. u >= q => u + 1 >= r
      BY <3>3
    <3> QED
      BY <1>1, <2>2, <3>1, <3>2, <3>4, <3>5
  <2> QED
    BY <1>1, <1>4, <2>4 DEF UpdatesOK
<1> QED
  BY <1>2, <1>3, <1>6, <1>7 DEF SimulationInv

LEMMA PrecompressKeepsInv ==
    ASSUME SimulationInv, Precompress
    PROVE  SimulationInv'
PROOF
<1>1. /\ updateDue = TRUE /\ updateDue' = FALSE /\ skipped' = skipped
      /\ lines' = lines + 1 /\ functionality' = functionality
      /\ writes' = writes /\ ~aborted /\ firstUpdate' = TRUE
      /\ firstUpdate => precompressionUpdates' = precompressionUpdates + 1
      /\ ~firstUpdate => precompressionUpdates' = precompressionUpdates
      /\ minTrace' = minTrace /\ stats' = stats /\ UNCHANGED systemState
  BY DEF Precompress, SimulationInv, MainOK, systemState, output
<1>2. HistoryInv'
  BY <1>1, UnchangedHistoryInv DEF SimulationInv
<1>3. OutputOK'
  BY <1>1 DEF SimulationInv, OutputOK, EvictionRecordsAreWriteBacks
<1>4. /\ lines \in Nat /\ writes \in Nat /\ skipped \in 0 .. lines
      /\ precompressionUpdates \in Nat
      /\ Simulated % CounterMod = stats["accesses"]
      /\ functionality \in {"pre", "trace"}
  BY DEF SimulationInv, MainOK, UpdatesOK
<1>5. Simulated' = Simulated
  BY <1>1, <1>4 DEF Simulated
<1>6. MainOK'
  <2>1. lines' \in Nat /\ skipped' \in 0 .. lines'
    BY <1>1, <1>4
  <2> QED
    BY <1>1, <1>4, <1>5, <2>1 DEF MainOK
<1>7. UpdatesOK'
  <2>1. Updates' = Updates + 1 /\ precompressionUpdates' \in Nat /\ Updates \in Nat
    BY <1>1, <1>4 DEF Updates
  <2>2. functionality = "pre" => Updates + skipped + 1 >= writes \div Frequency
    BY <1>1 DEF SimulationInv, UpdatesOK
  <2>3. functionality' = "pre"
          => Updates' + skipped' + 0 >= writes' \div Frequency
    BY <1>1, <1>4, <2>1, <2>2
  <2> QED
    BY <1>1, <2>1, <2>3 DEF UpdatesOK
<1> QED
  BY <1>2, <1>3, <1>6, <1>7 DEF SimulationInv

LEMMA SimulateKeepsInv ==
    ASSUME SimulationInv, NEW address \in Lines,
           NEW accessType \in {"Read", "Write"}, NEW data,
           Simulate(address, accessType, data)
    PROVE  SimulationInv'
PROOF
<1>1. HistoryInv'
  BY AccessHistoryInv DEF Simulate, SimulationInv
<1>2. OutputOK'
  BY SimulateKeepsOutput DEF SimulationInv
<1>3. MainOK'
  BY SimulateKeepsMain DEF SimulationInv, HistoryInv, Inv
<1>4. UpdatesOK'
  BY SimulateKeepsUpdates DEF SimulationInv
<1> QED
  BY <1>1, <1>2, <1>3, <1>4 DEF SimulationInv

\* What the program prints, writes to the minimized trace and counts agrees with
\* what happened in the cache, throughout every simulation.
THEOREM SimulationInvariance == SimulationSpec => []SimulationInv
PROOF
<1>1. SimulationInv /\ [SimulationNext]_simulationVars => SimulationInv'
  <2> SUFFICES ASSUME SimulationInv, [SimulationNext]_simulationVars
               PROVE  SimulationInv'
    OBVIOUS
  <2>1. CASE SimulationNext
    <3>1. CASE \E address \in Lines, accessType \in {"Read", "Write"},
                  data \in LineData : Simulate(address, accessType, data)
      BY <3>1, SimulateKeepsInv
    <3>2. CASE \E accessType \in {"Read", "Write"} : Skip(accessType)
      BY <3>2, SkipKeepsInv
    <3>3. CASE Precompress
      BY <3>3, PrecompressKeepsInv
    <3> QED
      BY <2>1, <3>1, <3>2, <3>3 DEF SimulationNext
  <2>2. CASE UNCHANGED simulationVars
    <3>1. HistoryInv'
      BY <2>2, UnchangedHistoryInv DEF SimulationInv, simulationVars
    <3>2. OutputOK'
      BY <2>2 DEF SimulationInv, OutputOK, EvictionRecordsAreWriteBacks,
                  simulationVars, systemState, output
    <3>3. MainOK' /\ UpdatesOK'
      <4>1. UNCHANGED <<lines, writes, skipped, updateDue, functionality, stats,
                        aborted, firstUpdate, precompressionUpdates>>
        BY <2>2 DEF simulationVars, systemState, dataVars, turnover
      <4> QED
        BY <4>1 DEF SimulationInv, MainOK, UpdatesOK, Simulated, Updates
    <3> QED
      BY <3>1, <3>2, <3>3 DEF SimulationInv
  <2> QED
    BY <2>1, <2>2
<1> QED
  BY <1>1, InitSimulationInv, PTL DEF SimulationSpec

\* The remainder of a number and that of the number some multiple further.
LEMMA SameRemainder ==
    ASSUME NEW m \in Nat \ {0}, NEW x \in Int, NEW y \in Int, x % m = y % m,
           NEW z \in Int
    PROVE  (x - z) % m = (y - z) % m
PROOF
<1> DEFINE p == x \div m
           q == y \div m
           r == (y - z) % m
           k == (y - z) \div m
<1>1. /\ p \in Int /\ x = m * p + (x % m) /\ q \in Int /\ y = m * q + (y % m)
      /\ k \in Int /\ r \in 0 .. m - 1 /\ y - z = m * k + r
      /\ x % m \in Int
  OBVIOUS
<1> HIDE DEF p, q, r, k
<1>2. x - z = m * p - m * q + m * k + r
  BY <1>1
<1>3. m * p - m * q + m * k = m * (p - q + k)
  BY <1>1
<1>4. x - z = m * (p - q + k) + r /\ p - q + k \in Int
  BY <1>1, <1>2, <1>3
<1>5. (x - z) % m = r
  BY <1>1, <1>4, RemainderIsUnique
<1> QED
  BY <1>5 DEF r

\* The "Misses" that main prints are the memory reads and the lines of the trace
\* that were never simulated, wherever the counters wrap.
THEOREM PrintedMissesAlwaysCountSkipped == SimulationSpec => []PrintedMissesCountSkipped
PROOF
<1>1. SimulationInv => PrintedMissesCountSkipped
  <2> SUFFICES ASSUME SimulationInv, ~updateDue
               PROVE  (lines - stats["hits"]) % CounterMod
                        = (stats["local_reads"] + skipped) % CounterMod
    BY DEF PrintedMissesCountSkipped
  <2> DEFINE h == stats["hits"]
             r == stats["local_reads"]
  <2>1. /\ CounterMod \in Nat \ {0} /\ lines \in Int /\ skipped \in Int
        /\ h \in Int /\ r \in Int
    BY SystemAssumption DEF SimulationInv, MainOK, HistoryInv, Inv, StatsOK, StatNames
  <2>2. Simulated % CounterMod = stats["accesses"] /\ Simulated = lines - skipped
    BY <2>1 DEF SimulationInv, MainOK, Simulated
  <2>3. (h + r) % CounterMod = stats["accesses"]
    BY DEF SimulationInv, HistoryInv, Inv, StatsBalance
  <2> HIDE DEF h, r
  <2>4. (lines - skipped) % CounterMod = (h + r) % CounterMod
    BY <2>2, <2>3
  <2> DEFINE x == lines - skipped
             y == h + r
             z == h - skipped
  <2>5. (x - z) % CounterMod = (y - z) % CounterMod
    <3>1. x \in Int /\ y \in Int /\ z \in Int /\ x % CounterMod = y % CounterMod
      BY <2>1, <2>4
    <3>2. \A a, b, c \in Int :
            a % CounterMod = b % CounterMod
              => (a - c) % CounterMod = (b - c) % CounterMod
      BY SystemAssumption, SameRemainder
    <3> HIDE DEF x, y, z
    <3> QED
      BY <3>1, <3>2
  <2>6. x - z = lines - h /\ y - z = r + skipped
    BY <2>1
  <2> HIDE DEF x, y, z
  <2> QED
    BY <2>5, <2>6 DEF h, r
<1> QED
  BY <1>1, SimulationInvariance, PTL

\* Each multiple of frequency writes has had its update of the precompression
\* table, but for one at most for each line of the trace that was skipped.
THEOREM UpdatesAlwaysKeepUp == SimulationSpec => []UpdatesKeepUp
PROOF
<1>1. SimulationInv => UpdatesKeepUp
  <2> SUFFICES ASSUME SimulationInv, functionality = "pre", ~updateDue, ~aborted
               PROVE  Updates + skipped >= writes \div Frequency
    BY DEF UpdatesKeepUp, Updates
  <2>1. Updates + skipped + 0 >= writes \div Frequency
        /\ Updates \in Nat /\ skipped \in Nat
    BY DEF SimulationInv, MainOK, UpdatesOK, Updates
  <2> QED
    BY <2>1
<1> QED
  BY <1>1, SimulationInvariance, PTL

\* The records of type "E" in the minimized trace are exactly the write-backs.
THEOREM EvictionRecordsAreAlwaysWriteBacks == SimulationSpec => []EvictionRecordsAreWriteBacks
PROOF
<1>1. SimulationInv => EvictionRecordsAreWriteBacks
  BY DEF SimulationInv, OutputOK
<1> QED
  BY <1>1, SimulationInvariance, PTL

\* The minimized trace gets a record for every access but the read hits, if the
\* counters have more than one value.
THEOREM TraceAlwaysOmitsReadHits ==
    ASSUME CounterMod > 1
    PROVE  SimulationSpec => TraceOmitsReadHits
PROOF
<1> DEFINE Omits == functionality = "trace" /\ Bumped("accesses") =>
                      (minTrace' = minTrace <=> Bumped("hits") /\ writes' = writes)
<1>1. ASSUME SimulationInv, NEW address \in Lines,
             NEW accessType \in {"Read", "Write"}, NEW data,
             Simulate(address, accessType, data), functionality = "trace"
      PROVE  minTrace' = minTrace <=> Bumped("hits") /\ writes' = writes
  <2> DEFINE line == PhysLine(address)
             type == traceInfo'.type
  <2>1. /\ minTrace' = IF type = "I" THEN minTrace
                       ELSE [minTrace EXCEPT ![type] = (@ + 1) % CounterMod]
        /\ type = "I" <=> IsHit(line) /\ accessType = "Read"
        /\ type \in RecordTypes \cup {"I"}
    BY <1>1, SimulateKeepsOutput DEF SimulationInv
  <2> HIDE DEF type
  <2>2. minTrace' = minTrace <=> type = "I"
    <3> SUFFICES ASSUME type # "I" PROVE minTrace' # minTrace
      BY <2>1
    <3>1. /\ type \in RecordTypes
          /\ minTrace[type] \in 0 .. CounterMod - 1
          /\ minTrace'[type] = (minTrace[type] + 1) % CounterMod
      BY <1>1, <2>1 DEF SimulationInv, OutputOK
    <3> QED
      BY <3>1, CounterMoves
  <2>3. Bumped("hits") <=> IsHit(line)
    <3>1. stats["hits"] \in 0 .. CounterMod - 1
      BY <1>1 DEF SimulationInv, HistoryInv, Inv, StatsOK, StatNames
    <3>2. Hit(line, accessType) \/ Miss(line, accessType)
      BY <1>1 DEF Simulate, memAccess
    <3> HIDE DEF line
    <3> QED
      BY <3>1, <3>2, AccessCounts, CounterMoves DEF Bumped
  <2>4. writes' = writes <=> accessType = "Read"
    BY <1>1 DEF Simulate, CountWrite, SimulationInv, MainOK
  <2> QED
    BY <2>1, <2>2, <2>3, <2>4
<1>2. SimulationInv /\ [SimulationNext]_simulationVars => [Omits]_simulationVars
  <2> SUFFICES ASSUME SimulationInv, SimulationNext, functionality = "trace",
                      Bumped("accesses")
               PROVE  minTrace' = minTrace <=> Bumped("hits") /\ writes' = writes
    OBVIOUS
  <2>1. PICK address \in Lines, accessType \in {"Read", "Write"},
              data \in LineData : Simulate(address, accessType, data)
    BY DEF SimulationNext, Skip, Precompress, systemState, Bumped
  <2> QED
    BY <1>1, <2>1
<1> QED
  BY <1>2, SimulationInvariance, PTL DEF SimulationSpec, TraceOmitsReadHits

----------------------------------------------------------------------------
(* The data of the lines and the tables.                                   *)

\* The tables as PrecompressionProofs has them.  Data and Tables are instances of
\* the same definitions; nothing below is about the histories.
Tables == INSTANCE PrecompressionProofs
            WITH cache <- contents, recent <- << >>, idle <- << >>

LEMMA TablesAssumptions ==
    /\ Tables!FrequencyAssumption
    /\ Tables!PrecompressionAssumption
BY TraceAssumption
   DEF Data!Data, Tables!Data, Data!OptionRecord, Tables!OptionRecord,
       Data!IsFiniteSet, Tables!IsFiniteSet, Data!Positions, Tables!Positions

\* What the two instances call by the same name is the same, definition by
\* definition.
LEMMA SameTypeOK ==
    Data!TypeOK = Tables!TypeOK
BY DEF Data!TypeOK, Tables!TypeOK, Data!DataLine, Tables!DataLine, Data!Entry,
       Tables!Entry, Data!Data, Tables!Data, Data!Positions, Tables!Positions

LEMMA SameInit ==
    Data!Init = Tables!Init
BY DEF Data!Init, Tables!Init

LEMMA SameHit ==
    ASSUME NEW set, NEW tag, NEW data
    PROVE  Data!Hit(set, tag, data) = Tables!Hit(set, tag, data)
BY DEF Data!Hit, Tables!Hit, Data!IsCached, Tables!IsCached, Data!FirstWay,
       Tables!FirstWay, Data!HitReset, Tables!HitReset, Data!HitFrequency,
       Tables!HitFrequency, Data!HitKmeans, Tables!HitKmeans, Data!Min,
       Tables!Min, Data!Access, Tables!Access, Data!Replace, Tables!Replace,
       Data!PlainLine, Tables!PlainLine, Data!ByFrequency, Tables!ByFrequency,
       Data!findPrecompressionEntry, Tables!findPrecompressionEntry,
       Data!Positions, Tables!Positions, Data!Xor, Tables!Xor, Data!Data,
       Tables!Data, Data!Die, Tables!Die, Data!updateFrequencyTable,
       Tables!updateFrequencyTable, Data!ReplaceAt, Tables!ReplaceAt,
       Data!updateLRU, Tables!updateLRU, Data!Max, Tables!Max,
       Data!Similarity, Tables!Similarity, Data!tables, Tables!tables,
       Data!CountInfinite, Tables!CountInfinite, Data!CountFinite,
       Tables!CountFinite, Data!RemoveAt, Tables!RemoveAt, Data!MapThenSumSet,
       Tables!MapThenSumSet, Data!Weight, Tables!Weight, Data!Significant,
       Tables!Significant, Data!IsSimilar, Tables!IsSimilar,
       Data!FoldLeftDomain, Tables!FoldLeftDomain, Data!MapThenFoldSet,
       Tables!MapThenFoldSet, Data!FoldLeft, Tables!FoldLeft

LEMMA SameMiss ==
    ASSUME NEW set, NEW tag, NEW data
    PROVE  Data!Miss(set, tag, data) = Tables!Miss(set, tag, data)
BY DEF Data!Miss, Tables!Miss, Data!IsCached, Tables!IsCached, Data!Access,
       Tables!Access, Data!NewLine, Tables!NewLine, Data!updateFrequencyTable,
       Tables!updateFrequencyTable, Data!findPrecompressionEntry,
       Tables!findPrecompressionEntry, Data!PlainLine, Tables!PlainLine,
       Data!ByFrequency, Tables!ByFrequency, Data!precompressDatax,
       Tables!precompressDatax, Data!CountInfinite, Tables!CountInfinite,
       Data!CountFinite, Tables!CountFinite, Data!Max, Tables!Max,
       Data!Similarity, Tables!Similarity, Data!Min, Tables!Min,
       Data!Positions, Tables!Positions, Data!XorBytes, Tables!XorBytes,
       Data!Xor, Tables!Xor, Data!IsSimilar, Tables!IsSimilar, Data!RemoveAt,
       Tables!RemoveAt, Data!FoldLeftDomain, Tables!FoldLeftDomain,
       Data!MapThenSumSet, Tables!MapThenSumSet, Data!Weight, Tables!Weight,
       Data!Significant, Tables!Significant, Data!FoldLeft, Tables!FoldLeft,
       Data!MapThenFoldSet, Tables!MapThenFoldSet

LEMMA SameSorted ==
    ASSUME NEW table PROVE Data!Sorted(table) = Tables!Sorted(table)
BY DEF Data!Sorted, Tables!Sorted, Data!Bijection, Tables!Bijection,
       Data!Injection, Tables!Injection, Data!Surjection, Tables!Surjection,
       Data!IsInjective, Tables!IsInjective

LEMMA SameDecay ==
    ASSUME NEW table PROVE Data!Decay(table) = Tables!Decay(table)
BY DEF Data!Decay, Tables!Decay, Data!InOrder, Tables!InOrder, Data!Erased,
       Tables!Erased, Data!Age, Tables!Age, Data!Cardinality,
       Tables!Cardinality, Data!IsStagnant, Tables!IsStagnant,
       Data!IsUnchanged, Tables!IsUnchanged

LEMMA SameLeading ==
    ASSUME NEW seq PROVE Data!Leading(seq) = Tables!Leading(seq)
BY DEF Data!Leading, Tables!Leading, Data!Min, Tables!Min

LEMMA SameIsDuplicated ==
    ASSUME NEW old, NEW new
    PROVE  Data!IsDuplicated(old, new) = Tables!IsDuplicated(old, new)
BY DEF Data!IsDuplicated, Tables!IsDuplicated, Data!Cardinality,
       Tables!Cardinality

LEMMA SameInstall ==
    ASSUME NEW table, NEW sets
    PROVE  Data!Install(table, Data!Remapped(sets, table))
             = Tables!Install(table, Tables!Remapped(sets, table))
BY DEF Data!Install, Tables!Install, Data!Remapped, Tables!Remapped,
       Data!precompressCache, Tables!precompressCache,
       Data!findPrecompressionEntry, Tables!findPrecompressionEntry,
       Data!precompressDatax, Tables!precompressDatax, Data!Max, Tables!Max,
       Data!Similarity, Tables!Similarity, Data!Min, Tables!Min,
       Data!Positions, Tables!Positions, Data!XorBytes, Tables!XorBytes,
       Data!Xor, Tables!Xor, Data!MapThenSumSet, Tables!MapThenSumSet,
       Data!Weight, Tables!Weight, Data!Significant, Tables!Significant,
       Data!MapThenFoldSet, Tables!MapThenFoldSet

LEMMA SameUpdateInfinite ==
    Data!UpdateInfinite = Tables!UpdateInfinite
BY SameSorted, SameDecay, SameLeading, SameIsDuplicated, SameInstall
   DEF Data!UpdateInfinite, Tables!UpdateInfinite, Data!ByFrequency,
       Tables!ByFrequency, Data!IsUnchanged, Tables!IsUnchanged, Data!Die,
       Tables!Die, Data!tables, Tables!tables

LEMMA SameUpdateFinite ==
    Data!UpdateFinite = Tables!UpdateFinite
BY SameLeading, SameIsDuplicated, SameInstall
   DEF Data!UpdateFinite, Tables!UpdateFinite, Data!ByFrequency,
       Tables!ByFrequency, Data!Die, Tables!Die, Data!tables, Tables!tables

LEMMA SameUpdateNeither ==
    Data!UpdateNeither = Tables!UpdateNeither
BY SameInstall
   DEF Data!UpdateNeither, Tables!UpdateNeither, Data!ByFrequency,
       Tables!ByFrequency, Data!tables, Tables!tables

LEMMA SameUpdateKmeans ==
    Data!UpdateKmeans = Tables!UpdateKmeans
BY DEF Data!UpdateKmeans, Tables!UpdateKmeans, Data!Data, Tables!Data,
       Data!ByFrequency, Tables!ByFrequency, Data!Cardinality, Tables!Cardinality, Data!Filled,
       Tables!Filled, Data!Min, Tables!Min, Data!IsDuplicated,
       Tables!IsDuplicated, Data!Die, Tables!Die, Data!tables, Tables!tables,
       Data!Install, Tables!Install, Data!precompressCache,
       Tables!precompressCache, Data!precompressDatax,
       Tables!precompressDatax, Data!Positions, Tables!Positions,
       Data!XorBytes, Tables!XorBytes, Data!Xor, Tables!Xor, Data!Significant,
       Tables!Significant, Data!Weight, Tables!Weight

LEMMA SameUpdate ==
    Data!updatePrecompressTable = Tables!updatePrecompressTable
BY SameUpdateInfinite, SameUpdateFinite, SameUpdateNeither, SameUpdateKmeans
   DEF Data!updatePrecompressTable, Tables!updatePrecompressTable

LEMMA SameMemAccess ==
    ASSUME NEW set, NEW tag, NEW data
    PROVE  Data!memAccess(set, tag, data) <=> Tables!memAccess(set, tag, data)
PROOF
<1>1. Data!Hit(set, tag, data) = Tables!Hit(set, tag, data)
  BY SameHit
<1>2. Data!Miss(set, tag, data) = Tables!Miss(set, tag, data)
  BY SameMiss
<1> QED
  BY <1>1, <1>2 DEF Data!memAccess, Tables!memAccess

\* The program makes accesses to the data of the lines and updates of the table,
\* or leaves them alone.
LEMMA DataSteps ==
    ASSUME Inv, options \in Options, SimulationNext
    PROVE  \/ \E set \in Sets, tag \in Tags, data \in TraceData(options) :
                Data!memAccess(set, tag, data)
           \/ Data!updatePrecompressTable
           \/ UNCHANGED dataVars
PROOF
<1>1. CASE \E address \in Lines, accessType \in {"Read", "Write"},
             data \in LineData : Simulate(address, accessType, data)
  <2>1. PICK address \in Lines, accessType \in {"Read", "Write"},
             data \in LineData : Simulate(address, accessType, data)
    BY <1>1
  <2>2. PICK line : line = PhysLine(address)
    OBVIOUS
  <2>3. SetOf(line) \in Sets /\ TagOf(line) \in Tags
    BY <2>2, PhysLineType, LineParts DEF Inv
  <2>4. data \in TraceData(options)
    BY TraceAssumption DEF LineData
  <2>5. Data!memAccess(SetOf(line), TagOf(line), data)
    BY <2>1, <2>2 DEF Simulate
  <2> QED
    BY <2>3, <2>4, <2>5
<1>2. CASE \E accessType \in {"Read", "Write"} : Skip(accessType)
  BY <1>2 DEF Skip
<1>3. CASE Precompress
  BY <1>3 DEF Precompress
<1> QED
  BY <1>1, <1>2, <1>3 DEF SimulationNext

LEMMA StepsOfTheTables ==
    ASSUME Inv, options \in Options, [SimulationNext]_simulationVars
    PROVE  [Data!Next]_(Data!vars) /\ [Tables!Next]_(Tables!vars)
PROOF
<1>1. UNCHANGED dataVars => UNCHANGED Data!vars /\ UNCHANGED Tables!vars
  BY DEF dataVars, Data!vars, Data!tables, Tables!vars, Tables!tables
<1>2. UNCHANGED simulationVars => UNCHANGED dataVars
  BY DEF simulationVars
<1>3. ASSUME NEW set \in Sets, NEW tag \in Tags, NEW data \in TraceData(options),
             Data!memAccess(set, tag, data)
      PROVE  Data!Next /\ Tables!Next
  <2>1. Tables!memAccess(set, tag, data)
    BY <1>3, SameMemAccess
  <2> QED
    BY <1>3, <2>1 DEF Data!Next, Tables!Next
<1>4. Data!updatePrecompressTable => Data!Next /\ Tables!Next
  BY SameUpdate DEF Data!Next, Tables!Next
<1> QED
  BY <1>1, <1>2, <1>3, <1>4, DataSteps

LEMMA InitTables == SimulationInit => Tables!DataInv
PROOF
<1>1. SimulationInit => Tables!Init
  BY SameInit DEF SimulationInit
<1>2. Tables!Init => Tables!DataInv
  BY TablesAssumptions, AssocAssumption, Tables!InitEstablishesInv
<1> QED
  BY <1>1, <1>2

LEMMA StepKeepsTables ==
    ASSUME Inv, Tables!DataInv, [SimulationNext]_simulationVars
    PROVE  Tables!DataInv'
PROOF
<1>1. options \in Options
  BY DEF Tables!DataInv
<1>2. [Tables!Next]_(Tables!vars)
  BY <1>1, StepsOfTheTables
<1> QED
  BY <1>2, TablesAssumptions, AssocAssumption, Tables!NextPreservesInv

\* The tables and the data of the lines are well kept in the program.
THEOREM TablesInvariance == SimulationSpec => []Tables!DataInv
PROOF
<1>1. SimulationInv /\ Tables!DataInv /\ [SimulationNext]_simulationVars
        => Tables!DataInv'
  BY StepKeepsTables DEF SimulationInv, HistoryInv
<1> QED
  BY <1>1, InitTables, SimulationInvariance, PTL DEF SimulationSpec

LEMMA StepKeepsEntries ==
    ASSUME Inv, Tables!DataInv, Tables!TableInv, [SimulationNext]_simulationVars
    PROVE  Tables!TableInv'
PROOF
<1>1. options \in Options
  BY DEF Tables!DataInv
<1>2. [Tables!Next]_(Tables!vars)
  BY <1>1, StepsOfTheTables
<1> QED
  BY <1>2, TablesAssumptions, AssocAssumption, Tables!NextPreservesTableInv

\* So are the entries that the tables choose.
THEOREM EntriesInvariance == SimulationSpec => []Tables!TableInv
PROOF
<1>1. SimulationInit => Tables!TableInv
  BY SameInit, TablesAssumptions, AssocAssumption, Tables!InitTableInv DEF SimulationInit
<1>2. SimulationInv /\ Tables!DataInv /\ Tables!TableInv
        /\ [SimulationNext]_simulationVars => Tables!TableInv'
  BY StepKeepsEntries DEF SimulationInv, HistoryInv
<1> QED
  BY <1>1, <1>2, SimulationInvariance, TablesInvariance, PTL DEF SimulationSpec

\* The program runs Precompression: every property of the tables shown for its
\* specification is one of the program.
THEOREM SimulatesTheTables == SimulationSpec => Data!Spec
PROOF
<1>1. SimulationInit => Data!Init
  BY DEF SimulationInit
<1>2. SimulationInv /\ Tables!DataInv /\ [SimulationNext]_simulationVars
        => [Data!Next]_(Data!vars)
  BY StepsOfTheTables DEF SimulationInv, HistoryInv, Tables!DataInv
<1> QED
  BY <1>1, <1>2, SimulationInvariance, TablesInvariance, PTL
     DEF SimulationSpec, Data!Spec

----------------------------------------------------------------------------
(* The two parts of a deque.                                               *)

\* The same tags at the same places.
SameTags(set, other) ==
    /\ Len(set) = Len(other)
    /\ \A i \in 1 .. Len(set) : set[i].tag = other[i].tag

SameDeques ==
    ~aborted => \A s \in Sets : SameTags(cache[s], contents[s])

LEMMA SameTagsFound ==
    ASSUME NEW set, DOMAIN set = 1 .. Len(set), NEW other,
           DOMAIN other = 1 .. Len(other), SameTags(set, other), NEW tag
    PROVE  /\ IsCached(set, tag) <=> Tables!IsCached(other, tag)
           /\ FirstWay(set, tag) = Tables!FirstWay(other, tag)
PROOF
<1>1. {i \in DOMAIN set : set[i].tag = tag} = {i \in DOMAIN other : other[i].tag = tag}
  BY DEF SameTags
<1> QED
  BY <1>1 DEF IsCached, Tables!IsCached, FirstWay, Tables!FirstWay, Min, Tables!Min,
              SameTags

LEMMA SameTagsAfterHit ==
    ASSUME NEW set, NEW other, SameTags(set, other), Len(set) \in Nat, NEW w,
           NEW set2, Tables!HitMovesTags(set, w, set2),
           NEW other2, Tables!HitMovesTags(other, w, other2)
    PROVE  SameTags(set2, other2)
PROOF
<1> DEFINE n == Len(set)
<1>1. /\ Len(set2) = n /\ Len(other2) = n /\ w \in 1 .. n /\ n \in Nat
      /\ set2[n].tag = set[w].tag /\ other2[n].tag = other[w].tag
      /\ \A j \in 1 .. n - 1 :
            /\ set2[j].tag = set[IF j < w THEN j ELSE j + 1].tag
            /\ other2[j].tag = other[IF j < w THEN j ELSE j + 1].tag
      /\ \A j \in 1 .. n : set[j].tag = other[j].tag
  BY DEF Tables!HitMovesTags, SameTags
<1> HIDE DEF n
<1>2. ASSUME NEW j \in 1 .. n
      PROVE  set2[j].tag = other2[j].tag
  <2>1. CASE j = n
    BY <1>1, <2>1
  <2>2. CASE j # n
    <3>1. j \in 1 .. n - 1 /\ (IF j < w THEN j ELSE j + 1) \in 1 .. n
      BY <1>1, <2>2
    <3> QED
      BY <1>1, <3>1
  <2> QED
    BY <2>1, <2>2
<1> QED
  BY <1>1, <1>2 DEF SameTags

LEMMA SameTagsAfterMiss ==
    ASSUME NEW set, NEW other, SameTags(set, other), Len(set) \in Nat, NEW tag,
           NEW set2, Tables!MissMovesTags(set, tag, set2),
           NEW other2, Tables!MissMovesTags(other, tag, other2)
    PROVE  SameTags(set2, other2)
PROOF
<1> DEFINE n == Len(set)
<1>0. PICK gone : gone = IF n = Assoc THEN 1 ELSE 0
  OBVIOUS
<1>1. /\ Len(set2) = n + 1 - gone /\ Len(other2) = n + 1 - gone
      /\ set2[Len(set2)].tag = tag /\ other2[Len(other2)].tag = tag
      /\ \A j \in 1 .. n - gone :
            set2[j].tag = set[j + gone].tag /\ other2[j].tag = other[j + gone].tag
      /\ \A j \in 1 .. n : set[j].tag = other[j].tag
  BY <1>0 DEF Tables!MissMovesTags, SameTags
<1>2. n \in Nat /\ gone \in 0 .. 1
  BY <1>0
<1> HIDE DEF n
<1>3. ASSUME NEW j \in 1 .. Len(set2)
      PROVE  set2[j].tag = other2[j].tag
  <2>1. CASE j = Len(set2)
    BY <1>1, <2>1
  <2>2. CASE j # Len(set2)
    <3>1. j \in 1 .. n - gone /\ j + gone \in 1 .. n
      BY <1>1, <1>2, <2>2
    <3> QED
      BY <1>1, <3>1
  <2> QED
    BY <2>1, <2>2
<1> QED
  BY <1>1, <1>3 DEF SameTags

\* A hit and a miss of memAccess move the tags of the cache's part as they do
\* those of the data's part.
LEMMA AccessMovesCache ==
    ASSUME CacheOK, NEW line \in Lines, NEW accessType \in {"Read", "Write"},
           Hit(line, accessType) \/ Miss(line, accessType)
    PROVE  LET s == SetOf(line)
               tag == TagOf(line)
           IN  /\ \A t \in Sets \ {s} : cache'[t] = cache[t]
               /\ IsCached(cache[s], tag)
                    => Tables!HitMovesTags(cache[s], FirstWay(cache[s], tag), cache'[s])
               /\ ~IsCached(cache[s], tag)
                    => Tables!MissMovesTags(cache[s], tag, cache'[s])
PROOF
<1> DEFINE s == SetOf(line)
           tag == TagOf(line)
<1>1. s \in Sets /\ tag \in Tags
  BY LineParts
<1>2. cache \in [Sets -> Seq(CacheLine)] /\ WellKept(cache[s])
  BY <1>1, CacheOKMeans
<1>3. IsHit(line) <=> IsCached(cache[s], tag)
  BY <1>2, FindTagType DEF IsHit, StateOf, WellKept
<1>4. PICK set : set = cache[s]
  OBVIOUS
<1>5. WellKept(set) /\ Len(set) \in Nat /\ DOMAIN set = 1 .. Len(set)
  BY <1>2, <1>4, LenProperties DEF WellKept
<1> HIDE DEF s, tag
<1>6. CASE Hit(line, accessType)
  <2>1. PICK i \in 1 .. Len(set) : set[i].tag = tag
    BY <1>3, <1>4, <1>5, <1>6 DEF Hit, IsCached, s, tag
  <2>2. FirstWay(set, tag) = i
    BY <1>5, <2>1, FirstWayIsIndex DEF WellKept
  <2>3. PICK after : after = AfterHit(set, tag, accessType)
    OBVIOUS
  <2>4. cache' = [cache EXCEPT ![s] = after]
    BY <1>4, <1>6, <2>3 DEF Hit, AfterHit, s, tag
  <2>5. ASSUME NEW j \in 1 .. Len(set)
        PROVE  /\ Len(after) = Len(set)
               /\ after[j].tag = set[Behind(Len(set), i, j)].tag
    <3>1. WellKept(set) /\ after = AfterHit(set, set[i].tag, accessType)
      BY <1>5, <2>1, <2>3
    <3> QED
      BY <3>1, HitMoves
  <2>6. /\ Len(after) = Len(set) /\ after[Len(set)].tag = set[i].tag
        /\ \A j \in 1 .. Len(set) - 1 :
              after[j].tag = set[IF j < i THEN j ELSE j + 1].tag
    <3>1. PICK n : n = Len(set)
      OBVIOUS
    <3>2. /\ n \in 1 .. n
          /\ \A j \in 1 .. n - 1 : j \in 1 .. n /\ j # n
      <4>1. n \in Nat /\ i \in 1 .. n
        BY <1>5, <2>1, <3>1
      <4> QED
        BY <4>1
    <3> QED
      BY <2>5, <3>1, <3>2 DEF Behind
  <2>7. Tables!HitMovesTags(set, i, after)
    BY <2>6 DEF Tables!HitMovesTags
  <2> QED
    BY <1>1, <1>2, <1>3, <1>4, <1>6, <2>2, <2>4, <2>7 DEF Hit, s, tag
<1>7. CASE Miss(line, accessType)
  <2>1. PICK state \in CacheState : state = NewState(accessType)
    BY DEF NewState, CacheState
  <2>2. PICK after : after = insertLine(set, tag, state)
    OBVIOUS
  <2>3. cache' = [cache EXCEPT ![s] = after]
    BY <1>4, <1>7, <2>1, <2>2 DEF Miss, s, tag
  <2>4. Tables!MissMovesTags(set, tag, after)
    BY <1>1, <1>5, <2>2, MissMoves DEF Tables!MissMovesTags
  <2> QED
    BY <1>1, <1>2, <1>3, <1>4, <1>7, <2>3, <2>4 DEF Miss, s, tag
<1> QED
  BY <1>6, <1>7 DEF s, tag

LEMMA SimulateKeepsDeques ==
    ASSUME SimulationInv, Tables!DataInv, SameDeques, NEW address \in Lines,
           NEW accessType \in {"Read", "Write"}, NEW data \in LineData,
           Simulate(address, accessType, data)
    PROVE  SameDeques'
PROOF
<1> SUFFICES ASSUME ~aborted' PROVE \A s \in Sets : SameTags(cache'[s], contents'[s])
  BY DEF SameDeques, SameTags
<1>1. PICK line \in Lines : line = PhysLine(address)
  BY PhysLineType DEF SimulationInv, HistoryInv, Inv
<1>2. PICK s, tag : s = SetOf(line) /\ tag = TagOf(line)
  OBVIOUS
<1>3. s \in Sets /\ tag \in Tags
  BY <1>2, LineParts
<1>4. data \in Tables!Data
  <2>1. options \in Options
    BY DEF Tables!DataInv
  <2>2. data \in TraceData(options)
    BY <2>1, TraceAssumption DEF LineData
  <2> QED
    BY <2>1, <2>2, TablesAssumptions DEF Tables!PrecompressionAssumption
<1>5. Hit(line, accessType) \/ Miss(line, accessType)
  BY <1>1 DEF Simulate, memAccess
<1>6. Tables!memAccess(s, tag, data)
  BY <1>1, <1>2, SameMemAccess DEF Simulate
<1>7. /\ \A t \in Sets \ {s} : cache'[t] = cache[t]
      /\ IsCached(cache[s], tag)
           => Tables!HitMovesTags(cache[s], FirstWay(cache[s], tag), cache'[s])
      /\ ~IsCached(cache[s], tag)
           => Tables!MissMovesTags(cache[s], tag, cache'[s])
  BY <1>2, <1>5, AccessMovesCache DEF SimulationInv, HistoryInv, Inv
<1>8. /\ \A t \in Sets \ {s} : contents'[t] = contents[t]
      /\ Tables!IsCached(contents[s], tag)
           => Tables!HitMovesTags(contents[s], Tables!FirstWay(contents[s], tag),
                                  contents'[s])
      /\ ~Tables!IsCached(contents[s], tag)
           => Tables!MissMovesTags(contents[s], tag, contents'[s])
  BY <1>3, <1>4, <1>6, TablesAssumptions, AssocAssumption, Tables!AccessMovesTags
<1>9. \A t \in Sets : SameTags(cache[t], contents[t])
  BY DEF SameDeques, Simulate, MayRead
<1>10. PICK set, other : set = cache[s] /\ other = contents[s]
  OBVIOUS
<1>11. Len(set) \in Nat /\ DOMAIN set = 1 .. Len(set)
  <2>1. set \in Seq(CacheLine)
    BY <1>3, <1>10 DEF SimulationInv, HistoryInv, Inv, CacheOK
  <2> QED
    BY <2>1, LenProperties
<1>12. DOMAIN other = 1 .. Len(other)
  <2>1. other \in Seq(Tables!DataLine)
    BY <1>3, <1>10 DEF Tables!DataInv, Tables!LinesInv
  <2> QED
    BY <2>1, LenProperties
<1>13. /\ SameTags(set, other)
       /\ IsCached(set, tag) <=> Tables!IsCached(other, tag)
       /\ FirstWay(set, tag) = Tables!FirstWay(other, tag)
  BY <1>3, <1>9, <1>10, <1>11, <1>12, SameTagsFound
<1>14. PICK set2, other2 : set2 = cache'[s] /\ other2 = contents'[s]
  OBVIOUS
<1>15. CASE IsCached(set, tag)
  <2>1. PICK w : w = FirstWay(set, tag)
    OBVIOUS
  <2>2. Tables!HitMovesTags(set, w, set2) /\ Tables!HitMovesTags(other, w, other2)
    BY <1>7, <1>8, <1>10, <1>13, <1>14, <1>15, <2>1
  <2>3. SameTags(set2, other2)
    BY <1>11, <1>13, <2>2, SameTagsAfterHit
  <2> QED
    BY <1>7, <1>8, <1>9, <1>14, <2>3
<1>16. CASE ~IsCached(set, tag)
  <2>1. Tables!MissMovesTags(set, tag, set2) /\ Tables!MissMovesTags(other, tag, other2)
    BY <1>7, <1>8, <1>10, <1>13, <1>14, <1>16
  <2>2. SameTags(set2, other2)
    BY <1>11, <1>13, <2>1, SameTagsAfterMiss
  <2> QED
    BY <1>7, <1>8, <1>9, <1>14, <2>2
<1> QED
  BY <1>15, <1>16

LEMMA PrecompressKeepsDeques ==
    ASSUME Tables!DataInv, SameDeques, Precompress
    PROVE  SameDeques'
PROOF
<1>1. Tables!updatePrecompressTable /\ ~aborted /\ cache' = cache
  BY SameUpdate DEF Precompress, systemState
<1>2. ASSUME NEW s \in Sets
      PROVE  /\ Len(contents'[s]) = Len(contents[s])
             /\ \A i \in 1 .. Len(contents[s]) :
                   contents'[s][i].tag = contents[s][i].tag
  BY <1>1, TablesAssumptions, AssocAssumption, Tables!UpdateKeepsTags
<1>3. \A s \in Sets : SameTags(cache[s], contents[s])
  BY <1>1 DEF SameDeques
<1>4. \A s \in Sets : SameTags(cache'[s], contents'[s])
  BY <1>1, <1>2, <1>3 DEF SameTags
<1> QED
  BY <1>4 DEF SameDeques, SameTags

\* The trace ends: the line whose update is still to come is one of MaxLines.
TraceBounds ==
    /\ lines + (IF updateDue THEN 1 ELSE 0) <= MaxLines
    /\ writes <= lines + (IF updateDue THEN 1 ELSE 0)

LEMMA StepKeepsBounds ==
    ASSUME MainOK, TraceBounds, SimulationNext
    PROVE  TraceBounds'
PROOF
<1>1. lines \in Nat /\ writes \in Nat /\ updateDue \in BOOLEAN /\ MaxLines \in Nat
  BY SimulationAssumption DEF MainOK
<1>2. ASSUME NEW address, NEW accessType, NEW data, Simulate(address, accessType, data)
      PROVE  TraceBounds'
  <2>1. /\ ~updateDue /\ lines < MaxLines
        /\ writes' = writes + (IF accessType = "Write" THEN 1 ELSE 0)
        /\ lines' = IF updateDue' THEN lines ELSE lines + 1
    BY <1>2 DEF Simulate, MayRead, CountWrite, EndLine
  <2> QED
    BY <1>1, <2>1 DEF TraceBounds
<1>3. ASSUME NEW accessType, Skip(accessType)
      PROVE  TraceBounds'
  <2>1. /\ ~updateDue /\ lines < MaxLines /\ ~updateDue'
        /\ writes' = writes + (IF accessType = "Write" THEN 1 ELSE 0)
        /\ lines' = lines + 1
    BY <1>3 DEF Skip, MayRead, CountWrite
  <2> QED
    BY <1>1, <2>1 DEF TraceBounds
<1>4. CASE Precompress
  <2>1. updateDue /\ ~updateDue' /\ writes' = writes /\ lines' = lines + 1
    BY <1>4 DEF Precompress
  <2> QED
    BY <1>1, <2>1 DEF TraceBounds
<1> QED
  BY <1>2, <1>3, <1>4 DEF SimulationNext

ProgramInv == SimulationInv /\ Tables!DataInv /\ SameDeques /\ TraceBounds

\* What one part of the program knows about the others holds throughout: the tags
\* and the data of a deque stay together.
THEOREM ProgramInvariance == SimulationSpec => []ProgramInv
PROOF
<1>1. SimulationInit => SameDeques /\ TraceBounds
  <2> SUFFICES ASSUME SimulationInit PROVE SameDeques /\ TraceBounds
    OBVIOUS
  <2>1. \A s \in Sets : cache[s] = << >> /\ contents[s] = << >>
    BY DEF SimulationInit, HistoryInit, Init, Data!Init
  <2>2. SameDeques
    BY <2>1, EmptySeq DEF SameDeques, SameTags
  <2>3. TraceBounds
    BY SimulationAssumption DEF SimulationInit, TraceBounds
  <2> QED
    BY <2>2, <2>3
<1>2. SimulationInv /\ Tables!DataInv /\ SameDeques /\ TraceBounds
        /\ [SimulationNext]_simulationVars => SameDeques' /\ TraceBounds'
  <2> SUFFICES ASSUME SimulationInv, Tables!DataInv, SameDeques, TraceBounds,
                      [SimulationNext]_simulationVars
               PROVE  SameDeques' /\ TraceBounds'
    OBVIOUS
  <2>1. CASE \E address \in Lines, accessType \in {"Read", "Write"},
                data \in LineData : Simulate(address, accessType, data)
    BY <2>1, SimulateKeepsDeques, StepKeepsBounds DEF SimulationInv, SimulationNext
  <2>2. CASE \E accessType \in {"Read", "Write"} : Skip(accessType)
    <3>1. UNCHANGED <<cache, contents, aborted>>
      BY <2>2 DEF Skip, systemState, dataVars
    <3>2. SameDeques'
      BY <3>1 DEF SameDeques, SameTags
    <3> QED
      BY <2>2, <3>2, StepKeepsBounds DEF SimulationInv, SimulationNext
  <2>3. CASE Precompress
    BY <2>3, PrecompressKeepsDeques, StepKeepsBounds DEF SimulationInv, SimulationNext
  <2>4. CASE UNCHANGED simulationVars
    <3>1. UNCHANGED <<cache, contents, aborted, lines, writes, updateDue>>
      BY <2>4 DEF simulationVars, systemState, dataVars
    <3> QED
      BY <3>1 DEF SameDeques, SameTags, TraceBounds
  <2> QED
    BY <2>1, <2>2, <2>3, <2>4 DEF SimulationNext
<1> QED
  BY <1>1, <1>2, SimulationInvariance, TablesInvariance, PTL
     DEF SimulationSpec, ProgramInv

\* The variables have their types, and the deques of cache and of contents are one
\* deque: a line that stays, moves or leaves does so with its data.
THEOREM SimulationTypeCorrect == SimulationSpec => []SimulationTypeOK
PROOF
<1>1. ProgramInv => SimulationTypeOK
  <2> SUFFICES ASSUME ProgramInv PROVE SimulationTypeOK
    OBVIOUS
  <2>1. TypeOK
    <3>1. Inv
      BY DEF ProgramInv, SimulationInv, HistoryInv
    <3> QED
      BY <3>1, SystemTypeParts DEF Inv, CacheOK, TypeOK
  <2>2. Data!TypeOK
    <3>1. Tables!TypeOK
      BY DEF ProgramInv, Tables!DataInv, Tables!FrequencyInv, Tables!LinesInv,
             Tables!TypeOK
    <3> QED
      BY <3>1, SameTypeOK
  <2>3. /\ functionality \in {"pre", "trace"} /\ updateDue \in BOOLEAN
        /\ skipped \in 0 .. lines /\ lines \in Nat /\ writes \in Nat
    BY DEF ProgramInv, SimulationInv, MainOK
  <2>4. lines \in 0 .. MaxLines /\ writes \in 0 .. MaxLines
    BY <2>3, SimulationAssumption DEF ProgramInv, TraceBounds
  <2>5. ASSUME ~aborted, NEW s \in Sets
        PROVE  [i \in DOMAIN cache[s] |-> cache[s][i].tag]
                 = [i \in DOMAIN contents[s] |-> contents[s][i].tag]
    <3>1. SameTags(cache[s], contents[s])
      BY <2>5 DEF ProgramInv, SameDeques
    <3>2. DOMAIN cache[s] = 1 .. Len(cache[s])
      <4>1. cache[s] \in Seq(CacheLine)
        BY DEF ProgramInv, SimulationInv, HistoryInv, Inv, CacheOK
      <4> QED
        BY <4>1, LenProperties
    <3>3. DOMAIN contents[s] = 1 .. Len(contents[s])
      <4>1. contents[s] \in Seq(Tables!DataLine)
        BY DEF ProgramInv, Tables!DataInv, Tables!LinesInv
      <4> QED
        BY <4>1, LenProperties
    <3> QED
      BY <3>1, <3>2, <3>3 DEF SameTags
  <2> QED
    BY <2>1, <2>2, <2>3, <2>4, <2>5 DEF SimulationTypeOK
<1> QED
  BY <1>1, ProgramInvariance, PTL

\* Under "frequency" the program never aborts, on any trace.
THEOREM ProgramsNeverAbort == SimulationSpec => []Data!FrequencyNeverAborts
PROOF
<1>1. ProgramInv => Data!FrequencyNeverAborts
  BY DEF ProgramInv, Tables!DataInv, Tables!FrequencyNeverAborts, Tables!ByFrequency,
         Data!FrequencyNeverAborts, Data!ByFrequency
<1> QED
  BY <1>1, ProgramInvariance, PTL

----------------------------------------------------------------------------
(* The space that a line takes.                                            *)

\* A line of groups of eight bytes, of which only the last is not zero.
LEMMA LastBytesCompress ==
    ASSUME DataType = 8, NEW line,
           \A j \in Tables!Positions : Tables!Weight(j) > 1 => line[j] = 0
    PROVE  Compressor!bdi(line) <= Compressor!Encoded(8, 1)
PROOF
<1>1. LineBytes \in Nat \ {0} /\ LineBytes % 8 = 0
  BY TraceAssumption DEF Data!FrequencyAssumption
<1>2. PICK n \in Nat : LineBytes = 8 * n
  BY <1>1
<1>3. LineBytes \div 8 = n /\ n # 0
  BY <1>1, <1>2
<1>4. ASSUME NEW i \in 1 .. n, NEW j \in 1 .. 7
      PROVE  line[(i - 1) * 8 + j] = 0
  <2>1. (i - 1) * 8 + j \in 1 .. LineBytes
    BY <1>2
  <2>2. ((i - 1) * 8 + j - 1) % 8 = j - 1
    BY <1>2
  <2>3. Tables!Weight((i - 1) * 8 + j) > 1
    BY <2>2 DEF Tables!Weight
  <2> QED
    BY <2>1, <2>3 DEF Tables!Positions
<1>5. \A i \in 1 .. n : Compressor!zero_flag(line, 8, 1, i)
  <2>1. 8 - 1 = 7
    OBVIOUS
  <2> QED
    BY <1>4, <2>1 DEF Compressor!zero_flag, Compressor!High, Compressor!ByteOf
<1>6. Compressor!nonZeroValues8(line, 1) = {}
  BY <1>3, <1>5 DEF Compressor!nonZeroValues8, Compressor!Values
<1>7. Compressor!flag8(line, 1)
  BY <1>6 DEF Compressor!flag8, Compressor!FitBase
<1>8. Compressor!Encoded(8, 1) = 8 + n
  BY <1>3 DEF Compressor!Encoded
<1>9. Compressor!bdi(line) \in {1, 8, Compressor!Encoded(8, 1)}
  BY <1>7 DEF Compressor!bdi
<1> QED
  BY <1>3, <1>8, <1>9

LEMMA SameLinesOf ==
    ASSUME NEW sets PROVE Data!LinesOf(sets) = Tables!LinesOf(sets)
BY DEF Data!LinesOf, Tables!LinesOf, Data!Range, Tables!Range

\* The entries of the table stay the table's best answers for the lines mapped to
\* them, and what they leave of a line is a byte of every eight at most.
THEOREM EntriesAlwaysCompressWell == SimulationSpec => []EntryCompressesWell
PROOF
<1>1. Tables!TableInv /\ Tables!DataInv => EntryCompressesWell
  <2> SUFFICES ASSUME Tables!TableInv, Tables!DataInv,
                      Data!ByFrequency, options.precompMethod = "xor",
                      options.hitUpdate = "n", options.ignoreIBytes = "n",
                      DataType = 8, options.infiniteFreq = "y" => BytesIgnored <= 1,
                      NEW line \in Data!LinesOf(contents), line.mapping > -1,
                      line.data \in Range(precompressionTable)
               PROVE  Compressor!bdi(line.datax) <= Compressor!Encoded(8, 1)
    BY DEF EntryCompressesWell
  <2>1. Tables!XorBytes = {j \in Tables!Positions : Tables!Weight(j) > 1}
    BY DEF Tables!XorBytes
  <2>2. options.infiniteFreq = "y" => Tables!XorBytes \subseteq Tables!Significant
    <3>1. \A j \in Tables!Positions : Tables!Weight(j) \in Int
      BY DEF Tables!Weight, Tables!Positions
    <3>2. BytesIgnored \in Int
      BY TraceAssumption DEF Data!FrequencyAssumption
    <3> QED
      BY <2>1, <3>1, <3>2 DEF Tables!Significant
  <2>3. /\ Tables!ByFrequency /\ line \in Tables!LinesOf(contents)
        /\ line.data \in Tables!Range(precompressionTable)
    BY SameLinesOf DEF Data!ByFrequency, Tables!ByFrequency, Range, Tables!Range
  <2>4. \A j \in Tables!XorBytes : line.datax[j] = 0
    BY <2>2, <2>3, TablesAssumptions, AssocAssumption, Tables!EntryClearsBytes
  <2>5. \A j \in Tables!Positions : Tables!Weight(j) > 1 => line.datax[j] = 0
    BY <2>1, <2>4
  <2>6. PICK datax : datax = line.datax
    OBVIOUS
  <2> QED
    BY <2>5, <2>6, LastBytesCompress
<1> QED
  BY <1>1, TablesInvariance, EntriesInvariance, PTL

----------------------------------------------------------------------------
(* The turnover of the table.                                              *)

\* Of tables without duplicates, the pairs of equal entries are as many as the
\* entries that the tables have in common.
LEMMA SurvivorsArePairs ==
    ASSUME NEW S, NEW old \in Seq(S), NEW new \in Seq(S)
    PROVE  /\ SameEntries(old, new) \in Nat
           /\ Tables!Distinct(old) /\ Tables!Distinct(new) =>
                SameEntries(old, new) = Cardinality(Range(old) \cap Range(new))
PROOF
<1> DEFINE Both == (DOMAIN old) \X (DOMAIN new)
           Pairs == {p \in Both : old[p[1]] = new[p[2]]}
           Common == Range(old) \cap Range(new)
           entry == [p \in Pairs |-> old[p[1]]]
<1>1. IsFiniteSet(DOMAIN old) /\ IsFiniteSet(DOMAIN new)
  <2>1. /\ DOMAIN old = 1 .. Len(old) /\ Len(old) \in Nat
        /\ DOMAIN new = 1 .. Len(new) /\ Len(new) \in Nat
    BY LenProperties
  <2> QED
    BY <2>1, FS_Interval
<1>2. IsFiniteSet(Pairs) /\ Cardinality(Pairs) \in Nat
  <2>1. IsFiniteSet(Both) /\ Pairs \in SUBSET Both
    BY <1>1, FS_Product
  <2> HIDE DEF Both, Pairs
  <2> QED
    BY <2>1, FS_Subset, FS_CardinalityType
<1>3. SameEntries(old, new) = Cardinality(Pairs)
  BY DEF SameEntries
<1>4. ASSUME Tables!Distinct(old), Tables!Distinct(new)
      PROVE  Cardinality(Pairs) = Cardinality(Common)
  <2>1. entry \in [Pairs -> Common]
    BY DEF Range
  <2>2. \A p, q \in Pairs : entry[p] = entry[q] => p = q
    <3> SUFFICES ASSUME NEW p \in Pairs, NEW q \in Pairs, entry[p] = entry[q]
                 PROVE  p = q
      OBVIOUS
    <3>1. p[1] = q[1] /\ p[2] = q[2]
      BY <1>4 DEF Tables!Distinct
    <3> QED
      BY <3>1
  <2>3. \A c \in Common : \E p \in Pairs : entry[p] = c
    <3> SUFFICES ASSUME NEW c \in Common
                 PROVE  \E p \in Pairs : entry[p] = c
      OBVIOUS
    <3>1. PICK i \in DOMAIN old, k \in DOMAIN new : old[i] = c /\ new[k] = c
      BY DEF Range
    <3>2. <<i, k>> \in Pairs /\ entry[<<i, k>>] = c
      BY <3>1
    <3> QED
      BY <3>2
  <2> HIDE DEF Pairs, Common, entry
  <2>4. entry \in Injection(Pairs, Common)
    BY <2>1, <2>2 DEF Injection, IsInjective
  <2>5. entry \in Surjection(Pairs, Common)
    BY <2>1, <2>3 DEF Surjection
  <2> QED
    BY <1>2, <2>4, <2>5, FS_Surjection
<1> QED
  BY <1>2, <1>3, <1>4

TurnoverInv == sameEntries \in Nat /\ firstUpdate \in BOOLEAN

LEMMA StepCountsSurvivors ==
    ASSUME Tables!DataInv, Tables!DataInv', MainOK, TurnoverInv,
           [SimulationNext]_simulationVars
    PROVE  /\ TurnoverInv'
           /\ Tables!TableInv /\ Tables!TableInv' /\ Data!ByFrequency
                /\ options.infiniteFreq # "other"
                /\ firstUpdate /\ updateDue /\ ~updateDue' =>
                  sameEntries' - sameEntries
                    = Cardinality(Range(precompressionTable)
                                    \cap Range(precompressionTable'))
PROOF
<1>1. CASE Precompress
  <2>1. PICK old, new : old = precompressionTable /\ new = precompressionTable'
    OBVIOUS
  <2>2. old \in Seq(Tables!Data) /\ new \in Seq(Tables!Data)
    BY <2>1 DEF Tables!DataInv, Tables!LinesInv
  <2>3. /\ SameEntries(old, new) \in Nat
        /\ Tables!Distinct(old) /\ Tables!Distinct(new) =>
             SameEntries(old, new) = Cardinality(Range(old) \cap Range(new))
    BY <2>2, SurvivorsArePairs
  <2>4. Entries \in Nat
    BY TraceAssumption DEF Data!FrequencyAssumption
  <2>5. Unchanged(old, new) \in Nat
    BY <2>3, <2>4 DEF Unchanged
  <2>6. /\ firstUpdate => sameEntries' = sameEntries + Unchanged(old, new)
        /\ ~firstUpdate => sameEntries' = sameEntries
        /\ firstUpdate' = TRUE
    BY <1>1, <2>1 DEF Precompress
  <2>7. TurnoverInv'
    BY <2>5, <2>6 DEF TurnoverInv
  <2>8. ASSUME Tables!TableInv, Tables!TableInv', Data!ByFrequency,
               options.infiniteFreq # "other", firstUpdate
        PROVE  sameEntries' - sameEntries = Cardinality(Range(old) \cap Range(new))
    <3>1. UNCHANGED options
      BY <1>1 DEF Precompress, Data!updatePrecompressTable, Data!UpdateInfinite,
             Data!UpdateFinite, Data!UpdateNeither, Data!UpdateKmeans, Data!Install,
             Data!Die
    <3>2. Tables!Distinct(old) /\ Tables!Distinct(new)
      BY <2>1, <2>8, <3>1 DEF Tables!TableInv, Tables!ByFrequency, Data!ByFrequency,
             Tables!Distinct
    <3>3. Unchanged(old, new) = Cardinality(Range(old) \cap Range(new))
      BY <2>3, <2>8, <3>2 DEF Unchanged
    <3>4. PICK n : n = Unchanged(old, new)
      OBVIOUS
    <3>5. n \in Nat /\ sameEntries \in Nat /\ sameEntries' = sameEntries + n
      BY <2>5, <2>6, <2>8, <3>4 DEF TurnoverInv
    <3>6. sameEntries' - sameEntries = n
      BY <3>5
    <3> QED
      BY <3>3, <3>4, <3>6
  <2> QED
    BY <2>1, <2>7, <2>8
<1>2. CASE ~Precompress
  <2>1. UNCHANGED turnover
    BY <1>2 DEF SimulationNext, Simulate, Skip, simulationVars
  <2>2. updateDue => UNCHANGED updateDue
    BY <1>2 DEF SimulationNext, Simulate, Skip, MayRead, simulationVars
  <2> QED
    BY <2>1, <2>2 DEF turnover, TurnoverInv
<1> QED
  BY <1>1, <1>2

\* The share of changed entries that main averages is that of the entries which
\* are no longer in the table, counted once each.
THEOREM TurnoverAlwaysCountsSurvivors == SimulationSpec => TurnoverCountsSurvivors
PROOF
<1> DEFINE Counts == Data!ByFrequency /\ options.infiniteFreq # "other"
                       /\ firstUpdate /\ updateDue /\ ~updateDue' =>
                         sameEntries' - sameEntries
                           = Cardinality(Range(precompressionTable)
                                           \cap Range(precompressionTable'))
<1>1. SimulationInit => TurnoverInv
  <2>1. SimulationInit => firstUpdate \in BOOLEAN
    BY DEF SimulationInit
  <2>2. SimulationInit => sameEntries = 0
    BY DEF SimulationInit
  <2>3. SimulationInit => sameEntries \in Nat
    BY <2>2
  <2> QED
    BY <2>1, <2>3 DEF TurnoverInv
<1>2. Tables!DataInv /\ Tables!DataInv' /\ SimulationInv /\ TurnoverInv
        /\ [SimulationNext]_simulationVars => TurnoverInv'
  BY StepCountsSurvivors DEF SimulationInv
<1>3. SimulationSpec => []TurnoverInv
  BY <1>1, <1>2, TablesInvariance, SimulationInvariance, PTL DEF SimulationSpec
<1>4. Tables!DataInv /\ Tables!DataInv' /\ SimulationInv /\ TurnoverInv
        /\ Tables!TableInv /\ Tables!TableInv' /\ [SimulationNext]_simulationVars
        => [Counts]_simulationVars
  BY StepCountsSurvivors DEF SimulationInv
<1> QED
  BY <1>3, <1>4, TablesInvariance, EntriesInvariance, SimulationInvariance, PTL
     DEF SimulationSpec, TurnoverCountsSurvivors
=============================================================================
