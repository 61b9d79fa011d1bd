--------------------------- MODULE SystemTheorems ---------------------------
(***************************************************************************)
(* What the parts of System return and preserve: the decomposition of an   *)
(* address, the page table of virtToPhys, and the counters.  The proofs    *)
(* about the systems built on System cite these facts by name.             *)
(***************************************************************************)
EXTENDS System, FiniteSetTheorems, TLAPS

----------------------------------------------------------------------------
(* The address arithmetic.                                                 *)

LEMMA LineParts ==
    ASSUME NEW line \in Lines
    PROVE  /\ SetOf(line) \in Sets
           /\ TagOf(line) \in Tags
           /\ SetOf(line) + TagOf(line) = line
PROOF
<1>1. line \in Int /\ NumSets \in Nat \ {0}
  BY SystemAssumption DEF Lines
<1>2. SetOf(line) \in Sets
  BY <1>1 DEF SetOf, Sets
<1> QED
  BY <1>1, <1>2 DEF Tags, TagOf, Sets

\* A line lies in a page of the address space, at an offset inside the page.
LEMMA PageParts ==
    ASSUME NEW line \in Lines
    PROVE  /\ PageOf(line) \in Pages
           /\ line % LinesPerPage \in 0 .. LinesPerPage - 1
PROOF
<1> DEFINE q == line \div LinesPerPage
           r == line % LinesPerPage
<1>1. /\ line \in Nat /\ LinesPerPage \in Nat \ {0} /\ NumPages \in Nat \ {0}
      /\ line < NumPages * LinesPerPage
  BY SystemAssumption DEF Lines
<1>2. q \in Int /\ r \in 0 .. LinesPerPage - 1 /\ line = LinesPerPage * q + r
  BY <1>1
<1> HIDE DEF q, r
<1>3. q >= 0
  BY <1>1, <1>2
<1>4. q < NumPages
  BY <1>1, <1>2
<1> QED
  BY <1>1, <1>2, <1>3, <1>4 DEF PageOf, Pages, q, r

\* A page and an offset make a line of the address space.
LEMMA LineOfPage ==
    ASSUME NEW page \in Pages, NEW offset \in 0 .. LinesPerPage - 1
    PROVE  page * LinesPerPage + offset \in Lines
PROOF
<1>1. LinesPerPage \in Nat \ {0} /\ NumPages \in Nat \ {0}
  BY SystemAssumption
<1>2. page \in Nat /\ page + 1 <= NumPages
  BY <1>1 DEF Pages
<1>3. (page + 1) * LinesPerPage <= NumPages * LinesPerPage
  BY <1>1, <1>2
<1>4. page * LinesPerPage + offset < (page + 1) * LinesPerPage
  BY <1>1, <1>2
<1> QED
  BY <1>1, <1>2, <1>3, <1>4 DEF Lines

----------------------------------------------------------------------------
(* The page table.                                                         *)

\* Every mapped page has a physical page of its own, and nextPage counts them:
\* so a page that is not mapped yet always finds a physical page.
PageTableOK ==
    /\ DOMAIN virtToPhysMap \subseteq Pages
    /\ \A p \in DOMAIN virtToPhysMap : virtToPhysMap[p] \in 0 .. nextPage - 1
    /\ nextPage = Cardinality(DOMAIN virtToPhysMap)
    /\ TranslationInjective

LEMMA PageTableRange ==
    ASSUME PageTableOK
    PROVE  /\ IsFiniteSet(DOMAIN virtToPhysMap)
           /\ nextPage \in 0 .. NumPages
           /\ \A p \in Pages \ DOMAIN virtToPhysMap : nextPage \in Pages
           /\ \A p \in DOMAIN virtToPhysMap : virtToPhysMap[p] \in Pages
PROOF
<1> DEFINE mapped == DOMAIN virtToPhysMap
<1>1. NumPages \in Nat \ {0}
  BY SystemAssumption
<1>2. IsFiniteSet(Pages) /\ Cardinality(Pages) = NumPages
  <2>1. 0 \in Int /\ NumPages - 1 \in Int
    BY <1>1
  <2> QED
    BY <1>1, <2>1, FS_Interval DEF Pages
<1>3. mapped \in SUBSET Pages
  BY DEF PageTableOK
<1>4. /\ IsFiniteSet(mapped) /\ Cardinality(mapped) <= NumPages
      /\ Cardinality(mapped) = NumPages => mapped = Pages
  <2> HIDE DEF mapped
  <2> QED
    BY <1>2, <1>3, FS_Subset
<1>5. nextPage = Cardinality(mapped) /\ nextPage \in Nat
  BY <1>4, FS_CardinalityType DEF PageTableOK
<1>6. nextPage \in 0 .. NumPages
  BY <1>1, <1>4, <1>5
<1>7. \A p \in Pages \ mapped : nextPage \in Pages
  BY <1>1, <1>4, <1>5 DEF Pages
<1>8. \A p \in mapped : virtToPhysMap[p] \in Pages
  BY <1>1, <1>6 DEF PageTableOK, Pages
<1> QED
  BY <1>4, <1>6, <1>7, <1>8

\* A translated address stays inside the address space.
LEMMA PhysLineType ==
    ASSUME PageTableOK, NEW line \in Lines
    PROVE  PhysLine(line) \in Lines
PROOF
<1> DEFINE page == PageOf(line)
           phys == IF IsMapped(page) THEN virtToPhysMap[page] ELSE nextPage
<1>1. page \in Pages /\ line % LinesPerPage \in 0 .. LinesPerPage - 1
  BY PageParts
<1>2. phys \in Pages
  BY <1>1, PageTableRange DEF IsMapped
<1>3. phys * LinesPerPage + (line % LinesPerPage) \in Lines
  <2> HIDE DEF phys
  <2> QED
    BY <1>1, <1>2, LineOfPage
<1> QED
  BY <1>3 DEF PhysLine

\* virtToPhys keeps the table in order: it extends it by the next physical page
\* or leaves it alone.
LEMMA VirtToPhysKeepsPageTable ==
    ASSUME PageTableOK, NEW line \in Lines, virtToPhys(line)
    PROVE  PageTableOK'
PROOF
<1> DEFINE page == PageOf(line)
<1>1. page \in Pages
  BY PageParts
<1>2. CASE DoAddrTrans /\ ~IsMapped(page)
  <2>1. /\ virtToPhysMap' =
             [p \in DOMAIN virtToPhysMap \cup {page} |->
                IF p = page THEN nextPage ELSE virtToPhysMap[p]]
        /\ nextPage' = nextPage + 1
        /\ page \notin DOMAIN virtToPhysMap
    BY <1>2 DEF virtToPhys, IsMapped
  <2> HIDE DEF page
  <2>2. DOMAIN virtToPhysMap' = DOMAIN virtToPhysMap \cup {page}
    BY <2>1
  <2>3. /\ IsFiniteSet(DOMAIN virtToPhysMap)
        /\ nextPage = Cardinality(DOMAIN virtToPhysMap)
        /\ nextPage \in Nat
    BY PageTableRange DEF PageTableOK
  <2>4. Cardinality(DOMAIN virtToPhysMap') = nextPage + 1
    BY <2>1, <2>2, <2>3, FS_AddElement
  <2>5. \A p \in DOMAIN virtToPhysMap' : virtToPhysMap'[p] =
           IF p = page THEN nextPage ELSE virtToPhysMap[p]
    BY <2>1, <2>2
  <2>6. \A p \in DOMAIN virtToPhysMap :
           virtToPhysMap[p] \in 0 .. nextPage - 1
    BY DEF PageTableOK
  <2>7. \A p \in DOMAIN virtToPhysMap' :
           virtToPhysMap'[p] \in 0 .. nextPage' - 1
    BY <2>1, <2>2, <2>3, <2>5, <2>6
  <2>8. TranslationInjective'
    BY <2>2, <2>3, <2>5, <2>6 DEF TranslationInjective, PageTableOK
  <2> QED
    BY <1>1, <2>1, <2>2, <2>4, <2>7, <2>8 DEF PageTableOK
<1>3. CASE ~(DoAddrTrans /\ ~IsMapped(page))
  BY <1>3 DEF virtToPhys, PageTableOK, TranslationInjective
<1> QED
  BY <1>2, <1>3

----------------------------------------------------------------------------
(* The statistics and the lines seen.                                      *)

StatsOK == stats \in [StatNames -> 0 .. CounterMod - 1]

LEMMA CountKeepsStats ==
    ASSUME StatsOK, NEW names, Count(names)
    PROVE  StatsOK'
PROOF
<1>1. CounterMod \in Nat \ {0}
  BY SystemAssumption
<1>2. \A n \in StatNames : (stats[n] + 1) % CounterMod \in 0 .. CounterMod - 1
  BY <1>1 DEF StatsOK
<1> QED
  BY <1>2 DEF StatsOK, Count

\* Division with remainder has one result.
LEMMA RemainderIsUnique ==
    ASSUME NEW m \in Nat \ {0}, NEW q \in Int, NEW r \in 0 .. m - 1
    PROVE  (m * q + r) % m = r
PROOF
<1> DEFINE x == m * q + r
           p == x \div m
           s == x % m
<1>1. x \in Int /\ p \in Int /\ s \in 0 .. m - 1 /\ x = m * p + s
  OBVIOUS
<1>2. x = m * q + r
  OBVIOUS
<1> HIDE DEF x, p, s
<1>3. CASE p < q
  <2>1. m * q >= m * p + m
    BY <1>1, <1>3
  <2> QED
    BY <1>1, <1>2, <2>1
<1>4. CASE p > q
  <2>1. m * p >= m * q + m
    BY <1>1, <1>4
  <2> QED
    BY <1>1, <1>2, <2>1
<1>5. CASE p = q
  BY <1>1, <1>2, <1>5 DEF s, x
<1> QED
  BY <1>1, <1>3, <1>4, <1>5

\* A set and a tag are the parts of one line, their sum (cf. LineParts).
LEMMA PartsOfSum ==
    ASSUME NEW s \in Sets, NEW t \in Tags
    PROVE  SetOf(s + t) = s /\ TagOf(s + t) = t
PROOF
<1>1. NumSets \in Nat \ {0} /\ s \in 0 .. NumSets - 1
  BY SystemAssumption DEF Sets
<1>2. PICK line \in Lines : t = line - (line % NumSets)
  BY DEF Tags, TagOf, SetOf
<1> DEFINE q == line \div NumSets
<1>3. q \in Int /\ line = NumSets * q + (line % NumSets)
  BY <1>1, <1>2 DEF Lines
<1> HIDE DEF q
<1>4. line \in Int /\ line % NumSets \in Int
  BY <1>1 DEF Lines
<1>5. t \in Int /\ s + t = NumSets * q + s
  BY <1>1, <1>2, <1>3, <1>4
<1>6. (s + t) % NumSets = s
  BY <1>1, <1>3, <1>5, RemainderIsUnique
<1>7. (s + t) - s = t
  BY <1>1, <1>5
<1> QED
  BY <1>6, <1>7 DEF SetOf, TagOf

\* The remainder of the next number, and of the number one modulus further.
LEMMA NextRemainder ==
    ASSUME NEW m \in Nat \ {0}, NEW x \in Nat
    PROVE  /\ (x + 1) % m = ((x % m) + 1) % m
           /\ (x + m) % m = x % m
PROOF
<1> DEFINE q == x \div m
           r == x % m
<1>1. q \in Int /\ r \in 0 .. m - 1 /\ x = m * q + r
  OBVIOUS
<1> HIDE DEF q, r
<1>2. (x + m) % m = r
  <2>1. q + 1 \in Int /\ x + m = m * (q + 1) + r
    BY <1>1
  <2> QED
    BY <1>1, <2>1, RemainderIsUnique
<1>3. CASE r + 1 < m
  <2>1. r + 1 \in 0 .. m - 1 /\ x + 1 = m * q + (r + 1)
    BY <1>1, <1>3
  <2>2. (x + 1) % m = r + 1
    BY <1>1, <2>1, RemainderIsUnique
  <2>3. r + 1 = m * 0 + (r + 1)
    BY <2>1
  <2>4. (r + 1) % m = r + 1
    BY <2>1, <2>3, RemainderIsUnique
  <2> QED
    BY <1>2, <2>2, <2>4 DEF r
<1>4. CASE r + 1 = m
  <2>1. 0 \in 0 .. m - 1 /\ q + 1 \in Int /\ x + 1 = m * (q + 1) + 0
    BY <1>1, <1>4
  <2>2. (x + 1) % m = 0
    BY <1>1, <2>1, RemainderIsUnique
  <2>3. 1 \in Int /\ r + 1 = m * 1 + 0
    BY <1>1, <1>4
  <2>4. (r + 1) % m = 0
    BY <2>1, <2>3, RemainderIsUnique
  <2> QED
    BY <1>2, <2>2, <2>4 DEF r
<1> QED
  BY <1>1, <1>3, <1>4

\* Counting an access and one of the parts that accesses are made of keeps their
\* sum equal to the accesses, modulo m.
LEMMA CountedOnce ==
    ASSUME NEW m \in Nat \ {0}, NEW part \in 0 .. m - 1, NEW rest \in Nat,
           NEW n, (part + rest) % m = n
    PROVE  (((part + 1) % m) + rest) % m = (n + 1) % m
PROOF
<1> DEFINE x == part + rest
<1>1. x \in Nat /\ x % m = n
  OBVIOUS
<1>2. (x + 1) % m = (n + 1) % m
  BY <1>1, NextRemainder
<1>3. CASE part + 1 < m
  <2>1. part + 1 \in 0 .. m - 1 /\ 0 \in Int /\ part + 1 = m * 0 + (part + 1)
    BY <1>3
  <2>2. (part + 1) % m = part + 1
    BY <2>1, RemainderIsUnique
  <2>3. part + 1 + rest = x + 1
    OBVIOUS
  <2> QED
    BY <1>2, <2>2, <2>3
<1>4. CASE part + 1 = m
  <2>1. 0 \in 0 .. m - 1 /\ 1 \in Int /\ part + 1 = m * 1 + 0
    BY <1>4
  <2>2. (part + 1) % m = 0
    BY <2>1, RemainderIsUnique
  <2>3. 0 + rest = rest /\ x + 1 = rest + m
    BY <1>4
  <2>4. (rest + m) % m = rest % m
    BY NextRemainder
  <2> QED
    BY <1>2, <2>2, <2>3, <2>4
<1> QED
  BY <1>3, <1>4

LEMMA CheckCompulsoryKeepsLines ==
    ASSUME seenLines \subseteq Lines, NEW line \in Lines, NEW accessType,
           checkCompulsory(line, accessType)
    PROVE  seenLines' \subseteq Lines
BY DEF checkCompulsory

\* The parts make up the type of System.
LEMMA SystemTypeParts ==
    ASSUME PageTableOK, StatsOK, seenLines \subseteq Lines
    PROVE  SystemTypeOK
BY PageTableRange DEF SystemTypeOK, StatsOK, PageTableOK

LEMMA SystemInitOK ==
    ASSUME SystemInit
    PROVE  PageTableOK /\ StatsOK /\ seenLines \subseteq Lines
PROOF
<1>1. DOMAIN virtToPhysMap = {} /\ nextPage = 0
  BY DEF SystemInit
<1>2. PageTableOK
  BY <1>1, FS_EmptySet DEF PageTableOK, TranslationInjective
<1> QED
  BY <1>2, SystemAssumption DEF SystemInit, StatsOK
=============================================================================
