------------------------------- MODULE System -------------------------------
(***************************************************************************)
(* The base class System (system.h, system.cpp): the decomposition of an   *)
(* address, the virtual-to-physical page table, the set of lines already   *)
(* seen, and the statistics.  SingleCacheSystem and MultiCacheSystem       *)
(* extend it.                                                              *)
(*                                                                         *)
(* An address is abstracted to its line number (address >> setShift); the  *)
(* bits inside a line are masked off by every use of it.  A tag is the     *)
(* line number with the set bits cleared, as tagMask leaves it, so that    *)
(* set + tag is the line again.                                            *)
(***************************************************************************)
EXTENDS Integers, FiniteSets

CONSTANTS
    NumSets,         \* num_lines / assoc
    NumPages,        \* pages of the address space
    LinesPerPage,    \* (pageMask's complement + 1) / line_size
    CounterMod,      \* the counters wrap modulo CounterMod (the code: 2^64)
    CountCompulsory, \* countCompulsory
    DoAddrTrans      \* doAddrTrans

ASSUME SystemAssumption ==
    /\ NumSets \in Nat \ {0} /\ NumPages \in Nat \ {0}
    /\ LinesPerPage \in Nat \ {0} /\ CounterMod \in Nat \ {0}
    /\ CountCompulsory \in BOOLEAN /\ DoAddrTrans \in BOOLEAN

\* The masks of the constructor and of misc.h select "line % NumSets" and
\* "line \div LinesPerPage" only when both numbers are powers of two.
ASSUME MaskAssumption ==
    /\ \E k \in 0 .. NumSets : NumSets = 2^k
    /\ \E k \in 0 .. LinesPerPage : LinesPerPage = 2^k

VARIABLES
    virtToPhysMap,   \* virtual page |-> physical page
    nextPage,        \* the next physical page to hand out
    seenLines,       \* the lines that were accessed before
    stats            \* the SystemStats

systemVars == <<virtToPhysMap, nextPage, seenLines, stats>>

AccessType == {"Read", "Write", "Prefetch"}

Lines == 0 .. NumPages * LinesPerPage - 1
Pages == 0 .. NumPages - 1
Sets  == 0 .. NumSets - 1

SetOf(line) == line % NumSets
TagOf(line) == line - SetOf(line)
Tags == {TagOf(line) : line \in Lines}

PageOf(line) == line \div LinesPerPage

\* All counters but "prefetched", which belongs to Prefetch.
StatNames == {"accesses", "hits", "local_reads", "remote_reads",
              "othercache_reads", "local_writes", "remote_writes",
              "compulsory"}

SystemInit ==
    /\ virtToPhysMap = << >>
    /\ nextPage = 0
    /\ seenLines = {}
    /\ stats = [n \in StatNames |-> 0]

SystemTypeOK ==
    /\ DOMAIN virtToPhysMap \subseteq Pages
    /\ \A p \in DOMAIN virtToPhysMap : virtToPhysMap[p] \in Pages
    /\ nextPage \in 0 .. NumPages
    /\ seenLines \subseteq Lines
    /\ stats \in [StatNames -> 0 .. CounterMod - 1]

----------------------------------------------------------------------------

IsMapped(page) == page \in DOMAIN virtToPhysMap

\* The line of the physical address that virtToPhys returns for this line.
PhysLine(line) ==
    IF ~DoAddrTrans THEN line
    ELSE LET page == PageOf(line)
             phys == IF IsMapped(page) THEN virtToPhysMap[page] ELSE nextPage
         IN phys * LinesPerPage + (line % LinesPerPage)

\* Mutant: nextPage is not incremented.
virtToPhysSamePage(line) ==
    /\ virtToPhysMap' = [p \in DOMAIN virtToPhysMap \cup {PageOf(line)} |->
                           IF IsMapped(p) THEN virtToPhysMap[p] ELSE nextPage]
    /\ UNCHANGED nextPage

\* Mutant: nextPage is incremented for pages that are mapped already, too.
virtToPhysEveryTime(line) ==
    IF DoAddrTrans
    THEN /\ virtToPhysMap' =
              [p \in DOMAIN virtToPhysMap \cup {PageOf(line)} |->
                 IF IsMapped(p) THEN virtToPhysMap[p] ELSE nextPage]
         /\ nextPage' = nextPage + 1
    ELSE UNCHANGED <<virtToPhysMap, nextPage>>

\* What virtToPhys does to the page table on the way.
virtToPhys(line) ==
    IF DoAddrTrans /\ ~IsMapped(PageOf(line))
    THEN /\ virtToPhysMap' =
              [p \in DOMAIN virtToPhysMap \cup {PageOf(line)} |->
                 IF p = PageOf(line) THEN nextPage ELSE virtToPhysMap[p]]
         /\ nextPage' = nextPage + 1
    ELSE UNCHANGED <<virtToPhysMap, nextPage>>

IsCompulsory(line, accessType) ==
    CountCompulsory /\ accessType # "Prefetch" /\ line \notin seenLines

\* Mutant: the line is counted but not remembered.
checkCompulsoryForgotten(line, accessType) == UNCHANGED seenLines

checkCompulsory(line, accessType) ==
    seenLines' = IF IsCompulsory(line, accessType)
                 THEN seenLines \cup {line} ELSE seenLines

\* Increments the counters in names; every caller passes each name once.
Count(names) ==
    stats' = [n \in StatNames |->
                IF n \in names THEN (stats[n] + 1) % CounterMod ELSE stats[n]]

\* What a demand access counts before hit and miss are told apart.
AccessStats(line, accessType) ==
    (IF accessType = "Prefetch" THEN {} ELSE {"accesses"})
      \cup (IF IsCompulsory(line, accessType) THEN {"compulsory"} ELSE {})

----------------------------------------------------------------------------
(* Properties of the state of System alone.                                *)

\* Two virtual pages never share a physical page: virtToPhys (system.cpp) hands
\* out every physical page once, so no two addresses alias once translated.
TranslationInjective ==
    \A p, q \in DOMAIN virtToPhysMap :
        virtToPhysMap[p] = virtToPhysMap[q] => p = q

=============================================================================
