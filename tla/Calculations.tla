---------------------------- MODULE Calculations ----------------------------
(***************************************************************************)
(* The parts of the simulator that keep no state: the size of a compressed *)
(* line, the masks of an address, and the check of the similarity          *)
(* threshold.                                                              *)
(* A behavior is one call of one of them; each property compares the       *)
(* result with a definition that does not follow the code.                 *)
(***************************************************************************)
EXTENDS Bdi, AddressMasks, SequencesExt

CONSTANTS
    CachedLines,     \* the lines to compress
    DataTypes        \* the values of the option -d that main lets through

ASSUME CalculationsAssumption ==
    /\ CachedLines \subseteq [Positions -> Nat]
    /\ \A d \in DataTypes : d \in Nat \ {0} /\ LineBytes % d = 0

\* Mutant: the weights of a group are added up to dataType - 1.
MaxThresholdShort(dataType) ==
    (((dataType - 1) * dataType) \div 2) * (LineBytes \div dataType)

\* The greatest sim_threshold that main lets through.
MaxThreshold(dataType) ==
    ((dataType * (dataType + 1)) \div 2) * (LineBytes \div dataType)

VARIABLES
    call,        \* the function and its arguments
    result       \* what it returned, once it has

vars == <<call, result>>

NotYet == [done |-> FALSE]
Returned(value) == [done |-> TRUE, value |-> value]

Init ==
    /\ call \in [fn : {"bdi"}, line : CachedLines]
               \cup [fn : {"masks"}, g : Geometry, address : Addresses]
               \cup [fn : {"threshold"}, dataType : DataTypes]
    /\ result = NotYet

Return(fn, value) ==
    /\ call.fn = fn /\ ~result.done
    /\ result' = Returned(value)
    /\ UNCHANGED call

CallBdi == Return("bdi", bdi(call.line))

CallMasks ==
    Return("masks", [set |-> SetBits(call.g, call.address),
                     tag |-> TagBits(call.g, call.address)])

CallThreshold == Return("threshold", MaxThreshold(call.dataType))

Next == CallBdi \/ CallMasks \/ CallThreshold

Spec == Init /\ [][Next]_vars

HasReturned(fn) == call.fn = fn /\ result.done

----------------------------------------------------------------------------
(* Properties.                                                             *)

\* "Choosing the best combination" (compression.cpp:696): bdi returns the least
\* size of any encoding that the line admits with any base.  The code tries one
\* base per encoding, the first value that is not near zero, and stops at the
\* first encoding that fits.
BdiIsSmallest == HasReturned("bdi") => IsSmallest(call.line, result.value)

\* The value of a number of "size" bytes, in a radix above every byte used.
Radix == 4
Number(line, size, i) ==
    FoldLeft(LAMBDA sum, j : Radix * sum + ByteOf(line, size, i, j), 0,
             [j \in 1 .. size |-> j])

\* Base-delta encoding of numbers: each value is less than Radix^delta away from
\* zero or from the base.
IsNearBase(line, size, delta) ==
    \E base \in Values(size) : \A i \in Values(size) :
        LET value == Number(line, size, i)
            distance == value - Number(line, size, base)
        IN  \/ value < Radix^delta
            \/ -(Radix^delta) < distance /\ distance < Radix^delta

\* Subtracting byte by byte, without borrow, only misses encodings and never
\* makes one up: a base-delta size that bdi returns is one of the line's numbers.
BdiNeverTooSmall ==
    HasReturned("bdi") =>
        \A e \in Encodings :
            result.value = Encoded(e[1], e[2]) =>
                IsNearBase(call.line, e[1], e[2])

\* Whatever the number of sets, power of two or not, and even if their mask does
\* not fit in an unsigned int, two addresses have the same set and tag exactly if
\* they are in the same line, and the set is one of the cache: nothing aliases and
\* "sets[set]" (cache.cpp) is in range.
LinesToldApart ==
    HasReturned("masks") =>
        /\ result.value.set < call.g.sets
        /\ \A other \in Addresses :
              (SetBits(call.g, other) = result.value.set
                 /\ TagBits(call.g, other) = result.value.tag)
                <=> other \div call.g.lineSize
                      = call.address \div call.g.lineSize

\* For powers of two, and ways whose bytes an unsigned int can count, the masks are
\* the remainder and the quotient that the other modules use.
MasksAreRemainders ==
    HasReturned("masks") /\ IsPowerOfTwo(call.g.sets)
      /\ call.g.sets * call.g.lineSize <= 2^IntBits =>
        LET line == call.address \div call.g.lineSize
            set == line % call.g.sets
        IN  /\ result.value.set = set
            /\ result.value.tag = (line - set) * call.g.lineSize

Table(dataType, bytesIgnored) ==
    INSTANCE FrequencyTable WITH
        DataType <- dataType, BytesIgnored <- bytesIgnored,
        SimThreshold <- 0, Entries <- 1, FrequencyThreshold <- 0

SelfSimilarity(dataType, bytesIgnored) ==
    LET data == [j \in Positions |-> 0]
    IN  Table(dataType, bytesIgnored)!Similarity(data, data)

\* "Similarity threshold is greater than the maximum allowed" (main.cpp:356): the
\* greatest threshold that is let through is the similarity of a line to itself
\* if no bytes are ignored; otherwise no two lines reach it, and a table with
\* such a threshold has no effect.
ThresholdIsReached ==
    HasReturned("threshold") =>
        \A i \in 0 .. call.dataType :
            i = 0 <=> SelfSimilarity(call.dataType, i) = result.value
=============================================================================
