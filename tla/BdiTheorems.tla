---------------------------- MODULE BdiTheorems ----------------------------
(***************************************************************************)
(* The size that bdi (compression.cpp) returns is the best one for every   *)
(* line of 32 bytes or more, whatever its bytes are.                       *)
(***************************************************************************)
EXTENDS Bdi, WellFoundedInduction, TLAPS

\* The first of the values that are to be near the base exists, as the code
\* assumes when it takes it for the base.
LEMMA LeastOfSome ==
    ASSUME NEW n \in Nat, NEW S \in SUBSET (1 .. n), S # {}
    PROVE  Min(S) \in S /\ \A y \in S : Min(S) <= y
PROOF
<1> DEFINE less == OpToRel(<, Nat)
<1>1. \A x, y \in Nat : <<y, x>> \in less <=> y < x
  BY DEF OpToRel
<1>2. IsWellFoundedOn(less, Nat)
  BY NatLessThanWellFounded
<1>3. \A y \in S : y \in Nat
  OBVIOUS
<1> HIDE DEF less
<1>4. PICK x \in S : \A y \in S : ~(<<y, x>> \in less)
  BY <1>2, <1>3, WFMin
<1>5. \A y \in S : ~(y < x)
  BY <1>1, <1>3, <1>4
<1>6. ASSUME NEW y \in S PROVE x <= y
  <2>1. x \in Nat /\ y \in Nat
    BY <1>3
  <2> QED
    BY <1>5, <2>1
<1> QED
  BY <1>6 DEF Min

\* A byte of a value is a byte of the line.
LEMMA BytesAreIntegers ==
    ASSUME NEW line \in [Positions -> Int], NEW size \in {2, 4, 8},
           NEW delta \in Nat, NEW i \in Values(size), NEW j \in High(size, delta)
    PROVE  ByteOf(line, size, i, j) \in Int
PROOF
<1>1. (i - 1) * size + j \in Positions
  <2>1. CASE size = 2
    BY <2>1, LineBytesAssumption DEF Positions, Values, High
  <2>2. CASE size = 4
    BY <2>2, LineBytesAssumption DEF Positions, Values, High
  <2>3. CASE size = 8
    BY <2>3, LineBytesAssumption DEF Positions, Values, High
  <2> QED
    BY <2>1, <2>2, <2>3
<1> QED
  BY <1>1 DEF ByteOf

\* Trying one base is enough: the first value that the zero base does not serve
\* will do if any value will, since each of them has the bytes of the base.
LEMMA FirstBaseIsEnough ==
    ASSUME NEW line \in [Positions -> Int], NEW size \in {2, 4, 8},
           NEW delta \in Nat, NEW values,
           values = {i \in Values(size) : ~zero_flag(line, size, delta, i)}
    PROVE  FitBase(line, size, delta, values) <=> HasBase(line, size, delta)
PROOF
<1>1. LineBytes \div size \in Nat /\ LineBytes \div size >= 1
  BY LineBytesAssumption
<1>2. values \subseteq 1 .. LineBytes \div size
  BY DEF Values
<1>3. CASE values = {}
  <2>1. FitBase(line, size, delta, values)
    BY <1>3 DEF FitBase
  <2>2. 1 \in Values(size)
    BY <1>1 DEF Values
  <2>3. \A i \in Values(size) : zero_flag(line, size, delta, i)
    BY <1>3
  <2> QED
    BY <2>1, <2>2, <2>3 DEF HasBase
<1>4. CASE values # {}
  <2> DEFINE base == Min(values)
             Byte(i, j) == ByteOf(line, size, i, j)
  <2>1. base \in values /\ base \in Values(size)
    BY <1>1, <1>2, <1>4, LeastOfSome
  <2>2. FitBase(line, size, delta, values) <=>
          \A i \in values \ {base}, j \in High(size, delta) :
              Byte(base, j) - Byte(i, j) = 0
    BY <1>4 DEF FitBase
  <2>3. \A i \in Values(size), j \in High(size, delta) : Byte(i, j) \in Int
    BY BytesAreIntegers
  <2> HIDE DEF base
  <2>4. FitBase(line, size, delta, values) <=>
          \A i \in values, j \in High(size, delta) : Byte(i, j) = Byte(base, j)
    <3> HIDE DEF Byte
    <3>1. \A i \in values, j \in High(size, delta) :
            Byte(base, j) - Byte(i, j) = 0 <=> Byte(i, j) = Byte(base, j)
      BY <2>1, <2>3
    <3> QED
      BY <2>2, <3>1
  <2>5. ASSUME FitBase(line, size, delta, values)
        PROVE  HasBase(line, size, delta)
    BY <2>1, <2>4, <2>5 DEF HasBase, SameHigh
  <2>6. ASSUME HasBase(line, size, delta)
        PROVE  FitBase(line, size, delta, values)
    <3>1. PICK other \in Values(size) : \A i \in values :
            SameHigh(line, size, delta, i, other)
      BY <2>6 DEF HasBase
    <3> QED
      BY <2>1, <2>4, <3>1 DEF SameHigh
  <2> QED
    BY <2>5, <2>6
<1> QED
  BY <1>3, <1>4

\* The flags that bdi chooses by say whether the line admits the encoding.
LEMMA FlagsAreRight ==
    ASSUME NEW line \in [Positions -> Int], NEW delta \in Nat
    PROVE  /\ flag8(line, delta) <=> HasBase(line, 8, delta)
           /\ flag4(line, delta) <=> HasBase(line, 4, delta)
           /\ flag2(line, delta) <=> HasBase(line, 2, delta)
BY FirstBaseIsEnough
   DEF flag8, flag4, flag2, nonZeroValues8, nonZeroValues4, nonZeroValues2

\* From 32 bytes on the order in which bdi tries the encodings is the order of
\* their sizes.
LEMMA OrderOfSizes ==
    ASSUME LineBytes >= 32
    PROVE  /\ 8 <= Encoded(8, 1)
           /\ Encoded(8, 1) <= Encoded(4, 1) /\ Encoded(4, 1) <= Encoded(8, 2)
           /\ Encoded(8, 2) <= Encoded(2, 1) /\ Encoded(2, 1) <= Encoded(4, 2)
           /\ Encoded(4, 2) <= Encoded(8, 4) /\ Encoded(8, 4) <= LineBytes
           /\ \A e \in Encodings : Encoded(e[1], e[2]) \in Nat
BY LineBytesAssumption DEF Encoded, Encodings

\* bdi returns the least size of any encoding that the line admits with any
\* base, for every line (compression.cpp:696, "Choosing the best combination").
THEOREM BdiReturnsSmallest ==
    ASSUME LineBytes >= 32, NEW line \in [Positions -> Int]
    PROVE  IsSmallest(line, bdi(line))
PROOF
<1>1. /\ flag8(line, 1) <=> HasBase(line, 8, 1)
      /\ flag8(line, 2) <=> HasBase(line, 8, 2)
      /\ flag8(line, 4) <=> HasBase(line, 8, 4)
      /\ flag4(line, 1) <=> HasBase(line, 4, 1)
      /\ flag4(line, 2) <=> HasBase(line, 4, 2)
      /\ flag2(line, 1) <=> HasBase(line, 2, 1)
  BY FlagsAreRight
<1>2. \A size : size \in SizesOf(line) <=>
        \/ size = LineBytes
        \/ size = 1 /\ zeroes(line)
        \/ size = 8 /\ pattern(line)
        \/ size = Encoded(8, 1) /\ flag8(line, 1)
        \/ size = Encoded(8, 2) /\ flag8(line, 2)
        \/ size = Encoded(8, 4) /\ flag8(line, 4)
        \/ size = Encoded(4, 1) /\ flag4(line, 1)
        \/ size = Encoded(4, 2) /\ flag4(line, 2)
        \/ size = Encoded(2, 1) /\ flag2(line, 1)
  <2> DEFINE Fits(size) == \E e \in Encodings :
               HasBase(line, e[1], e[2]) /\ size = Encoded(e[1], e[2])
  <2>1. \A size : size \in SizesOf(line) <=>
          \/ size = LineBytes
          \/ size = 1 /\ zeroes(line)
          \/ size = 8 /\ pattern(line)
          \/ Fits(size)
    BY DEF SizesOf
  <2>2. \A size : Fits(size) <=>
          \/ size = Encoded(8, 1) /\ HasBase(line, 8, 1)
          \/ size = Encoded(8, 2) /\ HasBase(line, 8, 2)
          \/ size = Encoded(8, 4) /\ HasBase(line, 8, 4)
          \/ size = Encoded(4, 1) /\ HasBase(line, 4, 1)
          \/ size = Encoded(4, 2) /\ HasBase(line, 4, 2)
          \/ size = Encoded(2, 1) /\ HasBase(line, 2, 1)
    BY DEF Encodings
  <2> HIDE DEF Fits
  <2> QED
    BY <1>1, <2>1, <2>2
<1>3. bdi(line) \in SizesOf(line)
  BY <1>2 DEF bdi
<1>4. ASSUME NEW size \in SizesOf(line) PROVE bdi(line) <= size
  BY <1>2, OrderOfSizes, LineBytesAssumption DEF bdi, Encodings
<1> QED
  BY <1>3, <1>4 DEF IsSmallest
=============================================================================
