--------------------------------- MODULE Bdi ---------------------------------
(***************************************************************************)
(* The compressor (compression.cpp): bdi returns the bytes that a line     *)
(* takes when it is compressed with base-delta-immediate encoding.         *)
(*                                                                         *)
(* A line is read as values of 8, of 4 or of 2 bytes, the most significant *)
(* byte first.  A value is encoded as a delta, its last bytes, if its      *)
(* other bytes are all zero (the base is zero) or are those of the base,   *)
(* the first value whose other bytes are not all zero.  The code subtracts *)
(* bytes, never values, and asks nothing of the differences but whether    *)
(* they are zero.                                                          *)
(***************************************************************************)
EXTENDS Integers, FiniteSetsExt

CONSTANT
    LineBytes        \* the bytes of a line (the code: 64)

ASSUME LineBytesAssumption == LineBytes \in Nat \ {0} /\ LineBytes % 8 = 0

Positions == 1 .. LineBytes

----------------------------------------------------------------------------
(* The values of a line.                                                   *)

Values(size) == 1 .. LineBytes \div size

\* Byte j of value i: values8, values4 and values2.
ByteOf(line, size, i, j) == line[(i - 1) * size + j]

zeroes(line) == \A j \in Positions : line[j] = 0

\* The 8-byte values are all the same.
pattern(line) ==
    \A i \in Values(8), j \in 1 .. 8 :
        ByteOf(line, 8, i, j) = ByteOf(line, 8, 1, j)

----------------------------------------------------------------------------
(* The two bases.                                                          *)

\* The bytes of a value that a delta does not keep.
High(size, delta) == 1 .. size - delta

\* zero_flag81 to zero_flag21: the zero base will do for value i.
zero_flag(line, size, delta, i) ==
    \A j \in High(size, delta) : ByteOf(line, size, i, j) - 0 = 0

\* The values that need the other base, section by section of the code; the
\* first of them is that base.
nonZeroValues8(line, delta) == {i \in Values(8) : ~zero_flag(line, 8, delta, i)}
nonZeroValues4(line, delta) == {i \in Values(4) : ~zero_flag(line, 4, delta, i)}
nonZeroValues2(line, delta) == {i \in Values(2) : ~zero_flag(line, 2, delta, i)}

\* Mutant: the base has to have the bytes in common with the second value only.
FitBaseOnce(line, size, delta, values) ==
    LET base == Min(values)
    IN  values # {} =>
            \A i \in values : i <= base + 1 =>
                \A j \in High(size, delta) :
                    ByteOf(line, size, base, j) - ByteOf(line, size, i, j) = 0

\* The checks of the differences: every value but the base against the base.
FitBase(line, size, delta, values) ==
    LET base == Min(values)
    IN  values # {} =>
            \A i \in values \ {base}, j \in High(size, delta) :
                ByteOf(line, size, base, j) - ByteOf(line, size, i, j) = 0

flag8(line, delta) == FitBase(line, 8, delta, nonZeroValues8(line, delta))
flag4(line, delta) == FitBase(line, 4, delta, nonZeroValues4(line, delta))
flag2(line, delta) == FitBase(line, 2, delta, nonZeroValues2(line, delta))

----------------------------------------------------------------------------
(* The size.                                                               *)

\* A value of the base and a delta for every value: 16, 24, 40, 20, 36 and 34
\* bytes of a line of 64.
Encoded(size, delta) == size + (LineBytes \div size) * delta

\* Mutant: "8-byte / delta = 2-byte" is looked for before "4-byte / delta = 1-byte".
bdiByBase(line) ==
    IF zeroes(line)        THEN 1
    ELSE IF pattern(line)  THEN 8
    ELSE IF flag8(line, 1) THEN Encoded(8, 1)
    ELSE IF flag8(line, 2) THEN Encoded(8, 2)
    ELSE IF flag4(line, 1) THEN Encoded(4, 1)
    ELSE IF flag2(line, 1) THEN Encoded(2, 1)
    ELSE IF flag4(line, 2) THEN Encoded(4, 2)
    ELSE IF flag8(line, 4) THEN Encoded(8, 4)
    ELSE LineBytes

\* "Choosing the best combination": the first that fits, in this order.
bdi(line) ==
    IF zeroes(line)        THEN 1
    ELSE IF pattern(line)  THEN 8
    ELSE IF flag8(line, 1) THEN Encoded(8, 1)
    ELSE IF flag4(line, 1) THEN Encoded(4, 1)
    ELSE IF flag8(line, 2) THEN Encoded(8, 2)
    ELSE IF flag2(line, 1) THEN Encoded(2, 1)
    ELSE IF flag4(line, 2) THEN Encoded(4, 2)
    ELSE IF flag8(line, 4) THEN Encoded(8, 4)
    ELSE LineBytes

----------------------------------------------------------------------------
(* What bdi is to return: the properties of a line and the size found.     *)

Encodings == {<<8, 1>>, <<8, 2>>, <<8, 4>>, <<4, 1>>, <<4, 2>>, <<2, 1>>}

\* The values i and k differ in their last bytes at most.
SameHigh(line, size, delta, i, k) ==
    \A j \in High(size, delta) : ByteOf(line, size, i, j) = ByteOf(line, size, k, j)

\* Some base serves every value that the zero base does not.
HasBase(line, size, delta) ==
    \E base \in Values(size) : \A i \in Values(size) :
        zero_flag(line, size, delta, i) \/ SameHigh(line, size, delta, i, base)

SizesOf(line) ==
    {LineBytes}
      \cup {Encoded(e[1], e[2]) :
              e \in {f \in Encodings : HasBase(line, f[1], f[2])}}
      \cup (IF zeroes(line) THEN {1} ELSE {})
      \cup (IF pattern(line) THEN {8} ELSE {})

\* "Choosing the best combination" (compression.cpp:696): the size is the least
\* of any encoding that the line admits with any base, although the code tries
\* one base per encoding, the first value that is not near zero, and stops at the
\* first encoding that fits.
IsSmallest(line, space) ==
    space \in SizesOf(line) /\ \A size \in SizesOf(line) : space <= size
=============================================================================
