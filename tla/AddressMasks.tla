---------------------------- MODULE AddressMasks ----------------------------
(***************************************************************************)
(* The masks of the class System (system.h, system.cpp): how the bits of   *)
(* an address are divided into tag, set and offset.  The other modules     *)
(* use the line number, % and \div in their place; this module says when   *)
(* that is right, and what becomes of an address when it is not.           *)
(*                                                                         *)
(* Addresses have AddressBits bits instead of 64, an unsigned int IntBits  *)
(* instead of 32.                                                          *)
(***************************************************************************)
EXTENDS Integers, Bitwise

CONSTANTS
    AddressBits,     \* the bits of an address
    IntBits,         \* the bits of an unsigned int
    LineSizes,       \* the line_size, in bytes, under consideration: powers of two
    SetCounts        \* the num_lines / assoc under consideration

ASSUME MasksAssumption ==
    /\ AddressBits \in Nat \ {0} /\ IntBits \in 1 .. AddressBits
    /\ LineSizes \subseteq {2^k : k \in 0 .. AddressBits}
    /\ SetCounts \subseteq Nat \ {0}

Addresses == 0 .. 2^AddressBits - 1

Geometry == [lineSize : LineSizes, sets : SetCounts]

Complement(x) == 2^AddressBits - 1 - x

lineMask(g) == g.lineSize - 1

\* log2, truncated to an integer.
setShift(g) ==
    CHOOSE k \in 0 .. AddressBits :
        2^k <= g.lineSize /\ g.lineSize < 2^(k + 1)

\* Shifted as an unsigned int, and only then widened to that of an address.
setMask(g) == ((g.sets - 1) * 2^setShift(g)) % 2^IntBits

\* Mutant: the bits within the line stay in the tag.
tagMaskWithOffset(g) == Complement(setMask(g))

tagMask(g) == Complement(setMask(g) | lineMask(g))

\* Mutant: the set is not shifted down.
SetBitsUnshifted(g, address) == address & setMask(g)

SetBits(g, address) == shiftR(address & setMask(g), setShift(g))

TagBits(g, address) == address & tagMask(g)

\* Of the numbers that TLC can represent.
IsPowerOfTwo(n) == \E k \in 0 .. 30 : n = 2^k
=============================================================================
