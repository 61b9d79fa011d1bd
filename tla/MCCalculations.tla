--------------------------- MODULE MCCalculations ---------------------------
(* Inputs of Calculations for TLC.                                          *)
EXTENDS Calculations

\* Words of eight bytes: zero, near zero, near another one and a carry away from
\* it, made of quarters and halves that are near each other.
ZeroWord  == <<0, 0, 0, 0, 0, 0, 0, 0>>
SmallWord == <<0, 0, 0, 0, 0, 0, 0, 1>>
EndWord   == <<2, 2, 1, 1, 3, 1, 3, 1>>
Words == {
    ZeroWord, SmallWord, EndWord,
    <<0, 0, 0, 0, 0, 1, 0, 0>>,
    <<0, 0, 0, 1, 0, 0, 0, 3>>,
    <<0, 0, 0, 1, 0, 0, 2, 1>>,
    <<0, 0, 0, 1, 0, 0, 3, 1>>,
    <<1, 0, 0, 0, 0, 0, 0, 0>>,
    <<0, 3, 3, 3, 3, 3, 3, 3>>,
    <<0, 2, 0, 1, 0, 2, 0, 1>>,
    <<2, 2, 2, 1, 0, 0, 0, 1>>,
    <<0, 0, 0, 0, 2, 2, 2, 3>>,
    <<2, 2, 1, 1, 0, 0, 1, 3>>,
    <<0, 0, 1, 3, 2, 2, 1, 1>>}

\* One word fills the middle of a line.
Line(first, second, fill, last) ==
    [j \in Positions |->
        LET w == (j + 7) \div 8
            word == CASE w = 1 -> first
                      [] w = 2 -> second
                      [] w = LineBytes \div 8 -> last
                      [] OTHER -> fill
        IN  word[j - 8 * (w - 1)]]

WordLines ==
    {Line(first, second, fill, last) :
        first \in Words, second \in Words, fill \in Words,
        last \in {ZeroWord, SmallWord, EndWord}}

Divisors == {d \in Positions : LineBytes % d = 0}
=============================================================================
