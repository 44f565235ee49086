---------------------------- MODULE MCArithmetic ----------------------------
(* Operands of Arithmetic for TLC: all words, Integers around the borders   *)
(* of words and blocks, and halves, one of them with a negative denominator.*)
EXTENDS Arithmetic

\* Every time, those of WIN32, and those of a year that is small enough.
MCTimeRanges == {minValue .. maxValue, 0 .. maxValue, -1 .. 1}

Bigs == {-64, -9, -5, -4, 0, 1, 4, 7, 8, 63}
Halves == {-3, 1}

bigInteger(number) ==
  CHOOSE n \in {integer(mag, sign) : mag \in UNION {[1 .. l -> 0 .. Base - 1] : l \in 0 .. 3}, sign \in {-1, 1}} :
    canonical_P(n.mag) /\ numberOf(n) = number
MCOperands ==
  UNION {{Int_(value) : value \in minValue .. maxValue},
         {bigInteger(number) : number \in Bigs},
         {makeRatio(Int_(p), Int_(2)) : p \in Halves},
         {makeRatio(Int_(-p), Int_(-2)) : p \in Halves}}
=============================================================================
