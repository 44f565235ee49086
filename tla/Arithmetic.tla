----------------------------- MODULE Arithmetic -----------------------------
(* Numbers as programs compute with them: native words of N bits that turn  *)
(* into Integers (a sign and blocks) when they overflow, Integers, which    *)
(* never turn back, and Ratios of them; the builtins, which dispatch on the *)
(* kinds of both arguments, and numerals.  One number is computed with,     *)
(* next to the rational number that it should be.                           *)
EXTENDS Blocks

CONSTANTS Radix,      \* of numerals (the source has 10), less than Base
          Minute,     \* in seconds (the source has 60)
          TimeRanges, \* sets of words: the times that some gmtime has the parts of
          Operands,   \* nodes that the number is combined with
          MaxNumber,  \* bound: magnitude of the numerators
          MaxDenominator \* bound: denominators
ASSUME RadixAssumption == Radix \in 2 .. Base - 1
ASSUME MinuteAssumption == Minute \in Nat \ {0}

VARIABLES node,       \* the number
          exact       \* what it should be: <<numerator, denominator>> in lowest terms
vars == <<node, exact>>

minValue == -(2 ^ (N - 1))
maxValue == 2 ^ (N - 1) - 1
Int_(value) == [type |-> "Int", value |-> value]
int_P(n) == n.type = "Int"
integer_P(n) == n.type = "Integer"
ratio_P(n) == n.type = "Ratio"
makeRatio(a, b) == [type |-> "Ratio", a |-> a, b |-> b]

-----------------------------------------------------------------------------
(* Integers.  A sign of zero stands for no blocks, and only that.           *)
integer(mag, sign) == [type |-> "Integer", sign |-> IF mag = zero THEN 0 ELSE sign, mag |-> mag]
integer00 == integer(zero, 0)
signOf(value) == IF value > 0 THEN 1 ELSE IF value < 0 THEN -1 ELSE 0
magOf(value) == IF value = 0 THEN zero ELSE <<IF value < 0 THEN -value ELSE value>>
fromNative(value) == integer(magOf(value), signOf(value))
negate(a) == [a EXCEPT !.sign = -@]

(* The last case of add and subtract: one magnitude less the other, with    *)
(* the sign of the greater one.                                             *)
difference(a, b) ==
  CASE compareTo(a.mag, b.mag) = 0 -> integer00
    [] compareTo(a.mag, b.mag) = 1 -> integer(subtract(a.mag, b.mag), a.sign)
    [] OTHER -> integer(subtract(b.mag, a.mag), b.sign)
addIntegers(a, b) ==
  CASE a.sign = 0 -> b
    [] a.sign # 0 /\ b.sign = 0 -> a
    [] a.sign = b.sign /\ a.sign # 0 -> integer(add(a.mag, b.mag), a.sign)
    [] a.sign = -b.sign /\ a.sign # 0 -> difference(a, b)
subtractIntegers(a, b) ==
  CASE a.sign = 0 -> negate(b)
    [] a.sign # 0 /\ b.sign = 0 -> a
    [] a.sign = -b.sign /\ a.sign # 0 -> integer(add(a.mag, b.mag), a.sign)
    [] a.sign = b.sign /\ a.sign # 0 -> difference(a, negate(b))
multiplyIntegers(a, b) ==
  IF a.sign = 0 \/ b.sign = 0 THEN integer00
  ELSE integer(multiply(a.mag, b.mag), IF a.sign = b.sign THEN 1 ELSE -1)
compareIntegers(a, b) ==
  IF a.sign # b.sign THEN signOf(a.sign - b.sign) ELSE a.sign * compareTo(a.mag, b.mag)

(* divideWithRemainder: the quotient rounded down, the rest with the sign   *)
(* of b.  With opposite signs, the magnitude of a is decreased before and   *)
(* that of the quotient increased after.                                    *)
divideIntegers(a, b) ==
  LET opposite_P == a.sign # b.sign
      divided == divideWithRemainder(IF opposite_P THEN decrement(a.mag) ELSE a.mag, b.mag)
  IN IF b.sign = 0 \/ a.sign = 0 THEN [quotient |-> integer00, rest |-> a]
     ELSE IF ~opposite_P THEN [quotient |-> integer(divided.quotient, 1), rest |-> integer(divided.rest, b.sign)]
     ELSE [quotient |-> integer(increment(divided.quotient), -1),
           rest |-> integer(decrement(subtract(b.mag, divided.rest)), b.sign)]

(* ++ and --; none of the programs uses them on Integers.                   *)
incrementInteger(a) == IF a.sign = -1 THEN integer(decrement(a.mag), -1) ELSE integer(increment(a.mag), 1)
decrementInteger(a) == IF a.sign = 1 THEN integer(decrement(a.mag), 1) ELSE integer(increment(a.mag), -1)

-----------------------------------------------------------------------------
(* Native words.  div and rem of C round towards zero.                      *)
quotientC(a, b) == signOf(a) * signOf(b) * ((IF a < 0 THEN -a ELSE a) \div (IF b < 0 THEN -b ELSE b))
remainderC(a, b) == a - b * quotientC(a, b)

(* A mutant of sumOverflows_P: sums below the least word are missed.        *)
sumOverflowsUpwards_P(a, b) == maxValue - b < a

(* Whether a sum, difference or product is no word.                         *)
sumOverflows_P(a, b) == IF b < 0 THEN minValue - b > a ELSE maxValue - b < a
differenceOverflows_P(a, b) == IF b < 0 THEN maxValue + b < a ELSE minValue + b > a
productOverflows_P(a, b) ==
  CASE b > 0 -> a > quotientC(maxValue, b) \/ a < quotientC(minValue, b)
    [] b < -1 -> a > quotientC(minValue, b) \/ a < quotientC(maxValue, b)
    [] b \in {-1, 0} -> b = -1 /\ a = minValue
(* The word that a machine instruction leaves.                              *)
wrapped(value) == ((value - minValue) % Base) + minValue

nativeOr(overflows_P, value, big) == IF overflows_P THEN big ELSE Int_(wrapped(value))
addInts(a, b) ==
  nativeOr(sumOverflows_P(a.value, b.value), a.value + b.value, addIntegers(fromNative(a.value), fromNative(b.value)))
subtractInts(a, b) ==
  nativeOr(differenceOverflows_P(a.value, b.value), a.value - b.value, subtractIntegers(fromNative(a.value), fromNative(b.value)))
multiplyInts(a, b) ==
  nativeOr(productOverflows_P(a.value, b.value), a.value * b.value, multiplyIntegers(fromNative(a.value), fromNative(b.value)))
(* Of intSucc and integerSucc.  The build wraps signed overflow.            *)
succ(a) ==
  IF int_P(a) THEN nativeOr(wrapped(a.value + 1) < a.value, a.value + 1, addIntegers(fromNative(a.value), fromNative(1)))
  ELSE addIntegers(a, fromNative(1))

(* A mutant of fitsNative_P: the least word is taken for too great.         *)
fitsNativeButLeast_P(a) ==
  \/ a.sign = 0
  \/ Len(a.mag) = 1 /\ wrapped(a.mag[1]) >= 0

(* convertToSignedPrimitive: X(b) wraps around.                             *)
fitsNative_P(a) ==
  \/ a.sign = 0
  \/ /\ Len(a.mag) = 1
     /\ \/ a.sign = 1 /\ wrapped(a.mag[1]) >= 0
        \/ a.sign = -1 /\ wrapped(-wrapped(a.mag[1])) < 0
toNativeInt(a) == IF a.sign = 0 THEN 0 ELSE IF a.sign = 1 THEN wrapped(a.mag[1]) ELSE wrapped(-wrapped(a.mag[1]))
toNearestNativeInt(a) ==
  IF fitsNative_P(a) THEN toNativeInt(a) ELSE IF a.sign = 1 THEN maxValue ELSE minValue

(* What native code that wants an int or a short is given: words of one bit *)
(* less, which refuse, or are the nearest.                                  *)
minShort == -(2 ^ (N - 2))
maxShort == 2 ^ (N - 2) - 1
narrowed(value) == ((value - minShort) % (Base \div 2)) + minShort
shortFits_P(a) == fitsNative_P(a) /\ narrowed(toNativeInt(a)) = toNativeInt(a)
nearestIntFromNode(a) ==
  LET value == toNearestNativeInt(a)
  IN IF narrowed(value) = value THEN value ELSE IF value < 0 THEN minShort ELSE maxShort
(* None of the bits of the word beyond bitCount may be set.  They are       *)
(* counted in an int, that is a short here: a shift by its width and more is*)
(* undefined, and that of the processor takes the rest.                     *)
sizedIntFits_P(bitCount, a) ==
  fitsNative_P(a) /\ (toNativeInt(a) % Base) \div 2 ^ (bitCount % (N - 1)) = 0

(* Times are words too, in seconds.  WIN32 has no inverse of gmtime, so the *)
(* beginning of the minute is searched for: from 0 on, by half of what is   *)
(* left each time, and at last one down for the least time.  Where gmtime   *)
(* answers NULL on the way, the program ends.                               *)
gmtime(time) == [minute |-> time \div Minute, second |-> time % Minute]
tmcomp(a, b) == IF a.minute # b.minute THEN a.minute - b.minute ELSE a.second - b.second
WRONG == -1
(* Instead of a time, so no word.                                           *)
crashed == Base
emulatemkgmtime(known, tm) ==
  LET dir(time) == tmcomp(gmtime(time), [tm EXCEPT !.second = 0])
      step(time, half) == IF dir(time) = 0 THEN time ELSE IF dir(time) > 0 THEN time - half ELSE time + half
      t[bits \in 0 .. N - 1] == IF bits = N - 1 THEN 0 ELSE step(t[bits + 1], 2 ^ bits)
      near == t[0]
      found == IF dir(near) = 0 THEN near ELSE near - 1
  IN  IF found \notin known \/ \E bits \in 0 .. N - 1 : t[bits] \notin known THEN crashed
      ELSE IF dir(found) = 0 THEN found + tm.second ELSE WRONG

-----------------------------------------------------------------------------
(* The builtins.  Two words stay words; a word next to an Integer is        *)
(* converted.                                                               *)
asInteger(n) == IF int_P(n) THEN fromNative(n.value) ELSE n
addA(a, b) == IF int_P(a) /\ int_P(b) THEN addInts(a, b) ELSE addIntegers(asInteger(a), asInteger(b))
subtractA(a, b) ==
  IF int_P(a) /\ int_P(b) THEN subtractInts(a, b) ELSE subtractIntegers(asInteger(a), asInteger(b))
multiplyA(a, b) ==
  IF int_P(a) /\ int_P(b) THEN multiplyInts(a, b) ELSE multiplyIntegers(asInteger(a), asInteger(b))
(* Called where b divides a; other quotients are floats.                    *)
divideA(a, b) ==
  IF int_P(a) /\ int_P(b) THEN Int_(quotientC(a.value, b.value))
  ELSE divideIntegers(asInteger(a), asInteger(b)).quotient
leqA(a, b) ==
  IF int_P(a) /\ int_P(b) THEN a.value <= b.value
  ELSE compareIntegers(asInteger(a), asInteger(b)) # 1
equalP(a, b) == leqA(a, b) /\ leqA(b, a)

(* divmod0, the rest of which has the sign of a.                            *)
divmod0Int(a, b) == [quotient |-> Int_(quotientC(a.value, b.value)), rest |-> Int_(remainderC(a.value, b.value))]
(* With opposite signs b is negated, and the quotient stays positive.       *)
divmod0Integer(a, b) ==
  divideIntegers(a, IF (b.sign # -1) # (a.sign # -1) THEN negate(b) ELSE b)
divmod0A(a, b) ==
  IF int_P(a) /\ int_P(b) THEN divmod0Int(a, b) ELSE divmod0Integer(asInteger(a), asInteger(b))
(* The processor refuses this division with SIGFPE, which ends the program. *)
traps_P(a, b) == a = Int_(minValue) /\ b = Int_(-1)
died == [type |-> "SIGFPE"]

RECURSIVE gcd(_, _)
gcd(a, b) == IF equalP(b, integer00) THEN a ELSE the({gcd(b, r) : r \in {divmod0A(a, b).rest}})

RECURSIVE gcdTraps_P(_, _)
gcdTraps_P(a, b) ==
  /\ ~equalP(b, integer00)
  /\ traps_P(a, b) \/ \E r \in {divmod0A(a, b).rest} : gcdTraps_P(b, r)

(* The parts of a Ratio without their common divisor, unless that is a      *)
(* unit; a Ratio whose denominator is 1 is its numerator.                   *)
simplifyRatio(r) ==
  LET unit_P(g) == leqA(g, Int_(1)) /\ leqA(Int_(-1), g)
      reduced(g) == IF unit_P(g) THEN r ELSE makeRatio(divideA(r.a, g), divideA(r.b, g))
      plain(q) == IF equalP(Int_(1), q.b) THEN q.a ELSE q
  IN IF equalP(Int_(1), r.b) THEN r.a
     ELSE IF gcdTraps_P(r.a, r.b) THEN died
     ELSE the({plain(q) : q \in {reduced(g) : g \in {gcd(r.a, r.b)}}})
asRatio(n) == IF ratio_P(n) THEN n ELSE makeRatio(n, Int_(1))

(* addARatio, subtractARatio (combine: +, -).                               *)
combined(combine(_, _), x, y) ==
  LET a == asRatio(x)
      b == asRatio(y)
  IN simplifyRatio(
       IF equalP(a.b, b.b) THEN makeRatio(combine(a.a, b.a), a.b)
       ELSE makeRatio(combine(multiplyA(a.a, b.b), multiplyA(a.b, b.a)), multiplyA(a.b, b.b)))
multiplyARatio(x, y) ==
  simplifyRatio(makeRatio(multiplyA(asRatio(x).a, asRatio(y).a), multiplyA(asRatio(x).b, asRatio(y).b)))
(* Also the builtin / for words and Integers.                               *)
divideARatio(x, y) ==
  simplifyRatio(makeRatio(multiplyA(asRatio(x).a, asRatio(y).b), multiplyA(asRatio(x).b, asRatio(y).a)))
leqARatio(x, y) ==
  leqA(multiplyA(asRatio(x).a, asRatio(y).b), multiplyA(asRatio(x).b, asRatio(y).a))

plus(x, y) == IF ratio_P(x) \/ ratio_P(y) THEN combined(addA, x, y) ELSE addA(x, y)
minus(x, y) == IF ratio_P(x) \/ ratio_P(y) THEN combined(subtractA, x, y) ELSE subtractA(x, y)
times(x, y) == IF ratio_P(x) \/ ratio_P(y) THEN multiplyARatio(x, y) ELSE multiplyA(x, y)
leq(x, y) == IF ratio_P(x) \/ ratio_P(y) THEN leqARatio(x, y) ELSE leqA(x, y)

-----------------------------------------------------------------------------
(* Numerals: a sign and digits, the most significant one first.             *)
RECURSIVE digitsOf(_)
digitsOf(mag) ==
  IF mag = zero THEN <<>>
  ELSE the({Append(digitsOf(d.quotient), valueOf(d.rest)) : d \in {divideWithRemainder(mag, <<Radix>>)}})
(* str of an Int or an Integer; a negative one is put in parentheses.       *)
str(n) ==
  LET a == asInteger(n) IN [negative |-> a.sign = -1, digits |-> IF a.sign = 0 THEN <<0>> ELSE digitsOf(a.mag)]

(* The digits of a numeral as blocks.                                       *)
RECURSIVE magOfDigits(_)
magOfDigits(digits) ==
  IF digits = <<>> THEN zero
  ELSE add(multiply(magOfDigits(SubSeq(digits, 1, Len(digits) - 1)), <<Radix>>), magOf(digits[Len(digits)]))
valueOfDigits(digits) == MapThenSumSet(LAMBDA i : digits[i] * Radix ^ (Len(digits) - i), DOMAIN digits)

(* A numeral of a program: strtol answers with the greatest word for all    *)
(* that is too great, and then it is read again.                            *)
getDynamicBuiltin(digits) ==
  LET value == Min({valueOfDigits(digits), maxValue})
  IN IF value = maxValue THEN integer(magOfDigits(digits), 1) ELSE Int_(value)
(* A numeral with a minus is parsed as 0 minus it.                          *)
readNumeral(numeral) ==
  IF numeral.negative THEN subtractA(Int_(0), getDynamicBuiltin(numeral.digits))
  ELSE getDynamicBuiltin(numeral.digits)

-----------------------------------------------------------------------------
(* The reference: rational numbers as pairs in lowest terms.                *)
numberOf(n) == IF int_P(n) THEN n.value ELSE n.sign * valueOf(n.mag)
magnitude(p) == IF p < 0 THEN -p ELSE p
divisors(p, q) == {d \in 1 .. Max({magnitude(p), magnitude(q)}) : p % d = 0 /\ q % d = 0}
lowestTerms(p, q) ==
  the({<<signOf(q) * (signOf(p) * (magnitude(p) \div d)), magnitude(q) \div d>> : d \in {Max(divisors(p, q))}})
rationalOf(n) ==
  IF ratio_P(n) THEN lowestTerms(numberOf(n.a), numberOf(n.b)) ELSE <<numberOf(n), 1>>
(* What divmod0 should answer with: the quotient rounded towards zero.  For *)
(* Integers of opposite signs the code leaves out the minus, against        *)
(* doc/lib/Arithmetic/index.html:50, so either sign is accepted there, and  *)
(* the number goes on as what it is.                                        *)
exactQuotient(x, y) ==
  LET quotient == quotientC(numberOf(x), numberOf(y))
      answer == numberOf(divmod0A(x, y).quotient)
      opposite_P == ~(int_P(x) /\ int_P(y)) /\ quotient < 0
  IN  IF opposite_P /\ answer = -quotient THEN answer ELSE quotient

Init == node \in {n \in Operands : ~ratio_P(n)} /\ exact = rationalOf(node)

(* A builtin results in a node, which should be the number p / q.           *)
becomes(n, p, q) ==
  /\ \E terms \in {lowestTerms(p, q)} : magnitude(terms[1]) <= MaxNumber /\ terms[2] <= MaxDenominator /\ exact' = terms
  /\ node' = n
Add(y) ==
  \E b \in {rationalOf(y)} : becomes(plus(node, y), exact[1] * b[2] + b[1] * exact[2], exact[2] * b[2])
Subtract(y) ==
  \E b \in {rationalOf(y)} : becomes(minus(node, y), exact[1] * b[2] - b[1] * exact[2], exact[2] * b[2])
Multiply(y) ==
  \E b \in {rationalOf(y)} : becomes(times(node, y), exact[1] * b[1], exact[2] * b[2])
(* By zero: a Ratio with the denominator 0, or an exception of divmod0.     *)
Divide(y) ==
  \E b \in {rationalOf(y)} : b[1] # 0 /\ becomes(divideARatio(node, y), exact[1] * b[2], exact[2] * b[1])
Divmod0(y) ==
  /\ ~ratio_P(node) /\ ~ratio_P(y)
  /\ numberOf(y) # 0
  /\ \/ traps_P(node, y) /\ node' = died /\ UNCHANGED exact
     \/ /\ ~traps_P(node, y)
        /\ \/ becomes(divmod0A(node, y).quotient, exactQuotient(node, y), 1)
           \/ becomes(divmod0A(node, y).rest, remainderC(exact[1], numberOf(y)), 1)
Succ == ~ratio_P(node) /\ becomes(succ(node), exact[1] + 1, 1)
PrintAndRead == ~ratio_P(node) /\ becomes(readNumeral(str(node)), exact[1], 1)

(* The operations on bits, which BigUnsigned has and no builtin calls.      *)
bits(p) == {k \in 0 .. bitLength(asInteger(node).mag) + 2 * N : (p \div 2 ^ k) % 2 = 1}
fromBits(K) == MapThenSumSet(LAMBDA k : 2 ^ k, K)
natural(mag) == integer(mag, 1)
Shift(k) ==
  /\ integer_P(node) /\ node.sign = 1
  /\ \/ becomes(natural(bitShiftLeft(node.mag, k)), exact[1] * 2 ^ k, 1)
     \/ becomes(natural(bitShiftRight(node.mag, k)), exact[1] \div 2 ^ k, 1)
     \/ becomes(natural(setBit(node.mag, k, TRUE)), fromBits(bits(exact[1]) \union {k}), 1)
     \/ becomes(natural(setBit(node.mag, k, FALSE)), fromBits(bits(exact[1]) \ {k}), 1)
Bitwise(y) ==
  /\ integer_P(node) /\ integer_P(y) /\ node.sign # -1 /\ y.sign # -1
  /\ \/ becomes(natural(bitAnd(node.mag, y.mag)), fromBits(bits(exact[1]) \intersect bits(numberOf(y))), 1)
     \/ becomes(natural(bitOr(node.mag, y.mag)), fromBits(bits(exact[1]) \union bits(numberOf(y))), 1)
     \/ becomes(natural(bitXor(node.mag, y.mag)), fromBits(SymDiff(bits(exact[1]), bits(numberOf(y)))), 1)
Step ==
  /\ integer_P(node)
  /\ \/ becomes(incrementInteger(node), exact[1] + 1, 1)
     \/ becomes(decrementInteger(node), exact[1] - 1, 1)

Next ==
  /\ node # died
  /\ \/ \E y \in Operands : Add(y) \/ Subtract(y) \/ Multiply(y) \/ Divide(y) \/ Divmod0(y)
     \/ Succ
     \/ PrintAndRead
     \/ \E k \in 0 .. 2 * N : Shift(k)
     \/ \E y \in Operands : Bitwise(y)
     \/ Step

Spec == Init /\ [][Next]_vars

-----------------------------------------------------------------------------
integerOk_P(n) ==
  \/ int_P(n) /\ n.value \in minValue .. maxValue
  \/ integer_P(n) /\ canonical_P(n.mag) /\ n.sign \in {-1, 0, 1} /\ (n.sign = 0 <=> n.mag = zero)

(* Every number that the builtins compute must have the one representation  *)
(* that compareTo, == and toNativeInt rely on: no leading zero blocks, a    *)
(* sign of zero exactly for no blocks, words within their range.            *)
canonicalNode_P ==
  \/ integerOk_P(node)
  \/ ratio_P(node) /\ integerOk_P(node.a) /\ integerOk_P(node.b)

(* Words that overflow, carries, borrows, signs, common divisors and        *)
(* numerals: no sequence of builtins loses or invents anything.             *)
Exact == node # died => canonicalNode_P /\ rationalOf(node) = exact

(* <= on words, Integers and Ratios, in any combination, orders numbers     *)
(* like numbers.  Denominators below zero (that of 1 / (-2)) are left out:  *)
(* leqARatio multiplies by them and answers the wrong way round.            *)
positive_P(n) == ratio_P(n) => numberOf(n.b) > 0
OrderIsExact ==
  \A y \in Operands :
    node # died /\ positive_P(node) /\ positive_P(y) =>
      \A b \in {rationalOf(y)} :
        /\ leq(node, y) <=> exact[1] * b[2] <= b[1] * exact[2]
        /\ leq(y, node) <=> b[1] * exact[2] <= exact[1] * b[2]

(* An Integer is given to native code as a word, a smaller one, or so many  *)
(* bits, exactly when it is one, and otherwise as the nearest one where     *)
(* that is asked for.  (Of numbers below zero, which are never so many bits,*)
(* and of as many bits as an int has nothing is said.)  A word that is a    *)
(* time is found again from its parts, if its minute is all there; the      *)
(* search may meet a time without parts and crash, but finds no wrong time. *)
ConvertsExactly ==
  node # died /\ integer_P(node) =>
    /\ fitsNative_P(node) <=> numberOf(node) \in minValue .. maxValue
    /\ toNearestNativeInt(node) = Max({minValue, Min({maxValue, numberOf(node)})})
    /\ shortFits_P(node) <=> numberOf(node) \in minShort .. maxShort
    /\ nearestIntFromNode(node) = Max({minShort, Min({maxShort, numberOf(node)})})
    /\ \A bitCount \in 0 .. N - 2 :
         numberOf(node) >= 0 => (sizedIntFits_P(bitCount, node) <=> numberOf(node) < 2 ^ bitCount)
    /\ \A known \in TimeRanges :
         fitsNative_P(node) /\ toNativeInt(node) \in known =>
           LET time == toNativeInt(node)
           IN  emulatemkgmtime(known, gmtime(time)) \in
                 {crashed, IF time - (time % Minute) < minValue THEN WRONG ELSE time}
=============================================================================
