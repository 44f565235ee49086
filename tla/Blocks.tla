------------------------------- MODULE Blocks -------------------------------
(* BigUnsigned: natural numbers as sequences of blocks of N bits, the least *)
(* significant block first and no zero block last, so that zero is the      *)
(* empty sequence.  The operations are those of the source, with its        *)
(* detection of carries by comparison; whether they compute what they are   *)
(* named for is the business of module Arithmetic.                          *)
EXTENDS Integers, Sequences, FiniteSetsExt

CONSTANT N \* bits of a block (the source has 8 * sizeof(NativeUInt))
ASSUME NAssumption == N \in Nat \ {0}

Base == 2 ^ N
zero == <<>>
valueOf(x) == MapThenSumSet(LAMBDA i : x[i] * Base ^ (i - 1), DOMAIN x)
(* No number has two representations.                                       *)
canonical_P(x) == /\ \A i \in DOMAIN x : x[i] \in 0 .. Base - 1
                  /\ x # zero => x[Len(x)] # 0

getBlock(x, i) == IF i \in DOMAIN x THEN x[i] ELSE 0
getBit(x, k) == (getBlock(x, k \div N + 1) \div 2 ^ (k % N)) % 2 = 1
zeros(n) == [i \in 1 .. n |-> 0]
(* The one member of a set {f(x) : x \in {e}}: f applied to the value of e. *)
the(S) == CHOOSE x \in S : TRUE

zapLeadingZeros(x) == SubSeq(x, 1, Max({0} \union {i \in DOMAIN x : x[i] # 0}))
zapLeadingZero(x) == SubSeq(x, 1, IF x[Len(x)] = 0 THEN Len(x) - 1 ELSE Len(x))

(* A mutant of compareTo: the lowest block that differs decides.            *)
compareToLowest(x, y) ==
  LET differing == {i \in DOMAIN x : x[i] # y[i]}
      decides == Min(differing)
  IN IF Len(x) # Len(y) THEN IF Len(x) < Len(y) THEN -1 ELSE 1
     ELSE IF differing = {} THEN 0
     ELSE IF x[decides] < y[decides] THEN -1 ELSE 1

(* less, equal or greater: -1, 0 or 1.                                      *)
compareTo(x, y) ==
  LET differing == {i \in DOMAIN x : x[i] # y[i]}
      decides == Max(differing)
  IN IF Len(x) # Len(y) THEN IF Len(x) < Len(y) THEN -1 ELSE 1
     ELSE IF differing = {} THEN 0
     ELSE IF x[decides] < y[decides] THEN -1 ELSE 1

(* The carries out of the lowest n blocks of x + y.  A sum rolled over when *)
(* it is less than one of its parts, or is zero after a carry was added.    *)
carries(x, y, n) ==
  LET carry[k \in 0 .. n] ==
        /\ k > 0
        /\ LET temp == (getBlock(x, k) + getBlock(y, k)) % Base
           IN temp < getBlock(x, k) \/ (carry[k - 1] /\ (temp + 1) % Base = 0)
  IN carry
sums(x, y, n) ==
  [k \in 1 .. n |->
     (getBlock(x, k) + getBlock(y, k) + IF carries(x, y, n)[k - 1] THEN 1 ELSE 0) % Base]

add(x, y) ==
  LET longer == IF Len(x) >= Len(y) THEN x ELSE y
      shorter == IF Len(x) >= Len(y) THEN y ELSE x
      n == Len(longer)
  IN IF x = zero THEN y
     ELSE IF y = zero THEN x
     ELSE sums(longer, shorter, n)
            \o IF carries(longer, shorter, n)[n] THEN <<1>> ELSE <<>>

(* The borrows of the lowest n blocks of x - y, likewise.                   *)
borrows(x, y, n) ==
  LET borrow[k \in 0 .. n] ==
        /\ k > 0
        /\ LET temp == (getBlock(x, k) - getBlock(y, k)) % Base
           IN temp > getBlock(x, k) \/ (borrow[k - 1] /\ temp = 0)
  IN borrow
differences(x, y, n) ==
  [k \in 1 .. n |->
     (getBlock(x, k) - getBlock(y, k) - IF borrows(x, y, n)[k - 1] THEN 1 ELSE 0) % Base]

(* subtract throws when this does not hold, ...                             *)
subtractable_P(x, y) == Len(x) >= Len(y) /\ ~borrows(x, y, Len(x))[Len(x)]
(* ... and results in this when it does.                                    *)
subtract(x, y) ==
  IF y = zero THEN x ELSE zapLeadingZeros(differences(x, y, Len(x)))

(* Block i, counted from 0, of x shifted left by y < N bits.                *)
getShiftedBlock(x, i, y) ==
  (IF i = 0 \/ y = 0 THEN 0 ELSE x[i] \div 2 ^ (N - y))
    + (IF i = Len(x) THEN 0 ELSE (x[i + 1] * 2 ^ y) % Base)
shiftedBlocks(x, from, y) == [i \in 1 .. Len(x) + 1 - from |-> getShiftedBlock(x, from + i - 1, y)]

(* For each bit of x that is set: y, shifted by its index, is added.        *)
multiply(x, y) ==
  LET room == Len(x) + Len(y)
      product[k \in 0 .. N * Len(x)] ==
        IF k = 0 THEN zeros(room)
        ELSE IF ~getBit(x, k - 1) THEN product[k - 1]
        ELSE the({sums(p, zeros((k - 1) \div N) \o shiftedBlocks(y, 0, (k - 1) % N), room)
                  : p \in {product[k - 1]}})
  IN IF x = zero \/ y = zero THEN zero ELSE zapLeadingZero(product[N * Len(x)])

(* One attempt of a division: y, shifted by k bits, is subtracted from the  *)
(* rest, unless that is too small for it.                                   *)
tried(d, y, k) ==
  LET shifted == zeros(k \div N) \o shiftedBlocks(y, 0, k % N)
      n == Len(d.rest)
  IN IF borrows(d.rest, shifted, n)[n] THEN d
     ELSE [rest |-> differences(d.rest, shifted, n), bits |-> d.bits \union {k}]

(* The quotient and the rest of x by y; zero and x for y = zero.            *)
divideWithRemainder(x, y) ==
  LET places == Len(x) - Len(y) + 1
      division[k \in 0 .. N * places] ==
        IF k = N * places THEN [rest |-> Append(x, 0), bits |-> {}]
        ELSE the({tried(d, y, k) : d \in {division[k + 1]}})
      quotient(bits) ==
        [i \in 1 .. places |-> MapThenSumSet(LAMBDA k : 2 ^ (k % N), {k \in bits : k \div N = i - 1})]
  IN IF y = zero \/ Len(x) < Len(y) THEN [quotient |-> zero, rest |-> x]
     ELSE the({[quotient |-> zapLeadingZero(quotient(d.bits)), rest |-> zapLeadingZeros(d.rest)]
               : d \in {division[0]}})

increment(x) ==
  LET rolls == {i \in DOMAIN x : \A j \in 1 .. i : x[j] = Base - 1}
  IN [i \in DOMAIN x |-> IF i \in rolls THEN 0
                         ELSE IF i - 1 \in rolls \union {0} THEN x[i] + 1 ELSE x[i]]
       \o IF rolls = DOMAIN x THEN <<1>> ELSE <<>>
(* For x # zero; zero throws.                                               *)
decrement(x) ==
  LET rolls == {i \in DOMAIN x : \A j \in 1 .. i : x[j] = 0}
  IN zapLeadingZero([i \in DOMAIN x |-> IF i \in rolls THEN Base - 1
                                        ELSE IF i - 1 \in rolls \union {0} THEN x[i] - 1 ELSE x[i]])

setBlock(x, i, block) ==
  IF block = 0 THEN IF i \in DOMAIN x THEN zapLeadingZeros([x EXCEPT ![i] = 0]) ELSE x
  ELSE [j \in 1 .. Max({i, Len(x)}) |-> IF j = i THEN block ELSE getBlock(x, j)]
setBit(x, k, bit) ==
  LET mask == 2 ^ (k % N)
      i == k \div N + 1
  IN setBlock(x, i, getBlock(x, i) + IF getBit(x, k) = bit THEN 0 ELSE IF bit THEN mask ELSE -mask)
bitLength(x) ==
  IF x = zero THEN 0
  ELSE Max({k \in 1 .. N : x[Len(x)] \div 2 ^ (k - 1) # 0}) + (Len(x) - 1) * N

(* &, | and ^ block by block.                                               *)
blockOf(bits_P(_, _), x, y, i) ==
  MapThenSumSet(LAMBDA k : 2 ^ (k % N),
                {k \in N * (i - 1) .. N * i - 1 : bits_P(getBit(x, k), getBit(y, k))})
bitAnd(x, y) == zapLeadingZeros([i \in 1 .. Min({Len(x), Len(y)}) |-> blockOf(LAMBDA b, c : b /\ c, x, y, i)])
bitOr(x, y) == [i \in 1 .. Max({Len(x), Len(y)}) |-> blockOf(LAMBDA b, c : b \/ c, x, y, i)]
bitXor(x, y) == zapLeadingZeros([i \in 1 .. Max({Len(x), Len(y)}) |-> blockOf(LAMBDA b, c : b # c, x, y, i)])

bitShiftLeft(x, n) == zapLeadingZero(zeros(n \div N) \o shiftedBlocks(x, 0, n % N))
(* A shift to the right is one to the left within the blocks that remain.   *)
bitShiftRight(x, n) ==
  LET rightShiftBlocks == (n + N - 1) \div N
  IN IF rightShiftBlocks >= Len(x) + 1 THEN zero
     ELSE zapLeadingZero(shiftedBlocks(x, rightShiftBlocks, N * rightShiftBlocks - n))
=============================================================================
