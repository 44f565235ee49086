--------------------------- MODULE RecordsProofs ----------------------------
(***************************************************************************)
(* Where packRecord puts fields, and how long the record is: for every     *)
(* width of a byte, every set of formats and all data.                     *)
(***************************************************************************)
EXTENDS Records, SequenceTheorems, Induction, TLAPS

\* Sizes and alignments are powers of two; what can be packed has one.
LEMMA SizeFacts ==
    ASSUME NEW order, NEW c
    PROVE  /\ getSize(order, c) \in {0, 1, 2, 4, 8}
           /\ getAlignment(c) \in {0, 1, 2, 4, 8}
  BY DEF getSize, getAlignment

LEMMA AlignmentFacts ==
    ASSUME NEW c, c \in signed \union unsigned \union pointers \union nilables \union {"v"}
    PROVE  getAlignment(c) \in {1, 2, 4, 8}
  BY DEF getSize, getAlignment, signed, unsigned, pointers, nilables

\* The next multiple of an alignment; without one, the offset is reset.
LEMMA AlignedFacts ==
    ASSUME NEW o \in Nat, NEW align \in {0, 1, 2, 4, 8}
    PROVE  /\ alignedTo(o, align) \in Nat
           /\ align # 0 => alignedTo(o, align) >= o /\ alignedTo(o, align) % align = 0
  <1>1. CASE align = 0
    BY <1>1 DEF alignedTo
  <1>2. CASE align = 1
    BY <1>2 DEF alignedTo
  <1>3. CASE align = 2
    BY <1>3 DEF alignedTo
  <1>4. CASE align = 4
    BY <1>4 DEF alignedTo
  <1>5. CASE align = 8
    BY <1>5 DEF alignedTo
  <1> QED
    BY <1>1, <1>2, <1>3, <1>4, <1>5

\* A sequence that is given by its length and its elements.
LEMMA IsSequence ==
    ASSUME NEW n \in Nat, NEW s, s = [k \in 1 .. n |-> s[k]]
    PROVE  /\ s \in Seq({s[k] : k \in 1 .. n})
           /\ Len(s) = n
  OBVIOUS

\* An atom is as long as its size, in either byte order.
LEMMA EncodedFacts ==
    ASSUME NEW order, NEW size \in Nat, NEW v
    PROVE  \E S : encoded(order, size, v) \in Seq(S) /\ Len(encoded(order, size, v)) = size
  <1> DEFINE s == [k \in 1 .. size |-> (v \div 2 ^ (B * (k - 1))) % 2 ^ B]
             r == [k \in DOMAIN s |-> s[Len(s) + 1 - k]]
  <1>1. s = [k \in 1 .. size |-> s[k]] /\ Len(s) = size /\ DOMAIN s = 1 .. size
    <2>1. s = [k \in 1 .. size |-> s[k]] /\ DOMAIN s = 1 .. size
      OBVIOUS
    <2> HIDE DEF s
    <2>2. Len(s) = size
      BY <2>1, IsSequence
    <2> QED
      BY <2>1, <2>2
  <1> HIDE DEF s
  <1>2. r = [k \in 1 .. size |-> r[k]]
    BY <1>1
  <1>3. encoded(order, size, v) = s \/ encoded(order, size, v) = r
    BY DEF encoded, inByteOrder, s
  <1> HIDE DEF r
  <1>4. /\ s \in Seq({s[k] : k \in 1 .. size})
        /\ r \in Seq({r[k] : k \in 1 .. size}) /\ Len(r) = size
    BY <1>1, <1>2, IsSequence
  <1> QED
    BY <1>1, <1>3, <1>4

\* Sequences of bytes behind each other.
LEMMA JoinedFacts ==
    ASSUME NEW S, NEW T, NEW s \in Seq(S), NEW t \in Seq(T)
    PROVE  \E U : s \o t \in Seq(U) /\ Len(s \o t) = Len(s) + Len(t)
  <1>1. s \in Seq(S \union T) /\ t \in Seq(S \union T)
    OBVIOUS
  <1> QED
    BY <1>1, ConcatProperties
-----------------------------------------------------------------------------
Fields == [c : STRING, order : byteOrders, node : Data, offset : Nat, size : Nat]
Frames == [start : 1 .. Len(format) + 1, byteOrder : byteOrders, left : Int]

\* The state of packRecord.
TypeInv ==
    /\ format \in Seq(STRING)
    /\ position \in Nat \ {0}
    /\ byteOrder \in byteOrders
    /\ offset \in Nat
    /\ stack \in Seq(Frames)
    /\ \E S : bytes \in Seq(S)
    /\ fields \in Seq(Fields)
    /\ position <= Len(format) + 1

\* Every field is aligned for its type where that is asked for, and behind the
\* one before it.
Aligned(f) == f.order = "@" => f.offset % getAlignment(f.c) = 0
LayoutInv ==
    /\ offset = Len(bytes)
    /\ \A i \in 1 .. Len(fields) :
           /\ Aligned(fields[i])
           /\ fields[i].offset + fields[i].size <= offset
           /\ i < Len(fields) => fields[i].offset + fields[i].size <= fields[i + 1].offset

IInv == mode \in {"pack", "packed"} => TypeInv /\ LayoutInv

\* What depends on the format alone.
LEMMA SameFormat ==
    ASSUME format' = format
    PROVE  Frames' = Frames
  BY DEF Frames

\* A character of the format, which there is.
LEMMA AtFacts ==
    ASSUME TypeInv, ~ended
    PROVE  /\ position \in 1 .. Len(format) /\ Len(format) \in Nat
           /\ format[position] \in STRING
           /\ position + 1 \in Nat \ {0} /\ position + 1 <= Len(format) + 1
  <1>1. Len(format) \in Nat
    BY LenProperties DEF TypeInv
  <1>2. position \in 1 .. Len(format)
    BY <1>1 DEF TypeInv, ended
  <1> QED
    BY <1>1, <1>2, ElementOfSeq DEF TypeInv

LEMMA InitFacts ==
    ASSUME Init
    PROVE  IInv
  <1>1. format \in Seq(STRING)
    BY FormatsAssumption DEF Init
  <1>2. Len(format) \in Nat
    BY <1>1, LenProperties
  <1>3. TypeInv
    <2>1. <<>> \in Seq(Frames) /\ <<>> \in Seq(Fields) /\ <<>> \in Seq({})
      BY EmptySeq
    <2> QED
      BY <1>1, <1>2, <2>1 DEF Init, TypeInv, byteOrders
  <1>4. LayoutInv
    BY DEF Init, LayoutInv
  <1> QED
    BY <1>3, <1>4 DEF IInv

\* A byte order, or a list that begins, ends or is skipped: nothing is written.
LEMMA QuietStep ==
    ASSUME IInv, mode = "pack", UNCHANGED <<format, offset, bytes, fields>>,
           position' \in Nat \ {0}, position' <= Len(format) + 1,
           byteOrder' \in byteOrders, stack' \in Seq(Frames)
    PROVE  IInv'
  BY SameFormat DEF IInv, TypeInv, LayoutInv, Aligned

LEMMA ChangeByteOrderStep ==
    ASSUME IInv, ChangeByteOrder
    PROVE  IInv'
  <1>1. CASE mode = "pack"
    <2>1. position' \in Nat \ {0} /\ position' <= Len(format) + 1
      BY <1>1, AtFacts DEF IInv, ChangeByteOrder, at
    <2> QED
      BY <1>1, <2>1, QuietStep DEF IInv, TypeInv, ChangeByteOrder
  <1>2. CASE mode # "pack"
    BY <1>2 DEF IInv, ChangeByteOrder
  <1> QED
    BY <1>1, <1>2

LEMMA PackPaddingStep ==
    ASSUME IInv, PackPadding
    PROVE  IInv'
  <1>1. mode = "pack" /\ TypeInv /\ LayoutInv /\ ~ended
    BY DEF IInv, PackPadding, at
  <1>2. position' \in Nat \ {0} /\ position' <= Len(format) + 1
    BY <1>1, AtFacts DEF PackPadding
  <1>3. PICK S : bytes \in Seq(S)
    BY <1>1 DEF TypeInv
  <1>4. bytes \in Seq(S \union {0}) /\ Len(bytes) \in Nat
    BY <1>3, LenProperties
  <1>5. bytes' \in Seq(S \union {0}) /\ Len(bytes') = Len(bytes) + 1
    BY <1>4, AppendProperties DEF PackPadding
  <1>6. TypeInv'
    BY <1>1, <1>2, <1>5, SameFormat DEF TypeInv, PackPadding
  <1>7. LayoutInv'
    <2>1. /\ offset' = offset + 1 /\ offset \in Nat /\ fields' = fields
          /\ fields \in Seq(Fields) /\ Len(fields) \in Nat
      BY <1>1, LenProperties DEF TypeInv, PackPadding
    <2>2. \A i \in 1 .. Len(fields) : fields[i] \in Fields
      BY <2>1, ElementOfSeq
    <2>3. \A i \in 1 .. Len(fields) : fields[i].offset \in Nat /\ fields[i].size \in Nat
      BY <2>2 DEF Fields
    <2> QED
      BY <1>1, <1>5, <2>1, <2>3 DEF LayoutInv, Aligned
  <1> QED
    BY <1>6, <1>7 DEF IInv

\* Where an atom starts.
LEMMA StartFacts ==
    ASSUME NEW c, c \in signed \union unsigned \union pointers \union nilables \union {"v"}, offset \in Nat
    PROVE  /\ startOf(c) \in Nat /\ startOf(c) >= offset
           /\ byteOrder = "@" => startOf(c) % getAlignment(c) = 0
  <1> DEFINE align == getAlignment(c)
  <1>1. align \in {1, 2, 4, 8} /\ align \in {0, 1, 2, 4, 8}
    BY AlignmentFacts
  <1>2. startOf(c) = IF byteOrder = "@" THEN alignedTo(offset, align) ELSE offset
    BY DEF startOf
  <1> HIDE DEF align
  <1>3. alignedTo(offset, align) \in Nat
    BY <1>1, AlignedFacts
  <1>4. alignedTo(offset, align) >= offset /\ alignedTo(offset, align) % align = 0
    <2>1. align # 0
      BY <1>1
    <2> QED
      BY <1>1, <2>1, AlignedFacts, Zenon
  <1>5. startOf(c) \in Nat /\ startOf(c) >= offset
    BY <1>2, <1>3, <1>4
  <1>6. byteOrder = "@" => startOf(c) % align = 0
    BY <1>2, <1>4
  <1> QED
    BY <1>5, <1>6 DEF align

\* A field comes behind what is there, after as many bytes as align it.
LEMMA PackAtomStep ==
    ASSUME IInv, PackAtom
    PROVE  IInv'
  <1>1. mode = "pack" /\ TypeInv /\ LayoutInv /\ ~ended
    BY DEF IInv, PackAtom
  <1> DEFINE c == format[position]
             size == getSize(byteOrder, c)
  <1>2. PICK node \in Data :
            LET f == field(c, node)
            IN IF packable_P(c, size, node)
               THEN /\ bytes' = bytes \o zeros(f.offset - offset) \o encoded(byteOrder, size, node.value)
                    /\ offset' = f.offset + size
                    /\ fields' = Append(fields, f)
                    /\ position' = position + 1
                    /\ UNCHANGED <<mode, format, byteOrder, stack, results>>
               ELSE mode' = "refused"
    BY DEF PackAtom
  <1> DEFINE f == field(c, node)
  <1>3. CASE ~packable_P(c, size, node)
    BY <1>2, <1>3 DEF IInv
  <1>4. CASE packable_P(c, size, node)
    <2>1. c \in signed \union unsigned \union pointers \union nilables \union {"v"}
      BY <1>4 DEF packable_P, convertible_P
    <2>2. /\ position' \in Nat \ {0} /\ position' <= Len(format) + 1
          /\ c \in STRING /\ size \in Nat /\ byteOrder \in byteOrders /\ offset \in Nat
      <3>1. position' = position + 1
        BY <1>2, <1>4
      <3>2. /\ position + 1 \in Nat \ {0} /\ position + 1 <= Len(format) + 1
            /\ c \in STRING /\ byteOrder \in byteOrders /\ offset \in Nat
        BY <1>1, AtFacts DEF TypeInv
      <3>3. size \in Nat
        BY SizeFacts
      <3> HIDE DEF c, size
      <3> QED
        BY <3>1, <3>2, <3>3
    <2>3. startOf(c) \in Nat /\ startOf(c) >= offset
          /\ (byteOrder = "@" => startOf(c) % getAlignment(c) = 0)
      <3>1. offset \in Nat
        BY <2>2
      <3> HIDE DEF c
      <3> QED
        BY <2>1, <3>1, StartFacts
    <2>4. /\ f \in Fields /\ f.offset = startOf(c) /\ f.size = size /\ f.order = byteOrder /\ f.c = c
      BY <2>2, <2>3 DEF field, Fields
    <2> DEFINE gap == zeros(f.offset - offset)
               coded == encoded(byteOrder, size, node.value)
    <2>5. /\ bytes' = (bytes \o gap) \o coded
          /\ offset' = f.offset + size
          /\ fields' = Append(fields, f)
          /\ UNCHANGED <<mode, format, byteOrder, stack>>
      BY <1>2, <1>4
    <2>6. gap \in Seq({gap[k] : k \in 1 .. f.offset - offset}) /\ Len(gap) = f.offset - offset
      <3>1. f.offset - offset \in Nat
        BY <2>2, <2>3, <2>4
      <3>2. gap = [k \in 1 .. f.offset - offset |-> gap[k]]
        BY DEF zeros
      <3> HIDE DEF gap, f
      <3> QED
        BY <3>1, <3>2, IsSequence
    <2>7. PICK T : coded \in Seq(T) /\ Len(coded) = size
      BY <2>2, EncodedFacts
    <2>8. PICK S : bytes \in Seq(S)
      BY <1>1 DEF TypeInv
    <2> HIDE DEF gap, coded, f, size, c
    <2>9. PICK U : bytes \o gap \in Seq(U) /\ Len(bytes \o gap) = Len(bytes) + Len(gap)
      BY <2>6, <2>8, JoinedFacts
    <2>10. PICK V : /\ (bytes \o gap) \o coded \in Seq(V)
                    /\ Len((bytes \o gap) \o coded) = Len(bytes \o gap) + Len(coded)
      <3> DEFINE front == bytes \o gap
      <3>1. front \in Seq(U)
        BY <2>9
      <3> HIDE DEF front
      <3>2. PICK V : front \o coded \in Seq(V) /\ Len(front \o coded) = Len(front) + Len(coded)
        BY <2>7, <3>1, JoinedFacts
      <3> QED
        BY <3>2 DEF front
    <2>11. Len(bytes') = Len(bytes) + (f.offset - offset) + size
      BY <2>5, <2>6, <2>7, <2>9, <2>10
    <2>12. /\ fields \in Seq(Fields) /\ Len(fields) \in Nat
           /\ fields' \in Seq(Fields) /\ Len(fields') = Len(fields) + 1
           /\ \A i \in 1 .. Len(fields) : fields'[i] = fields[i]
           /\ fields'[Len(fields) + 1] = f
      BY <1>1, <2>4, <2>5, AppendProperties, LenProperties DEF TypeInv
    <2>13. TypeInv'
      BY <1>1, <2>2, <2>3, <2>4, <2>5, <2>10, <2>12, SameFormat DEF TypeInv
    <2>14. LayoutInv'
      <3>1. offset' = Len(bytes')
        BY <1>1, <2>2, <2>3, <2>4, <2>5, <2>11 DEF LayoutInv
      <3>2. \A i \in 1 .. Len(fields) : fields[i].offset \in Nat /\ fields[i].size \in Nat
        <4>1. \A i \in 1 .. Len(fields) : fields[i] \in Fields
          BY <2>12, ElementOfSeq
        <4> QED
          BY <4>1 DEF Fields
      <3>3. Aligned(f)
        BY <2>3, <2>4 DEF Aligned
      <3>4. ASSUME NEW i \in 1 .. Len(fields')
            PROVE  /\ Aligned(fields'[i])
                   /\ fields'[i].offset + fields'[i].size <= offset'
                   /\ i < Len(fields') => fields'[i].offset + fields'[i].size <= fields'[i + 1].offset
        <4>1. CASE i = Len(fields) + 1
          BY <2>2, <2>3, <2>4, <2>5, <2>12, <3>3, <4>1
        <4>2. CASE i \in 1 .. Len(fields)
          <5>1. fields'[i] = fields[i] /\ Aligned(fields[i]) /\ fields[i].offset + fields[i].size <= offset
            BY <1>1, <2>12, <4>2 DEF LayoutInv
          <5>2. offset <= offset'
            BY <2>2, <2>3, <2>4, <2>5
          <5>3. CASE i = Len(fields)
            BY <2>2, <2>3, <2>4, <2>5, <2>12, <3>2, <4>2, <5>1, <5>2, <5>3
          <5>4. CASE i # Len(fields)
            <6>1. i + 1 \in 1 .. Len(fields) /\ i < Len(fields)
              BY <2>12, <4>2, <5>4
            <6>2. fields[i].offset + fields[i].size <= fields[i + 1].offset
              BY <1>1, <4>2, <6>1 DEF LayoutInv
            <6> QED
              BY <2>2, <2>3, <2>4, <2>5, <2>12, <3>2, <4>2, <5>1, <5>2, <6>1, <6>2
          <5> QED
            BY <5>3, <5>4
        <4> QED
          BY <2>12, <4>1, <4>2
      <3> QED
        BY <3>1, <3>4 DEF LayoutInv
    <2> QED
      BY <2>13, <2>14 DEF IInv
  <1> QED
    BY <1>3, <1>4

\* The bracket that closes a list is a position of the format, or behind it.
LEMMA ClosingFacts ==
    ASSUME Len(format) \in Nat, NEW from \in Nat \ {0}, closing(from) <= Len(format)
    PROVE  closing(from) + 1 \in Nat \ {0} /\ closing(from) + 1 <= Len(format) + 1
  <1> DEFINE S == {p \in from .. Len(format) : depth(from, p) < 0} \union {Len(format) + 1}
  <1>1. /\ S \in SUBSET (0 .. Len(format) + 1) /\ S # {} /\ Len(format) + 1 \in Nat
        /\ \A p \in S : p \in Nat
    OBVIOUS
  <1>2. closing(from) = Min(S)
    BY DEF closing
  <1> HIDE DEF S
  <1>3. \E p \in S : \A q \in S : p <= q
    BY <1>1, ExtremeElements
  <1>4. Min(S) \in S
    BY <1>3 DEF Min
  <1>5. closing(from) \in Nat
    BY <1>1, <1>2, <1>4
  <1> QED
    BY <1>5

\* A list is packed once for each of its elements, or skipped.
LEMMA PackArrayStep ==
    ASSUME IInv, PackArray
    PROVE  IInv'
  <1>1. mode = "pack" /\ TypeInv /\ ~ended
    BY DEF IInv, PackArray, at
  <1>2. position + 1 \in 1 .. Len(format) + 1 /\ Len(format) \in Nat /\ byteOrder \in byteOrders
        /\ stack \in Seq(Frames)
    BY <1>1, AtFacts DEF TypeInv
  <1>3. CASE \E n \in 1 .. MaxElements :
               /\ stack' = Append(stack, [start |-> position + 1, byteOrder |-> byteOrder, left |-> n - 1])
               /\ position' = position + 1
               /\ UNCHANGED <<mode, format, byteOrder, offset, bytes, fields, results>>
    <2>1. PICK n \in 1 .. MaxElements :
                 stack' = Append(stack, [start |-> position + 1, byteOrder |-> byteOrder, left |-> n - 1])
      BY <1>3
    <2>2. [start |-> position + 1, byteOrder |-> byteOrder, left |-> n - 1] \in Frames
      BY <1>2, MaxElementsAssumption DEF Frames
    <2>3. stack' \in Seq(Frames)
      BY <1>2, <2>1, <2>2, AppendProperties
    <2> QED
      BY <1>1, <1>2, <1>3, <2>3, QuietStep
  <1>4. CASE /\ closing(position + 1) <= Len(format)
             /\ position' = closing(position + 1) + 1
             /\ UNCHANGED <<mode, format, byteOrder, offset, stack, bytes, fields, results>>
    <2>1. position' \in Nat \ {0} /\ position' <= Len(format) + 1
      BY <1>2, <1>4, ClosingFacts
    <2> QED
      BY <1>1, <1>2, <1>4, <2>1, QuietStep
  <1>5. CASE closing(position + 1) > Len(format) /\ throw
    BY <1>5 DEF throw, IInv
  <1> QED
    BY <1>3, <1>4, <1>5 DEF PackArray

\* The format is read again for the next element, or the list is over.
LEMMA ReturnStep ==
    ASSUME IInv, Return
    PROVE  IInv'
  <1> DEFINE frame == stack[Len(stack)]
             outer == SubSeq(stack, 1, Len(stack) - 1)
             again == [frame EXCEPT !.left = @ - 1]
  <1>1. mode = "pack" /\ TypeInv /\ stack # <<>>
    BY DEF IInv, Return
  <1>2. /\ stack \in Seq(Frames) /\ Len(stack) \in Nat /\ Len(stack) >= 1
        /\ Len(format) \in Nat /\ position \in Nat \ {0}
    <2>1. stack \in Seq(Frames) /\ format \in Seq(STRING) /\ position \in Nat \ {0}
      BY <1>1 DEF TypeInv
    <2>2. Len(stack) \in Nat /\ Len(format) \in Nat /\ Len(stack) # 0
      BY <1>1, <2>1, LenProperties, EmptySeq
    <2> QED
      BY <2>1, <2>2
  <1>3. frame \in Frames
    BY <1>2, ElementOfSeq
  <1>4. outer \in Seq(Frames)
    <2>1. \A i \in 1 .. Len(stack) - 1 : stack[i] \in Frames
      BY <1>2, ElementOfSeq
    <2>2. 1 \in Int /\ Len(stack) - 1 \in Int
      BY <1>2
    <2> QED
      BY <2>1, <2>2, SubSeqProperties
  <1>5. /\ frame.start \in 1 .. Len(format) + 1 /\ frame.byteOrder \in byteOrders
        /\ again \in Frames
    BY <1>3 DEF Frames
  <1>6. CASE /\ frame.left > 0
             /\ stack' = Append(outer, again)
             /\ position' = frame.start /\ byteOrder' = frame.byteOrder
             /\ UNCHANGED <<mode, format, offset, bytes, fields, results>>
    <2> HIDE DEF frame, outer, again
    <2>1. stack' \in Seq(Frames)
      BY <1>4, <1>5, <1>6, AppendProperties
    <2>2. position' \in Nat \ {0} /\ position' <= Len(format) + 1 /\ byteOrder' \in byteOrders
      BY <1>2, <1>5, <1>6
    <2> QED
      BY <1>1, <1>6, <2>1, <2>2, QuietStep
  <1>7. CASE throw
    BY <1>7 DEF throw, IInv
  <1>8. CASE /\ ~ended /\ stack' = outer
             /\ position' = position + 1 /\ byteOrder' = frame.byteOrder
             /\ UNCHANGED <<mode, format, offset, bytes, fields, results>>
    <2> HIDE DEF frame, outer, again
    <2>1. position' \in Nat \ {0} /\ position' <= Len(format) + 1
      BY <1>1, <1>8, AtFacts
    <2> QED
      BY <1>1, <1>4, <1>5, <1>8, <2>1, QuietStep
  <1> QED
    BY <1>6, <1>7, <1>8 DEF Return

LEMMA IInvNext ==
    ASSUME IInv, [Next]_vars
    PROVE  IInv'
  <1>1. CASE NotEnoughData
    BY <1>1 DEF NotEnoughData, throw, IInv
  <1>2. CASE Packed
    BY <1>2, SameFormat DEF Packed, IInv, TypeInv, LayoutInv, Aligned
  <1>3. CASE Take \/ UnpackAtom \/ Unpacked
    BY <1>3 DEF Take, UnpackAtom, Unpacked, throw, IInv
  <1>4. CASE UNCHANGED vars
    BY <1>4, SameFormat DEF vars, IInv, TypeInv, LayoutInv, Aligned
  <1> QED
    BY <1>1, <1>2, <1>3, <1>4, ChangeByteOrderStep, PackPaddingStep, PackAtomStep, PackArrayStep, ReturnStep
    DEF Next

LEMMA IInvTheorem == Spec => []IInv
  <1>1. Init => IInv
    BY InitFacts
  <1>2. IInv /\ [Next]_vars => IInv'
    BY IInvNext
  <1> QED
    BY <1>1, <1>2, PTL DEF Spec

\* Every field that packRecord writes is aligned for its type under "@", behind
\* the field before it and within the record.
THEOREM AlignedTheorem == Spec => []FieldsAligned
  <1>1. IInv => FieldsAligned
    <2> SUFFICES ASSUME IInv, mode \in {"pack", "packed"}
                 PROVE  /\ offset = Len(bytes)
                        /\ \A i \in DOMAIN fields :
                             /\ fields[i].order = "@" => fields[i].offset % getAlignment(fields[i].c) = 0
                             /\ fields[i].offset + fields[i].size
                                  <= IF i = Len(fields) THEN offset ELSE fields[i + 1].offset
      BY DEF FieldsAligned
    <2>1. TypeInv /\ LayoutInv
      BY DEF IInv
    <2>2. fields \in Seq(Fields) /\ Len(fields) \in Nat /\ DOMAIN fields = 1 .. Len(fields)
      BY <2>1, LenProperties DEF TypeInv
    <2> QED
      BY <2>1, <2>2 DEF LayoutInv, Aligned
  <1> QED
    BY <1>1, IInvTheorem, PTL
-----------------------------------------------------------------------------
\* recordSize goes over the format without packing anything: what it has after
\* each character is where packRecord is then, as long as there are neither
\* paddings nor lists.
Plain == ~contains_P({"x", "[", "]"})
After(o, p) ==
    IF format[p] \in byteOrders THEN o
    ELSE getSize(byteOrderAt(p), format[p])
           + IF byteOrderAt(p) = "@" THEN alignedTo(o, getAlignment(format[p])) ELSE o
IsSizes(g) ==
    /\ g \in [0 .. Len(format) -> Nat]
    /\ g[0] = 0
    /\ \A p \in 1 .. Len(format) : g[p] = After(g[p - 1], p)

SizeInv ==
    Plain => /\ stack = <<>>
             /\ byteOrder = byteOrderAt(position - 1)
             /\ \E g : IsSizes(g) /\ offset = g[position - 1]
\* What is packed is what the format says.
KindsInv == \A i \in 1 .. Len(fields) : \E p \in 1 .. Len(format) : fields[i].c = format[p]

PackedInv == mode \in {"pack", "packed"} => SizeInv /\ KindsInv /\ (mode = "packed" /\ Plain => ended)

LEMMA SameSizes ==
    ASSUME format' = format
    PROVE  /\ Plain' = Plain
           /\ \A p : byteOrderAt(p)' = byteOrderAt(p)
           /\ \A g : IsSizes(g)' = IsSizes(g)
  <1>1. Plain' = Plain
    BY DEF Plain, contains_P
  <1>2. \A p : byteOrderAt(p)' = byteOrderAt(p)
    BY DEF byteOrderAt
  <1>3. \A o, p : After(o, p)' = After(o, p)
    BY <1>2 DEF After
  <1>4. \A g : IsSizes(g)' = IsSizes(g)
    BY <1>3 DEF IsSizes
  <1> QED
    BY <1>1, <1>2, <1>4

\* The last byte order before a character applies to it.
LEMMA ByteOrderFacts ==
    ASSUME Len(format) \in Nat
    PROVE  /\ byteOrderAt(0) = "@"
           /\ \A p \in 1 .. Len(format) :
                  byteOrderAt(p) = IF format[p] \in byteOrders THEN format[p] ELSE byteOrderAt(p - 1)
  <1>1. byteOrderAt(0) = "@"
    BY DEF byteOrderAt
  <1>2. ASSUME NEW p \in 1 .. Len(format), format[p] \in byteOrders
        PROVE  byteOrderAt(p) = format[p]
    <2> DEFINE controls == {q \in 1 .. p : format[q] \in byteOrders}
    <2>1. p \in controls /\ controls # {}
      BY <1>2
    <2>2. \A q \in controls : q \in Int /\ p >= q
      OBVIOUS
    <2>3. p \in Int
      OBVIOUS
    <2>4. byteOrderAt(p) = format[Max(controls)]
      BY <2>1 DEF byteOrderAt
    <2> HIDE DEF controls
    <2>5. Max(controls) \in controls /\ Max(controls) >= p
      BY <2>1, <2>2, <2>3 DEF Max
    <2>6. Max(controls) = p
      BY <2>2, <2>3, <2>5
    <2> QED
      BY <2>4, <2>6
  <1>3. ASSUME NEW p \in 1 .. Len(format), format[p] \notin byteOrders
        PROVE  byteOrderAt(p) = byteOrderAt(p - 1)
    <2>1. {q \in 1 .. p : format[q] \in byteOrders} = {q \in 1 .. p - 1 : format[q] \in byteOrders}
      BY <1>3
    <2> QED
      BY <2>1 DEF byteOrderAt
  <1> QED
    BY <1>1, <1>2, <1>3

LEMMA AfterFacts ==
    ASSUME NEW o \in Nat, NEW p
    PROVE  After(o, p) \in Nat
  <1> DEFINE align == getAlignment(format[p])
             size == getSize(byteOrderAt(p), format[p])
  <1>1. size \in Nat /\ align \in {0, 1, 2, 4, 8}
    BY SizeFacts
  <1>2. After(o, p) = IF format[p] \in byteOrders THEN o
                      ELSE size + IF byteOrderAt(p) = "@" THEN alignedTo(o, align) ELSE o
    BY DEF After
  <1> HIDE DEF align, size
  <1>3. alignedTo(o, align) \in Nat
    BY <1>1, AlignedFacts
  <1> QED
    BY <1>1, <1>2, <1>3

\* Such a function there is, and it is the one that recordSize goes by.
LEMMA SizesExist ==
    ASSUME Len(format) \in Nat
    PROVE  \E g : IsSizes(g)
  <1> DEFINE m == Len(format)
             step == [q \in (1 .. m) \X Nat |-> After(q[2], q[1])]
  <1>1. step \in Steps(m, Nat)
    BY AfterFacts DEF Steps
  <1> HIDE DEF step
  <1>2. PICK g \in Values(m, Nat) : Recurses(g, 0, step, m)
    BY <1>1, Recursion
  <1>3. \A p \in 1 .. m : g[p] = After(g[p - 1], p)
    <2> SUFFICES ASSUME NEW p \in 1 .. m PROVE g[p] = After(g[p - 1], p)
      OBVIOUS
    <2>1. p - 1 \in 0 .. m
      OBVIOUS
    <2>2. g[p - 1] \in Nat /\ g[p] = step[<<p, g[p - 1]>>]
      BY <1>2, <2>1 DEF Values, Recurses
    <2> QED
      BY <2>2 DEF step
  <1> QED
    BY <1>2, <1>3 DEF IsSizes, Values, Recurses

LEMMA RecordSizeFacts ==
    ASSUME Len(format) \in Nat, NEW g, IsSizes(g)
    PROVE  recordSize = g[Len(format)]
  <1> DEFINE m == Len(format)
             def(h) == [p \in 0 .. m |->
                           IF p = 0 THEN 0
                           ELSE IF format[p] \in byteOrders THEN h[p - 1]
                           ELSE getSize(byteOrderAt(p), format[p])
                                  + IF byteOrderAt(p) = "@" THEN alignedTo(h[p - 1], getAlignment(format[p]))
                                    ELSE h[p - 1]]
             size == CHOOSE h : h = def(h)
  <1>1. \A h : \A p \in 1 .. m : def(h)[p] = After(h[p - 1], p)
    BY DEF After
  <1>2. \A h : def(h)[0] = 0 /\ def(h) = [p \in 0 .. m |-> def(h)[p]]
    OBVIOUS
  <1>3. recordSize = size[m]
    BY DEF recordSize
  <1> HIDE DEF def
  <1>4. g = def(g)
    <2>1. g = [p \in 0 .. m |-> g[p]]
      BY DEF IsSizes
    <2>2. \A p \in 0 .. m : g[p] = def(g)[p]
      <3> SUFFICES ASSUME NEW p \in 0 .. m PROVE g[p] = def(g)[p]
        OBVIOUS
      <3>1. CASE p = 0
        BY <1>2, <3>1 DEF IsSizes
      <3>2. CASE p \in 1 .. m
        BY <1>1, <3>2 DEF IsSizes
      <3> QED
        BY <3>1, <3>2
    <2> QED
      BY <1>2, <2>1, <2>2
  <1>5. size = def(size)
    BY <1>4
  <1> HIDE DEF size
  <1>6. size[0] = 0 /\ \A p \in 1 .. m : size[p] = After(size[p - 1], p)
    <2>1. size[0] = 0
      BY <1>2, <1>5
    <2>2. ASSUME NEW p \in 1 .. m
          PROVE  size[p] = After(size[p - 1], p)
      BY <1>1, <1>5
    <2> QED
      BY <2>1, <2>2
  <1> DEFINE same == {p \in 0 .. m : size[p] = g[p]}
  <1>7. 0 \in same
    BY <1>6 DEF IsSizes
  <1>8. \A p \in 0 .. m - 1 : p \in same => p + 1 \in same
    <2> SUFFICES ASSUME NEW p \in 0 .. m - 1, size[p] = g[p]
                 PROVE  size[p + 1] = g[p + 1]
      OBVIOUS
    <2>1. p + 1 \in 1 .. m /\ (p + 1) - 1 = p
      OBVIOUS
    <2>2. size[p + 1] = After(size[p], p + 1)
      BY <1>6, <2>1
    <2>3. g[p + 1] = After(g[p], p + 1)
      BY <2>1 DEF IsSizes
    <2> QED
      BY <2>2, <2>3
  <1> HIDE DEF same
  <1>9. \A p \in 0 .. m : p \in same
    BY <1>7, <1>8, UpInduction
  <1>10. m \in 0 .. m
    OBVIOUS
  <1> QED
    BY <1>3, <1>9, <1>10 DEF same

LEMMA PackedInit ==
    ASSUME Init
    PROVE  PackedInv
  <1>1. Len(format) \in Nat
    BY FormatsAssumption, LenProperties DEF Init
  <1>2. PICK g : IsSizes(g)
    BY <1>1, SizesExist
  <1>3. offset = g[position - 1] /\ position - 1 = 0
    BY <1>2 DEF Init, IsSizes
  <1>4. stack = <<>> /\ byteOrder = byteOrderAt(position - 1)
    BY <1>1, <1>3, ByteOrderFacts DEF Init
  <1>5. SizeInv
    BY <1>2, <1>3, <1>4 DEF SizeInv
  <1>6. KindsInv /\ mode # "packed"
    BY DEF Init, KindsInv
  <1> QED
    BY <1>5, <1>6 DEF PackedInv

\* The next character of a format without paddings and lists.
LEMMA NextSize ==
    ASSUME PackedInv, TypeInv, mode = "pack", mode' = mode, format' = format, ~ended,
           position' = position + 1, stack' = stack,
           Plain => byteOrder' = byteOrderAt(position),
           Plain /\ byteOrder = byteOrderAt(position - 1) => offset' = After(offset, position)
    PROVE  SizeInv'
  <1> SUFFICES ASSUME Plain PROVE /\ stack' = <<>>
                                  /\ byteOrder' = byteOrderAt(position' - 1)
                                  /\ \E g : IsSizes(g) /\ offset' = g[position' - 1]
    <2>1. Plain' = Plain /\ \A p : byteOrderAt(p)' = byteOrderAt(p)
      BY SameSizes
    <2>2. \A g : IsSizes(g)' = IsSizes(g)
      BY SameSizes
    <2>3. byteOrderAt(position - 1)' = byteOrderAt(position' - 1)
      BY DEF byteOrderAt
    <2> QED
      BY <2>1, <2>2, <2>3 DEF SizeInv
  <1>1. stack = <<>> /\ byteOrder = byteOrderAt(position - 1)
    BY DEF PackedInv, SizeInv
  <1>2. PICK g : IsSizes(g) /\ offset = g[position - 1]
    BY DEF PackedInv, SizeInv
  <1>3. position \in 1 .. Len(format) /\ position' - 1 = position
    BY AtFacts
  <1>4. offset' = g[position]
    BY <1>1, <1>2, <1>3 DEF IsSizes
  <1> QED
    BY <1>1, <1>2, <1>3, <1>4

\* With a padding or a list, nothing is said of the length.
LEMMA NotPlain ==
    ASSUME TypeInv, ~ended, format[position] \in {"x", "[", "]"}
    PROVE  ~Plain
  <1>1. position \in 1 .. Len(format)
    BY AtFacts
  <1>2. DOMAIN format = 1 .. Len(format)
    BY LenProperties DEF TypeInv
  <1> QED
    BY <1>1, <1>2 DEF Plain, contains_P

LEMMA PackedChangeByteOrder ==
    ASSUME IInv, PackedInv, ChangeByteOrder
    PROVE  PackedInv'
  <1>1. CASE mode = "pack"
    <2>1. /\ TypeInv /\ ~ended /\ format[position] \in byteOrders /\ byteOrder' = format[position]
          /\ position' = position + 1 /\ UNCHANGED <<mode, format, offset, stack, fields>>
      BY <1>1 DEF IInv, ChangeByteOrder, at
    <2>2. position \in 1 .. Len(format) /\ Len(format) \in Nat
      BY <2>1, AtFacts
    <2>3. byteOrder' = byteOrderAt(position)
      BY <2>1, <2>2, ByteOrderFacts
    <2>4. offset' = After(offset, position)
      BY <2>1 DEF After
    <2>5. SizeInv'
      BY <1>1, <2>1, <2>3, <2>4, NextSize
    <2>6. KindsInv'
      BY <1>1, <2>1 DEF PackedInv, KindsInv
    <2> QED
      BY <1>1, <2>1, <2>5, <2>6 DEF PackedInv
  <1>2. CASE mode # "pack"
    BY <1>2 DEF PackedInv, ChangeByteOrder
  <1> QED
    BY <1>1, <1>2

LEMMA PackedAtom ==
    ASSUME IInv, PackedInv, PackAtom
    PROVE  PackedInv'
  <1>1. mode = "pack" /\ TypeInv /\ ~ended /\ KindsInv
    BY DEF IInv, PackedInv, PackAtom
  <1> DEFINE c == format[position]
             size == getSize(byteOrder, c)
  <1>2. PICK node \in Data :
            /\ c \notin byteOrders
            /\ LET f == field(c, node)
               IN IF packable_P(c, size, node)
                  THEN /\ offset' = f.offset + size
                       /\ fields' = Append(fields, f)
                       /\ position' = position + 1
                       /\ UNCHANGED <<mode, format, byteOrder, stack, results>>
                  ELSE mode' = "refused"
    BY DEF PackAtom
  <1>3. CASE ~packable_P(c, size, node)
    BY <1>2, <1>3 DEF PackedInv
  <1>4. CASE packable_P(c, size, node)
    <2>1. /\ offset' = startOf(c) + size /\ position' = position + 1
          /\ UNCHANGED <<mode, format, byteOrder, stack>>
          /\ fields' = Append(fields, field(c, node)) /\ field(c, node).c = c
      BY <1>2, <1>4 DEF field
    <2>2. position \in 1 .. Len(format) /\ Len(format) \in Nat
      BY <1>1, AtFacts
    <2>3. byteOrderAt(position) = byteOrderAt(position - 1)
      BY <1>2, <2>2, ByteOrderFacts
    <2>4. Plain => byteOrder' = byteOrderAt(position)
      BY <1>1, <2>1, <2>3 DEF PackedInv, SizeInv
    <2>5. Plain /\ byteOrder = byteOrderAt(position - 1) => offset' = After(offset, position)
      <3>1. size \in Nat
        BY SizeFacts
      <3>2. offset \in Nat /\ getAlignment(c) \in {0, 1, 2, 4, 8}
        BY <1>1, SizeFacts DEF TypeInv
      <3>3. startOf(c) = (IF byteOrder = "@" THEN alignedTo(offset, getAlignment(c)) ELSE offset)
            /\ startOf(c) \in Nat
        BY <3>2, AlignedFacts DEF startOf
      <3>4. byteOrder = byteOrderAt(position - 1) => After(offset, position) = size + startOf(c)
        BY <1>2, <2>3, <3>3 DEF After
      <3> HIDE DEF size, c
      <3> QED
        BY <2>1, <3>1, <3>3, <3>4
    <2>6. SizeInv'
      BY <1>1, <2>1, <2>4, <2>5, NextSize
    <2>7. KindsInv'
      <3>1. fields \in Seq(Fields) /\ fields' \in Seq(Fields \union {field(c, node)})
            /\ Len(fields') = Len(fields) + 1 /\ Len(fields) \in Nat
            /\ (\A i \in 1 .. Len(fields) : fields'[i] = fields[i])
            /\ fields'[Len(fields) + 1] = field(c, node)
        <4>1. fields \in Seq(Fields)
          BY <1>1 DEF TypeInv
        <4>2. fields \in Seq(Fields \union {field(c, node)}) /\ Len(fields) \in Nat
          BY <4>1, LenProperties
        <4> QED
          BY <2>1, <4>1, <4>2, AppendProperties
      <3> HIDE DEF c
      <3>2. ASSUME NEW i \in 1 .. Len(fields')
            PROVE  \E p \in 1 .. Len(format) : fields'[i].c = format[p]
        <4>1. CASE i \in 1 .. Len(fields)
          BY <1>1, <3>1, <4>1 DEF KindsInv
        <4>2. CASE i = Len(fields) + 1
          BY <2>1, <2>2, <3>1, <4>2 DEF c
        <4> QED
          BY <3>1, <4>1, <4>2
      <3> QED
        BY <2>1, <3>2 DEF KindsInv
    <2> QED
      BY <1>1, <2>1, <2>6, <2>7 DEF PackedInv
  <1> QED
    BY <1>3, <1>4

LEMMA PackedNext ==
    ASSUME IInv, PackedInv, [Next]_vars
    PROVE  PackedInv'
  <1>1. ASSUME mode = "pack", mode' = "pack", ~Plain, UNCHANGED <<format, fields>>
        PROVE  PackedInv'
    <2>1. ~Plain'
      BY <1>1, SameSizes
    <2> QED
      BY <1>1, <2>1 DEF PackedInv, SizeInv, KindsInv
  <1>2. CASE NotEnoughData
    BY <1>2 DEF NotEnoughData, throw, PackedInv
  <1>3. CASE PackPadding
    <2>1. ~Plain
      BY <1>3, NotPlain DEF PackPadding, at, IInv
    <2> QED
      BY <1>1, <1>3, <2>1 DEF PackPadding
  <1>4. CASE PackArray
    <2>1. ~Plain
      BY <1>4, NotPlain DEF PackArray, at, IInv
    <2>2. CASE throw
      BY <2>2 DEF throw, PackedInv
    <2> QED
      BY <1>1, <1>4, <2>1, <2>2 DEF PackArray
  <1>5. CASE Return
    <2>1. ~Plain
      BY <1>5 DEF Return, PackedInv, SizeInv
    <2>2. CASE throw
      BY <2>2 DEF throw, PackedInv
    <2> QED
      BY <1>1, <1>5, <2>1, <2>2 DEF Return
  <1>6. ASSUME mode \in {"pack", "packed"}, UNCHANGED <<format, position, byteOrder, offset, stack, fields>>
        PROVE  SizeInv' /\ KindsInv' /\ (Plain' = Plain) /\ (ended' = ended)
    <2>1. Plain' = Plain /\ \A p : byteOrderAt(p)' = byteOrderAt(p)
      BY <1>6, SameSizes
    <2>2. \A g : IsSizes(g)' = IsSizes(g)
      BY <1>6, SameSizes
    <2>3. byteOrderAt(position - 1)' = byteOrderAt(position - 1)
      BY <1>6 DEF byteOrderAt
    <2> QED
      BY <1>6, <2>1, <2>2, <2>3 DEF PackedInv, SizeInv, KindsInv, ended
  <1>7. CASE Packed
    <2>1. Plain => ended
      <3>1. CASE at("]")
        BY <1>7, <3>1, NotPlain DEF at, IInv, Packed
      <3> QED
        BY <1>7, <3>1 DEF Packed
    <2> QED
      BY <1>6, <1>7, <2>1 DEF Packed, PackedInv
  <1>8. CASE Take \/ UnpackAtom \/ Unpacked
    BY <1>8 DEF Take, UnpackAtom, Unpacked, throw, PackedInv
  <1>9. CASE UNCHANGED vars
    BY <1>6, <1>9 DEF vars, PackedInv
  <1> QED
    BY <1>2, <1>3, <1>4, <1>5, <1>7, <1>8, <1>9, PackedChangeByteOrder, PackedAtom DEF Next

\* Without paddings and lists, recordSize knows the length of the record that
\* packRecord makes; whatever the format, the collector finds the pointers in the
\* room that is allocated for it.
THEOREM SizeTheorem == Spec => []SizeIsPackedLength
  <1>1. PackedInv /\ IInv => SizeIsPackedLength
    <2> SUFFICES ASSUME PackedInv, IInv, mode = "packed"
                 PROVE  /\ Plain => recordSize = Len(bytes)
                        /\ \A room \in Allocated, i \in DOMAIN fields :
                               fields[i].c \in pointers \union nilables => ~room.atomic
      BY DEF SizeIsPackedLength, Plain
    <2>1. TypeInv /\ LayoutInv /\ SizeInv /\ KindsInv /\ (Plain => ended)
      BY DEF PackedInv, IInv
    <2>2. /\ Len(format) \in Nat /\ DOMAIN format = 1 .. Len(format)
          /\ DOMAIN fields = 1 .. Len(fields) /\ position \in Nat /\ position <= Len(format) + 1
      BY <2>1, LenProperties DEF TypeInv
    <2>3. ASSUME Plain PROVE recordSize = Len(bytes)
      <3>1. PICK g : IsSizes(g) /\ offset = g[position - 1]
        BY <2>1, <2>3 DEF SizeInv
      <3>2. position - 1 = Len(format)
        BY <2>1, <2>2, <2>3 DEF ended
      <3> QED
        BY <2>1, <2>2, <3>1, <3>2, RecordSizeFacts DEF LayoutInv
    <2>4. ASSUME NEW room \in Allocated, NEW i \in DOMAIN fields, fields[i].c \in pointers \union nilables
          PROVE  ~room.atomic
      <3>1. hasPointers_P
        BY <2>1, <2>2, <2>4 DEF KindsInv, hasPointers_P, contains_P
      <3>2. Allocated = allocated(recordSize, FALSE)
        BY <3>1 DEF Allocated
      <3>3. room = [size |-> recordSize, atomic |-> FALSE]
        BY <3>2 DEF allocated
      <3> QED
        BY <3>3
    <2> QED
      BY <2>3, <2>4
  <1>2. Init => PackedInv
    BY PackedInit
  <1>3. IInv /\ PackedInv /\ [Next]_vars => PackedInv'
    BY PackedNext
  <1> QED
    BY <1>1, <1>2, <1>3, IInvTheorem, PTL DEF Spec
=============================================================================
