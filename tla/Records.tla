------------------------------ MODULE Records ------------------------------
(* packRecord, recordSize and unpackRecord: values laid out for C, field by *)
(* field, as a format says, and read back.  One step per character of the   *)
(* format.  Data is a list that is chosen as the format asks for it.        *)
EXTENDS Integers, Sequences, FiniteSetsExt

CONSTANTS B,           \* bits of a byte (8 in the source)
          Interned,    \* words below this are preallocated Integers (256 in the source)
          Formats,     \* sequences of characters
          Data,        \* heads of lists: integers, boxes and nil
          MaxElements  \* bound: length of a list for "["
ASSUME BAssumption == B \in Nat \ {0}
ASSUME FormatsAssumption == Formats \subseteq Seq(STRING)
ASSUME MaxElementsAssumption == MaxElements \in Nat

VARIABLES mode,      \* what is done: pack, packed, unpack, unpacked; threw, or refused a value
          format, position, byteOrder,
          offset,    \* into the bytes
          stack,     \* calls of Record_pack for lists in progress: where they start, the lists left
          bytes,     \* the packed record
          fields,    \* what was packed, and where
          results    \* what was unpacked
vars == <<mode, format, position, byteOrder, offset, stack, bytes, fields, results>>

integer(v) == [type |-> "Integer", value |-> v]
box(v) == [type |-> "Box", value |-> v]
str(v) == [type |-> "Str", value |-> v]
nil == [type |-> "nil", value |-> 0]

signed == {"b", "h", "i", "l", "q"}
unsigned == {"B", "H", "I", "L", "Q"}
pointers == {"p", "s", "z"}
nilables == {"P", "S", "Z"}
byteOrders == {"<", ">", "=", "@"}

(* Only "@" knows the size of a long, and only the others that of an "x".   *)
getSize(order, c) ==
  CASE c \in {"b", "B"} -> 1
    [] c \in {"h", "H"} -> 2
    [] c \in {"i", "I"} -> 4
    [] c \in {"l", "L"} -> IF order = "@" THEN 8 ELSE 4
    [] c \in {"q", "Q"} \union pointers \union nilables -> 8
    [] c = "x" -> IF order = "@" THEN 0 ELSE 1
    [] OTHER -> 0
(* Of "@".  Zero for what has no alignment.                                 *)
getAlignment(c) == IF c = "v" THEN 1 ELSE getSize("@", c)
(* A mutant of alignedTo: rounds down.                                      *)
alignedDown(o, align) == IF align = 0 THEN 0 ELSE o - (o % align)
(* (o + align - 1) & ~(align - 1), in which an alignment of zero resets.    *)
alignedTo(o, align) == IF align = 0 THEN 0 ELSE (o + align - 1) - ((o + align - 1) % align)

-----------------------------------------------------------------------------
(* Packing atoms.                                                           *)
bit_P(v, k) == (v \div 2 ^ k) % 2 = 1
(* A mutant of forbidden: the sign bit of the type is not counted.          *)
forbiddenButSign(c, size) ==
  IF size < 4 THEN B * size .. 8 * B - 1 ELSE {IF c \in signed THEN 4 * B - 1 ELSE 4 * B}
(* The bits that the range check wants to be zero.  The limit is computed   *)
(* as an int: of wider atoms it leaves one bit to check.                    *)
forbidden(c, size) ==
  IF size < 4 THEN (IF c \in signed THEN B * size - 1 ELSE B * size) .. 8 * B - 1
  ELSE {IF c \in signed THEN 4 * B - 1 ELSE 4 * B}
(* What is refused.                                                         *)
outOfRange_P(c, size, v) ==
  \/ c \in unsigned /\ v < 0
  \/ \E k \in forbidden(c, size) : bit_P(IF v < 0 THEN -v - 1 ELSE v, k)

(* The nodes that a format character can pack at all.                       *)
convertible_P(c, node) ==
  CASE c \in signed \union unsigned -> node.type = "Integer"
    [] c \in pointers -> node.type = "Box"
    [] c \in nilables -> node.type \in {"Box", "nil"}
    [] OTHER -> c = "v"
packable_P(c, size, node) ==
  /\ convertible_P(c, node)
  /\ c \in signed \union unsigned => ~outOfRange_P(c, size, node.value)

(* Bytes of the lowest first, or of the highest first.                      *)
inByteOrder(order, s) == IF order = ">" THEN [k \in DOMAIN s |-> s[Len(s) + 1 - k]] ELSE s
encoded(order, size, v) == inByteOrder(order, [k \in 1 .. size |-> (v \div 2 ^ (B * (k - 1))) % 2 ^ B])

-----------------------------------------------------------------------------
(* Unpacking atoms.  Of a long that has less bytes than a variable of C,    *)
(* the others are never written.                                            *)
oddPart(v) == v \div Max({p \in {2 ^ k : k \in 0 .. 8 * B - 1} : v % p = 0})
internNativeU(v) == IF v < Interned THEN v ELSE oddPart(v)
asSigned(v, size) == IF v >= 2 ^ (B * size - 1) THEN v - 2 ^ (B * size) ELSE v
unwritten(order, c) == 0 .. 2 ^ (B * (getSize("@", c) - getSize(order, c))) - 1

decoded(order, c, coded, rest) ==
  LET s == inByteOrder(order, coded)
      word == MapThenSumSet(LAMBDA k : s[k] * 2 ^ (B * (k - 1)), DOMAIN s)
      value == word + rest * 2 ^ (B * Len(coded))
  IN CASE c \in signed -> integer(asSigned(value, getSize("@", c)))
       [] c \in {"L", "Q"} -> integer(internNativeU(value))
       [] c \in unsigned \ {"L", "Q"} -> integer(value)
       [] c \in {"p", "P"} -> IF value = 0 THEN nil ELSE box(value)
       [] c \in {"s", "z", "S", "Z"} -> IF value = 0 THEN nil ELSE str(value)
       [] OTHER -> nil
(* What unpackRecord can read at all; the arrays that packRecord writes are *)
(* not among it.                                                            *)
unpackable_P(c) == c \in signed \union unsigned \union pointers \union nilables \union {"v"}

-----------------------------------------------------------------------------
Init ==
  /\ format \in Formats
  /\ mode = "pack" /\ position = 1 /\ byteOrder = "@" /\ offset = 0 /\ stack = <<>>
  /\ bytes = <<>> /\ fields = <<>> /\ results = <<>>

ended == position > Len(format)
at(c) == ~ended /\ format[position] = c
throw == mode' = "threw" /\ UNCHANGED <<format, position, byteOrder, offset, stack, bytes, fields, results>>
zeros(n) == [i \in 1 .. n |-> 0]

(* In either direction a byte order applies to what follows it.             *)
ChangeByteOrder ==
  /\ mode \in {"pack", "unpack"}
  /\ \E order \in byteOrders : at(order) /\ byteOrder' = order
  /\ position' = position + 1
  /\ UNCHANGED <<mode, format, offset, stack, bytes, fields, results>>

PackPadding ==
  /\ mode = "pack" /\ at("x")
  /\ bytes' = Append(bytes, 0) /\ offset' = offset + 1 /\ position' = position + 1
  /\ UNCHANGED <<mode, format, byteOrder, stack, fields, results>>

(* The character needs a datum, of which the list has none left.            *)
NotEnoughData ==
  /\ mode = "pack" /\ ~ended /\ format[position] \notin byteOrders \union {"x", "]"}
  /\ throw

startOf(c) == IF byteOrder = "@" THEN alignedTo(offset, getAlignment(c)) ELSE offset
field(c, node) ==
  [c |-> c, order |-> byteOrder, node |-> node, offset |-> startOf(c), size |-> getSize(byteOrder, c)]
PackAtom ==
  /\ mode = "pack" /\ ~ended
  /\ \E c \in {format[position]}, node \in Data :
       /\ c \notin byteOrders \union {"x", "[", "]"}
       /\ LET size == getSize(byteOrder, c)
              f == field(c, node)
          IN IF packable_P(c, size, node)
             THEN /\ bytes' = bytes \o zeros(f.offset - offset) \o encoded(byteOrder, size, node.value)
                  /\ offset' = f.offset + size
                  /\ fields' = Append(fields, f)
                  /\ position' = position + 1
                  /\ UNCHANGED <<mode, format, byteOrder, stack, results>>
             ELSE /\ mode' = "refused" /\ fields' = Append(fields, f)
                  /\ UNCHANGED <<format, position, byteOrder, offset, stack, bytes, results>>

(* Record_skip_format: to the bracket that closes the one before `from`.    *)
depth(from, to) ==
  Cardinality({p \in from .. to : format[p] = "["}) - Cardinality({p \in from .. to : format[p] = "]"})
closing(from) == Min({p \in from .. Len(format) : depth(from, p) < 0} \union {Len(format) + 1})

(* The datum for "[" is a list of lists, each of which is packed by a call  *)
(* that starts behind the bracket.  For an empty one that part is skipped.  *)
PackArray ==
  /\ mode = "pack" /\ at("[")
  /\ \/ \E n \in 1 .. MaxElements :
          /\ stack' = Append(stack, [start |-> position + 1, byteOrder |-> byteOrder, left |-> n - 1])
          /\ position' = position + 1
          /\ UNCHANGED <<mode, format, byteOrder, offset, bytes, fields, results>>
     \/ /\ closing(position + 1) <= Len(format)
        /\ position' = closing(position + 1) + 1
        /\ UNCHANGED <<mode, format, byteOrder, offset, stack, bytes, fields, results>>
     \/ closing(position + 1) > Len(format) /\ throw
(* A call of Record_pack returns.  Its caller has the byte order that it    *)
(* had before.                                                              *)
Return ==
  /\ mode = "pack" /\ (ended \/ at("]")) /\ stack # <<>>
  /\ LET frame == stack[Len(stack)]
         outer == SubSeq(stack, 1, Len(stack) - 1)
     IN IF frame.left > 0
        THEN /\ stack' = Append(outer, [frame EXCEPT !.left = @ - 1])
             /\ position' = frame.start /\ byteOrder' = frame.byteOrder
             /\ UNCHANGED <<mode, format, offset, bytes, fields, results>>
        ELSE IF ended THEN throw
        ELSE /\ stack' = outer
             /\ position' = position + 1 /\ byteOrder' = frame.byteOrder
             /\ UNCHANGED <<mode, format, offset, bytes, fields, results>>
Packed ==
  /\ mode = "pack" /\ (ended \/ at("]")) /\ stack = <<>>
  /\ mode' = "packed"
  /\ UNCHANGED <<format, position, byteOrder, offset, stack, bytes, fields, results>>

-----------------------------------------------------------------------------
(* Record_get_size and Record_has_pointers.                                 *)
byteOrderAt(p) ==
  LET controls == {q \in 1 .. p : format[q] \in byteOrders}
  IN IF controls = {} THEN "@" ELSE format[Max(controls)]

(* A mutant of recordSize: without alignment.                               *)
recordSizeUnaligned ==
  MapThenSumSet(LAMBDA p : getSize(byteOrderAt(p), format[p]), {p \in DOMAIN format : format[p] \notin byteOrders})

recordSize ==
  LET size[p \in 0 .. Len(format)] ==
        IF p = 0 THEN 0
        ELSE IF format[p] \in byteOrders THEN size[p - 1]
        ELSE getSize(byteOrderAt(p), format[p])
               + IF byteOrderAt(p) = "@" THEN alignedTo(size[p - 1], getAlignment(format[p])) ELSE size[p - 1]
  IN size[Len(format)]
contains_P(C) == \E p \in DOMAIN format : format[p] \in C
hasPointers_P == contains_P(pointers \union nilables)

(* Room for what C writes.  The collector searches it if it is not atomic.  *)
allocated(size, atomic) == IF size < 1 THEN {} ELSE {[size |-> size, atomic |-> atomic]}
(* allocateRecord!.  Without a pointer, a bracket is never found closed.    *)
Allocated == IF contains_P({"["}) /\ ~hasPointers_P THEN {} ELSE allocated(recordSize, ~hasPointers_P)
duplicateRecord(s) == {s : room \in allocated(Len(s), FALSE)}

(* Strs as lists of bytes, and as text up to the first zero.                *)
listFromStr(s) == [i \in DOMAIN s |-> integer(s[i])]
strFromList(list) ==
  IF \A i \in DOMAIN list : list[i].value \in 0 .. 2 ^ B - 1 THEN {[i \in DOMAIN list |-> list[i].value]} ELSE {}
strUntilZero(s) == {SubSeq(s, 1, end - 1) : end \in {k \in DOMAIN s : s[k] = 0 /\ \A j \in 1 .. k - 1 : s[j] # 0}}

(* substr, of which negative bounds count from the end.                     *)
substr(beginning, end, s) ==
  LET from == IF beginning < 0 THEN Max({Len(s) + beginning, 0}) ELSE beginning
      to == Min({IF end < 0 THEN Len(s) + end ELSE end, Len(s)})
  IN SubSeq(s, from + 1, to)

(* unpackRecord is given the record or the beginning of it, or what a       *)
(* program has copied of it.                                                *)
Take ==
  /\ mode = "packed" /\ mode' = "unpack"
  /\ \/ \E end \in {Len(bytes), -1} : bytes' = substr(-Len(bytes), end, bytes)
     \/ bytes' \in strFromList(listFromStr(bytes)) \union duplicateRecord(bytes) \union strUntilZero(bytes)
  /\ position' = 1 /\ byteOrder' = "@" /\ offset' = 0
  /\ UNCHANGED <<format, stack, fields, results>>

UnpackAtom ==
  /\ mode = "unpack" /\ ~ended
  /\ \E c \in {format[position]} :
       /\ c \notin byteOrders
       /\ LET size == getSize(byteOrder, c)
              start == startOf(c)
          IN IF bytes = <<>> \/ start < offset \/ start + size > Len(bytes) \/ ~unpackable_P(c) THEN throw
             ELSE \E rest \in unwritten(byteOrder, c) :
                    LET node == decoded(byteOrder, c, SubSeq(bytes, start + 1, start + size), rest)
                    IN IF c \in pointers /\ node = nil THEN throw
                       ELSE /\ results' = Append(results, node)
                            /\ offset' = start + size /\ position' = position + 1
                            /\ UNCHANGED <<mode, format, byteOrder, stack, bytes, fields>>
Unpacked ==
  /\ mode = "unpack" /\ ended
  /\ mode' = "unpacked"
  /\ UNCHANGED <<format, position, byteOrder, offset, stack, bytes, fields, results>>

Next == \/ ChangeByteOrder \/ PackPadding \/ NotEnoughData \/ PackAtom \/ PackArray \/ Return \/ Packed
        \/ Take \/ UnpackAtom \/ Unpacked

Spec == Init /\ [][Next]_vars

-----------------------------------------------------------------------------
(* What an atom of the given size can hold.                                 *)
rangeOf(c, size) ==
  IF c \in signed THEN -(2 ^ (B * size - 1)) .. 2 ^ (B * size - 1) - 1 ELSE 0 .. 2 ^ (B * size) - 1
fits_P(f) == f.c \in signed \union unsigned /\ f.node.type = "Integer" => f.node.value \in rangeOf(f.c, f.size)

(* Where packRecord puts a field, C finds it: aligned for its type where    *)
(* the byte order asks for that, behind all fields before it and within the *)
(* record, whatever lists, paddings and byte orders came between.           *)
FieldsAligned ==
  mode \in {"pack", "packed"} =>
    /\ offset = Len(bytes)
    /\ \A i \in DOMAIN fields :
         /\ fields[i].order = "@" => fields[i].offset % getAlignment(fields[i].c) = 0
         /\ fields[i].offset + fields[i].size
              <= IF i = Len(fields) THEN offset ELSE fields[i + 1].offset

(* recordSize, which packs nothing, knows the length of the record that     *)
(* packRecord makes.  Not with "x" or lists.  In the room that is allocated *)
(* for any record, the collector finds the pointers.                        *)
SizeIsPackedLength ==
  mode = "packed" =>
    /\ ~contains_P({"x", "[", "]"}) => recordSize = Len(bytes)
    /\ \A room \in Allocated, i \in DOMAIN fields : fields[i].c \in pointers \union nilables => ~room.atomic

(* packRecord refuses an integer only if it does not fit (but 8 bytes with a *)
(* certain bit), and unpackRecord results in what packRecord was given, even*)
(* of a part of the record.  Left out: values of 4 and 8 bytes that the range check lets     *)
(* pass although they do not fit, longs outside "@", and numbers of 8 bytes *)
(* without sign unless they are preallocated.  Of strs the text is copied,  *)
(* and NULL comes back as nil.                                              *)
exempt_P(f) ==
  \/ f.size >= 4 /\ ~fits_P(f)
  \/ f.c \in {"l", "L"} /\ f.size = 4
  \/ f.c \in {"L", "Q"} /\ f.node.value >= Interned
same_P(f, result) ==
  CASE f.c \in nilables \union {"s", "z"} -> result.value = f.node.value
    [] f.c = "v" -> result = nil
    [] OTHER -> result = f.node
UnpackInvertsPack ==
  /\ mode = "unpacked" =>
       /\ Len(results) = Len(fields)
       /\ \A i \in DOMAIN results : exempt_P(fields[i]) \/ same_P(fields[i], results[i])
  /\ mode = "refused" =>
       LET f == fields[Len(fields)] IN f.size < 8 /\ convertible_P(f.c, f.node) => ~fits_P(f)
=============================================================================
