------------------------- MODULE ModuleLoaderProofs -------------------------
(***************************************************************************)
(* Proofs about ModuleLoader: for any files, imports between them, orders  *)
(* of forcing them and exceptions.                                         *)
(*                                                                         *)
(* A load in progress is in the table (so that it does not begin again)    *)
(* and only once on the stack (so that its end leaves no second load of it *)
(* behind without its placeholder).                                        *)
(*                                                                         *)
(* The last part is about the Hashtable that the modules are kept in, and  *)
(* what a module exports, and the names in scope: for any keys, elements   *)
(* and hash function, and any number of entries and removals.              *)
(***************************************************************************)
EXTENDS Modules, Hashtable, SequenceTheorems, Induction, TLAPS

Frames == [file : Files, forced : SUBSET Files, array : Nat]

Types ==
    /\ stack \in Seq(Frames)
    /\ order \in Orders
    /\ fModules \in [Files -> {"absent", "loading", "module"}]
    /\ array \in Nat
    /\ commands \in 0 .. MaxCommands /\ throws \in 0 .. MaxThrows
    /\ loads \in [Files -> Nat]

InTable == \A i \in DOMAIN stack : fModules[stack[i].file] # "absent"
ForcedImports == \A i \in DOMAIN stack : stack[i].forced \subseteq Imports[stack[i].file]
\* Each load but the outermost was required by the one it is in.
Chain == \A i \in DOMAIN stack :
             i + 1 \in DOMAIN stack => stack[i + 1].file \in Imports[stack[i].file]
OnStackOnce == \A i, j \in DOMAIN stack : stack[i].file = stack[j].file => i = j

IInv ==
    /\ Types
    /\ InTable
    /\ ForcedImports
    /\ Chain
    /\ OnStackOnce
    /\ LoadedOnce
    /\ PlaceholderMeansLoading

-----------------------------------------------------------------------------
(* The initial state satisfies the invariant: nothing was required. *)
LEMMA InitIInv == Init => IInv
BY FilesAssumption, BoundsAssumption
   DEF Init, IInv, Types, InTable, ForcedImports, Chain, OnStackOnce,
       LoadedOnce, PlaceholderMeansLoading, loading_P

(* What stays true when a file that is not in the table gets its placeholder *)
(* and becomes the innermost load, whoever required it.                      *)
LEMMA BeginLoadIInv ==
    ASSUME IInv, NEW file \in Files, fModules[file] = "absent", BeginLoad(file),
           stack # <<>> => file \in Imports[innermost.file],
           UNCHANGED order, throws' = throws, commands' \in 0 .. MaxCommands
    PROVE  IInv'
<1> DEFINE new == load(file, array')
<1>1. array' \in Nat
  BY DEF BeginLoad, IInv, Types
<1>2. new \in Frames /\ new.file = file /\ new.forced = {}
  BY <1>1 DEF load, Frames
<1>3. stack \in Seq(Frames) /\ stack' = Append(stack, new)
  BY DEF BeginLoad, IInv, Types
<1> HIDE DEF new
<1>4. /\ stack' \in Seq(Frames)
      /\ Len(stack') = Len(stack) + 1
      /\ DOMAIN stack' = DOMAIN stack \cup {Len(stack) + 1}
      /\ \A i \in DOMAIN stack : stack'[i] = stack[i] /\ i # Len(stack) + 1
      /\ stack'[Len(stack) + 1] = new
  BY <1>2, <1>3
<1>5. Types'
  BY <1>1, <1>4 DEF BeginLoad, IInv, Types
<1>6. \A i \in DOMAIN stack : stack[i].file \in Files /\ stack[i].file # file
  <2> SUFFICES ASSUME NEW i \in DOMAIN stack
               PROVE  stack[i].file \in Files /\ stack[i].file # file
    OBVIOUS
  <2>1. stack[i] \in Frames
    BY <1>3
  <2> QED
    BY <2>1 DEF IInv, InTable, Frames
<1>7. /\ \A other \in Files \ {file} : /\ fModules'[other] = fModules[other]
                                       /\ loads'[other] = loads[other]
      /\ fModules'[file] = "loading" /\ loads'[file] = loads[file] + 1
  BY DEF BeginLoad, IInv, Types
<1>8. InTable'
  BY <1>2, <1>4, <1>6, <1>7 DEF IInv, InTable
<1>9. ForcedImports'
  BY <1>2, <1>4 DEF IInv, ForcedImports
<1>10. OnStackOnce' /\ Chain'
  BY <1>2, <1>3, <1>4, <1>6, EmptySeq DEF IInv, OnStackOnce, Chain, innermost
<1>11. LoadedOnce'
  BY <1>7 DEF IInv, Types, LoadedOnce
<1>12. loading_P(file)' /\ \A other \in Files \ {file} : loading_P(other)' = loading_P(other)
  BY <1>2, <1>4 DEF loading_P
<1>13. PlaceholderMeansLoading'
  BY <1>7, <1>12 DEF IInv, PlaceholderMeansLoading
<1> QED
  BY <1>5, <1>8, <1>9, <1>10, <1>11, <1>13 DEF IInv

(* What the placeholder and the load count depend on: nothing else matters. *)
LEMMA SameFilesIInv ==
    ASSUME IInv, Types', UNCHANGED <<order, fModules, loads>>, throws' = throws,
           DOMAIN stack' = DOMAIN stack,
           \A i \in DOMAIN stack : /\ stack'[i].file = stack[i].file
                                   /\ stack'[i].forced \subseteq Imports[stack[i].file]
    PROVE  IInv'
<1>1. InTable' /\ ForcedImports' /\ Chain' /\ OnStackOnce'
  BY DEF IInv, InTable, ForcedImports, Chain, OnStackOnce
<1>2. LoadedOnce'
  BY DEF IInv, LoadedOnce
<1>3. \A file : loading_P(file)' = loading_P(file)
  BY DEF loading_P
<1>4. PlaceholderMeansLoading'
  BY <1>3 DEF IInv, PlaceholderMeansLoading
<1> QED
  BY <1>1, <1>2, <1>4 DEF IInv

(* The frame of a load is the last one that a required import is marked in. *)
LEMMA RequiredOnTop ==
    ASSUME NEW s \in Seq(Frames), s # <<>>, NEW file \in Files
    PROVE  LET marked == [s EXCEPT ![Len(s)] = required(@, file)]
           IN  /\ marked \in Seq(Frames) /\ DOMAIN marked = DOMAIN s
               /\ \A i \in DOMAIN s :
                      /\ marked[i].file = s[i].file
                      /\ i # Len(s) => marked[i].forced = s[i].forced
               /\ marked[Len(s)].forced = s[Len(s)].forced \cup {file}
<1> DEFINE top == required(s[Len(s)], file)
           marked == [s EXCEPT ![Len(s)] = top]
<1>1. Len(s) \in 1 .. Len(s)
  BY EmptySeq
<1>2. top \in Frames /\ top.file = s[Len(s)].file /\ top.forced = s[Len(s)].forced \cup {file}
  <2>1. s[Len(s)] \in Frames
    BY <1>1
  <2> QED
    BY <2>1 DEF required, Frames
<1> HIDE DEF top
<1>3. marked \in Seq(Frames) /\ DOMAIN marked = DOMAIN s
  BY <1>1, <1>2
<1>4. marked[Len(s)] = top /\ \A i \in DOMAIN s : i # Len(s) => marked[i] = s[i]
  BY <1>1
<1>5. [s EXCEPT ![Len(s)] = required(@, file)] = marked
  BY DEF top
<1> QED
  BY <1>1, <1>2, <1>3, <1>4, <1>5
-----------------------------------------------------------------------------
(* The end of a load takes its placeholder away and its frame off the stack. *)
LEMMA EndLoadIInv == ASSUME IInv, EndLoad PROVE IInv'
<1> DEFINE file == innermost.file
           outer == SubSeq(stack, 1, Len(stack) - 1)
           written == Written(innermost)
<1>1. /\ stack \in Seq(Frames) /\ stack # <<>> /\ Len(stack) \in 1 .. Len(stack)
      /\ DOMAIN stack = 1 .. Len(stack) /\ file = stack[Len(stack)].file
  BY EmptySeq DEF AssignResult, EndLoad, IInv, Types, innermost
<1>0. file \in Files
  <2>1. stack[Len(stack)] \in Frames
    BY <1>1
  <2> QED
    BY <1>1, <2>1 DEF Frames
<1>2. /\ outer \in Seq(Frames)
      /\ DOMAIN outer = DOMAIN stack \ {Len(stack)}
      /\ Len(outer) = Len(stack) - 1
      /\ \A i \in DOMAIN outer : outer[i] = stack[i]
  BY <1>1
<1>3. /\ IF outer = <<>> THEN stack' = outer
         ELSE stack' = [outer EXCEPT ![Len(outer)] = required(@, file)]
      /\ fModules' = IF written THEN [fModules EXCEPT ![file] = "module"] ELSE fModules
      /\ order = "value first" => written
      /\ UNCHANGED <<order, array, commands, throws, loads>>
  BY DEF AssignResult, EndLoad, Written
<1> HIDE DEF file, outer, written
<1>5. /\ stack' \in Seq(Frames) /\ DOMAIN stack' = DOMAIN outer
      /\ \A i \in DOMAIN outer :
             /\ stack'[i].file = stack[i].file
             /\ stack'[i].forced \subseteq
                    stack[i].forced \cup IF i + 1 = Len(stack) THEN {file} ELSE {}
  <2>1. CASE outer = <<>>
    BY <1>2, <1>3, <2>1
  <2>2. CASE outer # <<>>
    <3>1. stack' = [outer EXCEPT ![Len(outer)] = required(@, file)]
      BY <1>3, <2>2
    <3>2. \A i \in DOMAIN outer : i + 1 = Len(stack) <=> i = Len(outer)
      BY <1>1, <1>2
    <3>3. /\ stack' \in Seq(Frames) /\ DOMAIN stack' = DOMAIN outer
          /\ \A i \in DOMAIN outer :
                 /\ stack'[i].file = outer[i].file
                 /\ i # Len(outer) => stack'[i].forced = outer[i].forced
          /\ stack'[Len(outer)].forced = outer[Len(outer)].forced \cup {file}
      BY <1>0, <1>2, <2>2, <3>1, RequiredOnTop
    <3>4. \A i \in DOMAIN outer :
              stack'[i].forced \subseteq
                  stack[i].forced \cup IF i + 1 = Len(stack) THEN {file} ELSE {}
      BY <1>2, <3>2, <3>3
    <3> QED
      BY <1>2, <3>3, <3>4
  <2> QED
    BY <2>1, <2>2
<1>4. /\ \A other \in Files \ {file} : fModules'[other] = fModules[other]
      /\ fModules'[file] # "absent" /\ fModules' \in [Files -> {"absent", "loading", "module"}]
      /\ order = "value first" => fModules'[file] = "module"
  <2>1. fModules[file] # "absent"
    BY <1>1 DEF IInv, InTable
  <2>2. fModules \in [Files -> {"absent", "loading", "module"}]
    BY DEF IInv, Types
  <2> QED
    BY <1>0, <1>3, <2>1, <2>2
<1>6. Types'
  BY <1>3, <1>4, <1>5 DEF IInv, Types
<1>7. \A i \in DOMAIN outer :
          i \in DOMAIN stack /\ i # Len(stack) /\ stack[i].file \in Files /\ stack[i].file # file
  <2> SUFFICES ASSUME NEW i \in DOMAIN outer
               PROVE  i \in DOMAIN stack /\ i # Len(stack)
                      /\ stack[i].file \in Files /\ stack[i].file # file
    OBVIOUS
  <2>1. i \in DOMAIN stack /\ i # Len(stack)
    BY <1>2
  <2>2. stack[i] \in Frames
    BY <1>1, <2>1
  <2> QED
    BY <1>1, <2>1, <2>2 DEF IInv, OnStackOnce, Frames
<1>8. InTable' /\ OnStackOnce'
  BY <1>4, <1>7, <1>5 DEF IInv, InTable, OnStackOnce
<1>9. ForcedImports' /\ Chain'
  <2>1. ASSUME NEW i \in DOMAIN outer, i + 1 = Len(stack)
        PROVE  file \in Imports[stack[i].file]
    BY <1>1, <1>7, <2>1 DEF IInv, Chain
  <2>2. ForcedImports'
    BY <1>7, <1>5, <2>1 DEF IInv, ForcedImports
  <2>3. Chain'
    BY <1>7, <1>5 DEF IInv, Chain
  <2> QED
    BY <2>2, <2>3
<1>10. LoadedOnce'
  BY <1>0, <1>1, <1>3, <1>4 DEF IInv, InTable, LoadedOnce
<1>11. /\ ~ \E i \in DOMAIN stack' : stack'[i].file = file
       /\ \A other \in Files \ {file} :
              (\E i \in DOMAIN stack' : stack'[i].file = other)
                  <=> \E i \in DOMAIN stack : stack[i].file = other
  BY <1>1, <1>2, <1>5, <1>7
<1>12. PlaceholderMeansLoading'
  <2> SUFFICES ASSUME throws' = 0, order' = "value first", NEW other \in Files
               PROVE  fModules'[other] = "loading"
                          <=> \E i \in DOMAIN stack' : stack'[i].file = other
    BY DEF PlaceholderMeansLoading, loading_P
  <2>1. fModules[other] = "loading" <=> \E i \in DOMAIN stack : stack[i].file = other
    BY <1>3 DEF IInv, PlaceholderMeansLoading, loading_P
  <2>2. CASE other = file
    BY <1>3, <1>4, <1>11, <2>2
  <2>3. CASE other # file
    BY <1>4, <1>11, <2>1, <2>3
  <2> QED
    BY <2>2, <2>3
<1> QED
  BY <1>6, <1>8, <1>9, <1>10, <1>12 DEF IInv

(* The read-eval-print loop keeps the invariant: it requires from an empty stack. *)
LEMMA CommandIInv == ASSUME IInv, NEW file \in Files, Command(file) PROVE IInv'
<1>1. commands' \in 0 .. MaxCommands /\ UNCHANGED <<order, throws>>
  BY BoundsAssumption DEF Command, IInv, Types
<1>2. CASE fModules[file] = "absent"
  BY <1>1, <1>2, BeginLoadIInv DEF Command
<1>3. CASE fModules[file] # "absent"
  <2>1. UNCHANGED <<fModules, array, stack, loads>>
    BY <1>3 DEF Command
  <2> QED
    BY <1>1, <2>1, SameFilesIInv DEF IInv, Types, ForcedImports
<1> QED
  BY <1>2, <1>3

(* An import that is forced keeps the invariant: it is not in the table and *)
(* is loaded, or it is there, loaded or not, and is marked.                 *)
LEMMA RequireIInv == ASSUME IInv, NEW file \in Files, Require(file) PROVE IInv'
<1>1. /\ stack \in Seq(Frames) /\ stack # <<>> /\ file \in Imports[innermost.file]
      /\ UNCHANGED <<order, commands, throws>>
  BY DEF Require, IInv, Types
<1>2. CASE fModules[file] = "absent"
  BY <1>1, <1>2, BeginLoadIInv DEF Require, IInv, Types
<1>3. CASE fModules[file] # "absent"
  <2>1. UNCHANGED <<fModules, array, loads>>
        /\ stack' = [stack EXCEPT ![Len(stack)] = required(@, file)]
    BY <1>3 DEF Require
  <2>2. /\ stack' \in Seq(Frames) /\ DOMAIN stack' = DOMAIN stack
        /\ \A i \in DOMAIN stack :
               /\ stack'[i].file = stack[i].file
               /\ i # Len(stack) => stack'[i].forced = stack[i].forced
        /\ stack'[Len(stack)].forced = stack[Len(stack)].forced \cup {file}
    BY <1>1, <2>1, RequiredOnTop
  <2>3. Types'
    BY <1>1, <2>1, <2>2 DEF IInv, Types
  <2>4. \A i \in DOMAIN stack : stack'[i].forced \subseteq Imports[stack[i].file]
    BY <1>1, <2>2 DEF IInv, ForcedImports, innermost
  <2> QED
    BY <1>1, <2>1, <2>2, <2>3, <2>4, SameFilesIInv
<1> QED
  BY <1>2, <1>3

(* An exception keeps the invariant: the placeholders that it leaves behind *)
(* still keep their files from being loaded again.                          *)
LEMMA UnwindIInv == ASSUME IInv, Unwind PROVE IInv'
<1>1. /\ stack' = <<>> /\ UNCHANGED <<order, fModules, array, commands, loads>>
      /\ throws' = throws + 1 /\ throws' \in 0 .. MaxThrows
  BY BoundsAssumption DEF Unwind, IInv, Types
<1>2. Types' /\ InTable' /\ ForcedImports' /\ Chain' /\ OnStackOnce' /\ LoadedOnce'
  BY <1>1 DEF IInv, Types, InTable, ForcedImports, Chain, OnStackOnce, LoadedOnce
<1>3. throws' # 0
  BY <1>1 DEF IInv, Types
<1>4. PlaceholderMeansLoading'
  BY <1>3 DEF PlaceholderMeansLoading
<1> QED
  BY <1>2, <1>4 DEF IInv

(* Every step keeps the invariant. *)
LEMMA NextIInv == IInv /\ [Next]_vars => IInv'
<1> SUFFICES ASSUME IInv, [Next]_vars PROVE IInv'
  OBVIOUS
<1>1. CASE UNCHANGED vars
  <2>1. UNCHANGED <<order, fModules, array, stack, commands, throws, loads>>
    BY <1>1 DEF vars
  <2> QED
    BY <2>1, SameFilesIInv DEF IInv, Types, ForcedImports
<1>2. CASE Next
  BY <1>2, CommandIInv, RequireIInv, EndLoadIInv, UnwindIInv DEF Next, Progress
<1> QED
  BY <1>1, <1>2

(* The properties are conjuncts of the invariant, or follow from it. *)
LEMMA IInvImplies == IInv => TypeOK /\ LoadedOnce /\ PlaceholderMeansLoading
<1> SUFFICES ASSUME IInv PROVE TypeOK /\ LoadedOnce /\ PlaceholderMeansLoading
  OBVIOUS
<1>1. \A i \in DOMAIN stack : stack[i] \in Frames
  BY DEF IInv, Types
<1> QED
  BY <1>1 DEF IInv, Types, InTable, ForcedImports, TypeOK, Frames

(* The inductive invariant holds in every reachable state. *)
THEOREM Inductive == Spec => []IInv
<1> QED
  BY InitIInv, NextIInv, PTL DEF Spec

(* A load in progress is in the table, and has required only what its file *)
(* imports.                                                                *)
THEOREM TypeTheorem == Spec => []TypeOK
<1> QED
  BY Inductive, IInvImplies, PTL

(* No file is ever loaded twice, whatever imports what and whatever is thrown. *)
THEOREM LoadedOnceTheorem == Spec => []LoadedOnce
<1> QED
  BY Inductive, IInvImplies, PTL

(* Without an exception, and where the build evaluates the value first, the *)
(* placeholder of a file stands in the table exactly during its load.       *)
THEOREM PlaceholderTheorem == Spec => []PlaceholderMeansLoading
<1> QED
  BY Inductive, IInvImplies, PTL
-----------------------------------------------------------------------------
(* The table of a module is the one that dispatchModule has built, but for *)
(* the entry "default", which a search for a missing key makes.            *)
builtFor(file) == dispatchModule(entriesOf(file), Texts[file].fallback)
Keeps(hashed, built) ==
    /\ DOMAIN hashed \ {"default"} = DOMAIN built \ {"default"}
    /\ \A key \in DOMAIN built : key \in DOMAIN hashed /\ hashed[key] = built[key]
    /\ "default" \in DOMAIN hashed \ DOMAIN built => hashed["default"] = nil

TablesInv ==
    /\ tables = [file \in Files |-> tables[file]]
    /\ \A file \in Files : fModules[file] = "module" => Keeps(tables[file], builtFor(file))

(* The entries of a file are a list, and "default" among them has a symbol. *)
LEMMA EntriesFacts ==
    ASSUME NEW file \in Files
    PROVE  /\ Len(entriesOf(file)) \in Nat
           /\ DOMAIN entriesOf(file) = 1 .. Len(entriesOf(file))
           /\ \A i \in DOMAIN entriesOf(file) :
                  \E symbol : entriesOf(file)[i].value = valueOf(symbol)
           /\ Texts[file].fallback \in Seq(Range(Texts[file].fallback))
<1> DEFINE text == Texts[file]
           own == text.own
           exports == text.exports
<1>1. /\ exports \in Seq(Range(exports)) /\ own \in Seq(Range(own))
      /\ text.fallback \in Seq(Range(text.fallback))
      /\ \A i \in DOMAIN own : own[i].value = valueOf(Head(own[i].value.symbols))
  BY TextsAssumption
<1> HIDE DEF exports, own
<1>2. /\ Len(exports) \in Nat /\ DOMAIN exports = 1 .. Len(exports)
      /\ Len(own) \in Nat /\ DOMAIN own = 1 .. Len(own)
  BY <1>1, LenProperties
<1> DEFINE W == {Entry(exports[i]) : i \in DOMAIN exports}
           built == buildHashExports(exports)
<1>3. built \in Seq(W) /\ Len(built) = Len(exports)
      /\ \A i \in 1 .. Len(exports) : built[i] = Entry(exports[i])
  <2>1. built = [i \in 1 .. Len(exports) |-> Entry(exports[i])]
    BY <1>2 DEF buildHashExports
  <2> HIDE DEF built
  <2>2. \A i \in 1 .. Len(exports) : Entry(exports[i]) \in W
    BY <1>2
  <2> HIDE DEF W
  <2>3. built \in [1 .. Len(exports) -> W]
    BY <2>1, <2>2
  <2>4. built \in Seq(W)
    BY <1>2, <2>3
  <2>5. Len(built) = Len(exports)
    BY <1>2, <2>1
  <2> QED
    BY <2>1, <2>4, <2>5
<1> HIDE DEF W, built
<1>4. CASE text.native
  <2>1. entriesOf(file) = IF exports = <<>> THEN <<>> ELSE <<Entry(Head(exports))>>
    BY <1>4 DEF entriesOf, makeExportsFVA, exports
  <2>2. Entry(Head(exports)).value = valueOf(Head(exports))
    BY DEF Entry
  <2>3. CASE exports = <<>>
    BY <1>1, <2>1, <2>3
  <2>4. CASE exports # <<>>
    <3> DEFINE e == Entry(Head(exports))
    <3>1. entriesOf(file) = <<e>> /\ e.value = valueOf(Head(exports))
      BY <2>1, <2>2, <2>4
    <3> HIDE DEF e
    <3>2. Len(<<e>>) = 1 /\ DOMAIN <<e>> = 1 .. 1 /\ <<e>>[1] = e
      OBVIOUS
    <3>3. \A i \in 1 .. 1 : i = 1
      OBVIOUS
    <3> HIDE DEF text
    <3> QED
      BY <1>1, <3>1, <3>2, <3>3 DEF text
  <2> QED
    BY <2>3, <2>4
<1>5. CASE ~text.native
  <2> DEFINE listed == entriesOf(file)
             E == Range(own) \cup W
  <2>1. listed = own \o built
    BY <1>5 DEF entriesOf, exports, own, built
  <2> HIDE DEF listed
  <2>2. own \in Seq(E) /\ built \in Seq(E)
    BY <1>1, <1>2, <1>3, ElementOfSeq
  <2>3. /\ listed \in Seq(E) /\ Len(listed) = Len(own) + Len(built)
        /\ \A i \in 1 .. Len(own) + Len(built) :
               listed[i] = IF i <= Len(own) THEN own[i] ELSE built[i - Len(own)]
    BY <2>1, <2>2, ConcatProperties
  <2>4. Len(listed) \in Nat /\ DOMAIN listed = 1 .. Len(listed)
    BY <2>3, LenProperties
  <2>5. ASSUME NEW i \in DOMAIN listed
        PROVE  \E symbol : listed[i].value = valueOf(symbol)
    <3>1. CASE i <= Len(own)
      <4>1. i \in DOMAIN own /\ listed[i] = own[i]
        BY <1>2, <1>3, <2>3, <2>4, <3>1
      <4> QED
        BY <1>1, <4>1
    <3>2. CASE ~(i <= Len(own))
      <4>1. i - Len(own) \in 1 .. Len(exports) /\ listed[i] = built[i - Len(own)]
        BY <1>2, <1>3, <2>3, <2>4, <3>2
      <4>2. listed[i] = Entry(exports[i - Len(own)])
        BY <1>3, <4>1
      <4> QED
        BY <4>2 DEF Entry
    <3> QED
      BY <3>1, <3>2
  <2> QED
    BY <1>1, <2>4, <2>5 DEF listed
<1> QED
  BY <1>4, <1>5

(* What dispatchModule builds: the first entry of each key, and the keys. *)
BuiltFrom(built, listed) ==
    /\ DOMAIN built = {"exports"} \cup {listed[i].key : i \in DOMAIN listed}
    /\ \A key \in DOMAIN built \ {"exports"} :
           \E i \in DOMAIN listed :
               /\ listed[i].key = key /\ built[key] = listed[i].value
               /\ \A j \in DOMAIN listed : listed[j].key = key => i <= j
    /\ \A i \in DOMAIN listed :
           \E j \in DOMAIN built["exports"].symbols : built["exports"].symbols[j] = listed[i].key

LEMMA DispatchFacts ==
    ASSUME NEW listed, Len(listed) \in Nat, DOMAIN listed = 1 .. Len(listed),
           NEW F, NEW fallback \in Seq(F)
    PROVE  BuiltFrom(dispatchModule(listed, fallback), listed)
<1> DEFINE m == Len(listed)
           built == dispatchModule(listed, fallback)
           keys == keysOf(listed)
<1>1. keys = [i \in 1 .. m |-> listed[i].key] /\ DOMAIN listed = 1 .. m /\ m \in Nat
  BY DEF keysOf
<1>2. Range(keys) = {listed[i].key : i \in 1 .. m}
  BY <1>1 DEF Range
<1>3. built = [key \in {"exports"} \cup Range(keys) |->
                  IF key = "exports" THEN exportsOf(listed, fallback) ELSE entryOf(listed, key).value]
  BY DEF dispatchModule
<1> HIDE DEF built, m
<1>4. DOMAIN built = {"exports"} \cup {listed[i].key : i \in DOMAIN listed}
  BY <1>1, <1>2, <1>3
<1>5. ASSUME NEW key \in DOMAIN built \ {"exports"}
      PROVE  \E i \in DOMAIN listed :
                 /\ listed[i].key = key /\ built[key] = listed[i].value
                 /\ \A j \in DOMAIN listed : listed[j].key = key => i <= j
  <2> DEFINE U == {i \in 1 .. m : listed[i].key = key}
  <2>1. U \in SUBSET (1 .. m) /\ U # {}
    BY <1>1, <1>4
  <2>2. entryOf(listed, key) = listed[IF U # {} THEN Min(U) ELSE 0]
    BY DEF entryOf, SelectInSeq, m
  <2>3. Min(U) = Least(U)
    BY DEF Min, Least
  <2> HIDE DEF U
  <2>4. Least(U) \in U
    BY <1>1, <2>1, PicksFacts
  <2>5. \A j \in U : Least(U) <= j
    <3>1. U \in SUBSET (0 .. m)
      BY <1>1, <2>1
    <3>2. \E i \in U : \A j \in U : i <= j
      BY <1>1, <2>1, <3>1, ExtremeElements
    <3> QED
      BY <3>2 DEF Least
  <2>6. built[key] = listed[Least(U)].value
    BY <1>3, <2>1, <2>2, <2>3
  <2> QED
    BY <1>1, <2>4, <2>5, <2>6 DEF U
<1>6. ASSUME NEW i \in DOMAIN listed
      PROVE  \E j \in DOMAIN built["exports"].symbols : built["exports"].symbols[j] = listed[i].key
  <2> DEFINE front == <<"exports">> \o keys
             symbols == front \o fallback
             E == {"exports"} \cup Range(keys) \cup F
  <2>1. built["exports"] = Value("list", symbols)
    BY <1>3 DEF exportsOf
  <2>2. built["exports"].symbols = symbols
    BY <2>1 DEF Value
  <2>3. keys \in Seq(E) /\ Len(keys) = m
    <3>1. \A k \in 1 .. m : keys[k] \in E
      BY <1>1, <1>2
    <3> HIDE DEF keys, E
    <3>2. keys \in [1 .. m -> E]
      BY <1>1, <3>1
    <3> QED
      BY <1>1, <3>2
  <2>4. fallback \in Seq(E) /\ <<"exports">> \in Seq(E) /\ Len(<<"exports">>) = 1
    <3>1. F \subseteq E /\ "exports" \in E
      OBVIOUS
    <3> HIDE DEF E
    <3>2. fallback \in Seq(E)
      BY <3>1, ElementOfSeq
    <3> QED
      BY <3>1, <3>2
  <2> HIDE DEF keys, E
  <2>5. /\ front \in Seq(E) /\ Len(front) = 1 + m
        /\ \A k \in 1 .. 1 + m : front[k] = IF k <= 1 THEN <<"exports">>[k] ELSE keys[k - 1]
    BY <2>3, <2>4, ConcatProperties
  <2> HIDE DEF front
  <2>6. /\ symbols \in Seq(E) /\ Len(symbols) = Len(front) + Len(fallback)
        /\ \A k \in 1 .. Len(front) + Len(fallback) :
               symbols[k] = IF k <= Len(front) THEN front[k] ELSE fallback[k - Len(front)]
    BY <2>4, <2>5, ConcatProperties
  <2> HIDE DEF symbols
  <2>7. DOMAIN symbols = 1 .. Len(symbols) /\ Len(fallback) \in Nat
    BY <2>6, LenProperties
  <2>8. i + 1 \in DOMAIN symbols /\ i + 1 <= Len(front) /\ i + 1 \in 1 .. Len(front) + Len(fallback)
    BY <1>1, <2>5, <2>6, <2>7
  <2>9. symbols[i + 1] = front[i + 1]
    BY <2>6, <2>8
  <2>10. front[i + 1] = keys[i]
    <3>1. i + 1 \in 1 .. 1 + m /\ ~(i + 1 <= 1) /\ (i + 1) - 1 = i
      BY <1>1
    <3> QED
      BY <2>5, <3>1
  <2>11. keys[i] = listed[i].key
    BY <1>1
  <2> QED
    BY <2>2, <2>8, <2>9, <2>10, <2>11
<1> QED
  BY <1>4, <1>5, <1>6 DEF built, BuiltFrom

(* A search leaves the table as it was built, but for "default". *)
LEMMA TouchedKeeps ==
    ASSUME NEW hashed, NEW built, Keeps(hashed, built), NEW key
    PROVE  Keeps(touched(hashed, key), built)
<1>1. CASE key \in DOMAIN hashed \/ "default" \in DOMAIN hashed
  BY <1>1 DEF touched
<1>2. CASE ~(key \in DOMAIN hashed \/ "default" \in DOMAIN hashed)
  <2> DEFINE new == [k \in DOMAIN hashed \cup {"default"} |-> IF k = "default" THEN nil ELSE hashed[k]]
  <2>1. touched(hashed, key) = new
    BY <1>2 DEF touched
  <2>2. /\ DOMAIN new = DOMAIN hashed \cup {"default"} /\ new["default"] = nil
        /\ \A k \in DOMAIN hashed : k # "default" /\ new[k] = hashed[k]
    BY <1>2
  <2> HIDE DEF new
  <2> QED
    BY <2>1, <2>2 DEF Keeps
<1> QED
  BY <1>1, <1>2

(* A name that leads to a file leads to the file with the number of its path. *)
LEMMA PlaceFacts ==
    ASSUME NEW name \in Names
    PROVE  /\ place[name].key \in Files \cup {NULL}
           /\ place[name].key # NULL => place[name].key = inode[place[name].actual]
<1>1. place[name] = resolved(name)
  BY DEF place
<1>2. resolved(name) = missing \/ resolved(name) = [key |-> inode[resolved(name).actual], actual |-> resolved(name).actual]
  <2> DEFINE file == Head(found(name))
             actual == IF file \in Directories THEN Append(file, "init.5D") ELSE file
  <2>1. resolved(name) = missing \/ resolved(name) = getModuleFileKey(file)
    BY DEF resolved
  <2>2. getModuleFileKey(file) = missing \/ getModuleFileKey(file) = [key |-> inode[actual], actual |-> actual]
    BY DEF getModuleFileKey
  <2> HIDE DEF actual, file
  <2>3. [key |-> inode[actual], actual |-> actual].actual = actual
    OBVIOUS
  <2> QED
    BY <2>1, <2>2, <2>3
<1>3. missing.key = NULL
  BY DEF missing
<1>4. resolved(name).key = NULL \/ resolved(name).key = inode[resolved(name).actual]
  BY <1>2, <1>3
<1> QED
  BY <1>1, <1>4, NamesAssumption

LEMMA AppendedLast ==
    ASSUME NEW key
    PROVE  Last(Append(<<>>, key)) = key /\ \A e : Last(Append(<<e>>, key)) = key
<1>1. Append(<<>>, key) = <<key>>
  OBVIOUS
<1>2. ASSUME NEW e PROVE Last(Append(<<e>>, key)) = key
  <2>1. <<e>> \in Seq({e, key}) /\ Len(<<e>>) = 1
    OBVIOUS
  <2>2. Len(Append(<<e>>, key)) = 2 /\ Append(<<e>>, key)[2] = key
    BY <2>1, AppendProperties
  <2> QED
    BY <2>2 DEF Last
<1> QED
  BY <1>1, <1>2 DEF Last

(* What a table answers that was built from the entries of its file. *)
LEMMA LookupFacts ==
    ASSUME NEW file \in Files, NEW hashed, Keeps(hashed, builtFor(file)), NEW key, key # "default"
    PROVE  LET listed == entriesOf(file)
               places == {i \in DOMAIN listed : listed[i].key = key}
               value == lookup(hashed, key)
           IN  CASE key = "exports" -> Range(keysOf(listed)) \subseteq Range(value.symbols)
                 [] key # "exports" /\ places # {} ->
                      \E i \in places : value = listed[i].value /\ \A j \in places : i <= j
                 [] OTHER -> value.kind = "applied" /\ Last(value.symbols) = key
<1> DEFINE listed == entriesOf(file)
           built == builtFor(file)
           places == {i \in DOMAIN listed : listed[i].key = key}
           value == lookup(hashed, key)
<1>1. /\ Len(listed) \in Nat /\ DOMAIN listed = 1 .. Len(listed)
      /\ \A i \in DOMAIN listed : \E symbol : listed[i].value = valueOf(symbol)
      /\ Texts[file].fallback \in Seq(Range(Texts[file].fallback))
  BY EntriesFacts
<1>2. built = dispatchModule(listed, Texts[file].fallback)
  BY DEF builtFor
<1> HIDE DEF listed, built
<1>3. /\ DOMAIN built = {"exports"} \cup {listed[i].key : i \in DOMAIN listed}
      /\ \A k \in DOMAIN built \ {"exports"} :
             \E i \in DOMAIN listed :
                 /\ listed[i].key = k /\ built[k] = listed[i].value
                 /\ \A j \in DOMAIN listed : listed[j].key = k => i <= j
      /\ \A i \in DOMAIN listed :
             \E j \in DOMAIN built["exports"].symbols : built["exports"].symbols[j] = listed[i].key
  <2>1. BuiltFrom(built, listed)
    BY <1>1, <1>2, DispatchFacts
  <2> QED
    BY <2>1 DEF BuiltFrom
<1>4. /\ DOMAIN hashed \ {"default"} = DOMAIN built \ {"default"}
      /\ \A k \in DOMAIN built : k \in DOMAIN hashed /\ hashed[k] = built[k]
      /\ "default" \in DOMAIN hashed \ DOMAIN built => hashed["default"] = nil
  BY DEF Keeps, built
<1>5. ASSUME key = "exports"
      PROVE  Range(keysOf(listed)) \subseteq Range(value.symbols)
  <2>1. value = built["exports"]
    BY <1>3, <1>4, <1>5 DEF lookup
  <2>2. \A i \in DOMAIN listed :
            \E j \in DOMAIN value.symbols : value.symbols[j] = listed[i].key
    BY <1>3, <2>1
  <2> HIDE DEF value
  <2> QED
    BY <2>2 DEF Range, keysOf
<1>6. ASSUME key # "exports", places # {}
      PROVE  \E i \in places : value = listed[i].value /\ \A j \in places : i <= j
  <2>1. key \in DOMAIN built \ {"exports"}
    BY <1>3, <1>6
  <2>2. value = built[key]
    BY <1>4, <2>1 DEF lookup
  <2> HIDE DEF value
  <2> QED
    BY <1>3, <2>1, <2>2
<1>7. ASSUME key # "exports", places = {}
      PROVE  value.kind = "applied" /\ Last(value.symbols) = key
  <2> DEFINE default == IF "default" \in DOMAIN hashed THEN hashed["default"].symbols ELSE <<>>
  <2>1. key \notin DOMAIN hashed
    BY <1>3, <1>4, <1>7
  <2>2. value = Value("applied", Append(default, key))
    BY <2>1 DEF lookup
  <2>3. value.kind = "applied" /\ value.symbols = Append(default, key)
    BY <2>2 DEF Value
  <2> HIDE DEF value
  <2>4. CASE "default" \notin DOMAIN built
    <3>2. default = <<>>
      BY <1>4, <2>4 DEF nil, Value
    <3> HIDE DEF default
    <3>3. Last(Append(<<>>, key)) = key
      BY AppendedLast
    <3> QED
      BY <2>3, <3>2, <3>3
  <2>5. CASE "default" \in DOMAIN built
    <3>1. "default" \in DOMAIN built \ {"exports"}
      BY <2>5
    <3>2. PICK i \in DOMAIN listed : built["default"] = listed[i].value
      BY <1>3, <3>1
    <3>3. PICK symbol : listed[i].value = valueOf(symbol)
      BY <1>1
    <3>4. hashed["default"] = valueOf(symbol) /\ "default" \in DOMAIN hashed
      BY <1>4, <3>1, <3>2, <3>3
    <3>5. default = <<symbol>>
      BY <3>4 DEF valueOf, Value
    <3> HIDE DEF default
    <3>6. Last(Append(<<symbol>>, key)) = key
      BY AppendedLast
    <3> QED
      BY <2>3, <3>5, <3>6
  <2> QED
    BY <2>4, <2>5
<1> QED
  BY <1>5, <1>6, <1>7 DEF listed
-----------------------------------------------------------------------------
(* The loader below Modules goes through the steps of its own specification. *)
LEMMA LoaderStep == [ModulesNext]_moduleVars => [Next]_vars
  BY DEF ModulesNext, Load, Access, RequireMissing, moduleVars

(* The loader that programs see is the one of the theorems above: Modules *)
(* adds to its steps what happens to the tables, and steps of its own.    *)
LEMMA LoaderTheorem == ModulesSpec => []IInv
<1>1. ModulesInit => IInv
  BY InitIInv DEF ModulesInit
<1>2. IInv /\ [ModulesNext]_moduleVars => IInv'
  BY LoaderStep, NextIInv
<1> QED
  BY <1>1, <1>2, PTL DEF ModulesSpec

(* A file that becomes a module gets the table of its entries. *)
LEMMA LoadTables == ASSUME IInv, TablesInv, Load PROVE TablesInv'
<1>1. tables' = [file \in Files |->
                    IF fModules[file] # "module" /\ fModules'[file] = "module"
                    THEN builtFor(file) ELSE tables[file]]
  BY DEF Load, builtFor
<1>2. tables' = [file \in Files |-> tables'[file]]
  BY <1>1
<1>3. ASSUME NEW file \in Files, fModules'[file] = "module"
      PROVE  Keeps(tables'[file], builtFor(file))
  <2>1. CASE fModules[file] = "module"
    BY <1>1, <2>1 DEF TablesInv
  <2>2. CASE fModules[file] # "module"
    <3>1. tables'[file] = builtFor(file)
      BY <1>1, <1>3, <2>2
    <3> QED
      BY <3>1 DEF Keeps
  <2> QED
    BY <2>1, <2>2
<1>4. \A file : builtFor(file)' = builtFor(file)
  BY DEF builtFor
<1> QED
  BY <1>2, <1>3 DEF TablesInv

(* What is asked of a module is answered by the table of its file. *)
LEMMA AccessAnswers ==
    ASSUME IInv, TablesInv, NEW name \in Names, NEW key \in Keys, Access(name, key)
    PROVE  TablesInv' /\ AnswersAsWritten'
<1> DEFINE file == place[name].key
           actual == place[name].actual
<1>1. /\ file # NULL /\ fModules[file] = "module" /\ UNCHANGED vars
      /\ answer' = [key |-> key, actual |-> actual, file |-> file, value |-> lookup(tables[file], key)]
      /\ tables' = [tables EXCEPT ![file] = touched(@, key)]
  BY DEF Access
<1>2. file \in Files /\ file = inode[actual]
  BY <1>1, PlaceFacts
<1> HIDE DEF file, actual
<1>3. Keeps(tables[file], builtFor(file))
  BY <1>1, <1>2 DEF TablesInv
<1>4. TablesInv'
  <2>1. /\ tables' = [f \in Files |-> tables'[f]] /\ tables'[file] = touched(tables[file], key)
        /\ \A f \in Files \ {file} : tables'[f] = tables[f]
    BY <1>1, <1>2 DEF TablesInv
  <2>2. Keeps(tables'[file], builtFor(file))
    BY <1>3, <2>1, TouchedKeeps
  <2>3. fModules' = fModules
    BY <1>1 DEF vars
  <2> QED
    BY <2>1, <2>2, <2>3 DEF TablesInv
<1>5. AnswersAsWritten'
  <2> SUFFICES ASSUME key # "default" PROVE AnswersAsWritten'
    BY <1>1 DEF AnswersAsWritten
  <2>1. /\ answer'.key = key /\ answer'.actual = actual /\ answer'.file = file
        /\ answer'.value = lookup(tables[file], key)
    BY <1>1
  <2> QED
    BY <1>2, <1>3, <2>1, LookupFacts DEF AnswersAsWritten, entriesFor
<1> QED
  BY <1>4, <1>5

(* Whatever was required and asked before, a name leads to the one module of *)
(* its file, and that answers a key with the first entry it was written with,  *)
(* or with what a function makes of it.                                       *)
THEOREM AnswersTheorem == ModulesSpec => []AnswersAsWritten
<1>1. ModulesInit => TablesInv /\ AnswersAsWritten
  BY DEF ModulesInit, Init, TablesInv, AnswersAsWritten
<1>2. IInv /\ TablesInv /\ AnswersAsWritten /\ [ModulesNext]_moduleVars => (TablesInv /\ AnswersAsWritten)'
  <2> SUFFICES ASSUME IInv, TablesInv, AnswersAsWritten, [ModulesNext]_moduleVars
               PROVE  TablesInv' /\ AnswersAsWritten'
    OBVIOUS
  <2>1. CASE Load
    <3>1. answer' = NULL
      BY <2>1 DEF Load
    <3> QED
      BY <2>1, <3>1, LoadTables DEF AnswersAsWritten
  <2>2. CASE \E name \in Names, key \in Keys : Access(name, key)
    BY <2>2, AccessAnswers
  <2>3. CASE \E name \in Names : RequireMissing(name)
    <3>1. answer' = NULL /\ UNCHANGED <<vars, tables>>
      BY <2>3 DEF RequireMissing
    <3> QED
      BY <3>1 DEF AnswersAsWritten, TablesInv, vars
  <2>4. CASE UNCHANGED moduleVars
    BY <2>4 DEF moduleVars, vars, AnswersAsWritten, TablesInv
  <2> QED
    BY <2>1, <2>2, <2>3, <2>4 DEF ModulesNext
<1> QED
  BY <1>1, <1>2, LoaderTheorem, PTL DEF ModulesSpec

(* The composition implements the loader: what programs ask of the modules   *)
(* in between takes no step of it.                                          *)
THEOREM RefinesLoader == ModulesSpec => Init /\ [][Next]_vars
<1>1. ModulesInit => Init
  BY DEF ModulesInit
<1> QED
  BY <1>1, LoaderStep, PTL DEF ModulesSpec

(* LoadedOnce and PlaceholderMeansLoading hold of the modules that programs see. *)
THEOREM ModulesTheorem == ModulesSpec => []LoadedOnce /\ []PlaceholderMeansLoading
<1> QED
  BY LoaderTheorem, IInvImplies, PTL
-----------------------------------------------------------------------------
\* pow2 is what it is defined by.
LEMMA PowDef ==
    /\ pow2 \in [Nat -> Nat]
    /\ pow2[0] = 1
    /\ \A k \in Nat : pow2[k + 1] = 2 * pow2[k]
<1> DEFINE step == [p \in Nat \X Nat |-> 2 * p[2]]
<1>1. step \in NatSteps(Nat) /\ \A n, x \in Nat : step[<<n, x>>] = 2 * x
  BY DEF NatSteps
<1> HIDE DEF step
<1>2. PICK f \in [Nat -> Nat] : f = [n \in Nat |-> IF n = 0 THEN 1 ELSE step[<<n, f[n - 1]>>]]
  <2>1. \E f \in [Nat -> Nat] : RecursesOnNat(f, 1, step)
    BY <1>1, NatRecursion
  <2> QED
    BY <2>1 DEF RecursesOnNat
<1>3. f = [k \in Nat |-> IF k = 0 THEN 1 ELSE 2 * f[k - 1]]
  <2>1. ASSUME NEW k \in Nat, k # 0 PROVE step[<<k, f[k - 1]>>] = 2 * f[k - 1]
    <3>1. k - 1 \in Nat
      BY <2>1
    <3>2. f[k - 1] \in Nat
      BY <3>1
    <3> QED
      BY <1>1, <3>2
  <2>2. [n \in Nat |-> IF n = 0 THEN 1 ELSE step[<<n, f[n - 1]>>]]
            = [k \in Nat |-> IF k = 0 THEN 1 ELSE 2 * f[k - 1]]
    BY <2>1
  <2> QED
    BY <1>2, <2>2
<1>4. pow2 = [k \in Nat |-> IF k = 0 THEN 1 ELSE 2 * pow2[k - 1]]
  BY <1>3 DEF pow2
<1> HIDE DEF pow2
<1>5. ASSUME NEW S \in SUBSET Nat, S = {k \in Nat : pow2[k] \in Nat} PROVE S = Nat
  <2>1. 0 \in S
    BY <1>4, <1>5
  <2>2. \A n \in S : n + 1 \in S
    <3> SUFFICES ASSUME NEW n \in S PROVE n + 1 \in S
      OBVIOUS
    <3>1. n \in Nat /\ n + 1 \in Nat /\ n + 1 # 0 /\ (n + 1) - 1 = n /\ pow2[n] \in Nat
      BY <1>5
    <3>2. pow2[n + 1] = 2 * pow2[n]
      BY <1>4, <3>1
    <3> QED
      BY <1>5, <3>1, <3>2
  <2> QED
    BY <2>1, <2>2, NatSetInduction
<1>6. \A k \in Nat : pow2[k] \in Nat
  <2> DEFINE S == {k \in Nat : pow2[k] \in Nat}
  <2>1. S \in SUBSET Nat /\ S = {k \in Nat : pow2[k] \in Nat}
    OBVIOUS
  <2> HIDE DEF S
  <2>2. S = Nat
    BY <1>5, <2>1
  <2> QED
    BY <2>1, <2>2
<1>7. DOMAIN pow2 = Nat /\ pow2 = [k \in Nat |-> pow2[k]]
  <2>1. DOMAIN [k \in Nat |-> IF k = 0 THEN 1 ELSE 2 * pow2[k - 1]] = Nat
    OBVIOUS
  <2>2. DOMAIN pow2 = Nat
    BY <1>4, <2>1
  <2> DEFINE F == [k \in Nat |-> IF k = 0 THEN 1 ELSE 2 * pow2[k - 1]]
  <2>3. F = [k \in Nat |-> F[k]]
    OBVIOUS
  <2>4. pow2 = F
    BY <1>4
  <2> HIDE DEF F
  <2> QED
    BY <2>2, <2>3, <2>4
<1>8. pow2 \in [Nat -> Nat]
  BY <1>6, <1>7
<1>9. pow2[0] = 1
  BY <1>4
<1>10. ASSUME NEW k \in Nat PROVE pow2[k + 1] = 2 * pow2[k]
  <2>1. k + 1 \in Nat /\ k + 1 # 0 /\ (k + 1) - 1 = k
    OBVIOUS
  <2> QED
    BY <1>4, <2>1
<1> QED
  BY <1>8, <1>9, <1>10

\* It is above its argument, and does not fall.
LEMMA PowFacts ==
    /\ \A k \in Nat : pow2[k] \in Nat /\ pow2[k] > k
    /\ \A j, k \in Nat : j <= k => pow2[j] <= pow2[k]
<1> DEFINE S == {k \in Nat : pow2[k] > k /\ \A j \in 0 .. k : pow2[j] <= pow2[k]}
<1>1. 0 \in S
  BY PowDef
<1>2. \A n \in S : n + 1 \in S
  <2> SUFFICES ASSUME NEW n \in S PROVE n + 1 \in S
    OBVIOUS
  <2>1. n + 1 \in Nat /\ pow2[n + 1] = 2 * pow2[n] /\ pow2[n] \in Nat /\ pow2[n] > n
    BY PowDef
  <2>2. ASSUME NEW j \in 0 .. n + 1 PROVE pow2[j] <= pow2[n + 1]
    <3>1. CASE j = n + 1
      BY <2>1, <3>1
    <3>2. CASE j # n + 1
      <4>1. pow2[j] <= pow2[n] /\ pow2[j] \in Nat
        BY <3>2, PowDef
      <4> QED
        BY <2>1, <4>1
    <3> QED
      BY <3>1, <3>2
  <2> QED
    BY <2>1, <2>2
<1> HIDE DEF S
<1>3. S = Nat
  <2>1. S \in SUBSET Nat
    BY DEF S
  <2> QED
    BY <1>1, <1>2, <2>1, NatSetInduction
<1>4. \A k \in Nat : pow2[k] \in Nat
  BY PowDef
<1>5. \A k \in Nat : pow2[k] > k /\ \A j \in 0 .. k : pow2[j] <= pow2[k]
  BY <1>3 DEF S
<1>6. ASSUME NEW j \in Nat, NEW k \in Nat, j <= k PROVE pow2[j] <= pow2[k]
  <2>1. j \in 0 .. k
    BY <1>6
  <2> QED
    BY <1>5, <2>1
<1> QED
  BY <1>4, <1>5, <1>6

\* The array that growTo allocates for some number of entries.
LEMMA LogFacts ==
    ASSUME NEW k \in Nat, NEW n \in Nat, pow2[k] <= n, n < pow2[k + 1]
    PROVE  log2(n) = k /\ sizeFor(n) = pow2[k + 1] + 1
<1>1. k \in 0 .. n
  BY PowFacts
<1>2. ASSUME NEW j \in 0 .. n, pow2[j] <= n, n < pow2[j + 1] PROVE j = k
  <2>1. pow2[j] \in Nat /\ pow2[k] \in Nat /\ pow2[j + 1] \in Nat /\ pow2[k + 1] \in Nat
    BY PowFacts
  <2>2. ~(j + 1 <= k)
    <3>1. j + 1 <= k => pow2[j + 1] <= pow2[k]
      BY PowFacts
    <3> QED
      BY <1>2, <2>1, <3>1
  <2>3. ~(k + 1 <= j)
    <3>1. k + 1 <= j => pow2[k + 1] <= pow2[j]
      BY PowFacts
    <3> QED
      BY <1>2, <2>1, <3>1
  <2> QED
    BY <2>2, <2>3
<1>3. log2(n) = k
  BY <1>1, <1>2 DEF log2
<1> QED
  BY <1>3 DEF sizeFor

LEMMA SizeForType ==
    ASSUME NEW n \in Nat, n > 0
    PROVE  sizeFor(n) \in Nat /\ sizeFor(n) > 0
<1> DEFINE S == {i \in Nat : n < pow2[i + 1] => \E k \in Nat : pow2[k] <= n /\ n < pow2[k + 1]}
<1>1. 0 \in S
  BY PowDef
<1>2. \A i \in S : i + 1 \in S
  <2> SUFFICES ASSUME NEW i \in S, n < pow2[(i + 1) + 1]
               PROVE  \E k \in Nat : pow2[k] <= n /\ n < pow2[k + 1]
    OBVIOUS
  <2>1. CASE n < pow2[i + 1]
    BY <2>1
  <2>2. CASE ~(n < pow2[i + 1])
    <3>1. i + 1 \in Nat /\ pow2[i + 1] \in Nat
      BY PowFacts
    <3> QED
      BY <2>2, <3>1
  <2> QED
    BY <2>1, <2>2
<1> HIDE DEF S
<1>3. n \in S
  <2>1. S \in SUBSET Nat
    BY DEF S
  <2> QED
    BY <1>1, <1>2, <2>1, NatSetInduction
<1>4. n < pow2[n + 1]
  <2>1. n + 1 \in Nat /\ pow2[n + 1] > n + 1 /\ pow2[n + 1] \in Nat
    BY PowFacts
  <2> QED
    BY <2>1
<1>5. PICK k \in Nat : pow2[k] <= n /\ n < pow2[k + 1]
  BY <1>3, <1>4 DEF S
<1>6. sizeFor(n) = pow2[k + 1] + 1
  BY <1>5, LogFacts
<1>7. k + 1 \in Nat /\ pow2[k + 1] \in Nat
  BY PowFacts
<1> QED
  BY <1>6, <1>7
-----------------------------------------------------------------------------
Hashes == hash \in [HashKeys -> Nat]

used(t) == {i \in DOMAIN t.entries : t.entries[i].state # HS_FREE}

\* No key has two slots, and from where the search for it begins up to its slot
\* no slot was never used.
Reached(t, i) ==
    \E d \in 0 .. capacity(t) - 1 :
        /\ i = probe(t, t.entries[i].first, d)
        /\ \A c \in 0 .. d - 1 : probe(t, t.entries[i].first, c) \in used(t)
Sound(t) ==
    /\ t \in Tables
    /\ \A i \in used(t) : t.entries[i].first \in HashKeys /\ Reached(t, i)
    /\ \A i, j \in used(t) : t.entries[i].first = t.entries[j].first => i = j

\* The sizes of the array, and the count: what growTo counts a second time keeps
\* it ahead of the entries, without which it could overtake the capacity.
Sizes(t) ==
    /\ t.count <= capacity(t)
    /\ \/ capacity(t) = 0
       \/ \E k \in Nat : k >= 1 /\ capacity(t) = pow2[k] + 1
    /\ Cardinality(used(t)) <= t.count
    /\ capacity(t) > 3 => Cardinality(used(t)) + 2 <= t.count

LEMMA FirstFacts ==
    ASSUME NEW n \in Nat, NEW S \in SUBSET (0 .. n), S # {}
    PROVE  first(S) \in S /\ \A j \in S : first(S) <= j
<1>1. \E i \in S : \A j \in S : i <= j
  BY ExtremeElements
<1> QED
  BY <1>1 DEF first

LEMMA TableType ==
    ASSUME NEW t \in Tables
    PROVE  /\ t.entries \in Seq(Entries) /\ t.count \in Nat
           /\ capacity(t) \in Nat /\ DOMAIN t.entries = 1 .. capacity(t)
           /\ \A i \in 1 .. capacity(t) : t.entries[i] \in Entries
           /\ t = [entries |-> t.entries, count |-> t.count]
BY DEF Tables, capacity

LEMMA ProbeFacts ==
    ASSUME Hashes, NEW t \in Tables, capacity(t) > 0, NEW key \in HashKeys
    PROVE  /\ \A i \in 0 .. capacity(t) : probe(t, key, i) \in 1 .. capacity(t)
           /\ probe(t, key, capacity(t)) = probe(t, key, 0)
           /\ \A j \in 1 .. capacity(t) : \E i \in 0 .. capacity(t) - 1 : probe(t, key, i) = j
<1> DEFINE n == capacity(t)
           h == hash[key] % n
<1>1. n \in Nat /\ n > 0 /\ h \in 0 .. n - 1
  BY TableType DEF Hashes
<1>2. \A i \in Nat : probe(t, key, i) = 1 + IF h + i >= n THEN h + i - n ELSE h + i
  <2> SUFFICES ASSUME NEW i \in Nat
               PROVE  probe(t, key, i) = 1 + IF h + i >= n THEN h + i - n ELSE h + i
    OBVIOUS
  <2> DEFINE index == h + i
  <2>1. probe(t, key, i) = 1 + IF index >= n THEN index - n ELSE index
    BY Zenon DEF probe
  <2> HIDE DEF h, n
  <2> QED
    BY <1>1, <2>1
<1> HIDE DEF h, n
<1>3. \A i \in 0 .. n : probe(t, key, i) \in 1 .. n
  BY <1>1, <1>2
<1>4. probe(t, key, n) = probe(t, key, 0)
  BY <1>1, <1>2
<1>5. ASSUME NEW j \in 1 .. n PROVE \E i \in 0 .. n - 1 : probe(t, key, i) = j
  <2>1. CASE j - 1 >= h
    <3>1. (j - 1) - h \in 0 .. n - 1 /\ probe(t, key, (j - 1) - h) = j
      BY <1>1, <1>2, <2>1
    <3> QED
      BY <3>1
  <2>2. CASE ~(j - 1 >= h)
    <3>1. (j - 1) - h + n \in 0 .. n - 1 /\ probe(t, key, (j - 1) - h + n) = j
      BY <1>1, <1>2, <2>2
    <3> QED
      BY <3>1
  <2> QED
    BY <2>1, <2>2
<1>6. n = capacity(t)
  BY DEF n
<1> QED
  BY <1>3, <1>4, <1>5, <1>6

\* What findEntry tells.
Finds(t, key, s) ==
    /\ s # NoEntry => s \in used(t) /\ t.entries[s].first = key
    /\ s = NoEntry =>
           \A i \in used(t) : t.entries[i].first = key =>
               i = probe(t, key, 0) /\ t.entries[i].state = HS_FREE_AGAIN

LEMMA FindFacts ==
    ASSUME Hashes, NEW t, Sound(t), NEW key \in HashKeys
    PROVE  Finds(t, key, findEntry(t, key))
<1> DEFINE n == capacity(t)
           at(i) == t.entries[probe(t, key, i)]
           stops == {i \in 1 .. n : at(i).state = HS_FREE \/ at(i).first = key}
           s == findEntry(t, key)
<1>1. /\ t \in Tables /\ n \in Nat /\ DOMAIN t.entries = 1 .. n
      /\ \A i \in 1 .. n : t.entries[i] \in Entries
  BY TableType DEF Sound
<1>2. \A i : i \in used(t) <=> i \in 1 .. n /\ t.entries[i].state # HS_FREE
  BY <1>1 DEF used
<1>3. s = IF n = 0 \/ at(0).state = HS_FREE THEN NoEntry
          ELSE IF at(0).state = HS_OCCUPIED /\ at(0).first = key THEN probe(t, key, 0)
          ELSE IF stops = {} \/ at(first(stops)).state = HS_FREE THEN NoEntry
          ELSE probe(t, key, first(stops))
  BY DEF findEntry
<1>4. ASSUME n > 0
      PROVE  /\ \A i \in 0 .. n : probe(t, key, i) \in 1 .. n
             /\ probe(t, key, n) = probe(t, key, 0)
  BY <1>1, <1>4, ProbeFacts
\* Where a used slot with the key is.
<1>5. ASSUME NEW i \in used(t), t.entries[i].first = key
      PROVE  \E d \in 0 .. n - 1 : /\ i = probe(t, key, d)
                                  /\ \A c \in 0 .. d - 1 : probe(t, key, c) \in used(t)
  BY <1>5 DEF Sound, Reached
<1>6. stops # {} => first(stops) \in stops /\ \A j \in stops : first(stops) <= j
  <2>1. stops \in SUBSET (0 .. n)
    BY <1>1
  <2> HIDE DEF stops
  <2> QED
    BY <1>1, <2>1, FirstFacts
<1>7. CASE n = 0
  BY <1>1, <1>2, <1>3, <1>7 DEF Finds
<1> HIDE DEF n
<1>8. CASE n > 0 /\ at(0).state = HS_FREE
  <2>1. s = NoEntry
    BY <1>3, <1>8
  <2>2. 0 \in 0 .. n /\ probe(t, key, 0) \notin used(t)
    BY <1>1, <1>2, <1>8
  <2>3. \A i \in used(t) : t.entries[i].first # key
    <3> SUFFICES ASSUME NEW i \in used(t), t.entries[i].first = key PROVE FALSE
      OBVIOUS
    <3>1. PICK d \in 0 .. n - 1 : /\ i = probe(t, key, d)
                                  /\ \A c \in 0 .. d - 1 : probe(t, key, c) \in used(t)
      BY <1>5
    <3>2. d = 0 \/ 0 \in 0 .. d - 1
      BY <1>1
    <3> QED
      BY <2>2, <3>1, <3>2
  <2> HIDE DEF s
  <2>4. Finds(t, key, s)
    BY <2>1, <2>3 DEF Finds
  <2> QED
    BY <2>4 DEF s
<1>9. CASE n > 0 /\ at(0).state = HS_OCCUPIED /\ at(0).first = key
  <2>1. s = probe(t, key, 0) /\ HS_OCCUPIED # HS_FREE
    BY <1>1, <1>3, <1>9 DEF HS_OCCUPIED, HS_FREE
  <2>2. s \in 1 .. n
    BY <1>1, <1>4, <1>9, <2>1
  <2>3. s \in used(t) /\ t.entries[s].first = key /\ s # NoEntry
    BY <1>1, <1>2, <1>9, <2>1, <2>2 DEF NoEntry
  <2> HIDE DEF s
  <2>4. Finds(t, key, s)
    BY <2>3 DEF Finds
  <2> QED
    BY <2>4 DEF s
<1>10. CASE /\ n > 0 /\ at(0).state # HS_FREE /\ ~(at(0).state = HS_OCCUPIED /\ at(0).first = key)
  \* The key may still be where the search for it begins, as what is left of it.
  <2>1. ASSUME probe(t, key, 0) \in used(t), at(0).first = key PROVE at(0).state = HS_FREE_AGAIN
    <3>1. at(0) \in Entries
      BY <1>1, <1>2, <2>1
    <3> QED
      BY <1>10, <2>1, <3>1 DEF Entries
  <2>2. CASE stops = {}
    <3>1. s = NoEntry
      BY <1>3, <1>10, <2>2
    <3>2. \A i \in used(t) : t.entries[i].first # key
      <4> SUFFICES ASSUME NEW i \in used(t), t.entries[i].first = key PROVE FALSE
        OBVIOUS
      <4>1. PICK d \in 0 .. n - 1 : i = probe(t, key, d)
        BY <1>5
      <4>2. CASE d = 0
        <5>1. n \in 1 .. n /\ at(n).first = key
          BY <1>1, <1>4, <1>10, <4>1, <4>2
        <5> QED
          BY <2>2, <5>1
      <4>3. CASE d # 0
        <5>1. d \in 1 .. n /\ at(d).first = key
          BY <1>1, <4>1, <4>3
        <5> QED
          BY <2>2, <5>1
      <4> QED
        BY <4>2, <4>3
    <3> HIDE DEF s
    <3>3. Finds(t, key, s)
      BY <3>1, <3>2 DEF Finds
    <3> QED
      BY <3>3 DEF s
  <2>3. CASE stops # {} /\ at(first(stops)).state = HS_FREE
    <3> DEFINE f == first(stops)
    <3>1. s = NoEntry
      BY <1>3, <1>10, <2>3
    <3>2. f \in 1 .. n /\ \A j \in stops : f <= j
      BY <1>6, <2>3
    <3>3. probe(t, key, f) \notin used(t)
      BY <1>2, <2>3
    <3> HIDE DEF f
    <3>4. ASSUME NEW i \in used(t), t.entries[i].first = key
          PROVE  i = probe(t, key, 0) /\ t.entries[i].state = HS_FREE_AGAIN
      <4>1. PICK d \in 0 .. n - 1 : /\ i = probe(t, key, d)
                                    /\ \A c \in 0 .. d - 1 : probe(t, key, c) \in used(t)
        BY <1>5, <3>4
      <4>2. CASE d = 0
        BY <2>1, <3>4, <4>1, <4>2
      <4>3. CASE d # 0
        <5>1. d \in 1 .. n /\ at(d).first = key
          BY <1>1, <3>4, <4>1, <4>3
        <5>2. f <= d
          BY <3>2, <5>1
        <5>3. f = d \/ f \in 0 .. d - 1
          BY <1>1, <3>2, <5>1, <5>2
        <5> QED
          BY <3>3, <4>1, <5>3
      <4> QED
        BY <4>2, <4>3
    <3> HIDE DEF s
    <3>5. Finds(t, key, s)
      BY <3>1, <3>4 DEF Finds
    <3> QED
      BY <3>5 DEF s
  <2>4. CASE stops # {} /\ at(first(stops)).state # HS_FREE
    <3> DEFINE f == first(stops)
    <3>1. s = probe(t, key, f)
      BY <1>3, <1>10, <2>4
    <3>2. f \in 1 .. n /\ at(f).first = key
      BY <1>6, <2>4
    <3>3. at(f).state # HS_FREE
      BY <2>4
    <3> HIDE DEF f, stops
    <3>4. s \in 1 .. n
      BY <1>1, <1>4, <1>10, <3>1, <3>2
    <3>5. s \in used(t) /\ t.entries[s].first = key /\ s # NoEntry
      BY <1>1, <1>2, <3>1, <3>2, <3>3, <3>4 DEF NoEntry
    <3> HIDE DEF s
    <3>6. Finds(t, key, s)
      BY <3>5 DEF Finds
    <3> QED
      BY <3>6 DEF s
  <2> QED
    BY <2>2, <2>3, <2>4
<1> QED
  BY <1>1, <1>7, <1>8, <1>9, <1>10

occupiedIn(t) == slotsIn(t, HS_OCCUPIED)

LEMMA SlotFacts ==
    ASSUME NEW t \in Tables
    PROVE  /\ occupiedIn(t) \subseteq used(t) /\ used(t) \subseteq 1 .. capacity(t)
           /\ IsFiniteSet(used(t)) /\ Cardinality(used(t)) \in Nat
           /\ Cardinality(used(t)) <= capacity(t)
           /\ IsFiniteSet(occupiedIn(t)) /\ Cardinality(occupiedIn(t)) \in Nat
           /\ Cardinality(occupiedIn(t)) <= Cardinality(used(t))
<1>1. occupiedIn(t) \subseteq used(t)
  BY DEF occupiedIn, used, slotsIn, HS_FREE, HS_OCCUPIED
<1>2. used(t) \subseteq 1 .. capacity(t)
  BY TableType DEF used
<1>3. IsFiniteSet(1 .. capacity(t)) /\ Cardinality(1 .. capacity(t)) = capacity(t)
  <2>1. capacity(t) \in Nat
    BY TableType
  <2> QED
    BY <2>1, FS_Interval
<1>4. IsFiniteSet(used(t)) /\ Cardinality(used(t)) <= capacity(t)
  BY <1>2, <1>3, FS_Subset
<1>5. IsFiniteSet(occupiedIn(t)) /\ Cardinality(occupiedIn(t)) <= Cardinality(used(t))
  BY <1>1, <1>4, FS_Subset
<1> QED
  BY <1>1, <1>2, <1>4, <1>5, FS_CardinalityType

\* An entry is found, and what is found for a key is its only slot.
LEMMA FoundFacts ==
    ASSUME Hashes, NEW t, Sound(t)
    PROVE  /\ \A i \in occupiedIn(t) : findEntry(t, t.entries[i].first) = i
           /\ \A key \in HashKeys : \A i \in used(t) :
                  findEntry(t, key) # NoEntry /\ t.entries[i].first = key => i = findEntry(t, key)
<1>1. t \in Tables
  BY DEF Sound
<1>2. \A key \in HashKeys : Finds(t, key, findEntry(t, key))
  BY FindFacts
<1>3. \A i \in used(t) : t.entries[i].first \in HashKeys
  BY DEF Sound
<1>4. ASSUME NEW i \in occupiedIn(t) PROVE findEntry(t, t.entries[i].first) = i
  <2>1. i \in used(t) /\ t.entries[i].state = HS_OCCUPIED
    BY <1>1, SlotFacts DEF occupiedIn, slotsIn
  <2>2. Finds(t, t.entries[i].first, findEntry(t, t.entries[i].first))
    BY <1>2, <1>3, <2>1
  <2> DEFINE s == findEntry(t, t.entries[i].first)
  <2> HIDE DEF s
  <2>3. Finds(t, t.entries[i].first, s)
    BY <2>2 DEF s
  <2>4. s # NoEntry
    BY <2>1, <2>3 DEF Finds, HS_OCCUPIED, HS_FREE_AGAIN
  <2>5. s \in used(t) /\ t.entries[s].first = t.entries[i].first
    BY <2>3, <2>4 DEF Finds
  <2>6. s = i
    BY <2>1, <2>5 DEF Sound
  <2> QED
    BY <2>6 DEF s
<1>5. ASSUME NEW key \in HashKeys, NEW i \in used(t),
             findEntry(t, key) # NoEntry, t.entries[i].first = key
      PROVE  i = findEntry(t, key)
  <2>1. findEntry(t, key) \in used(t) /\ t.entries[findEntry(t, key)].first = key
    BY <1>2, <1>5 DEF Finds
  <2> QED
    BY <1>5, <2>1 DEF Sound
<1> QED
  BY <1>4, <1>5

\* A slot that the key can be put in: in reach, and no other one has the key.
Fits(t, key, s) ==
    /\ s \in 1 .. capacity(t)
    /\ \E d \in 0 .. capacity(t) - 1 :
           /\ s = probe(t, key, d)
           /\ \A c \in 0 .. d - 1 : probe(t, key, c) \in used(t)
    /\ \A i \in used(t) : t.entries[i].first = key => i = s

LEMMA FoundFits ==
    ASSUME Hashes, NEW t, Sound(t), NEW key \in HashKeys, findEntry(t, key) # NoEntry
    PROVE  Fits(t, key, findEntry(t, key)) /\ findEntry(t, key) \in used(t)
<1> DEFINE s == findEntry(t, key)
<1>1. s \in used(t) /\ t.entries[s].first = key
  BY FindFacts DEF Finds
<1>2. \A i \in used(t) : t.entries[i].first = key => i = s
  BY FoundFacts
<1> HIDE DEF s
<1>3. s \in 1 .. capacity(t)
  BY <1>1, SlotFacts DEF Sound
<1>4. Reached(t, s)
  BY <1>1 DEF Sound
<1>5. Fits(t, key, s)
  BY <1>1, <1>2, <1>3, <1>4 DEF Fits, Reached
<1> QED
  BY <1>1, <1>5 DEF s

LEMMA NewSlotFits ==
    ASSUME Hashes, NEW t, Sound(t), NEW key \in HashKeys, findEntry(t, key) = NoEntry,
           Cardinality(occupiedIn(t)) < capacity(t)
    PROVE  Fits(t, key, newSlot(t, key)) /\ newSlot(t, key) \notin occupiedIn(t)
<1> DEFINE n == capacity(t)
           open == {i \in 0 .. n : t.entries[probe(t, key, i)].state # HS_OCCUPIED}
           f == first(open)
<1>1. /\ t \in Tables /\ n \in Nat /\ DOMAIN t.entries = 1 .. n
  BY TableType DEF Sound
<1>2. occupiedIn(t) \subseteq 1 .. n /\ IsFiniteSet(occupiedIn(t))
      /\ Cardinality(occupiedIn(t)) \in Nat /\ Cardinality(occupiedIn(t)) < n
  BY <1>1, SlotFacts
<1>3. n > 0
  BY <1>1, <1>2
<1>4. /\ \A i \in 0 .. n : probe(t, key, i) \in 1 .. n
      /\ \A j \in 1 .. n : \E i \in 0 .. n - 1 : probe(t, key, i) = j
  BY <1>1, <1>3, ProbeFacts
<1>5. PICK j \in 1 .. n : j \notin occupiedIn(t)
  <2>1. Cardinality(1 .. n) = n
    BY <1>1, FS_Interval
  <2>2. 1 .. n # occupiedIn(t)
    BY <1>2, <2>1
  <2> HIDE DEF n
  <2> QED
    BY <1>2, <2>2
<1>6. newSlot(t, key) = probe(t, key, f)
  BY DEF newSlot
<1>7. \A i \in 1 .. n : i \in occupiedIn(t) <=> t.entries[i].state = HS_OCCUPIED
  BY <1>1 DEF occupiedIn, slotsIn
<1> HIDE DEF n
<1>8. PICK e \in 0 .. n - 1 : e \in open
  <2>1. PICK e \in 0 .. n - 1 : probe(t, key, e) = j
    BY <1>4, <1>5
  <2>2. e \in 0 .. n
    BY <1>1
  <2> QED
    BY <1>5, <1>7, <2>1, <2>2
<1>9. f \in open /\ \A i \in open : f <= i
  <2>1. open \in SUBSET (0 .. n) /\ open # {}
    BY <1>8
  <2> HIDE DEF open
  <2> QED
    BY <1>1, <2>1, FirstFacts
<1>10. f \in 0 .. n - 1
  <2>1. f <= e /\ f \in 0 .. n
    BY <1>8, <1>9
  <2> HIDE DEF f
  <2> QED
    BY <1>1, <2>1
<1>11. probe(t, key, f) \notin occupiedIn(t) /\ probe(t, key, f) \in 1 .. n
  <2>1. f \in 0 .. n /\ t.entries[probe(t, key, f)].state # HS_OCCUPIED
    BY <1>9
  <2> HIDE DEF f, open
  <2> QED
    BY <1>4, <1>7, <2>1
<1>12. \A c \in 0 .. f - 1 : probe(t, key, c) \in occupiedIn(t)
  <2> HIDE DEF f
  <2> SUFFICES ASSUME NEW c \in 0 .. f - 1 PROVE probe(t, key, c) \in occupiedIn(t)
    OBVIOUS
  <2>1. c \in 0 .. n /\ ~(f <= c)
    BY <1>1, <1>10
  <2>2. c \notin open
    BY <1>9, <2>1
  <2>3. t.entries[probe(t, key, c)].state = HS_OCCUPIED
    BY <2>1, <2>2
  <2> QED
    BY <1>4, <1>7, <2>1, <2>3
<1>13. \A i \in used(t) : t.entries[i].first = key => i = probe(t, key, f)
  <2> SUFFICES ASSUME NEW i \in used(t), t.entries[i].first = key PROVE i = probe(t, key, f)
    OBVIOUS
  <2>1. i = probe(t, key, 0) /\ t.entries[i].state = HS_FREE_AGAIN
    BY FindFacts DEF Finds
  <2>2. 0 \in open
    BY <1>1, <2>1 DEF HS_FREE_AGAIN, HS_OCCUPIED
  <2>3. f <= 0 /\ f \in 0 .. n - 1
    BY <1>9, <1>10, <2>2
  <2> HIDE DEF f
  <2>4. f = 0
    BY <1>1, <2>3
  <2> QED
    BY <2>1, <2>4
<1> HIDE DEF f, open
<1>14. used(t) = used(t) \cup occupiedIn(t)
  BY <1>1, SlotFacts
<1>15. Fits(t, key, probe(t, key, f))
  BY <1>10, <1>11, <1>12, <1>13, <1>14 DEF Fits, n
<1> QED
  BY <1>6, <1>11, <1>15 DEF f, open, n

\* A table with another array of the same length and another count.
LEMMA SameProbes ==
    ASSUME NEW t, NEW u, capacity(t) = capacity(u)
    PROVE  \A key, i : probe(u, key, i) = probe(t, key, i)
BY Zenon DEF probe

LEMMA CountedFacts ==
    ASSUME NEW t, Sound(t)
    PROVE  /\ Sound(counted(t)) /\ counted(t).count = t.count + 1
           /\ counted(t).entries = t.entries
           /\ capacity(counted(t)) = capacity(t)
           /\ used(counted(t)) = used(t) /\ occupiedIn(counted(t)) = occupiedIn(t)
           /\ \A key, s : Fits(t, key, s) => Fits(counted(t), key, s)
<1> DEFINE u == counted(t)
<1>1. t \in Tables
  BY DEF Sound
<1>2. u \in Tables /\ u.count = t.count + 1 /\ u.entries = t.entries
  BY <1>1 DEF counted, Tables
<1> HIDE DEF u
<1>3. capacity(u) = capacity(t) /\ used(u) = used(t) /\ occupiedIn(u) = occupiedIn(t)
  BY <1>2 DEF capacity, used, occupiedIn, slotsIn
<1>4. \A key, i : probe(u, key, i) = probe(t, key, i)
  BY <1>3, SameProbes
<1>5. \A i \in used(t) : Reached(u, i)
  BY <1>2, <1>3, <1>4 DEF Sound, Reached
<1>6. Sound(u)
  BY <1>2, <1>3, <1>5 DEF Sound
<1>7. \A key, s : Fits(t, key, s) => Fits(u, key, s)
  BY <1>2, <1>3, <1>4 DEF Fits
<1> QED
  BY <1>2, <1>3, <1>6, <1>7 DEF u

\* What occupy changes.
Occupied(t, u, s, key, value) ==
    /\ u.count = t.count /\ capacity(u) = capacity(t)
    /\ used(u) = used(t) \cup {s} /\ occupiedIn(u) = occupiedIn(t) \cup {s}
    /\ u.entries[s] = [state |-> HS_OCCUPIED, first |-> key, second |-> value]
    /\ \A i \in 1 .. capacity(t) : i # s => u.entries[i] = t.entries[i]

LEMMA OccupyType ==
    ASSUME NEW t \in Tables, NEW key \in HashKeys \cup {absent},
           NEW value \in Elements \cup {zero}, NEW s
    PROVE  occupy(t, s, key, value) \in Tables
<1> DEFINE e == [state |-> HS_OCCUPIED, first |-> key, second |-> value]
<1>1. e \in Entries
  BY DEF Entries
<1> HIDE DEF e
<1>2. t.entries \in Seq(Entries) /\ t.count \in Nat
  BY DEF Tables
<1>3. [t.entries EXCEPT ![s] = e] \in Seq(Entries)
  <2> DEFINE n == Len(t.entries)
  <2>1. n \in Nat /\ t.entries \in [1 .. n -> Entries]
    BY <1>2
  <2> HIDE DEF n
  <2>2. [t.entries EXCEPT ![s] = e] \in [1 .. n -> Entries]
    BY <1>1, <2>1
  <2> QED
    BY <2>1, <2>2, SeqDef
<1>4. occupy(t, s, key, value) = [entries |-> [t.entries EXCEPT ![s] = e], count |-> t.count]
  BY TableType DEF occupy, e
<1> QED
  BY <1>2, <1>3, <1>4 DEF Tables

LEMMA OccupyFacts ==
    ASSUME Hashes, NEW t, Sound(t), NEW key \in HashKeys, NEW value \in Elements \cup {zero},
           NEW s, Fits(t, key, s)
    PROVE  /\ Sound(occupy(t, s, key, value))
           /\ Occupied(t, occupy(t, s, key, value), s, key, value)
<1> DEFINE u == occupy(t, s, key, value)
           n == capacity(t)
           e == [state |-> HS_OCCUPIED, first |-> key, second |-> value]
<1>1. t \in Tables /\ n \in Nat /\ t.entries \in Seq(Entries) /\ Len(t.entries) = n
      /\ DOMAIN t.entries = 1 .. n /\ t = [entries |-> t.entries, count |-> t.count]
  BY TableType DEF Sound, capacity
<1>2. u \in Tables
  BY <1>1, OccupyType
<1>3. s \in 1 .. n
  BY DEF Fits
<1>4. u.entries = [t.entries EXCEPT ![s] = e] /\ u.count = t.count
  BY <1>1 DEF occupy
<1>5. e.state = HS_OCCUPIED /\ e.first = key
  OBVIOUS
<1> HIDE DEF u, e, n
<1>6. u.entries[s] = e /\ \A i \in 1 .. n : i # s => u.entries[i] = t.entries[i]
  BY <1>1, <1>3, <1>4
<1>7. capacity(u) = n /\ DOMAIN u.entries = 1 .. n
  BY <1>1, <1>2, <1>4, TableType DEF capacity
<1>8. used(u) = used(t) \cup {s}
  BY <1>1, <1>3, <1>5, <1>6, <1>7 DEF used, HS_OCCUPIED, HS_FREE
<1>9. occupiedIn(u) = occupiedIn(t) \cup {s}
  BY <1>1, <1>3, <1>5, <1>6, <1>7 DEF occupiedIn, slotsIn
<1>10. Occupied(t, u, s, key, value)
  BY <1>4, <1>6, <1>7, <1>8, <1>9 DEF Occupied, e, n
<1>11. \A k, i : probe(u, k, i) = probe(t, k, i)
  BY <1>7, SameProbes DEF n
<1>12. used(t) \subseteq 1 .. n
  BY <1>1, SlotFacts DEF n
<1>13. ASSUME NEW i \in used(u) PROVE u.entries[i].first \in HashKeys /\ Reached(u, i)
  <2>1. CASE i = s
    <3>1. u.entries[i].first = key
      BY <1>5, <1>6, <2>1
    <3>2. PICK d \in 0 .. n - 1 : /\ s = probe(t, key, d)
                                  /\ \A c \in 0 .. d - 1 : probe(t, key, c) \in used(t)
      BY DEF Fits, n
    <3>3. Reached(u, i)
      BY <1>7, <1>8, <1>11, <2>1, <3>1, <3>2 DEF Reached
    <3> QED
      BY <3>1, <3>3
  <2>2. CASE i # s
    <3>1. i \in used(t)
      BY <1>8, <2>2
    <3>2. u.entries[i] = t.entries[i]
      BY <1>6, <1>12, <2>2, <3>1
    <3>3. t.entries[i].first \in HashKeys /\ Reached(t, i)
      BY <3>1 DEF Sound
    <3>4. Reached(u, i)
      BY <1>7, <1>8, <1>11, <3>2, <3>3 DEF Reached, n
    <3> QED
      BY <3>2, <3>3, <3>4
  <2> QED
    BY <2>1, <2>2
<1>14. ASSUME NEW i \in used(u), NEW j \in used(u), u.entries[i].first = u.entries[j].first
       PROVE  i = j
  <2>1. \A k \in used(t) : t.entries[k].first = key => k = s
    BY DEF Fits
  <2>2. \A k \in used(u) : k = s \/ (k \in used(t) /\ k # s /\ u.entries[k] = t.entries[k])
    BY <1>6, <1>8, <1>12
  <2>3. \A k, l \in used(t) : t.entries[k].first = t.entries[l].first => k = l
    BY DEF Sound
  <2> QED
    BY <1>5, <1>6, <1>14, <2>1, <2>2, <2>3
<1>15. Sound(u)
  BY <1>2, <1>13, <1>14 DEF Sound
<1> QED
  BY <1>10, <1>15 DEF u

\* The map of a table, slot by slot.
MapBySlots(t) ==
    /\ DOMAIN mapOf(t) = {t.entries[i].first : i \in occupiedIn(t)}
    /\ mapOf(t) = [key \in DOMAIN mapOf(t) |-> mapOf(t)[key]]
    /\ \A i \in occupiedIn(t) : mapOf(t)[t.entries[i].first] = t.entries[i].second

LEMMA MapFacts == ASSUME NEW t, Sound(t) PROVE MapBySlots(t)
<1>1. mapOf(t) = [key \in {t.entries[i].first : i \in occupiedIn(t)} |->
                     t.entries[CHOOSE i \in occupiedIn(t) : t.entries[i].first = key].second]
  BY DEF mapOf, occupiedIn
<1>2. DOMAIN mapOf(t) = {t.entries[i].first : i \in occupiedIn(t)}
      /\ mapOf(t) = [key \in DOMAIN mapOf(t) |-> mapOf(t)[key]]
  BY <1>1
<1>3. ASSUME NEW i \in occupiedIn(t)
      PROVE  mapOf(t)[t.entries[i].first] = t.entries[i].second
  <2> DEFINE j == CHOOSE j \in occupiedIn(t) : t.entries[j].first = t.entries[i].first
  <2>1. j \in occupiedIn(t) /\ t.entries[j].first = t.entries[i].first
    OBVIOUS
  <2>2. mapOf(t)[t.entries[i].first] = t.entries[j].second
    BY <1>1
  <2> HIDE DEF j
  <2>3. i \in used(t) /\ j \in used(t)
    BY <2>1, SlotFacts DEF Sound
  <2>4. i = j
    BY <2>1, <2>3 DEF Sound
  <2> QED
    BY <2>2, <2>4
<1> QED
  BY <1>2, <1>3 DEF MapBySlots

\* What the map is, from what the entries are.
pairsOf(t) == {<<t.entries[i].first, t.entries[i].second>> : i \in occupiedIn(t)}

LEMMA SamePairsSameMap ==
    ASSUME NEW t, Sound(t), NEW u, Sound(u), pairsOf(t) = pairsOf(u)
    PROVE  mapOf(t) = mapOf(u)
<1>1. MapBySlots(t) /\ MapBySlots(u)
  BY MapFacts
<1>2. ASSUME NEW i \in occupiedIn(t)
      PROVE  \E j \in occupiedIn(u) : /\ t.entries[i].first = u.entries[j].first
                                     /\ t.entries[i].second = u.entries[j].second
  <2>1. <<t.entries[i].first, t.entries[i].second>> \in pairsOf(u)
    BY DEF pairsOf
  <2> QED
    BY <2>1 DEF pairsOf
<1>3. ASSUME NEW i \in occupiedIn(u)
      PROVE  \E j \in occupiedIn(t) : u.entries[i].first = t.entries[j].first
  <2>1. <<u.entries[i].first, u.entries[i].second>> \in pairsOf(t)
    BY DEF pairsOf
  <2> QED
    BY <2>1 DEF pairsOf
<1>4. DOMAIN mapOf(t) = DOMAIN mapOf(u)
  BY <1>1, <1>2, <1>3 DEF MapBySlots
<1>5. \A key \in DOMAIN mapOf(t) : mapOf(t)[key] = mapOf(u)[key]
  <2> SUFFICES ASSUME NEW key \in DOMAIN mapOf(t) PROVE mapOf(t)[key] = mapOf(u)[key]
    OBVIOUS
  <2>1. PICK i \in occupiedIn(t) : key = t.entries[i].first
    BY <1>1 DEF MapBySlots
  <2>2. PICK j \in occupiedIn(u) : /\ t.entries[i].first = u.entries[j].first
                                  /\ t.entries[i].second = u.entries[j].second
    BY <1>2
  <2> QED
    BY <1>1, <2>1, <2>2 DEF MapBySlots
<1>6. /\ mapOf(t) = [key \in DOMAIN mapOf(t) |-> mapOf(t)[key]]
      /\ mapOf(u) = [key \in DOMAIN mapOf(u) |-> mapOf(u)[key]]
  BY <1>1 DEF MapBySlots
<1> QED
  BY <1>4, <1>5, <1>6

\* A map with another value for a key.
with(m, key, value) == [k \in DOMAIN m \cup {key} |-> IF k = key THEN value ELSE m[k]]

LEMMA OccupiedMap ==
    ASSUME Hashes, NEW t, Sound(t), NEW u, Sound(u), NEW key, NEW value, NEW s,
           Fits(t, key, s), Occupied(t, u, s, key, value),
           s \in occupiedIn(t) => t.entries[s].first = key
    PROVE  mapOf(u) = with(mapOf(t), key, value) /\ leftoversOf(u) \subseteq leftoversOf(t)
<1>0. MapBySlots(t) /\ MapBySlots(u)
  BY MapFacts
<1>1. /\ t \in Tables /\ u \in Tables /\ capacity(u) = capacity(t)
      /\ occupiedIn(u) = occupiedIn(t) \cup {s}
  BY DEF Sound, Occupied
<1>2. u.entries[s].first = key /\ u.entries[s].second = value /\ u.entries[s].state = HS_OCCUPIED
  BY DEF Occupied
<1>3. \A i \in 1 .. capacity(t) : i # s => u.entries[i] = t.entries[i]
  BY DEF Occupied
<1>4. occupiedIn(t) \subseteq 1 .. capacity(t) /\ occupiedIn(t) \subseteq used(t)
  BY <1>1, SlotFacts
<1>5. \A i \in occupiedIn(t) : i = s <=> t.entries[i].first = key
  BY <1>4 DEF Fits
<1>6. DOMAIN mapOf(u) = DOMAIN mapOf(t) \cup {key}
  <2>1. {u.entries[i].first : i \in occupiedIn(u)} = {t.entries[i].first : i \in occupiedIn(t)} \cup {key}
    <3>1. \A i \in occupiedIn(t) : u.entries[i].first = t.entries[i].first
      BY <1>2, <1>3, <1>4, <1>5
    <3> QED
      BY <1>1, <1>2, <3>1
  <2> QED
    BY <1>0, <2>1 DEF MapBySlots
<1>7. \A k \in DOMAIN mapOf(u) : mapOf(u)[k] = with(mapOf(t), key, value)[k]
  <2> SUFFICES ASSUME NEW k \in DOMAIN mapOf(u)
               PROVE  mapOf(u)[k] = IF k = key THEN value ELSE mapOf(t)[k]
    BY <1>6 DEF with
  <2>1. PICK i \in occupiedIn(u) : k = u.entries[i].first
    BY <1>0 DEF MapBySlots
  <2>2. mapOf(u)[k] = u.entries[i].second
    BY <1>0, <2>1 DEF MapBySlots
  <2>3. CASE i = s
    BY <1>2, <2>1, <2>2, <2>3
  <2>4. CASE i # s
    <3>1. i \in occupiedIn(t) /\ u.entries[i] = t.entries[i] /\ k # key
      BY <1>1, <1>3, <1>4, <1>5, <2>1, <2>4
    <3>2. mapOf(t)[k] = t.entries[i].second
      BY <1>0, <2>1, <3>1 DEF MapBySlots
    <3> QED
      BY <2>2, <3>1, <3>2
  <2> QED
    BY <2>3, <2>4
<1>8. mapOf(u) = with(mapOf(t), key, value)
  <2>1. mapOf(u) = [k \in DOMAIN mapOf(u) |-> mapOf(u)[k]]
    BY <1>0 DEF MapBySlots
  <2>2. /\ DOMAIN with(mapOf(t), key, value) = DOMAIN mapOf(u)
        /\ with(mapOf(t), key, value)
               = [k \in DOMAIN mapOf(u) |-> with(mapOf(t), key, value)[k]]
    BY <1>6 DEF with
  <2> QED
    BY <1>7, <2>1, <2>2
<1>9. leftoversOf(u) \subseteq leftoversOf(t)
  <2>1. ASSUME NEW i \in slotsIn(u, HS_FREE_AGAIN)
        PROVE  i \in slotsIn(t, HS_FREE_AGAIN) /\ u.entries[i] = t.entries[i]
    <3>1. i \in 1 .. capacity(t) /\ u.entries[i].state = HS_FREE_AGAIN
      BY <1>1, <2>1, TableType DEF slotsIn
    <3>2. i # s
      BY <1>2, <3>1 DEF HS_FREE_AGAIN, HS_OCCUPIED
    <3> QED
      BY <1>1, <1>3, <3>1, <3>2, TableType DEF slotsIn
  <2> QED
    BY <2>1 DEF leftoversOf
<1> QED
  BY <1>8, <1>9
-----------------------------------------------------------------------------
\* A key that was found is put where it is.
LEMMA PutFound ==
    ASSUME Hashes, NEW t, Sound(t), NEW key \in HashKeys, NEW value \in Elements \cup {zero},
           findEntry(t, key) # NoEntry, NEW r, r = occupy(t, findEntry(t, key), key, value)
    PROVE  /\ Sound(r) /\ used(r) = used(t) /\ r.count = t.count /\ capacity(r) = capacity(t)
           /\ mapOf(r) = with(mapOf(t), key, value) /\ leftoversOf(r) \subseteq leftoversOf(t)
<1> DEFINE s == findEntry(t, key)
<1>1. Fits(t, key, s) /\ s \in used(t)
  BY FoundFits
<1>2. t.entries[s].first = key
  BY FindFacts DEF Finds
<1>3. r = occupy(t, s, key, value)
  OBVIOUS
<1> HIDE DEF s
<1>4. Sound(r) /\ Occupied(t, r, s, key, value)
  BY <1>1, <1>3, OccupyFacts
<1>5. mapOf(r) = with(mapOf(t), key, value) /\ leftoversOf(r) \subseteq leftoversOf(t)
  BY <1>1, <1>2, <1>4, OccupiedMap
<1> QED
  BY <1>1, <1>4, <1>5 DEF Occupied

\* A new key is put in a new slot, when there is one.
Stored(t, r, key, value) ==
    \E s \in 1 .. capacity(t) :
        /\ s \notin occupiedIn(t)
        /\ r.count = t.count + 1 /\ capacity(r) = capacity(t)
        /\ used(r) = used(t) \cup {s} /\ occupiedIn(r) = occupiedIn(t) \cup {s}
        /\ r.entries[s] = [state |-> HS_OCCUPIED, first |-> key, second |-> value]
        /\ \A i \in 1 .. capacity(t) : i # s => r.entries[i] = t.entries[i]

LEMMA PutNew ==
    ASSUME Hashes, NEW t, Sound(t), NEW key \in HashKeys, NEW value \in Elements \cup {zero},
           findEntry(t, key) = NoEntry, Cardinality(occupiedIn(t)) < capacity(t),
           NEW r, r = occupy(counted(t), newSlot(t, key), key, value)
    PROVE  /\ Sound(r) /\ Stored(t, r, key, value)
           /\ mapOf(r) = with(mapOf(t), key, value) /\ leftoversOf(r) \subseteq leftoversOf(t)
<1> DEFINE s == newSlot(t, key)
           c == counted(t)
<1>1. Fits(t, key, s) /\ s \notin occupiedIn(t)
  BY NewSlotFits
<1>2. r = occupy(c, s, key, value)
  OBVIOUS
<1>3. /\ Sound(c) /\ c.count = t.count + 1 /\ c.entries = t.entries /\ capacity(c) = capacity(t)
      /\ used(c) = used(t) /\ occupiedIn(c) = occupiedIn(t) /\ Fits(c, key, s)
  BY <1>1, CountedFacts
<1> HIDE DEF s, c
<1>4. mapOf(c) = mapOf(t) /\ leftoversOf(c) = leftoversOf(t)
  BY <1>3 DEF mapOf, leftoversOf, slotsIn
<1>5. Sound(r) /\ Occupied(c, r, s, key, value)
  BY <1>2, <1>3, OccupyFacts
<1>6. mapOf(r) = with(mapOf(c), key, value) /\ leftoversOf(r) \subseteq leftoversOf(c)
  BY <1>1, <1>3, <1>5, OccupiedMap
<1>7. s \in 1 .. capacity(t)
  BY <1>1 DEF Fits
<1>8. Stored(t, r, key, value)
  BY <1>1, <1>3, <1>5, <1>7 DEF Stored, Occupied
<1> QED
  BY <1>4, <1>5, <1>6, <1>8

\* What growTo makes of a table is a table, whatever the table.
LEMMA PutInType ==
    ASSUME NEW grown \in [Tables -> Tables], NEW t \in Tables,
           NEW key \in HashKeys \cup {absent}, NEW value \in Elements \cup {zero}
    PROVE  putIn(grown, t, key, value) \in Tables
<1>1. counted(grown[t]) \in Tables
  <2>1. grown[t] \in Tables
    OBVIOUS
  <2> QED
    BY <2>1 DEF counted, Tables
<1>2. \A s : /\ occupy(t, s, key, value) \in Tables
             /\ occupy(counted(grown[t]), s, key, value) \in Tables
  BY <1>1, OccupyType
<1> QED
  BY <1>2 DEF putIn

LEMMA AllocatedFacts ==
    ASSUME NEW t \in Tables
    PROVE  /\ allocated(t) \in Tables /\ capacity(allocated(t)) = sizeFor(t.count + 1)
           /\ allocated(t).count = t.count
           /\ used(allocated(t)) = {} /\ occupiedIn(allocated(t)) = {}
<1> DEFINE n == sizeFor(t.count + 1)
           slots == [i \in 1 .. n |-> freeEntry]
<1>1. t.count \in Nat /\ t.count + 1 > 0
  BY TableType
<1>2. n \in Nat
  BY <1>1, SizeForType
<1>3. allocated(t) = [entries |-> slots, count |-> t.count]
  BY DEF allocated
<1>4. freeEntry \in Entries /\ freeEntry.state = HS_FREE /\ HS_FREE # HS_OCCUPIED
  BY DEF freeEntry, Entries, HS_FREE, HS_OCCUPIED
<1> HIDE DEF n
<1>5. slots \in Seq(Entries) /\ Len(slots) = n /\ \A i \in DOMAIN slots : slots[i].state = HS_FREE
  BY <1>2, <1>4
<1> HIDE DEF slots
<1>6. allocated(t) \in Tables /\ allocated(t).entries = slots /\ allocated(t).count = t.count
  BY <1>1, <1>3, <1>5 DEF Tables
<1>7. capacity(allocated(t)) = n
  BY <1>5, <1>6 DEF capacity
<1>8. used(allocated(t)) = {} /\ occupiedIn(allocated(t)) = {}
  BY <1>4, <1>5, <1>6 DEF used, occupiedIn, slotsIn
<1> QED
  BY <1>6, <1>7, <1>8 DEF n

\* growTo, one old entry after the other.
Moves(up, grown, t) ==
    /\ up[0] = allocated(t)
    /\ \A i \in 1 .. capacity(t) :
           up[i] = IF t.entries[i].state = HS_OCCUPIED
                   THEN putIn(grown, up[i - 1], t.entries[i].first, t.entries[i].second)
                   ELSE up[i - 1]

LEMMA MovedDef ==
    ASSUME NEW grown \in [Tables -> Tables], NEW t \in Tables
    PROVE  \E up \in [0 .. capacity(t) -> Tables] :
               Moves(up, grown, t) /\ moved(grown, t) = up[capacity(t)]
<1> DEFINE n == capacity(t)
           next(i, v) == IF t.entries[i].state = HS_OCCUPIED
                         THEN putIn(grown, v, t.entries[i].first, t.entries[i].second) ELSE v
           step == [p \in (1 .. n) \X Tables |-> next(p[1], p[2])]
           c == allocated(t)
           body(g) == [i \in 0 .. n |-> IF i = 0 THEN c ELSE next(i, g[i - 1])]
           upTo == CHOOSE g : g = body(g)
<1>1. n \in Nat /\ \A i \in 1 .. n : t.entries[i] \in Entries
  BY TableType
<1>2. \A i \in 1 .. n : \A v \in Tables : next(i, v) \in Tables
  <2> SUFFICES ASSUME NEW i \in 1 .. n, NEW v \in Tables PROVE next(i, v) \in Tables
    OBVIOUS
  <2>1. t.entries[i].first \in HashKeys \cup {absent} /\ t.entries[i].second \in Elements \cup {zero}
    BY <1>1 DEF Entries
  <2> QED
    BY <2>1, PutInType
<1>3. c \in Tables
  BY AllocatedFacts
<1> HIDE DEF n, c
<1> HIDE DEF next
<1>4. step \in Steps(n, Tables) /\ \A i \in 1 .. n : \A v \in Tables : step[<<i, v>>] = next(i, v)
  BY <1>2 DEF Steps
<1> HIDE DEF step
<1>5. PICK g \in Values(n, Tables) : Recurses(g, c, step, n)
  BY <1>1, <1>3, <1>4, Recursion
<1>6. g \in [0 .. n -> Tables] /\ g[0] = c /\ \A i \in 1 .. n : g[i] = step[<<i, g[i - 1]>>]
  BY <1>5 DEF Values, Recurses
<1>7. \A i \in 1 .. n : g[i] = next(i, g[i - 1])
  <2> SUFFICES ASSUME NEW i \in 1 .. n PROVE g[i] = next(i, g[i - 1])
    OBVIOUS
  <2>1. i - 1 \in 0 .. n
    BY <1>1
  <2>2. g[i - 1] \in Tables
    BY <1>6, <2>1
  <2> QED
    BY <1>4, <1>6, <2>2
<1>8. g = body(g)
  BY <1>1, <1>6, <1>7
<1>9. ASSUME NEW h, h = body(h)
      PROVE  h \in [0 .. n -> Tables] /\ h[0] = c /\ \A i \in 1 .. n : h[i] = next(i, h[i - 1])
  <2>1. h[0] = c /\ \A i \in 1 .. n : h[i] = next(i, h[i - 1])
    <3> DEFINE F == body(h)
    <3>1. F[0] = c /\ (\A i \in 1 .. n : F[i] = next(i, h[i - 1])) /\ h = F
      BY <1>1, <1>9
    <3> HIDE DEF F
    <3> QED
      BY <3>1
  <2> DEFINE S == {i \in 0 .. n : h[i] \in Tables}
  <2>2. 0 \in S
    BY <1>1, <1>3, <2>1
  <2>3. \A i \in 0 .. n - 1 : i \in S => i + 1 \in S
    <3> SUFFICES ASSUME NEW i \in 0 .. n - 1, h[i] \in Tables PROVE i + 1 \in S
      OBVIOUS
    <3>1. i + 1 \in 1 .. n /\ i + 1 \in 0 .. n /\ (i + 1) - 1 = i
      BY <1>1
    <3>2. h[i + 1] = next(i + 1, h[i])
      BY <2>1, <3>1
    <3> QED
      BY <1>2, <3>1, <3>2
  <2> HIDE DEF S
  <2>4. \A i \in 0 .. n : i \in S
    BY <1>1, <2>2, <2>3, UpInduction
  <2>5. \A i \in 0 .. n : h[i] \in Tables
    BY <2>4 DEF S
  <2>6. DOMAIN h = 0 .. n /\ h = [i \in 0 .. n |-> h[i]]
    <3> DEFINE F == body(h)
    <3>1. F = [i \in 0 .. n |-> F[i]] /\ h = F
      BY <1>9
    <3> HIDE DEF F
    <3> QED
      BY <3>1
  <2> QED
    BY <2>1, <2>5, <2>6
<1>10. upTo = body(upTo)
  <2>1. \E h : h = body(h)
    BY <1>8
  <2> QED
    BY <2>1
<1>11. moved(grown, t) = upTo[n]
  BY DEF moved, next, n, c
<1> HIDE DEF upTo
<1>12. upTo \in [0 .. n -> Tables] /\ upTo[0] = c /\ \A i \in 1 .. n : upTo[i] = next(i, upTo[i - 1])
  BY <1>9, <1>10
<1>13. Moves(upTo, grown, t)
  BY <1>12 DEF Moves, next, n, c
<1> QED
  BY <1>11, <1>12, <1>13 DEF n

\* The entries of a table up to one of its slots.
below(t, i) == occupiedIn(t) \cap (1 .. i)
pairsBelow(t, i) == {<<t.entries[j].first, t.entries[j].second>> : j \in below(t, i)}

LEMMA BelowFacts ==
    ASSUME NEW t \in Tables, NEW i \in 1 .. capacity(t)
    PROVE  /\ IsFiniteSet(below(t, i)) /\ IsFiniteSet(below(t, i - 1))
           /\ Cardinality(below(t, i)) \in Nat /\ Cardinality(below(t, i - 1)) \in Nat
           /\ Cardinality(below(t, i)) <= Cardinality(occupiedIn(t))
           /\ i \in occupiedIn(t) =>
                  /\ below(t, i) = below(t, i - 1) \cup {i} /\ i \notin below(t, i - 1)
                  /\ Cardinality(below(t, i)) = Cardinality(below(t, i - 1)) + 1
                  /\ pairsBelow(t, i) =
                         pairsBelow(t, i - 1) \cup {<<t.entries[i].first, t.entries[i].second>>}
           /\ i \notin occupiedIn(t) => below(t, i) = below(t, i - 1)
<1>1. IsFiniteSet(occupiedIn(t)) /\ i \in Nat
  BY SlotFacts, TableType
<1>2. below(t, i) \subseteq occupiedIn(t) /\ below(t, i - 1) \subseteq occupiedIn(t)
  BY DEF below
<1>3. IsFiniteSet(below(t, i)) /\ IsFiniteSet(below(t, i - 1))
      /\ Cardinality(below(t, i)) <= Cardinality(occupiedIn(t))
  BY <1>1, <1>2, FS_Subset
<1>4. Cardinality(below(t, i)) \in Nat /\ Cardinality(below(t, i - 1)) \in Nat
  BY <1>3, FS_CardinalityType
<1>5. ASSUME i \in occupiedIn(t)
      PROVE  below(t, i) = below(t, i - 1) \cup {i} /\ i \notin below(t, i - 1)
  BY <1>1, <1>5 DEF below
<1>6. ASSUME i \in occupiedIn(t)
      PROVE  Cardinality(below(t, i)) = Cardinality(below(t, i - 1)) + 1
  BY <1>3, <1>5, <1>6, FS_AddElement
<1>7. ASSUME i \in occupiedIn(t)
      PROVE  pairsBelow(t, i) =
                 pairsBelow(t, i - 1) \cup {<<t.entries[i].first, t.entries[i].second>>}
  BY <1>5, <1>7 DEF pairsBelow
<1>8. i \notin occupiedIn(t) => below(t, i) = below(t, i - 1)
  BY <1>1 DEF below
<1> QED
  BY <1>3, <1>4, <1>5, <1>6, <1>7, <1>8

\* What growTo has made of the first slots: every entry once, and nothing else.
Moving(t, v, i) ==
    /\ Sound(v) /\ used(v) = occupiedIn(v) /\ capacity(v) = sizeFor(t.count + 1)
    /\ Cardinality(used(v)) = Cardinality(below(t, i))
    /\ v.count = t.count + Cardinality(below(t, i))
    /\ pairsOf(v) = pairsBelow(t, i)

\* growTo leaves a table alone that has room.
LeavesRoomy(grown) == \A u \in Tables : u.count + 1 <= capacity(u) => grown[u] = u

\* An entry that is moved makes nothing grow, and its key is new.
LEMMA MoveOne ==
    ASSUME Hashes, NEW grown \in [Tables -> Tables], LeavesRoomy(grown), NEW t, Sound(t),
           Cardinality(occupiedIn(t)) <= t.count,
           t.count + Cardinality(occupiedIn(t)) + 1 <= sizeFor(t.count + 1),
           NEW i \in occupiedIn(t), NEW v, Moving(t, v, i - 1)
    PROVE  Moving(t, putIn(grown, v, t.entries[i].first, t.entries[i].second), i)
<1> DEFINE key == t.entries[i].first
           value == t.entries[i].second
           r == putIn(grown, v, key, value)
           n == sizeFor(t.count + 1)
           m == Cardinality(below(t, i))
           o == Cardinality(below(t, i - 1))
           q == Cardinality(occupiedIn(t))
<1>1. /\ t \in Tables /\ v \in Tables /\ Sound(v) /\ i \in 1 .. capacity(t)
      /\ i \in used(t) /\ t.entries[i] \in Entries
  BY SlotFacts, TableType DEF Sound, Moving
<1>2. key \in HashKeys /\ value \in Elements \cup {zero}
  BY <1>1 DEF Sound, Entries
<1>3. /\ t.count \in Nat /\ n \in Nat /\ m \in Nat /\ o \in Nat /\ q \in Nat
      /\ m = o + 1 /\ m <= q
  <2>1. t.count \in Nat
    BY <1>1, TableType
  <2>2. n \in Nat
    BY <2>1, SizeForType
  <2>3. m \in Nat /\ o \in Nat /\ m = o + 1 /\ m <= q
    BY <1>1, BelowFacts
  <2>4. q \in Nat
    BY <1>1, SlotFacts
  <2> QED
    BY <2>1, <2>2, <2>3, <2>4
<1>4. /\ v.count = t.count + o /\ capacity(v) = n /\ used(v) = occupiedIn(v)
      /\ Cardinality(used(v)) = o /\ pairsOf(v) = pairsBelow(t, i - 1)
  BY DEF Moving
<1>5. t.count + q + 1 <= n /\ q <= t.count
  OBVIOUS
<1>6. below(t, i) = below(t, i - 1) \cup {i} /\ i \notin below(t, i - 1)
      /\ pairsBelow(t, i) = pairsBelow(t, i - 1) \cup {<<key, value>>}
  BY <1>1, BelowFacts
<1>7. below(t, i - 1) \subseteq occupiedIn(t)
  BY DEF below
<1> HIDE DEF key, value, m, o, q, n
<1>8. grown[v] = v
  <2>1. v.count + 1 <= capacity(v)
    BY <1>3, <1>4, <1>5
  <2> QED
    BY <1>1, <2>1 DEF LeavesRoomy
<1>9. Cardinality(occupiedIn(v)) < capacity(v)
  BY <1>3, <1>4, <1>5
<1>10. findEntry(v, key) = NoEntry
  <2> SUFFICES ASSUME findEntry(v, key) # NoEntry PROVE FALSE
    OBVIOUS
  <2> DEFINE s == findEntry(v, key)
  <2>1. s \in used(v) /\ v.entries[s].first = key
    BY <1>1, <1>2, FindFacts DEF Finds
  <2> HIDE DEF s
  <2>2. <<key, v.entries[s].second>> \in pairsOf(v)
    BY <1>4, <2>1 DEF pairsOf
  <2>3. PICK j \in below(t, i - 1) : t.entries[j].first = key
    BY <1>4, <2>2 DEF pairsBelow
  <2>4. j \in used(t) /\ t.entries[i].first = key
    BY <1>1, <1>7, <2>3, SlotFacts DEF key
  <2>5. j = i
    BY <1>1, <2>3, <2>4 DEF Sound
  <2> QED
    BY <1>6, <2>3, <2>5
<1>11. r = occupy(counted(v), newSlot(v, key), key, value)
  BY <1>8, <1>10 DEF putIn
<1> HIDE DEF r
<1>12. Sound(r) /\ Stored(v, r, key, value)
  BY <1>1, <1>2, <1>9, <1>10, <1>11, PutNew
<1>13. PICK s \in 1 .. capacity(v) :
           /\ s \notin occupiedIn(v)
           /\ r.count = v.count + 1 /\ capacity(r) = capacity(v)
           /\ used(r) = used(v) \cup {s} /\ occupiedIn(r) = occupiedIn(v) \cup {s}
           /\ r.entries[s] = [state |-> HS_OCCUPIED, first |-> key, second |-> value]
           /\ \A j \in 1 .. capacity(v) : j # s => r.entries[j] = v.entries[j]
  BY <1>12 DEF Stored
<1>14. Cardinality(used(r)) = m
  <2>1. Cardinality(used(r)) = Cardinality(used(v)) + 1
    <3>1. IsFiniteSet(used(v)) /\ s \notin used(v) /\ used(r) = used(v) \cup {s}
      BY <1>1, <1>4, <1>13, SlotFacts
    <3> QED
      BY <3>1, FS_AddElement
  <2> QED
    BY <1>3, <1>4, <2>1
<1>15. r.count = t.count + m
  BY <1>3, <1>4, <1>13
<1>16. pairsOf(r) = pairsOf(v) \cup {<<key, value>>}
  <2>1. \A j \in occupiedIn(v) : r.entries[j] = v.entries[j]
    BY <1>1, <1>13, SlotFacts
  <2>2. r.entries[s].first = key /\ r.entries[s].second = value
    BY <1>13
  <2> QED
    BY <1>13, <2>1, <2>2 DEF pairsOf
<1>17. Moving(t, r, i)
  BY <1>4, <1>6, <1>12, <1>13, <1>14, <1>15, <1>16 DEF Moving, m, n
<1> QED
  BY <1>17 DEF r, key, value

\* growTo keeps what the table is.  What was removed is gone.
LEMMA MovedFacts ==
    ASSUME Hashes, NEW grown \in [Tables -> Tables], LeavesRoomy(grown), NEW t, Sound(t),
           Cardinality(occupiedIn(t)) <= t.count,
           t.count + Cardinality(occupiedIn(t)) + 1 <= sizeFor(t.count + 1)
    PROVE  /\ Moving(t, moved(grown, t), capacity(t))
           /\ mapOf(moved(grown, t)) = mapOf(t) /\ leftoversOf(moved(grown, t)) = {}
<1> DEFINE n == capacity(t)
<1>1. t \in Tables /\ n \in Nat /\ DOMAIN t.entries = 1 .. n
  BY TableType DEF Sound
<1>2. PICK up \in [0 .. n -> Tables] : Moves(up, grown, t) /\ moved(grown, t) = up[n]
  BY <1>1, MovedDef
<1> DEFINE S == {i \in 0 .. n : Moving(t, up[i], i)}
<1>3. 0 \in S
  <2>1. up[0] = allocated(t)
    BY <1>2 DEF Moves
  <2>2. /\ up[0] \in Tables /\ capacity(up[0]) = sizeFor(t.count + 1)
        /\ up[0].count = t.count /\ used(up[0]) = {} /\ occupiedIn(up[0]) = {}
    BY <1>1, <2>1, AllocatedFacts
  <2>3. Sound(up[0])
    BY <2>2 DEF Sound
  <2>4. below(t, 0) = {} /\ pairsBelow(t, 0) = {}
    BY DEF below, pairsBelow
  <2>5. Cardinality({}) = 0
    BY FS_EmptySet
  <2>6. pairsOf(up[0]) = {}
    BY <2>2 DEF pairsOf
  <2>7. t.count = t.count + 0
    BY <1>1, TableType
  <2> DEFINE v == up[0]
  <2> HIDE DEF v
  <2>8. Moving(t, v, 0)
    BY <2>2, <2>3, <2>4, <2>5, <2>6, <2>7 DEF Moving, v
  <2> QED
    BY <1>1, <2>8 DEF v
<1>4. \A i \in 0 .. n - 1 : i \in S => i + 1 \in S
  <2> SUFFICES ASSUME NEW i \in 0 .. n - 1, Moving(t, up[i], i) PROVE Moving(t, up[i + 1], i + 1)
    BY <1>1
  <2>1. i + 1 \in 1 .. n /\ (i + 1) - 1 = i
    BY <1>1
  <2> DEFINE j == i + 1
             v == up[i]
             w == up[i + 1]
  <2>2. w = IF t.entries[j].state = HS_OCCUPIED
            THEN putIn(grown, v, t.entries[j].first, t.entries[j].second) ELSE v
    BY <1>2, <2>1 DEF Moves
  <2>3. Moving(t, v, j - 1) /\ j \in 1 .. n
    BY <2>1
  <2>4. j \in occupiedIn(t) <=> t.entries[j].state = HS_OCCUPIED
    BY <1>1, <2>3 DEF occupiedIn, slotsIn
  <2> HIDE DEF j, v, w
  <2>5. CASE j \in occupiedIn(t)
    <3>1. Moving(t, putIn(grown, v, t.entries[j].first, t.entries[j].second), j)
      BY <2>3, <2>5, MoveOne
    <3> QED
      BY <2>2, <2>4, <2>5, <3>1 DEF w, j
  <2>6. CASE j \notin occupiedIn(t)
    <3>1. below(t, j) = below(t, j - 1)
      BY <1>1, <2>3, <2>6, BelowFacts
    <3>2. pairsBelow(t, j) = pairsBelow(t, j - 1)
      BY <3>1 DEF pairsBelow
    <3>3. Moving(t, v, j)
      BY <2>3, <3>1, <3>2 DEF Moving
    <3> QED
      BY <2>2, <2>4, <2>6, <3>3 DEF w, j
  <2> QED
    BY <2>5, <2>6
<1> HIDE DEF S
<1>5. n \in S
  <2>1. \A i \in 0 .. n : i \in S
    BY <1>1, <1>3, <1>4, UpInduction
  <2> QED
    BY <1>1, <2>1
<1> DEFINE r == moved(grown, t)
<1>6. Moving(t, r, n)
  BY <1>2, <1>5 DEF S
<1> HIDE DEF r, n
<1>7. Sound(r) /\ used(r) = occupiedIn(r) /\ pairsOf(r) = pairsBelow(t, n)
  BY <1>6 DEF Moving
<1>8. pairsBelow(t, n) = pairsOf(t)
  <2>1. below(t, n) = occupiedIn(t)
    BY <1>1, SlotFacts DEF below, n
  <2> QED
    BY <2>1 DEF pairsBelow, pairsOf
<1>9. mapOf(r) = mapOf(t)
  BY <1>7, <1>8, SamePairsSameMap
<1>10. leftoversOf(r) = {}
  <2>1. slotsIn(r, HS_FREE_AGAIN) = {}
    BY <1>7 DEF used, occupiedIn, slotsIn, HS_FREE, HS_OCCUPIED, HS_FREE_AGAIN
  <2> QED
    BY <2>1 DEF leftoversOf
<1> QED
  BY <1>6, <1>9, <1>10 DEF r, n

LEMMA GrowthDef ==
    /\ growth \in [Nat -> [Tables -> Tables]]
    /\ \A n \in Nat : \A t \in Tables :
           growth[n][t] = IF t.count + 1 <= capacity(t) THEN t
                          ELSE IF n = 0 THEN allocated(t) ELSE moved(growth[n - 1], t)
<1> DEFINE Grows == [Tables -> Tables]
           c == [t \in Tables |-> IF t.count + 1 <= capacity(t) THEN t ELSE allocated(t)]
           next(g) == [t \in Tables |-> IF t.count + 1 <= capacity(t) THEN t ELSE moved(g, t)]
           step == [p \in Nat \X Grows |-> next(p[2])]
           body(h) == [n \in Nat |-> [t \in Tables |->
                          IF t.count + 1 <= capacity(t) THEN t
                          ELSE IF n = 0 THEN allocated(t) ELSE moved(h[n - 1], t)]]
<1>1. c \in Grows
  BY AllocatedFacts
<1>2. \A g \in Grows : next(g) \in Grows
  <2> SUFFICES ASSUME NEW g \in Grows, NEW t \in Tables PROVE moved(g, t) \in Tables
    OBVIOUS
  <2>1. PICK up \in [0 .. capacity(t) -> Tables] : moved(g, t) = up[capacity(t)]
    BY MovedDef
  <2>2. capacity(t) \in 0 .. capacity(t)
    BY TableType
  <2> QED
    BY <2>1, <2>2
<1>3. \A h : /\ body(h)[0] = c
             /\ \A n \in Nat : n # 0 => body(h)[n] = next(h[n - 1])
             /\ DOMAIN body(h) = Nat /\ body(h) = [n \in Nat |-> body(h)[n]]
  OBVIOUS
<1>4. growth = CHOOSE h : h = body(h)
  BY DEF growth
<1> HIDE DEF c, Grows
<1>5. step \in NatSteps(Grows) /\ \A n \in Nat : \A g \in Grows : step[<<n, g>>] = next(g)
  <2> HIDE DEF next
  <2> QED
    BY <1>2 DEF NatSteps
<1> HIDE DEF step, body
<1>6. PICK f \in [Nat -> Grows] : RecursesOnNat(f, c, step)
  BY <1>1, <1>5, NatRecursion
<1>7. f = body(f)
  <2> HIDE DEF next
  <2>1. f = [n \in Nat |-> IF n = 0 THEN c ELSE step[<<n, f[n - 1]>>]]
    BY <1>6 DEF RecursesOnNat
  <2>2. ASSUME NEW n \in Nat PROVE f[n] = body(f)[n]
    <3>1. CASE n = 0
      BY <1>3, <2>1, <3>1
    <3>2. CASE n # 0
      <4>1. n - 1 \in Nat
        BY <3>2
      <4>2. f[n - 1] \in Grows
        BY <4>1
      <4>3. f[n] = step[<<n, f[n - 1]>>]
        BY <2>1, <3>2
      <4> QED
        BY <1>3, <1>5, <3>2, <4>2, <4>3
    <3> QED
      BY <3>1, <3>2
  <2>3. f = [n \in Nat |-> f[n]] /\ body(f) = [n \in Nat |-> body(f)[n]]
    BY <1>3
  <2> QED
    BY <2>2, <2>3
<1>8. growth = body(growth)
  BY <1>4, <1>7
<1> HIDE DEF growth
<1>9. growth[0] = c /\ \A n \in Nat : n # 0 => growth[n] = next(growth[n - 1])
  BY <1>3, <1>8
<1>10. \A n \in Nat : growth[n] \in Grows
  <2> HIDE DEF next
  <2> DEFINE S == {n \in Nat : growth[n] \in Grows}
  <2>1. 0 \in S
    BY <1>1, <1>9
  <2>2. \A n \in S : n + 1 \in S
    <3> SUFFICES ASSUME NEW n \in Nat, growth[n] \in Grows PROVE growth[n + 1] \in Grows
      OBVIOUS
    <3>1. n + 1 \in Nat /\ n + 1 # 0 /\ (n + 1) - 1 = n
      OBVIOUS
    <3>2. growth[n + 1] = next(growth[n])
      BY <1>9, <3>1
    <3> QED
      BY <1>2, <3>2
  <2>3. S \in SUBSET Nat
    OBVIOUS
  <2>4. S = Nat
    <3> HIDE DEF S
    <3> QED
      BY <2>1, <2>2, <2>3, NatSetInduction
  <2> QED
    BY <2>4
<1>11. growth \in [Nat -> Grows]
  <2>1. DOMAIN growth = Nat /\ growth = [n \in Nat |-> growth[n]]
    BY <1>3, <1>8
  <2> QED
    BY <1>10, <2>1
<1>12. ASSUME NEW n \in Nat, NEW t \in Tables
       PROVE  growth[n][t] = IF t.count + 1 <= capacity(t) THEN t
                             ELSE IF n = 0 THEN allocated(t) ELSE moved(growth[n - 1], t)
  <2>1. CASE n = 0
    BY <1>9, <2>1 DEF c
  <2>2. CASE n # 0
    BY <1>9, <2>2
  <2> QED
    BY <2>1, <2>2
<1> QED
  BY <1>11, <1>12 DEF Grows

\* A full table has no more entries than fit in the new array once more.
LEMMA NewSize ==
    ASSUME NEW t, Sound(t), Sizes(t), t.count + 1 > capacity(t)
    PROVE  LET n == sizeFor(t.count + 1)
               q == Cardinality(occupiedIn(t))
           IN  /\ \E k \in Nat : k >= 1 /\ n = pow2[k] + 1
               /\ t.count + q + 1 <= n /\ (n > 3 => t.count >= 2)
<1> DEFINE n == sizeFor(t.count + 1)
           q == Cardinality(occupiedIn(t))
           m == Cardinality(used(t))
           cap == capacity(t)
           ct == t.count
<1>1. ct \in Nat /\ cap \in Nat /\ q \in Nat /\ m \in Nat /\ q <= m /\ m <= cap
  BY SlotFacts, TableType DEF Sound
<1>2. ct <= cap /\ m <= ct /\ (cap > 3 => m + 2 <= ct) /\ ct + 1 > cap
  BY DEF Sizes
<1>3. cap = 0 \/ \E k \in Nat : k >= 1 /\ cap = pow2[k] + 1
  BY DEF Sizes
<1>4. n = sizeFor(ct + 1)
  OBVIOUS
<1> HIDE DEF n, q, m, cap, ct
<1>5. ct = cap
  BY <1>1, <1>2
<1>6. pow2[0] = 1 /\ pow2[1] = 2 /\ pow2[2] = 4 /\ pow2[3] = 8
  <2>1. pow2[0 + 1] = 2 * pow2[0] /\ pow2[1 + 1] = 2 * pow2[1] /\ pow2[2 + 1] = 2 * pow2[2]
    BY PowDef
  <2> QED
    BY <2>1, PowDef
<1>7. CASE cap = 0
  <2>1. ct + 1 = 1 /\ n = pow2[0 + 1] + 1
    BY <1>4, <1>5, <1>6, <1>7, LogFacts
  <2>2. n = 3 /\ n = pow2[1] + 1 /\ 1 \in Nat
    BY <1>6, <2>1
  <2>3. q = 0 /\ ct = 0
    BY <1>1, <1>5, <1>7
  <2>4. \E k \in Nat : k >= 1 /\ n = pow2[k] + 1
    BY <2>2
  <2> QED
    BY <2>2, <2>3, <2>4 DEF n, q, ct
<1>8. CASE \E k \in Nat : k >= 1 /\ cap = pow2[k] + 1
  <2>1. PICK k \in Nat : k >= 1 /\ cap = pow2[k] + 1
    BY <1>8
  <2>2. CASE k = 1
    <3>1. cap = 3 /\ ct + 1 = 4
      BY <1>5, <1>6, <2>1, <2>2
    <3>2. n = pow2[2 + 1] + 1
      BY <1>4, <1>6, <3>1, LogFacts
    <3>3. n = 9 /\ n = pow2[3] + 1 /\ 3 \in Nat
      BY <1>6, <3>2
    <3>4. \E j \in Nat : j >= 1 /\ n = pow2[j] + 1
      BY <3>3
    <3>5. ct + q + 1 <= n /\ ct >= 2
      BY <1>1, <1>5, <3>1, <3>3
    <3> QED
      BY <3>4, <3>5 DEF n, q, ct
  <2>3. CASE k # 1
    <3> DEFINE p == pow2[k]
               r == pow2[k + 1]
    <3>1. p \in Nat /\ r = 2 * p
      BY PowDef
    <3>2. p >= 4
      <4>1. 2 \in Nat /\ 2 <= k
        BY <2>1, <2>3
      <4> QED
        BY <1>6, <4>1, PowFacts
    <3>3. cap = p + 1
      BY <2>1
    <3> HIDE DEF p, r
    <3>4. p <= ct + 1 /\ ct + 1 < r /\ ct + 1 \in Nat
      BY <1>1, <1>5, <3>1, <3>2, <3>3
    <3>5. n = r + 1
      BY <1>4, <3>4, LogFacts DEF p, r
    <3>6. ct + q + 1 <= n /\ ct >= 2
      BY <1>1, <1>2, <1>5, <3>1, <3>2, <3>3, <3>5
    <3>7. k + 1 \in Nat /\ k + 1 >= 1 /\ n = pow2[k + 1] + 1
      BY <3>5 DEF r
    <3>8. \E j \in Nat : j >= 1 /\ n = pow2[j] + 1
      BY <3>7
    <3> QED
      BY <3>6, <3>8 DEF n, q, ct
  <2> QED
    BY <2>2, <2>3
<1> QED
  BY <1>3, <1>7, <1>8

\* The table after growTo, when it was full.
LEMMA GrownFacts ==
    ASSUME Hashes, NEW t, Sound(t), Sizes(t), t.count + 1 > capacity(t),
           NEW g, g = growth[Cardinality(occupiedIn(t))][t]
    PROVE  /\ Moving(t, g, capacity(t)) /\ pairsOf(g) = pairsOf(t)
           /\ mapOf(g) = mapOf(t) /\ leftoversOf(g) = {}
<1> DEFINE q == Cardinality(occupiedIn(t))
           n == capacity(t)
<1>1. /\ t \in Tables /\ t.count \in Nat /\ q \in Nat /\ Cardinality(used(t)) \in Nat
      /\ q <= Cardinality(used(t)) /\ n \in Nat
  BY SlotFacts, TableType DEF Sound
<1>2. q <= t.count /\ t.count + q + 1 <= sizeFor(t.count + 1)
  BY <1>1, NewSize DEF Sizes
<1>3. below(t, n) = occupiedIn(t) /\ pairsBelow(t, n) = pairsOf(t)
  <2>1. below(t, n) = occupiedIn(t)
    BY <1>1, SlotFacts DEF below
  <2> QED
    BY <2>1 DEF pairsBelow, pairsOf
<1>4. ~(t.count + 1 <= capacity(t))
  BY <1>1
<1>5. g = IF q = 0 THEN allocated(t) ELSE moved(growth[q - 1], t)
  BY <1>1, <1>4, GrowthDef
<1>6. CASE q = 0
  <2>1. occupiedIn(t) = {}
    BY <1>1, <1>6, SlotFacts, FS_EmptySet
  <2>2. /\ g \in Tables /\ capacity(g) = sizeFor(t.count + 1)
        /\ g.count = t.count /\ used(g) = {} /\ occupiedIn(g) = {}
    BY <1>1, <1>5, <1>6, AllocatedFacts
  <2>3. Sound(g)
    BY <2>2 DEF Sound
  <2>4. pairsOf(g) = {} /\ pairsOf(t) = {}
    BY <2>1, <2>2 DEF pairsOf
  <2>5. Cardinality({}) = 0 /\ t.count = t.count + 0
    BY <1>1, FS_EmptySet
  <2>6. Moving(t, g, n)
    BY <1>3, <2>1, <2>2, <2>3, <2>4, <2>5 DEF Moving
  <2>7. mapOf(g) = mapOf(t)
    BY <2>3, <2>4, SamePairsSameMap
  <2>8. leftoversOf(g) = {}
    <3>1. slotsIn(g, HS_FREE_AGAIN) = {}
      BY <2>2 DEF used, slotsIn, HS_FREE, HS_FREE_AGAIN
    <3> QED
      BY <3>1 DEF leftoversOf
  <2> QED
    BY <2>4, <2>6, <2>7, <2>8
<1>7. CASE q # 0
  <2> DEFINE grown == growth[q - 1]
  <2>1. q - 1 \in Nat
    BY <1>1, <1>7
  <2>2. grown \in [Tables -> Tables]
    BY <2>1, GrowthDef
  <2>3. LeavesRoomy(grown)
    BY <2>1, GrowthDef DEF LeavesRoomy
  <2>4. g = moved(grown, t)
    BY <1>5, <1>7
  <2> HIDE DEF grown
  <2>5. Moving(t, g, n) /\ mapOf(g) = mapOf(t) /\ leftoversOf(g) = {}
    BY <1>2, <2>2, <2>3, <2>4, MovedFacts
  <2> QED
    BY <1>3, <2>5 DEF Moving
<1> QED
  BY <1>6, <1>7

\* A table keeps its sizes when a key is put in a slot of it.
LEMMA StoredSizes ==
    ASSUME NEW t, Sound(t), NEW r, Sound(r), NEW key, NEW value, Stored(t, r, key, value)
    PROVE  /\ r.count = t.count + 1 /\ capacity(r) = capacity(t)
           /\ Cardinality(used(r)) <= Cardinality(used(t)) + 1
<1>1. PICK s \in 1 .. capacity(t) : /\ r.count = t.count + 1 /\ capacity(r) = capacity(t)
                                   /\ used(r) = used(t) \cup {s}
  BY DEF Stored
<1>2. IsFiniteSet(used(t)) /\ Cardinality(used(t)) \in Nat
  BY SlotFacts DEF Sound
<1>3. Cardinality(used(t) \cup {s}) <= Cardinality(used(t)) + 1
  <2>1. Cardinality(used(t) \cup {s}) = IF s \in used(t) THEN Cardinality(used(t)) ELSE Cardinality(used(t)) + 1
    BY <1>2, FS_AddElement
  <2> QED
    BY <1>2, <2>1
<1> QED
  BY <1>1, <1>3

\* actualPut: the table stays sound, and has the new value for the key.
LEMMA PutFacts ==
    ASSUME Hashes, NEW t, Sound(t), Sizes(t), NEW key \in HashKeys,
           NEW value \in Elements \cup {zero}, NEW r, r = actualPut(t, key, value)
    PROVE  /\ Sound(r) /\ Sizes(r)
           /\ mapOf(r) = with(mapOf(t), key, value) /\ leftoversOf(r) \subseteq leftoversOf(t)
<1> DEFINE q == Cardinality(occupiedIn(t))
           g == growth[q][t]
<1>1. /\ t \in Tables /\ t.count \in Nat /\ q \in Nat /\ Cardinality(used(t)) \in Nat
      /\ q <= Cardinality(used(t)) /\ capacity(t) \in Nat
  BY SlotFacts, TableType DEF Sound
<1>2. r = IF findEntry(t, key) # NoEntry THEN occupy(t, findEntry(t, key), key, value)
          ELSE occupy(counted(g), newSlot(g, key), key, value)
  BY DEF actualPut, putIn, occupiedIn
<1> HIDE DEF g
<1>3. CASE findEntry(t, key) # NoEntry
  <2>1. r = occupy(t, findEntry(t, key), key, value)
    BY <1>2, <1>3
  <2>2. /\ Sound(r) /\ used(r) = used(t) /\ r.count = t.count /\ capacity(r) = capacity(t)
        /\ mapOf(r) = with(mapOf(t), key, value) /\ leftoversOf(r) \subseteq leftoversOf(t)
    BY <1>3, <2>1, PutFound
  <2> QED
    BY <2>2 DEF Sizes
<1>4. CASE findEntry(t, key) = NoEntry /\ t.count + 1 <= capacity(t)
  <2>1. g = t
    BY <1>1, <1>4, GrowthDef DEF g
  <2>2. r = occupy(counted(t), newSlot(t, key), key, value)
    BY <1>2, <1>4, <2>1
  <2>3. q < capacity(t)
    BY <1>1, <1>4 DEF Sizes
  <2>4. /\ Sound(r) /\ Stored(t, r, key, value)
        /\ mapOf(r) = with(mapOf(t), key, value) /\ leftoversOf(r) \subseteq leftoversOf(t)
    BY <1>4, <2>2, <2>3, PutNew
  <2>5. /\ r.count = t.count + 1 /\ capacity(r) = capacity(t)
        /\ Cardinality(used(r)) <= Cardinality(used(t)) + 1
    BY <2>4, StoredSizes
  <2>6. Cardinality(used(r)) \in Nat
    BY <2>4, SlotFacts DEF Sound
  <2>7. Sizes(r)
    BY <1>1, <1>4, <2>5, <2>6 DEF Sizes
  <2> QED
    BY <2>4, <2>7
<1>5. CASE findEntry(t, key) = NoEntry /\ t.count + 1 > capacity(t)
  <2> DEFINE n == sizeFor(t.count + 1)
  <2>1. /\ Moving(t, g, capacity(t)) /\ pairsOf(g) = pairsOf(t)
        /\ mapOf(g) = mapOf(t) /\ leftoversOf(g) = {}
    BY <1>5, GrownFacts DEF g
  <2>2. below(t, capacity(t)) = occupiedIn(t)
    BY <1>1, SlotFacts DEF below
  <2>3. /\ Sound(g) /\ used(g) = occupiedIn(g) /\ capacity(g) = n
        /\ Cardinality(used(g)) = q /\ g.count = t.count + q
    BY <2>1, <2>2 DEF Moving
  <2>4. /\ \E k \in Nat : k >= 1 /\ n = pow2[k] + 1
        /\ t.count + q + 1 <= n /\ (n > 3 => t.count >= 2)
    BY <1>5, NewSize
  <2>5. n \in Nat
    BY <1>1, SizeForType
  <2> HIDE DEF n, q
  <2>6. r = occupy(counted(g), newSlot(g, key), key, value)
    BY <1>2, <1>5
  <2>7. findEntry(g, key) = NoEntry
    <3> SUFFICES ASSUME findEntry(g, key) # NoEntry PROVE FALSE
      OBVIOUS
    <3> DEFINE s == findEntry(g, key)
    <3>1. s \in used(g) /\ g.entries[s].first = key
      BY <2>3, FindFacts DEF Finds
    <3> HIDE DEF s
    <3>2. <<key, g.entries[s].second>> \in pairsOf(t)
      BY <2>1, <2>3, <3>1 DEF pairsOf
    <3>3. PICK i \in occupiedIn(t) : t.entries[i].first = key
      BY <3>2 DEF pairsOf
    <3>4. findEntry(t, key) = i /\ i \in 1 .. capacity(t)
      BY <1>1, <3>3, FoundFacts, SlotFacts
    <3> QED
      BY <1>1, <1>5, <3>4 DEF NoEntry
  <2>8. Cardinality(occupiedIn(g)) < capacity(g)
    BY <1>1, <2>3, <2>4, <2>5
  <2>9. /\ Sound(r) /\ Stored(g, r, key, value)
        /\ mapOf(r) = with(mapOf(g), key, value) /\ leftoversOf(r) \subseteq leftoversOf(g)
    BY <2>3, <2>6, <2>7, <2>8, PutNew
  <2>10. /\ r.count = g.count + 1 /\ capacity(r) = capacity(g)
         /\ Cardinality(used(r)) <= Cardinality(used(g)) + 1
    BY <2>3, <2>9, StoredSizes
  <2>11. Cardinality(used(r)) \in Nat
    BY <2>9, SlotFacts DEF Sound
  <2>12. r.count = t.count + q + 1 /\ capacity(r) = n /\ Cardinality(used(r)) <= q + 1
    BY <1>1, <2>3, <2>10
  <2>13. /\ r.count <= capacity(r) /\ Cardinality(used(r)) <= r.count
         /\ (capacity(r) > 3 => Cardinality(used(r)) + 2 <= r.count)
    BY <1>1, <2>4, <2>5, <2>11, <2>12
  <2>14. Sizes(r)
    BY <2>4, <2>12, <2>13 DEF Sizes
  <2> QED
    BY <2>1, <2>9, <2>14
<1> QED
  BY <1>1, <1>3, <1>4, <1>5

\* A table with other states or values in the slots that were used.
LEMMA SameSlots ==
    ASSUME NEW t, Sound(t), NEW r \in Tables, capacity(r) = capacity(t), used(r) = used(t),
           \A i \in used(t) : r.entries[i].first = t.entries[i].first
    PROVE  Sound(r)
<1>1. \A key, i : probe(r, key, i) = probe(t, key, i)
  BY SameProbes
<1>2. \A i \in used(t) : Reached(r, i)
  BY <1>1 DEF Sound, Reached
<1> QED
  BY <1>2 DEF Sound

LEMMA SameSizes ==
    ASSUME NEW t, Sizes(t), NEW r, capacity(r) = capacity(t), used(r) = used(t), r.count = t.count
    PROVE  Sizes(r)
BY DEF Sizes

LEMMA ChangeEntry ==
    ASSUME NEW t \in Tables, NEW s \in 1 .. capacity(t), NEW e \in Entries,
           NEW r, r = [entries |-> [t.entries EXCEPT ![s] = e], count |-> t.count]
    PROVE  /\ r \in Tables /\ capacity(r) = capacity(t) /\ r.count = t.count
           /\ r.entries[s] = e /\ \A i \in 1 .. capacity(t) : i # s => r.entries[i] = t.entries[i]
<1>1. t.entries \in Seq(Entries) /\ t.count \in Nat /\ s \in 1 .. Len(t.entries)
  BY DEF Tables, capacity
<1>2. /\ [t.entries EXCEPT ![s] = e] \in Seq(Entries)
      /\ Len([t.entries EXCEPT ![s] = e]) = Len(t.entries)
  BY <1>1, ExceptSeq
<1>3. /\ [t.entries EXCEPT ![s] = e][s] = e
      /\ \A i \in 1 .. Len(t.entries) : i # s => [t.entries EXCEPT ![s] = e][i] = t.entries[i]
  BY <1>1
<1> QED
  BY <1>1, <1>2, <1>3 DEF Tables, capacity

\* A key is in the map when its slot is occupied, with what is in the slot.
LEMMA KeyFacts ==
    ASSUME Hashes, NEW t, Sound(t), NEW key \in HashKeys, NEW s, s = findEntry(t, key)
    PROVE  /\ key \in DOMAIN mapOf(t) => s \in occupiedIn(t)
           /\ s \in occupiedIn(t) => key \in DOMAIN mapOf(t) /\ mapOf(t)[key] = t.entries[s].second
<1>1. MapBySlots(t) /\ t \in Tables
  BY MapFacts DEF Sound
<1>2. ASSUME key \in DOMAIN mapOf(t) PROVE s \in occupiedIn(t)
  <2>1. PICK i \in occupiedIn(t) : key = t.entries[i].first
    BY <1>1, <1>2 DEF MapBySlots
  <2> QED
    BY <2>1, FoundFacts
<1>3. ASSUME s \in occupiedIn(t)
      PROVE  key \in DOMAIN mapOf(t) /\ mapOf(t)[key] = t.entries[s].second
  <2>1. s # NoEntry
    BY <1>1, <1>3, SlotFacts, TableType DEF NoEntry
  <2>2. t.entries[s].first = key
    BY <2>1, FindFacts DEF Finds
  <2> QED
    BY <1>1, <1>3, <2>2 DEF MapBySlots
<1> QED
  BY <1>2, <1>3

freeAgainIn(t) == slotsIn(t, HS_FREE_AGAIN)

LEMMA StateFacts ==
    ASSUME NEW t \in Tables
    PROVE  /\ used(t) = occupiedIn(t) \cup freeAgainIn(t) /\ occupiedIn(t) \cap freeAgainIn(t) = {}
           /\ \A i \in 1 .. capacity(t) :
                  /\ i \in used(t) <=> t.entries[i].state # HS_FREE
                  /\ i \in occupiedIn(t) <=> t.entries[i].state = HS_OCCUPIED
                  /\ i \in freeAgainIn(t) <=> t.entries[i].state = HS_FREE_AGAIN
           /\ occupiedIn(t) \subseteq 1 .. capacity(t) /\ freeAgainIn(t) \subseteq 1 .. capacity(t)
<1>1. DOMAIN t.entries = 1 .. capacity(t)
  BY TableType
<1>2. \A i \in 1 .. capacity(t) : t.entries[i].state \in {HS_FREE, HS_OCCUPIED, HS_FREE_AGAIN}
  BY TableType DEF Entries
<1> QED
  BY <1>1, <1>2 DEF used, occupiedIn, freeAgainIn, slotsIn, HS_FREE, HS_OCCUPIED, HS_FREE_AGAIN

\* Another value for a key that was found, occupied or not.
LEMMA AssignFacts ==
    ASSUME Hashes, NEW t, Sound(t), Sizes(t), NEW key \in HashKeys,
           NEW value \in Elements \cup {zero}, NEW s, s = findEntry(t, key), s # NoEntry,
           NEW r, r = [t EXCEPT !.entries[s].second = value]
    PROVE  /\ Sound(r) /\ Sizes(r)
           /\ s \in occupiedIn(t) => /\ mapOf(r) = with(mapOf(t), key, value)
                                    /\ leftoversOf(r) \subseteq leftoversOf(t)
           /\ s \notin occupiedIn(t) =>
                  /\ mapOf(r) = mapOf(t)
                  /\ leftoversOf(r) = {p \in leftoversOf(t) : p[1] # key} \cup {<<key, value>>}
                  /\ \E p \in leftoversOf(t) : p[1] = key
<1> DEFINE e == [t.entries[s] EXCEPT !.second = value]
<1>1. Fits(t, key, s) /\ s \in used(t) /\ t.entries[s].first = key
  BY FoundFits, FindFacts DEF Finds
<1>2. /\ t \in Tables /\ s \in 1 .. capacity(t) /\ t.entries[s] \in Entries
      /\ t = [entries |-> t.entries, count |-> t.count] /\ DOMAIN t.entries = 1 .. capacity(t)
  BY <1>1, TableType DEF Sound, Fits
<1>3. e \in Entries /\ e.state = t.entries[s].state /\ e.first = key /\ e.second = value
  BY <1>1, <1>2 DEF Entries
<1>4. r = [entries |-> [t.entries EXCEPT ![s] = e], count |-> t.count]
  BY <1>2
<1> HIDE DEF e
<1>5. /\ r \in Tables /\ capacity(r) = capacity(t) /\ r.count = t.count
      /\ r.entries[s] = e /\ \A i \in 1 .. capacity(t) : i # s => r.entries[i] = t.entries[i]
  BY <1>2, <1>3, <1>4, ChangeEntry
<1>6. /\ used(r) = used(t) /\ occupiedIn(r) = occupiedIn(t) /\ freeAgainIn(r) = freeAgainIn(t)
      /\ used(t) \subseteq 1 .. capacity(t)
  <2>1. \A i \in 1 .. capacity(t) : r.entries[i].state = t.entries[i].state
    BY <1>2, <1>3, <1>5
  <2>2. DOMAIN r.entries = 1 .. capacity(t) /\ DOMAIN t.entries = 1 .. capacity(t)
    BY <1>2, <1>5, TableType
  <2> QED
    BY <2>1, <2>2 DEF used, occupiedIn, freeAgainIn, slotsIn
<1>7. Sound(r)
  <2>1. \A i \in used(t) : r.entries[i].first = t.entries[i].first
    BY <1>1, <1>3, <1>5, <1>6
  <2> QED
    BY <1>5, <1>6, <2>1, SameSlots
<1>8. Sizes(r)
  BY <1>5, <1>6, SameSizes
<1>9. ASSUME s \in occupiedIn(t)
      PROVE  mapOf(r) = with(mapOf(t), key, value) /\ leftoversOf(r) \subseteq leftoversOf(t)
  <2>1. t.entries[s].state = HS_OCCUPIED
    BY <1>2, <1>9, StateFacts
  <2>2. e = [state |-> HS_OCCUPIED, first |-> key, second |-> value]
    BY <1>1, <1>2, <2>1 DEF e, Entries
  <2>3. Occupied(t, r, s, key, value)
    BY <1>1, <1>5, <1>6, <1>9, <2>2 DEF Occupied
  <2> QED
    BY <1>1, <1>7, <2>3, OccupiedMap
<1>10. ASSUME s \notin occupiedIn(t)
       PROVE  /\ mapOf(r) = mapOf(t)
              /\ leftoversOf(r) = {p \in leftoversOf(t) : p[1] # key} \cup {<<key, value>>}
              /\ \E p \in leftoversOf(t) : p[1] = key
  <2>1. s \in freeAgainIn(t)
    BY <1>1, <1>2, <1>10, StateFacts
  <2>2. \A i \in occupiedIn(t) : r.entries[i] = t.entries[i]
    BY <1>2, <1>5, <1>10, StateFacts
  <2>3. pairsOf(r) = pairsOf(t)
    BY <1>6, <2>2 DEF pairsOf
  <2>4. mapOf(r) = mapOf(t)
    BY <1>7, <2>3, SamePairsSameMap
  <2>5. \A i \in freeAgainIn(t) : i # s => r.entries[i] = t.entries[i] /\ t.entries[i].first # key
    <3> SUFFICES ASSUME NEW i \in freeAgainIn(t), i # s
                 PROVE  r.entries[i] = t.entries[i] /\ t.entries[i].first # key
      OBVIOUS
    <3>1. i \in used(t) /\ i \in 1 .. capacity(t)
      BY <1>2, StateFacts
    <3> QED
      BY <1>1, <1>5, <3>1 DEF Fits
  <2>6. leftoversOf(t) = {<<t.entries[i].first, t.entries[i].second>> : i \in freeAgainIn(t)}
        /\ leftoversOf(r) = {<<r.entries[i].first, r.entries[i].second>> : i \in freeAgainIn(t)}
    BY <1>6 DEF leftoversOf, freeAgainIn
  <2>7. r.entries[s].first = key /\ r.entries[s].second = value
    BY <1>3, <1>5
  <2>8. leftoversOf(r) \subseteq {p \in leftoversOf(t) : p[1] # key} \cup {<<key, value>>}
    <3> SUFFICES ASSUME NEW i \in freeAgainIn(t)
                 PROVE  <<r.entries[i].first, r.entries[i].second>>
                            \in {p \in leftoversOf(t) : p[1] # key} \cup {<<key, value>>}
      BY <2>6
    <3>1. CASE i = s
      BY <2>7, <3>1
    <3>2. CASE i # s
      <4>1. <<t.entries[i].first, t.entries[i].second>> \in leftoversOf(t)
        BY <2>6
      <4> QED
        BY <2>5, <3>2, <4>1
    <3> QED
      BY <3>1, <3>2
  <2>9. ASSUME NEW p \in leftoversOf(t), p[1] # key PROVE p \in leftoversOf(r)
    <3>1. PICK i \in freeAgainIn(t) : p = <<t.entries[i].first, t.entries[i].second>>
      BY <2>6
    <3>2. i # s
      BY <1>1, <2>9, <3>1
    <3>3. <<r.entries[i].first, r.entries[i].second>> \in leftoversOf(r)
      BY <2>6
    <3> QED
      BY <2>5, <3>1, <3>2, <3>3
  <2>10. <<key, value>> \in leftoversOf(r)
    BY <2>1, <2>6, <2>7
  <2>11. <<t.entries[s].first, t.entries[s].second>> \in leftoversOf(t)
    BY <2>1, <2>6
  <2>12. \E p \in leftoversOf(t) : p[1] = key
    BY <1>1, <2>11
  <2> QED
    BY <2>4, <2>8, <2>9, <2>10, <2>12
<1> QED
  BY <1>7, <1>8, <1>9, <1>10

\* removeByKey: what was in the slot stays there.
without(m, key) == [k \in DOMAIN m \ {key} |-> m[k]]

LEMMA RemoveFacts ==
    ASSUME Hashes, NEW t, Sound(t), Sizes(t), NEW key \in HashKeys, NEW s, s = findEntry(t, key),
           NEW r, r = IF s = NoEntry THEN t ELSE [t EXCEPT !.entries[s].state = HS_FREE_AGAIN]
    PROVE  /\ Sound(r) /\ Sizes(r)
           /\ mapOf(r) = without(mapOf(t), key)
           /\ leftoversOf(r) = leftoversOf(t) \cup {<<k, mapOf(t)[k]>> : k \in DOMAIN mapOf(t) \cap {key}}
<1>1. MapBySlots(t) /\ t \in Tables
  BY MapFacts DEF Sound
<1>2. ASSUME s \notin occupiedIn(t), r = t
      PROVE  /\ Sound(r) /\ Sizes(r)
             /\ mapOf(r) = without(mapOf(t), key)
             /\ leftoversOf(r) = leftoversOf(t) \cup {<<k, mapOf(t)[k]>> : k \in DOMAIN mapOf(t) \cap {key}}
  <2>1. key \notin DOMAIN mapOf(t)
    BY <1>2, KeyFacts
  <2>2. without(mapOf(t), key) = [k \in DOMAIN mapOf(t) |-> mapOf(t)[k]]
    BY <2>1 DEF without
  <2> QED
    BY <1>1, <1>2, <2>1, <2>2 DEF MapBySlots
<1>3. CASE s = NoEntry
  <2>1. s \notin occupiedIn(t)
    BY <1>1, <1>3, StateFacts, TableType DEF NoEntry
  <2> QED
    BY <1>2, <1>3, <2>1
<1>4. CASE s # NoEntry
  <2> DEFINE e == [t.entries[s] EXCEPT !.state = HS_FREE_AGAIN]
  <2>1. Fits(t, key, s) /\ s \in used(t) /\ t.entries[s].first = key
    BY <1>4, FoundFits, FindFacts DEF Finds
  <2>2. /\ s \in 1 .. capacity(t) /\ t.entries[s] \in Entries
        /\ t = [entries |-> t.entries, count |-> t.count] /\ DOMAIN t.entries = 1 .. capacity(t)
    BY <1>1, <2>1, TableType DEF Fits
  <2>3. e \in Entries /\ e.state = HS_FREE_AGAIN /\ e.first = key /\ e.second = t.entries[s].second
    BY <2>1, <2>2 DEF Entries
  <2>4. r = [entries |-> [t.entries EXCEPT ![s] = e], count |-> t.count]
    BY <1>4, <2>2
  <2> HIDE DEF e
  <2>5. /\ r \in Tables /\ capacity(r) = capacity(t) /\ r.count = t.count
        /\ r.entries[s] = e /\ \A i \in 1 .. capacity(t) : i # s => r.entries[i] = t.entries[i]
    BY <1>1, <2>2, <2>3, <2>4, ChangeEntry
  <2>6. DOMAIN r.entries = 1 .. capacity(t)
    BY <2>5, TableType
  <2>7. /\ used(r) = used(t) /\ occupiedIn(r) = occupiedIn(t) \ {s}
        /\ freeAgainIn(r) = freeAgainIn(t) \cup {s}
    <3>1. \A i \in 1 .. capacity(t) :
              r.entries[i].state = IF i = s THEN HS_FREE_AGAIN ELSE t.entries[i].state
      BY <2>3, <2>5
    <3>2. s \in 1 .. capacity(t) /\ t.entries[s].state # HS_FREE
      BY <1>1, <2>1, <2>2, StateFacts
    <3>3. HS_FREE_AGAIN # HS_FREE /\ HS_FREE_AGAIN # HS_OCCUPIED
      BY DEF HS_FREE, HS_OCCUPIED, HS_FREE_AGAIN
    <3>4. used(r) = used(t)
      BY <2>2, <2>6, <3>1, <3>2, <3>3 DEF used
    <3>5. occupiedIn(r) = occupiedIn(t) \ {s}
      BY <2>2, <2>6, <3>1, <3>2, <3>3 DEF occupiedIn, slotsIn
    <3>6. freeAgainIn(r) = freeAgainIn(t) \cup {s}
      BY <2>2, <2>6, <3>1, <3>2, <3>3 DEF freeAgainIn, slotsIn
    <3> QED
      BY <3>4, <3>5, <3>6
  <2>8. \A i \in 1 .. capacity(t) : /\ r.entries[i].first = t.entries[i].first
                                    /\ r.entries[i].second = t.entries[i].second
    BY <2>1, <2>3, <2>5
  <2>9. Sound(r)
    <3>1. \A i \in used(t) : r.entries[i].first = t.entries[i].first
      BY <1>1, <2>8, SlotFacts
    <3> QED
      BY <2>5, <2>7, <3>1, SameSlots
  <2>10. Sizes(r)
    BY <2>5, <2>7, SameSizes
  <2>11. CASE s \notin occupiedIn(t)
    <3>1. t.entries[s].state = HS_FREE_AGAIN
      BY <1>1, <2>1, <2>2, <2>11, StateFacts
    <3>2. e = t.entries[s]
      BY <2>2, <3>1 DEF e, Entries
    <3>3. [t.entries EXCEPT ![s] = e] = t.entries
      <4>1. t.entries \in [1 .. capacity(t) -> Entries]
        BY <1>1, TableType
      <4> QED
        BY <2>2, <3>2, <4>1
    <3>4. r = t
      BY <2>2, <2>4, <3>3
    <3> QED
      BY <1>2, <2>11, <3>4
  <2>12. CASE s \in occupiedIn(t)
    <3>1. key \in DOMAIN mapOf(t) /\ mapOf(t)[key] = t.entries[s].second
      BY <2>12, KeyFacts
    <3>2. leftoversOf(r) = leftoversOf(t) \cup {<<key, mapOf(t)[key]>>}
      <4>1. \A i \in freeAgainIn(t) \cup {s} : i \in 1 .. capacity(t)
        BY <1>1, <2>2, StateFacts
      <4>2. leftoversOf(t) = {<<t.entries[i].first, t.entries[i].second>> : i \in freeAgainIn(t)}
            /\ leftoversOf(r) = {<<r.entries[i].first, r.entries[i].second>> : i \in freeAgainIn(t) \cup {s}}
        BY <2>7 DEF leftoversOf, freeAgainIn
      <4>3. leftoversOf(r) = {<<t.entries[i].first, t.entries[i].second>> : i \in freeAgainIn(t) \cup {s}}
        BY <2>8, <4>1, <4>2
      <4> QED
        BY <2>1, <3>1, <4>2, <4>3
    <3>3. MapBySlots(r)
      BY <2>9, MapFacts
    <3>4. \A i \in occupiedIn(t) : i \in used(t) /\ i \in 1 .. capacity(t)
      BY <1>1, SlotFacts, StateFacts
    <3>5. \A i \in occupiedIn(t) : i = s <=> t.entries[i].first = key
      BY <2>1, <3>4 DEF Fits
    <3>6. DOMAIN mapOf(r) = DOMAIN mapOf(t) \ {key}
      <4>1. \A k : k \in DOMAIN mapOf(r) <=> \E i \in occupiedIn(r) : k = r.entries[i].first
        BY <3>3 DEF MapBySlots
      <4>2. \A k : k \in DOMAIN mapOf(t) <=> \E i \in occupiedIn(t) : k = t.entries[i].first
        BY <1>1 DEF MapBySlots
      <4>3. \A i \in occupiedIn(t) : r.entries[i].first = t.entries[i].first
        BY <2>8, <3>4
      <4>4. ASSUME NEW k \in DOMAIN mapOf(r) PROVE k \in DOMAIN mapOf(t) \ {key}
        <5>1. PICK i \in occupiedIn(r) : k = r.entries[i].first
          BY <4>1
        <5>2. i \in occupiedIn(t) /\ i # s
          BY <2>7
        <5> QED
          BY <3>5, <4>2, <4>3, <5>1, <5>2
      <4>5. ASSUME NEW k \in DOMAIN mapOf(t) \ {key} PROVE k \in DOMAIN mapOf(r)
        <5>1. PICK i \in occupiedIn(t) : k = t.entries[i].first
          BY <4>2
        <5>2. i \in occupiedIn(r)
          BY <2>7, <3>5, <5>1
        <5> QED
          BY <4>1, <4>3, <5>1, <5>2
      <4> QED
        BY <4>4, <4>5
    <3>7. \A k \in DOMAIN mapOf(r) : mapOf(r)[k] = mapOf(t)[k]
      <4> SUFFICES ASSUME NEW k \in DOMAIN mapOf(r) PROVE mapOf(r)[k] = mapOf(t)[k]
        OBVIOUS
      <4>1. PICK i \in occupiedIn(r) : k = r.entries[i].first
        BY <3>3 DEF MapBySlots
      <4>2. i \in occupiedIn(t) /\ r.entries[i].first = t.entries[i].first
            /\ r.entries[i].second = t.entries[i].second
        BY <2>7, <2>8, <3>4, <4>1
      <4>3. mapOf(r)[k] = r.entries[i].second
        BY <3>3, <4>1 DEF MapBySlots
      <4>4. mapOf(t)[k] = t.entries[i].second
        BY <1>1, <4>1, <4>2 DEF MapBySlots
      <4> QED
        BY <4>2, <4>3, <4>4
    <3>8. mapOf(r) = without(mapOf(t), key)
      <4>1. mapOf(r) = [k \in DOMAIN mapOf(r) |-> mapOf(r)[k]]
        BY <3>3 DEF MapBySlots
      <4> QED
        BY <3>6, <3>7, <4>1 DEF without
    <3>9. DOMAIN mapOf(t) \cap {key} = {key}
      BY <3>1
    <3> QED
      BY <2>9, <2>10, <3>2, <3>8, <3>9
  <2> QED
    BY <2>11, <2>12
<1> QED
  BY <1>3, <1>4
-----------------------------------------------------------------------------
TableInv == Hashes /\ Sound(table) /\ Sizes(table)

\* The next state is the one that a table was computed for.
Becomes(r) ==
    /\ TableInv'
    /\ mapOf(table)' = mapOf(r) /\ leftoversOf(table)' = leftoversOf(r)

LEMMA BecomeFacts ==
    ASSUME Hashes, NEW r, Sound(r), Sizes(r), Become(r)
    PROVE  Becomes(r)
<1>1. r \in Tables
  BY DEF Sound
<1>2. hash' = hash /\ entries' = r.entries /\ count' = r.count
  BY DEF Become
<1>3. table' = r
  BY <1>1, <1>2 DEF table, Tables
<1>4. Hashes'
  BY <1>2 DEF Hashes
<1>5. Sound(table)'
  BY <1>2, <1>3 DEF Sound, Reached, used, capacity, probe
<1>6. Sizes(table)'
  BY <1>3 DEF Sizes, used, capacity
<1>7. mapOf(table)' = mapOf(r)
  BY <1>3 DEF mapOf, slotsIn
<1>8. leftoversOf(table)' = leftoversOf(r)
  BY <1>3 DEF leftoversOf, slotsIn
<1> QED
  BY <1>4, <1>5, <1>6, <1>7, <1>8 DEF TableInv, Becomes

LEMMA InitTable == HashtableInit => TableInv /\ dictionary!Init
<1> SUFFICES ASSUME HashtableInit PROVE TableInv /\ dictionary!Init
  OBVIOUS
<1>1. Hashes
  BY HashValuesAssumption DEF HashtableInit, Hashes
<1>2. table = [entries |-> <<>>, count |-> 0]
  BY DEF HashtableInit, table
<1>3. table \in Tables /\ capacity(table) = 0 /\ DOMAIN table.entries = {} /\ table.count = 0
  BY <1>2 DEF Tables, capacity
<1>4. used(table) = {} /\ \A state : slotsIn(table, state) = {}
  BY <1>3 DEF used, slotsIn
<1>5. Sound(table)
  BY <1>3, <1>4 DEF Sound
<1>6. Sizes(table)
  BY <1>3, <1>4, FS_EmptySet DEF Sizes
<1>7. mapOf(table) = [key \in {} |-> zero] /\ leftoversOf(table) = {}
  BY <1>4 DEF mapOf, leftoversOf
<1>8. dictionary!Init
  BY <1>7 DEF dictionary!Init, HashtableInit
<1> QED
  BY <1>1, <1>5, <1>6, <1>8 DEF TableInv

LEMMA PutStep ==
    ASSUME TableInv, NEW key \in HashKeys, NEW value \in Elements, put(key, value)
    PROVE  TableInv' /\ dictionary!Put(key, value)
<1> DEFINE r == actualPut(table, key, value)
<1>1. Hashes /\ Sound(table) /\ Sizes(table) /\ value \in Elements \cup {zero}
  BY DEF TableInv
<1>2. Become(r) /\ answered' = answered
  BY DEF put
<1>3. /\ Sound(r) /\ Sizes(r)
      /\ mapOf(r) = with(mapOf(table), key, value) /\ leftoversOf(r) \subseteq leftoversOf(table)
  BY <1>1, PutFacts
<1> HIDE DEF r
<1>4. Becomes(r)
  BY <1>1, <1>2, <1>3, BecomeFacts
<1>5. /\ TableInv' /\ mapOf(table)' = with(mapOf(table), key, value)
      /\ leftoversOf(table)' \subseteq leftoversOf(table)
  BY <1>3, <1>4 DEF Becomes
<1> QED
  BY <1>2, <1>5 DEF dictionary!Put, with

LEMMA FindStep ==
    ASSUME TableInv, NEW key \in HashKeys, find(key)
    PROVE  TableInv' /\ dictionary!Find(key)
<1> DEFINE s == findEntry(table, key)
           m == mapOf(table)
           l == leftoversOf(table)
<1>1. Hashes /\ Sound(table) /\ table \in Tables
  BY DEF TableInv, Sound
<1>2. answered' = IF s = NoEntry THEN absent ELSE table.entries[s].second
  BY DEF find, table
<1>3. UNCHANGED <<hash, entries, count>>
  BY DEF find
<1>4. TableInv'
  BY <1>3 DEF TableInv, Hashes, Sound, Sizes, Reached, used, capacity, probe, table, Tables
<1>5. mapOf(table)' = m /\ leftoversOf(table)' = l
  BY <1>3 DEF mapOf, leftoversOf, slotsIn, table
<1>6. /\ key \in DOMAIN m => s \in occupiedIn(table)
      /\ s \in occupiedIn(table) => key \in DOMAIN m /\ m[key] = table.entries[s].second
  BY <1>1, KeyFacts
<1>7. s # NoEntry => s \in used(table) /\ table.entries[s].first = key
  BY <1>1, FindFacts DEF Finds
<1>8. NoEntry \notin occupiedIn(table) /\ used(table) = occupiedIn(table) \cup freeAgainIn(table)
  BY <1>1, StateFacts, TableType DEF NoEntry
<1>9. l = {<<table.entries[i].first, table.entries[i].second>> : i \in freeAgainIn(table)}
  BY DEF leftoversOf, freeAgainIn
<1> HIDE DEF s, m, l
<1>10. CASE key \in DOMAIN m
  <2>1. answered' = m[key]
    BY <1>2, <1>6, <1>8, <1>10
  <2> QED
    BY <1>4, <1>5, <1>10, <2>1 DEF dictionary!Find, dictionary!Answers, m, l
<1>11. CASE key \notin DOMAIN m
  <2>1. answered' \in {absent} \cup {pair[2] : pair \in {p \in l : p[1] = key}}
    <3>1. CASE s = NoEntry
      BY <1>2, <3>1
    <3>2. CASE s # NoEntry
      <4>1. s \in freeAgainIn(table)
        BY <1>6, <1>7, <1>8, <1>11, <3>2
      <4>2. <<table.entries[s].first, table.entries[s].second>> \in l
        BY <1>9, <4>1
      <4> DEFINE pair == <<table.entries[s].first, table.entries[s].second>>
      <4>3. pair \in {p \in l : p[1] = key} /\ pair[2] = answered'
        BY <1>2, <1>7, <3>2, <4>2
      <4> HIDE DEF pair
      <4> QED
        BY <4>3
    <3> QED
      BY <3>1, <3>2
  <2> QED
    BY <1>4, <1>5, <1>11, <2>1 DEF dictionary!Find, dictionary!Answers, m, l
<1> QED
  BY <1>10, <1>11

LEMMA AssignStep ==
    ASSUME TableInv, NEW key \in HashKeys, NEW value \in Elements, assign(key, value)
    PROVE  TableInv' /\ dictionary!Assign(key, value)
<1> DEFINE t == IF findEntry(table, key) = NoEntry THEN actualPut(table, key, zero) ELSE table
           s == findEntry(t, key)
           r == [t EXCEPT !.entries[s].second = value]
<1>1. Hashes /\ Sound(table) /\ Sizes(table) /\ value \in Elements \cup {zero}
      /\ zero \in Elements \cup {zero}
  BY DEF TableInv
<1>2. Become(r) /\ answered' = answered
  BY DEF assign
<1>3. CASE findEntry(table, key) = NoEntry
  <2>1. t = actualPut(table, key, zero)
    BY <1>3
  <2> HIDE DEF t
  <2>2. /\ Sound(t) /\ Sizes(t)
        /\ mapOf(t) = with(mapOf(table), key, zero) /\ leftoversOf(t) \subseteq leftoversOf(table)
    BY <1>1, <2>1, PutFacts
  <2>3. s \in occupiedIn(t)
    <3>1. key \in DOMAIN mapOf(t)
      BY <2>2 DEF with
    <3> QED
      BY <1>1, <2>2, <3>1, KeyFacts
  <2>4. s # NoEntry
    BY <2>2, <2>3, StateFacts, TableType DEF NoEntry, Sound
  <2> HIDE DEF s
  <2>5. s = findEntry(t, key)
    BY DEF s
  <2>6. /\ Sound(r) /\ Sizes(r)
        /\ mapOf(r) = with(mapOf(t), key, value) /\ leftoversOf(r) \subseteq leftoversOf(t)
    BY <1>1, <2>2, <2>3, <2>4, <2>5, AssignFacts
  <2>7. with(with(mapOf(table), key, zero), key, value) = with(mapOf(table), key, value)
    BY DEF with
  <2> HIDE DEF r
  <2>8. Becomes(r)
    BY <1>1, <1>2, <2>6, BecomeFacts
  <2>9. /\ TableInv' /\ mapOf(table)' = with(mapOf(table), key, value)
        /\ leftoversOf(table)' \subseteq leftoversOf(table)
    BY <2>2, <2>6, <2>7, <2>8 DEF Becomes
  <2> QED
    BY <1>2, <2>9 DEF dictionary!Assign, dictionary!Put, with
<1>4. CASE findEntry(table, key) # NoEntry
  <2>1. t = table
    BY <1>4
  <2> HIDE DEF t
  <2>2. s # NoEntry /\ s = findEntry(table, key)
    BY <1>4, <2>1
  <2> HIDE DEF s
  <2>3. r = [table EXCEPT !.entries[s].second = value]
    BY <2>1
  <2> HIDE DEF r
  <2>4. /\ Sound(r) /\ Sizes(r)
        /\ s \in occupiedIn(table) =>
               /\ mapOf(r) = with(mapOf(table), key, value)
               /\ leftoversOf(r) \subseteq leftoversOf(table)
        /\ s \notin occupiedIn(table) =>
               /\ mapOf(r) = mapOf(table)
               /\ leftoversOf(r) = {p \in leftoversOf(table) : p[1] # key} \cup {<<key, value>>}
               /\ \E p \in leftoversOf(table) : p[1] = key
    BY <1>1, <2>2, <2>3, AssignFacts
  <2>5. TableInv' /\ mapOf(table)' = mapOf(r) /\ leftoversOf(table)' = leftoversOf(r)
    BY <1>1, <1>2, <2>4, BecomeFacts DEF Becomes
  <2>6. CASE s \in occupiedIn(table)
    BY <1>2, <2>4, <2>5, <2>6 DEF dictionary!Assign, dictionary!Put, with
  <2>7. CASE s \notin occupiedIn(table)
    <3>1. key \notin DOMAIN mapOf(table)
      BY <1>1, <2>2, <2>7, KeyFacts
    <3> QED
      BY <1>2, <2>4, <2>5, <2>7, <3>1 DEF dictionary!Assign
  <2> QED
    BY <2>6, <2>7
<1> QED
  BY <1>3, <1>4

LEMMA RemoveStep ==
    ASSUME TableInv, NEW key \in HashKeys, removeByKey(key)
    PROVE  TableInv' /\ dictionary!Remove(key)
<1> DEFINE s == findEntry(table, key)
           r == IF s = NoEntry THEN table ELSE [table EXCEPT !.entries[s].state = HS_FREE_AGAIN]
<1>1. Hashes /\ Sound(table) /\ Sizes(table)
  BY DEF TableInv
<1>2. Become(r) /\ answered' = answered
  BY DEF removeByKey, removed
<1>3. s = findEntry(table, key)
  OBVIOUS
<1> HIDE DEF s
<1>4. /\ Sound(r) /\ Sizes(r) /\ mapOf(r) = without(mapOf(table), key)
      /\ leftoversOf(r) = leftoversOf(table)
             \cup {<<k, mapOf(table)[k]>> : k \in DOMAIN mapOf(table) \cap {key}}
  BY <1>1, <1>3, RemoveFacts
<1> HIDE DEF r
<1>5. TableInv' /\ mapOf(table)' = mapOf(r) /\ leftoversOf(table)' = leftoversOf(r)
  BY <1>1, <1>2, <1>4, BecomeFacts DEF Becomes
<1> QED
  BY <1>2, <1>4, <1>5 DEF dictionary!Remove, without

LEMMA StutterStep ==
    ASSUME TableInv, UNCHANGED hashtableVars
    PROVE  TableInv' /\ UNCHANGED dictionary!vars
<1>1. UNCHANGED <<hash, entries, count, answered>>
  BY DEF hashtableVars
<1>2. Become(table)
  BY <1>1 DEF Become, table
<1>3. Hashes /\ Sound(table) /\ Sizes(table)
  BY DEF TableInv
<1>4. Becomes(table)
  BY <1>2, <1>3, BecomeFacts
<1>5. TableInv' /\ mapOf(table)' = mapOf(table) /\ leftoversOf(table)' = leftoversOf(table)
  BY <1>4 DEF Becomes
<1> QED
  BY <1>1, <1>5 DEF dictionary!vars

LEMMA TableStep ==
    TableInv /\ [HashtableNext]_hashtableVars => TableInv' /\ [dictionary!Next]_(dictionary!vars)
<1> SUFFICES ASSUME TableInv, [HashtableNext]_hashtableVars
             PROVE  TableInv' /\ [dictionary!Next]_(dictionary!vars)
  OBVIOUS
<1>1. CASE UNCHANGED hashtableVars
  BY <1>1, StutterStep
<1>2. CASE HashtableNext
  <2>1. PICK key \in HashKeys :
            \/ \E value \in Elements : put(key, value) \/ assign(key, value)
            \/ find(key)
            \/ removeByKey(key)
    BY <1>2 DEF HashtableNext
  <2>2. ASSUME NEW value \in Elements, put(key, value)
        PROVE  TableInv' /\ dictionary!Next
    <3>1. TableInv' /\ dictionary!Put(key, value)
      BY <2>2, PutStep
    <3> QED
      BY <3>1 DEF dictionary!Next
  <2>3. ASSUME NEW value \in Elements, assign(key, value)
        PROVE  TableInv' /\ dictionary!Next
    <3>1. TableInv' /\ dictionary!Assign(key, value)
      BY <2>3, AssignStep
    <3> QED
      BY <3>1 DEF dictionary!Next
  <2>4. CASE find(key)
    <3>1. TableInv' /\ dictionary!Find(key)
      BY <2>4, FindStep
    <3> QED
      BY <3>1 DEF dictionary!Next
  <2>5. CASE removeByKey(key)
    <3>1. TableInv' /\ dictionary!Remove(key)
      BY <2>5, RemoveStep
    <3> QED
      BY <3>1 DEF dictionary!Next
  <2> QED
    BY <2>1, <2>2, <2>3, <2>4, <2>5
<1> QED
  BY <1>1, <1>2

LEMMA TableInvImplies == TableInv => EveryEntryIsFound
<1> SUFFICES ASSUME TableInv PROVE EveryEntryIsFound
  OBVIOUS
<1>1. Hashes /\ Sound(table) /\ Sizes(table) /\ table \in Tables
  BY DEF TableInv, Sound
<1>2. occupied = occupiedIn(table) /\ table.entries = entries /\ table.count = count
  BY DEF occupied, occupiedIn, table
<1>3. \A i \in occupied : findEntry(table, entries[i].first) = i
  BY <1>1, <1>2, FoundFacts
<1>4. /\ Cardinality(used(table)) \in Nat /\ Cardinality(occupied) \in Nat
      /\ Cardinality(occupied) <= Cardinality(used(table)) /\ count \in Nat
  BY <1>1, <1>2, SlotFacts, TableType
<1>5. Cardinality(occupied) <= count /\ count <= capacity(table)
  BY <1>1, <1>2, <1>4 DEF Sizes
<1> QED
  BY <1>3, <1>5 DEF EveryEntryIsFound

(* An entry that was put is found by its key until the key is removed, in     *)
(* its only slot, and put finds a slot for a new key: neither the walk of     *)
(* findEntry nor the one of actualPut is led astray by removals and growth.   *)
THEOREM EntriesTheorem == HashtableSpec => []EveryEntryIsFound
<1>1. HashtableInit => TableInv
  BY InitTable
<1>2. TableInv /\ [HashtableNext]_hashtableVars => TableInv'
  BY TableStep
<1> QED
  BY <1>1, <1>2, TableInvImplies, PTL DEF HashtableSpec

(* The table is the Dictionary that its users rely on: each call does to the  *)
(* map of its occupied entries what the name of the call says, and what may   *)
(* be found beyond the map is what is left of keys that were removed.         *)
THEOREM DictionaryTheorem == HashtableSpec => ImplementsDictionary
<1>1. HashtableInit => TableInv /\ dictionary!Init
  BY InitTable
<1>2. TableInv /\ [HashtableNext]_hashtableVars => TableInv'
  BY TableStep
<1>3. TableInv /\ [HashtableNext]_hashtableVars => [dictionary!Next]_(dictionary!vars)
  BY TableStep
<1> QED
  BY <1>1, <1>2, <1>3, PTL DEF HashtableSpec, ImplementsDictionary, dictionary!Spec
=============================================================================
