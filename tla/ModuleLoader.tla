---------------------------- MODULE ModuleLoader ----------------------------
(***************************************************************************)
(* requireModule (ModuleLoader.cc): the table of loaded modules, the       *)
(* placeholder that stands in it while a file is being loaded, the loads   *)
(* that a load forces, and exceptions that unwind all of them to the       *)
(* read-eval-print loop.  Evaluation is lazy: the load of a file forces    *)
(* some of its imports in some order, or none.                             *)
(***************************************************************************)
EXTENDS Integers, Sequences, FiniteSets

CONSTANTS
    Files,      \* module keys, as getModuleFileKey makes them
    Imports,    \* the files that the text of a file requires
    Orders,     \* the orders in which the build may evaluate an assignment
    GrowsAt,    \* the sizes at which a Hashtable replaces its array for one more
    MaxCommands,\* bound: requireModule from outside of a load
    MaxThrows   \* bound: exceptions

ASSUME FilesAssumption == IsFiniteSet(Files) /\ Imports \in [Files -> SUBSET Files]
ASSUME BoundsAssumption == MaxCommands \in Nat /\ MaxThrows \in Nat
ASSUME OrdersAssumption == Orders \subseteq {"reference first", "value first"}

VARIABLES
    order,      \* what (*fModules)[key] = forceModuleLoad(..) evaluates first
    fModules,   \* the table, by file: "absent", "loading" or "module"
    array,      \* how often the array of the table was replaced
    stack,      \* the loads in progress, the innermost last
    result,     \* what the last requireModule from outside gave
    commands, throws,   \* how often each happened
    loads       \* history: how often each file was loaded

vars == <<order, fModules, array, stack, result, commands, throws, loads>>

none == [file |-> "", value |-> "none"]

Init ==
    /\ order \in Orders
    /\ fModules = [file \in Files |-> "absent"]
    /\ array = 0
    /\ stack = <<>>
    /\ result = none
    /\ commands = 0 /\ throws = 0
    /\ loads = [file \in Files |-> 0]
-----------------------------------------------------------------------------
\* A load that begins: forced are its imports that have been required, array
\* is the one that the reference on the left points into, if there is one.
load(file, to) == [file |-> file, forced |-> {}, array |-> to]

\* The application that requires file remembers the result.
required(frame, file) ==
    [file |-> frame.file, forced |-> frame.forced \cup {file}, array |-> frame.array]

innermost == stack[Len(stack)]
size == Cardinality({file \in Files : fModules[file] # "absent"})

\* A mutant of BeginLoad: no placeholder against endless recursion.
BeginLoadUnprotected(file) ==
    /\ stack' = Append(stack, load(file, array))
    /\ loads' = [loads EXCEPT ![file] = @ + 1]
    /\ UNCHANGED <<fModules, array>>

\* Not in the table: the placeholder goes in, and the file is loaded.
BeginLoad(file) ==
    /\ fModules' = [fModules EXCEPT ![file] = "loading"]
    /\ array' = IF size \in GrowsAt THEN array + 1 ELSE array
    /\ stack' = Append(stack, load(file, array'))
    /\ loads' = [loads EXCEPT ![file] = @ + 1]

\* The read-eval-print loop requires a file.
Command(file) ==
    /\ stack = <<>> /\ commands < MaxCommands
    /\ commands' = commands + 1
    /\ IF fModules[file] = "absent"
       THEN BeginLoad(file) /\ result' = none
       ELSE /\ result' = [file |-> file, value |-> fModules[file]]
            /\ UNCHANGED <<fModules, array, stack, loads>>
    /\ UNCHANGED <<order, throws>>

\* The innermost load requires one of its imports.
Require(file) ==
    /\ stack # <<>> /\ file \in Imports[innermost.file] \ innermost.forced
    /\ IF fModules[file] = "absent" THEN BeginLoad(file)
       ELSE /\ stack' = [stack EXCEPT ![Len(stack)] = required(@, file)]
            /\ UNCHANGED <<fModules, array, loads>>
    /\ UNCHANGED <<order, result, commands, throws>>

\* A mutant of Written: the result is only returned.
NotWritten(frame) == FALSE

\* The assignment of the result reaches the table, unless its reference was
\* taken before the load and points into an array that was replaced since.
Written(frame) == order = "value first" \/ frame.array = array

\* The result of the innermost file is assigned, the table is asked again, and
\* what is found there is returned.
AssignResult ==
    LET file == innermost.file
        outer == SubSeq(stack, 1, Len(stack) - 1)
    IN  /\ fModules' = IF Written(innermost) THEN [fModules EXCEPT ![file] = "module"] ELSE fModules
        /\ IF outer = <<>>
           THEN stack' = outer /\ result' = [file |-> file, value |-> fModules'[file]]
           ELSE stack' = [outer EXCEPT ![Len(outer)] = required(@, file)] /\ UNCHANGED result

\* A mutant of EndLoad: a placeholder is waited for, not taken for a result.
EndLoadWaiting ==
    /\ stack # <<>> /\ \A file \in innermost.forced : fModules[file] = "module"
    /\ AssignResult
    /\ UNCHANGED <<order, array, commands, throws, loads>>

\* The innermost file is evaluated, with placeholders for its imports that are
\* still being loaded.
EndLoad ==
    /\ stack # <<>>
    /\ AssignResult
    /\ UNCHANGED <<order, array, commands, throws, loads>>

\* A parse error, an unbound name, an interrupt, too deep a recursion: every
\* forceModuleLoad in progress closes its file and throws on.
Unwind ==
    /\ stack # <<>> /\ throws < MaxThrows
    /\ throws' = throws + 1
    /\ stack' = <<>>
    /\ UNCHANGED <<order, fModules, array, result, commands, loads>>

Progress == EndLoad \/ \E file \in Files : Require(file)

Next ==
    \/ \E file \in Files : Command(file)
    \/ Progress
    \/ Unwind

\* A load goes on.
Spec == Init /\ [][Next]_vars /\ WF_vars(Progress)
-----------------------------------------------------------------------------
loading_P(file) == \E i \in DOMAIN stack : stack[i].file = file

TypeOK ==
    /\ order \in Orders
    /\ fModules \in [Files -> {"absent", "loading", "module"}]
    /\ array \in Nat
    /\ \A i \in DOMAIN stack :
           /\ stack[i].file \in Files /\ fModules[stack[i].file] # "absent"
           /\ stack[i].forced \subseteq Imports[stack[i].file]
    /\ commands \in 0 .. MaxCommands /\ throws \in 0 .. MaxThrows
    /\ loads \in [Files -> Nat]

\* requireModule "automatically ensures that the module isn't loaded twice"
\* (manual), however the files import each other and whatever is thrown.
LoadedOnce == \A file \in Files : loads[file] = (IF fModules[file] = "absent" THEN 0 ELSE 1)

\* The placeholder is seen only by the imports of the file itself: when nothing
\* was thrown and the assignment evaluates its value first, a file has it
\* exactly while it is being loaded.
PlaceholderMeansLoading ==
    (throws = 0 /\ order = "value first") =>
        \A file \in Files : fModules[file] = "loading" <=> loading_P(file)

\* Files that import each other are loaded once around, not endlessly.
LoadsEnd == (stack # <<>>) ~> (stack = <<>>)
=============================================================================
