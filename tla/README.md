# A TLA+ model of 5D

5D is an interpreter for a lazy, purely functional language: programs are read
by a scanner that turns indentation into parentheses, a shunting yard parser and
macros, prepared (names become de Bruijn indices), and reduced by a graph
reducer with builtins in C++ and libraries written in the language itself. All
paths in this file are below `src/` of the repository; `B/` stands for
`lib/Builtins/`.

## 1. The system

### 1.1 Components

| Component | Source | State | Operations |
|---|---|---|---|
| Evaluator | `B/Evaluators/Evaluators.cc`, `B/Evaluators/Evaluators`, `B/Evaluators/FFI.cc` | `recursionLevel`, `fGeneration`; `result`/`resultGeneration` in each Application | `reduce`, `reduce1`, `remember`, `increaseGeneration` |
| Interrupts | `TUI/Interrupt.cc` | `B_SIGINT_happened` | the handler, `interrupted_P` |
| Binding | `B/Evaluators/Evaluators.cc`, `B/ModuleSystem/Modules.cc` | none (trees) | `annotate`, `shift`, `getFreeVariables`, `prepareModule` |
| Builtin calls | `B/Evaluators/Operation.cc`, `B/Evaluators/Builtins.cc`, `B/include/5D/Operations` | chains of CurriedOperation | `call_builtin`, `CXXfromArguments`, PREPARE, `simplifyRatio` |
| Hashtable | `B/Values/Hashtable` | array, capacity, count | put, find, `operator[]`, `removeByKey`, growth |
| Module loader | `B/Evaluators/ModuleLoader.cc` | `fModules`, the C++ stack of nested loads | `requireModule`, `forceModuleLoad`, the search path, a file's key |
| Scanner | `B/Scanners/Scanner.cc` | position, column, open indentations, injected tokens, lookahead | `consume`, `parseToken`, `update_indentation`, `deinject`, `parseMatchingParens` |
| Parser | `B/Scanners/ShuntingYardParser.cc`, `LOperatorPrecedenceList.cc`, `SExpressionParser.cc`, `ParenAdder.cc` | operators, operands and counts of operands of each nested `parseExpression`; levels of precedence | `parseExpression`, `handle_unary_operator`, `expand_macro`, `parse_value`, the list, exports, let and import macros, `cons`, `legacyOPLFrom5DOPL` |
| Module system | `B/ModuleSystem/Modules.cc`, `Exports.cc` | export tables | `prepareModule`, `accessModule`, `dispatchModule` |
| Numbers | `B/Numbers/*`, `B/Evaluators/Builtins.cc`, `FFI.cc` | none (values) | words, Integers over blocks, Ratios, numerals, conversions to C |
| Foreign functions | `B/FFIs/*` | a record and the offset in it, or the operating system's state | `packRecord`, `recordSize`, `unpackRecord`, trampolines, processes |
| Formatters | `B/Formatters/*` | position in the output | printing as text, LaTeX or S expressions, with parentheses and precedences |
| Terminal program | `TUI2/main.cc`, `TUI/Interrupt.cc` | the line, the parsed node | `handle_readline_crlf`, `REPL_run`, the keys, the signal handler |
| Older programs | `REPL/`, `TUI/`, `GUI/` | the document: output, definitions, file name, `fFileModified`; drawings under way; open dialogs | execute, define, load, save, close, complete; `LATEX_child_died` |
| Configuration | `Config/` | the environment's name, the layout | set, save |
| Libraries | `lib/*/init.5D` | none | programs in the language |

How they interact: the terminal program parses a line (scanner, parser), calls
`prepareModule` (binding) and `reduce` (evaluator), and catches exceptions. The
evaluator calls builtins; a builtin calls `reduce` for its arguments and thereby
the evaluator again, on the C++ stack. `requireModule` is a builtin: loading
runs scanner, parser, binding and evaluator for another file, *inside* of a
reduction. The signal handler shares one flag with the evaluator. Tables of the
hashtable hold bound names, loaded modules and exports.

The older programs put a document around that: commands and their results are
appended to an output, definitions are appended to a chain of `let`s and to the
list in the window, and both are saved to and loaded from a file through dialogs.
In GTK each formula is drawn by a child process, whose result is put into the text
when the child dies. Scanner, printer and numbers meet in the text: what is
printed is read again when a document is loaded.

### 1.2 What is hard

There are no threads. What tests hardly reach:

* **the end of the process at any moment**, in the middle of saving a document
  too, after which the files and the configuration are all that the next start has;
* **drawings that finish at any time**: while a dialog is open, after the text they
  belong to was cleared, in another order than they were begun;
* **a parsed node in a global variable** that outlives the key that set it;
* **ranges**: words that turn into Integers when they overflow, fields of 1, 2, 4
  and 8 bytes with and without a sign, carries and borrows between blocks;
* **positions** that are counted in bytes here and in characters there;
* **a signal at any instruction**, against a flag that is read, then cleared;
* **exceptions** that leave `reduce1` half way: the recursion counter is
  incremented by hand, caches are filled half way, a `catch` in the middle
  (`simplifyRatio`) drops whatever comes, and the table of modules keeps
  placeholders;
* **a result cache inside of shared nodes**, valid for one generation of a
  counter that wraps around;
* **orders that C++ leaves open**: the two arguments of a strict builtin, the
  two sides of an assignment to a hashtable entry;
* **long sequences of legal calls**: curried arguments with keywords counted
  backwards; puts and removals in an open addressing table; indentation that
  closes several blocks at once and characters that are put back after they
  have been counted.

`PROJECT.json` lists each of these at its line, with the properties that
would fail if it went wrong.

### 1.3 What makes each component correct

* Evaluator: every command ends, with the value of its program or with an
  exception that has a cause; a cached result is the value of the node that holds
  it; one signal stops at most one evaluation; the counter bounds the nesting.
* Binding: reduction by indices is reduction by names.
* Builtin calls: a builtin runs when its text is complete, and is given what the
  text says.
* Hashtable: it is a dictionary, and never full.
* Module loader: each file is loaded once, imports in cycles end.
* Module system: a module answers for each key it exports, with what it was
  written with, and for no other.
* Scanner: each token is as deep as the indentation says; a token does not depend
  on what follows it.
* Parser: the tree follows the precedences, whatever is nested; nothing that is
  written is dropped.
* Numbers: arithmetic on words, blocks and ratios is arithmetic; an order is an
  order; a conversion is refused exactly when it would lose something.
* Record packer: fields are aligned and disjoint, the computed size is the size,
  unpacking inverts packing, values that do not fit are refused.
* Formatters: what is printed reads as the same tree.
* Terminal program: what runs is what was typed; the cursor jumps to the matching
  parenthesis; completion changes the word and nothing else.
* Older programs: the list in the window is the chain of definitions; what was
  loaded whole and is not marked as modified is in the file; results are in order.

## 2. The modules

```
Nodes --- Calls --- Currying --------------------------- MCCurrying
  |         |          |
  |         |    CurryingProofs (i)
  |         |
  |         +------ Evaluator --+-- EvaluatorMeaning --- MCEvaluator
  |                    |        |
  |            EvaluatorProofs  |
  |                             |
  +------ Terms ----------------+
            |
            +------ Binding ---------------------------- MCBinding
                       | (table of bound names: Hashtable)

Dictionary (abstract) <== refined by == Hashtable ------ MCHashtable
                                            |      (growth sizes from Hashtable)
ModuleLoader, ModuleFiles --- Modules ------+----------- MCModuleLoader
                                |           |
                              ModuleLoaderProofs (i)

Indentation -------------------------------------------- MCIndentation
      |
IndentationProofs (i)

Nodes, Precedences --- ShuntingYard --- Syntax --- Printer --- MCSyntax
                            |
                   ShuntingYardProofs

Blocks --- Arithmetic ---------------------------------- MCArithmetic
Records ------------------------------------------------ MCRecords
   |
RecordsProofs (i)

Environment --- Workspace ------------------------------ MCWorkspace
                    |
             WorkspaceProofs (i)
Tokens --- Completer --- Terminal ---------------------- MCTerminal

(i) extends Induction, lemmas that belong to no component
```

A mutant of a definition (an operator whose comment begins "A mutant of")
stands directly before it. It is the definition with a plausible bug, is not used
by the specification, and puts the property that is paired with it in
`PROJECT.json` to the test: with the mutant in place of the definition, TLC
finds that property violated.

### Nodes, Calls, Currying: builtins get their arguments

`Nodes` has the constructors and recognisers. Only Application objects have state
of their own (their cached result), so only they have an identity.

`Calls` has `Dispatch` (`call_builtin`: count the arguments backwards, a keyword
cancels the value that follows it; reject, collect or call) and
`CXXfromArguments` (the list of pairs that the native code is given).
`Currying` gives arguments to one builtin, one action per application.

* `CalledWhenComplete` and `DeliveredAsWritten` compare the two backward walks
  with one reading of the text from left to right: a builtin that takes no
  keywords rejects them, and of a keyword that is given twice the last one wins.
* A keyword as the value of a keyword is left out of these (no doc gives it a
  meaning, and the two walks do disagree about it). A keyword at the end that would be
  the last argument itself is left open: the code collects it, a document shows it
  being delivered (section 5).

### Terms, Binding: names and indices

`Terms` has `shift`; `Binding` has `annotate_impl`, `getFreeVariables` with the
hashtable in which it keeps the names bound around it (an instance of `Hashtable`), and a
machine that reduces the annotated program by head steps, next to the same
program with names, reduced by textbook substitution. `SameAsNamed` says that the
two stay the same program. `StaysClosed` is the reason why `shift` may put an
argument under binders without adjusting its indices; it also ties what `annotate`
throws to `getFreeVariables`. Names that are removed from that table may still be found
in it, so with hashes that collide a free variable may be missed: only with `Separated`
names does it find one wherever `annotate` throws, and with all hashes it finds none
where `annotate` does not. (`inline` is expanded by `annotate`; its
operand is reduced by the constant `reduce1_`, in the runs the identity on
values.)

### Evaluator, EvaluatorMeaning: the reducer

`reduce1` as a machine with an explicit stack. A frame is a C++ call in
progress; its field `at` says where it waits: for the operator, the body, an
argument of a builtin, or the three comparisons of `simplifyRatio` ("pretest",
"try", "posttest").

| Action | Code |
|---|---|
| `Submit` | `REPL_run`: one command |
| `CloseEnvironment` | `REPL_close_environment`: the next generation, and when the counter comes around, results of definitions dropped |
| `Signal` | the SIGINT handler, at any moment |
| `ReadFlag`, `Poll` | `interrupted_P` in its two steps, then the checks that begin `reduce1` |
| `ReturnToOperator` (`Beta`, `CallBuiltin`, `Stuck`) | what `reduce1` does with the reduced operator |
| `ReturnToBody` | the decrement and `remember` after the body |
| `Prepare`, `ReturnToPrepare`, `RunBuiltin` | PREPARE of the arguments in any order, then the native code |
| `Test` | `booleanFromNode` in `simplifyRatio`: two calls of `reduce1` deep, each of which polls |

Exceptions (`Throw`) drop all frames and leave `recursionLevel` as it is, except
"recursion was too deep", which resets it: as the code does.
`EvaluatorMeaning` adds the value of a program by plain call-by-name rewriting and
compares caches and answers with it.

* `LevelCoversCalls`, `LevelExactWithoutLeaks`: the counter against the stack.
* `TryIsNotTooDeep`: the exception that resets the counter cannot be swallowed
  with calls in progress that would decrement it below zero. That it holds is
  owed to the comparison before the `try`, which is just as deep.
* `OneAbortPerSignal`: signals against interrupted (or swallowed) evaluations.
* `ResultsAreValues` (of caches and of answers) and `ReducedOnce`: call by need
  against call by name, across exceptions, orders and generations. Generation 0 is
  exempt, see section 5.
* `CommandsEnd`: termination of every command, also of endless recursion.

Fairness: `WF_vars(Evaluate)`. The evaluator is the only thread and runs whenever
a command is in progress; the user owes no command, no signal and no closing of
an environment. Closing an environment exists only in the older programs
(`REPL/REPLEnvironment`); the terminal program of today stays in generation 1.

### Hashtable, Dictionary

`Hashtable` is `RawHashtable`: the probe walk, HS_FREE_AGAIN entries, growth that
puts all entries again, and `operator[]`, which returns a reference and does not
mark the entry as occupied. A slot is a record, the array a sequence of them, whose
length is `capacity`. `growTo` and `actualPut` call each other: `growth[n]` is
`growTo` for a table with at most `n` occupied slots, of which it moves each once, so
that a growth in the middle of a growth would have less to move. (The proofs show that
there is none: see section 4.) The hash function is any function from keys to
values, chosen once. `Dictionary` is what it promises: assignment and lookup,
except that a removed entry *may* be found again with the value it had
(`forgets slowly`). `ImplementsDictionary` is the refinement. `EveryEntryIsFound`
is why `actualPut` never reaches its `abort()` and why removals do not cut the
walks of other keys. `GrowsAtGrowthPoints` gives the sizes that
`ModuleLoader` takes for its constant `GrowsAt`.

### ModuleLoader, ModuleFiles, Modules

`ModuleLoader` puts a placeholder, loads the file and assigns the result. Files
require others in any order while they are evaluated, or not at all (`Require`,
`EndLoad`); an exception unwinds all loads (`Unwind`). `LoadedOnce`,
`PlaceholderMeansLoading` and `LoadsEnd` are checked for imports in cycles.
Fairness: `WF_vars(Progress)`; a load in progress goes on, it is a C++ call; that
a file's own evaluation ends is `CommandsEnd` above.

`ModuleFiles` is what comes before: the search path, `init.5D` in directories, the
key of a file (its inode, so that two paths may be one module) and the list of
precedences that a shebang requires. `Modules` composes the two and adds what a
program sees: `Load` is a step of the loader that also builds the table of a loaded
module (`dispatchModule`, or the exports of a shared library), `Access` asks a
module for a key, `RequireMissing` ends the program. A lookup with `operator[]`
touches the table: the key `default` appears in it with NULL.
`AnswersAsWritten` says what is answered for each key from the texts alone, after
any sequence of loads, exceptions and earlier questions. A key without an entry is
given to a function; that this is NULL, not the fallback, is left open (section 5).

### Indentation

The scanner by characters: `fgetc`, lookahead that is put back
(`IncrementDecrement`), the columns remembered for newlines that are put back,
and the parentheses that `update_indentation` and `deinject` inject. Tokens are
reduced to three kinds that differ in how they end: symbols (by lookahead, like
numerals and operators), parentheses (by themselves) and strings (which may run
over lines). `DepthAsIndented` compares the depth of each token with a definition
of blocks on the file alone, the column of the scanner with that of the file after
characters were put back, and asks that everything opened is closed at the end;
`IndentationsAscend` is what the code's assertion and loop rely on.
`B_honor_indentation` is true in every program of the repository (it begins as
true and `parseExpression` sets it), so it is not a variable. The symbol and the
space of the inputs stand for all characters that the scanner treats like them: tabs,
carriage returns and form feeds are white space between tokens as the space is (`blank_P`),
and `beginsLine_P` is its own, narrower test on the first character of a line.

### Precedences, ShuntingYard, Syntax: from tokens to a tree

`Precedences` is the list of levels: `cons` puts an operator in front of its
level and takes it out of the level it had (`defuse`), a lookup gives the first
level that has it. `DefaultRegistrations` and `listedRegistrations` are the two
sources of a list.

`ShuntingYard` is `parseExpression` with all its macros. `calls` is the C++
stack: calls of `parseExpression`, each with its three stacks, and the macros
between them that wait for a value. The scanner is a sequence of tokens
followed by EOF; injected parentheses are `{` and `}`; how many of them are open at
each token is what `DepthAsIndented` says.

| Action | Code |
|---|---|
| `EndOfTokens`, `Close`, `Prefix`, `Open`, `Operator`, `Operand` | the branches for one token, with the application that is put between two operands, and SCOPERANDS |
| `Reduce` | one round of a `while` loop: CONSUME_OPERATION with `expand_macro` |
| `EndClose`, `EndPrefix`, `EndOperator`, `EndExpression` | what follows each of the four loops |
| `Value`, `Element`, `EndList`, `EndImports` | `parse_value` and the bodies of list, exports and import |
| `ReturnToExpression`, ... `ReturnToBinder` | what each caller does with the value |

Names of operators that are not ASCII are spelled out. The trees are those of
`Nodes`.

* `StacksInStep`: the counts of operands and the open parentheses among the
  operators are pushed and popped in different branches; no `top()` or `pop()`
  meets an empty stack.
* `GroupsKeepApart`: nothing inside of a parenthesis takes an operand from before
  it.
* `ParsedAsWritten`: `Syntax` reads the same tokens by precedence climbing, a
  grammar that knows no stacks and takes from the list only which registration
  of an operator is the last. Each text of the grammar is accepted, with the tree
  that the grammar gives.
* `LostBehindSectionsOnly` is about *all* texts that are accepted, in the grammar or
  not: each name and operator is in the tree as often as in the text, unless an
  expression ends with an operator (section 5).

The grammar has, because the code has: a minus without a left operand is 0 minus
its operand, at the precedence of the binary minus; operators that associate to
no side are read like those that associate to the right; an element of a list is
one operand or operands and visible operators, but no application.

### Printer

`Printer` extends `Syntax`: when a text has been parsed, its tree is printed
(`PrintAndParse`) by the same operators for the forms of `GenericPrinter` as text
(`Math`) and as LaTeX, and as an S expression. Text and LaTeX are sequences of
tokens again; the parser of `Syntax` reads the first, `asRead` undoes LaTeX's
fractions and braces, `programFromSExpression` reads the third. The body of an
abstraction begins a line in an S expression, where the scanner injects a parenthesis
that is a symbol to `parse_S_Expression` (`injected`), and then an assertion of
`programFromSExpression` fails (`asserted_P`).
`PrintedReadsBack` says that text and LaTeX give the same tree, for trees that
are `legible_P` (the exceptions are in section 5), that S expressions of one line
(`flat_P`) are read, and that one which is read gives the same tree.

### Blocks, Arithmetic

`Blocks` is `BigUnsigned`: blocks of `N` bits, carries and borrows found by
comparing wrapped sums. `Arithmetic` has the words of `N` bits
(`B/Numbers/Small`), Integers (sign and blocks), Ratios, the dispatch of the builtins on
both kinds, numerals in both directions (in base `Radix`, since ten is no digit of
small blocks) and the conversions to C of `B/Evaluators/FFI.cc`. The state is one
number, next to the exact rational number that the same operations make;
each action is a builtin with an operand, or one of the operations on bits that
`BigUnsigned` has for others.

* `Exact`: they stay equal, and every number has its one representation, which
  `compareTo`, `==` and the conversions rely on. For the quotient of Integers of opposite
  signs it accepts either sign (section 5).
* `OrderIsExact`: `<=` over all pairs of kinds.
* `ConvertsExactly`: words, shorter words and so many bits (fewer than an int has) are
  refused exactly when something would be lost, the nearest one is the nearest one, and
  `emulatemkgmtime` of WIN32, which searches a time by bisection from its parts, finds
  that time or crashes, on a `gmtime` that answers NULL on the way.

### Records

One step of `Records` is one character of the format: byte orders and padding change
the position, an atom is range checked and laid out, `[` begins a nested
`Record_pack` for each element of a list (`stack`), and unpacking goes through
the format again, over the record or a beginning of it (`substr`). A byte has `B`
bits; sizes and alignments are the source's.

* `FieldsAligned`: where alignment is asked for, fields are aligned, and they never
  overlap, whatever lists and paddings came between.
* `SizeIsPackedLength`: `recordSize`, which packs nothing, agrees with `packRecord`,
  and a record with pointers is never allocated where the collector does not look.
* `UnpackInvertsPack`: what is read back is what was packed, and only values that
  do not fit are refused. The exemptions are in section 5.

### Environment, Workspace

`Environment` is the chain of definitions and the rows of the window that name
them. `Workspace` is everything around it, for `GTK`, `WIN32` and the older `TUI`;
operators whose names end in one of these are that program's own.

| Action | Code |
|---|---|
| `StartGTK`, `StartWIN32`, `StartTUI` | `main`, the configuration, loading at the start |
| `ExecuteGTK`, `ExecuteWIN32`, `LineTUI` | a command: its formula, `=>`, its result or error; definitions it makes |
| `LATEX_child_died` | a drawing under way is finished, in any order |
| `AddDefinitionGTK`, ..., `ActivateRowWIN32` | the list in the window |
| `Save`, `Load`, `CloseGTK`, `CloseWIN32` | the menu and the window's close button |
| `Discard`, `Agree`, `ChooseFile`, `GoBack`, `OpenFile`, `OpenNothing` | the buttons of the dialogs |
| `FinishSaveGTK`, ... | writing, which may fail or be cut off by a full disk, and the rename |
| `ExitTUI`, `EndOfInputTUI` | `#exit` and the end of the input |
| `Die` | the process ends between any two of these |

| `AbortLoading` | a document is loaded that the scanner does not read as it was printed: an assertion ends the process |

`disk` and `name` outlive the process, everything else begins anew. A file is a
document, the work of another program that happens to be an application ("foreign",
loads as nothing), a document with an invalid text ("wrong", half of it is loaded),
nothing at all, "torn" where WIN32 was writing, or "truncated" where the disk was full. A
document is `flat` if it was printed on one line: one with definitions is not, and
loading it ends the process (see Printer); the documents that are loaded are those
without definitions and those written by hand. GTK reads the text of an image, which
is a formula, as an S expression, so it may come back as another one
(`wholeOnceRead`). `whole` is a history variable: the last load gave all that is in
the file, or a save has made it so.

* `RowsMatchEntries`: row i names entry i of the chain.
* `SavedUnlessModified`: what was loaded `whole` or saved, and is not marked as modified,
  is in the file.
* `ResultsInPlace`: whatever order the drawings finish in, each stands in its own
  command.

Nothing is owed here: no fairness is stated, since users, drawings and the end
of the process are all free.

### Tokens, Completer, Terminal

`Tokens` is the scanner again, over bytes and with every form of token (numerals,
UTF-8 operators, keywords, characters, bit vectors, strings with escapes), but
without lines; and `strStr`, which prints strings. `#*` in front of a blank meets an
assertion of `decrement_position`: the token `Abort`, with which the terminal programs end
(`AbortOnParse`, and `InsertParen`, which scans the line too). `Completer` is Tab in the windows.
`Terminal` is the line: the keys that both terminal programs bind, Enter (which parses
and leaves its result in `inputNode`), the loop that takes the line and runs that
result, and `parseMatchingParens` for the parenthesis that was just typed. The
parser appears as the constant `Verdict`.

* `RunsWhatWasTyped`: the node that runs is that of the line, whatever was parsed
  before, and wherever in the line Enter was pressed.
* `ParensMatch`: the cursor jumps to the partner, computed independently from the
  whole line.
* `TokensStandAlone`: with a blank behind each token the text reads the same,
  nothing but white space is skipped, and strings are printed such that they read
  the same, byte for byte. Lines with `#*` but no bit behind it (whose token is NULL) and
  strings with indented lines are exempt (section 5).
* `CompletionFits`: Tab changes the word before the cursor into what the names that
  begin with it have in common, and nothing else.

## 3. The runs

| Run | Bounds | Shows |
|---|---|---|
| `currying` | arities -3, -2, 1, 2, 3; up to 6 arguments out of two keywords, a number and a quoted number | all orders of two keyword pairs and three positional arguments, the largest registered builtins take |
| `binding` | all redexes over two names up to four levels, 4 steps; hash functions by which the names collide and by which they do not | shadowing, a removed name that is found again, inner and outer references, quoting; a third name adds no new relation between a reference and the binder that goes away |
| `evaluator` | 12 programs, 2 commands, 2 signals, recursion limit 4, 3 generations, 3 closings | a result cached by the first command met by the second; a leak of the counter followed by a deep command; the generation coming around |
| `hashtable` | 4 keys, 2 values, hashes {2, 8}, 3 removals, count up to 10 | arrays of 3, 9 and 17 slots; hashes that collide in the first array and not in the next, keys with the same hash, walks that wrap around |
| `module_loader` | 5 files in 5 directories with cycles, a self import, a link, a directory's `init.5D`, two places for one name, a shared library and a missing name; 3 commands, 2 exceptions; 5 keys | table growth during a load; a command after an exception; one module by two paths; keys asked before and after others |
| `indentation` | all files of up to 7 characters out of 5 | two blocks closed at once, strings over lines, blanks before newlines |
| `parser` | all texts of up to 5 tokens over vocabularies of 5 to 7, shorter ones for lists, exports, let, let! and import; the default precedences and a list that names `*` twice | three operators of different precedence with a parenthesis between them, macros under macros, both kinds of parentheses, nested `parseExpression` with each terminator; with the default precedences each tree printed in three formats and parsed again |
| `numbers` | words and blocks of 3 bits, base 6, minutes of 3 seconds; operands are all words, Integers around 8 and 64, and halves; `MaxNumber` 66, `MaxDenominator` 6 | one and two carries, three blocks, both signs, the least word, quotients whose estimate is off; numbers of any history |
| `records` | bytes of one bit, 19 formats, 17 integers around the borders of 1, 2, 4 and 8 bits, boxes, nil; lists of up to 2 elements (`MaxElements`) | all byte orders, padding before each alignment, lists in lists, formats that end early, records that are cut off |
| `workspace` | 2 files, one of any kind before the first start (`Disks`) and the other missing, of which one (`SaveNames`) is saved into; 2 commands or definitions (`MaxRuns`), 3 entries (`MaxEntries`), 4 items of text (`MaxText`) | two drawings finishing in both orders around a save, a load or a close; a start after each way to end; loads of half a file, of another program's, and of documents that end the process |
| `terminal` | 5 keyboards of 6 to 10 keys, lines of up to 4 keys (`MaxKeys`) | tokens of each kind next to each other, escapes that are one character together, nested and crossing parentheses, an old `inputNode` met by the next Enter |
| `evaluator_leak` | 3 commands, 1 signal | violation, section 5 |

Ten of the runs say `CHECK_DEADLOCK FALSE`, because the system stops: after the
last command of the bound (`evaluator`, `evaluator_leak`, `module_loader`, also after a
missing file), when a builtin ran (`currying`), when a program has no redex
(`binding`), at the end of a file (`indentation`), when a text is parsed and printed
(`parser`), when a call returned (`records`), after a division that the processor
refuses (`numbers`), at the end of a program or in the full line of a window
(`terminal`). A hashtable and a workspace never stop.

The recursion limit of 10000 is a constant of the model: 4 is enough for every
program of the run to return normally at least once and for the endless ones to
meet the limit through operators, bodies and builtins. Words of 3 bits have two
positive and two negative numbers besides the least word, the greatest, zero and
one, and products of two of them already need two blocks. Bytes of one bit make the
8-byte field a number of 8 bits, of which all values around its borders are in the
data; which bits the range checks look at is written in bits of bytes, so that
it does not depend on `B`. Other names of bounds: `MaxCommands`, `MaxCloses`,
`MaxSignals`, `MaxThrows`, `MaxItems`, `MaxSteps`, `MaxCount`, `MaxRemovals`,
`MaxLength`.

Run one with `tlc -config Evaluator.cfg MCEvaluator`.

## 4. The proofs

Checked by TLAPS with `tlapm EvaluatorProofs.tla` etc.

**EvaluatorProofs** (for all programs, limits, bounds; assumptions
`MaxRecursionAssumption` and `GenerationsAssumption`, that these are natural
numbers). `LevelCoversCalls` alone is not inductive: a return decrements the
counter, and only the shape of the stack says that a counted frame is popped.
`IInv` adds that the stack is a sequence of frames, that it is not empty where the
control state says that a call waits ("return", "prepare", "test"), that the limit
was already checked when the `try` block is entered (`TryIsNotTooDeep`), and that
the outermost call is not answered from the cache (or it would return to an empty
stack).
The lemmas `PushCounts` and its siblings say how the number of counted frames
changes when a frame is pushed, popped or replaced. Theorems: `Inductive`,
`LevelTheorem`, `TryTheorem`.

Two theorems of the same module are about the past. `OneAbortPerSignal` counts the
interrupted evaluations and those whose exception `simplifyRatio` swallowed; it rests
on `TryIsNotTooDeep`, or a swallowed "recursion was too deep" would be counted without
a signal, and on what `interrupted_P` has read waiting only between its two steps.
`Waiting` is the signal that has arrived and is not answered yet, `Balance` the
arithmetic of one step. `LevelExactWithoutLeaks` needs to know that a builtin at work
is no longer a counted call (its counter went down before it is called), so that
nothing is lost when it throws "too deep" itself. Theorems: `SignalsTheorem`,
`LeakTheorem`.

**Induction** belongs to no component. What a fold over a sequence computes takes
induction over its length, and the induction theorems of the library have the
predicate as an operator parameter, which these provers cannot fill in. Here the
predicate is a *set* of numbers (`NatSetInduction`, from the well-foundedness of the
finite sets, and `UpInduction` and `DownInduction` inside of an interval), and a
recursive definition is a *function* that satisfies an equation at each number:
`Recursion`, `NatRecursion` and `SetRecursion` say that there is one. A proof about `FoldFunction` and its relatives then goes over
such a function, from one element to the next.

**CurryingProofs** (for all arities, arguments and numbers of them;
`ArityAssumption`). The code goes over the arguments from behind and the properties
read them from the front, so that neither side says anything about a part of the
other. The proof puts two tallies of the *text* between them (`IsTally`): how many
positional arguments, and how many keywords, there are up to each place. `CountFacts`
compares them with what `call_builtin` has counted when it comes to that place from
behind, `ReadFacts` with what a reader has read when he comes to it from the front;
`PairStep` and `DeliverFacts` say that the k-th positional argument of the text ends
at place k of the delivered list and the k-th keyword from behind after them. `IInv`
says that the arguments collected are the text so far and that they are still too few.
Theorems: `CalledTheorem`, and `DeliveredTheorem`, which needs a hypothesis:
`KeywordsStay`, that reducing an argument neither makes a keyword of it nor takes one
away. The code counts the arguments unreduced and pairs them reduced, and without the
hypothesis they are two texts (section 5, `(quote @a:)`); it holds in the run, whose
quoted argument is a number.

**ModuleLoaderProofs** (for all finite sets of files and all imports;
`FilesAssumption`, `BoundsAssumption`, `OrdersAssumption`). `LoadedOnce` needs
that a load in progress is in the table, and `PlaceholderMeansLoading` that
no file is twice on the stack, which in turn needs that only absent files begin to
load. Theorems: `Inductive`, `TypeTheorem`, `LoadedOnceTheorem`,
`PlaceholderTheorem`.

The second half is about `Modules` (for all texts, directories and names;
`TextsAssumption`, that a text is lists of entries, and `NamesAssumption`, that what a
name resolves to is one of the files or nothing). `LoaderTheorem` carries the induction
above over to the composition, in which every step is one of the loader or leaves it
alone: `RefinesLoader`, `ModulesTheorem`. `TablesInv` is what makes `AnswersAsWritten`
inductive: the table of a loaded module is the one that its text built, *except* that
keys which were asked and not found have an entry with NULL. The lemmas say what
building leaves for a key (`EntriesFacts`, `DispatchFacts`), that touching a table
changes no answer (`LookupFacts`) and that a path is resolved the same way each time
(`PlaceFacts`). Theorem: `AnswersTheorem`.

The last part is about `Hashtable`, which those tables are (for all keys, elements,
hash functions and bounds; `HashValuesAssumption`, that a hash is a natural number).
`EveryEntryIsFound` is not inductive. `Sound` adds what a walk relies on: no key has two
slots, removed ones included, and between the place where the search for a key begins
and its slot no slot was never used (`Reached`). `FindFacts` says what `findEntry` then
tells (when it finds nothing, the key may still stand in the *first* slot, removed),
`NewSlotFits` that a new slot is in reach, `OccupyFacts` and `OccupiedMap` what
occupying it does to the table and to the map. That the count never passes the capacity, so
that there is a new slot and no `abort()`, takes `Sizes`: `growTo` counts each
entry that it moves a second time, and would after several rounds be in need of
more room than it allocates, were there not always two entries less than the count says
in every array but the first (`NewSize`; the sizes are 0, 3 and powers of two plus
one). So no entry that is moved makes the new array grow again (`MoveOne`), whose
count is then the old count plus the number of entries. `PutFacts`, `AssignFacts` and
`RemoveFacts` are the calls on one table, `PutStep` and its siblings the actions,
each with the action of `Dictionary` that it implements. `GrowthDef`, `MovedDef` and
`PowDef` are the equations of the recursive functions. Theorems: `EntriesTheorem`,
and `DictionaryTheorem`, the refinement. `GrowsAtGrowthPoints` holds of the sizes that
the bound `MaxCount` allows, and stays with TLC.

**IndentationProofs** (for all files; `InputsAssumption`). The columns of the open
blocks ascend from a block in column 0, so the loop of `update_indentation` always
stops at one; the lemma `KeptStops` gets that innermost block from the
well-foundedness of the natural numbers. `DepthAsIndented` takes two more
invariants. `AtPlace` relates the scanner to the file: the column is the one of the
next character, the line has not begun exactly when only spaces are in front of that
character, and the open columns are the columns of the blocks that are open in the
file (`openBlocks`, no two of which have one column). Its lemmas follow one character:
a newline, one in the middle of a line, and the first of a line (`PlaceOfNewline`,
`PlaceOfNext`, `PlaceOfFirst`), which shows that what `update_indentation` computes
from its list (`InnerFacts`) is what the definition on the file says. `BalanceInv`
relates it to the tokens: the parentheses delivered and those that wait open as many
blocks as there are open columns. When a token begins nothing waits, since it is not
begun before the list of injected tokens is empty (`TokenInv`); so its depth is the
number of open blocks, however many newlines the token before it put back. Theorems:
`IndentationTheorem`, `DepthTheorem`.

**ShuntingYardProofs** (for all texts and lists of operators; `TextsAssumption`,
and `ParensAssumption`, that nobody registers a parenthesis as an operator: without
it an operator would reduce past an open parenthesis and the parenthesis would
leave without its count). `StacksInStep` is not inductive, for three reasons. A
call that waits in the middle of the stack must stay as good as the innermost one
is, so `GoodStack` speaks of all of them. `let` and `import` push their stand-in
into the call *below* them, which therefore must be one of `parseExpression`
(`binder_P`). And while an operator is compared with those on the stack it must
have a level: `IInv` says that `precedence(frame.value)` is one where `at` is
"operator" or "prefix", so that a parenthesis, which has precedence -1, never yields
to it. The lemmas go from one stack (`PushFacts`, `PopFacts`, `ParensPush`) to one
call (`OperandPushed`, `OperationConsumed`, `ParenClosed`), to the stack of calls
(`FramePushed`, `FramePopped`) and to the actions, one lemma each. Theorems:
`StacksTheorem`, and from the same induction `GroupsTheorem`, the action property
`GroupsKeepApart`.

**WorkspaceProofs** (for all front ends, file names, commands, built-in definitions
and bounds; `BuiltinsAssumption`, `NamesAssumption`, `CommandsAssumption`,
`DisksAssumption`). The
lemmas `NamesOfConcat`, `NamesOfSubSeq` and `NamesOfInserted` say that the names of
a chain are taken entry by entry, so that one insertion in the chain and one in the
list keep `RowsMatchEntries`, if the places that the front ends choose are rows or
behind all of them (`PlacesFacts`). `IInv` adds what makes the other properties
inductive: a file that can be loaded, wholly or in part, has a sequence of entries, a dialog
and a save exclude each other and exist only in a running program (otherwise a refused save
could bring back a document that was closed), and the definitions of an
unmodified window are in its file *also while GTK saves*, since that save may fail.
`SavedTheorem` speaks of documents that are `whole`: after a load that gave less than the
file, there is nothing to prove, because the code marks nothing then (section 5).
The text in a file is `shownOf` the text in the window; `OnlyFacts` says where each item
that is left came from, by a function that ascends (`Sources`). `ResultsInPlace` alone
is not inductive: a result that goes to its place passes only what belongs to later
commands, which takes that every result stands behind the *arrow* of its own command
(`Readable`), and that of every document in a file too, since a load appends it.
Theorems: `RowsTheorem`, `SavedTheorem`, `SavedWhileSavingTheorem`, `ResultsTheorem`.

**RecordsProofs** (for all widths of a byte, all formats and all data;
`BAssumption`, `FormatsAssumption`, `MaxElementsAssumption`). Fields do
not overlap because each begins at the end of the bytes so far, so `LayoutInv` relates
the last field to the end of the bytes and each to the next, and its types need the
stack of nested records. `PackedInv` is about formats without lists and paddings, for
which `recordSize` is exact: the offset after each character is that of a function over
the format (`IsSizes`), which the fold of `recordSize` computes as well; and about the
kinds of the fields, which are those of the format, so that the collector looks into
the room of any record with pointers. Theorems: `AlignedTheorem`, `SizeTheorem`.

Model-checked only:

* `CommandsEnd`, `LoadsEnd`: liveness under fairness, which this prover does not do.
* Everything about `Terms`, `Binding`, `EvaluatorMeaning`, `Syntax`'s trees, `Printer`,
  `Arithmetic` and the strings of `Tokens`: these are recursive operators, about which (or next to which) nothing can be proved. That is why
  `Evaluator` takes the substitution as the constant operator `substitute`: its proofs
  hold for any substitution at all.
* `ReducedOnce`: for *any* substitution it is false. It needs that a term does not
  contain itself, which is a fact about the trees of `Terms`.
* `UnpackInvertsPack`: powers of two have no axioms in these provers.

## 5. Disagreements between the code and what is said about it

With a run of its own:

* `evaluator_leak`: `recursionLevel` (`B/Evaluators/Evaluators.cc:283`) is not
  restored by exceptions other than its own. After enough interrupted commands, a
  shallow program is refused as "too deep". (The comment at line 179 calls it
  "anti-endless-loop".)

Against a document, an assertion or a comment, seen while modelling. The model does what
the code does, and no property asserts either side:

* `keyword? @mode:` is collected instead of called
  (`B/Evaluators/Operation.cc:67-81`); `doc/lib/Reflection/index.html:35` shows it
  as an example. `CalledWhenComplete` says nothing of a keyword in the last place;
* after an exception the placeholder of a module remains, and `requireModule`
  gives it (`B/Evaluators/ModuleLoader.cc:163`; `doc/programming/manual/index.html:117`:
  "Result is the module.");
* print and read of S expressions do not fit: the body of an abstraction is printed on an
  indented line (`B/Formatters/SExpression.cc:86-90`), the parser's scanner injects
  parentheses there (`B/Scanners/Scanner:48`, `Scanner.cc:683-699`), which are symbols
  to it (`SExpressionParser.cc:68-69`), and the assertion
  `get_cons_tail(get_cons_tail(get_cons_tail(root))) == NULL` (`Evaluators.cc:359`) ends
  the program: no saved document with a definition can be loaded. `PrintedReadsBack`
  asks that none is read as something else;
* `#*` in front of a blank ends the program by the assertion at `B/Scanners/Scanner:71`
  (the Makefile does not define NDEBUG), though the comment at `Scanner.cc:528` calls
  it valid; in front of anything else it gives no token (NULL). `TokensStandAlone`
  exempts both;
* the quotient of `divmod0Integer` lacks its minus for operands of opposite signs,
  which that of `divmod0Int` has (`Builtins.cc:185-197`; the comment at line 625, "b*q +
  rem = a", and `doc/lib/Arithmetic/index.html:50`). `Exact` accepts either sign there
  (`exactQuotient`), and asks for the rest as it should be;
* `=` packs without alignment (`B/FFIs/RecordPacker.cc:355-360`, with a TODO at line 40),
  though `doc/lib/FFI/index.html:54` and the comment at `RecordPacker.cc:28-33` give it
  that of `@`. `FieldsAligned` is about `@` only;
* `inject` reverses: a dedent to a column between two open blocks gives `(` before
  `)` (`B/Scanners/Scanner.cc:706`; the tutorial says the previous blocks are
  closed first). Depths are right all the same, which is `DepthAsIndented`;
* at the end of a text SCOPERANDS (`B/Scanners/ShuntingYardParser.cc:334`) takes
  an operator without operands for an operand and skips the loop that would handle
  what is below it: `\x +` is parsed as `+`. So are `let x := 5 in +` and `(+`,
  which nobody closed. The comment there says that "there has been nothing
  interesting";
* `leqARatio` multiplies by denominators that may be negative, as that of
  `1 / (-2)` is, and orders the wrong way round (`B/Evaluators/Builtins.cc:607`;
  `doc/lib/Arithmetic/index.html:66`);
* the fallback of `dispatchModule` is only asked for the list of exports, never
  for keys: what is missing is given to NULL (`B/ModuleSystem/Modules.cc:60-69`;
  `doc/lib/Composition/index.html:55-95`, where the fallback answers).
  `AnswersAsWritten` asks only that such a key is given to some function.

Met while modelling, and without a run of their own:

* `simplifyRatio` (`B/Evaluators/Builtins.cc:538`) drops an interrupt that arrives
  in `gcd` (`Swallow`), although `doc/interna/index.html:30` says that SIGINT is
  turned into KeyboardInterrupt. The unreduced ratio still has the right value;
* a removed key may still be found (`B/Values/Hashtable:86`; that is why
  `Dictionary` has `leftovers`), while `getFreeVariables` takes `containsKeyP` for
  "bound" (`B/Evaluators/Evaluators.cc:43-47`): it may miss a free variable, as the model
  does when names collide (`Separated` in `StaysClosed`);
* `x - - y` is parsed as `(0 - x) - y` and `x - * y` as `0 - (x * y)`: a minus whose
  right operand is still to come takes its left one for the right, and 0 for the
  left. (The comment at
  `ShuntingYardParser.cc:301` names a part of this as a limitation.)
* a prefix operator directly after another one at the beginning of its parentheses
  (`unary-` twice, or `(' \x x)` with minus) makes the first a section and the
  text an error;
* `let 5 := 1 in x` ends the program by an assertion (`ShuntingYardParser.cc:244`)
  instead of a parse error;
* `Tests/0012_list_macro/tests` expects no exception from `[; \status 1]`, where the
  operator becomes a section and the parser is left with two operands and raises
  an error; the file is not run, since the runner looks for `test`;
* a SIGINT between the read and the clearing of the flag is lost
  (`TUI/Interrupt.cc:11-16`; `Poll` clears it, and `OneAbortPerSignal` is
  therefore an inequality);
* `increaseGeneration` wraps to 0 (`B/Evaluators/Evaluators.cc:202`), in which
  every new Application looks as if it was reduced to NULL, though the comment at
  `B/Values/Values:118` counts on 0 not being used; this is why
  `ResultsAreValues` exempts generation 0;
* `call_builtin` counts arguments before they are reduced and `CXXfromArguments`
  pairs them after: `(quote @a:)` is counted as an ordinary argument and delivered
  as a keyword (`B/Evaluators/Operation.cc:67`, `Builtins.cc:917`);
* `(*fModules)[key] = forceModuleLoad(...)` (`ModuleLoader.cc:164`): before C++17
  the reference may be taken first and point into an array that a nested load
  replaces; `PlaceholderMeansLoading` is therefore stated for the other order;
* a string over lines that are indented and back again gets its injected
  parentheses after its end, closing before opening (`Scanner.cc:706`);
* a file that does not exist lets FALLBACK write through NULL
  (`B/Evaluators/Evaluators:20`).

Numbers:

* the least word divided by -1, also within `gcd`, is refused by the processor and
  ends the program (`Builtins.cc:168`); a division by zero is a Ratio with
  denominator 0;
* `promoteToFloat` of an Integer takes its digits in the wrong order
  (`Builtins.cc:130-145`), `internUnsignedLongLong` drops trailing zero bits
  (`Integer.cc:886-894`; `internNativeU` of `Records`), and numerals over 10000 digits
  are cut off;
* `sizedIntFromNode` (`FFI.cc:72-80`) refuses every negative number, and computes its
  mask by `1 << bitCount` in an int: for 32 bits and more that is undefined, and what
  the processor makes of it refuses numbers that fit (31 is right where overflow wraps).
  `ConvertsExactly` asks for fewer bits than an int has, of numbers from zero on;
* `emulatemkgmtime` (`FFI.cc:289`) answers -1, which is itself a time, in the
  first, cut-off minute of the range, and reads through NULL where `gmtime` has no
  answer (lines 311-313), as it has none for times far enough away (`TimeRanges`).

Records (`B/FFIs/RecordPacker.cc`), what `UnpackInvertsPack` and `SizeIsPackedLength`
exempt:

* `x` in aligned mode resets the offset in `recordSize`, and lists have no size;
* the 4-byte checks let 2^32 through (signed) or look at one bit only (unsigned), the
  8-byte check rejects values with certain bits set;
* `l` and `L` outside of `@` are packed as 4 bytes and read as 8 (lines 407-412,
  431-436), so that unpacking looks at bytes nobody wrote;
* `unpackRecord` has no lists; NULL comes back as nil.

Older programs, what `SavedUnlessModified` and `ResultsInPlace` exempt and the
actions show:

* a result that is still being drawn is not saved; one whose text was cleared
  meanwhile appears in the new document, which counts as modified then;
* a load that fails has cleared the workspace (`REPL/REPL.cc:88`) while the name
  stays, one that meets an exception leaves the half it has loaded as unmodified
  (lines 146-150), one of another program's file loads nothing and takes the name
  (lines 118-129), and in WIN32 a cancelled dialog empties it (`GUI/WIN32REPL.cc:332-340`).
  `whole` is false after each of them;
* GTK saves an image as the text of its formula and reads that as an S expression, so
  that an image may be lost or be another one (`GUI/GTKREPL.cc:168-176`, `926-955`);
* a disk that is full is not noticed; WIN32 writes in place; a file that cannot be
  created is written to through NULL (`GUI/GTKREPL.cc:1019-1021`);
* a definition inserted before a built-in one is not saved, one inserted before an
  older one of the same name is shadowed by it;
* `#exit` in the terminal loses the session, and an existing file that could not
  be loaded is overwritten at the end of the input.

Text and keys:

* `2.size` is read as `2.` and `size`; `1e` is a numeral; the end of the input
  within a UTF-8 operator becomes byte 255; `strStr` does not notice a character
  that is cut off at the end;
* in `TUI2`, `parseParens` begins without a token (`uninitialised`); Enter in the
  middle of a line, or with a syntax error, runs NULL, which prints `[]`
  (comment `TUI2/main.cc:175`); parentheses of different kinds match each other;
* the completer of the windows takes the cursor's position in characters for one
  in bytes (`GUI/GTKCompleter.cc:39`, `GUI/WIN32Completer.cc:69`), duplicates an
  operator, and deletes the rest of a symbol when Tab is ambiguous in the middle of it;
* printed with two operands, prefix operators look like infix ones
  (`B/Formatters/GenericPrinter:39`): `('x) y` gives `x'y`, and as values they have no
  parentheses; `(/) x` is `(}{) x` in LaTeX (`LATEX.cc:121`);
  `2 . x` prints as `2.x`; nil and numerals read back from S expressions as symbols;
* `makeExportsFVA` (`Exports.cc:27-37`) overwrites the comma and exports only the
  first of several names; `dispatchScanner` (`Scanner.cc:809`) knows only `push!`.

## 6. What is not modelled

* Code that does not run: `MathParser.cc` (compiled only with OLD_PARSER),
  `REPL/REPL2.cc`, `VariantPacker.cc` outside of WIN32, `Backtracker`, the prototypes
  in `design/`, `parse_define_macro`, `uncons`, `enter_abstraction`, `ParenAdder`.
* Tables: `Symbols.cc`, `BuiltinSelector.cc`, `Trampolines.cc`, the symbols of LaTeX
  (`UTFStateMachine.cc`), the vendored collector's headers.
* Floats: their arithmetic is the processor's, and so is their layout in records.
* Lists and ratios in the printer: the parser makes none. The columns of printed lines.
* The composition of `Indentation` with `ShuntingYard` by characters: their
  interface is the sequence of tokens. `Tokens` and `Indentation` are two views of
  one scanner; strings over lines are in the second.
* The C stack. Builtins reduce arguments without counting, so nested strict
  builtins use stack that `recursionLevel` does not bound. In `Workspace` that is one
  of the reasons for `Die`.
* Interning of symbols and keywords (taken as identity), memory, and the wrappers
  of system calls in `B/FFIs` (files, directories, processes, environment).
* Logic, list and string builtins and the standard library: functions without
  state. The programs of the evaluator's run have the shape of a few of them.
* Widgets: layout, cut and paste, searching and tips; the terminal emulator; the
  history file of readline and the functions `TUIModule.cc` gives to programs.
* The names of cached drawings (`GUI/GTKLATEXGenerator.cc:55-78`), which two different
  documents can share; a drawing in `Workspace` knows its command.

## 7. Plan

Written in this order, most important first: Nodes, Calls, Currying; Terms,
Binding; Evaluator with its proofs; Dictionary, Hashtable; ModuleLoader with its
proofs, and those of Hashtable; Indentation with its proof; Precedences, ShuntingYard, Syntax with their
proofs; Blocks, Arithmetic; Records; Environment, Workspace; Tokens, Terminal,
Completer; Printer; ModuleFiles, Modules. Left:

1. `Commands` as an abstract specification (each command is answered once, by its
   value or one exception) that `Evaluator` and `Terminal` are shown to implement.
2. Searching and tips in the windows; lists and ratios in the printer; the string
   and list builtins.
