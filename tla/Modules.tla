------------------------------ MODULE Modules -------------------------------
(***************************************************************************)
(* Modules as programs see them: a name is required, which gives the       *)
(* module of a file (ModuleFiles, ModuleLoader), and a key is asked of it, *)
(* which looks in the Hashtable that dispatchModule has built (Modules.cc, *)
(* Exports.cc).                                                            *)
(***************************************************************************)
EXTENDS ModuleLoader, ModuleFiles

CONSTANTS
    Names,     \* that the read-eval-print loop requires
    Keys       \* symbols, and NULL for a node that is none

VARIABLES
    tables,    \* by file: the Hashtable of its module, <<>> without one
    answer,    \* what was asked last, and what was answered
    alive      \* whether the program still runs

moduleVars == <<vars, tables, answer, alive>>

-----------------------------------------------------------------------------
\* What a key can stand for.
Value(kind, symbols) == [kind |-> kind, symbols |-> symbols]
nil == Value("nil", <<>>)
valueOf(symbol) == Value("value", <<symbol>>)
Entry(symbol) == [key |-> symbol, value |-> valueOf(symbol)]

\* #exports[a b], a list of pairs ('a, a) and ('b, b).
buildHashExports(symbols) == [i \in DOMAIN symbols |-> Entry(symbols[i])]

\* exports(&a, &b) of a shared library.  The comma behind the first name is
\* overwritten by the end of the text, and there the next call begins.
makeExportsFVA(symbols) == IF symbols = <<>> THEN <<>> ELSE <<Entry(Head(symbols))>>

entriesOf(file) ==
    IF Texts[file].native THEN makeExportsFVA(Texts[file].exports)
    ELSE Texts[file].own \o buildHashExports(Texts[file].exports)
keysOf(entries) == [i \in DOMAIN entries |-> entries[i].key]

\* What is written in a file: the list of its own entries gives each key the
\* value of a symbol, and the names of its exports are lists, too.
ASSUME TextsAssumption ==
    \A file \in Files :
        LET text == Texts[file]
        IN  /\ text.exports \in Seq(Range(text.exports))
            /\ text.fallback \in Seq(Range(text.fallback))
            /\ text.own \in Seq(Range(text.own))
            /\ \A i \in DOMAIN text.own :
                   text.own[i].value = valueOf(Head(text.own[i].value.symbols))
\* Files are all that a name can lead to.
ASSUME NamesAssumption == \A name \in Names : resolved(name).key \in Files \cup {NULL}

\* The first entry of a key wins.
entryOf(entries, key) == entries[SelectInSeq(entries, LAMBDA entry : entry.key = key)]

\* mapGetFst2: the keys, and those that the fallback has under 'exports.
exportsOf(entries, fallback) == Value("list", <<"exports">> \o keysOf(entries) \o fallback)

\* dispatchModuleF.  What is exported as "exports" is not seen.
dispatchModule(entries, fallback) ==
    [key \in {"exports"} \cup Range(keysOf(entries)) |->
        IF key = "exports" THEN exportsOf(entries, fallback) ELSE entryOf(entries, key).value]

\* accessHashtableF.  What has no entry is left to the entry "default", which
\* operator[] makes when there is none.
lookup(table, key) ==
    IF key \in DOMAIN table THEN table[key]
    ELSE Value("applied", Append(IF "default" \in DOMAIN table THEN table["default"].symbols ELSE <<>>, key))

\* A mutant of touched: operator[] is also what looks for the key.
touchedAtKey(table, key) ==
    IF key \in DOMAIN table THEN table ELSE [k \in DOMAIN table \cup {key} |-> IF k = key THEN nil ELSE table[k]]

touched(table, key) ==
    IF key \in DOMAIN table \/ "default" \in DOMAIN table THEN table
    ELSE [k \in DOMAIN table \cup {"default"} |-> IF k = "default" THEN nil ELSE table[k]]

-----------------------------------------------------------------------------
ModulesInit ==
    /\ Init
    /\ tables = [file \in Files |-> <<>>]
    /\ answer = NULL /\ alive = TRUE

\* A step of the loader.  The evaluation of a file ends with dispatchModule.
Load ==
    /\ alive /\ Next
    /\ tables' = [file \in Files |->
                     IF fModules[file] # "module" /\ fModules'[file] = "module"
                     THEN dispatchModule(entriesOf(file), Texts[file].fallback) ELSE tables[file]]
    /\ answer' = NULL
    /\ UNCHANGED alive

\* loadModule finds the file anew each time.
place == [name \in Names |-> resolved(name)]

\* (requireModule name) key, of a module that has been loaded.
Access(name, key) ==
    LET file == place[name].key
    IN  /\ alive /\ stack = <<>> /\ file # NULL /\ fModules[file] = "module"
        /\ answer' = [key |-> key, actual |-> place[name].actual, file |-> file, value |-> lookup(tables[file], key)]
        /\ tables' = [tables EXCEPT ![file] = touched(@, key)]
        /\ UNCHANGED <<vars, alive>>

\* A name without a file: FALLBACK writes through NULL.
RequireMissing(name) ==
    /\ alive /\ stack = <<>> /\ place[name] = missing
    /\ alive' = FALSE /\ answer' = NULL
    /\ UNCHANGED <<vars, tables>>

ModulesNext ==
    \/ Load
    \/ \E name \in Names, key \in Keys : Access(name, key)
    \/ \E name \in Names : RequireMissing(name)

ModulesSpec == ModulesInit /\ [][ModulesNext]_moduleVars /\ WF_moduleVars(Load /\ Progress)
-----------------------------------------------------------------------------
\* Where a file has an entry for a key.
entriesFor(file, key) == {i \in DOMAIN entriesOf(file) : entriesOf(file)[i].key = key}

\* Every name of a file leads to its one module, and a module answers a key
\* with the first entry it was written with, whatever was asked of it before
\* under whichever name; a key without an entry gets what a function makes of
\* it, never the value of another key or one that is left of an earlier
\* question.  (It is left open which function: the code's is NULL, against
\* doc/lib/Composition/index.html:60-73.  Asking for what is missing makes an
\* entry "default", so that key depends on what was asked.)
AnswersAsWritten ==
    answer # NULL /\ answer.key # "default" =>
        LET file == inode[answer.actual]
            entries == entriesOf(file)
            places == entriesFor(file, answer.key)
        IN  /\ answer.file = file
            /\ CASE answer.key = "exports" -> Range(keysOf(entries)) \subseteq Range(answer.value.symbols)
                 [] answer.key # "exports" /\ places # {} ->
                      \E i \in places : answer.value = entries[i].value /\ \A j \in places : i <= j
                 [] OTHER -> answer.value.kind = "applied" /\ Last(answer.value.symbols) = answer.key
=============================================================================
