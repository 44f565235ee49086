---------------------------- MODULE ModuleFiles -----------------------------
(***************************************************************************)
(* How the name in requireModule becomes a file and the key that its       *)
(* module has in the table (ModuleLoader.cc), and what the file requires   *)
(* in turn.  Paths are sequences of names; absolute ones begin with "/".   *)
(***************************************************************************)
EXTENDS SequencesExt

CONSTANTS
    Directories, \* the paths that are directories
    inode,       \* the number of a file by its path: several paths can have one
    Texts,       \* what is in a file, by its number
    searchPath,  \* get_module_search_path: "", "lib/" and the shared directory
    NULL

missing == [key |-> NULL, actual |-> <<>>]

\* stat, twice for a directory.
getModuleFileKey(filename) ==
    LET actual == IF filename \in Directories THEN Append(filename, "init.5D") ELSE filename
    IN  IF actual \in DOMAIN inode THEN [key |-> inode[actual], actual |-> actual] ELSE missing

absolute_path_P(name) == name # <<>> /\ Head(name) = "/"

\* The first place that has a file of the name.
placesOf(name) ==
    IF absolute_path_P(name) THEN <<name>> ELSE [i \in DOMAIN searchPath |-> searchPath[i] \o name]
found(name) == SelectSeq(placesOf(name), LAMBDA place : getModuleFileKey(place) # missing)
resolved(name) == IF found(name) = <<>> THEN missing ELSE getModuleFileKey(Head(found(name)))

\* A file that names a list of precedences in its first line requires it.
selectOperatorPrecedenceList(shebang) == IF shebang = NULL THEN {} ELSE {shebang}
requiredNames(file) == Texts[file].requires \cup selectOperatorPrecedenceList(Texts[file].shebang)
importsOf(file) == {resolved(name).key : name \in requiredNames(file)} \ {NULL}
=============================================================================
