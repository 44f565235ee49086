--------------------------- MODULE MCModuleLoader ---------------------------
(* A file system for Modules for TLC, and from it the files and imports of  *)
(* ModuleLoader.                                                            *)
EXTENDS Modules

MCSearchPath == <<<<>>, <<"lib">>, <<"share">>>>
MCDirectories == {<<"lib">>, <<"lib", "Logic">>, <<"share", "Logic">>, <<"share", "Composition">>, <<"/", "lib", "Logic">>}
\* Arithmetic has a link, Logic an absolute path and an older copy that is not
\* found, share/Composition a namesake that is no module.
MCinode ==
    (<<"Main.5D">> :> "Main") @@
    (<<"lib", "Arithmetic.5D">> :> "Arithmetic") @@ (<<"Numbers.5D">> :> "Arithmetic") @@
    (<<"lib", "Logic", "init.5D">> :> "Logic") @@ (<<"/", "lib", "Logic", "init.5D">> :> "Logic") @@
    (<<"share", "Logic", "init.5D">> :> "Old") @@
    (<<"share", "Composition", "init.5D">> :> "Composition") @@
    (<<"share", "List.so">> :> "List")

Text(shebang, requires, own, exports, fallback) ==
    [shebang |-> shebang, requires |-> requires, own |-> own, exports |-> exports, fallback |-> fallback, native |-> FALSE]
rebound(key, symbol) == <<[key |-> key, value |-> valueOf(symbol)]>>
\* Arithmetic imports Logic and, for its operators, Composition, Logic imports
\* Composition and back; Main imports all of them and itself; List, a shared
\* library, imports nothing.
MCTexts == [file \in {"Main", "Arithmetic", "Logic", "Old", "Composition", "List"} |->
    CASE file = "Main" -> Text(NULL, {<<"Main.5D">>, <<"Numbers.5D">>, <<"Logic">>, <<"Composition">>, <<"List.so">>},
                               rebound("a", "handler"), <<"default">>, <<>>)
      [] file = "Arithmetic" -> Text(<<"Composition">>, {<<"Logic">>}, rebound("a", "first"), <<"a", "b">>, <<"c">>)
      [] file = "Logic" -> Text(NULL, {<<"Composition">>}, rebound("exports", "hidden"), <<"b">>, <<>>)
      [] file = "Composition" -> Text(NULL, {<<"/", "lib", "Logic">>}, <<>>, <<"a">>, <<>>)
      [] file = "Old" -> Text(NULL, {}, <<>>, <<"a">>, <<>>)
      [] file = "List" -> [Text(NULL, {}, <<>>, <<"a", "b">>, <<>>) EXCEPT !.native = TRUE]]

MCFiles == {"Main", "Arithmetic", "Logic", "Composition", "List"}
MCImports == [file \in MCFiles |-> importsOf(file)]
MCNames == {<<"Arithmetic.5D">>, <<"Numbers.5D">>, <<"Logic">>, <<"Main.5D">>, <<"List.so">>, <<"Set">>}
MCKeys == {"a", "c", "default", "exports", NULL}

\* GrowthPoints of module Hashtable, enough for five files
MCGrowsAt == {0, 3}

MCOrders == {"reference first", "value first"}
=============================================================================
