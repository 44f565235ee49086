---------------------------- MODULE MCWorkspace -----------------------------
(* Commands of Workspace for TLC: a definition, an import that fails after  *)
(* its definitions, and a text that is none.  One file is of any kind       *)
(* before the first start, and there is none of the other name.             *)
EXTENDS Workspace

CONSTANTS a, b, quote, nil, f, g

MCBuiltins == <<quote>>
MCFiles ==
    {File("missing"), File("foreign"),
     WrittenFile("document", <<Entry(b, 2)>>), WrittenFile("wrong", <<Entry(b, 2)>>)}
MCDisks == {[n \in FileNames |-> IF n = g THEN File("missing") ELSE file] : file \in MCFiles}
MCCommands ==
    {[parses |-> TRUE, ends |-> TRUE, defines |-> <<Entry(a, 1)>>],
     [parses |-> TRUE, ends |-> FALSE, defines |-> <<Entry(a, 2), Entry(b, 1)>>],
     [parses |-> FALSE, ends |-> FALSE, defines |-> <<>>]}
=============================================================================
