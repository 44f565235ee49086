---------------------------- MODULE MCIndentation ----------------------------
(* Files for Indentation for TLC. *)
EXTENDS Indentation

CONSTANT MaxLength \* bound: characters of a file

Files(characters) == UNION {[1 .. n -> characters] : n \in 0 .. MaxLength}

MCInputs == Files(Characters)
MCSymbols == Files({space, newline, symbolChar})
=============================================================================
