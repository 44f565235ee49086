---------------------------- MODULE MCTerminal -----------------------------
(* Keyboards of Terminal for TLC: one for each kind of token, and one for   *)
(* parentheses in and around strings.                                       *)
EXTENDS Terminal

Characters(bytes) == {<<b>> : b \in bytes}
MCKeyboards == {
    \* 2 . e + x
    Characters({50, 46, 101, 43, 120, 32}),
    \* x ' + ( @ : blank, the vector arrow, the partial differential, not
    Characters({120, 39, 43, 64, 58, 32}) \union {<<226, 131, 151>>, <<226, 136, 130>>, <<194, 172>>},
    \* # x 2 ! * and backslash
    Characters({35, 120, 50, 33, 42, 92, 32}),
    \* " a newline, blank, and escapes of quotes, of two bytes that are one character, of a control
    Characters({34, 97, 10, 32}) \union {<<92, 120, 99, 51>>, <<92, 120, 65, 57>>, <<92, 34>>, <<92, 92>>, <<92, 110>>, <<92, 120, 48, 49>>},
    \* ( ) [ " x blank, the character (, and a bit vector before a blank
    Characters({40, 41, 91, 34, 120}) \union {<<35, 92, 40>>, <<35, 42, 32>>, <<35, 101, 120, 105, 116>>}}

(* The parser accepts what has no parentheses open and none too many, if    *)
(* the scanner gets to the end.                                             *)
MCVerdict(text) ==
    LET tokens == tokensOf(text)
        p == parens(tokens)
    IN  CASE Last(tokens).kind = "error" \/ ~reachable_P(p, Len(p)) -> "error"
          [] Last(tokens).kind = "abort" -> "abort"
          [] Sum(p, 1, Len(p)) > 0 -> "incomplete"
          [] Len(tokens) = 1 -> "error"
          [] OTHER -> "parsed"
\* xx, x2x, ax, #exit and ++
MCNames == {<<120, 120>>, <<120, 50, 120>>, <<97, 120>>, <<35, 101, 120, 105, 116>>, <<43, 43>>}
=============================================================================
