----------------------------- MODULE MCSyntax -----------------------------
\* Syntax and Printer for TLC: all short texts over some vocabularies.
EXTENDS Printer

\* All texts of up to length tokens.  Identifiers are numbered by their place.
Names == <<"x1", "x2", "x3", "x4", "x5", "x6">>
Numbered(t) == <<>> \o [i \in DOMAIN t |-> IF t[i] = "x" THEN Names[i] ELSE t[i]]
TextsOf(vocabulary, length) ==
    {Numbered(t) : t \in UNION {[1 .. n -> vocabulary] : n \in 0 .. length}}

\* let x := ... in ..., and import in the same way.
Bindings(binder, vocabulary, length) ==
    {binder \o bound \o <<"in">> \o body :
        bound \in TextsOf(vocabulary, length), body \in TextsOf(vocabulary, length)}

\* The scanner closes what it has opened.
Balanced(t) ==
    LET Depth(i) == Cardinality({j \in 1 .. i : t[j] = "{"})
                        - Cardinality({j \in 1 .. i : t[j] = "}"})
    IN  /\ \A i \in DOMAIN t : Depth(i) >= 0
        /\ Depth(Len(t)) = 0

Vocabularies ==
    {{"x", "+", "*", "-", "(", ")"},
     {"x", "-", "$", "=", "."},
     {"x", "+", "'", "\\", "unary-", "(", ")"},
     {"x", "+", "'", "[", "]", "("},
     {"x", "-", "(", ")", "{", "}"},
     {"x", "/", "\\", "(", ")"}}

\* Lists, exports and bindings in shorter texts.
OtherTexts ==
    {{<<"[">> \o t \o <<"]">> :
          t \in {u \in TextsOf({"x", "'", "(", ")", "{", "}"}, 4) : Balanced(u)}},
     {<<"#exports">> \o t : t \in TextsOf({"x", "+", "[", "]"}, 4)},
     {<<"0", ":", ",", "nil">>},
     Bindings(<<"let", "5", ":=">>, {"x"}, 1),
     Bindings(<<"let", "y", ":=">>, {"x", "+", "\\", "(", ")"}, 2),
     Bindings(<<"z", "let!", "(", "y", ")", "=">>, {"x", "+", "in", ";"}, 2),
     Bindings(<<"import", "[", "y", "z", "]", "from">>, {"x", "+", "#exports", "[", "]"}, 2)}

\* One comprehension over one union, which TLC enumerates once.
MCTexts ==
    LET all == UNION ({[1 .. n -> v] : v \in Vocabularies, n \in 0 .. 5} \cup OtherTexts)
    IN  {Numbered(t) : t \in {u \in all : Balanced(u)}}

\* The defaults, and a list in which * is listed twice.
MCOperatorLists ==
    {<<>>, << <<[operator |-> "*", associativity |-> "left"]>>,
              <<[operator |-> "+", associativity |-> "right"],
                [operator |-> " ", associativity |-> "left"]>>,
              <<[operator |-> "-", associativity |-> "none"],
                [operator |-> "*", associativity |-> "left"]>> >>}
MCNumerals == {"5"}
===========================================================================
