----------------------------- MODULE MCCurrying -----------------------------
(* Values of the constants of Currying for TLC. *)
EXTENDS Currying

MCArities == {-3, -2, 1, 2, 3}
\* The last one is (quote 2), which reduces to 2.
MCItems == {Keyword("a"), Keyword("b"), makeInt(1),
            makeApplication(<<1>>, CProcedure("quote", 1), makeInt(2))}

MCOne == {1}
MCOneItems == {Keyword("a"), makeInt(1)}
=============================================================================
