---------------------------- MODULE MCEvaluator ----------------------------
(* Programs and constants of Evaluator for TLC. *)
EXTENDS EvaluatorMeaning

ref(i) == SymbolReference(Symbol("v"), i)
fn(body) == makeAbstraction(Symbol("v"), body)
app(n, operator, operand) == makeApplication(<<n>>, operator, operand)
Adder == CProcedure("+", 2)
Divider == CProcedure("/", 2)

\* a + b, taking the identities n and n + 1
plus(n, a, b) == app(n, app(n + 1, Adder, a), b)

\* (\v v + v) (1 + 2): the argument is shared
sharing == app(10, fn(plus(11, ref(1), ref(1))), plus(13, makeInt(1), makeInt(2)))
\* (\v v v) (\v v v)
omega == app(20, fn(app(21, ref(1), ref(1))), fn(app(22, ref(1), ref(1))))
\* (\v v 1) ((\v +) 3 2): an operator that is itself computed, then curried
currying == app(30, fn(app(31, ref(1), makeInt(1))),
                    app(32, app(33, fn(Adder), makeInt(3)), makeInt(2)))
\* ((\v 7) 1) 2: a number in operator position
stuck == app(40, app(41, fn(makeInt(7)), makeInt(1)), makeInt(2))
\* (+ @v: 1) 2: a keyword for a builtin that takes none
rejected == app(50, app(51, app(52, Adder, Keyword("v")), makeInt(1)), makeInt(2))
\* (\v quote v) (1 + 2), and inline of it
quoted == app(60, fn(app(61, Quoter, ref(1))), plus(62, makeInt(1), makeInt(2)))
inlined == app(70, Reducer, app(71, fn(ref(1)), makeInt(3)))
\* 2/4, 3/1, and 1/2 under two operators
half == app(80, app(81, Divider, makeInt(2)), makeInt(4))
whole == app(82, app(83, Divider, makeInt(3)), makeInt(1))
deepHalf == app(84, fn(app(85, fn(ref(1)), half)), makeInt(0))
\* inline (\v v v) ...: the loop runs through a builtin
looping == app(90, fn(app(91, Reducer, app(92, ref(1), ref(1)))),
                   fn(app(93, Reducer, app(94, ref(1), ref(1)))))
\* 7 + (\v v): no sum
noSum == plus(95, makeInt(7), fn(ref(1)))

MCPrograms == {sharing, omega, currying, stuck, rejected, quoted, inlined, half,
               whole, deepHalf, looping, noSum}
MCFew == {sharing, omega, half}
=============================================================================
