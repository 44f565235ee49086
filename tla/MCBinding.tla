----------------------------- MODULE MCBinding -----------------------------
(* Values of the constants of Binding for TLC: all redexes over two names. *)
EXTENDS Binding

x == Symbol("x")
y == Symbol("y")
names == {x, y}

app(operator, operand) == makeApplication(<<>>, operator, operand)
apps(operators, operands) == {app(f, a) : f \in operators, a \in operands}
fns(bodies) == {makeAbstraction(p, b) : p \in names, b \in bodies}

leaves == names \cup {makeInt(1)}
\* What reduce1 returns as it is.
values == leaves \cup fns(leaves)
small == leaves \cup fns(leaves) \cup apps(leaves, leaves) \cup apps({Quoter}, names) \cup apps({Reducer}, values)
medium == small \cup fns(small) \cup apps(small, fns(leaves) \cup leaves) \cup apps({Quoter}, small)

\* quote as the prelude provides it: a parameter of that name, bound to Quoter.
quoting == {app(makeAbstraction(Symbol("quote"), b), Quoter) :
                b \in apps({Symbol("quote")}, names) \cup fns(apps({Symbol("quote")}, names))}

MCSources == apps(fns(medium), small) \cup apps(apps(fns(small), fns(leaves)), small) \cup quoting

\* Names that collide in every array, and names that never do.
numbered == [name \in names \cup {Symbol("quote")} |-> CASE name = x -> 0 [] name = y -> 1 [] OTHER -> 2]
MCHashes == {numbered, [name \in DOMAIN numbered |-> 0]}

\* reduce1 of the operands of inline above, which are values.
MCreduce1(term) == term
=============================================================================
