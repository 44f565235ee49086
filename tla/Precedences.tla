---------------------------- MODULE Precedences ----------------------------
(***************************************************************************)
(* LOperatorPrecedenceList: 37 levels, each a list of operators with their *)
(* associativity.  A level that is looked up first (0) binds loosest.      *)
(*                                                                         *)
(* prefix_usages, by which cons finds out quickly that an operator cannot  *)
(* have been registered before, is left out: it never says so of one that  *)
(* was (the counts only grow; nothing calls uncons).                       *)
(***************************************************************************)
EXTENDS Integers, SequencesExt

\* An operator_ that is NULL: what cons leaves of an older registration.
NULL == "NULL"
Levels == 0 .. 36
apply_level == 24

OperatorPrecedenceItem(operator, associativity) ==
    [operator_ |-> operator, associativity |-> associativity]

\* A mutant of defuse.
leaveAll(levels, operator) == levels

\* Whatever has the operator already, on any level, loses it.
without(item, operator) == IF item.operator_ = operator THEN [item EXCEPT !.operator_ = NULL] ELSE item
defuse(levels, operator) ==
    [level \in Levels |->
        LET items == levels[level]
        IN  [i \in DOMAIN items |-> without(items[i], operator)]]

\* cons: the newest registration of a level comes first.
cons(levels, level, operator, associativity) ==
    [defuse(levels, operator) EXCEPT
        ![level] = <<OperatorPrecedenceItem(operator, associativity)>> \o @]

\* get_operator_precedence_and_associativity: the first level and item with the
\* operator, or -1 and NULL.
get_operator_precedence_and_associativity(levels, operator) ==
    LET Having(level) == {i \in DOMAIN levels[level] : levels[level][i].operator_ = operator}
        found == {level \in Levels : Having(level) # {}}
        first == Min(found)
    IN  IF found = {} THEN [precedence |-> -1, associativity |-> NULL]
        ELSE [precedence |-> first,
              associativity |-> levels[first][Min(Having(first))].associativity]

-----------------------------------------------------------------------------
Registration(level, operators, associativity) ==
    [i \in DOMAIN operators |->
        [level |-> level, operator |-> operators[i], associativity |-> associativity]]

ApplyRegistration == Registration(apply_level, <<" ">>, "left")

\* The default operators; those that are not ASCII by a name for them, the
\* prefix operator for negation by "unary-", as the code calls it.
DefaultRegistrations == FlattenSeq(<<
    Registration(32, <<".">>, "left"), Registration(31, <<"_", "^">>, "right"),
    Registration(30, <<"**">>, "right"), Registration(29, <<"*", "dot*", "/">>, "left"),
    Registration(28, <<"cross">>, "right"), Registration(27, <<":">>, "right"),
    Registration(26, <<"'">>, "prefix"), Registration(23, <<"++">>, "left"),
    Registration(22, <<"+">>, "left"), Registration(22, <<"unary-">>, "prefix"),
    Registration(22, <<"-">>, "left"), Registration(21, <<"%">>, "left"),
    Registration(16, <<"cap">>, "left"), Registration(15, <<"cup">>, "left"),
    Registration(14, <<"in set", "subset", "supset", "subseteq", "supseteq">>, "none"),
    Registration(10, <<"=", "=?", "/=">>, "none"),
    Registration(9, <<"<", "<=", ">", ">=", "leq", "geq">>, "none"),
    Registration(8, <<"&&", "and">>, "left"), Registration(7, <<"||", "or">>, "left"),
    Registration(6, <<",">>, "right"), Registration(5, <<"$">>, "right"),
    Registration(4, <<"elif", "else">>, "right"), Registration(3, <<"|">>, "left"),
    Registration(2, <<"=>", ";", "?;">>, "left"), Registration(1, <<"\\">>, "prefix"),
    Registration(0, <<"let", "let!", "import">>, "prefix") >>)

\* The operators that a list of levels names, the tightest level first.
listedRegistrations(source) ==
    FlattenSeq(FlattenSeq([i \in 1 .. (IF Len(source) < 37 THEN Len(source) ELSE 37) |->
        [j \in DOMAIN source[i] |->
            Registration(37 - i, <<source[i][j].operator>>, source[i][j].associativity)]]))

\* legacyOPLFrom5DOPL: the registrations in their order.  The empty list stands
\* for the defaults.
registrations(source) ==
    ApplyRegistration \o
    (IF source = <<>> THEN DefaultRegistrations ELSE listedRegistrations(source))

legacyOPLFrom5DOPL(source) ==
    FoldLeft(LAMBDA levels, r : cons(levels, r.level, r.operator, r.associativity),
             [level \in Levels |-> <<>>], registrations(source))
=============================================================================
